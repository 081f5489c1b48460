------------------------- MODULE ThreadSafeWrapper -------------------------
(***************************************************************************)
(* icThreadSafeWrapper (libs/concurrent): an item shared by threads.       *)
(* Readers run concurrently, outside of the wrapper's mutex; a             *)
(* modification runs under the mutex and only when nobody reads, otherwise *)
(* it is left with the item and applied by the last reader.  The item hangs *)
(* on a reference that can be detached from the wrapper (released) while   *)
(* it is being read; the last reader then destroys it.                     *)
(*                                                                         *)
(* An action is what a call does from taking the mutex to giving it back.  *)
(* An item is abstracted to the sequence of the modifications applied to   *)
(* it, a reference to its address: a destroyed one may be allocated again. *)
(***************************************************************************)
EXTENDS Naturals, Sequences, FiniteSets, Functions

CONSTANTS Thread,
          Ref,              \* addresses of icThreadSafeWrapperItemRef
          NoRef,            \* NULL
          Mod,              \* modifications, each requested at most once
          NoMod,
          AutoAssign,       \* autoAssignFunc is given to THREAD_SAFE_WRAPPER_INIT
          AutoRelease,      \* autoReleaseCheckFunc is given
          Releasable(_)     \* its answer for an item

ASSUME NoRefAssumption == NoRef \notin Ref
ASSUME NoModAssumption == NoMod \notin Mod
ASSUME ThreadAssumption == IsFiniteSet(Thread)
ASSUME FlagAssumption == AutoAssign \in BOOLEAN /\ AutoRelease \in BOOLEAN

VARIABLES ref,          \* privateData.ref
          live,         \* live[r]: r is allocated
          item,         \* item[r]: the modifications applied to the item of r, in order
          readerCount,  \* readerCount[r]
          pending,      \* pending[r]: pendingModifications
          pc,           \* pc[t]: where thread t is
          reads,        \* reads[t]: the reference t is reading
          seen,         \* seen[t]: the item of reads[t] when t began to read it
          asks,         \* asks[t]: the modification t waits for in threadSafeWrapperModifyItem
          future,       \* future[m]: the future of m
          applied,      \* applied[m]: how many times the function of m has run
          context       \* context[m]: who owns the context of m

vars == <<ref, live, item, readerCount, pending, pc, reads, seen, asks, future, applied, context>>

\* "await": about to look at its future.  "sleep": waiting on the future's condition.
Where == {"idle", "read", "await", "sleep"}

\* "open" covers a future nobody has completed, complete = FALSE.
Future == {"unused", "open", "applied", "discarded"}

Context == {"caller", "wrapper", "freed"}

Init ==
    /\ ref = NoRef
    /\ live = [r \in Ref |-> FALSE]
    /\ item = [r \in Ref |-> <<>>]
    /\ readerCount = [r \in Ref |-> 0]
    /\ pending = [r \in Ref |-> <<>>]
    /\ pc = [t \in Thread |-> "idle"]
    /\ reads = [t \in Thread |-> NoRef]
    /\ seen = [t \in Thread |-> <<>>]
    /\ asks = [t \in Thread |-> NoMod]
    /\ future = [m \in Mod |-> "unused"]
    /\ applied = [m \in Mod |-> 0]
    /\ context = [m \in Mod |-> "caller"]

-----------------------------------------------------------------------------
(***************************************************************************)
(* What happens to a reference inside a critical section, as a state       *)
(* transformer: h is a record of the wrapper's reference and of the        *)
(* fields of every reference, with what becomes of the modifications.      *)
(***************************************************************************)
Heap == [ref |-> ref, live |-> live, item |-> item, readerCount |-> readerCount,
         pending |-> pending, future |-> future, applied |-> applied, context |-> context]

\* setFutureComplete for the modifications M whose future is open: it forgets the future
\* (info->future = NULL), so the second call of destroyPendingModificationFunc is idle.
Complete(f, M, how) == [m \in Mod |-> IF m \in M /\ f[m] = "open" THEN how ELSE f[m]]

\* linkedListDestroy of a list with the modifications M: the contexts are freed.
FreeContexts(c, M) == [m \in Mod |-> IF m \in M THEN "freed" ELSE c[m]]

\* Forgets the futures of the modifications that are discarded with the item.
DestroyRefSilently(h, r) ==
    [h EXCEPT !.live[r] = FALSE, !.pending[r] = <<>>, !.item[r] = <<>>,
              !.context = FreeContexts(h.context, Range(h.pending[r]))]

\* destroyRef: what is still pending is discarded.
DestroyRef(h, r) ==
    [h EXCEPT !.live[r] = FALSE, !.pending[r] = <<>>, !.item[r] = <<>>,
              !.future = Complete(h.future, Range(h.pending[r]), "discarded"),
              !.context = FreeContexts(h.context, Range(h.pending[r]))]

\* The function of every modification in M runs once on the item of r, in the order of s.
RunOn(h, r, s) ==
    [h EXCEPT !.item[r] = @ \o s,
              !.applied = [m \in Mod |-> IF m \in Range(s) THEN h.applied[m] + 1 ELSE h.applied[m]]]

\* Keeps the list of modifications that have been applied.
ApplyModificationsKeeping(h, r) ==
    [RunOn(h, r, h.pending[r]) EXCEPT
        !.future = Complete(h.future, Range(h.pending[r]), "applied")]

ApplyModifications(h, r) ==
    [RunOn(h, r, h.pending[r]) EXCEPT
        !.pending[r] = <<>>,
        !.future = Complete(h.future, Range(h.pending[r]), "applied"),
        !.context = FreeContexts(h.context, Range(h.pending[r]))]

\* postModificationCheckRelease
PostModificationCheckRelease(h, r) ==
    IF AutoRelease /\ Releasable(h.item[r])
    THEN [DestroyRef(h, r) EXCEPT !.ref = IF h.ref = r THEN NoRef ELSE h.ref]
    ELSE h

\* getRef: the wrapper's reference is h.ref afterwards.
GetRef(h) ==
    IF h.ref # NoRef /\ h.readerCount[h.ref] = 0
    THEN PostModificationCheckRelease(ApplyModifications(h, h.ref), h.ref)
    ELSE h

\* createRef at a free address r, with a new item.
CreateRef(h, r) ==
    [h EXCEPT !.ref = r, !.live[r] = TRUE, !.item[r] = <<>>, !.readerCount[r] = 0,
              !.pending[r] = <<>>]

\* The state after a critical section that leaves h.
Becomes(h) ==
    /\ ref' = h.ref
    /\ live' = h.live
    /\ item' = h.item
    /\ readerCount' = h.readerCount
    /\ pending' = h.pending
    /\ future' = h.future
    /\ applied' = h.applied
    /\ context' = h.context

\* pthread_cond_broadcast on the future of every modification that was completed.
Awakened(p) ==
    [t \in Thread |-> IF p[t] = "sleep" /\ future'[asks[t]] # "open" THEN "await" ELSE p[t]]

-----------------------------------------------------------------------------
\* threadSafeWrapperAssignItem
AssignItem(t, r) ==
    /\ pc[t] = "idle"
    /\ ref = NoRef
    /\ ~live[r]
    /\ Becomes(CreateRef(Heap, r))
    /\ UNCHANGED <<pc, reads, seen, asks>>

\* threadSafeWrapperAssignItemIfReleased
AssignItemIfReleased(t, r) ==
    /\ pc[t] = "idle"
    /\ ~live[r]
    /\ LET h == GetRef(Heap)
       IN  Becomes(IF h.ref = NoRef THEN CreateRef(h, r) ELSE h)
    /\ pc' = Awakened(pc)
    /\ UNCHANGED <<reads, seen, asks>>

\* Destroys the item although it is being read.
DetachNow(h) == [DestroyRef(h, h.ref) EXCEPT !.ref = NoRef]

\* An item without readers is destroyed, one with readers is left to the last of them.
Detach(h) ==
    [IF h.readerCount[h.ref] = 0 THEN DestroyRef(h, h.ref) ELSE h EXCEPT !.ref = NoRef]

\* threadSafeWrapperConditionalReleaseItem (and, when the check always agrees,
\* threadSafeWrapperReleaseItem); the answer of the check is agreed.
ConditionalReleaseItem(t, agreed) ==
    /\ pc[t] = "idle"
    /\ LET h == GetRef(Heap)
       IN  Becomes(IF h.ref # NoRef /\ agreed THEN Detach(h) ELSE h)
    /\ pc' = Awakened(pc)
    /\ UNCHANGED <<reads, seen, asks>>

\* threadSafeWrapperReadItem until it releases the mutex to call readFunc.  Without an
\* item it returns FALSE.
ReadBegin(t) ==
    /\ pc[t] = "idle"
    /\ LET h == GetRef(Heap)
       IN  IF h.ref = NoRef
           THEN /\ Becomes(h)
                /\ pc' = Awakened(pc)
                /\ UNCHANGED <<reads, seen>>
           ELSE /\ Becomes([h EXCEPT !.readerCount[h.ref] = @ + 1])
                /\ pc' = [Awakened(pc) EXCEPT ![t] = "read"]
                /\ reads' = [reads EXCEPT ![t] = h.ref]
                /\ seen' = [seen EXCEPT ![t] = h.item[h.ref]]
    /\ UNCHANGED asks

\* Leaves what was postponed to whoever comes next.
LastReaderIdle(h, r) == IF h.ref # r THEN DestroyRef(h, r) ELSE h

\* The reader is the last: a released item is destroyed, otherwise the modifications that
\* waited for it are applied.
LastReader(h, r) ==
    IF h.ref # r THEN DestroyRef(h, r)
    ELSE IF h.pending[r] # <<>> THEN PostModificationCheckRelease(ApplyModifications(h, r), r)
    ELSE h

\* threadSafeWrapperReadItem after readFunc.
ReadEnd(t) ==
    /\ pc[t] = "read"
    /\ LET r == reads[t]
           h == [Heap EXCEPT !.readerCount[r] = @ - 1]
       IN  Becomes(IF h.readerCount[r] = 0 THEN LastReader(h, r) ELSE h)
    /\ pc' = [Awakened(pc) EXCEPT ![t] = "idle"]
    /\ reads' = [reads EXCEPT ![t] = NoRef]
    /\ seen' = [seen EXCEPT ![t] = <<>>]
    /\ UNCHANGED asks

\* The reference on which threadSafeWrapperEnqueueModification works; r is a free address.
RefForModification(h, r) == IF h.ref = NoRef /\ AutoAssign THEN CreateRef(h, r) ELSE h

\* The modification runs at once.
ApplyNow(h, m) ==
    [PostModificationCheckRelease(RunOn(h, h.ref, <<m>>), h.ref) EXCEPT
        !.future[m] = "applied", !.context[m] = "freed"]

Postpone(h, m) ==
    [h EXCEPT !.pending[h.ref] = Append(@, m), !.future[m] = "open", !.context[m] = "wrapper"]

\* Runs the modification whoever is reading.
EnqueueHasty(h, m) ==
    IF h.ref = NoRef THEN [h EXCEPT !.context[m] = "freed"] ELSE ApplyNow(h, m)

\* A request that finds no item fails, and its context is freed.
Enqueue(h, m) ==
    IF h.ref = NoRef THEN [h EXCEPT !.context[m] = "freed"]
    ELSE IF h.readerCount[h.ref] = 0 THEN ApplyNow(h, m)
    ELSE Postpone(h, m)

\* threadSafeWrapperEnqueueModification; with waits, the first half of
\* threadSafeWrapperModifyItem.
EnqueueModification(t, m, r, waits) ==
    /\ pc[t] = "idle"
    /\ context[m] = "caller"
    /\ ~live[r]
    /\ LET h == Enqueue(RefForModification(GetRef(Heap), r), m)
       IN  /\ Becomes(h)
           /\ pc' = [Awakened(pc) EXCEPT ![t] = IF waits /\ h.future[m] # "unused"
                                                THEN "await" ELSE "idle"]
           /\ asks' = [asks EXCEPT ![t] = IF waits /\ h.future[m] # "unused" THEN m ELSE NoMod]
    /\ UNCHANGED <<reads, seen>>

\* threadSafeWrapperFutureAwait once it holds the mutex of the future: it returns if the
\* future is complete, otherwise it waits on its condition.
FutureAwait(t) ==
    /\ pc[t] = "await"
    /\ \/ /\ future[asks[t]] = "open"
          /\ pc' = [pc EXCEPT ![t] = "sleep"]
          /\ UNCHANGED asks
       \/ /\ future[asks[t]] # "open"
          /\ pc' = [pc EXCEPT ![t] = "idle"]
          /\ asks' = [asks EXCEPT ![t] = NoMod]
    /\ UNCHANGED <<ref, live, item, readerCount, pending, reads, seen, future, applied, context>>

\* The ten seconds of one wait are over, or it wakes for no reason; ModifyItem tries again.
AwaitAgain(t) ==
    /\ pc[t] = "sleep"
    /\ pc' = [pc EXCEPT ![t] = "await"]
    /\ UNCHANGED <<ref, live, item, readerCount, pending, reads, seen, asks, future, applied,
                   context>>

Next ==
    \E t \in Thread :
        \/ \E r \in Ref : AssignItem(t, r)
        \/ \E r \in Ref : AssignItemIfReleased(t, r)
        \/ \E agreed \in BOOLEAN : ConditionalReleaseItem(t, agreed)
        \/ ReadBegin(t)
        \/ ReadEnd(t)
        \/ \E m \in Mod, r \in Ref, waits \in BOOLEAN : EnqueueModification(t, m, r, waits)
        \/ FutureAwait(t)
        \/ AwaitAgain(t)

Spec == Init /\ [][Next]_vars

\* A read callback returns, and a thread that can take a future's mutex does.
Fairness == \A t \in Thread : WF_vars(ReadEnd(t)) /\ WF_vars(FutureAwait(t))

FairSpec == Spec /\ Fairness
-----------------------------------------------------------------------------
TypeOK ==
    /\ ref \in Ref \cup {NoRef}
    /\ live \in [Ref -> BOOLEAN]
    /\ item \in [Ref -> Seq(Mod)]
    /\ readerCount \in [Ref -> Nat]
    /\ pending \in [Ref -> Seq(Mod)]
    /\ pc \in [Thread -> Where]
    /\ reads \in [Thread -> Ref \cup {NoRef}]
    /\ seen \in [Thread -> Seq(Mod)]
    /\ asks \in [Thread -> Mod \cup {NoMod}]
    /\ future \in [Mod -> Future]
    /\ applied \in [Mod -> Nat]
    /\ context \in [Mod -> Context]

\* The threads that are in readFunc with reference r.
Readers(r) == {t \in Thread : pc[t] = "read" /\ reads[t] = r}

\* For as long as readFunc runs, without the mutex, its item exists and nobody modifies it:
\* whatever other threads assign, release, modify or stop reading meanwhile.
ReadStable ==
    \A t \in Thread : pc[t] = "read" => /\ live[reads[t]]
                                        /\ item[reads[t]] = seen[t]

\* A modification runs at most once, and its future, which threadSafeWrapperModifyItem
\* reports to its caller, says whether it did: also when the item is released while the
\* modification waits for the readers.
AppliedOnce ==
    \A m \in Mod : /\ applied[m] = IF future[m] = "applied" THEN 1 ELSE 0
                   /\ future[m] \in {"applied", "discarded"} => context[m] = "freed"

\* Nothing is forgotten: a reference that is allocated is the wrapper's or has readers, the
\* last of whom will find it; modifications wait only for readers; a context belongs to the
\* wrapper exactly while its modification waits with a reference.
NothingForgotten ==
    /\ \A r \in Ref : /\ live[r] <=> (r = ref \/ readerCount[r] > 0)
                      /\ pending[r] # <<>> => readerCount[r] > 0
    /\ \A m \in Mod : context[m] = "wrapper" <=> \E r \in Ref : m \in Range(pending[r])

\* threadSafeWrapperModifyItem returns if the readers pause again and again (its comment
\* says that it may wait for as long as they do not), and also if the item is released
\* under it.
ModifyReturns ==
    []<>(\A t \in Thread : pc[t] # "read") =>
        \A t \in Thread : pc[t] \in {"await", "sleep"} ~> pc[t] = "idle"
=============================================================================
