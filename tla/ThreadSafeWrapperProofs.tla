---------------------- MODULE ThreadSafeWrapperProofs ----------------------
(***************************************************************************)
(* The promises of icThreadSafeWrapper to readers and to those who modify, *)
(* for any number of threads, addresses and modifications and whatever the *)
(* functions given to THREAD_SAFE_WRAPPER_INIT answer.  What a critical    *)
(* section does is a composition of state transformers, so most lemmas say *)
(* that a transformer keeps a heap sound and leaves alone what is read.    *)
(***************************************************************************)
EXTENDS ThreadSafeWrapper, FiniteSetTheorems, TLAPS

USE Zenon

\* A heap: what Becomes takes.
Typed(h) ==
  /\ DOMAIN h = {"ref", "live", "item", "readerCount", "pending", "future", "applied", "context"}
  /\ h.ref \in Ref \cup {NoRef}
  /\ h.live \in [Ref -> BOOLEAN]
  /\ h.item \in [Ref -> Seq(Mod)]
  /\ h.readerCount \in [Ref -> Nat]
  /\ h.pending \in [Ref -> Seq(Mod)]
  /\ h.future \in [Mod -> Future]
  /\ h.applied \in [Mod -> Nat]
  /\ h.context \in [Mod -> Context]

\* A reference is allocated while it is the wrapper's or is read, and modifications wait only
\* where somebody reads; w is a reference whose last reader is about to leave.
Held(h, w) ==
    \A r \in Ref : /\ h.live[r] <=> (r = h.ref \/ h.readerCount[r] > 0 \/ r = w)
                   /\ h.pending[r] # <<>> => h.readerCount[r] > 0 \/ r = w

\* The context of a modification is the wrapper's while it waits, with one reference.
Waiting(h) ==
    /\ \A m \in Mod : h.context[m] = "wrapper" <=> \E r \in Ref : m \in Range(h.pending[r])
    /\ \A r, s \in Ref : r # s => Range(h.pending[r]) \cap Range(h.pending[s]) = {}

\* The future of a modification tells what became of it.
Told(h) ==
    \A m \in Mod : /\ h.applied[m] = IF h.future[m] = "applied" THEN 1 ELSE 0
                   /\ h.future[m] = "open" <=> h.context[m] = "wrapper"
                   /\ h.context[m] = "caller" => h.future[m] = "unused"

Sound(h, w) == Typed(h) /\ Held(h, w) /\ Waiting(h) /\ Told(h)

\* A critical section that turns h into g leaves alone what is being read.
Leaves(h, g) ==
    \A r \in Ref : /\ g.readerCount[r] = h.readerCount[r]
                   /\ h.readerCount[r] > 0 => g.item[r] = h.item[r]

\* It allocates nothing and takes no context.
TakesNothing(h, g) ==
    /\ \A r \in Ref : ~h.live[r] => ~g.live[r]
    /\ \A m \in Mod : h.context[m] = "caller" => g.context[m] = "caller"

-----------------------------------------------------------------------------
\* What is in a list of modifications.
LEMMA RangeFacts ==
    /\ Range(<<>>) = {}
    /\ \A s \in Seq(Mod) : Range(s) \subseteq Mod /\ (s # <<>> => Range(s) # {})
    /\ \A s \in Seq(Mod), m \in Mod : /\ Append(s, m) \in Seq(Mod)
                                      /\ Range(Append(s, m)) = Range(s) \cup {m}
    /\ \A s, u \in Seq(Mod) : s \o u \in Seq(Mod)
    /\ \A m \in Mod : <<m>> \in Seq(Mod) /\ Range(<<m>>) = {m}
<1>1. Range(<<>>) = {}
  BY SMT DEF Range
<1>2. ASSUME NEW s \in Seq(Mod)
      PROVE  Range(s) \subseteq Mod /\ (s # <<>> => Range(s) # {})
  <2>1. \A i \in DOMAIN s : s[i] \in Mod
    BY SMT
  <2>2. s # <<>> => 1 \in DOMAIN s
    BY SMT
  <2> QED
    BY <2>1, <2>2 DEF Range
<1>3. ASSUME NEW s \in Seq(Mod), NEW m \in Mod
      PROVE  Append(s, m) \in Seq(Mod) /\ Range(Append(s, m)) = Range(s) \cup {m}
  <2> DEFINE u == Append(s, m)
  <2>1. /\ u \in Seq(Mod)
        /\ \A i \in DOMAIN s : i \in DOMAIN u /\ u[i] = s[i]
        /\ Len(s) + 1 \in DOMAIN u /\ u[Len(s) + 1] = m
        /\ \A i \in DOMAIN u : i \in DOMAIN s \/ i = Len(s) + 1
    BY SMT
  <2> HIDE DEF u
  <2>2. Range(u) = Range(s) \cup {m}
    BY <2>1 DEF Range
  <2> QED
    BY <2>1, <2>2 DEF u
<1>4. \A s, u \in Seq(Mod) : s \o u \in Seq(Mod)
  BY SMT
<1>5. \A m \in Mod : <<m>> \in Seq(Mod) /\ Range(<<m>>) = {m}
  BY SMT DEF Range
<1> QED
  BY <1>1, <1>2, <1>3, <1>4, <1>5

\* What is kept by a critical section, or by a part of it, that turns h into g.
Keeps(h, g) == Sound(g, NoRef) /\ Leaves(h, g) /\ TakesNothing(h, g)

\* g is h with reference r destroyed, and forgotten by the wrapper.
Dropped(h, g, r) ==
    /\ Typed(g)
    /\ g.ref = IF h.ref = r THEN NoRef ELSE h.ref
    /\ g.readerCount = h.readerCount
    /\ g.applied = h.applied
    /\ g.live = [h.live EXCEPT ![r] = FALSE]
    /\ g.pending = [h.pending EXCEPT ![r] = <<>>]
    /\ g.item = [h.item EXCEPT ![r] = <<>>]
    /\ g.future = Complete(h.future, Range(h.pending[r]), "discarded")
    /\ g.context = FreeContexts(h.context, Range(h.pending[r]))

\* destroyRef does that, whether the wrapper knew the reference or not.
LEMMA DestroyDrops ==
    ASSUME NEW h, Typed(h), NEW r \in Ref, NEW n, n = IF h.ref = r THEN NoRef ELSE h.ref,
           NEW g, g = [DestroyRef(h, r) EXCEPT !.ref = n]
    PROVE  Dropped(h, g, r)
<1>1. /\ Complete(h.future, Range(h.pending[r]), "discarded") \in [Mod -> Future]
      /\ FreeContexts(h.context, Range(h.pending[r])) \in [Mod -> Context]
  BY SMT DEF Typed, Complete, FreeContexts, Future, Context
<1>2. n \in Ref \cup {NoRef}
  BY DEF Typed
<1>3. Typed(g)
  BY <1>1, <1>2, SMT DEF DestroyRef, Typed
<1>4. /\ g.ref = n /\ g.readerCount = h.readerCount /\ g.applied = h.applied
      /\ g.live = [h.live EXCEPT ![r] = FALSE]
      /\ g.pending = [h.pending EXCEPT ![r] = <<>>]
      /\ g.item = [h.item EXCEPT ![r] = <<>>]
      /\ g.future = Complete(h.future, Range(h.pending[r]), "discarded")
      /\ g.context = FreeContexts(h.context, Range(h.pending[r]))
  BY SMT DEF DestroyRef, Typed
<1> QED
  BY <1>3, <1>4 DEF Dropped

\* The modifications that waited with r wait no more.
LEMMA EmptiedWaits ==
    ASSUME NEW h, NEW g, NEW r \in Ref, Waiting(h), g.pending[r] = <<>>,
           \A x \in Ref : x # r => g.pending[x] = h.pending[x],
           \A m \in Mod : g.context[m] = IF m \in Range(h.pending[r]) THEN "freed"
                                                                      ELSE h.context[m]
    PROVE  Waiting(g)
<1>1. Range(g.pending[r]) = {}
  BY RangeFacts
<1>2. \A x \in Ref : x # r => Range(h.pending[r]) \cap Range(h.pending[x]) = {}
  BY DEF Waiting
<1>3. ASSUME NEW m \in Mod
      PROVE  g.context[m] = "wrapper" <=> \E x \in Ref : m \in Range(g.pending[x])
  <2>1. CASE m \in Range(h.pending[r])
    BY <1>1, <1>2, <2>1
  <2>2. CASE m \notin Range(h.pending[r])
    <3>1. g.context[m] = h.context[m]
      BY <2>2
    <3>2. (\E x \in Ref : m \in Range(g.pending[x])) <=> \E x \in Ref : m \in Range(h.pending[x])
      BY <1>1, <2>2
    <3> QED
      BY <3>1, <3>2 DEF Waiting
  <2> QED
    BY <2>1, <2>2
<1>4. ASSUME NEW x \in Ref, NEW y \in Ref, x # y
      PROVE  Range(g.pending[x]) \cap Range(g.pending[y]) = {}
  BY <1>1, <1>4 DEF Waiting
<1> QED
  BY <1>3, <1>4 DEF Waiting

\* A reference that is destroyed without readers takes nothing with it but what waited for
\* it, and that is discarded.
LEMMA DropKeeps ==
    ASSUME NEW r \in Ref, NEW w \in {r, NoRef}, NEW h, Sound(h, w), h.readerCount[r] = 0,
           NEW g, Dropped(h, g, r)
    PROVE  Keeps(h, g)
<1> USE NoRefAssumption
<1>0. Typed(h) /\ Held(h, w) /\ Waiting(h) /\ Told(h) /\ Typed(g)
  BY DEF Sound, Dropped
<1>1. /\ \A x \in Ref : /\ g.live[x] = IF x = r THEN FALSE ELSE h.live[x]
                        /\ g.pending[x] = IF x = r THEN <<>> ELSE h.pending[x]
                        /\ g.item[x] = IF x = r THEN <<>> ELSE h.item[x]
                        /\ g.readerCount[x] = h.readerCount[x]
      /\ g.ref = IF h.ref = r THEN NoRef ELSE h.ref
      /\ ~(h.readerCount[r] > 0)
  <2>1. ~(0 > 0)
    BY SMT
  <2> QED
    BY <1>0, <2>1 DEF Typed, Dropped
<1>2. \A m \in Mod : /\ g.applied[m] = h.applied[m]
                     /\ g.future[m] = IF m \in Range(h.pending[r]) /\ h.future[m] = "open"
                                      THEN "discarded" ELSE h.future[m]
                     /\ g.context[m] = IF m \in Range(h.pending[r]) THEN "freed"
                                                                    ELSE h.context[m]
  BY <1>0, SMT DEF Typed, Dropped, Complete, FreeContexts
<1>3. \A m \in Mod : m \in Range(h.pending[r]) => h.context[m] = "wrapper" /\ h.future[m] = "open"
  BY <1>0 DEF Waiting, Told
<1>4. Held(g, NoRef)
  <2> SUFFICES ASSUME NEW x \in Ref
               PROVE  /\ g.live[x] <=> (x = g.ref \/ g.readerCount[x] > 0 \/ x = NoRef)
                      /\ g.pending[x] # <<>> => g.readerCount[x] > 0 \/ x = NoRef
    BY DEF Held
  <2>1. CASE x = r
    BY <1>1, <2>1
  <2>2. CASE x # r
    <3>1. x # w /\ (x = g.ref <=> x = h.ref)
      BY <1>1, <2>2
    <3> QED
      BY <1>0, <1>1, <2>2, <3>1 DEF Held
  <2> QED
    BY <2>1, <2>2
<1>5. Waiting(g)
  <2>1. g.pending[r] = <<>> /\ \A x \in Ref : x # r => g.pending[x] = h.pending[x]
    BY <1>1
  <2>2. \A m \in Mod : g.context[m] = IF m \in Range(h.pending[r]) THEN "freed" ELSE h.context[m]
    BY <1>2
  <2> QED
    BY <1>0, <2>1, <2>2, EmptiedWaits
<1>6. Told(g)
  BY <1>0, <1>2, <1>3 DEF Told
<1>7. Leaves(h, g)
  BY <1>1 DEF Leaves
<1>8. TakesNothing(h, g)
  BY <1>1, <1>2, <1>3 DEF TakesNothing
<1> QED
  BY <1>0, <1>4, <1>5, <1>6, <1>7, <1>8 DEF Keeps, Sound

\* The modifications that wait are applied to the wrapper's item, which nobody reads.
LEMMA ApplyKeeps ==
    ASSUME NEW r \in Ref, NEW w \in {r, NoRef}, NEW h, Sound(h, w), h.readerCount[r] = 0,
           h.ref = r, NEW g, g = ApplyModifications(h, r)
    PROVE  Keeps(h, g) /\ g.ref = r
<1> USE NoRefAssumption
<1> DEFINE a == [m \in Mod |-> IF m \in Range(h.pending[r]) THEN h.applied[m] + 1 ELSE h.applied[m]]
<1>0. Typed(h) /\ Held(h, w) /\ Waiting(h) /\ Told(h)
  BY DEF Sound
<1>1. /\ Complete(h.future, Range(h.pending[r]), "applied") \in [Mod -> Future]
      /\ FreeContexts(h.context, Range(h.pending[r])) \in [Mod -> Context]
      /\ a \in [Mod -> Nat]
  BY <1>0, SMT DEF Typed, Complete, FreeContexts, Future, Context
<1>2. h.item[r] \o h.pending[r] \in Seq(Mod)
  BY <1>0, RangeFacts DEF Typed
<1>3. /\ g.ref = h.ref /\ g.readerCount = h.readerCount /\ g.live = h.live
      /\ g.item = [h.item EXCEPT ![r] = h.item[r] \o h.pending[r]]
      /\ g.applied = a
      /\ g.pending = [h.pending EXCEPT ![r] = <<>>]
      /\ g.future = Complete(h.future, Range(h.pending[r]), "applied")
      /\ g.context = FreeContexts(h.context, Range(h.pending[r]))
      /\ DOMAIN g = DOMAIN h
  BY <1>0, SMT DEF ApplyModifications, RunOn, Typed
<1>4. Typed(g)
  <2>1. [h.item EXCEPT ![r] = h.item[r] \o h.pending[r]] \in [Ref -> Seq(Mod)]
    BY <1>0, <1>2 DEF Typed
  <2>2. [h.pending EXCEPT ![r] = <<>>] \in [Ref -> Seq(Mod)]
    BY <1>0, SMT DEF Typed
  <2> QED
    BY <1>0, <1>1, <1>3, <2>1, <2>2 DEF Typed
<1>5. /\ \A x \in Ref : /\ g.live[x] = h.live[x]
                        /\ g.pending[x] = IF x = r THEN <<>> ELSE h.pending[x]
                        /\ x # r => g.item[x] = h.item[x]
                        /\ g.readerCount[x] = h.readerCount[x]
      /\ ~(h.readerCount[r] > 0)
  <2>1. ~(0 > 0)
    BY SMT
  <2> QED
    BY <1>0, <1>3, <2>1 DEF Typed
<1>6. \A m \in Mod : /\ g.applied[m] = IF m \in Range(h.pending[r]) THEN h.applied[m] + 1 ELSE h.applied[m]
                     /\ g.future[m] = IF m \in Range(h.pending[r]) /\ h.future[m] = "open"
                                      THEN "applied" ELSE h.future[m]
                     /\ g.context[m] = IF m \in Range(h.pending[r]) THEN "freed" ELSE h.context[m]
  <2>1. /\ \A m \in Mod : a[m] = IF m \in Range(h.pending[r]) THEN h.applied[m] + 1 ELSE h.applied[m]
        /\ g.applied = a
    BY <1>3
  <2>2. \A m \in Mod : g.future[m] = IF m \in Range(h.pending[r]) /\ h.future[m] = "open"
                                     THEN "applied" ELSE h.future[m]
    BY <1>3 DEF Complete
  <2>3. \A m \in Mod : g.context[m] = IF m \in Range(h.pending[r]) THEN "freed" ELSE h.context[m]
    BY <1>3 DEF FreeContexts
  <2> QED
    BY <2>1, <2>2, <2>3
<1>7. \A m \in Mod : m \in Range(h.pending[r]) => /\ h.context[m] = "wrapper" /\ h.future[m] = "open"
                                /\ h.applied[m] + 1 = 1
  <2>1. \A m \in Mod : m \in Range(h.pending[r]) => h.context[m] = "wrapper" /\ h.future[m] = "open"
    BY <1>0 DEF Waiting, Told
  <2>2. \A m \in Mod : m \in Range(h.pending[r]) => h.applied[m] = 0
    BY <1>0, <2>1 DEF Told
  <2> QED
    BY <2>1, <2>2, SMT
<1> HIDE DEF a
<1>8. Held(g, NoRef)
  <2> SUFFICES ASSUME NEW x \in Ref
               PROVE  /\ g.live[x] <=> (x = g.ref \/ g.readerCount[x] > 0 \/ x = NoRef)
                      /\ g.pending[x] # <<>> => g.readerCount[x] > 0 \/ x = NoRef
    BY DEF Held
  <2>1. CASE x = r
    BY <1>0, <1>3, <1>5, <2>1 DEF Held
  <2>2. CASE x # r
    <3>1. x # w /\ x # g.ref /\ x # NoRef
      BY <1>3, <2>2
    <3> QED
      BY <1>0, <1>5, <2>2, <3>1 DEF Held
  <2> QED
    BY <2>1, <2>2
<1>9. Waiting(g)
  <2>1. g.pending[r] = <<>> /\ \A x \in Ref : x # r => g.pending[x] = h.pending[x]
    BY <1>5
  <2>2. \A m \in Mod : g.context[m] = IF m \in Range(h.pending[r]) THEN "freed" ELSE h.context[m]
    BY <1>6
  <2> QED
    BY <1>0, <2>1, <2>2, EmptiedWaits
<1>10. Told(g)
  <2> SUFFICES ASSUME NEW m \in Mod
               PROVE  /\ g.applied[m] = IF g.future[m] = "applied" THEN 1 ELSE 0
                      /\ g.future[m] = "open" <=> g.context[m] = "wrapper"
                      /\ g.context[m] = "caller" => g.future[m] = "unused"
    BY DEF Told
  <2>1. CASE m \in Range(h.pending[r])
    BY <1>6, <1>7, <2>1
  <2>2. CASE m \notin Range(h.pending[r])
    BY <1>0, <1>6, <2>2 DEF Told
  <2> QED
    BY <2>1, <2>2
<1>11. Leaves(h, g)
  BY <1>5 DEF Leaves
<1>12. TakesNothing(h, g)
  BY <1>5, <1>6, <1>7 DEF TakesNothing
<1> QED
  BY <1>3, <1>4, <1>8, <1>9, <1>10, <1>11, <1>12 DEF Keeps, Sound

\* postModificationCheckRelease
LEMMA PostKeeps ==
    ASSUME NEW r \in Ref, NEW h, Sound(h, NoRef), h.readerCount[r] = 0
    PROVE  Keeps(h, PostModificationCheckRelease(h, r))
<1> DEFINE n == IF h.ref = r THEN NoRef ELSE h.ref
           g == [DestroyRef(h, r) EXCEPT !.ref = n]
<1>1. CASE AutoRelease /\ Releasable(h.item[r])
  <2>1. PostModificationCheckRelease(h, r) = g
    BY <1>1 DEF PostModificationCheckRelease
  <2> HIDE DEF g
  <2>2. Typed(h)
    BY DEF Sound
  <2>3. Dropped(h, g, r)
    BY <2>2, DestroyDrops DEF g
  <2>4. NoRef \in {r, NoRef}
    OBVIOUS
  <2>5. Keeps(h, g)
    BY <2>3, <2>4, DropKeeps
  <2> QED
    BY <2>1, <2>5
<1>2. CASE ~(AutoRelease /\ Releasable(h.item[r]))
  <2>1. PostModificationCheckRelease(h, r) = h
    BY <1>2 DEF PostModificationCheckRelease
  <2>2. Keeps(h, h)
    BY DEF Keeps, Leaves, TakesNothing
  <2> QED
    BY <2>1, <2>2
<1> QED
  BY <1>1, <1>2

\* One part of a critical section after another.
LEMMA KeepsTransitive ==
    ASSUME NEW h, NEW k, NEW g, Keeps(h, k), Keeps(k, g)
    PROVE  Keeps(h, g)
<1>1. Leaves(h, g)
  BY DEF Keeps, Leaves
<1>2. TakesNothing(h, g)
  BY DEF Keeps, TakesNothing
<1> QED
  BY <1>1, <1>2 DEF Keeps

\* Apply what waits and see if the item is to be released.
LEMMA ApplyAndPostKeeps ==
    ASSUME NEW r \in Ref, NEW w \in {r, NoRef}, NEW h, Sound(h, w), h.readerCount[r] = 0,
           h.ref = r
    PROVE  Keeps(h, PostModificationCheckRelease(ApplyModifications(h, r), r))
<1> DEFINE k == ApplyModifications(h, r)
           g == PostModificationCheckRelease(k, r)
<1>1. Keeps(h, k)
  BY ApplyKeeps
<1>2. Sound(k, NoRef) /\ k.readerCount[r] = 0
  BY <1>1 DEF Keeps, Leaves
<1>3. Keeps(k, g)
  BY <1>2, PostKeeps
<1> QED
  BY <1>1, <1>3, KeepsTransitive

\* getRef
LEMMA GetRefKeeps ==
    ASSUME NEW h, Sound(h, NoRef)
    PROVE  Keeps(h, GetRef(h))
<1>1. CASE h.ref # NoRef /\ h.readerCount[h.ref] = 0
  <2>1. h.ref \in Ref /\ NoRef \in {h.ref, NoRef}
    BY <1>1 DEF Sound, Typed
  <2>2. GetRef(h) = PostModificationCheckRelease(ApplyModifications(h, h.ref), h.ref)
    BY <1>1 DEF GetRef
  <2> QED
    BY <1>1, <2>1, <2>2, ApplyAndPostKeeps
<1>2. CASE ~(h.ref # NoRef /\ h.readerCount[h.ref] = 0)
  <2>1. GetRef(h) = h
    BY <1>2 DEF GetRef
  <2>2. Keeps(h, h)
    BY DEF Keeps, Leaves, TakesNothing
  <2> QED
    BY <2>1, <2>2
<1> QED
  BY <1>1, <1>2

\* createRef at a free address, for a wrapper without an item.
LEMMA CreateKeeps ==
    ASSUME NEW h, Sound(h, NoRef), h.ref = NoRef, NEW r \in Ref, ~h.live[r],
           NEW g, g = CreateRef(h, r)
    PROVE  Sound(g, NoRef) /\ Leaves(h, g) /\ g.context = h.context
<1> USE NoRefAssumption
<1>0. Typed(h) /\ Held(h, NoRef) /\ Waiting(h) /\ Told(h)
  BY DEF Sound
<1>1. Typed(g)
  BY <1>0, SMT DEF CreateRef, Typed
<1>2. /\ g.ref = r /\ g.applied = h.applied /\ g.future = h.future /\ g.context = h.context
      /\ g.live = [h.live EXCEPT ![r] = TRUE]
      /\ g.item = [h.item EXCEPT ![r] = <<>>]
      /\ g.readerCount = [h.readerCount EXCEPT ![r] = 0]
      /\ g.pending = [h.pending EXCEPT ![r] = <<>>]
  BY <1>0, SMT DEF CreateRef, Typed
<1>3. h.readerCount[r] = 0 /\ h.pending[r] = <<>> /\ ~(0 > 0)
  <2>1. ~(h.readerCount[r] > 0) /\ h.pending[r] = <<>>
    BY <1>0 DEF Held
  <2>2. h.readerCount[r] \in Nat
    BY <1>0 DEF Typed
  <2> QED
    BY <2>1, <2>2, SMT
<1>4. \A x \in Ref : /\ g.live[x] = IF x = r THEN TRUE ELSE h.live[x]
                     /\ x # r => g.item[x] = h.item[x]
                     /\ g.readerCount[x] = h.readerCount[x]
                     /\ g.pending[x] = h.pending[x]
  <2>1. \A x \in Ref : g.live[x] = IF x = r THEN TRUE ELSE h.live[x]
    BY <1>0, <1>2 DEF Typed
  <2>2. \A x \in Ref : x # r => g.item[x] = h.item[x]
    BY <1>0, <1>2 DEF Typed
  <2>3. \A x \in Ref : g.readerCount[x] = h.readerCount[x]
    BY <1>0, <1>2, <1>3, SMT DEF Typed
  <2>4. \A x \in Ref : g.pending[x] = h.pending[x]
    BY <1>0, <1>2, <1>3 DEF Typed
  <2> QED
    BY <2>1, <2>2, <2>3, <2>4
<1>5. Held(g, NoRef)
  <2>1. g.ref = r
    BY <1>2
  <2> QED
    BY <1>0, <1>3, <1>4, <2>1 DEF Held
<1>6. Waiting(g) /\ Told(g)
  <2>1. \A m \in Mod : /\ g.applied[m] = h.applied[m] /\ g.future[m] = h.future[m]
                       /\ g.context[m] = h.context[m]
    BY <1>2
  <2>2. \A x \in Ref : g.pending[x] = h.pending[x]
    BY <1>4
  <2>3. Waiting(g)
    BY <1>0, <2>1, <2>2 DEF Waiting
  <2>4. Told(g)
    BY <1>0, <2>1 DEF Told
  <2> QED
    BY <2>3, <2>4
<1>8. Leaves(h, g)
  BY <1>3, <1>4 DEF Leaves
<1> QED
  BY <1>1, <1>2, <1>5, <1>6, <1>8 DEF Sound

\* The wrapper gives up its item, which stays while it is read.
LEMMA DetachKeeps ==
    ASSUME NEW h, Sound(h, NoRef), h.ref # NoRef
    PROVE  Sound(Detach(h), NoRef) /\ Leaves(h, Detach(h))
<1> USE NoRefAssumption
<1>0. Typed(h) /\ Held(h, NoRef) /\ Waiting(h) /\ Told(h) /\ h.ref \in Ref
  BY DEF Sound, Typed
<1>1. CASE h.readerCount[h.ref] = 0
  <2> DEFINE n == IF h.ref = h.ref THEN NoRef ELSE h.ref
             g == [DestroyRef(h, h.ref) EXCEPT !.ref = n]
  <2>1. Detach(h) = g
    BY <1>1 DEF Detach
  <2> HIDE DEF g
  <2>2. Dropped(h, g, h.ref)
    BY <1>0, DestroyDrops DEF g
  <2>3. NoRef \in {h.ref, NoRef}
    OBVIOUS
  <2>4. Keeps(h, g)
    BY <1>0, <1>1, <2>2, <2>3, DropKeeps
  <2> QED
    BY <2>1, <2>4 DEF Keeps
<1>2. CASE h.readerCount[h.ref] # 0
  <2> DEFINE g == Detach(h)
  <2>1. g = [h EXCEPT !.ref = NoRef]
    BY <1>2 DEF Detach
  <2> HIDE DEF g
  <2>2. /\ Typed(g) /\ g.ref = NoRef /\ g.live = h.live /\ g.item = h.item
        /\ g.readerCount = h.readerCount /\ g.pending = h.pending /\ g.future = h.future
        /\ g.applied = h.applied /\ g.context = h.context
    BY <1>0, <2>1, SMT DEF Typed
  <2>3. h.readerCount[h.ref] > 0
    BY <1>0, <1>2, SMT DEF Typed
  <2>4. Held(g, NoRef)
    BY <1>0, <2>2, <2>3 DEF Held
  <2>5. Waiting(g)
    BY <1>0, <2>2 DEF Waiting
  <2>6. Told(g)
    BY <1>0, <2>2 DEF Told
  <2>7. Leaves(h, g)
    BY <2>2 DEF Leaves
  <2> QED
    BY <2>2, <2>4, <2>5, <2>6, <2>7 DEF Sound, g
<1> QED
  BY <1>1, <1>2

\* The last reader destroys an item that the wrapper gave up and otherwise applies what
\* waited for it.
LEMMA LastReaderKeeps ==
    ASSUME NEW r \in Ref, NEW h, Sound(h, r), h.readerCount[r] = 0
    PROVE  Sound(LastReader(h, r), NoRef) /\ Leaves(h, LastReader(h, r))
<1> USE NoRefAssumption
<1>0. Typed(h) /\ Held(h, r) /\ Waiting(h) /\ Told(h) /\ r \in {r, NoRef}
  BY DEF Sound
<1>1. CASE h.ref # r
  <2> DEFINE k == DestroyRef(h, r)
  <2>1. LastReader(h, r) = k
    BY <1>1 DEF LastReader
  <2>2. /\ Complete(h.future, Range(h.pending[r]), "discarded") \in [Mod -> Future]
        /\ FreeContexts(h.context, Range(h.pending[r])) \in [Mod -> Context]
    BY <1>0, SMT DEF Typed, Complete, FreeContexts, Future, Context
  <2>3. Typed(k)
    BY <1>0, <2>2, SMT DEF DestroyRef, Typed
  <2>4. /\ k.ref = h.ref /\ k.readerCount = h.readerCount /\ k.applied = h.applied
        /\ k.live = [h.live EXCEPT ![r] = FALSE]
        /\ k.pending = [h.pending EXCEPT ![r] = <<>>]
        /\ k.item = [h.item EXCEPT ![r] = <<>>]
        /\ k.future = Complete(h.future, Range(h.pending[r]), "discarded")
        /\ k.context = FreeContexts(h.context, Range(h.pending[r]))
    BY <1>0, SMT DEF DestroyRef, Typed
  <2> HIDE DEF k
  <2>6. Dropped(h, k, r)
    BY <1>1, <2>3, <2>4 DEF Dropped
  <2>7. Keeps(h, k)
    BY <1>0, <2>6, DropKeeps
  <2> QED
    BY <2>1, <2>7 DEF Keeps
<1>2. CASE h.ref = r /\ h.pending[r] # <<>>
  <2>1. LastReader(h, r) = PostModificationCheckRelease(ApplyModifications(h, r), r)
    BY <1>2 DEF LastReader
  <2>2. Keeps(h, PostModificationCheckRelease(ApplyModifications(h, r), r))
    BY <1>0, <1>2, ApplyAndPostKeeps
  <2> QED
    BY <2>1, <2>2 DEF Keeps
<1>3. CASE h.ref = r /\ h.pending[r] = <<>>
  <2>1. LastReader(h, r) = h
    BY <1>3 DEF LastReader
  <2>2. Held(h, NoRef)
    BY <1>0, <1>3 DEF Held
  <2> QED
    BY <1>0, <2>1, <2>2 DEF Sound, Leaves
<1> QED
  BY <1>1, <1>2, <1>3

\* With an empty list nothing is completed and nothing freed.
LEMMA NothingWaits ==
    /\ \A f \in [Mod -> Future] : Complete(f, {}, "discarded") = f
    /\ \A c \in [Mod -> Context] : FreeContexts(c, {}) = c
BY SMT DEF Complete, FreeContexts

\* The modification runs at once: nobody reads and nothing waits.
LEMMA ApplyNowKeeps ==
    ASSUME NEW h, Sound(h, NoRef), h.ref # NoRef, h.readerCount[h.ref] = 0,
           NEW m \in Mod, h.context[m] = "caller"
    PROVE  Sound(ApplyNow(h, m), NoRef) /\ Leaves(h, ApplyNow(h, m))
<1> USE NoRefAssumption
<1> DEFINE r == h.ref
           p == RunOn(h, r, <<m>>)
           k == [p EXCEPT !.future[m] = "applied", !.context[m] = "freed"]
           a == [x \in Mod |-> IF x \in Range(<<m>>) THEN h.applied[x] + 1 ELSE h.applied[x]]
<1>0. Typed(h) /\ Held(h, NoRef) /\ Waiting(h) /\ Told(h) /\ r \in Ref
  BY DEF Sound, Typed
<1>1. h.pending[r] = <<>> /\ ~(0 > 0)
  <2>1. ~(0 > 0)
    BY SMT
  <2> QED
    BY <1>0, <2>1 DEF Held
<1>2. a \in [Mod -> Nat] /\ <<m>> \in Seq(Mod) /\ Range(<<m>>) = {m}
  BY <1>0, RangeFacts, SMT DEF Typed
<1>3. h.item[r] \o <<m>> \in Seq(Mod)
  BY <1>0, <1>2, RangeFacts DEF Typed
<1>4. /\ DOMAIN p = {"ref", "live", "item", "readerCount", "pending", "future", "applied", "context"}
      /\ p.ref = r /\ p.live = h.live /\ p.readerCount = h.readerCount /\ p.pending = h.pending
      /\ p.future = h.future /\ p.context = h.context /\ p.applied = a
      /\ p.item = [h.item EXCEPT ![r] = h.item[r] \o <<m>>]
  BY <1>0, SMT DEF RunOn, Typed
<1>5. p.item \in [Ref -> Seq(Mod)]
  BY <1>0, <1>3, <1>4 DEF Typed
<1> HIDE DEF p
<1>6. /\ DOMAIN k = {"ref", "live", "item", "readerCount", "pending", "future", "applied", "context"}
      /\ k.ref = r /\ k.live = h.live /\ k.readerCount = h.readerCount /\ k.pending = h.pending
      /\ k.applied = a /\ k.item = p.item
      /\ k.future = [h.future EXCEPT ![m] = "applied"]
      /\ k.context = [h.context EXCEPT ![m] = "freed"]
  BY <1>4, SMT
<1>7. Typed(k)
  <2> HIDE DEF k, a
  <2>0. "applied" \in Future /\ "freed" \in Context
    BY DEF Future, Context
  <2>1. k.future \in [Mod -> Future] /\ k.context \in [Mod -> Context]
    <3>1. h.future \in [Mod -> Future] /\ h.context \in [Mod -> Context]
      BY <1>0 DEF Typed
    <3>2. /\ [h.future EXCEPT ![m] = "applied"] \in [Mod -> Future]
          /\ [h.context EXCEPT ![m] = "freed"] \in [Mod -> Context]
      BY <2>0, <3>1
    <3>3. /\ k.future = [h.future EXCEPT ![m] = "applied"]
          /\ k.context = [h.context EXCEPT ![m] = "freed"]
      BY <1>6
    <3> QED
      BY <3>2, <3>3
  <2> QED
    BY <1>0, <1>2, <1>5, <1>6, <2>1 DEF Typed
<1>8. \A x \in Mod : /\ k.applied[x] = IF x = m THEN h.applied[m] + 1 ELSE h.applied[x]
                     /\ k.future[x] = IF x = m THEN "applied" ELSE h.future[x]
                     /\ k.context[x] = IF x = m THEN "freed" ELSE h.context[x]
  <2>1. \A x \in Mod : a[x] = IF x = m THEN h.applied[m] + 1 ELSE h.applied[x]
    BY <1>2, SMT
  <2> HIDE DEF k, a
  <2>2. \A x \in Mod : k.future[x] = IF x = m THEN "applied" ELSE h.future[x]
    BY <1>0, <1>6 DEF Typed
  <2>3. \A x \in Mod : k.context[x] = IF x = m THEN "freed" ELSE h.context[x]
    BY <1>0, <1>6 DEF Typed
  <2>4. k.applied = a
    BY <1>6
  <2>5. \A x \in Mod : k.applied[x] = IF x = m THEN h.applied[m] + 1 ELSE h.applied[x]
    BY <2>1, <2>4
  <2> QED
    BY <2>2, <2>3, <2>5
<1>9. \A x \in Ref : x # r => k.item[x] = h.item[x]
  <2> HIDE DEF k
  <2>1. k.item = [h.item EXCEPT ![r] = h.item[r] \o <<m>>]
    BY <1>4, <1>6
  <2>2. h.item \in [Ref -> Seq(Mod)]
    BY <1>0 DEF Typed
  <2> QED
    BY <2>1, <2>2
<1>10. Sound(k, NoRef)
  <2> HIDE DEF k, a
  <2>1. Held(k, NoRef)
    BY <1>0, <1>6 DEF Held
  <2>2. \A x \in Ref : m \notin Range(h.pending[x])
    BY <1>0 DEF Waiting
  <2>3. Waiting(k)
    <3>1. \A x \in Ref : k.pending[x] = h.pending[x]
      BY <1>6
    <3>2. \A x \in Mod : k.context[x] = "wrapper" <=> h.context[x] = "wrapper"
      BY <1>8
    <3> QED
      BY <1>0, <3>1, <3>2 DEF Waiting
  <2>4. h.applied[m] + 1 = 1
    <3>1. h.applied[m] = 0
      BY <1>0 DEF Told
    <3> QED
      BY <3>1, SMT
  <2>5. Told(k)
    <3> SUFFICES ASSUME NEW x \in Mod
                 PROVE  /\ k.applied[x] = IF k.future[x] = "applied" THEN 1 ELSE 0
                        /\ k.future[x] = "open" <=> k.context[x] = "wrapper"
                        /\ k.context[x] = "caller" => k.future[x] = "unused"
      BY DEF Told
    <3>1. CASE x = m
      BY <1>8, <2>4, <3>1
    <3>2. CASE x # m
      BY <1>0, <1>8, <3>2 DEF Told
    <3> QED
      BY <3>1, <3>2
  <2> QED
    BY <1>7, <2>1, <2>3, <2>5 DEF Sound
<1>11. Leaves(h, k)
  <2> HIDE DEF k
  <2> QED
    BY <1>1, <1>6, <1>9 DEF Leaves
<1>12. CASE ~(AutoRelease /\ Releasable(p.item[r]))
  <2>1. ApplyNow(h, m) = k
    BY <1>12 DEF ApplyNow, PostModificationCheckRelease, p
  <2> QED
    BY <1>10, <1>11, <2>1
<1>13. CASE AutoRelease /\ Releasable(p.item[r])
  <2> DEFINE q == [DestroyRef(p, r) EXCEPT !.ref = IF p.ref = r THEN NoRef ELSE p.ref]
             g == [q EXCEPT !.future[m] = "applied", !.context[m] = "freed"]
  <2>1. ApplyNow(h, m) = g
    BY <1>13 DEF ApplyNow, PostModificationCheckRelease, p
  <2>2. Typed(p)
    <3> HIDE DEF a
    <3> QED
      BY <1>0, <1>2, <1>4, <1>5 DEF Typed
  <2>3. Dropped(p, q, r)
    <3> HIDE DEF q
    <3> QED
      BY <1>0, <2>2, DestroyDrops DEF q
  <2> HIDE DEF q, k, a
  <2>4. Range(p.pending[r]) = {} /\ Range(k.pending[r]) = {}
    BY <1>1, <1>4, <1>6, RangeFacts
  <2>5. q.future = h.future /\ q.context = h.context
    BY <1>0, <1>4, <2>3, <2>4, NothingWaits DEF Dropped, Typed
  <2>0. DOMAIN q = {"ref", "live", "item", "readerCount", "pending", "future", "applied", "context"}
    BY <2>3 DEF Dropped, Typed
  <2>6. /\ DOMAIN g = DOMAIN q
        /\ g.ref = q.ref /\ g.live = q.live /\ g.item = q.item /\ g.applied = q.applied
        /\ g.readerCount = q.readerCount /\ g.pending = q.pending
        /\ g.future = [q.future EXCEPT ![m] = "applied"]
        /\ g.context = [q.context EXCEPT ![m] = "freed"]
    BY <2>0, SMT
  <2> HIDE DEF g
  <2>7. g.future = k.future /\ g.context = k.context
    <3>1. k.future = [h.future EXCEPT ![m] = "applied"] /\ k.context = [h.context EXCEPT ![m] = "freed"]
      BY <1>6
    <3>2. g.future = [q.future EXCEPT ![m] = "applied"] /\ g.context = [q.context EXCEPT ![m] = "freed"]
      BY <2>6
    <3> QED
      BY <2>5, <3>1, <3>2, SMT
  <2>8. Typed(g)
    BY <1>7, <2>3, <2>6, <2>7 DEF Dropped, Typed
  <2>9. /\ k.future = Complete(k.future, Range(k.pending[r]), "discarded")
        /\ k.context = FreeContexts(k.context, Range(k.pending[r]))
    BY <1>7, <2>4, NothingWaits DEF Typed
  <2>10. /\ p.ref = k.ref /\ p.readerCount = k.readerCount /\ p.applied = k.applied
         /\ p.live = k.live /\ p.pending = k.pending /\ p.item = k.item
    BY <1>4, <1>6
  <2>11. Dropped(k, g, r)
    BY <2>3, <2>6, <2>7, <2>8, <2>9, <2>10 DEF Dropped
  <2>12. k.readerCount[r] = 0 /\ NoRef \in {r, NoRef}
    BY <1>6
  <2>13. Keeps(k, g)
    BY <1>0, <1>10, <2>11, <2>12, DropKeeps
  <2>14. Leaves(h, g)
    BY <1>11, <2>13 DEF Keeps, Leaves
  <2> QED
    BY <2>1, <2>13, <2>14 DEF Keeps
<1> QED
  BY <1>12, <1>13

\* The modification waits for the readers.
LEMMA PostponeKeeps ==
    ASSUME NEW h, Sound(h, NoRef), h.ref # NoRef, h.readerCount[h.ref] # 0,
           NEW m \in Mod, h.context[m] = "caller", NEW g, g = Postpone(h, m)
    PROVE  Sound(g, NoRef) /\ Leaves(h, g)
<1> USE NoRefAssumption
<1> DEFINE r == h.ref
<1>0. Typed(h) /\ Held(h, NoRef) /\ Waiting(h) /\ Told(h) /\ r \in Ref
  BY DEF Sound, Typed
<1>1. h.pending \in [Ref -> Seq(Mod)] /\ h.pending[r] \in Seq(Mod)
  BY <1>0 DEF Typed
<1>2. /\ Append(h.pending[r], m) \in Seq(Mod)
      /\ Range(Append(h.pending[r], m)) = Range(h.pending[r]) \cup {m}
  BY <1>1, RangeFacts
<1>3. /\ DOMAIN g = DOMAIN h
      /\ g.ref = h.ref /\ g.live = h.live /\ g.item = h.item /\ g.applied = h.applied
      /\ g.readerCount = h.readerCount
      /\ g.pending = [h.pending EXCEPT ![r] = Append(h.pending[r], m)]
      /\ g.future = [h.future EXCEPT ![m] = "open"]
      /\ g.context = [h.context EXCEPT ![m] = "wrapper"]
  BY <1>0, SMT DEF Postpone, Typed
<1>4. Typed(g)
  <2>1. "open" \in Future /\ "wrapper" \in Context
    BY DEF Future, Context
  <2>2. h.future \in [Mod -> Future] /\ h.context \in [Mod -> Context]
    BY <1>0 DEF Typed
  <2>3. /\ [h.future EXCEPT ![m] = "open"] \in [Mod -> Future]
        /\ [h.context EXCEPT ![m] = "wrapper"] \in [Mod -> Context]
    BY <2>1, <2>2
  <2>4. [h.pending EXCEPT ![r] = Append(h.pending[r], m)] \in [Ref -> Seq(Mod)]
    BY <1>1, <1>2
  <2> QED
    BY <1>0, <1>3, <2>3, <2>4 DEF Typed
<1>5. \A x \in Ref : g.pending[x] = IF x = r THEN Append(h.pending[r], m) ELSE h.pending[x]
  BY <1>1, <1>3
<1>6. \A x \in Mod : /\ g.future[x] = IF x = m THEN "open" ELSE h.future[x]
                     /\ g.context[x] = IF x = m THEN "wrapper" ELSE h.context[x]
  <2>1. h.future \in [Mod -> Future] /\ h.context \in [Mod -> Context]
    BY <1>0 DEF Typed
  <2>2. \A x \in Mod : g.future[x] = IF x = m THEN "open" ELSE h.future[x]
    BY <1>3, <2>1
  <2>3. \A x \in Mod : g.context[x] = IF x = m THEN "wrapper" ELSE h.context[x]
    BY <1>3, <2>1
  <2> QED
    BY <2>2, <2>3
<1>7. Held(g, NoRef)
  <2>1. h.readerCount[r] > 0
    BY <1>0, SMT DEF Typed
  <2>2. g.ref = r /\ g.live = h.live /\ g.readerCount = h.readerCount
    BY <1>3
  <2>3. \A x \in Ref : x # r => g.pending[x] = h.pending[x]
    BY <1>5
  <2> QED
    BY <1>0, <2>1, <2>2, <2>3 DEF Held
<1>8. Waiting(g)
  <2>1. \A x \in Ref : m \notin Range(h.pending[x])
    BY <1>0 DEF Waiting
  <2>2. Range(g.pending[r]) = Range(h.pending[r]) \cup {m}
    BY <1>0, <1>2, <1>5
  <2>3. \A x \in Ref : x # r => g.pending[x] = h.pending[x]
    BY <1>5
  <2>4. ASSUME NEW y \in Mod
        PROVE  g.context[y] = "wrapper" <=> \E x \in Ref : y \in Range(g.pending[x])
    <3>1. CASE y = m
      BY <1>0, <1>6, <2>2, <3>1
    <3>2. CASE y # m
      <4>1. g.context[y] = h.context[y]
        BY <1>6, <3>2
      <4>2. \A x \in Ref : y \in Range(g.pending[x]) <=> y \in Range(h.pending[x])
        BY <2>2, <2>3, <3>2
      <4> QED
        BY <1>0, <4>1, <4>2 DEF Waiting
    <3> QED
      BY <3>1, <3>2
  <2>5. ASSUME NEW x \in Ref, NEW y \in Ref, x # y
        PROVE  Range(g.pending[x]) \cap Range(g.pending[y]) = {}
    <3>1. Range(h.pending[x]) \cap Range(h.pending[y]) = {}
      BY <1>0, <2>5 DEF Waiting
    <3> QED
      BY <2>1, <2>2, <2>3, <2>5, <3>1
  <2> QED
    BY <2>4, <2>5 DEF Waiting
<1>9. Told(g)
  <2> SUFFICES ASSUME NEW x \in Mod
               PROVE  /\ g.applied[x] = IF g.future[x] = "applied" THEN 1 ELSE 0
                      /\ g.future[x] = "open" <=> g.context[x] = "wrapper"
                      /\ g.context[x] = "caller" => g.future[x] = "unused"
    BY DEF Told
  <2>0. g.applied = h.applied
    BY <1>3
  <2>1. CASE x = m
    BY <1>0, <1>6, <2>0, <2>1 DEF Told
  <2>2. CASE x # m
    <3>1. g.future[x] = h.future[x] /\ g.context[x] = h.context[x]
      BY <1>6, <2>2
    <3> QED
      BY <1>0, <2>0, <3>1 DEF Told
  <2> QED
    BY <2>1, <2>2
<1>10. Leaves(h, g)
  BY <1>3 DEF Leaves
<1> QED
  BY <1>4, <1>7, <1>8, <1>9, <1>10 DEF Sound

\* threadSafeWrapperEnqueueModification, once it has its reference.
LEMMA EnqueueKeeps ==
    ASSUME NEW h, Sound(h, NoRef), NEW m \in Mod, h.context[m] = "caller",
           NEW g, g = Enqueue(h, m)
    PROVE  Sound(g, NoRef) /\ Leaves(h, g)
<1>1. CASE h.ref = NoRef
  <2>0. Typed(h) /\ Held(h, NoRef) /\ Waiting(h) /\ Told(h)
    BY DEF Sound
  <2>1. g = [h EXCEPT !.context[m] = "freed"]
    BY <1>1 DEF Enqueue
  <2>2. /\ Typed(g)
        /\ g.ref = h.ref /\ g.live = h.live /\ g.item = h.item /\ g.applied = h.applied
        /\ g.readerCount = h.readerCount /\ g.pending = h.pending /\ g.future = h.future
        /\ g.context = [h.context EXCEPT ![m] = "freed"]
    BY <2>0, <2>1, SMT DEF Typed, Context
  <2>3. \A x \in Mod : g.context[x] = IF x = m THEN "freed" ELSE h.context[x]
    BY <2>0, <2>2 DEF Typed
  <2>4. Held(g, NoRef)
    BY <2>0, <2>2 DEF Held
  <2>5. Waiting(g)
    <3>1. g.pending = h.pending
      BY <2>2
    <3>2. \A x \in Mod : g.context[x] = "wrapper" <=> h.context[x] = "wrapper"
      BY <2>3
    <3> QED
      BY <2>0, <3>1, <3>2 DEF Waiting
  <2>6. Told(g)
    <3>1. g.applied = h.applied /\ g.future = h.future
      BY <2>2
    <3> QED
      BY <2>0, <2>3, <3>1 DEF Told
  <2>7. Leaves(h, g)
    BY <2>2 DEF Leaves
  <2> QED
    BY <2>2, <2>4, <2>5, <2>6, <2>7 DEF Sound
<1>2. CASE h.ref # NoRef /\ h.readerCount[h.ref] = 0
  <2>1. g = ApplyNow(h, m)
    BY <1>2 DEF Enqueue
  <2> QED
    BY <1>2, <2>1, ApplyNowKeeps
<1>3. CASE h.ref # NoRef /\ h.readerCount[h.ref] # 0
  <2>1. g = Postpone(h, m)
    BY <1>3 DEF Enqueue
  <2> QED
    BY <1>3, <2>1, PostponeKeeps
<1> QED
  BY <1>1, <1>2, <1>3

-----------------------------------------------------------------------------
(***************************************************************************)
(* The invariant: a sound heap, whose reader counts count the threads in   *)
(* readFunc, each of which still reads what it began to read.              *)
(***************************************************************************)
Reading ==
    /\ pc \in [Thread -> Where]
    /\ reads \in [Thread -> Ref \cup {NoRef}]
    /\ DOMAIN seen = Thread
    /\ \A t \in Thread : pc[t] = "read" => reads[t] \in Ref /\ item[reads[t]] = seen[t]
    /\ \A r \in Ref : readerCount[r] = Cardinality(Readers(r))

IInv == Sound(Heap, NoRef) /\ Reading

\* The fields of the heap are the variables.
LEMMA HeapFields ==
    /\ Heap.ref = ref /\ Heap.live = live /\ Heap.item = item /\ Heap.readerCount = readerCount
    /\ Heap.pending = pending /\ Heap.future = future /\ Heap.applied = applied
    /\ Heap.context = context
BY SMT DEF Heap

\* The end of a critical section.
LEMMA BecomesSound ==
    ASSUME NEW g, Sound(g, NoRef), Becomes(g)
    PROVE  Sound(Heap, NoRef)'
<1> DEFINE k == Heap'
<1>1. /\ DOMAIN k = {"ref", "live", "item", "readerCount", "pending", "future", "applied", "context"}
      /\ k.ref = g.ref /\ k.live = g.live /\ k.item = g.item /\ k.applied = g.applied
      /\ k.readerCount = g.readerCount /\ k.pending = g.pending /\ k.future = g.future
      /\ k.context = g.context
  BY SMT DEF Becomes, Heap
<1> HIDE DEF k
<1>2. Typed(k)
  BY <1>1 DEF Sound, Typed
<1>3. Held(k, NoRef)
  BY <1>1 DEF Sound, Held
<1>4. Waiting(k)
  BY <1>1 DEF Sound, Waiting
<1>5. Told(k)
  <2>1. k.applied = g.applied /\ k.future = g.future /\ k.context = g.context /\ Told(g)
    BY <1>1 DEF Sound
  <2> QED
    BY <2>1 DEF Told
<1>6. Sound(k, NoRef)
  BY <1>2, <1>3, <1>4, <1>5 DEF Sound
<1> QED
  BY <1>6 DEF k, Sound, Typed, Held, Waiting, Told

\* The threads that read are a finite set, and not an empty one where somebody reads.
LEMMA ReadersCounted ==
    ASSUME Reading
    PROVE  /\ \A r \in Ref : IsFiniteSet(Readers(r)) /\ Cardinality(Readers(r)) \in Nat
           /\ \A t \in Thread : pc[t] = "read" => reads[t] \in Ref /\ readerCount[reads[t]] > 0
<1>1. ASSUME NEW r \in Ref
      PROVE  IsFiniteSet(Readers(r)) /\ Cardinality(Readers(r)) \in Nat
  <2>1. Readers(r) \in SUBSET Thread
    BY DEF Readers
  <2>2. IsFiniteSet(Readers(r))
    BY <2>1, ThreadAssumption, FS_Subset
  <2> QED
    BY <2>2, FS_CardinalityType
<1>2. ASSUME NEW t \in Thread, pc[t] = "read"
      PROVE  reads[t] \in Ref /\ readerCount[reads[t]] > 0
  <2>1. reads[t] \in Ref /\ t \in Readers(reads[t])
    BY <1>2 DEF Reading, Readers
  <2>2. Cardinality(Readers(reads[t])) # 0 /\ Cardinality(Readers(reads[t])) \in Nat
    BY <1>1, <2>1, FS_EmptySet
  <2>3. readerCount[reads[t]] = Cardinality(Readers(reads[t]))
    BY <2>1 DEF Reading
  <2> QED
    BY <2>1, <2>2, <2>3, SMT
<1> QED
  BY <1>1, <1>2

\* A critical section of a thread that neither begins nor ends to read.
LEMMA QuietStep ==
    ASSUME IInv, NEW g, Sound(g, NoRef), Leaves(Heap, g), Becomes(g),
           reads' = reads, seen' = seen, pc' \in [Thread -> Where],
           \A t \in Thread : pc'[t] = "read" <=> pc[t] = "read"
    PROVE  IInv'
<1>1. Sound(Heap, NoRef)'
  BY BecomesSound
<1>2. Reading
  BY DEF IInv
<1>3. \A r \in Ref : /\ readerCount'[r] = readerCount[r]
                     /\ readerCount[r] > 0 => item'[r] = item[r]
  BY HeapFields DEF Leaves, Becomes
<1>4. \A r \in Ref : Readers(r)' = Readers(r)
  BY DEF Readers
<1>5. \A t \in Thread : pc'[t] = "read" => reads'[t] \in Ref /\ item'[reads'[t]] = seen'[t]
  BY <1>2, <1>3, ReadersCounted DEF Reading
<1>6. \A r \in Ref : readerCount'[r] = Cardinality(Readers(r))'
  BY <1>2, <1>3, <1>4 DEF Reading
<1>7. reads' \in [Thread -> Ref \cup {NoRef}] /\ DOMAIN seen' = Thread
  BY <1>2 DEF Reading
<1> QED
  BY <1>1, <1>5, <1>6, <1>7 DEF IInv, Reading

\* A broadcast wakes those that sleep.
LEMMA AwakenedType ==
    ASSUME Reading
    PROVE  /\ Awakened(pc) \in [Thread -> Where]
           /\ \A t \in Thread : Awakened(pc)[t] = "read" <=> pc[t] = "read"
BY DEF Reading, Awakened, Where

\* threadSafeWrapperAssignItem
LEMMA AssignKeeps ==
    ASSUME IInv, NEW t \in Thread, NEW r \in Ref, AssignItem(t, r)
    PROVE  IInv'
<1> DEFINE g == CreateRef(Heap, r)
<1>1. Becomes(g) /\ reads' = reads /\ seen' = seen /\ pc' = pc
  BY DEF AssignItem
<1>2. Sound(Heap, NoRef) /\ Heap.ref = NoRef /\ ~Heap.live[r]
  BY HeapFields DEF AssignItem, IInv
<1>3. Sound(g, NoRef) /\ Leaves(Heap, g)
  BY <1>2, CreateKeeps
<1> HIDE DEF g
<1>4. pc' \in [Thread -> Where]
  BY <1>1 DEF IInv, Reading
<1> QED
  BY <1>1, <1>3, <1>4, QuietStep

\* threadSafeWrapperAssignItemIfReleased
LEMMA AssignIfReleasedKeeps ==
    ASSUME IInv, NEW t \in Thread, NEW r \in Ref, AssignItemIfReleased(t, r)
    PROVE  IInv'
<1> DEFINE h == GetRef(Heap)
           g == IF h.ref = NoRef THEN CreateRef(h, r) ELSE h
<1>1. Becomes(g) /\ reads' = reads /\ seen' = seen /\ pc' = Awakened(pc)
  BY DEF AssignItemIfReleased
<1>2. Sound(Heap, NoRef) /\ ~Heap.live[r]
  BY HeapFields DEF AssignItemIfReleased, IInv
<1>3. Keeps(Heap, h)
  BY <1>2, GetRefKeeps
<1> HIDE DEF h
<1>4. Sound(h, NoRef) /\ ~h.live[r] /\ Leaves(Heap, h)
  BY <1>2, <1>3 DEF Keeps, TakesNothing
<1>5. Sound(g, NoRef) /\ Leaves(h, g)
  <2>1. CASE h.ref = NoRef
    BY <1>4, <2>1, CreateKeeps
  <2>2. CASE h.ref # NoRef
    BY <1>4, <2>2 DEF Leaves
  <2> QED
    BY <2>1, <2>2
<1> HIDE DEF g
<1>6. Leaves(Heap, g)
  BY <1>4, <1>5 DEF Leaves
<1>7. pc' \in [Thread -> Where] /\ \A u \in Thread : pc'[u] = "read" <=> pc[u] = "read"
  BY <1>1, AwakenedType DEF IInv
<1> QED
  BY <1>1, <1>5, <1>6, <1>7, QuietStep

\* threadSafeWrapperConditionalReleaseItem
LEMMA ReleaseKeeps ==
    ASSUME IInv, NEW t \in Thread, NEW agreed \in BOOLEAN, ConditionalReleaseItem(t, agreed)
    PROVE  IInv'
<1> DEFINE h == GetRef(Heap)
           g == IF h.ref # NoRef /\ agreed THEN Detach(h) ELSE h
<1>1. Becomes(g) /\ reads' = reads /\ seen' = seen /\ pc' = Awakened(pc)
  BY DEF ConditionalReleaseItem
<1>2. Sound(Heap, NoRef)
  BY DEF IInv
<1>3. Keeps(Heap, h)
  BY <1>2, GetRefKeeps
<1> HIDE DEF h
<1>4. Sound(h, NoRef) /\ Leaves(Heap, h)
  BY <1>3 DEF Keeps
<1>5. Sound(g, NoRef) /\ Leaves(h, g)
  <2>1. CASE h.ref # NoRef /\ agreed
    BY <1>4, <2>1, DetachKeeps
  <2>2. CASE ~(h.ref # NoRef /\ agreed)
    BY <1>4, <2>2 DEF Leaves
  <2> QED
    BY <2>1, <2>2
<1> HIDE DEF g
<1>6. Leaves(Heap, g)
  BY <1>4, <1>5 DEF Leaves
<1>7. pc' \in [Thread -> Where] /\ \A u \in Thread : pc'[u] = "read" <=> pc[u] = "read"
  BY <1>1, AwakenedType DEF IInv
<1> QED
  BY <1>1, <1>5, <1>6, <1>7, QuietStep

\* threadSafeWrapperEnqueueModification, and the first half of threadSafeWrapperModifyItem
LEMMA EnqueueModificationKeeps ==
    ASSUME IInv, NEW t \in Thread, NEW m \in Mod, NEW r \in Ref, NEW waits \in BOOLEAN,
           EnqueueModification(t, m, r, waits)
    PROVE  IInv'
<1> DEFINE h == GetRef(Heap)
           k == RefForModification(h, r)
           g == Enqueue(k, m)
<1>0. PICK there \in {"await", "idle"} : pc' = [Awakened(pc) EXCEPT ![t] = there]
  BY DEF EnqueueModification
<1>1. Becomes(g) /\ reads' = reads /\ seen' = seen /\ pc[t] = "idle"
  BY DEF EnqueueModification
<1>2. Sound(Heap, NoRef) /\ ~Heap.live[r] /\ Heap.context[m] = "caller"
  BY HeapFields DEF EnqueueModification, IInv
<1>3. Keeps(Heap, h)
  BY <1>2, GetRefKeeps
<1> HIDE DEF h
<1>4. Sound(h, NoRef) /\ ~h.live[r] /\ h.context[m] = "caller" /\ Leaves(Heap, h)
  BY <1>2, <1>3 DEF Keeps, TakesNothing
<1>5. Sound(k, NoRef) /\ Leaves(h, k) /\ k.context[m] = "caller"
  <2>1. CASE h.ref = NoRef /\ AutoAssign
    <3>1. k = CreateRef(h, r)
      BY <2>1 DEF RefForModification
    <3> HIDE DEF k
    <3>0. h.ref = NoRef /\ Sound(h, NoRef) /\ ~h.live[r]
      BY <1>4, <2>1
    <3>2. Sound(k, NoRef) /\ Leaves(h, k) /\ k.context = h.context
      BY <3>0, <3>1, CreateKeeps
    <3> QED
      BY <1>4, <3>2
  <2>2. CASE ~(h.ref = NoRef /\ AutoAssign)
    <3>1. k = h
      BY <2>2 DEF RefForModification
    <3>2. Leaves(h, h)
      BY DEF Leaves
    <3> HIDE DEF k
    <3> QED
      BY <1>4, <3>1, <3>2
  <2> QED
    BY <2>1, <2>2
<1> HIDE DEF k
<1>6. Sound(g, NoRef) /\ Leaves(k, g)
  BY <1>5, EnqueueKeeps
<1> HIDE DEF g
<1>7. Leaves(Heap, g)
  BY <1>4, <1>5, <1>6 DEF Leaves
<1>8. pc' \in [Thread -> Where] /\ \A u \in Thread : pc'[u] = "read" <=> pc[u] = "read"
  <2>1. /\ Awakened(pc) \in [Thread -> Where] /\ there \in Where /\ there # "read"
        /\ \A u \in Thread : Awakened(pc)[u] = "read" <=> pc[u] = "read"
    BY AwakenedType DEF IInv, Where
  <2> QED
    BY <1>0, <1>1, <2>1
<1> QED
  BY <1>1, <1>6, <1>7, <1>8, QuietStep

\* threadSafeWrapperFutureAwait and the end of its wait change nothing in the heap.
LEMMA AwaitKeeps ==
    ASSUME IInv, NEW t \in Thread, FutureAwait(t) \/ AwaitAgain(t)
    PROVE  IInv'
<1>1. /\ UNCHANGED <<ref, live, item, readerCount, pending, reads, seen, future, applied, context>>
      /\ pc[t] \in {"await", "sleep"}
  BY DEF FutureAwait, AwaitAgain
<1>2. PICK there \in {"sleep", "await", "idle"} : pc' = [pc EXCEPT ![t] = there]
  BY DEF FutureAwait, AwaitAgain
<1>3. Becomes(Heap) /\ Sound(Heap, NoRef) /\ Leaves(Heap, Heap)
  BY <1>1, HeapFields DEF Becomes, IInv, Leaves
<1>4. pc' \in [Thread -> Where] /\ \A u \in Thread : pc'[u] = "read" <=> pc[u] = "read"
  BY <1>1, <1>2 DEF IInv, Reading, Where
<1>5. reads' = reads /\ seen' = seen
  BY <1>1
<1> QED
  BY <1>3, <1>4, <1>5, QuietStep

\* threadSafeWrapperReadItem, until it calls readFunc
LEMMA ReadBeginKeeps ==
    ASSUME IInv, NEW t \in Thread, ReadBegin(t)
    PROVE  IInv'
<1> USE NoRefAssumption
<1> DEFINE h == GetRef(Heap)
           r == h.ref
           g == [h EXCEPT !.readerCount[h.ref] = @ + 1]
<1>1. Sound(Heap, NoRef) /\ Reading
  BY DEF IInv
<1>2. Keeps(Heap, h)
  BY <1>1, GetRefKeeps
<1>3. CASE r = NoRef
  <2>1. Becomes(h) /\ pc' = Awakened(pc) /\ reads' = reads /\ seen' = seen
    BY <1>3 DEF ReadBegin
  <2> HIDE DEF h
  <2>2. Sound(h, NoRef) /\ Leaves(Heap, h)
    BY <1>2 DEF Keeps
  <2>3. pc' \in [Thread -> Where] /\ \A u \in Thread : pc'[u] = "read" <=> pc[u] = "read"
    BY <1>1, <2>1, AwakenedType
  <2> QED
    BY <2>1, <2>2, <2>3, QuietStep
<1>4. CASE r # NoRef
  <2>1. /\ Becomes(g) /\ pc' = [Awakened(pc) EXCEPT ![t] = "read"] /\ pc[t] = "idle"
        /\ reads' = [reads EXCEPT ![t] = r] /\ seen' = [seen EXCEPT ![t] = h.item[r]]
    BY <1>4 DEF ReadBegin
  <2> HIDE DEF h
  <2>2. Typed(h) /\ Held(h, NoRef) /\ Waiting(h) /\ Told(h) /\ r \in Ref /\ Leaves(Heap, h)
    BY <1>2, <1>4 DEF Keeps, Sound, Typed
  <2>3. h.readerCount \in [Ref -> Nat] /\ h.readerCount[r] \in Nat
    BY <2>2 DEF Typed
  <2>4. /\ DOMAIN g = DOMAIN h
        /\ g.ref = h.ref /\ g.live = h.live /\ g.item = h.item /\ g.applied = h.applied
        /\ g.pending = h.pending /\ g.future = h.future /\ g.context = h.context
        /\ g.readerCount = [h.readerCount EXCEPT ![r] = h.readerCount[r] + 1]
    BY <2>2, SMT DEF Typed
  <2> HIDE DEF g
  <2>5. /\ \A x \in Ref : g.readerCount[x] = IF x = r THEN h.readerCount[r] + 1 ELSE h.readerCount[x]
        /\ g.readerCount \in [Ref -> Nat] /\ h.readerCount[r] + 1 > 0
    BY <2>2, <2>3, <2>4, SMT
  <2>6. Sound(g, NoRef)
    <3>1. Typed(g)
      BY <2>2, <2>4, <2>5 DEF Typed
    <3>2. Held(g, NoRef)
      <4> SUFFICES ASSUME NEW x \in Ref
                   PROVE  /\ g.live[x] <=> (x = g.ref \/ g.readerCount[x] > 0 \/ x = NoRef)
                          /\ g.pending[x] # <<>> => g.readerCount[x] > 0 \/ x = NoRef
        BY DEF Held
      <4>0. g.live = h.live /\ g.ref = h.ref /\ g.pending = h.pending
        BY <2>4
      <4>1. CASE x = r
        BY <2>2, <2>5, <4>0, <4>1 DEF Held
      <4>2. CASE x # r
        <5>1. g.readerCount[x] = h.readerCount[x]
          BY <2>5, <4>2
        <5> QED
          BY <2>2, <4>0, <5>1 DEF Held
      <4> QED
        BY <4>1, <4>2
    <3>3. Waiting(g)
      BY <2>2, <2>4 DEF Waiting
    <3>4. Told(g)
      <4>1. g.applied = h.applied /\ g.future = h.future /\ g.context = h.context
        BY <2>4
      <4> QED
        BY <2>2, <4>1 DEF Told
    <3> QED
      BY <3>1, <3>2, <3>3, <3>4 DEF Sound
  <2>7. Sound(Heap, NoRef)'
    BY <2>1, <2>6, BecomesSound
  <2>8. /\ readerCount' = g.readerCount /\ item' = h.item
        /\ \A x \in Ref : /\ h.readerCount[x] = readerCount[x]
                          /\ readerCount[x] > 0 => h.item[x] = item[x]
    BY <2>1, <2>2, <2>4, HeapFields DEF Becomes, Leaves
  <2>9. /\ pc' \in [Thread -> Where] /\ pc'[t] = "read" /\ pc[t] # "read"
        /\ \A u \in Thread : u # t => (pc'[u] = "read" <=> pc[u] = "read")
    <3>1. /\ Awakened(pc) \in [Thread -> Where]
          /\ \A u \in Thread : Awakened(pc)[u] = "read" <=> pc[u] = "read"
      BY <1>1, AwakenedType
    <3>2. "read" \in Where
      BY DEF Where
    <3> HIDE DEF r
    <3> QED
      BY <2>1, <3>1, <3>2
  <2>10. /\ reads' \in [Thread -> Ref \cup {NoRef}] /\ reads'[t] = r
         /\ \A u \in Thread : u # t => reads'[u] = reads[u]
    <3> HIDE DEF r
    <3> QED
      BY <1>1, <2>1, <2>2 DEF Reading
  <2>11. /\ DOMAIN seen' = Thread /\ seen'[t] = h.item[r]
         /\ \A u \in Thread : u # t => seen'[u] = seen[u]
    <3> HIDE DEF r
    <3> QED
      BY <1>1, <2>1 DEF Reading
  <2>12. ASSUME NEW u \in Thread, pc'[u] = "read"
         PROVE  reads'[u] \in Ref /\ item'[reads'[u]] = seen'[u]
    <3>1. CASE u = t
      BY <2>2, <2>8, <2>10, <2>11, <3>1
    <3>2. CASE u # t
      <4>1. pc[u] = "read" /\ reads'[u] = reads[u] /\ seen'[u] = seen[u]
        BY <2>9, <2>10, <2>11, <2>12, <3>2
      <4>2. reads[u] \in Ref /\ readerCount[reads[u]] > 0 /\ item[reads[u]] = seen[u]
        BY <1>1, <4>1, ReadersCounted DEF Reading
      <4> QED
        BY <2>8, <4>1, <4>2
    <3> QED
      BY <3>1, <3>2
  <2>13. ASSUME NEW x \in Ref
         PROVE  readerCount'[x] = Cardinality(Readers(x))'
    <3> DEFINE R == Readers(x)'
    <3>0. readerCount[x] = Cardinality(Readers(x)) /\ IsFiniteSet(Readers(x))
      BY <1>1, ReadersCounted DEF Reading
    <3>1. CASE x = r
      <4>1. R = Readers(x) \cup {t} /\ t \notin Readers(x)
        BY <2>9, <2>10, <3>1 DEF Readers
      <4> HIDE DEF R
      <4>2. Cardinality(R) = Cardinality(Readers(x)) + 1
        BY <3>0, <4>1, FS_AddElement
      <4>3. readerCount'[x] = readerCount[x] + 1
        BY <2>5, <2>8, <3>1
      <4>4. readerCount'[x] = Cardinality(R)
        BY <3>0, <4>2, <4>3
      <4> QED
        BY <4>4 DEF R
    <3>2. CASE x # r
      <4>1. R = Readers(x)
        BY <2>9, <2>10, <3>2 DEF Readers
      <4>2. readerCount'[x] = readerCount[x]
        BY <2>5, <2>8, <3>2
      <4> QED
        BY <3>0, <4>1, <4>2
    <3> QED
      BY <3>1, <3>2
  <2> QED
    BY <2>7, <2>9, <2>10, <2>11, <2>12, <2>13 DEF IInv, Reading
<1> QED
  BY <1>3, <1>4

\* threadSafeWrapperReadItem, after readFunc
LEMMA ReadEndKeeps ==
    ASSUME IInv, NEW t \in Thread, ReadEnd(t)
    PROVE  IInv'
<1> USE NoRefAssumption
<1> DEFINE r == reads[t]
           h == [Heap EXCEPT !.readerCount[r] = @ - 1]
           g == IF h.readerCount[r] = 0 THEN LastReader(h, r) ELSE h
           w == IF h.readerCount[r] = 0 THEN r ELSE NoRef
<1>0. Sound(Heap, NoRef) /\ Reading
  BY DEF IInv
<1>1. /\ Becomes(g) /\ pc' = [Awakened(pc) EXCEPT ![t] = "idle"] /\ pc[t] = "read"
      /\ reads' = [reads EXCEPT ![t] = NoRef] /\ seen' = [seen EXCEPT ![t] = <<>>]
  BY DEF ReadEnd
<1>2. r \in Ref /\ readerCount[r] > 0
  BY <1>0, <1>1, ReadersCounted
<1>3. Typed(Heap) /\ Held(Heap, NoRef) /\ Waiting(Heap) /\ Told(Heap)
  BY <1>0 DEF Sound
<1>4. readerCount \in [Ref -> Nat] /\ readerCount[r] \in Nat
  BY <1>2, <1>3, HeapFields DEF Typed
<1>5. /\ DOMAIN h = DOMAIN Heap
      /\ h.ref = ref /\ h.live = live /\ h.item = item /\ h.applied = applied
      /\ h.pending = pending /\ h.future = future /\ h.context = context
      /\ h.readerCount = [readerCount EXCEPT ![r] = readerCount[r] - 1]
  BY SMT DEF Heap
<1> HIDE DEF h
<1>6. /\ \A x \in Ref : h.readerCount[x] = IF x = r THEN readerCount[r] - 1 ELSE readerCount[x]
      /\ h.readerCount \in [Ref -> Nat]
  BY <1>2, <1>4, <1>5, SMT
<1>7. Sound(h, w)
  <2>1. Typed(h)
    BY <1>3, <1>5, <1>6, HeapFields DEF Typed
  <2>2. Held(h, w)
    <3> SUFFICES ASSUME NEW x \in Ref
                 PROVE  /\ h.live[x] <=> (x = h.ref \/ h.readerCount[x] > 0 \/ x = w)
                        /\ h.pending[x] # <<>> => h.readerCount[x] > 0 \/ x = w
      BY DEF Held
    <3>0. /\ live[x] <=> (x = ref \/ readerCount[x] > 0 \/ x = NoRef)
          /\ pending[x] # <<>> => readerCount[x] > 0 \/ x = NoRef
          /\ h.live = live /\ h.ref = ref /\ h.pending = pending
      BY <1>3, <1>5, HeapFields DEF Held
    <3>1. CASE x = r
      <4>1. h.readerCount[x] > 0 \/ x = w
        <5>1. h.readerCount[x] \in Nat
          BY <1>6
        <5>2. h.readerCount[x] > 0 \/ h.readerCount[x] = 0
          BY <5>1, SMT
        <5> QED
          BY <3>1, <5>2
      <4> QED
        BY <1>2, <3>0, <3>1, <4>1
    <3>2. CASE x # r
      <4>1. h.readerCount[x] = readerCount[x] /\ x # w /\ x # NoRef
        BY <1>6, <3>2
      <4> QED
        BY <3>0, <4>1
    <3> QED
      BY <3>1, <3>2
  <2>3. Waiting(h)
    <3>1. h.pending = Heap.pending /\ h.context = Heap.context
      BY <1>5, HeapFields
    <3> QED
      BY <1>3, <3>1 DEF Waiting
  <2>4. Told(h)
    <3>1. h.applied = Heap.applied /\ h.future = Heap.future /\ h.context = Heap.context
      BY <1>5, HeapFields
    <3> QED
      BY <1>3, <3>1 DEF Told
  <2> QED
    BY <2>1, <2>2, <2>3, <2>4 DEF Sound
<1>8. Sound(g, NoRef) /\ Leaves(h, g)
  <2>1. CASE h.readerCount[r] = 0
    BY <1>2, <1>7, <2>1, LastReaderKeeps
  <2>2. CASE h.readerCount[r] # 0
    BY <1>7, <2>2 DEF Leaves
  <2> QED
    BY <2>1, <2>2
<1> HIDE DEF g
<1>9. Sound(Heap, NoRef)'
  BY <1>1, <1>8, BecomesSound
<1>10. \A x \in Ref : /\ readerCount'[x] = h.readerCount[x]
                      /\ h.readerCount[x] > 0 => item'[x] = item[x]
  BY <1>1, <1>5, <1>8 DEF Becomes, Leaves
<1>11. /\ pc' \in [Thread -> Where] /\ pc'[t] # "read"
       /\ \A u \in Thread : u # t => (pc'[u] = "read" <=> pc[u] = "read")
  <2>1. /\ Awakened(pc) \in [Thread -> Where]
        /\ \A u \in Thread : Awakened(pc)[u] = "read" <=> pc[u] = "read"
    BY <1>0, AwakenedType
  <2>2. "idle" \in Where
    BY DEF Where
  <2> QED
    BY <1>1, <2>1, <2>2
<1>12. /\ reads' \in [Thread -> Ref \cup {NoRef}]
       /\ \A u \in Thread : u # t => reads'[u] = reads[u]
  BY <1>0, <1>1 DEF Reading
<1>13. DOMAIN seen' = Thread /\ \A u \in Thread : u # t => seen'[u] = seen[u]
  BY <1>0, <1>1 DEF Reading
<1>14. ASSUME NEW x \in Ref
       PROVE  readerCount'[x] = Cardinality(Readers(x))'
  <2> DEFINE R == Readers(x)'
  <2>0. readerCount[x] = Cardinality(Readers(x)) /\ IsFiniteSet(Readers(x))
    BY <1>0, ReadersCounted DEF Reading
  <2>1. CASE x = r
    <3>1. R = Readers(x) \ {t} /\ t \in Readers(x)
      BY <1>1, <1>11, <1>12, <2>1 DEF Readers
    <3> HIDE DEF R
    <3>2. Cardinality(R) = Cardinality(Readers(x)) - 1
      BY <2>0, <3>1, FS_RemoveElement
    <3>3. readerCount'[x] = readerCount[x] - 1
      BY <1>6, <1>10, <2>1
    <3>4. readerCount'[x] = Cardinality(R)
      BY <2>0, <3>2, <3>3
    <3> QED
      BY <3>4 DEF R
  <2>2. CASE x # r
    <3>1. R = Readers(x)
      BY <1>1, <1>11, <1>12, <2>2 DEF Readers
    <3>2. readerCount'[x] = readerCount[x]
      BY <1>6, <1>10, <2>2
    <3> QED
      BY <2>0, <3>1, <3>2
  <2> QED
    BY <2>1, <2>2
<1>15. ASSUME NEW u \in Thread, pc'[u] = "read"
       PROVE  reads'[u] \in Ref /\ item'[reads'[u]] = seen'[u]
  <2>1. u # t /\ pc[u] = "read" /\ reads'[u] = reads[u] /\ seen'[u] = seen[u]
    BY <1>11, <1>12, <1>13, <1>15
  <2>2. reads[u] \in Ref /\ item[reads[u]] = seen[u]
    BY <1>0, <2>1 DEF Reading
  <2>3. h.readerCount[reads[u]] > 0
    <3>0. PICK n \in Ref : n = reads[u]
      BY <2>2
    <3> DEFINE R == Readers(n)'
    <3>1. u \in R
      BY <1>15, <2>1, <3>0 DEF Readers
    <3>2. R \in SUBSET Thread
      BY DEF Readers
    <3>3. h.readerCount[n] = Cardinality(R)
      <4>1. readerCount'[n] = Cardinality(R)
        BY <1>14
      <4>2. readerCount'[n] = h.readerCount[n]
        BY <1>10
      <4> HIDE DEF R
      <4> QED
        BY <4>1, <4>2
    <3> HIDE DEF R
    <3>4. IsFiniteSet(R)
      BY <3>2, ThreadAssumption, FS_Subset
    <3>5. Cardinality(R) # 0
      BY <3>1, <3>4, FS_EmptySet
    <3>6. h.readerCount[n] \in Nat
      BY <1>6
    <3> QED
      BY <3>0, <3>3, <3>5, <3>6, SMT
  <2> QED
    BY <1>10, <2>1, <2>2, <2>3
<1> QED
  BY <1>9, <1>11, <1>12, <1>13, <1>14, <1>15 DEF IInv, Reading

\* THREAD_SAFE_WRAPPER_INIT: no item, nobody reads.
LEMMA InitHolds == Init => IInv
<1> SUFFICES ASSUME Init
             PROVE  IInv
  OBVIOUS
<1> USE NoRefAssumption
<1> DEFINE h == Heap
<1>1. /\ DOMAIN h = {"ref", "live", "item", "readerCount", "pending", "future", "applied", "context"}
      /\ h.ref = NoRef
      /\ h.live = [r \in Ref |-> FALSE]
      /\ h.item = [r \in Ref |-> <<>>]
      /\ h.readerCount = [r \in Ref |-> 0]
      /\ h.pending = [r \in Ref |-> <<>>]
      /\ h.future = [m \in Mod |-> "unused"]
      /\ h.applied = [m \in Mod |-> 0]
      /\ h.context = [m \in Mod |-> "caller"]
  BY HeapFields, SMT DEF Init, Heap
<1> HIDE DEF h
<1>2. Typed(h)
  <2>1. /\ <<>> \in Seq(Mod) /\ 0 \in Nat /\ "unused" \in Future /\ "caller" \in Context
        /\ FALSE \in BOOLEAN
    BY SMT DEF Future, Context
  <2>2. h.live \in [Ref -> BOOLEAN]
    BY <1>1, SMT
  <2>3. h.item \in [Ref -> Seq(Mod)] /\ h.pending \in [Ref -> Seq(Mod)]
    BY <1>1, SMT
  <2>4. h.readerCount \in [Ref -> Nat] /\ h.applied \in [Mod -> Nat]
    BY <1>1, SMT
  <2>5. h.future \in [Mod -> Future] /\ h.context \in [Mod -> Context]
    BY <1>1, <2>1, SMT
  <2>6. /\ h.ref \in Ref \cup {NoRef}
        /\ DOMAIN h = {"ref", "live", "item", "readerCount", "pending", "future", "applied", "context"}
    BY <1>1
  <2> QED
    BY <2>2, <2>3, <2>4, <2>5, <2>6 DEF Typed
<1>3. Held(h, NoRef)
  <2>1. ~(0 > 0)
    BY SMT
  <2>2. \A r \in Ref : h.live[r] = FALSE /\ h.pending[r] = <<>> /\ h.readerCount[r] = 0
    BY <1>1, SMT
  <2>3. h.ref = NoRef
    BY <1>1
  <2> QED
    BY <2>1, <2>2, <2>3 DEF Held
<1>4. Waiting(h)
  <2>1. \A r \in Ref : Range(h.pending[r]) = {}
    BY <1>1, RangeFacts
  <2>2. \A m \in Mod : h.context[m] = "caller"
    BY <1>1
  <2> QED
    BY <2>1, <2>2 DEF Waiting
<1>5. Told(h)
  <2>1. \A m \in Mod : h.context[m] = "caller" /\ h.future[m] = "unused" /\ h.applied[m] = 0
    BY <1>1
  <2> QED
    BY <2>1 DEF Told
<1>6. Sound(Heap, NoRef)
  BY <1>2, <1>3, <1>4, <1>5 DEF Sound, h
<1>7. Reading
  <2>1. \A r \in Ref : Readers(r) = {}
    BY DEF Init, Readers
  <2>2. \A r \in Ref : readerCount[r] = Cardinality(Readers(r))
    BY <2>1, FS_EmptySet DEF Init
  <2>3. \A t \in Thread : pc[t] # "read"
    BY DEF Init
  <2>4. /\ pc \in [Thread -> Where] /\ reads \in [Thread -> Ref \cup {NoRef}]
        /\ DOMAIN seen = Thread
    BY DEF Init, Where
  <2> QED
    BY <2>2, <2>3, <2>4 DEF Reading
<1> QED
  BY <1>6, <1>7 DEF IInv

\* Every step keeps the invariant.
LEMMA NextKeeps == IInv /\ [Next]_vars => IInv'
<1> SUFFICES ASSUME IInv, [Next]_vars
             PROVE  IInv'
  OBVIOUS
<1>1. CASE UNCHANGED vars
  <2>1. Becomes(Heap) /\ Sound(Heap, NoRef) /\ Leaves(Heap, Heap)
    BY <1>1, HeapFields DEF Becomes, IInv, Leaves, vars
  <2>2. /\ reads' = reads /\ seen' = seen /\ pc' \in [Thread -> Where]
        /\ \A t \in Thread : pc'[t] = "read" <=> pc[t] = "read"
    BY <1>1 DEF IInv, Reading, vars
  <2> QED
    BY <2>1, <2>2, QuietStep
<1>2. ASSUME NEW t \in Thread,
             \/ \E r \in Ref : AssignItem(t, r)
             \/ \E r \in Ref : AssignItemIfReleased(t, r)
             \/ \E agreed \in BOOLEAN : ConditionalReleaseItem(t, agreed)
             \/ ReadBegin(t)
             \/ ReadEnd(t)
             \/ \E m \in Mod, r \in Ref, waits \in BOOLEAN : EnqueueModification(t, m, r, waits)
             \/ FutureAwait(t)
             \/ AwaitAgain(t)
      PROVE  IInv'
  BY <1>2, AssignKeeps, AssignIfReleasedKeeps, ReleaseKeeps, ReadBeginKeeps, ReadEndKeeps,
     EnqueueModificationKeeps, AwaitKeeps
<1> QED
  BY <1>1, <1>2 DEF Next

\* The invariant holds throughout.
LEMMA Invariant == Spec => []IInv
<1> QED
  BY InitHolds, NextKeeps, PTL DEF Spec

-----------------------------------------------------------------------------
(***************************************************************************)
(* readFunc, which threadSafeWrapperReadItem calls without the mutex, sees *)
(* one item that exists and stays as it is until it returns, whatever the  *)
(* other threads assign, release and modify: for every number of threads   *)
(* and whatever the wrapper's assign and release functions answer.         *)
(***************************************************************************)
THEOREM ReadsAreStable == Spec => []ReadStable
<1>1. IInv => ReadStable
  <2> SUFFICES ASSUME IInv, NEW t \in Thread, pc[t] = "read"
               PROVE  live[reads[t]] /\ item[reads[t]] = seen[t]
    BY DEF ReadStable
  <2>1. reads[t] \in Ref /\ readerCount[reads[t]] > 0 /\ item[reads[t]] = seen[t]
    BY ReadersCounted DEF IInv, Reading
  <2> QED
    BY <2>1, HeapFields DEF IInv, Sound, Held
<1> QED
  BY <1>1, Invariant, PTL

(***************************************************************************)
(* The function of a modification runs once if its future says "applied"   *)
(* and never otherwise, and its context has been freed by then: also when  *)
(* it had to wait for readers and its item was released meanwhile.         *)
(***************************************************************************)
THEOREM AppliedAtMostOnce == Spec => []AppliedOnce
<1>1. IInv => AppliedOnce
  <2> SUFFICES ASSUME IInv, NEW m \in Mod
               PROVE  /\ applied[m] = IF future[m] = "applied" THEN 1 ELSE 0
                      /\ future[m] \in {"applied", "discarded"} => context[m] = "freed"
    BY DEF AppliedOnce
  <2>1. /\ applied[m] = IF future[m] = "applied" THEN 1 ELSE 0
        /\ future[m] = "open" <=> context[m] = "wrapper"
        /\ context[m] = "caller" => future[m] = "unused"
    BY HeapFields DEF IInv, Sound, Told
  <2>2. context[m] \in Context
    BY HeapFields DEF IInv, Sound, Typed
  <2> QED
    BY <2>1, <2>2 DEF Context
<1> QED
  BY <1>1, Invariant, PTL

(***************************************************************************)
(* No reference leaks and none is used after destroyRef: one is allocated  *)
(* exactly while it is the wrapper's or has readers.  Modifications wait   *)
(* only where there is a reader to apply them, and a context is the        *)
(* wrapper's exactly while its modification waits.                         *)
(***************************************************************************)
THEOREM NothingIsForgotten == Spec => []NothingForgotten
<1>1. IInv => NothingForgotten
  <2> SUFFICES ASSUME IInv
               PROVE  NothingForgotten
    OBVIOUS
  <2>1. ASSUME NEW r \in Ref
        PROVE  /\ live[r] <=> (r = ref \/ readerCount[r] > 0)
               /\ pending[r] # <<>> => readerCount[r] > 0
    BY HeapFields, NoRefAssumption DEF IInv, Sound, Held
  <2>2. \A m \in Mod : context[m] = "wrapper" <=> \E r \in Ref : m \in Range(pending[r])
    BY HeapFields DEF IInv, Sound, Waiting
  <2> QED
    BY <2>1, <2>2 DEF NothingForgotten
<1> QED
  BY <1>1, Invariant, PTL
=============================================================================
