--------------------------- MODULE BlockingQueue ---------------------------
(***************************************************************************)
(* icBlockingQueue (libs/concurrent): a bounded FIFO of pointers shared by *)
(* threads, guarded by one mutex and two condition variables.  Every       *)
(* critical section (mutex taken until it is released, by returning or by  *)
(* waiting on a condition variable) is one action.  A blocked call takes   *)
(* several: it waits, it is woken or its wait expires, and then it takes   *)
(* the mutex again and decides what to return.                             *)
(*                                                                         *)
(* Time is abstracted to "the caller's deadline has passed" (due), which   *)
(* may happen at any moment of a call with a finite timeout and never in a *)
(* call with BLOCKINGQUEUE_TIMEOUT_INFINITE.                               *)
(***************************************************************************)
EXTENDS Naturals, Sequences, Lists

CONSTANTS Pusher,       \* threads that may call blockingQueuePush*
          Popper,       \* threads that may call blockingQueuePop*
          Item,         \* the pointers that clients push
          NoItem,       \* the NULL pointer
          Capacity      \* maxCapacity of blockingQueueCreate

ASSUME CapacityAssumption == Capacity \in Nat \ {0}
ASSUME NoItemAssumption == NoItem \notin Item

Thread == Pusher \cup Popper

VARIABLES items,        \* the icQueue of pointers
          enabled,      \* queue->enabled
          alive,        \* FALSE once blockingQueueDestroy has freed the queue
          op,           \* op[t]: the call thread t is in
          slot,         \* slot[t]: the item t is pushing, or has got (back) from its last call
          tmo,          \* tmo[t]: the timeout of t's call
          due,          \* due[t]: the deadline of t's call has passed
          wait,         \* wait[t]: where t is with respect to the mutex and the conditions
          ret,          \* ret[t]: what the last call of t returned, until its next one
          fate,         \* fate[x]: who owns the pointer x
          stamp,        \* stamp[x]: position of x among the accepted items, 0 if not accepted
          accepted      \* number of items accepted so far

qvars == <<items, enabled, alive, op, slot, tmo, due, wait, ret, fate, stamp, accepted>>

Timeout == {"zero", "finite", "infinite"}
Result  == {"none", "ok", "timedout", "interrupted"}
Op      == {"none", "push", "pop", "destroy"}
Fate    == {"client", "offered", "queued", "taken", "freed"}

\* "ready": a new call about to take the mutex.  "full" and "empty": in the wait set of
\* that condition variable.  "woken" and "expired": about to take the mutex again, with
\* condRet = 0 or condRet = ETIMEDOUT.
Where == {"out", "ready", "full", "empty", "woken", "expired"}

-----------------------------------------------------------------------------
Init ==
    /\ items = <<>>
    /\ enabled = TRUE
    /\ alive = TRUE
    /\ op = [t \in Thread |-> "none"]
    /\ slot = [t \in Thread |-> NoItem]
    /\ tmo = [t \in Thread |-> "zero"]
    /\ due = [t \in Thread |-> FALSE]
    /\ wait = [t \in Thread |-> "out"]
    /\ ret = [t \in Thread |-> "none"]
    /\ fate = [x \in Item |-> "client"]
    /\ stamp = [x \in Item |-> 0]
    /\ accepted = 0

\* count == queue->capacity
Full == Len(items) = Capacity

\* The possible wait sets after pthread_cond_signal on condition c: one waiter, if there
\* is any, is woken.
Signalled(w, c) ==
    IF \E t \in Thread : w[t] = c
    THEN {[w EXCEPT ![t] = "woken"] : t \in {u \in Thread : w[u] = c}}
    ELSE {w}

\* One blocked pusher is signalled if the queue was full.
WakePusher(w) == IF Full THEN Signalled(w, "full") ELSE {w}

\* Forgets the full condition.
BroadcastEmptyOnly(w) == [t \in Thread |-> IF w[t] = "empty" THEN "woken" ELSE w[t]]

\* pthread_cond_broadcast on both conditions.
Broadcast(w) == [t \in Thread |-> IF w[t] \in {"full", "empty"} THEN "woken" ELSE w[t]]

\* A call starts: its parameters are known, the mutex is not yet taken.
Enter(t, o, x, to) ==
    /\ alive
    /\ op[t] = "none"
    /\ op' = [op EXCEPT ![t] = o]
    /\ slot' = [slot EXCEPT ![t] = x]
    /\ tmo' = [tmo EXCEPT ![t] = to]
    /\ due' = [due EXCEPT ![t] = (to = "zero")]
    /\ wait' = [wait EXCEPT ![t] = "ready"]
    /\ ret' = [ret EXCEPT ![t] = "none"]
    /\ UNCHANGED <<items, enabled, alive, stamp, accepted>>

\* The call of t returns r and leaves t with pointer x: a popped item, or one whose push
\* was refused.
Return(t, r, x) ==
    /\ op' = [op EXCEPT ![t] = "none"]
    /\ ret' = [ret EXCEPT ![t] = r]
    /\ slot' = [slot EXCEPT ![t] = x]
    /\ tmo' = [tmo EXCEPT ![t] = "zero"]
    /\ due' = [due EXCEPT ![t] = FALSE]
    /\ UNCHANGED <<enabled, alive>>

\* timed_wait: with no time left it reports ETIMEDOUT at once, otherwise the thread
\* releases the mutex and joins the wait set of condition c.
Block(t, c) ==
    /\ wait' = [wait EXCEPT ![t] = c]
    /\ UNCHANGED <<items, enabled, alive, op, slot, tmo, due, ret, fate, stamp, accepted>>

-----------------------------------------------------------------------------
PushCall(t, x, to) ==
    /\ t \in Pusher
    /\ fate[x] = "client"
    /\ Enter(t, "push", x, to)
    /\ fate' = [fate EXCEPT ![x] = "offered"]

\* The push reports a failure and the item still belongs to the caller; q is the queue then.
PushRefuseWith(t, r, q) ==
    /\ Return(t, r, slot[t])
    /\ items' = q
    /\ wait' = [wait EXCEPT ![t] = "out"]
    /\ fate' = [fate EXCEPT ![slot[t]] = "client"]
    /\ UNCHANGED <<stamp, accepted>>

PushRefuseQueued(t, r) == PushRefuseWith(t, r, Append(items, slot[t]))
PushRefuse(t, r) == PushRefuseWith(t, r, items)

\* queuePush; w is what the signal makes of the wait sets.
PushAcceptWith(t, w) ==
    /\ Return(t, "ok", NoItem)
    /\ items' = Append(items, slot[t])
    /\ fate' = [fate EXCEPT ![slot[t]] = "queued"]
    /\ stamp' = [stamp EXCEPT ![slot[t]] = accepted + 1]
    /\ accepted' = accepted + 1
    /\ wait' \in w

\* Adds an item without telling a blocked popper.
PushAcceptNoSignal(t) == PushAcceptWith(t, {[wait EXCEPT ![t] = "out"]})

\* One popper is signalled if the queue was empty.
PushAccept(t) ==
    PushAcceptWith(t, IF items = <<>> THEN Signalled([wait EXCEPT ![t] = "out"], "empty")
                                      ELSE {[wait EXCEPT ![t] = "out"]})

\* blockingQueuePushTimeoutGranular from the moment the mutex is held until it waits or
\* returns.
PushRun(t) ==
    /\ alive
    /\ op[t] = "push"
    /\ wait[t] \in {"ready", "woken", "expired"}
    /\ \/ ~enabled /\ PushRefuse(t, "interrupted")
       \/ enabled /\ wait[t] = "expired" /\ PushRefuse(t, "timedout")
       \/ enabled /\ wait[t] # "expired" /\ ~Full /\ PushAccept(t)
       \/ enabled /\ wait[t] # "expired" /\ Full /\ due[t] /\ PushRefuse(t, "timedout")
       \/ enabled /\ wait[t] # "expired" /\ Full /\ ~due[t] /\ Block(t, "full")

-----------------------------------------------------------------------------
PopCall(t, to) ==
    /\ t \in Popper
    /\ Enter(t, "pop", NoItem, to)
    /\ UNCHANGED fate

PopRefuse(t, r) ==
    /\ Return(t, r, NoItem)
    /\ wait' = [wait EXCEPT ![t] = "out"]
    /\ UNCHANGED <<items, fate, stamp, accepted>>

\* queuePop of item x, leaving the queue q, and a signal to one pusher if the queue was
\* full.
PopAcceptWith(t, x, q) ==
    /\ Return(t, "ok", x)
    /\ items' = q
    /\ fate' = [fate EXCEPT ![x] = "taken"]
    /\ wait' \in WakePusher([wait EXCEPT ![t] = "out"])
    /\ UNCHANGED <<stamp, accepted>>

\* Takes the newest item instead of the oldest.
PopAcceptLast(t) == PopAcceptWith(t, items[Len(items)], SubSeq(items, 1, Len(items) - 1))
PopAccept(t) == PopAcceptWith(t, Head(items), Tail(items))

\* blockingQueuePopTimeoutGranular from the moment the mutex is held until it waits or
\* returns.
PopRun(t) ==
    /\ alive
    /\ op[t] = "pop"
    /\ wait[t] \in {"ready", "woken", "expired"}
    /\ \/ ~enabled /\ PopRefuse(t, "interrupted")
       \/ enabled /\ wait[t] = "expired" /\ PopRefuse(t, "timedout")
       \/ enabled /\ wait[t] # "expired" /\ items # <<>> /\ PopAccept(t)
       \/ enabled /\ wait[t] # "expired" /\ items = <<>> /\ due[t] /\ PopRefuse(t, "timedout")
       \/ enabled /\ wait[t] # "expired" /\ items = <<>> /\ ~due[t] /\ Block(t, "empty")

-----------------------------------------------------------------------------
\* blockingQueueDelete when the k-th item is the first to match (without a match it
\* changes nothing).
Delete(k) ==
    /\ alive
    /\ items' = Without(items, k)
    /\ fate' = [fate EXCEPT ![items[k]] = "freed"]
    /\ wait' \in WakePusher(wait)
    /\ UNCHANGED <<enabled, alive, op, slot, tmo, due, ret, stamp, accepted>>

FreeAll == [x \in Item |-> IF fate[x] = "queued" THEN "freed" ELSE fate[x]]

\* blockingQueueClear: however many places become free, one pusher is signalled.
Clear ==
    /\ alive
    /\ items # <<>>
    /\ items' = <<>>
    /\ fate' = FreeAll
    /\ wait' \in WakePusher(wait)
    /\ UNCHANGED <<enabled, alive, op, slot, tmo, due, ret, stamp, accepted>>

Disable ==
    /\ alive
    /\ enabled
    /\ enabled' = FALSE
    /\ wait' = Broadcast(wait)
    /\ UNCHANGED <<items, alive, op, slot, tmo, due, ret, fate, stamp, accepted>>

\* blockingQueueDestroy up to its sched_yield.
DestroyBegin(t) ==
    /\ alive
    /\ op[t] = "none"
    /\ \A u \in Thread : op[u] # "destroy"
    /\ op' = [op EXCEPT ![t] = "destroy"]
    /\ enabled' = FALSE
    /\ wait' = Broadcast(wait)
    /\ UNCHANGED <<items, alive, slot, tmo, due, ret, fate, stamp, accepted>>

\* blockingQueueDestroy after its sched_yield: the items and the queue are freed.
DestroyFinish(t) ==
    /\ alive
    /\ op[t] = "destroy"
    /\ op' = [op EXCEPT ![t] = "none"]
    /\ items' = <<>>
    /\ fate' = FreeAll
    /\ alive' = FALSE
    /\ UNCHANGED <<enabled, slot, tmo, due, wait, ret, stamp, accepted>>

-----------------------------------------------------------------------------
\* The clock passes the deadline of t's call.
Deadline(t) ==
    /\ alive
    /\ op[t] \in {"push", "pop"}
    /\ tmo[t] = "finite"
    /\ ~due[t]
    /\ due' = [due EXCEPT ![t] = TRUE]
    /\ UNCHANGED <<items, enabled, alive, op, slot, tmo, wait, ret, fate, stamp, accepted>>

\* The timed wait of t ends because of its deadline.
Expire(t) ==
    /\ alive
    /\ due[t]
    /\ wait[t] \in {"full", "empty"}
    /\ wait' = [wait EXCEPT ![t] = "expired"]
    /\ UNCHANGED <<items, enabled, alive, op, slot, tmo, due, ret, fate, stamp, accepted>>

\* POSIX lets a condition wait return with no signal.
SpuriousWakeup(t) ==
    /\ alive
    /\ wait[t] \in {"full", "empty"}
    /\ wait' = [wait EXCEPT ![t] = "woken"]
    /\ UNCHANGED <<items, enabled, alive, op, slot, tmo, due, ret, fate, stamp, accepted>>

Next ==
    \/ \E t \in Thread, x \in Item, to \in Timeout : PushCall(t, x, to)
    \/ \E t \in Thread, to \in Timeout : PopCall(t, to)
    \/ \E t \in Thread :
          \/ PushRun(t)
          \/ PopRun(t)
          \/ DestroyBegin(t)
          \/ DestroyFinish(t)
          \/ Deadline(t)
          \/ Expire(t)
          \/ SpuriousWakeup(t)
    \/ \E k \in 1..Len(items) : Delete(k)
    \/ Clear
    \/ Disable

\* A thread that can take the mutex eventually does (it holds it for a bounded time), the
\* clock reaches every deadline, and a timed wait notices it.  Nothing obliges a client to
\* make a call, and no wakeup comes for free.
Fairness ==
    \A t \in Thread : /\ WF_qvars(PushRun(t))
                      /\ WF_qvars(PopRun(t))
                      /\ WF_qvars(Deadline(t))
                      /\ WF_qvars(Expire(t))

Spec == Init /\ [][Next]_qvars

FairSpec == Spec /\ Fairness

-----------------------------------------------------------------------------
\* The type of the state; the queue never exceeds the capacity given to
\* blockingQueueCreate, whoever is woken in whatever order.
TypeOK ==
    /\ items \in Seq(Item)
    /\ Len(items) \leq Capacity
    /\ enabled \in BOOLEAN
    /\ alive \in BOOLEAN
    /\ op \in [Thread -> Op]
    /\ slot \in [Thread -> Item \cup {NoItem}]
    /\ tmo \in [Thread -> Timeout]
    /\ due \in [Thread -> BOOLEAN]
    /\ wait \in [Thread -> Where]
    /\ ret \in [Thread -> Result]
    /\ fate \in [Item -> Fate]
    /\ stamp \in [Item -> Nat]
    /\ accepted \in Nat

\* The items a push call is holding on behalf of its caller are exactly the offered ones,
\* each in one call.
OfferedOnce ==
    /\ \A t \in Thread : op[t] = "push" => slot[t] \in Item /\ fate[slot[t]] = "offered"
    /\ \A t, u \in Thread : op[t] = "push" /\ op[u] = "push" /\ slot[t] = slot[u] => t = u

\* No item is lost or duplicated: the queue holds exactly the items that were accepted and
\* neither popped nor freed, each once.  A push that fails leaves its item with the
\* caller, a pop hands its item to one caller.
Conservation ==
    /\ \A i \in 1..Len(items) : fate[items[i]] = "queued"
    /\ \A x \in Item : fate[x] = "queued" => \E i \in 1..Len(items) : items[i] = x
    /\ \A i, j \in 1..Len(items) : items[i] = items[j] => i = j
    /\ OfferedOnce

\* First in, first out, across blocked calls, timeouts and deletions: the queue is ordered
\* by the order of acceptance, and everything popped was accepted before everything
\* still queued.
Fifo ==
    /\ \A i, j \in 1..Len(items) : i < j => stamp[items[i]] < stamp[items[j]]
    /\ \A x, y \in Item : fate[x] = "taken" /\ fate[y] = "queued" => stamp[x] < stamp[y]

\* The caller of a push owns its item until the push is accepted.
Owner == [x \in Item |-> IF fate[x] = "offered" THEN "client" ELSE fate[x]]

Abstract == INSTANCE BoundedFifo WITH content <- items, open <- enabled, owner <- Owner

\* However calls block, time out, are woken late or find the queue disabled, what happens
\* to the items is what happens to them in BoundedFifo: a push takes effect once, at the
\* end of the queue, or not at all; a pop takes the oldest item; nothing moves after the
\* queue is disabled.
ImplementsFifo == Abstract!Spec

\* A disabled queue (blockingQueueDisable, or the first half of blockingQueueDestroy) has
\* no sleeper: the broadcast wakes every waiter and no later call can begin to wait.
NoSleeperWhenDisabled ==
    ~enabled => \A t \in Thread : wait[t] \notin {"full", "empty"}

\* A queue with one consumer never lets it sleep while there is work: signalling the
\* empty condition only on the transition from empty is enough for one waiter.
SolePopperAwake ==
    (\A s, t \in Popper : s = t) => \A t \in Popper : wait[t] = "empty" => items = <<>>

\* After disabling, no item enters the queue and none is handed out, although the mutex
\* may still be taken by calls that were woken by a signal just before.
DisabledIsFinal ==
    [][~enabled => /\ ~enabled'
                   /\ accepted' = accepted
                   /\ \A x \in Item : fate'[x] = "taken" => fate[x] = "taken"]_qvars

\* A call with a finite timeout returns, and so does every call once the queue is
\* disabled, unless the queue is freed under it.
CallsReturn ==
    \A t \in Thread :
        (op[t] \in {"push", "pop"} /\ (tmo[t] # "infinite" \/ ~enabled))
            ~> (op[t] \notin {"push", "pop"} \/ ~alive)

\* icBlockingQueue.h on an infinite timeout: "the routine will block until an item is
\* placed into the Queue, or the Queue is destroyed".  So no popper sleeps on a non-empty
\* queue once every thread that was woken has had its turn.
PopperNotStranded ==
    (enabled /\ items # <<>> /\ \A t \in Thread : wait[t] \in {"out", "full", "empty"})
        => \A t \in Thread : wait[t] # "empty"

\* blockingQueueDestroy yields "so that other threads can exit their block status" before
\* it frees the queue: when the queue is freed, no call that had been blocked is still
\* inside it.
NobodyInsideWhenFreed ==
    ~alive => \A t \in Thread : wait[t] # "woken"

=============================================================================
