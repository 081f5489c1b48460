------------------------ MODULE TaskExecutorProofs ------------------------
(***************************************************************************)
(* Proofs about TaskExecutor, for any number of clients and tasks and any  *)
(* capacity of its queue.  The executor makes the queue do only what       *)
(* BlockingQueue allows, so the invariant proved there holds in it.        *)
(***************************************************************************)
EXTENDS TaskExecutor, BlockingQueueProofs

USE Zenon

\* Clients and the worker are the threads of the queue.
LEMMA Threads == Worker \in Thread /\ Pusher \subseteq Thread /\ Worker \notin Pusher
                 /\ \A t \in Thread : t \in Pusher \/ t = Worker
BY WorkerAssumption DEF Thread

\* A step of the executor is a step of its blocking queue, or leaves the queue alone.
LEMMA StepOfQueue == [XNext]_vars => [Next]_qvars
<1> SUFFICES ASSUME [XNext]_vars PROVE [Next]_qvars
  OBVIOUS
<1> USE Threads
<1>1. ASSUME NEW t \in Pusher, NEW x \in Item, AppendStart(t, x) PROVE Next
  BY <1>1 DEF AppendStart, AppendFor, Next, Timeout
<1>2. ASSUME NEW t \in Pusher, NEW x \in Item, AppendRefused(t, x) PROVE UNCHANGED qvars
  BY <1>2 DEF AppendRefused
<1>3. ASSUME NEW t \in Pusher, AppendEnd(t) PROVE UNCHANGED qvars
  BY <1>3 DEF AppendEnd, AppendEndWith
<1>4. ASSUME NEW t \in Pusher, ClearTasks(t) PROVE Next
  BY <1>4 DEF ClearTasks, Next
<1>5. ASSUME NEW t \in Pusher, Destroy(t) \/ DrainCancel(t) PROVE Next \/ UNCHANGED qvars
  BY <1>5 DEF Destroy, DrainCancel, Cancel, CancelNow, AlreadyCancelled, Next
<1>6. ASSUME NEW t \in Pusher, Drain(t) PROVE UNCHANGED qvars
  BY <1>6 DEF Drain
<1>7. ASSUME NEW t \in Pusher, Join(t) PROVE Next
  BY <1>7 DEF Join, Next
<1>8. ASSUME NEW t \in Pusher, InternalDestroy(t) PROVE Next
  BY <1>8 DEF InternalDestroy, Next
<1>9. CASE WorkerLoop
  BY <1>9 DEF WorkerLoop, WorkerLoopUnless, Next, Timeout
<1>10. CASE WorkerPopped \/ WorkerDone
  BY <1>10 DEF WorkerPopped, WorkerDone
<1>11. ASSUME NEW t \in Thread, QueueRun(t) \/ QueueDeadline(t) \/ QueueExpire(t) \/ QueueSpurious(t)
       PROVE  Next
  BY <1>11 DEF QueueRun, QueueDeadline, QueueExpire, QueueSpurious, Next
<1>12. CASE UNCHANGED vars
  BY <1>12 DEF vars
<1> QED
  BY <1>1, <1>2, <1>3, <1>4, <1>5, <1>6, <1>7, <1>8, <1>9, <1>10, <1>11, <1>12 DEF XNext

\* The queue inside a taskExecutor behaves like any blocking queue, so everything proved of
\* icBlockingQueue holds in it.
THEOREM ExecutorUsesQueue == XSpec => Spec
<1>1. XInit => Init
  BY DEF XInit
<1> QED
  BY <1>1, StepOfQueue, PTL DEF XSpec, Spec

LEMMA QueueInvariant == XSpec => []IInv
BY ExecutorUsesQueue, InitIInv, NextIInv, PTL DEF Spec

\* The worker never sleeps in its pop while a task waits, although a push only signals when
\* the queue was empty: it is the only popper (SolePopperAwake).
THEOREM WorkerAwake == XSpec => []SolePopperAwake
BY ExecutorUsesQueue, NoLostWakeupForSolePopper, PTL

\* What happens to the tasks inside the executor is what happens to items in BoundedFifo
\* (ImplementsFifo).
THEOREM ExecutorIsFifo == XSpec => ImplementsFifo
BY ExecutorUsesQueue, QueueImplementsFifo, PTL

-----------------------------------------------------------------------------
(***************************************************************************)
(* Who may delete the executor.                                            *)
(***************************************************************************)
\* A client on its way to join the worker and to delete the executor.
Ender(t) == pc[t] \in {"cancel", "joining", "destroying"}

\* There is one such client at most, since execMutex protects the state and only the client
\* that changed it goes on; once the executor is released there is none.
OneEnder ==
    /\ \A t, u \in Pusher : Ender(t) /\ Ender(u) => t = u
    /\ \A t \in Pusher : Ender(t) => state # "RUN" /\ gone = 0
    /\ \A t \in Pusher : pc[t] = "cancel" => state = "FINISH"
    /\ gone # 0 => state # "RUN"

\* No client of an executor that is being drained destroys it (Mixes).
LEMMA EnderStep ==
    ASSUME ~Mixes, XTypeOK, OneEnder, [XNext]_vars
    PROVE  OneEnder'
<1> USE Threads
<1>0. pc \in [Thread -> ClientPC \cup WorkerPC]
  BY DEF XTypeOK
<1> DEFINE Moves(t, where) == pc' = [pc EXCEPT ![t] = where]
           AsBefore == UNCHANGED <<state, gone>>
<1>1. ASSUME NEW t \in Pusher, NEW where \in {"idle", "pushing"}, Moves(t, where), AsBefore
      PROVE  OneEnder'
  BY <1>0, <1>1 DEF OneEnder, Ender
<1>2. ASSUME NEW where, Moves(Worker, where), AsBefore
      PROVE  OneEnder'
  BY <1>0, <1>2 DEF OneEnder, Ender
<1>3. ASSUME UNCHANGED pc, AsBefore
      PROVE  OneEnder'
  BY <1>3 DEF OneEnder, Ender
<1>4. ASSUME NEW t \in Pusher, Destroy(t)
      PROVE  OneEnder'
  <2>1. CASE CancelNow(t)
    <3>1. state = "RUN" /\ state' = "CANCEL" /\ gone = 0 /\ gone' = gone /\ Moves(t, "joining")
      BY <1>4, <2>1 DEF Destroy, CancelNow, MayLock, XTypeOK
    <3>2. \A u \in Pusher : ~Ender(u)
      BY <3>1 DEF OneEnder
    <3> QED
      BY <1>0, <3>1, <3>2 DEF OneEnder, Ender
  <2>2. CASE AlreadyCancelled(t, "idle")
    BY <1>1, <2>2 DEF AlreadyCancelled
  <2> QED
    BY <1>4, <2>1, <2>2 DEF Destroy, Cancel
<1>5. ASSUME NEW t \in Pusher, Drain(t)
      PROVE  OneEnder'
  <2>1. PICK where \in {"cancel", "joining"} : Moves(t, where)
    BY <1>5 DEF Drain
  <2>2. state = "RUN" /\ state' = "FINISH" /\ gone = 0 /\ gone' = gone
    BY <1>5 DEF Drain, MayLock
  <2>3. \A u \in Pusher : ~Ender(u)
    BY <2>2 DEF OneEnder
  <2> QED
    BY <1>0, <2>1, <2>2, <2>3 DEF OneEnder, Ender
<1>6. ASSUME NEW t \in Pusher, DrainCancel(t)
      PROVE  OneEnder'
  <2>1. pc[t] = "cancel" /\ state = "FINISH" /\ Ender(t)
    BY <1>6 DEF DrainCancel, OneEnder, Ender
  <2>2. state' = "CANCEL" /\ gone' = gone /\ Moves(t, "joining")
    BY <1>6, <2>1 DEF DrainCancel, Cancel, CancelNow, AlreadyCancelled
  <2>3. gone = 0 /\ \A u \in Pusher : Ender(u) => u = t
    BY <2>1 DEF OneEnder
  <2> QED
    BY <1>0, <2>1, <2>2, <2>3 DEF OneEnder, Ender
<1>7. ASSUME NEW t \in Pusher, Join(t)
      PROVE  OneEnder'
  <2>1. pc[t] = "joining" /\ Ender(t) /\ AsBefore /\ Moves(t, "destroying")
    BY <1>7 DEF Join, Ender
  <2> QED
    BY <1>0, <2>1 DEF OneEnder, Ender
<1>8. ASSUME NEW t \in Pusher, InternalDestroy(t)
      PROVE  OneEnder'
  <2>1. Ender(t) /\ state' = state /\ Moves(t, "idle")
    BY <1>8 DEF InternalDestroy, Ender
  <2>2. state # "RUN" /\ \A u \in Pusher : Ender(u) => u = t
    BY <2>1 DEF OneEnder
  <2>3. \A u \in Pusher : ~Ender(u)'
    BY <1>0, <2>1, <2>2 DEF Ender
  <2> QED
    BY <2>1, <2>2, <2>3 DEF OneEnder, Ender
<1>9. ASSUME NEW t \in Pusher, AppendEnd(t) \/ \E x \in Item : AppendStart(t, x)
      PROVE  OneEnder'
  BY <1>1, <1>9 DEF AppendEnd, AppendEndWith, AppendStart, AppendFor
<1>10. ASSUME NEW t \in Pusher, ClearTasks(t) \/ \E x \in Item : AppendRefused(t, x)
       PROVE  OneEnder'
  BY <1>3, <1>10 DEF ClearTasks, AppendRefused
<1>11. CASE WorkerLoop \/ WorkerPopped \/ WorkerDone
  BY <1>2, <1>11 DEF WorkerLoop, WorkerLoopUnless, WorkerPopped, WorkerDone
<1>12. ASSUME NEW t \in Thread,
              QueueRun(t) \/ QueueDeadline(t) \/ QueueExpire(t) \/ QueueSpurious(t)
       PROVE  OneEnder'
  BY <1>3, <1>12 DEF QueueRun, QueueDeadline, QueueExpire, QueueSpurious, xvars
<1>13. CASE UNCHANGED vars
  BY <1>3, <1>13 DEF vars, xvars
<1> QED
  BY <1>4, <1>5, <1>6, <1>7, <1>8, <1>9, <1>10, <1>11, <1>12, <1>13 DEF XNext

-----------------------------------------------------------------------------
(***************************************************************************)
(* Who owns a task.                                                        *)
(***************************************************************************)
\* Which call of the queue a thread is in follows from what it is doing.
Doing ==
    /\ pc[Worker] \in WorkerPC
    /\ op[Worker] # "none" => pc[Worker] = "popping"
    /\ \A t \in Pusher : /\ pc[t] \in ClientPC
                         /\ pc[t] = "pushing" => op[t] \in {"none", "push"}
                         /\ pc[t] = "destroying" => op[t] = "destroy"
                         /\ pc[t] \notin {"pushing", "destroying"} => op[t] = "none"

\* The worker has popped x and has not released it.
Holds(x) ==
    /\ slot[Worker] = x
    /\ \/ pc[Worker] = "popping" /\ op[Worker] = "none"
       \/ pc[Worker] = "running"

\* A task that was popped is released, or it is the one the worker holds.  One that was
\* cleared is released, one in the queue or on its way there is not.
Owned ==
    /\ \A x \in Item : frees[x] \leq 1
    /\ \A x \in Item : fate[x] \in {"offered", "queued"} => frees[x] = 0
    /\ \A x \in Item : fate[x] = "freed" => frees[x] = 1
    /\ \A x \in Item : fate[x] = "taken" => (frees[x] = 0 <=> Holds(x))
    /\ \A x \in Item : Holds(x) => fate[x] = "taken"
    /\ pc[Worker] = "running" => slot[Worker] \in Item

\* The task of a push that failed still is its client's, who has not released it.
Refused ==
    \A t \in Pusher : pc[t] = "pushing" /\ op[t] = "none" /\ ret[t] # "ok"
        => slot[t] \in Item /\ fate[slot[t]] = "client" /\ frees[slot[t]] = 0

\* The tasks that ran were taken from the queue before the one the worker holds.
Order ==
    /\ \A i \in 1..Len(ran) : fate[ran[i]] = "taken"
    /\ RunInOrder
    /\ \A x \in Item : Holds(x) /\ pc[Worker] = "popping"
                         => \A i \in 1..Len(ran) : stamp[ran[i]] < stamp[x]

\* The worker leaves an executor that is drained when its queue is empty, and nobody
\* appends to it any more.
Ends ==
    /\ \A t \in Pusher : pc[t] = "pushing" => state = "RUN"
    /\ pc[Worker] = "exited" => state # "RUN"
    /\ state = "FINISH" /\ pc[Worker] = "exited" => items = <<>>

XInv == XTypeOK /\ Doing /\ Owned /\ Refused /\ Order /\ Ends

\* taskExecutorCreate establishes it.
LEMMA XInitInv == XInit => XInv
<1> SUFFICES ASSUME XInit PROVE XInv
  OBVIOUS
<1> USE Threads
<1>1. pc = [t \in Thread |-> IF t = Worker THEN "loop" ELSE "idle"]
  BY DEF XInit
<1>2. pc[Worker] = "loop" /\ \A t \in Pusher : pc[t] = "idle"
  BY <1>1
<1>3. XTypeOK
  <2>1. pc \in [Thread -> ClientPC \cup WorkerPC]
    BY <1>1 DEF ClientPC, WorkerPC
  <2>2. /\ state \in {"RUN", "FINISH", "CANCEL"} /\ lock = NoThread
        /\ ran \in Seq(Item) /\ frees \in [Item -> Nat] /\ gone \in Nat
    BY SMT DEF XInit
  <2>3. \A t \in Pusher : lock # t
    BY <2>2, NoThreadAssumption
  <2> QED
    BY <1>2, <2>1, <2>2, <2>3 DEF XTypeOK
<1>4. Doing
  BY <1>2 DEF XInit, Init, Doing, ClientPC, WorkerPC
<1>5. Owned /\ Refused
  BY <1>2, SMT DEF XInit, Init, Owned, Refused, Holds
<1>6. Order
  BY <1>2, SMT DEF XInit, Order, RunInOrder
<1>7. Ends
  BY <1>2 DEF XInit, Ends
<1> QED
  BY <1>3, <1>4, <1>5, <1>6, <1>7 DEF XInv

-----------------------------------------------------------------------------
(***************************************************************************)
(* One lemma per step: it preserves the invariant.                         *)
(***************************************************************************)
\* The types of what the queue and the executor share.
LEMMA Typed ==
    ASSUME IInv, XInv
    PROVE  /\ pc \in [Thread -> ClientPC \cup WorkerPC] /\ op \in [Thread -> Op]
           /\ slot \in [Thread -> Item \cup {NoItem}] /\ ret \in [Thread -> Result]
           /\ fate \in [Item -> Fate] /\ stamp \in [Item -> Nat] /\ items \in Seq(Item)
           /\ frees \in [Item -> Nat] /\ ran \in Seq(Item) /\ gone \in Nat
           /\ state \in {"RUN", "FINISH", "CANCEL"} /\ lock \in Pusher \cup {NoThread}
BY DEF IInv, TypeOK, XInv, XTypeOK

LEMMA RanItems == ASSUME IInv, XInv PROVE \A i \in 1..Len(ran) : ran[i] \in Item
<1>1. ran \in Seq(Item)
  BY Typed
<1> QED
  BY <1>1, SMT

\* While execMutex is free no client is in a call that holds it.
LEMMA Unlocked ==
    ASSUME XInv, lock = NoThread, NEW t \in Pusher
    PROVE  pc[t] \notin {"pushing", "destroying"} /\ op[t] = "none"
<1>1. pc[t] \notin {"pushing", "destroying"}
  BY Threads, NoThreadAssumption DEF XInv, XTypeOK
<1> QED
  BY <1>1 DEF XInv, Doing

LEMMA AppendStartStep ==
    ASSUME IInv, XInv, NEW t \in Pusher, NEW x \in Item, AppendStart(t, x)
    PROVE  XInv'
<1> USE Threads
<1>1. /\ lock = NoThread /\ state = "RUN" /\ frees[x] = 0 /\ pc[t] = "idle"
      /\ fate[x] = "client"
      /\ lock' = t /\ pc' = [pc EXCEPT ![t] = "pushing"]
      /\ op' = [op EXCEPT ![t] = "push"] /\ slot' = [slot EXCEPT ![t] = x]
      /\ ret' = [ret EXCEPT ![t] = "none"] /\ fate' = [fate EXCEPT ![x] = "offered"]
      /\ UNCHANGED <<state, ran, frees, gone, items, stamp>>
  BY DEF AppendStart, AppendFor, MayLock, PushCall, Enter
<1>2. /\ pc[Worker]' = pc[Worker] /\ op[Worker]' = op[Worker] /\ slot[Worker]' = slot[Worker]
      /\ pc[t]' = "pushing" /\ op[t]' = "push"
      /\ \A u \in Pusher \ {t} : pc[u]' = pc[u] /\ op[u]' = op[u]
      /\ \A y \in Item \ {x} : fate[y]' = fate[y]
      /\ fate[x]' = "offered"
  BY <1>1, Typed
<1>3. \A y : Holds(y)' <=> Holds(y)
  BY <1>2 DEF Holds
<1>4. \A u \in Pusher : pc[u] \notin {"pushing", "destroying"} /\ op[u] = "none"
  BY <1>1, Unlocked
<1>5. XTypeOK'
  <2>1. pc' \in [Thread -> ClientPC \cup WorkerPC]
    BY <1>1, Typed DEF ClientPC
  <2>2. \A u \in Pusher : pc[u]' \in {"pushing", "destroying"} <=> lock' = u
    BY <1>1, <1>2, <1>4, SMT
  <2> QED
    BY <1>1, <2>1, <2>2, Typed DEF XTypeOK
<1>6. Doing'
  BY <1>2, <1>4 DEF XInv, Doing, ClientPC
<1>7. Owned'
  BY <1>1, <1>2, <1>3, SMT DEF XInv, Owned
<1>8. Refused'
  BY <1>2, <1>4 DEF Refused
<1>9. Order'
  <2>1. \A i \in 1..Len(ran) : fate[ran[i]]' = "taken"
    BY <1>1, <1>2, RanItems, SMT DEF XInv, Order
  <2> QED
    BY <1>1, <1>2, <1>3, <2>1, SMT DEF XInv, Order, RunInOrder
<1>10. Ends'
  BY <1>1, <1>2 DEF XInv, Ends
<1> QED
  BY <1>5, <1>6, <1>7, <1>8, <1>9, <1>10 DEF XInv

LEMMA AppendRefusedStep ==
    ASSUME IInv, XInv, NEW t \in Pusher, NEW x \in Item, AppendRefused(t, x)
    PROVE  XInv'
<1> USE Threads
<1>1. /\ lock = NoThread /\ frees[x] = 0 /\ fate[x] = "client"
      /\ frees' = [frees EXCEPT ![x] = @ + 1]
      /\ UNCHANGED <<qvars, state, lock, pc, ran, gone>>
  BY DEF AppendRefused, MayLock, Free
<1>2. /\ frees[x]' = 1 /\ \A y \in Item \ {x} : frees[y]' = frees[y]
      /\ frees' \in [Item -> Nat]
  BY <1>1, Typed, SMT
<1>3. UNCHANGED <<items, op, slot, ret, fate, stamp, pc, state, ran>>
  BY <1>1 DEF qvars
<1>4. \A y : Holds(y)' <=> Holds(y)
  BY <1>3 DEF Holds
<1>5. XTypeOK'
  BY <1>1, <1>2 DEF XInv, XTypeOK
<1>6. Doing' /\ Ends'
  BY <1>3 DEF XInv, Doing, Ends
<1>7. Owned'
  BY <1>1, <1>2, <1>3, <1>4, SMT DEF XInv, Owned
<1>8. Refused'
  BY <1>1, <1>3, Unlocked DEF Refused
<1>9. Order'
  BY <1>3, <1>4 DEF XInv, Order, RunInOrder
<1> QED
  BY <1>5, <1>6, <1>7, <1>8, <1>9 DEF XInv

LEMMA AppendEndStep ==
    ASSUME IInv, XInv, NEW t \in Pusher, AppendEnd(t)
    PROVE  XInv'
<1> USE Threads
<1>1. /\ pc[t] = "pushing" /\ op[t] = "none" /\ lock' = NoThread
      /\ pc' = [pc EXCEPT ![t] = "idle"]
      /\ frees' = IF ret[t] = "ok" THEN frees ELSE [frees EXCEPT ![slot[t]] = @ + 1]
      /\ UNCHANGED <<qvars, state, ran, gone>>
  BY DEF AppendEnd, AppendEndWith
<1>2. UNCHANGED <<items, op, slot, ret, fate, stamp, state, ran, gone>>
  BY <1>1 DEF qvars
<1>3. /\ pc[Worker]' = pc[Worker] /\ pc[t]' = "idle"
      /\ \A u \in Pusher \ {t} : pc[u]' = pc[u]
  BY <1>1, Typed
<1>4. \A y : Holds(y)' <=> Holds(y)
  BY <1>2, <1>3 DEF Holds
<1>5. lock = t /\ \A u \in Pusher \ {t} : pc[u] \notin {"pushing", "destroying"}
  BY <1>1 DEF XInv, XTypeOK
<1>6. /\ frees' \in [Item -> Nat]
      /\ \A y \in Item : frees[y]' = frees[y]
                         \/ (fate[y] = "client" /\ frees[y] = 0 /\ frees[y]' = 1)
  <2>1. CASE ret[t] = "ok"
    BY <1>1, <2>1, Typed
  <2>2. CASE ret[t] # "ok"
    <3>1. slot[t] \in Item /\ fate[slot[t]] = "client" /\ frees[slot[t]] = 0
      BY <1>1, <2>2 DEF XInv, Refused
    <3> QED
      BY <1>1, <2>2, <3>1, Typed, SMT
  <2> QED
    BY <2>1, <2>2
<1>7. XTypeOK'
  <2>1. pc' \in [Thread -> ClientPC \cup WorkerPC]
    BY <1>1, Typed DEF ClientPC
  <2>2. \A u \in Pusher : pc[u]' \notin {"pushing", "destroying"} /\ lock' # u
    BY <1>1, <1>3, <1>5, NoThreadAssumption
  <2> QED
    BY <1>1, <1>2, <1>6, <2>1, <2>2, Typed DEF XTypeOK
<1>8. Doing' /\ Ends'
  BY <1>1, <1>2, <1>3 DEF XInv, Doing, Ends, ClientPC
<1>9. Owned'
  BY <1>2, <1>3, <1>4, <1>6, SMT DEF XInv, Owned
<1>10. Refused'
  BY <1>3, <1>5 DEF Refused
<1>11. Order'
  BY <1>2, <1>3, <1>4 DEF XInv, Order, RunInOrder
<1> QED
  BY <1>7, <1>8, <1>9, <1>10, <1>11 DEF XInv

\* A client goes on while execMutex is free, having ended the executor or found it ended.
LEMMA ClientMoves ==
    ASSUME IInv, XInv, NEW t \in Pusher, NEW where \in {"idle", "cancel", "joining"},
           lock = NoThread, pc' = [pc EXCEPT ![t] = where],
           state' = "CANCEL" \/ (state' = "FINISH" /\ state = "RUN"),
           UNCHANGED <<items, op, slot, ret, fate, stamp, lock, ran, frees, gone>>
    PROVE  XInv'
<1> USE Threads
<1>1. /\ pc[Worker]' = pc[Worker] /\ pc[t]' = where
      /\ \A u \in Pusher \ {t} : pc[u]' = pc[u]
  BY Typed
<1>2. \A u \in Pusher : pc[u] \notin {"pushing", "destroying"} /\ op[u] = "none"
  BY Unlocked
<1>3. \A u \in Pusher : pc[u]' \notin {"pushing", "destroying"} /\ pc[u]' \in ClientPC
  BY <1>1, <1>2 DEF XInv, Doing, ClientPC
<1>4. \A y : Holds(y)' <=> Holds(y)
  BY <1>1 DEF Holds
<1>5. XTypeOK'
  <2>1. pc' \in [Thread -> ClientPC \cup WorkerPC]
    BY Typed DEF ClientPC
  <2>2. \A u \in Pusher : lock' # u
    BY NoThreadAssumption
  <2> QED
    BY <1>3, <2>1, <2>2, Typed DEF XTypeOK
<1>6. Doing'
  BY <1>1, <1>2, <1>3 DEF XInv, Doing
<1>7. Owned'
  BY <1>1, <1>4 DEF XInv, Owned
<1>8. Refused'
  BY <1>3 DEF Refused
<1>9. Order'
  BY <1>1, <1>4 DEF XInv, Order, RunInOrder
<1>10. Ends'
  BY <1>1, <1>3 DEF XInv, Ends
<1> QED
  BY <1>5, <1>6, <1>7, <1>8, <1>9, <1>10 DEF XInv

\* destroyTaskExecutor and drainAndDestroyTaskExecutor up to their pthread_join.
LEMMA EndingStep ==
    ASSUME IInv, XInv, NEW t \in Pusher, Destroy(t) \/ Drain(t) \/ DrainCancel(t)
    PROVE  XInv'
<1>1. CASE Cancel(t)
  <2>1. /\ lock = NoThread /\ state' = "CANCEL"
        /\ UNCHANGED <<items, op, slot, ret, fate, stamp, lock, ran, frees, gone>>
    BY <1>1 DEF Cancel, CancelNow, AlreadyCancelled, Disable, qvars
  <2>2. \E where \in {"idle", "joining"} : pc' = [pc EXCEPT ![t] = where]
    BY <1>1 DEF Cancel, CancelNow, AlreadyCancelled
  <2> QED
    BY <2>1, <2>2, ClientMoves
<1>2. CASE Drain(t)
  <2>1. /\ lock = NoThread /\ state' = "FINISH" /\ state = "RUN"
        /\ UNCHANGED <<items, op, slot, ret, fate, stamp, lock, ran, frees, gone>>
    BY <1>2 DEF Drain, MayLock, qvars
  <2>2. \E where \in {"cancel", "joining"} : pc' = [pc EXCEPT ![t] = where]
    BY <1>2 DEF Drain
  <2> QED
    BY <2>1, <2>2, ClientMoves
<1> QED
  BY <1>1, <1>2 DEF Destroy, DrainCancel

\* pthread_join and the first half of internalDestroy.
LEMMA JoinStep ==
    ASSUME IInv, XInv, NEW t \in Pusher, Join(t)
    PROVE  XInv'
<1> USE Threads
<1>1. /\ pc[t] = "joining" /\ pc[Worker] = "exited" /\ lock = NoThread /\ lock' = t
      /\ pc' = [pc EXCEPT ![t] = "destroying"] /\ op' = [op EXCEPT ![t] = "destroy"]
      /\ UNCHANGED <<items, slot, ret, fate, stamp, state, ran, frees, gone>>
  BY DEF Join, DestroyBegin
<1>2. /\ pc[Worker]' = pc[Worker] /\ op[Worker]' = op[Worker]
      /\ pc[t]' = "destroying" /\ op[t]' = "destroy"
      /\ \A u \in Pusher \ {t} : pc[u]' = pc[u] /\ op[u]' = op[u]
  BY <1>1, Typed
<1>3. \A u \in Pusher : pc[u] \notin {"pushing", "destroying"} /\ op[u] = "none"
  BY <1>1, Unlocked
<1>4. \A y : Holds(y)' <=> Holds(y)
  BY <1>1, <1>2 DEF Holds
<1>5. XTypeOK'
  <2>1. pc' \in [Thread -> ClientPC \cup WorkerPC]
    BY <1>1, Typed DEF ClientPC
  <2>2. \A u \in Pusher : pc[u]' \in {"pushing", "destroying"} <=> lock' = u
    BY <1>1, <1>2, <1>3
  <2> QED
    BY <1>1, <2>1, <2>2, Typed DEF XTypeOK
<1>6. Doing'
  BY <1>2, <1>3 DEF XInv, Doing, ClientPC
<1>7. Owned'
  BY <1>1, <1>2, <1>4 DEF XInv, Owned
<1>8. Refused'
  BY <1>2, <1>3 DEF Refused
<1>9. Order'
  BY <1>1, <1>2, <1>4 DEF XInv, Order, RunInOrder
<1>10. Ends'
  BY <1>1, <1>2, <1>3 DEF XInv, Ends
<1> QED
  BY <1>5, <1>6, <1>7, <1>8, <1>9, <1>10 DEF XInv

\* freeQueueItemsFunc on what is queued, in clearTaskExecutor and in internalDestroy.
LEMMA Emptied ==
    ASSUME IInv, XInv, fate' = FreeAll, FreeQueued, items' = <<>>,
           UNCHANGED <<slot, stamp, ran>>, pc[Worker]' = pc[Worker], op[Worker]' = op[Worker]
    PROVE  /\ frees' \in [Item -> Nat]
           /\ \A x \in Item : fate[x] = "client" => fate[x]' = "client" /\ frees[x]' = frees[x]
           /\ Owned'
           /\ Order'
<1> USE Threads
<1>1. \A x \in Item : /\ frees[x]' = IF fate[x] = "queued" THEN frees[x] + 1 ELSE frees[x]
                      /\ fate[x]' = IF fate[x] = "queued" THEN "freed" ELSE fate[x]
  BY DEF FreeQueued, FreeAll
<1>2. frees' \in [Item -> Nat]
  BY Typed, SMT DEF FreeQueued
<1>3. \A y : Holds(y)' <=> Holds(y)
  BY DEF Holds
<1>4. Owned'
  BY <1>1, <1>3, SMT DEF XInv, Owned
<1>5. Order'
  <2>1. \A i \in 1..Len(ran) : fate[ran[i]]' = "taken"
    BY <1>1, RanItems DEF XInv, Order
  <2> QED
    BY <1>3, <2>1 DEF XInv, Order, RunInOrder
<1> QED
  BY <1>1, <1>2, <1>4, <1>5

LEMMA ClearTasksStep ==
    ASSUME IInv, XInv, NEW t \in Pusher, ClearTasks(t)
    PROVE  XInv'
<1>1. /\ lock = NoThread /\ state = "RUN" /\ items' = <<>> /\ fate' = FreeAll /\ FreeQueued
      /\ UNCHANGED <<op, slot, ret, stamp, state, lock, pc, ran, gone>>
  BY DEF ClearTasks, MayLock, Clear
<1>2. frees' \in [Item -> Nat] /\ Owned' /\ Order'
  BY <1>1, Emptied
<1>3. XTypeOK'
  BY <1>1, <1>2 DEF XInv, XTypeOK
<1>4. Doing' /\ Ends'
  BY <1>1 DEF XInv, Doing, Ends
<1>5. Refused'
  BY <1>1, Unlocked DEF Refused
<1> QED
  BY <1>2, <1>3, <1>4, <1>5 DEF XInv

LEMMA InternalDestroyStep ==
    ASSUME IInv, XInv, NEW t \in Pusher, InternalDestroy(t)
    PROVE  XInv'
<1> USE Threads
<1>1. /\ pc[t] = "destroying" /\ items' = <<>> /\ fate' = FreeAll /\ FreeQueued
      /\ lock' = NoThread /\ op' = [op EXCEPT ![t] = "none"]
      /\ pc' = [pc EXCEPT ![t] = "idle"] /\ gone' = gone + 1
      /\ UNCHANGED <<slot, ret, stamp, state, ran>>
  BY DEF InternalDestroy, DestroyFinish
<1>2. /\ pc[Worker]' = pc[Worker] /\ op[Worker]' = op[Worker]
      /\ pc[t]' = "idle" /\ op[t]' = "none"
      /\ \A u \in Pusher \ {t} : pc[u]' = pc[u] /\ op[u]' = op[u]
  BY <1>1, Typed
<1>3. frees' \in [Item -> Nat] /\ Owned' /\ Order'
  BY <1>1, <1>2, Emptied
<1>4. \A u \in Pusher : pc[u]' \notin {"pushing", "destroying"}
  BY <1>1, <1>2 DEF XInv, XTypeOK
<1>5. XTypeOK'
  <2>1. pc' \in [Thread -> ClientPC \cup WorkerPC]
    BY <1>1, Typed DEF ClientPC
  <2>2. \A u \in Pusher : lock' # u
    BY <1>1, NoThreadAssumption
  <2>3. gone' \in Nat
    BY <1>1, Typed, SMT
  <2> QED
    BY <1>1, <1>3, <1>4, <2>1, <2>2, <2>3, Typed DEF XTypeOK
<1>6. Doing'
  BY <1>2 DEF XInv, Doing, ClientPC
<1>7. Refused' /\ Ends'
  BY <1>1, <1>2, <1>4 DEF XInv, Refused, Ends
<1> QED
  BY <1>3, <1>5, <1>6, <1>7 DEF XInv

\* The worker goes on: what concerns the clients stays.
LEMMA WorkerMoves ==
    ASSUME IInv, XInv, NEW where \in WorkerPC, pc' = [pc EXCEPT ![Worker] = where],
           \A u \in Pusher : op[u]' = op[u], op[Worker]' # "none" => where = "popping",
           UNCHANGED <<state, lock, gone>>, frees' \in [Item -> Nat], ran' \in Seq(Item)
    PROVE  /\ XTypeOK' /\ Doing'
           /\ pc[Worker]' = where /\ \A u \in Pusher : pc[u]' = pc[u]
<1> USE Threads
<1>1. /\ pc[Worker]' = where /\ \A u \in Pusher : pc[u]' = pc[u]
      /\ pc' \in [Thread -> ClientPC \cup WorkerPC]
  BY Typed
<1>2. XTypeOK'
  BY <1>1, Typed DEF XInv, XTypeOK
<1>3. Doing'
  BY <1>1 DEF XInv, Doing
<1> QED
  BY <1>1, <1>2, <1>3

\* execWorkerThread at the head of its loop: it holds nothing.
LEMMA WorkerLoopStep ==
    ASSUME IInv, XInv, WorkerLoop
    PROVE  XInv'
<1> USE Threads
<1>1. pc[Worker] = "loop" /\ op[Worker] = "none" /\ \A y : ~Holds(y)
  BY DEF WorkerLoop, WorkerLoopUnless, XInv, Doing, Holds
<1>2. UNCHANGED <<state, lock, ran, frees, gone, items, fate, stamp>>
  BY DEF WorkerLoop, WorkerLoopUnless, PopCall, Enter, qvars
<1>3. /\ \/ /\ pc' = [pc EXCEPT ![Worker] = "exited"] /\ UNCHANGED <<op, slot, ret>>
            /\ state = "CANCEL" \/ (state = "FINISH" /\ items = <<>>)
         \/ /\ pc' = [pc EXCEPT ![Worker] = "popping"] /\ op' = [op EXCEPT ![Worker] = "pop"]
            /\ slot' = [slot EXCEPT ![Worker] = NoItem] /\ ret' = [ret EXCEPT ![Worker] = "none"]
  BY DEF WorkerLoop, WorkerLoopUnless, PopCall, Enter, qvars
<1>4. \A u \in Pusher : op[u]' = op[u] /\ slot[u]' = slot[u] /\ ret[u]' = ret[u]
  BY <1>3, Typed
<1>5. PICK where \in {"exited", "popping"} :
         /\ pc' = [pc EXCEPT ![Worker] = where]
         /\ where = "exited" => op[Worker]' = "none" /\ (state = "CANCEL" \/ (state = "FINISH" /\ items = <<>>))
         /\ where = "popping" => op[Worker]' = "pop"
  BY <1>1, <1>3, Typed
<1>6. /\ XTypeOK' /\ Doing'
      /\ pc[Worker]' = where /\ \A u \in Pusher : pc[u]' = pc[u]
  <2>1. where \in WorkerPC /\ (op[Worker]' # "none" => where = "popping")
    BY <1>5 DEF WorkerPC
  <2>2. frees' \in [Item -> Nat] /\ ran' \in Seq(Item)
    BY <1>2, Typed
  <2> QED
    BY <1>2, <1>4, <1>5, <2>1, <2>2, WorkerMoves
<1>7. \A y : ~Holds(y)'
  BY <1>5, <1>6 DEF Holds
<1>8. Owned'
  BY <1>1, <1>2, <1>5, <1>6, <1>7 DEF XInv, Owned
<1>9. Refused'
  BY <1>2, <1>4, <1>6, SMT DEF XInv, Refused
<1>10. Order'
  BY <1>2, <1>7 DEF XInv, Order, RunInOrder
<1>11. Ends'
  BY <1>2, <1>5, <1>6 DEF XInv, Ends
<1> QED
  BY <1>6, <1>8, <1>9, <1>10, <1>11 DEF XInv

\* The worker releases the task it holds.
LEMMA Released ==
    ASSUME IInv, XInv, NEW x \in Item, Holds(x), Free(x),
           pc' = [pc EXCEPT ![Worker] = "loop"], op[Worker] = "none",
           UNCHANGED <<qvars, state, lock, ran, gone>>
    PROVE  XInv'
<1> USE Threads
<1>1. fate[x] = "taken" /\ frees[x] = 0
  BY DEF XInv, Owned
<1>2. frees' \in [Item -> Nat] /\ frees[x]' = 1 /\ \A y \in Item \ {x} : frees[y]' = frees[y]
  BY <1>1, Typed, SMT DEF Free
<1>3. UNCHANGED <<items, op, slot, ret, fate, stamp>>
  BY DEF qvars
<1>4. /\ XTypeOK' /\ Doing'
      /\ pc[Worker]' = "loop" /\ \A u \in Pusher : pc[u]' = pc[u]
  <2>1. "loop" \in WorkerPC /\ op[Worker]' = "none" /\ ran' \in Seq(Item)
    BY <1>3, Typed DEF WorkerPC
  <2> QED
    BY <1>2, <1>3, <2>1, WorkerMoves
<1>5. (\A y : ~Holds(y)') /\ \A y : Holds(y) => y = x
  BY <1>4 DEF Holds
<1>6. Owned'
  BY <1>1, <1>2, <1>3, <1>4, <1>5, SMT DEF XInv, Owned
<1>7. Refused'
  BY <1>1, <1>2, <1>3, <1>4, ZenonT(60) DEF XInv, Refused
<1>8. Order'
  BY <1>3, <1>5 DEF XInv, Order, RunInOrder
<1>9. Ends'
  BY <1>3, <1>4 DEF XInv, Ends
<1> QED
  BY <1>4, <1>6, <1>7, <1>8, <1>9 DEF XInv

LEMMA WorkerDoneStep ==
    ASSUME IInv, XInv, WorkerDone
    PROVE  XInv'
<1>1. pc[Worker] = "running" /\ slot[Worker] \in Item /\ op[Worker] = "none"
  BY DEF WorkerDone, XInv, Owned, Doing
<1>2. Holds(slot[Worker])
  BY <1>1 DEF Holds
<1> QED
  BY <1>1, <1>2, Released DEF WorkerDone

LEMMA WorkerPoppedStep ==
    ASSUME IInv, XInv, WorkerPopped
    PROVE  XInv'
<1> USE Threads
<1> DEFINE x == slot[Worker]
<1>1. /\ pc[Worker] = "popping" /\ op[Worker] = "none"
      /\ UNCHANGED <<qvars, state, lock, gone>>
  BY DEF WorkerPopped
<1>2. UNCHANGED <<items, op, slot, ret, fate, stamp>>
  BY <1>1 DEF qvars
<1>3. \A y : Holds(y) <=> y = x
  BY <1>1 DEF Holds
<1>4. CASE x = NoItem /\ pc' = [pc EXCEPT ![Worker] = "loop"] /\ UNCHANGED <<ran, frees>>
  <2>1. /\ XTypeOK' /\ Doing'
        /\ pc[Worker]' = "loop" /\ \A u \in Pusher : pc[u]' = pc[u]
    <3>1. "loop" \in WorkerPC /\ op[Worker]' = "none" /\ ran' \in Seq(Item)
          /\ frees' \in [Item -> Nat]
      BY <1>1, <1>2, <1>4, Typed DEF WorkerPC
    <3> QED
      BY <1>1, <1>2, <1>4, <3>1, WorkerMoves
  <2>2. (\A y : ~Holds(y)') /\ \A y \in Item : ~Holds(y)
    BY <1>3, <1>4, <2>1, NoItemAssumption DEF Holds
  <2>3. Owned'
    BY <1>2, <1>4, <2>1, <2>2 DEF XInv, Owned
  <2>4. Refused'
    BY <1>2, <1>4, <2>1 DEF XInv, Refused
  <2>5. Order'
    BY <1>2, <1>4, <2>2 DEF XInv, Order, RunInOrder
  <2>6. Ends'
    BY <1>1, <1>2, <2>1 DEF XInv, Ends
  <2> QED
    BY <2>1, <2>3, <2>4, <2>5, <2>6 DEF XInv
<1>5. CASE x \in Item /\ pc' = [pc EXCEPT ![Worker] = "running"] /\ ran' = Append(ran, x)
           /\ UNCHANGED frees
  <2>1. ran \in Seq(Item) /\ ran' \in Seq(Item) /\ Len(ran') = Len(ran) + 1 /\ Len(ran) \in Nat
        /\ ran'[Len(ran) + 1] = x /\ \A i \in 1..Len(ran) : ran'[i] = ran[i]
    BY <1>5, Typed, SMT
  <2>2. /\ XTypeOK' /\ Doing'
        /\ pc[Worker]' = "running" /\ \A u \in Pusher : pc[u]' = pc[u]
    <3>1. "running" \in WorkerPC /\ op[Worker]' = "none" /\ frees' \in [Item -> Nat]
      BY <1>1, <1>2, <1>5, Typed DEF WorkerPC
    <3> QED
      BY <1>1, <1>2, <1>5, <2>1, <3>1, WorkerMoves
  <2>3. \A y : Holds(y)' <=> Holds(y)
    BY <1>2, <1>3, <2>2 DEF Holds
  <2>4. Owned'
    BY <1>2, <1>5, <2>2, <2>3 DEF XInv, Owned
  <2>5. Refused'
    BY <1>2, <1>5, <2>2 DEF XInv, Refused
  <2>6. Order'
    <3>1. fate[x] = "taken" /\ \A i \in 1..Len(ran) : stamp[ran[i]] < stamp[x]
      BY <1>1, <1>3, <1>5 DEF XInv, Owned, Order
    <3>2. \A i \in 1..Len(ran') : i \in 1..Len(ran) \/ i = Len(ran) + 1
      BY <2>1, SMT
    <3>3. \A i \in 1..Len(ran') : fate'[ran'[i]] = "taken"
      BY <1>2, <2>1, <3>1, <3>2 DEF XInv, Order
    <3>4. RunInOrder'
      <4> SUFFICES ASSUME NEW i \in 1..Len(ran'), NEW j \in 1..Len(ran'), i < j
                   PROVE  stamp[ran'[i]] < stamp[ran'[j]]
        BY <1>2 DEF RunInOrder
      <4>1. i \in 1..Len(ran)
        BY <2>1, SMT
      <4>2. CASE j \in 1..Len(ran)
        BY <2>1, <4>1, <4>2 DEF XInv, Order, RunInOrder
      <4>3. CASE j = Len(ran) + 1
        BY <2>1, <3>1, <4>1, <4>3
      <4> QED
        BY <3>2, <4>2, <4>3
    <3> QED
      BY <2>2, <3>3, <3>4 DEF Order
  <2>7. Ends'
    BY <1>1, <1>2, <2>2 DEF XInv, Ends
  <2> QED
    BY <2>2, <2>4, <2>5, <2>6, <2>7 DEF XInv
<1>6. CASE x \in Item /\ pc' = [pc EXCEPT ![Worker] = "loop"] /\ Free(x) /\ UNCHANGED ran
  BY <1>1, <1>3, <1>6, Released
<1> QED
  BY <1>4, <1>5, <1>6, ClientAssumption DEF WorkerPopped

-----------------------------------------------------------------------------
(***************************************************************************)
(* The steps inside the blocking queue.                                    *)
(***************************************************************************)
\* Only the client that holds execMutex can be inside a push.
LEMMA PusherInside ==
    ASSUME IInv, XInv, NEW t \in Thread, op[t] = "push"
    PROVE  /\ t \in Pusher /\ t # Worker /\ pc[t] = "pushing" /\ lock = t /\ state = "RUN"
           /\ slot[t] \in Item /\ fate[slot[t]] = "offered" /\ frees[slot[t]] = 0
           /\ \A u \in Pusher \ {t} : pc[u] # "pushing"
<1>1. t \in Pusher /\ t # Worker
  BY Threads DEF IInv, Places
<1>2. pc[t] = "pushing"
  BY <1>1 DEF XInv, Doing
<1>3. lock = t /\ state = "RUN" /\ \A u \in Pusher \ {t} : pc[u] # "pushing"
  BY <1>1, <1>2 DEF XInv, XTypeOK, Ends
<1>4. slot[t] \in Item /\ fate[slot[t]] = "offered"
  BY DEF IInv, Conservation, OfferedOnce
<1> QED
  BY <1>1, <1>2, <1>3, <1>4 DEF XInv, Owned

\* Only the worker can be inside a pop, and then it holds nothing.
LEMMA PopperInside ==
    ASSUME IInv, XInv, NEW t \in Thread, op[t] = "pop"
    PROVE  t = Worker /\ pc[t] = "popping" /\ \A y : ~Holds(y)
<1>1. t = Worker
  BY WorkerAssumption DEF IInv, Places
<1>2. pc[Worker] = "popping"
  BY <1>1 DEF XInv, Doing
<1> QED
  BY <1>1, <1>2 DEF Holds

LEMMA PushRefuseKeeps ==
    ASSUME IInv, XInv, NEW t \in Thread, op[t] = "push", NEW r \in Result, PushRefuse(t, r),
           UNCHANGED xvars
    PROVE  XInv'
<1> USE Threads
<1> DEFINE x == slot[t]
<1>1. /\ t \in Pusher /\ t # Worker /\ pc[t] = "pushing"
      /\ x \in Item /\ fate[x] = "offered" /\ frees[x] = 0
      /\ \A u \in Pusher \ {t} : pc[u] # "pushing"
  BY PusherInside
<1>2. /\ op' = [op EXCEPT ![t] = "none"] /\ ret' = [ret EXCEPT ![t] = r]
      /\ slot' = [slot EXCEPT ![t] = x] /\ fate' = [fate EXCEPT ![x] = "client"]
      /\ UNCHANGED <<items, stamp>>
  BY DEF PushRefuse, PushRefuseWith, Return
<1>3. UNCHANGED <<state, lock, pc, ran, frees, gone>>
  BY DEF xvars
<1>4. /\ op[t]' = "none" /\ \A u \in Thread \ {t} : op[u]' = op[u] /\ slot[u]' = slot[u]
      /\ slot[t]' = x /\ fate'[x] = "client" /\ \A y \in Item \ {x} : fate[y]' = fate[y]
  BY <1>1, <1>2, Typed
<1>5. \A y : Holds(y)' <=> Holds(y)
  BY <1>1, <1>3, <1>4 DEF Holds
<1>6. XTypeOK'
  BY <1>3 DEF XInv, XTypeOK
<1>7. Doing'
  BY <1>1, <1>3, <1>4, ZenonT(60) DEF XInv, Doing
<1>8. Owned'
  BY <1>1, <1>3, <1>4, <1>5, ZenonT(60) DEF XInv, Owned
<1>9. Refused'
  BY <1>1, <1>3, <1>4 DEF Refused
<1>10. Order'
  <2>1. \A i \in 1..Len(ran) : fate[ran[i]]' = "taken"
    BY <1>1, <1>3, <1>4, RanItems DEF XInv, Order
  <2> QED
    BY <1>2, <1>3, <1>5, <2>1 DEF XInv, Order, RunInOrder
<1>11. Ends'
  BY <1>2, <1>3 DEF XInv, Ends
<1> QED
  BY <1>6, <1>7, <1>8, <1>9, <1>10, <1>11 DEF XInv

LEMMA PushAcceptKeeps ==
    ASSUME IInv, XInv, NEW t \in Thread, op[t] = "push", PushAccept(t), UNCHANGED xvars
    PROVE  XInv'
<1> USE Threads
<1> DEFINE x == slot[t]
<1>1. /\ t \in Pusher /\ t # Worker /\ pc[t] = "pushing" /\ state = "RUN"
      /\ x \in Item /\ fate[x] = "offered" /\ frees[x] = 0
      /\ \A u \in Pusher \ {t} : pc[u] # "pushing"
  BY PusherInside
<1>2. /\ op' = [op EXCEPT ![t] = "none"] /\ ret' = [ret EXCEPT ![t] = "ok"]
      /\ slot' = [slot EXCEPT ![t] = NoItem] /\ fate' = [fate EXCEPT ![x] = "queued"]
      /\ stamp' = [stamp EXCEPT ![x] = accepted + 1]
  BY DEF PushAccept, PushAcceptWith, Return
<1>3. UNCHANGED <<state, lock, pc, ran, frees, gone>>
  BY DEF xvars
<1>4. /\ op[t]' = "none" /\ \A u \in Thread \ {t} : op[u]' = op[u] /\ slot[u]' = slot[u]
      /\ ret[t]' = "ok" /\ fate'[x] = "queued"
      /\ \A y \in Item \ {x} : fate[y]' = fate[y] /\ stamp[y]' = stamp[y]
  BY <1>1, <1>2, Typed
<1>5. \A y : Holds(y)' <=> Holds(y)
  BY <1>1, <1>3, <1>4 DEF Holds
<1>6. XTypeOK'
  BY <1>3 DEF XInv, XTypeOK
<1>7. Doing'
  BY <1>1, <1>3, <1>4, ZenonT(60) DEF XInv, Doing
<1>8. Owned'
  BY <1>1, <1>3, <1>4, <1>5, ZenonT(60) DEF XInv, Owned
<1>9. Refused'
  BY <1>1, <1>3, <1>4 DEF Refused
<1>10. Order'
  <2>1. \A i \in 1..Len(ran) : ran[i] \in Item \ {x} /\ fate[ran[i]] = "taken"
    BY <1>1, RanItems DEF XInv, Order
  <2>2. \A y \in Item : Holds(y) => y # x
    BY <1>1 DEF XInv, Owned
  <2>3. \A i \in 1..Len(ran) : fate[ran[i]]' = "taken" /\ stamp[ran[i]]' = stamp[ran[i]]
    BY <1>3, <1>4, <2>1
  <2>4. RunInOrder'
    BY <1>3, <2>3 DEF XInv, Order, RunInOrder
  <2>5. \A y \in Item : Holds(y)' /\ pc[Worker]' = "popping"
                          => \A i \in 1..Len(ran') : stamp'[ran'[i]] < stamp'[y]
    BY <1>3, <1>4, <1>5, <2>2, <2>3 DEF XInv, Order
  <2> QED
    BY <1>3, <2>3, <2>4, <2>5 DEF Order
<1>11. Ends'
  BY <1>1, <1>3 DEF XInv, Ends
<1> QED
  BY <1>6, <1>7, <1>8, <1>9, <1>10, <1>11 DEF XInv

LEMMA PopRefuseKeeps ==
    ASSUME IInv, XInv, NEW t \in Thread, op[t] = "pop", NEW r \in Result, PopRefuse(t, r),
           UNCHANGED xvars
    PROVE  XInv'
<1> USE Threads
<1>1. t = Worker /\ pc[Worker] = "popping" /\ \A y : ~Holds(y)
  BY PopperInside
<1>2. /\ op' = [op EXCEPT ![Worker] = "none"] /\ ret' = [ret EXCEPT ![Worker] = r]
      /\ slot' = [slot EXCEPT ![Worker] = NoItem]
      /\ UNCHANGED <<items, fate, stamp>>
  BY <1>1 DEF PopRefuse, Return
<1>3. UNCHANGED <<state, lock, pc, ran, frees, gone>>
  BY DEF xvars
<1>4. /\ op[Worker]' = "none" /\ slot[Worker]' = NoItem
      /\ \A u \in Pusher : op[u]' = op[u] /\ slot[u]' = slot[u] /\ ret[u]' = ret[u]
  BY <1>2, Typed
<1>5. \A y \in Item : ~Holds(y)'
  BY <1>4, NoItemAssumption DEF Holds
<1>6. XTypeOK'
  BY <1>3 DEF XInv, XTypeOK
<1>7. Doing'
  BY <1>3, <1>4 DEF XInv, Doing
<1>8. Owned'
  BY <1>1, <1>2, <1>3, <1>5 DEF XInv, Owned
<1>9. Refused'
  BY <1>2, <1>3, <1>4 DEF XInv, Refused
<1>10. Order'
  BY <1>2, <1>3, <1>5 DEF XInv, Order, RunInOrder
<1>11. Ends'
  BY <1>2, <1>3 DEF XInv, Ends
<1> QED
  BY <1>6, <1>7, <1>8, <1>9, <1>10, <1>11 DEF XInv

LEMMA PopAcceptKeeps ==
    ASSUME IInv, XInv, NEW t \in Thread, op[t] = "pop", items # <<>>, PopAccept(t),
           UNCHANGED xvars
    PROVE  XInv'
<1> USE Threads
<1> DEFINE x == Head(items)
<1>1. t = Worker /\ pc[Worker] = "popping" /\ \A y : ~Holds(y)
  BY PopperInside
<1>2. x \in Item /\ fate[x] = "queued"
  <2>1. items \in Seq(Item) /\ 1 \in 1..Len(items) /\ x = items[1]
    BY Typed, SMT
  <2> QED
    BY <2>1, SMT DEF IInv, Conservation
<1>3. /\ op' = [op EXCEPT ![Worker] = "none"] /\ ret' = [ret EXCEPT ![Worker] = "ok"]
      /\ slot' = [slot EXCEPT ![Worker] = x] /\ fate' = [fate EXCEPT ![x] = "taken"]
      /\ UNCHANGED stamp
  BY <1>1 DEF PopAccept, PopAcceptWith, Return
<1>4. UNCHANGED <<state, lock, pc, ran, frees, gone>>
  BY DEF xvars
<1>5. /\ op[Worker]' = "none" /\ slot[Worker]' = x /\ fate'[x] = "taken"
      /\ \A u \in Pusher : op[u]' = op[u] /\ slot[u]' = slot[u] /\ ret[u]' = ret[u]
      /\ \A y \in Item \ {x} : fate[y]' = fate[y]
  BY <1>2, <1>3, Typed
<1>6. \A y : Holds(y)' <=> y = x
  BY <1>1, <1>4, <1>5 DEF Holds
<1>7. XTypeOK'
  BY <1>4 DEF XInv, XTypeOK
<1>8. Doing'
  BY <1>4, <1>5 DEF XInv, Doing
<1>9. Owned'
  BY <1>1, <1>2, <1>4, <1>5, <1>6 DEF XInv, Owned
<1>10. Refused'
  <2> SUFFICES ASSUME NEW u \in Pusher, pc[u] = "pushing", op[u] = "none", ret[u] # "ok"
               PROVE  slot[u] \in Item \ {x} /\ fate[slot[u]] = "client" /\ frees[slot[u]] = 0
    BY <1>4, <1>5, SMT DEF Refused
  <2> QED
    BY <1>2 DEF XInv, Refused
<1>11. Order'
  <2>1. \A i \in 1..Len(ran) : ran[i] \in Item /\ fate[ran[i]] = "taken" /\ ran[i] # x
    BY <1>2, RanItems DEF XInv, Order
  <2>2. \A i \in 1..Len(ran) : stamp[ran[i]] < stamp[x]
    BY <1>2, <2>1 DEF IInv, Fifo
  <2>3. \A i \in 1..Len(ran) : fate[ran[i]]' = "taken"
    BY <1>4, <1>5, <2>1
  <2> QED
    BY <1>3, <1>4, <1>6, <2>2, <2>3 DEF XInv, Order, RunInOrder
<1>12. Ends'
  BY <1>1, <1>4 DEF XInv, Ends
<1> QED
  BY <1>7, <1>8, <1>9, <1>10, <1>11, <1>12 DEF XInv

\* A thread blocks or is woken, or its deadline passes.
LEMMA WaitingKeeps ==
    ASSUME XInv, UNCHANGED <<items, op, slot, ret, fate, stamp>>, UNCHANGED xvars
    PROVE  XInv'
<1>1. UNCHANGED <<state, lock, pc, ran, frees, gone>>
  BY DEF xvars
<1>2. \A y : Holds(y)' <=> Holds(y)
  BY <1>1 DEF Holds
<1>3. XTypeOK' /\ Doing' /\ Refused' /\ Ends'
  BY <1>1 DEF XInv, XTypeOK, Doing, Refused, Ends
<1>4. Owned' /\ Order'
  BY <1>1, <1>2 DEF XInv, Owned, Order, RunInOrder
<1> QED
  BY <1>3, <1>4 DEF XInv

LEMMA QueueStepKeeps ==
    ASSUME IInv, XInv, NEW t \in Thread,
           QueueRun(t) \/ QueueDeadline(t) \/ QueueExpire(t) \/ QueueSpurious(t)
    PROVE  XInv'
<1>0. UNCHANGED xvars
  BY DEF QueueRun, QueueDeadline, QueueExpire, QueueSpurious
<1>1. CASE PushRun(t)
  <2>1. op[t] = "push" /\ {"interrupted", "timedout"} \subseteq Result
    BY <1>1 DEF PushRun, Result
  <2>2. CASE PushRefuse(t, "interrupted") \/ PushRefuse(t, "timedout")
    BY <1>0, <2>1, <2>2, PushRefuseKeeps
  <2>3. CASE PushAccept(t)
    BY <1>0, <2>1, <2>3, PushAcceptKeeps
  <2>4. CASE Block(t, "full")
    BY <1>0, <2>4, WaitingKeeps DEF Block
  <2> QED
    BY <1>1, <2>2, <2>3, <2>4 DEF PushRun
<1>2. CASE PopRun(t)
  <2>1. op[t] = "pop" /\ {"interrupted", "timedout"} \subseteq Result
    BY <1>2 DEF PopRun, Result
  <2>2. CASE PopRefuse(t, "interrupted") \/ PopRefuse(t, "timedout")
    BY <1>0, <2>1, <2>2, PopRefuseKeeps
  <2>3. CASE items # <<>> /\ PopAccept(t)
    BY <1>0, <2>1, <2>3, PopAcceptKeeps
  <2>4. CASE Block(t, "empty")
    BY <1>0, <2>4, WaitingKeeps DEF Block
  <2> QED
    BY <1>2, <2>2, <2>3, <2>4 DEF PopRun
<1>3. CASE Deadline(t) \/ Expire(t) \/ SpuriousWakeup(t)
  BY <1>0, <1>3, WaitingKeeps DEF Deadline, Expire, SpuriousWakeup
<1> QED
  BY <1>1, <1>2, <1>3 DEF QueueRun, QueueDeadline, QueueExpire, QueueSpurious

-----------------------------------------------------------------------------
\* Every step preserves the invariant.
LEMMA XNextInv == IInv /\ XInv /\ [XNext]_vars => XInv'
<1> SUFFICES ASSUME IInv, XInv, [XNext]_vars PROVE XInv'
  OBVIOUS
<1>1. CASE UNCHANGED vars
  BY <1>1, WaitingKeeps DEF vars, qvars
<1> QED
  BY <1>1, AppendStartStep, AppendRefusedStep, AppendEndStep, ClearTasksStep, EndingStep,
     JoinStep, InternalDestroyStep, WorkerLoopStep, WorkerPoppedStep, WorkerDoneStep,
     QueueStepKeeps
     DEF XNext

LEMMA ExecutorInvariant == XSpec => [](IInv /\ XInv)
BY QueueInvariant, XInitInv, XNextInv, PTL DEF XSpec

\* Every task is released at most once by taskExecutor, and not before its run function has
\* returned; the tasks run in the order in which they were appended; and an executor that is
\* drained has released all of them when its worker leaves (TasksReleased).
THEOREM ExecutorReleasesTasks == XSpec => []TasksReleased
<1>1. ASSUME IInv, XInv PROVE ReleasedOnce
  <2>1. pc[Worker] = "running" => frees[slot[Worker]] = 0
    <3> SUFFICES ASSUME pc[Worker] = "running" PROVE frees[slot[Worker]] = 0
      OBVIOUS
    <3>1. slot[Worker] \in Item /\ Holds(slot[Worker])
      BY <1>1 DEF XInv, Owned, Holds
    <3> QED
      BY <1>1, <3>1 DEF XInv, Owned
  <2>2. \A i \in 1..Len(items) : items[i] \in Item /\ fate[items[i]] = "queued"
    BY <1>1, SMT DEF IInv, TypeOK, Conservation
  <2> QED
    BY <1>1, <2>1, <2>2 DEF XInv, Owned, ReleasedOnce
<1>2. ASSUME IInv, XInv PROVE DrainRunsAll
  <2> SUFFICES ASSUME state = "FINISH", pc[Worker] = "exited", NEW x \in Item, fate[x] = "taken"
               PROVE  frees[x] = 1
    BY <1>2 DEF DrainRunsAll, XInv, Ends
  <2>1. ~Holds(x) /\ frees[x] \in Nat
    BY <1>2, Typed DEF Holds
  <2> QED
    BY <1>2, <2>1, SMT DEF XInv, Owned
<1>3. ASSUME XInv PROVE RunInOrder
  BY <1>3 DEF XInv, Order
<1> QED
  BY <1>1, <1>2, <1>3, ExecutorInvariant, PTL DEF TasksReleased

\* At both joins of taskExecutor "we can now safely delete the queue and the mutex": nobody
\* else is about to join the worker or to delete the executor (SafeToDelete), unless one
\* client destroys an executor that another one drains.
THEOREM ExecutorSafeToDelete == ASSUME ~Mixes PROVE XSpec => []SafeToDelete
<1>1. XInit => OneEnder
  BY Threads DEF XInit, OneEnder, Ender
<1>2. XInv => XTypeOK
  BY DEF XInv
<1>3. OneEnder => SafeToDelete
  BY DEF OneEnder, Ender, SafeToDelete
<1> QED
  BY <1>1, <1>2, <1>3, EnderStep, ExecutorInvariant, PTL DEF XSpec

-----------------------------------------------------------------------------
\* An executor that is destroyed has disabled its queue.
Disabled == state = "CANCEL" => ~enabled

\* What a step may do when the executor has been told to end: it is not restarted, nothing is
\* appended, and if it is destroyed the worker gets no further task.
Closed ==
    state # "RUN" => /\ state' # "RUN"
                     /\ accepted' = accepted
                     /\ state = "CANCEL" =>
                          \A x \in Item : fate'[x] = "taken" => fate[x] = "taken"

\* The state only moves forward, and the queue is disabled with it.
LEMMA StateMoves ==
    ASSUME [XNext]_vars
    PROVE  \/ state' = state
           \/ state = "RUN" /\ state' = "FINISH"
           \/ state' = "CANCEL" /\ ~enabled'
<1>1. ASSUME NEW t \in Pusher, Destroy(t) \/ DrainCancel(t)
      PROVE  state' = state \/ (state' = "CANCEL" /\ ~enabled')
  BY <1>1 DEF Destroy, DrainCancel, Cancel, CancelNow, AlreadyCancelled, Disable
<1>2. ASSUME NEW t \in Pusher, Drain(t)
      PROVE  state = "RUN" /\ state' = "FINISH"
  BY <1>2 DEF Drain
<1>3. ASSUME NEW t \in Pusher, NEW x \in Item, AppendStart(t, x) \/ AppendRefused(t, x)
      PROVE  state' = state
  BY <1>3 DEF AppendStart, AppendFor, AppendRefused
<1>4. ASSUME NEW t \in Pusher, AppendEnd(t) \/ ClearTasks(t) \/ Join(t) \/ InternalDestroy(t)
      PROVE  state' = state
  BY <1>4 DEF AppendEnd, AppendEndWith, ClearTasks, Join, InternalDestroy
<1>5. CASE WorkerLoop \/ WorkerPopped \/ WorkerDone
  BY <1>5 DEF WorkerLoop, WorkerLoopUnless, WorkerPopped, WorkerDone
<1>6. ASSUME NEW t \in Thread,
             QueueRun(t) \/ QueueDeadline(t) \/ QueueExpire(t) \/ QueueSpurious(t)
      PROVE  state' = state
  BY <1>6 DEF QueueRun, QueueDeadline, QueueExpire, QueueSpurious, xvars
<1>7. CASE UNCHANGED vars
  BY <1>7 DEF vars, xvars
<1> QED
  BY <1>1, <1>2, <1>3, <1>4, <1>5, <1>6, <1>7 DEF XNext

\* Only a push of appendTaskToExecutor that is under way adds a task.
LEMMA AcceptedOnlyWhenRunning ==
    ASSUME IInv, XInv, [XNext]_vars, state # "RUN"
    PROVE  accepted' = accepted
<1>1. ASSUME NEW t \in Pusher, NEW x \in Item, AppendStart(t, x) \/ AppendRefused(t, x)
      PROVE  accepted' = accepted
  BY <1>1 DEF AppendStart, AppendFor, AppendRefused, PushCall, Enter, qvars
<1>2. ASSUME NEW t \in Pusher, AppendEnd(t) \/ ClearTasks(t) \/ Drain(t)
      PROVE  accepted' = accepted
  BY <1>2 DEF AppendEnd, AppendEndWith, ClearTasks, Clear, Drain, qvars
<1>3. ASSUME NEW t \in Pusher, Destroy(t) \/ DrainCancel(t)
      PROVE  accepted' = accepted
  BY <1>3 DEF Destroy, DrainCancel, Cancel, CancelNow, AlreadyCancelled, Disable, qvars
<1>4. ASSUME NEW t \in Pusher, Join(t) \/ InternalDestroy(t)
      PROVE  accepted' = accepted
  BY <1>4 DEF Join, InternalDestroy, DestroyBegin, DestroyFinish
<1>5. CASE WorkerLoop \/ WorkerPopped \/ WorkerDone
  BY <1>5 DEF WorkerLoop, WorkerLoopUnless, WorkerPopped, WorkerDone, PopCall, Enter, qvars
<1>6. ASSUME NEW t \in Thread, PushRun(t)
      PROVE  accepted' = accepted
  <2>1. op[t] # "push"
    BY PusherInside
  <2> QED
    BY <1>6, <2>1 DEF PushRun
<1>7. ASSUME NEW t \in Thread, PopRun(t)
      PROVE  accepted' = accepted
  BY <1>7 DEF PopRun, PopRefuse, PopAccept, PopAcceptWith, Block
<1>8. ASSUME NEW t \in Thread, QueueDeadline(t) \/ QueueExpire(t) \/ QueueSpurious(t)
      PROVE  accepted' = accepted
  BY <1>8 DEF QueueDeadline, QueueExpire, QueueSpurious, Deadline, Expire, SpuriousWakeup
<1>9. CASE UNCHANGED vars
  BY <1>9 DEF vars, qvars
<1> QED
  BY <1>1, <1>2, <1>3, <1>4, <1>5, <1>6, <1>7, <1>8, <1>9 DEF XNext, QueueRun

\* destroyTaskExecutor and drainAndDestroyTaskExecutor are final: once either has changed the
\* state under execMutex the executor accepts no task, and once it is destroyed the worker
\* takes none of the tasks that are still queued.
THEOREM EndingIsFinal == XSpec => [][Closed]_vars
<1>1. XInit => Disabled
  BY DEF XInit, Disabled
<1>2. ASSUME IInv, Disabled, [XNext]_vars PROVE Disabled'
  <2>1. ~enabled => ~enabled'
    BY <1>2, StepOfQueue, StepIsInert DEF Inert
  <2> QED
    BY <1>2, <2>1, StateMoves DEF Disabled
<1>3. ASSUME IInv, XInv, Disabled, [XNext]_vars PROVE Closed
  <2>1. CASE state = "CANCEL"
    <3>1. \A x \in Item : fate'[x] = "taken" => fate[x] = "taken"
      BY <1>3, <2>1, StepOfQueue, StepIsInert DEF Inert, Disabled
    <3>2. state' # "RUN"
      BY <1>3, <2>1, StateMoves
    <3> QED
      BY <1>3, <3>1, <3>2, <2>1, AcceptedOnlyWhenRunning DEF Closed
  <2>2. CASE state # "CANCEL"
    BY <1>3, <2>2, StateMoves, AcceptedOnlyWhenRunning DEF Closed
  <2> QED
    BY <2>1, <2>2
<1>4. ASSUME IInv, XInv, Disabled, [XNext]_vars PROVE [Closed]_vars
  BY <1>3, <1>4
<1> QED
  BY <1>1, <1>2, <1>4, ExecutorInvariant, PTL DEF XSpec

=============================================================================
