--------------------------- MODULE TaskExecutor ---------------------------
(***************************************************************************)
(* taskExecutor (libs/concurrent): one worker thread runs the tasks that   *)
(* clients append, in order.  The tasks wait in a blocking queue, so this  *)
(* module is composed with BlockingQueue: clients are its pushers and the  *)
(* worker is its only popper.  execMutex guards the state, and a client    *)
(* keeps it while its push waits for room.                                 *)
(***************************************************************************)
EXTENDS BlockingQueue

CONSTANTS Worker,       \* execThread
          Destroyer,    \* the clients that may call destroyTaskExecutor
          Drainer,      \* the clients that may call drainAndDestroyTaskExecutor
          Mixes,        \* may a client destroy an executor that another one drains?
          NullRun,      \* the tasks appended without a run function
          NoThread      \* nobody holds execMutex

ASSUME WorkerAssumption == Popper = {Worker} /\ Worker \notin Pusher
ASSUME ClientAssumption == Destroyer \cup Drainer \subseteq Pusher /\ NullRun \subseteq Item
ASSUME MixesAssumption == Mixes \in BOOLEAN
ASSUME NoThreadAssumption == NoThread \notin Thread

VARIABLES state,        \* executor->state
          lock,         \* holder of execMutex across steps, or NoThread
          pc,           \* pc[t]: what thread t is doing
          ran,          \* the tasks whose run function was called, in order
          frees,        \* frees[x]: how often task x was released
          gone          \* how often internalDestroy completed

xvars == <<state, lock, pc, ran, frees, gone>>
vars == <<qvars, xvars>>

ClientPC == {"idle", "pushing", "cancel", "joining", "destroying"}
WorkerPC == {"loop", "popping", "running", "exited"}

XInit ==
    /\ Init
    /\ state = "RUN"
    /\ lock = NoThread
    /\ pc = [t \in Thread |-> IF t = Worker THEN "loop" ELSE "idle"]
    /\ ran = <<>>
    /\ frees = [x \in Item |-> 0]
    /\ gone = 0

\* A client that may call into the executor: it is in no other call, the executor has not
\* been released and execMutex is free.
MayLock(t) == t \in Pusher /\ pc[t] = "idle" /\ lock = NoThread /\ gone = 0

Free(x) == frees' = [frees EXCEPT ![x] = @ + 1]

\* freeQueueItemsFunc on everything that is queued.
FreeQueued == frees' = [x \in Item |-> IF fate[x] = "queued" THEN frees[x] + 1 ELSE frees[x]]

-----------------------------------------------------------------------------
\* appendTaskToExecutor: in RUN state the container is pushed, with execMutex held.
AppendFor(t, x, to) ==
    /\ MayLock(t)
    /\ state = "RUN"
    /\ frees[x] = 0
    /\ PushCall(t, x, to)
    /\ lock' = t
    /\ pc' = [pc EXCEPT ![t] = "pushing"]
    /\ UNCHANGED <<state, ran, frees, gone>>

AppendForever(t, x) == AppendFor(t, x, "infinite")
AppendStart(t, x) == AppendFor(t, x, "finite")

\* appendTaskToExecutor in another state: the task is released at once.
AppendRefused(t, x) ==
    /\ MayLock(t)
    /\ state # "RUN"
    /\ fate[x] = "client"
    /\ frees[x] = 0
    /\ Free(x)
    /\ UNCHANGED <<qvars, state, lock, pc, ran, gone>>

\* The push has returned.  If it failed the task is released n times.
AppendEndWith(t, n) ==
    /\ pc[t] = "pushing"
    /\ op[t] = "none"
    /\ lock' = NoThread
    /\ pc' = [pc EXCEPT ![t] = "idle"]
    /\ frees' = IF ret[t] = "ok" THEN frees ELSE [frees EXCEPT ![slot[t]] = @ + n]
    /\ UNCHANGED <<qvars, state, ran, gone>>

AppendEndFreesTwice(t) == AppendEndWith(t, 2)
AppendEnd(t) == AppendEndWith(t, 1)

\* clearTaskExecutor.
ClearTasks(t) ==
    /\ MayLock(t)
    /\ state = "RUN"
    /\ Clear
    /\ FreeQueued
    /\ UNCHANGED <<state, lock, pc, ran, gone>>

-----------------------------------------------------------------------------
\* The body of destroyTaskExecutor up to its pthread_join, if nobody is destroying already.
CancelNow(t) ==
    /\ lock = NoThread
    /\ state # "CANCEL"
    /\ state' = "CANCEL"
    /\ Disable
    /\ pc' = [pc EXCEPT ![t] = "joining"]
    /\ UNCHANGED <<lock, ran, frees, gone>>

AlreadyCancelled(t, next) ==
    /\ lock = NoThread
    /\ state = "CANCEL"
    /\ pc' = [pc EXCEPT ![t] = next]
    /\ UNCHANGED <<qvars, state, lock, ran, frees, gone>>

CancelUnchecked(t) == CancelNow(t) \/ AlreadyCancelled(t, "joining")
Cancel(t) == CancelNow(t) \/ AlreadyCancelled(t, "idle")

Destroy(t) ==
    /\ t \in Destroyer
    /\ Mixes \/ state # "FINISH"
    /\ MayLock(t)
    /\ Cancel(t)

\* drainAndDestroyTaskExecutor up to its pthread_join, or up to its call of
\* destroyTaskExecutor when nothing is queued.
Drain(t) ==
    /\ t \in Drainer
    /\ MayLock(t)
    /\ state = "RUN"
    /\ state' = "FINISH"
    /\ pc' = [pc EXCEPT ![t] = IF items = <<>> THEN "cancel" ELSE "joining"]
    /\ UNCHANGED <<qvars, lock, ran, frees, gone>>

DrainCancel(t) ==
    /\ pc[t] = "cancel"
    /\ Cancel(t)

\* pthread_join of the worker, and internalDestroy up to the yield of
\* blockingQueueDestroy, with execMutex held.
Join(t) ==
    /\ pc[t] = "joining"
    /\ pc[Worker] = "exited"
    /\ lock = NoThread
    /\ DestroyBegin(t)
    /\ lock' = t
    /\ pc' = [pc EXCEPT ![t] = "destroying"]
    /\ UNCHANGED <<state, ran, frees, gone>>

\* Frees the queue but not what is in it.
InternalDestroyLeak(t) ==
    /\ pc[t] = "destroying"
    /\ DestroyFinish(t)
    /\ lock' = NoThread
    /\ pc' = [pc EXCEPT ![t] = "idle"]
    /\ gone' = gone + 1
    /\ UNCHANGED <<state, ran, frees>>

\* The rest of internalDestroy: the queue, with what is left in it, and the executor.
InternalDestroy(t) ==
    /\ pc[t] = "destroying"
    /\ DestroyFinish(t)
    /\ FreeQueued
    /\ lock' = NoThread
    /\ pc' = [pc EXCEPT ![t] = "idle"]
    /\ gone' = gone + 1
    /\ UNCHANGED <<state, ran>>

-----------------------------------------------------------------------------
\* execWorkerThread looks at the state with execMutex held, and leaves or starts its pop.
WorkerLoopUnless(leave) ==
    /\ pc[Worker] = "loop"
    /\ lock = NoThread
    /\ \/ /\ leave
          /\ pc' = [pc EXCEPT ![Worker] = "exited"]
          /\ UNCHANGED qvars
       \/ /\ ~leave
          /\ PopCall(Worker, "finite")
          /\ pc' = [pc EXCEPT ![Worker] = "popping"]
    /\ UNCHANGED <<state, lock, ran, frees, gone>>

WorkerLoopNoCount == WorkerLoopUnless(state # "RUN")
WorkerLoop == WorkerLoopUnless(state = "CANCEL" \/ (state = "FINISH" /\ items = <<>>))

\* The pop has returned: nothing, a task to run, or a task without a run function.
WorkerPopped ==
    /\ pc[Worker] = "popping"
    /\ op[Worker] = "none"
    /\ \/ /\ slot[Worker] = NoItem
          /\ pc' = [pc EXCEPT ![Worker] = "loop"]
          /\ UNCHANGED <<ran, frees>>
       \/ /\ slot[Worker] \in Item \ NullRun
          /\ pc' = [pc EXCEPT ![Worker] = "running"]
          /\ ran' = Append(ran, slot[Worker])
          /\ UNCHANGED frees
       \/ /\ slot[Worker] \in NullRun
          /\ pc' = [pc EXCEPT ![Worker] = "loop"]
          /\ Free(slot[Worker])
          /\ UNCHANGED ran
    /\ UNCHANGED <<qvars, state, lock, gone>>

\* The run function returns, and the task is released.
WorkerDone ==
    /\ pc[Worker] = "running"
    /\ Free(slot[Worker])
    /\ pc' = [pc EXCEPT ![Worker] = "loop"]
    /\ UNCHANGED <<qvars, state, lock, ran, gone>>

\* The steps inside the blocking queue.
QueueRun(t) == (PushRun(t) \/ PopRun(t)) /\ UNCHANGED xvars
QueueDeadline(t) == Deadline(t) /\ UNCHANGED xvars
QueueExpire(t) == Expire(t) /\ UNCHANGED xvars
QueueSpurious(t) == SpuriousWakeup(t) /\ UNCHANGED xvars

XNext ==
    \/ \E t \in Pusher :
          \/ \E x \in Item : AppendStart(t, x) \/ AppendRefused(t, x)
          \/ AppendEnd(t)
          \/ ClearTasks(t)
          \/ Destroy(t)
          \/ Drain(t)
          \/ DrainCancel(t)
          \/ Join(t)
          \/ InternalDestroy(t)
    \/ WorkerLoop
    \/ WorkerPopped
    \/ WorkerDone
    \/ \E t \in Thread : QueueRun(t) \/ QueueDeadline(t) \/ QueueExpire(t) \/ QueueSpurious(t)

\* Threads keep running and a run function returns; clients need not call anything.
XFairness ==
    /\ WF_vars(WorkerLoop) /\ WF_vars(WorkerPopped) /\ WF_vars(WorkerDone)
    /\ \A t \in Thread :
          WF_vars(QueueRun(t)) /\ WF_vars(QueueDeadline(t)) /\ WF_vars(QueueExpire(t))
    /\ \A t \in Pusher : /\ WF_vars(AppendEnd(t)) /\ WF_vars(DrainCancel(t))
                         /\ WF_vars(Join(t)) /\ WF_vars(InternalDestroy(t))

XSpec == XInit /\ [][XNext]_vars

XFairSpec == XSpec /\ XFairness

-----------------------------------------------------------------------------
\* The type of the executor's state; execMutex is only held by a client that is inside
\* appendTaskToExecutor or internalDestroy.
XTypeOK ==
    /\ state \in {"RUN", "FINISH", "CANCEL"}
    /\ lock \in Pusher \cup {NoThread}
    /\ pc \in [Thread -> ClientPC \cup WorkerPC]
    /\ ran \in Seq(Item)
    /\ frees \in [Item -> Nat]
    /\ gone \in Nat
    /\ \A t \in Pusher : pc[t] \in {"pushing", "destroying"} <=> lock = t

\* Every task is released at most once on all the paths that release it (after its run,
\* when its push fails or is refused, by clear, by destroy), and never before its run
\* function has returned.
ReleasedOnce ==
    /\ \A x \in Item : frees[x] \leq 1
    /\ pc[Worker] = "running" => frees[slot[Worker]] = 0
    /\ \A i \in 1..Len(items) : frees[items[i]] = 0

\* Tasks run one at a time, each at most once, in the order in which they were accepted.
RunInOrder ==
    \A i, j \in 1..Len(ran) : i < j => stamp[ran[i]] < stamp[ran[j]]

\* drainAndDestroyTaskExecutor "waits for all queued tasks to complete": while nobody has
\* cancelled, the worker only leaves when every accepted task that was not cleared has
\* been released by it.
DrainRunsAll ==
    (state = "FINISH" /\ pc[Worker] = "exited")
        => /\ items = <<>>
           /\ \A x \in Item : fate[x] = "taken" => frees[x] = 1

\* Every task is released once, after its run in the order of acceptance, and by the worker
\* when the executor is drained.
TasksReleased == ReleasedOnce /\ RunInOrder /\ DrainRunsAll

\* No call blocks for ever.  An append at the limit of the queue returns although it keeps
\* execMutex, which the worker needs before its next pop, while it waits for the worker to
\* make room; destroying and draining end, since the worker notices and is joined.
XCallsReturn == \A t \in Pusher : pc[t] # "idle" ~> pc[t] = "idle"

\* A task accepted by the executor is released in the end: after its run, by a clear or by
\* the destruction of the executor.
EveryTaskReleased == \A x \in Item : fate[x] = "queued" ~> frees[x] = 1

\* The comment at both joins: "we can now safely delete the queue and the mutex".  Safe
\* means that nobody else is about to join or to delete the same executor.
SafeToDelete == \A t \in Pusher : pc[t] = "destroying" =>
                    /\ gone = 0
                    /\ \A u \in Pusher \ {t} : pc[u] \notin {"cancel", "joining", "destroying"}

=============================================================================
