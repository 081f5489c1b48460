----------------------------- MODULE ThreadPool -----------------------------
(***************************************************************************)
(* threadPool (libs/concurrent): between minThreads and maxThreads workers *)
(* run the tasks that wait in a blocking queue, so this module is composed *)
(* with BlockingQueue: the workers are its poppers, and whoever adds tasks *)
(* (a client, or a task of the pool) is a pusher.  poolMutex guards the    *)
(* pool; threadPoolAddTask keeps it while its push waits for room.  A      *)
(* thread is added when a task is added, and a worker with nothing to do   *)
(* removes itself when it is the last one of the array.  A task may        *)
(* destroy the pool it runs in.                                            *)
(***************************************************************************)
EXTENDS BlockingQueue, FiniteSets

CONSTANTS MinThreads,   \* pool->minThreads
          MaxThreads,   \* pool->maxThreads
          Destroyer,    \* the clients and workers that may call threadPoolDestroy
          MaxDestroys,  \* bound: calls of threadPoolDestroy
          MaxClears,    \* bound: calls that clear the statistics
          NoThread      \* nobody holds poolMutex; an unused place of pool->threads

ASSUME ThreadsAssumption == MinThreads \in Nat /\ MaxThreads \in Nat /\ MinThreads \leq MaxThreads
ASSUME DestroyerAssumption == Destroyer \subseteq Thread
ASSUME NobodyAssumption == NoThread \notin Thread
ASSUME BoundAssumption == MaxDestroys \in Nat /\ MaxClears \in Nat

VARIABLES running,      \* pool->running
          lock,         \* holder of poolMutex across steps, or NoThread
          threads,      \* pool->threads
          count,        \* pool->threadCount
          off,          \* off[w]: parm->offset of worker w, counted from 1
          task,         \* task[w]: the icTask worker w has popped
          active,       \* pool->active
          stats,        \* pool->stats, without its two maxima
          pc,           \* pc[t]: what thread t is doing
          snap,         \* the copy of threadCount that threadPoolDestroy joins
          self,         \* self[w]: selfDestructed of the task of w
          keys,         \* how often the thread local key was deleted
          frees,        \* frees[x]: how often the argument of task x was released
          begun,        \* the tasks whose run function was called
          destroys,     \* calls of threadPoolDestroy so far
          clears        \* calls that cleared the statistics so far

pvars == <<running, lock, threads, count, off, task, active, stats, pc, snap, self, keys,
           frees, begun, destroys, clears>>
vars == <<qvars, pvars>>

NoStats == [queued |-> 0, ran |-> 0]

CallerPC == {"idle", "adding", "pushing", "joining", "freeing"}
WorkerPC == {"none", "loop", "popping", "nothing", "got", "running", "finishing", "exited"}

\* threadPoolCreate: addWorkerThreads starts the first MinThreads workers.
TPInit ==
    /\ Init
    /\ running = TRUE
    /\ lock = NoThread
    /\ count = MinThreads
    /\ threads \in {f \in [1..MaxThreads -> Popper \cup {NoThread}] :
                       /\ \A i \in 1..MaxThreads : (f[i] \in Popper) = (i \leq MinThreads)
                       /\ \A i, j \in 1..MinThreads : f[i] = f[j] => i = j}
    /\ off = [w \in Popper |-> IF \E i \in 1..MinThreads : threads[i] = w
                               THEN CHOOSE i \in 1..MinThreads : threads[i] = w ELSE 0]
    /\ task = [w \in Popper |-> NoItem]
    /\ active = 0
    /\ stats = NoStats
    /\ pc = [t \in Thread |-> IF t \notin Popper THEN "idle"
                              ELSE IF off[t] = 0 THEN "none" ELSE "loop"]
    /\ snap = 0
    /\ self = [w \in Popper |-> FALSE]
    /\ keys = 0
    /\ frees = [x \in Item |-> 0]
    /\ begun = {}
    /\ destroys = 0
    /\ clears = 0

\* Where a thread is when it is in none of the pool's functions but may call one: a
\* client anywhere, a worker inside the run function of its task.
Home(t) == IF t \in Popper THEN "running" ELSE "idle"

MayCall(t) == pc[t] = Home(t) /\ (t \in Popper => ~self[t])

\* The thread can take poolMutex.
Locks == alive /\ lock = NoThread

Goes(t, where) == pc' = [pc EXCEPT ![t] = where]

\* taskFreeFunc on the argument of x.
Free(x) == frees' = [frees EXCEPT ![x] = @ + 1]

\* taskFreeFunc on everything that is queued.
FreeQueued == frees' = [x \in Item |-> IF fate[x] = "queued" THEN frees[x] + 1 ELSE frees[x]]

-----------------------------------------------------------------------------
\* threadPoolAddTask up to poolMutex: pool->running is read without it.
AddTask(t, x) ==
    /\ t \in Pusher
    /\ MayCall(t)
    /\ alive
    /\ fate[x] = "client"
    /\ frees[x] = 0
    /\ \A u \in Thread : pc[u] = "adding" => slot[u] # x
    /\ \/ /\ ~running
          /\ Free(x)
          /\ UNCHANGED <<qvars, pc>>
       \/ /\ running
          /\ Goes(t, "adding")
          /\ slot' = [slot EXCEPT ![t] = x]
          /\ UNCHANGED <<items, enabled, alive, op, tmo, due, wait, ret, fate, stamp, accepted, frees>>
    /\ UNCHANGED <<running, lock, threads, count, off, task, active, stats, snap, self, keys,
                   begun, destroys, clears>>

\* poolMutex is taken, and kept by the push.
AddTaskPushFor(t, to) ==
    /\ pc[t] = "adding"
    /\ Locks
    /\ PushCall(t, slot[t], to)
    /\ lock' = t
    /\ Goes(t, "pushing")
    /\ UNCHANGED <<running, threads, count, off, task, active, stats, snap, self, keys, frees,
                   begun, destroys, clears>>

\* The push waits at most ADD_TASK_TIMEOUT_MS.
AddTaskPushForever(t) == AddTaskPushFor(t, "infinite")
AddTaskPush(t) == AddTaskPushFor(t, "finite")

\* addWorkerThreads for one worker: it goes to the end of the array.
AddWorker(t, w) ==
    /\ pc[w] = "none"
    /\ threads' = [threads EXCEPT ![count + 1] = w]
    /\ count' = count + 1
    /\ off' = [off EXCEPT ![w] = count + 1]
    /\ pc' = [pc EXCEPT ![t] = Home(t), ![w] = "loop"]

AddNobody(t) == Goes(t, Home(t)) /\ UNCHANGED <<threads, count, off>>

\* The push has returned; a worker is added while threadCount and active allow it.
AddTaskEnd(t) ==
    /\ pc[t] = "pushing"
    /\ op[t] = "none"
    /\ lock' = NoThread
    /\ \/ /\ ret[t] = "ok"
          /\ IF count < MaxThreads /\ active < MaxThreads THEN \E w \in Popper : AddWorker(t, w) ELSE AddNobody(t)
          /\ stats' = [stats EXCEPT !.queued = @ + 1]
          /\ UNCHANGED frees
       \/ /\ ret[t] # "ok"
          /\ Free(slot[t])
          /\ AddNobody(t)
          /\ UNCHANGED stats
    /\ UNCHANGED <<qvars, running, task, active, snap, self, keys, begun, destroys, clears>>

\* threadPoolClearStatistics, and threadPoolGetStatistics with thenClear.
ClearStatistics ==
    /\ Locks
    /\ clears < MaxClears
    /\ clears' = clears + 1
    /\ stats' = NoStats
    /\ UNCHANGED <<qvars, running, lock, threads, count, off, task, active, pc, snap, self, keys,
                   frees, begun, destroys>>

-----------------------------------------------------------------------------
\* threadPoolDestroy up to its joins.  When somebody else has stopped the pool there are
\* none: the call goes on to free it.
Destroy(t) ==
    /\ t \in Destroyer
    /\ MayCall(t)
    /\ Locks
    /\ destroys < MaxDestroys
    /\ destroys' = destroys + 1
    /\ \/ /\ running
          /\ running' = FALSE
          /\ Disable
          /\ snap' = count
          /\ Goes(t, "joining")
       \/ /\ ~running
          /\ DestroyBegin(t)
          /\ Goes(t, "freeing")
          /\ UNCHANGED <<running, snap>>
    /\ UNCHANGED <<lock, threads, count, off, task, active, stats, self, keys, frees, begun, clears>>

\* The joins: every thread of the first n places of the array but the caller.  A caller
\* that is a worker marks its task.  blockingQueueDestroy begins.
JoinFirst(t, n) ==
    /\ pc[t] = "joining"
    /\ alive
    /\ \A i \in 1..n : threads[i] # t => pc[threads[i]] = "exited"
    /\ DestroyBegin(t)
    /\ pc' = [u \in Thread |->
                 IF u = t THEN "freeing"
                 ELSE IF \E i \in 1..n : threads[i] = u THEN "none" ELSE pc[u]]
    /\ self' = [w \in Popper |-> self[w] \/ (w = t /\ \E i \in 1..n : threads[i] = t)]
    /\ UNCHANGED <<running, lock, threads, count, off, task, active, stats, snap, keys, frees,
                   begun, destroys, clears>>

JoinAllButLast(t) == JoinFirst(t, IF snap > 0 THEN snap - 1 ELSE 0)
Join(t) == JoinFirst(t, snap)

\* The rest of threadPoolDestroy: the queue with its tasks, the key unless the calling
\* task has to delete it (k says so), and the pool.
FreePoolWith(t, k) ==
    /\ pc[t] = "freeing"
    /\ DestroyFinish(t)
    /\ FreeQueued
    /\ keys' = IF k THEN keys + 1 ELSE keys
    /\ Goes(t, Home(t))
    /\ UNCHANGED <<running, lock, threads, count, off, task, active, stats, snap, self, begun,
                   destroys, clears>>

FreePoolAndKey(t) == FreePoolWith(t, TRUE)
FreePool(t) == FreePoolWith(t, \A w \in Popper : ~self[w])

-----------------------------------------------------------------------------
\* runWorker at the head of its loop: it pops for at most ten seconds, or leaves.
WorkerLoop(w) ==
    /\ pc[w] = "loop"
    /\ Locks
    /\ \/ /\ running
          /\ PopCall(w, "finite")
          /\ Goes(w, "popping")
       \/ /\ ~running
          /\ Goes(w, "exited")
          /\ UNCHANGED qvars
    /\ UNCHANGED <<running, lock, threads, count, off, task, active, stats, snap, self, keys,
                   frees, begun, destroys, clears>>

\* The pop has returned.  In a pool that was stopped meanwhile a popped task is released
\* without being run (f says so), and the worker leaves.
WorkerPoppedWith(w, f) ==
    /\ pc[w] = "popping"
    /\ op[w] = "none"
    /\ Locks
    /\ \/ /\ ~running
          /\ Goes(w, "exited")
          /\ frees' = IF f /\ slot[w] # NoItem THEN [frees EXCEPT ![slot[w]] = @ + 1] ELSE frees
          /\ UNCHANGED task
       \/ /\ running
          /\ Goes(w, IF slot[w] = NoItem THEN "nothing" ELSE "got")
          /\ task' = [task EXCEPT ![w] = slot[w]]
          /\ UNCHANGED frees
    /\ UNCHANGED <<qvars, running, lock, threads, count, off, active, stats, snap, self, keys,
                   begun, destroys, clears>>

WorkerPoppedLeak(w) == WorkerPoppedWith(w, FALSE)
WorkerPopped(w) == WorkerPoppedWith(w, TRUE)

\* Nothing to do: a worker that may leave does.  It is detached unless the pool is being
\* destroyed.
WorkerNothingIf(w, may) ==
    /\ pc[w] = "nothing"
    /\ Locks
    /\ \/ /\ may
          /\ count' = count - 1
          /\ Goes(w, IF running THEN "none" ELSE "exited")
       \/ /\ ~may
          /\ Goes(w, "loop")
          /\ UNCHANGED count
    /\ UNCHANGED <<qvars, running, lock, threads, off, task, active, stats, snap, self, keys,
                   frees, begun, destroys, clears>>

WorkerNothingAny(w) == WorkerNothingIf(w, off[w] \geq MinThreads)
WorkerNothingNoMinimum(w) == WorkerNothingIf(w, off[w] = count)

\* It is the last of the array, beyond the minimum.
WorkerNothing(w) == WorkerNothingIf(w, off[w] > MinThreads /\ off[w] = count)

\* The worker counts itself as active and calls the run function.
WorkerRun(w) ==
    /\ pc[w] = "got"
    /\ Locks
    /\ active' = active + 1
    /\ stats' = [stats EXCEPT !.ran = @ + 1]
    /\ begun' = begun \cup {task[w]}
    /\ Goes(w, "running")
    /\ UNCHANGED <<qvars, running, lock, threads, count, off, task, snap, self, keys, frees,
                   destroys, clears>>

\* The run function returns.  A task that destroyed the pool deletes the key, and its
\* worker, detached by threadPoolDestroy, touches the pool no more.
WorkerRan(w) ==
    /\ pc[w] = "running"
    /\ Free(task[w])
    /\ keys' = IF self[w] THEN keys + 1 ELSE keys
    /\ Goes(w, IF self[w] THEN "none" ELSE "finishing")
    /\ task' = [task EXCEPT ![w] = NoItem]
    /\ UNCHANGED <<qvars, running, lock, threads, count, off, active, stats, snap, self, begun,
                   destroys, clears>>

WorkerFinishWith(w, a) ==
    /\ pc[w] = "finishing"
    /\ Locks
    /\ active' = a
    /\ Goes(w, "loop")
    /\ UNCHANGED <<qvars, running, lock, threads, count, off, task, stats, snap, self, keys,
                   frees, begun, destroys, clears>>

WorkerFinishStillActive(w) == WorkerFinishWith(w, active)
WorkerFinish(w) == WorkerFinishWith(w, IF active > 0 THEN active - 1 ELSE active)

\* The steps inside the blocking queue.
QueueRun(t) == (PushRun(t) \/ PopRun(t)) /\ UNCHANGED pvars
QueueDeadline(t) == Deadline(t) /\ UNCHANGED pvars
QueueExpire(t) == Expire(t) /\ UNCHANGED pvars
QueueSpurious(t) == SpuriousWakeup(t) /\ UNCHANGED pvars

TPNext ==
    \/ \E t \in Thread :
          \/ \E x \in Item : AddTask(t, x)
          \/ AddTaskPush(t)
          \/ AddTaskEnd(t)
          \/ Destroy(t)
          \/ Join(t)
          \/ FreePool(t)
          \/ QueueRun(t)
          \/ QueueDeadline(t)
          \/ QueueExpire(t)
          \/ QueueSpurious(t)
    \/ ClearStatistics
    \/ \E w \in Popper :
          \/ WorkerLoop(w)
          \/ WorkerPopped(w)
          \/ WorkerNothing(w)
          \/ WorkerRun(w)
          \/ WorkerRan(w)
          \/ WorkerFinish(w)

\* What a thread does next once it is in a function of the pool or of its queue: a caller,
\* and a worker.  SpuriousWakeup is nobody's step.
ThreadStep(t) ==
    \/ AddTaskPush(t) \/ AddTaskEnd(t) \/ Join(t) \/ FreePool(t)
    \/ QueueRun(t) \/ QueueExpire(t)
    \/ t \in Popper /\ (\/ WorkerLoop(t) \/ WorkerPopped(t) \/ WorkerNothing(t)
                        \/ WorkerRun(t) \/ WorkerRan(t) \/ WorkerFinish(t))

\* Threads keep running, poolMutex is handed to everyone who keeps asking for it, the clock
\* passes every deadline and a run function returns.  Nobody has to call anything.
TPFairness == \A t \in Thread : SF_vars(ThreadStep(t)) /\ WF_vars(QueueDeadline(t))

TPSpec == TPInit /\ [][TPNext]_vars

TPFairSpec == TPSpec /\ TPFairness

-----------------------------------------------------------------------------
\* The type of the pool's state; poolMutex is only kept by a thread that is in
\* threadPoolAddTask.
TPTypeOK ==
    /\ running \in BOOLEAN
    /\ lock \in Pusher \cup {NoThread}
    /\ threads \in [1..MaxThreads -> Popper \cup {NoThread}]
    /\ count \in 0..MaxThreads
    /\ off \in [Popper -> 0..MaxThreads]
    /\ task \in [Popper -> Item \cup {NoItem}]
    /\ active \in 0..MaxThreads
    /\ stats \in [DOMAIN NoStats -> Nat]
    /\ pc \in [Thread -> CallerPC \cup WorkerPC]
    /\ snap \in 0..MaxThreads
    /\ self \in [Popper -> BOOLEAN]
    /\ keys \in Nat
    /\ frees \in [Item -> Nat]
    /\ begun \subseteq Item
    /\ \A t \in Thread : pc[t] = "pushing" <=> lock = t

\* The workers that have not left the pool.
Working == {w \in Popper : pc[w] \notin {"none", "exited"}}

\* "we always append using the pool->threadCount as the indicator as to how many exist": in
\* a running pool the first threadCount places of the array hold exactly the workers that
\* exist, each at its own offset, however tasks are added while idle workers leave.  Once it
\* is stopped, the places threadPoolDestroy counted still hold all that are left.
ArrayHoldsWorkers ==
    /\ running => Working = {threads[i] : i \in 1..count}
    /\ \A i \in 1..(IF running THEN count ELSE snap) :
          threads[i] \in Popper /\ off[threads[i]] = i
    /\ (~running /\ alive) => Working \subseteq {threads[i] : i \in 1..snap}

\* threadPoolDestroy "will wait for all threads to complete": once it frees the pool, the
\* only worker that still exists is the one whose task called it.
DestroyWaits ==
    \A t \in Thread : pc[t] = "freeing" => Working \subseteq {t}

\* The argument of a task is released at most once on all the paths that do it (after the
\* run, when the push fails or is refused, by a worker that finds the pool stopped, by
\* threadPoolDestroy), and never while the task waits or runs; and when the pool and its
\* workers are gone no accepted task is left with its argument.
ReleasedOnce ==
    /\ \A x \in Item : frees[x] \leq 1
    /\ \A w \in Popper : task[w] # NoItem => frees[task[w]] = 0
    /\ \A i \in 1..Len(items) : frees[items[i]] = 0
    /\ (~alive /\ Working = {}) => \A x \in Item : fate[x] \in {"taken", "freed"} => frees[x] = 1

\* The thread local key of the pool is deleted once, by threadPoolDestroy or, when a task
\* destroyed its own pool, by the worker of that task, and nobody is about to use it then.
KeyDeletedOnce ==
    /\ keys \leq 1
    /\ keys = 1 => ~alive /\ Working = {}
    /\ (~alive /\ Working = {}) => keys = 1

\* The counters agree with the workers and the queue.  In a running pool active, by which
\* threadPoolAddTask decides whether to add a worker, is the number of workers between their
\* two updates of it; and unless the statistics were cleared, every task counted as queued is
\* in the queue, or held by a worker that did not start it yet, or counted as ran.
CountersAgree ==
    /\ running => active = Cardinality({w \in Popper : pc[w] \in {"adding", "pushing", "running", "finishing"}})
    /\ (running /\ lock = NoThread /\ clears = 0) =>
        stats.queued = stats.ran + Len(items)
            + Cardinality({w \in Popper : \/ pc[w] = "got"
                                          \/ pc[w] = "popping" /\ slot[w] # NoItem})

\* The array of threads and the counters by which threadPoolAddTask and the idle workers
\* decide whether the pool grows or shrinks both tell the truth about the workers.
WorkersTracked == ArrayHoldsWorkers /\ CountersAgree

\* What the pool owns, the arguments of its tasks and its thread local key, is released
\* once, whoever of threadPoolAddTask, the workers and threadPoolDestroy comes to do it.
PoolReleases == ReleasedOnce /\ KeyDeletedOnce

\* "once resources are available, it will execute 'task'": an accepted task is run, or
\* released because the pool is destroyed.
EveryTaskRuns == \A x \in Item : fate[x] = "queued" ~> x \in begun \/ frees[x] = 1

\* No call blocks for ever.  threadPoolDestroy returns since the workers notice that the
\* pool was stopped, wherever they are, even when a task of the pool calls it;
\* threadPoolAddTask returns although it keeps poolMutex, which a worker needs before and
\* after its pop, while it waits for a worker to make room (if the pool is not freed under
\* it, see NoNewActivity).
TPCallsReturn ==
    /\ \A t \in Destroyer : pc[t] \in {"joining", "freeing"} ~> pc[t] \in {"idle", "running"}
    /\ \A t \in Pusher : pc[t] = "pushing" ~> (pc[t] # "pushing" \/ ~alive)

\* The comment in threadPoolDestroy: clearing the running flag is "preventing new activity".
\* New activity would be a threadPoolAddTask that is still at work once the pool was freed.
NoNewActivity == ~alive => \A t \in Thread : pc[t] \notin {"adding", "pushing"}

\* The comment in runWorker: the worker releases "the task object (not the contents)", since
\* "this task is responsible for releasing the optional 'arg'".
ContentsLeftToTask == \A x \in begun : frees[x] = 0

=============================================================================
