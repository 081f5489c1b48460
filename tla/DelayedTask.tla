---------------------------- MODULE DelayedTask ----------------------------
(***************************************************************************)
(* delayedTask (libs/concurrent): one-shot timers.  A client schedules a   *)
(* callback and gets a handle; a thread per task waits for the delay and   *)
(* runs the callback, unless a client cancels first.  All other calls look *)
(* the handle up in the list of tasks (with TASK_MTX held), release that   *)
(* mutex, and then take the mutex of the object they found.                *)
(*                                                                         *)
(* The argument of a task is the point of the interface: it must reach     *)
(* exactly one party, the callback or the caller of cancelDelayTask.       *)
(***************************************************************************)
EXTENDS Naturals, Sequences, Lists

CONSTANTS Client,       \* threads that call the interface
          Task,         \* task objects, one per call of scheduleDelayTask
          NoTask,       \* the NULL pointer
          MaxReschedule \* bound on the calls of rescheduleDelayTask

ASSUME TaskAssumption == NoTask \notin Task /\ MaxReschedule \in Nat

VARIABLES tasks,        \* the list of task objects
          handle,       \* handle[o]: the handle given out for o, 0 before
          st,           \* st[o]: obj->state
          th,           \* th[o]: where the thread of o is
          elapsed,      \* elapsed[o]: the delay of o, as last (re)scheduled, has elapsed while o waits
          given,        \* given[o]: how often the argument of o was handed to somebody
          forced,       \* forced[o]: exceuteDelayTask returned true for o
          canceled,     \* canceled[o]: cancelDelayTask returned the argument of o
          freed,        \* freed[o]: the memory of o was released
          call,         \* call[c]: the call c is in, after its lookup
          ptr,          \* ptr[c]: the object that the lookup of c found
          moved         \* number of calls of rescheduleDelayTask so far

dtvars == <<tasks, handle, st, th, elapsed, given, forced, canceled, freed, call, ptr, moved>>

DTState  == {"none", "IDLE", "WAITING", "RUNNING", "CANCELED"}
DTWhere  == {"none", "created", "waiting", "callback", "cleanup", "done"}
DTCall   == {"none", "cancel", "execute", "reschedule"}

DTInit ==
    /\ tasks = <<>>
    /\ handle = [o \in Task |-> 0]
    /\ st = [o \in Task |-> "none"]
    /\ th = [o \in Task |-> "none"]
    /\ elapsed = [o \in Task |-> FALSE]
    /\ given = [o \in Task |-> 0]
    /\ forced = [o \in Task |-> FALSE]
    /\ canceled = [o \in Task |-> FALSE]
    /\ freed = [o \in Task |-> FALSE]
    /\ call = [c \in Client |-> "none"]
    /\ ptr = [c \in Client |-> NoTask]
    /\ moved = 0

\* Forgets to add one.
LastHandle == IF tasks = <<>> THEN 1 ELSE handle[tasks[Len(tasks)]]

\* One more than the handle of the last task in the list.
assignHandle == IF tasks = <<>> THEN 1 ELSE handle[tasks[Len(tasks)]] + 1

\* The positions in the list of the tasks with handle h; linkedListFind and
\* linkedListDelete use the first.
Found(h) == {k \in 1..Len(tasks) : handle[tasks[k]] = h}
First(K) == CHOOSE k \in K : \A j \in K : k \leq j

-----------------------------------------------------------------------------
\* The object that malloc returns; which one it is makes no difference.
Fresh == CHOOSE o \in Task : st[o] = "none"

Schedule(c, o) ==
    /\ call[c] = "none"
    /\ st[o] = "none"
    /\ o = Fresh
    /\ handle' = [handle EXCEPT ![o] = assignHandle]
    /\ tasks' = Append(tasks, o)
    /\ st' = [st EXCEPT ![o] = "IDLE"]
    /\ th' = [th EXCEPT ![o] = "created"]
    /\ UNCHANGED <<elapsed, given, forced, canceled, freed, call, ptr, moved>>

\* getDelayedTask with the handle that was given out for o.
Lookup(c, kind, o) ==
    /\ call[c] = "none"
    /\ kind \in DTCall \ {"none"}
    /\ Found(handle[o]) # {}
    /\ handle[o] # 0
    /\ call' = [call EXCEPT ![c] = kind]
    /\ ptr' = [ptr EXCEPT ![c] = tasks[First(Found(handle[o]))]]
    /\ moved' = IF kind = "reschedule" THEN moved + 1 ELSE moved
    /\ moved' \leq MaxReschedule
    /\ UNCHANGED <<tasks, handle, st, th, elapsed, given, forced, canceled, freed>>

\* The call of c ends.
Done(c) ==
    /\ call' = [call EXCEPT ![c] = "none"]
    /\ ptr' = [ptr EXCEPT ![c] = NoTask]
    /\ UNCHANGED <<tasks, handle, th, freed>>

\* The object that c's pointer reaches: the one it looked up or, once that is freed, any
\* object that the allocator has put in its place since.
Reached(c) ==
    IF call[c] = "none" THEN {}
    ELSE IF freed[ptr[c]] THEN {o \in Task : st[o] # "none" /\ ~freed[o]}
    ELSE {ptr[c]}

Pending(o) == st[o] \in {"IDLE", "WAITING"}

\* Cancels whatever the state is.
CancelAnyState(c, o) ==
    /\ call[c] = "cancel"
    /\ st' = [st EXCEPT ![o] = "CANCELED"]
    /\ given' = [given EXCEPT ![o] = @ + 1]
    /\ canceled' = [canceled EXCEPT ![o] = TRUE]
    /\ Done(c)
    /\ UNCHANGED <<elapsed, forced, moved>>

\* cancelDelayTask with the object's mutex held; the thread is told by a broadcast.
Cancel(c, o) ==
    /\ call[c] = "cancel"
    /\ Pending(o)
    /\ st' = [st EXCEPT ![o] = "CANCELED"]
    /\ given' = [given EXCEPT ![o] = @ + 1]
    /\ canceled' = [canceled EXCEPT ![o] = TRUE]
    /\ Done(c)
    /\ UNCHANGED <<elapsed, forced, moved>>

\* exceuteDelayTask (finalizeTaskInternal).
Execute(c, o) ==
    /\ call[c] = "execute"
    /\ Pending(o)
    /\ st' = [st EXCEPT ![o] = "RUNNING"]
    /\ forced' = [forced EXCEPT ![o] = TRUE]
    /\ Done(c)
    /\ UNCHANGED <<elapsed, given, canceled, moved>>

\* rescheduleDelayTask: the delay starts anew.
Reschedule(c, o) ==
    /\ call[c] = "reschedule"
    /\ Pending(o)
    /\ elapsed' = [elapsed EXCEPT ![o] = FALSE]
    /\ Done(c)
    /\ UNCHANGED <<st, given, forced, canceled, moved>>

\* Any of the three when the object is past the states in which they take effect, or when
\* what the pointer reaches is no task any more.
NoEffect(c) ==
    /\ call[c] # "none"
    /\ freed[ptr[c]] \/ ~Pending(ptr[c])
    /\ Done(c)
    /\ UNCHANGED <<st, elapsed, given, forced, canceled, moved>>

-----------------------------------------------------------------------------
\* The delay elapses.
Elapse(o) ==
    /\ th[o] \in {"created", "waiting"}
    /\ ~elapsed[o]
    /\ elapsed' = [elapsed EXCEPT ![o] = TRUE]
    /\ UNCHANGED <<tasks, handle, st, th, given, forced, canceled, freed, call, ptr, moved>>

\* The callback is called, without the mutex.
Run(o) ==
    /\ st' = [st EXCEPT ![o] = "RUNNING"]
    /\ th' = [th EXCEPT ![o] = "callback"]
    /\ given' = [given EXCEPT ![o] = @ + 1]
    /\ elapsed' = [elapsed EXCEPT ![o] = FALSE]

\* The thread of o gives the task up without running it.
Leave(o) ==
    /\ th' = [th EXCEPT ![o] = "cleanup"]
    /\ elapsed' = [elapsed EXCEPT ![o] = FALSE]
    /\ UNCHANGED <<st, given>>

\* runDelayTaskThread from its start until it waits, runs the callback or leaves.
ThreadStart(o) ==
    /\ th[o] = "created"
    /\ \/ st[o] = "CANCELED" /\ Leave(o)
       \/ /\ st[o] # "CANCELED"
          /\ elapsed[o]
          /\ Run(o)
       \/ /\ st[o] # "CANCELED"
          /\ ~elapsed[o]
          /\ st' = [st EXCEPT ![o] = "WAITING"]
          /\ th' = [th EXCEPT ![o] = "waiting"]
          /\ UNCHANGED <<elapsed, given>>
    /\ UNCHANGED <<tasks, handle, forced, canceled, freed, call, ptr, moved>>

\* The wait ends because of a broadcast, the time or nothing at all; with the time not yet
\* elapsed and the state still WAITING the thread waits again.
ThreadWake(o) ==
    /\ th[o] = "waiting"
    /\ \/ st[o] = "CANCELED" /\ Leave(o)
       \/ st[o] = "RUNNING" /\ Run(o)
       \/ st[o] = "WAITING" /\ elapsed[o] /\ Run(o)
    /\ UNCHANGED <<tasks, handle, forced, canceled, freed, call, ptr, moved>>

CallbackReturn(o) ==
    /\ th[o] = "callback"
    /\ st' = [st EXCEPT ![o] = "CANCELED"]
    /\ th' = [th EXCEPT ![o] = "cleanup"]
    /\ UNCHANGED <<tasks, handle, elapsed, given, forced, canceled, freed, call, ptr, moved>>

\* Leaves a canceled task in the list.
CleanupForgets(o) ==
    /\ th[o] = "cleanup"
    /\ ~canceled[o]
    /\ \E k \in {First(Found(handle[o]))} :
          /\ tasks' = Without(tasks, k)
          /\ freed' = [freed EXCEPT ![tasks[k]] = TRUE]
    /\ th' = [th EXCEPT ![o] = "done"]
    /\ UNCHANGED <<handle, st, elapsed, given, forced, canceled, call, ptr, moved>>

\* The task with this thread's handle is removed from the list and freed.
Cleanup(o) ==
    /\ th[o] = "cleanup"
    /\ \E k \in {First(Found(handle[o]))} :
          /\ tasks' = Without(tasks, k)
          /\ freed' = [freed EXCEPT ![tasks[k]] = TRUE]
    /\ th' = [th EXCEPT ![o] = "done"]
    /\ UNCHANGED <<handle, st, elapsed, given, forced, canceled, call, ptr, moved>>

DTNext ==
    \/ \E c \in Client :
          \/ \E o \in Task : Schedule(c, o)
          \/ \E o \in Task, kind \in DTCall : Lookup(c, kind, o)
          \/ \E o \in Reached(c) : Cancel(c, o) \/ Execute(c, o) \/ Reschedule(c, o)
          \/ NoEffect(c)
    \/ \E o \in Task :
          \/ Elapse(o)
          \/ ThreadStart(o)
          \/ ThreadWake(o)
          \/ CallbackReturn(o)
          \/ Cleanup(o)

\* Threads run, time passes and callbacks return; clients finish the calls they began.
DTFairness ==
    /\ \A o \in Task : /\ WF_dtvars(Elapse(o)) /\ WF_dtvars(ThreadStart(o))
                       /\ WF_dtvars(ThreadWake(o)) /\ WF_dtvars(CallbackReturn(o))
                       /\ WF_dtvars(Cleanup(o))
    /\ \A c \in Client : WF_dtvars(NoEffect(c) \/ \E o \in Reached(c) :
                                     Cancel(c, o) \/ Execute(c, o) \/ Reschedule(c, o))

DTSpec == DTInit /\ [][DTNext]_dtvars

DTFairSpec == DTSpec /\ DTFairness

-----------------------------------------------------------------------------
\* The type of the state.
DTTypeOK ==
    /\ tasks \in Seq(Task)
    /\ handle \in [Task -> Nat]
    /\ st \in [Task -> DTState]
    /\ th \in [Task -> DTWhere]
    /\ elapsed \in [Task -> BOOLEAN]
    /\ given \in [Task -> Nat]
    /\ forced \in [Task -> BOOLEAN]
    /\ canceled \in [Task -> BOOLEAN]
    /\ freed \in [Task -> BOOLEAN]
    /\ call \in [Client -> DTCall]
    /\ ptr \in [Client -> Task \cup {NoTask}]
    /\ moved \in Nat

\* The argument of a task goes to one party at most: to the callback, or to one caller of
\* cancelDelayTask, however cancel, execute, expiry and the start of the thread race.
ArgumentOnce == \A o \in Task : given[o] \leq 1

\* Handles in the list ascend, so a handle identifies one live task although handles are
\* reused and tasks leave the list in any order; every task that was scheduled and not yet
\* removed by its own thread is in the list.
HandlesIdentify ==
    /\ \A i, j \in 1..Len(tasks) : i < j => handle[tasks[i]] < handle[tasks[j]]
    /\ \A i \in 1..Len(tasks) : th[tasks[i]] \notin {"none", "done"} /\ ~freed[tasks[i]]
    /\ \A o \in Task : th[o] \notin {"none", "done"} => \E i \in 1..Len(tasks) : tasks[i] = o

\* Every task that was scheduled hands its argument to somebody and is freed in the end.
EveryTaskEnds == \A o \in Task : st[o] = "IDLE" ~> (given[o] = 1 /\ freed[o])

\* exceuteDelayTask: "@return true if the task was executed".  Then it is not also given
\* back to a caller of cancelDelayTask.
ExecutedIfTrue == \A o \in Task : ~(forced[o] /\ canceled[o])

\* delayedTask.h promises handles instead of objects so that a caller never has "a pointer
\* to an object that may have been released in the background": inside the calls, too, no
\* pointer outlives its object.
NoStalePointer == \A c \in Client : call[c] # "none" => ~freed[ptr[c]]
=============================================================================
