----------------------------- MODULE TaskProofs -----------------------------
(***************************************************************************)
(* Proofs about the two kinds of timed tasks, for any number of clients.   *)
(*                                                                         *)
(* DelayedTask, with any number of tasks: the argument of a task reaches   *)
(* one party and a handle one task.                                        *)
(*                                                                         *)
(* RepeatingTask, with any delays and every kind of task: a task that is   *)
(* not cancelled by its own function is released once, when its thread is  *)
(* done with it, and its argument is returned once, when it will not run   *)
(* any more.  Its pauses are whole and its targets on the grid.            *)
(***************************************************************************)
EXTENDS DelayedTask, RepeatingTask, TLAPS

USE Zenon

\* Removing one element (queueDelete, linkedListDelete) leaves a sequence of the same kind
\* that is one shorter.
LEMMA WithoutIsSeq ==
    ASSUME NEW S, NEW s \in Seq(S), NEW k \in 1..Len(s)
    PROVE  /\ Without(s, k) \in Seq(S)
           /\ Len(Without(s, k)) = Len(s) - 1
           /\ \A i \in 1..(Len(s) - 1) :
                 Without(s, k)[i] = IF i < k THEN s[i] ELSE s[i + 1]
<1> DEFINE n == Len(s)
<1>1. n \in Nat /\ n - 1 \in Nat /\ \A i \in 1..n : s[i] \in S
  BY SMT
<1>2. \A i \in 1..(n - 1) : (IF i < k THEN s[i] ELSE s[i + 1]) \in S
  BY <1>1, SMT
<1>3. Without(s, k) = [i \in 1..(n - 1) |-> IF i < k THEN s[i] ELSE s[i + 1]]
  BY DEF Without
<1> HIDE DEF n
<1>4. Without(s, k) \in Seq(S)
  BY <1>1, <1>2, <1>3, SMT
<1>5. Len(Without(s, k)) = n - 1
  BY <1>1, <1>3, SMT
<1> QED
  BY <1>3, <1>4, <1>5 DEF n

\* What the state of an object and the place of its thread say about its argument: it is
\* still to be handed over as long as the task is pending, or forced but not yet noticed
\* by its thread.
Ledger ==
    \A o \in Task :
        /\ st[o] = "none" <=> th[o] = "none"
        /\ st[o] \in {"none", "IDLE", "WAITING"} => given[o] = 0
        /\ (st[o] = "RUNNING" /\ th[o] \in {"created", "waiting"}) => given[o] = 0
        /\ st[o] = "CANCELED" => given[o] = 1
        /\ th[o] = "callback" => st[o] = "RUNNING" /\ given[o] = 1
        /\ th[o] \in {"cleanup", "done"} => st[o] = "CANCELED"
        /\ freed[o] => th[o] = "done"

\* A call that passed its lookup has a pointer to a task that was scheduled.
Pointers == \A c \in Client : call[c] # "none" => ptr[c] \in Task /\ st[ptr[c]] # "none"

DTInv == DTTypeOK /\ Ledger /\ Pointers /\ HandlesIdentify

-----------------------------------------------------------------------------
\* A handle in the list identifies its task.
LEMMA FoundIsUnique ==
    ASSUME DTTypeOK, HandlesIdentify, NEW k \in 1..Len(tasks)
    PROVE  Found(handle[tasks[k]]) = {k} /\ First(Found(handle[tasks[k]])) = k
<1>1. \A j \in 1..Len(tasks) : handle[tasks[j]] = handle[tasks[k]] => j = k
  <2> SUFFICES ASSUME NEW j \in 1..Len(tasks), handle[tasks[j]] = handle[tasks[k]], j # k
               PROVE  FALSE
    OBVIOUS
  <2>1. handle[tasks[j]] \in Nat /\ handle[tasks[k]] \in Nat
    BY SMT DEF DTTypeOK
  <2>2. j < k \/ k < j
    BY SMT DEF DTTypeOK
  <2> QED
    BY <2>1, <2>2, SMT DEF HandlesIdentify
<1>2. Found(handle[tasks[k]]) = {k}
  BY <1>1 DEF Found
<1>3. First({k}) = k
  BY SMT DEF DTTypeOK, First
<1> QED
  BY <1>2, <1>3

LEMMA DTInitInv == DTInit => DTInv
BY TaskAssumption, SMT DEF DTInit, DTInv, DTTypeOK, DTState, DTWhere, DTCall, Ledger, Pointers, HandlesIdentify

-----------------------------------------------------------------------------
LEMMA ScheduleStep ==
    ASSUME DTInv, NEW c \in Client, NEW o \in Task, Schedule(c, o)
    PROVE  DTInv'
<1> DEFINE n == Len(tasks)
<1> USE DEF DTInv
<1>1. /\ st[o] = "none" /\ th[o] = "none"
      /\ handle' = [handle EXCEPT ![o] = assignHandle]
      /\ st' = [st EXCEPT ![o] = "IDLE"] /\ th' = [th EXCEPT ![o] = "created"]
      /\ elapsed' = elapsed /\ given' = given /\ forced' = forced /\ canceled' = canceled
      /\ freed' = freed /\ call' = call /\ ptr' = ptr /\ moved' = moved
  BY DEF Schedule, Ledger
<1>2. /\ n \in Nat /\ tasks' \in Seq(Task) /\ Len(tasks') = n + 1 /\ tasks'[n + 1] = o
      /\ \A i \in 1..n : tasks'[i] = tasks[i] /\ tasks[i] \in Task
  <2>1. tasks' = Append(tasks, o)
    BY DEF Schedule
  <2> QED
    BY <2>1, SMT DEF DTTypeOK
<1>3. \A i \in 1..n : tasks[i] # o
  BY <1>1 DEF HandlesIdentify
<1>4. /\ assignHandle \in Nat
      /\ \A i \in 1..n : handle[tasks[i]] < assignHandle
  <2>1. CASE tasks = <<>>
    BY <2>1, SMT DEF assignHandle
  <2>2. CASE tasks # <<>>
    <3>1. n \in 1..n /\ assignHandle = handle[tasks[n]] + 1
      BY <2>2, <1>2, SMT DEF assignHandle
    <3>2. \A i \in 1..n : handle[tasks[i]] \in Nat
      BY <1>2 DEF DTTypeOK
    <3>3. \A i \in 1..n : i < n => handle[tasks[i]] < handle[tasks[n]]
      BY <3>1 DEF HandlesIdentify
    <3> QED
      BY <1>2, <3>1, <3>2, <3>3, SMT
  <2> QED
    BY <2>1, <2>2
<1> HIDE DEF n
<1>5. DTTypeOK'
  BY <1>1, <1>2, <1>4 DEF DTTypeOK, DTState, DTWhere
<1>6. Ledger' /\ Pointers'
  BY <1>1 DEF DTTypeOK, Ledger, Pointers
<1>7. HandlesIdentify'
  <2>1. \A i \in 1..n : handle'[tasks'[i]] = handle[tasks[i]] /\ handle'[tasks'[n + 1]] = assignHandle
    BY <1>1, <1>2, <1>3 DEF DTTypeOK
  <2>2. \A i, j \in 1..Len(tasks') : i < j => handle'[tasks'[i]] < handle'[tasks'[j]]
    <3> SUFFICES ASSUME NEW i \in 1..n, NEW j \in 1..(n + 1), i < j
                 PROVE  handle'[tasks'[i]] < handle'[tasks'[j]]
      BY <1>2, SMT
    <3>1. CASE j \in 1..n
      BY <2>1, <3>1 DEF HandlesIdentify, n
    <3>2. CASE j = n + 1
      BY <1>4, <2>1, <3>2
    <3> QED
      BY <1>2, <3>1, <3>2, SMT
  <2>3. \A i \in 1..Len(tasks') : th'[tasks'[i]] \notin {"none", "done"} /\ ~freed'[tasks'[i]]
    <3> SUFFICES ASSUME NEW i \in 1..(n + 1)
                 PROVE  th'[tasks'[i]] \notin {"none", "done"} /\ ~freed'[tasks'[i]]
      BY <1>2
    <3>1. CASE i \in 1..n
      BY <1>1, <1>2, <1>3, <3>1 DEF DTTypeOK, HandlesIdentify, n
    <3>2. CASE i = n + 1
      BY <1>1, <1>2, <3>2 DEF DTTypeOK, Ledger
    <3> QED
      BY <1>2, <3>1, <3>2, SMT
  <2>4. \A p \in Task : th'[p] \notin {"none", "done"} => \E i \in 1..Len(tasks') : tasks'[i] = p
    <3> SUFFICES ASSUME NEW p \in Task, th'[p] \notin {"none", "done"}
                 PROVE  \E i \in 1..(n + 1) : tasks'[i] = p
      BY <1>2
    <3>1. CASE p = o
      BY <1>2, <3>1, SMT
    <3>2. CASE p # o
      <4>1. PICK i \in 1..n : tasks[i] = p
        BY <1>1, <3>2 DEF DTTypeOK, HandlesIdentify, n
      <4> QED
        BY <1>2, <4>1, SMT
    <3> QED
      BY <3>1, <3>2
  <2> QED
    BY <2>2, <2>3, <2>4 DEF HandlesIdentify
<1> QED
  BY <1>5, <1>6, <1>7

LEMMA LookupStep ==
    ASSUME DTInv, NEW c \in Client, NEW kind \in DTCall, NEW o \in Task, Lookup(c, kind, o)
    PROVE  DTInv'
<1> USE DEF DTInv
<1>1. PICK k \in 1..Len(tasks) : handle[tasks[k]] = handle[o]
  BY DEF Lookup, Found
<1>2. ptr' = [ptr EXCEPT ![c] = tasks[k]]
  BY <1>1, FoundIsUnique DEF Lookup
<1>3. tasks[k] \in Task /\ st[tasks[k]] # "none"
  BY <1>1, SMT DEF DTTypeOK, HandlesIdentify, Ledger
<1>4. DTTypeOK'
  <2>1. moved' \in 0..MaxReschedule
    BY TaskAssumption, SMT DEF Lookup, DTTypeOK
  <2>2. ptr' \in [Client -> Task \union {NoTask}] /\ call' \in [Client -> DTCall]
    BY <1>2, <1>3 DEF Lookup, DTTypeOK
  <2>3. UNCHANGED <<tasks, handle, st, th, elapsed, given, forced, canceled, freed>>
    BY DEF Lookup
  <2> QED
    BY <2>1, <2>2, <2>3, SMT DEF DTTypeOK
<1>5. Ledger' /\ HandlesIdentify'
  BY DEF Lookup, Ledger, HandlesIdentify
<1>6. Pointers'
  BY <1>2, <1>3 DEF Lookup, DTTypeOK, Pointers
<1> QED
  BY <1>4, <1>5, <1>6

\* A call takes effect on a pending object, whose thread has not yet passed its wait.
LEMMA CallStep ==
    ASSUME DTInv, NEW c \in Client,
           \/ \E o \in Reached(c) : Cancel(c, o) \/ Execute(c, o) \/ Reschedule(c, o)
           \/ NoEffect(c)
    PROVE  DTInv'
<1> USE DEF DTInv
<1>1. NoTask \notin Task /\ \A o \in Reached(c) : o \in Task /\ st[o] # "none"
  BY TaskAssumption DEF Reached, Pointers
<1>2. ASSUME NEW o \in Reached(c), Cancel(c, o) PROVE DTInv'
  BY <1>1, <1>2, SMT DEF Cancel, Done, Pending, DTTypeOK, DTState, DTCall, Ledger, Pointers, HandlesIdentify
<1>3. ASSUME NEW o \in Reached(c), Execute(c, o) PROVE DTInv'
  BY <1>1, <1>3, SMT DEF Execute, Done, Pending, DTTypeOK, DTState, DTCall, Ledger, Pointers, HandlesIdentify
<1>4. ASSUME NEW o \in Reached(c), Reschedule(c, o) PROVE DTInv'
  BY <1>1, <1>4, SMT DEF Reschedule, Done, Pending, DTTypeOK, DTState, DTCall, Ledger, Pointers, HandlesIdentify
<1>5. ASSUME NoEffect(c) PROVE DTInv'
  BY <1>1, <1>5, SMT DEF NoEffect, Done, DTTypeOK, DTState, DTCall, Ledger, Pointers, HandlesIdentify
<1> QED
  BY <1>2, <1>3, <1>4, <1>5

LEMMA DTThreadStep ==
    ASSUME DTInv, NEW o \in Task,
           Elapse(o) \/ ThreadStart(o) \/ ThreadWake(o) \/ CallbackReturn(o)
    PROVE  DTInv'
<1> USE DEF DTInv
<1>1. CASE Elapse(o)
  BY <1>1 DEF Elapse, DTTypeOK, Ledger, Pointers, HandlesIdentify
<1>2. ASSUME th[o] \in {"created", "waiting"}, st[o] # "CANCELED", Run(o),
             UNCHANGED <<tasks, handle, forced, canceled, freed, call, ptr, moved>>
      PROVE  DTInv'
  <2>1. /\ st' = [st EXCEPT ![o] = "RUNNING"] /\ th' = [th EXCEPT ![o] = "callback"]
        /\ given' = [given EXCEPT ![o] = 1] /\ elapsed' = [elapsed EXCEPT ![o] = FALSE]
    <3>1. given[o] = 0
      BY <1>2 DEF DTTypeOK, DTState, Ledger
    <3> QED
      BY <1>2, <3>1, SMT DEF Run
  <2>2. DTTypeOK'
    BY <1>2, <2>1 DEF DTTypeOK, DTState, DTWhere
  <2>3. Ledger'
    BY <1>2, <2>1 DEF DTTypeOK, Ledger
  <2>4. Pointers' /\ HandlesIdentify'
    BY <1>2, <2>1, SMT DEF DTTypeOK, DTState, Pointers, HandlesIdentify
  <2> QED
    BY <2>2, <2>3, <2>4
<1>3. ASSUME th[o] \in {"created", "waiting"}, st[o] = "CANCELED", Leave(o),
             UNCHANGED <<tasks, handle, forced, canceled, freed, call, ptr, moved>>
      PROVE  DTInv'
  <2>1. /\ st' = st /\ given' = given
        /\ th' = [th EXCEPT ![o] = "cleanup"] /\ elapsed' = [elapsed EXCEPT ![o] = FALSE]
    BY <1>3 DEF Leave
  <2>2. DTTypeOK'
    BY <1>3, <2>1 DEF DTTypeOK, DTState, DTWhere
  <2>3. Ledger'
    BY <1>3, <2>1 DEF DTTypeOK, Ledger
  <2>4. Pointers' /\ HandlesIdentify'
    BY <1>3, <2>1, SMT DEF DTTypeOK, DTState, Pointers, HandlesIdentify
  <2> QED
    BY <2>2, <2>3, <2>4
<1>4. CASE ThreadStart(o)
  <2>1. CASE st[o] # "CANCELED" /\ ~elapsed[o] /\ th' = [th EXCEPT ![o] = "waiting"]
    <3>1. /\ given[o] = 0 /\ th[o] = "created" /\ elapsed' = elapsed /\ given' = given
          /\ st' = [st EXCEPT ![o] = "WAITING"]
          /\ UNCHANGED <<tasks, handle, forced, canceled, freed, call, ptr, moved>>
      BY <1>4, <2>1 DEF ThreadStart, Leave, Run, DTTypeOK, DTState, Ledger
    <3>2. DTTypeOK'
      BY <2>1, <3>1 DEF DTTypeOK, DTState, DTWhere
    <3>3. Ledger'
      BY <2>1, <3>1 DEF DTTypeOK, Ledger
    <3>4. Pointers' /\ HandlesIdentify'
      BY <2>1, <3>1, SMT DEF DTTypeOK, DTState, Pointers, HandlesIdentify
    <3> QED
      BY <3>2, <3>3, <3>4
  <2> QED
    BY <1>2, <1>3, <1>4, <2>1 DEF ThreadStart
<1>5. CASE ThreadWake(o)
  BY <1>2, <1>3, <1>5 DEF ThreadWake
<1>6. CASE CallbackReturn(o)
  BY <1>6, SMT DEF CallbackReturn, DTTypeOK, DTState, DTWhere, Ledger, Pointers, HandlesIdentify
<1> QED
  BY <1>1, <1>4, <1>5, <1>6

LEMMA CleanupStep ==
    ASSUME DTInv, NEW o \in Task, Cleanup(o)
    PROVE  DTInv'
<1> DEFINE n == Len(tasks)
<1> USE DEF DTInv
<1>1. PICK k \in 1..n : tasks[k] = o
  BY DEF Cleanup, HandlesIdentify
<1>2. First(Found(handle[o])) = k
  BY <1>1, FoundIsUnique
<1>3. /\ th[o] = "cleanup" /\ st[o] = "CANCELED"
      /\ th' = [th EXCEPT ![o] = "done"] /\ freed' = [freed EXCEPT ![o] = TRUE]
      /\ handle' = handle /\ st' = st /\ elapsed' = elapsed /\ given' = given /\ forced' = forced
      /\ canceled' = canceled /\ call' = call /\ ptr' = ptr /\ moved' = moved
      /\ tasks' = Without(tasks, k)
  BY <1>1, <1>2 DEF Cleanup, Ledger
<1>4. /\ n \in Nat /\ k \in 1..n
      /\ tasks' \in Seq(Task) /\ Len(tasks') = n - 1
      /\ \A i \in 1..n : tasks[i] \in Task
      /\ \A i \in 1..(n - 1) : tasks'[i] = IF i < k THEN tasks[i] ELSE tasks[i + 1]
  BY <1>3, WithoutIsSeq, SMT DEF DTTypeOK, Without
<1>5. \A i \in 1..n : i # k => tasks[i] # o
  BY <1>1, FoundIsUnique DEF DTTypeOK, Found
<1> HIDE DEF n
<1>6. DTTypeOK'
  BY <1>3, <1>4 DEF DTTypeOK, DTWhere
<1>7. Ledger' /\ Pointers'
  BY <1>3 DEF DTTypeOK, Ledger, Pointers
<1>8. HandlesIdentify'
  <2>1. \A i \in 1..(n - 1) : \E a \in 1..n :
           a # k /\ tasks'[i] = tasks[a] /\ a = IF i < k THEN i ELSE i + 1
    BY <1>4, SMT
  <2>2. \A i, j \in 1..Len(tasks') : i < j => handle'[tasks'[i]] < handle'[tasks'[j]]
    <3> SUFFICES ASSUME NEW i \in 1..(n - 1), NEW j \in 1..(n - 1), i < j
                 PROVE  handle[tasks'[i]] < handle[tasks'[j]]
      BY <1>3, <1>4
    <3>1. PICK a \in 1..n : tasks'[i] = tasks[a] /\ a = IF i < k THEN i ELSE i + 1
      BY <2>1
    <3>2. PICK b \in 1..n : tasks'[j] = tasks[b] /\ b = IF j < k THEN j ELSE j + 1
      BY <2>1
    <3>3. a < b
      BY <1>4, <3>1, <3>2, SMT
    <3> QED
      BY <3>1, <3>2, <3>3 DEF HandlesIdentify, n
  <2>3. \A i \in 1..Len(tasks') : th'[tasks'[i]] \notin {"none", "done"} /\ ~freed'[tasks'[i]]
    <3> SUFFICES ASSUME NEW i \in 1..(n - 1)
                 PROVE  th'[tasks'[i]] \notin {"none", "done"} /\ ~freed'[tasks'[i]]
      BY <1>4
    <3>1. PICK a \in 1..n : tasks'[i] = tasks[a] /\ a # k
      BY <2>1
    <3> QED
      BY <1>3, <1>4, <1>5, <3>1 DEF DTTypeOK, HandlesIdentify, n
  <2>4. \A p \in Task : th'[p] \notin {"none", "done"} => \E i \in 1..Len(tasks') : tasks'[i] = p
    <3> SUFFICES ASSUME NEW p \in Task, th'[p] \notin {"none", "done"}
                 PROVE  \E i \in 1..(n - 1) : tasks'[i] = p
      BY <1>4
    <3>1. p # o /\ th[p] \notin {"none", "done"}
      BY <1>3 DEF DTTypeOK
    <3>2. PICK j \in 1..n : tasks[j] = p
      BY <3>1 DEF HandlesIdentify, n
    <3>3. CASE j < k
      BY <1>4, <3>2, <3>3, SMT
    <3>4. CASE j > k
      <4>1. j - 1 \in 1..(n - 1) /\ tasks'[j - 1] = p
        BY <1>4, <3>2, <3>4, SMT
      <4> QED
        BY <4>1
    <3> QED
      BY <1>1, <1>4, <3>1, <3>2, <3>3, <3>4, SMT
  <2> QED
    BY <2>2, <2>3, <2>4 DEF HandlesIdentify
<1> QED
  BY <1>6, <1>7, <1>8

LEMMA DTNextInv == DTInv /\ [DTNext]_dtvars => DTInv'
<1> SUFFICES ASSUME DTInv, [DTNext]_dtvars PROVE DTInv'
  OBVIOUS
<1>1. ASSUME NEW c \in Client, NEW o \in Task, Schedule(c, o) PROVE DTInv'
  BY <1>1, ScheduleStep
<1>2. ASSUME NEW c \in Client, NEW o \in Task, NEW kind \in DTCall, Lookup(c, kind, o) PROVE DTInv'
  BY <1>2, LookupStep
<1>3. ASSUME NEW c \in Client,
             \/ \E o \in Reached(c) : Cancel(c, o) \/ Execute(c, o) \/ Reschedule(c, o)
             \/ NoEffect(c)
      PROVE  DTInv'
  BY <1>3, CallStep
<1>4. ASSUME NEW o \in Task, Elapse(o) \/ ThreadStart(o) \/ ThreadWake(o) \/ CallbackReturn(o)
      PROVE  DTInv'
  BY <1>4, DTThreadStep
<1>5. ASSUME NEW o \in Task, Cleanup(o) PROVE DTInv'
  BY <1>5, CleanupStep
<1>6. CASE UNCHANGED dtvars
  BY <1>6 DEF dtvars, DTInv, DTTypeOK, Ledger, Pointers, HandlesIdentify
<1> QED
  BY <1>1, <1>2, <1>3, <1>4, <1>5, <1>6 DEF DTNext

\* The argument of a delayed task goes to one party at most, for any number of tasks and
\* clients and however their calls, the clock and the threads interleave.
THEOREM ArgumentHandedOnce == DTSpec => []ArgumentOnce
<1>1. DTSpec => []DTInv
  BY DTInitInv, DTNextInv, PTL DEF DTSpec
<1>2. DTInv => ArgumentOnce
  <2> SUFFICES ASSUME DTInv, NEW o \in Task PROVE given[o] \leq 1
    BY DEF ArgumentOnce
  <2>1. given[o] = 0 \/ given[o] = 1
    BY DEF DTInv, DTTypeOK, DTState, DTWhere, Ledger
  <2> QED
    BY <2>1, SMT
<1> QED
  BY <1>1, <1>2, PTL

\* Handles in the list always ascend, so the lookup of a live handle finds its own task.
THEOREM HandlesAreUnique == DTSpec => []HandlesIdentify
<1>1. DTSpec => []DTInv
  BY DTInitInv, DTNextInv, PTL DEF DTSpec
<1>2. DTInv => HandlesIdentify
  BY DEF DTInv
<1> QED
  BY <1>1, <1>2, PTL

-----------------------------------------------------------------------------
\* RepeatingTask: the part of the type that the argument needs.
Types ==
    /\ state \in RTState
    /\ listed \in BOOLEAN
    /\ done \in BOOLEAN
    /\ told \in BOOLEAN
    /\ thread \in ThreadPC
    /\ doing \in [Caller -> ClientPC]
    /\ released \in Nat
    /\ returned \in Nat

Cancelling(c) == doing[c] \in {"cancel", "join"}

\* The object has one owner: the list, then the one call of cancelRepeatingTask that took it
\* from there, until it is released.
OneOwner ==
    /\ listed => released = 0 /\ returned = 0 /\ \A c \in Caller : ~Cancelling(c)
    /\ \A c \in Caller : Cancelling(c) => released = 0 /\ returned = 0
    /\ \A c, e \in Caller : Cancelling(c) /\ Cancelling(e) => c = e
    /\ released \leq 1 /\ returned \leq released

\* REPEAT_TASK_CANCELED is set by the call that joins the thread, or by a thread that has
\* completed and is about to leave.
Stopping ==
    /\ \A c \in Caller : doing[c] = "join" => state = "CANCELED"
    /\ \A c \in Caller : doing[c] = "cancel" /\ state = "CANCELED" => done
    /\ listed /\ state = "CANCELED" => thread = "remove" /\ done
    /\ released = 1 => thread \in {"remove", "exited"}
    /\ thread \in {"remove", "exited"} => state = "CANCELED"
    /\ thread = "remove" => done
    /\ thread = "exited" => ~listed
    /\ done => thread \in {"remove", "exited"}
    /\ told => state = "CANCELED" /\ ~listed
    /\ returned = 1 => thread = "exited" /\ ~done

RTInv == Types /\ OneOwner /\ Stopping

\* How the task is used stays, so all this holds if its function does not cancel it.
Inv == CancelledByClients => RTInv

-----------------------------------------------------------------------------
\* initRepeatingTask establishes the invariant.
LEMMA InitOK == RTInit => RTInv
<1> SUFFICES ASSUME RTInit PROVE RTInv
  OBVIOUS
<1>1. Types
  BY DEF RTInit, Types, RTState, ThreadPC, ClientPC
<1>2. \A c \in Caller : doing[c] = "idle"
  BY DEF RTInit
<1>3. OneOwner
  BY <1>2, SMT DEF RTInit, OneOwner, Cancelling
<1>4. Stopping
  BY <1>2, SMT DEF RTInit, Stopping
<1> QED
  BY <1>1, <1>3, <1>4 DEF RTInv

\* The calls of cancelRepeatingTask preserve it.
LEMMA CancelOK ==
    ASSUME NEW c \in Caller, RTInv, CancelFind(c) \/ CancelMark(c) \/ CancelJoin(c)
    PROVE  RTInv'
<1>1. CASE CancelFind(c)
  BY <1>1 DEF CancelFind, CallerGoes, RTInv, Types, OneOwner, Stopping, Cancelling, ClientPC
<1>2. CASE CancelMark(c)
  BY <1>2, SMT DEF CancelMark, CallerGoes, Alive, RTInv, Types, OneOwner, Stopping, Cancelling, ClientPC, RTState
<1>3. CASE CancelJoin(c)
  BY <1>3, SMT DEF CancelJoin, CancelJoinIf, CallerGoes, RTInv, Types, OneOwner, Stopping, Cancelling, ClientPC
<1> QED
  BY <1>1, <1>2, <1>3

\* The other calls leave a cancelled task alone.
LEMMA CallOK ==
    ASSUME NEW c \in Caller, RTInv,
           Find(c, "short") \/ Find(c, "change") \/ ShortCircuitTask(c) \/ ChangeTask(c)
    PROVE  RTInv'
<1>1. CASE Find(c, "short") \/ Find(c, "change")
  BY <1>1, SMT DEF Find, CallerGoes, RTInv, Types, OneOwner, Stopping, Cancelling, ClientPC
<1>2. CASE ShortCircuitTask(c)
  BY <1>2 DEF ShortCircuitTask, ShortCircuit, CallerGoes, RTInv, Types, OneOwner, Stopping, Cancelling, ClientPC, RTState
<1>3. CASE ChangeTask(c)
  BY <1>3, SMT DEF ChangeTask, Change, CallerGoes, RTInv, Types, OneOwner, Stopping, Cancelling, ClientPC
<1> QED
  BY <1>1, <1>2, <1>3

\* So does the task's thread.
LEMMA ThreadOK ==
    ASSUME RTInv, RTThreadStep
    PROVE  RTInv'
<1>1. CASE Loop
  <2>1. Types'
    BY <1>1 DEF Loop, RTInv, Types, ThreadPC, RTState
  <2>2. OneOwner'
    BY <1>1 DEF Loop, RTInv, OneOwner, Cancelling
  <2>3. Stopping'
    <3>1. CASE state = "CANCELED"
      <4>1. ~listed /\ ~done /\ released = 0 /\ returned = 0
        BY <1>1, <3>1, SMT DEF Loop, Alive, RTInv, Types, OneOwner, Stopping
      <4>2. \A c \in Caller : doing[c] # "cancel"
        BY <3>1, <4>1 DEF RTInv, Stopping
      <4> QED
        BY <1>1, <3>1, <4>1, <4>2 DEF Loop, RTInv, Stopping
    <3>2. CASE state # "CANCELED"
      BY <1>1, <3>2, SMT DEF Loop, Alive, RTInv, Types, OneOwner, Stopping
    <3> QED
      BY <3>1, <3>2
  <2> QED
    BY <2>1, <2>2, <2>3 DEF RTInv
<1>2. CASE After
  BY <1>2 DEF After, AfterPausing, Alive, RTInv, Types, OneOwner, Stopping, Cancelling, ThreadPC, RTState
<1>3. CASE Success
  BY <1>3 DEF Success, Alive, RTInv, Types, OneOwner, Stopping, Cancelling, ThreadPC
<1>4. CASE Complete
  BY <1>4 DEF Complete, Alive, RTInv, Types, OneOwner, Stopping, Cancelling, ThreadPC, RTState
<1>5. CASE Remove
  <2>1. /\ released' = IF listed THEN released + 1 ELSE released
        /\ released \in Nat /\ returned \in Nat
    BY <1>5, SMT DEF Remove, RTInv, Types
  <2>2. Types'
    <3>1. released' \in Nat
      BY <2>1, SMT
    <3>2. listed' = FALSE /\ thread' = "exited"
      BY <1>5 DEF Remove
    <3> QED
      BY <1>5, <3>1, <3>2 DEF Remove, RTInv, Types, ThreadPC
  <2>3. OneOwner'
    <3>1. CASE listed
      BY <1>5, <2>1, <3>1, SMT DEF Remove, RTInv, OneOwner, Cancelling
    <3>2. CASE ~listed
      BY <1>5, <2>1, <3>2 DEF Remove, RTInv, OneOwner, Cancelling
    <3> QED
      BY <3>1, <3>2
  <2>4. returned # 1
    BY <1>5 DEF Remove, RTInv, Stopping
  <2>5. Stopping'
    BY <1>5, <2>1, <2>4 DEF Remove, RTInv, Stopping
  <2> QED
    BY <2>2, <2>3, <2>5 DEF RTInv
<1> QED
  BY <1>1, <1>2, <1>3, <1>4, <1>5 DEF RTThreadStep

\* Every step preserves the invariant, if the task function does not cancel its own task.
LEMMA NextOK ==
    ASSUME RTInv, [RTNext]_rtvars, CancelledByClients
    PROVE  RTInv'
<1>1. ASSUME NEW c \in Caller,
             CancelFind(c) \/ CancelMark(c) \/ CancelJoin(c)
      PROVE  RTInv'
  BY <1>1, CancelOK
<1>2. ASSUME NEW c \in Caller,
             Find(c, "short") \/ Find(c, "change") \/ ShortCircuitTask(c) \/ ChangeTask(c)
      PROVE  RTInv'
  BY <1>2, CallOK
<1>3. CASE RTThreadStep
  BY <1>3, ThreadOK
<1>4. ASSUME NEW b \in BOOLEAN, Returns(b)
      PROVE  RTInv'
  BY <1>4 DEF Returns, RTInv, Types, OneOwner, Stopping, Cancelling, ThreadPC
<1>5. CASE Wake
  <2>1. Types'
    BY <1>5 DEF Wake, WakeUnless, RTInv, Types, ThreadPC
  <2>2. OneOwner'
    BY <1>5 DEF Wake, WakeUnless, RTInv, OneOwner, Cancelling
  <2>3. Stopping'
    <3>1. CASE state = "CANCELED"
      <4>1. ~listed /\ ~done /\ released = 0 /\ returned = 0
        BY <1>5, <3>1, SMT DEF Wake, WakeUnless, Alive, RTInv, Types, OneOwner, Stopping
      <4>2. \A c \in Caller : doing[c] # "cancel"
        BY <3>1, <4>1 DEF RTInv, Stopping
      <4> QED
        BY <1>5, <3>1, <4>1, <4>2 DEF Wake, WakeUnless, RTInv, Stopping
    <3>2. CASE state # "CANCELED"
      BY <1>5, <3>2, SMT DEF Wake, WakeUnless, Alive, RTInv, Types, OneOwner, Stopping
    <3> QED
      BY <3>1, <3>2
  <2> QED
    BY <2>1, <2>2, <2>3 DEF RTInv
<1>6. CASE OwnCall
  <2>1. CASE ShortCircuit /\ UNCHANGED doing
    BY <2>1 DEF ShortCircuit, RTInv, Types, OneOwner, Stopping, Cancelling, RTState
  <2>2. ASSUME NEW d \in NewDelay, NEW changeNow \in BOOLEAN, Change(d, changeNow), UNCHANGED doing
        PROVE  RTInv'
    BY <2>2 DEF Change, RTInv, Types, OneOwner, Stopping, Cancelling
  <2> QED
    BY <1>6, <2>1, <2>2 DEF OwnCall, CancelledByClients
<1>7. CASE Tick
  BY <1>7 DEF Tick, RTInv, Types, OneOwner, Stopping, Cancelling
<1>8. CASE UNCHANGED rtvars
  BY <1>8 DEF rtvars, RTInv, Types, OneOwner, Stopping, Cancelling
<1> QED
  BY <1>1, <1>2, <1>3, <1>4, <1>5, <1>6, <1>7, <1>8 DEF RTNext

\* No step changes how the task is used.
LEMMA UseKept == ASSUME [RTNext]_rtvars PROVE use' = use
<1>1. ASSUME NEW c \in Caller,
             CancelFind(c) \/ CancelMark(c) \/ CancelJoin(c)
      PROVE  use' = use
  BY <1>1 DEF CancelFind, CancelMark, CancelJoin, CancelJoinIf
<1>2. ASSUME NEW c \in Caller,
             Find(c, "short") \/ Find(c, "change") \/ ShortCircuitTask(c) \/ ChangeTask(c)
      PROVE  use' = use
  BY <1>2 DEF Find, ShortCircuitTask, ShortCircuit, ChangeTask, Change
<1>3. CASE RTThreadStep
  BY <1>3 DEF RTThreadStep, Loop, After, AfterPausing, Success, Complete, Remove
<1>4. ASSUME NEW b \in BOOLEAN, Returns(b)
      PROVE  use' = use
  BY <1>4 DEF Returns
<1>5. CASE Wake
  BY <1>5 DEF Wake, WakeUnless
<1>6. CASE OwnCall
  BY <1>6 DEF OwnCall, ShortCircuit, Change
<1>7. CASE Tick
  BY <1>7 DEF Tick
<1>8. CASE UNCHANGED rtvars
  BY <1>8 DEF rtvars
<1> QED
  BY <1>1, <1>2, <1>3, <1>4, <1>5, <1>6, <1>7, <1>8 DEF RTNext

\* The invariant of every task.
LEMMA Invariance == RTSpec => []Inv
<1>1. RTInit => Inv
  BY InitOK DEF Inv
<1>2. ASSUME Inv, [RTNext]_rtvars PROVE Inv'
  <2>1. use' = use
    BY <1>2, UseKept
  <2>2. CancelledByClients' = CancelledByClients
    BY <2>1 DEF CancelledByClients, OwnCalls
  <2> QED
    BY <1>2, <2>2, NextOK DEF Inv
<1> QED
  BY <1>1, <1>2, PTL DEF RTSpec

-----------------------------------------------------------------------------
\* cancelRepeatingTask and the completion of a back off task release the object exactly once
\* between them, when neither the thread nor another cancel will touch it.
THEOREM ReleaseIsSafe == RTSpec => []SafeToDelete
<1>1. Inv => SafeToDelete
  BY SMT DEF Inv, RTInv, Types, OneOwner, Stopping, Cancelling, SafeToDelete
<1> QED
  BY <1>1, Invariance, PTL

\* When cancelRepeatingTask returns the argument, its thread has exited.
THEOREM CancelIsFinal == RTSpec => []NotRunAfterCancel
<1>1. Inv => NotRunAfterCancel
  BY SMT DEF Inv, RTInv, Types, OneOwner, Stopping, NotRunAfterCancel
<1> QED
  BY <1>1, Invariance, PTL

\* didComplete resolves the race of cancel and completion: the argument of a completed back
\* off task is never returned.
THEOREM CompletionKeepsArgument == RTSpec => []CompletedKeepsArg
<1>1. Inv => CompletedKeepsArg
  BY SMT DEF Inv, RTInv, Types, OneOwner, Stopping, CompletedKeepsArg
<1> QED
  BY <1>1, Invariance, PTL

\* Cancelling a task is safe whatever its thread is doing (cancelRepeatingTask, and a back off
\* task that completes): the three theorems above together.
THEOREM CancellingIsSafe == RTSpec => []CancelIsSafe
BY ReleaseIsSafe, CancelIsFinal, CompletionKeepsArgument, PTL DEF CancelIsSafe

-----------------------------------------------------------------------------
\* What a step may do to a short circuit that the thread has not answered yet.
Stands == (state = "SHORT_CIRCUIT" /\ state' # state) => (thread' = "running" \/ state' = "CANCELED")

\* No step loses a short circuit.
LEMMA StepKeepsShortCircuit == [RTNext]_rtvars => Stands
<1> SUFFICES ASSUME [RTNext]_rtvars, state = "SHORT_CIRCUIT"
             PROVE  state' = state \/ thread' = "running" \/ state' = "CANCELED"
  BY DEF Stands
<1>1. ASSUME NEW c \in Caller, CancelFind(c) \/ CancelMark(c) \/ CancelJoin(c)
      PROVE  state' = state \/ state' = "CANCELED"
  BY <1>1 DEF CancelFind, CancelMark, CancelJoin, CancelJoinIf
<1>2. ASSUME NEW c \in Caller, Find(c, "short") \/ Find(c, "change") \/ ShortCircuitTask(c)
                               \/ ChangeTask(c)
      PROVE  state' = state
  BY <1>2 DEF Find, ShortCircuitTask, ShortCircuit, ChangeTask, Change
<1>3. CASE RTThreadStep
  BY <1>3 DEF RTThreadStep, Loop, After, AfterPausing, Success, Complete, Remove
<1>4. ASSUME NEW b \in BOOLEAN, Returns(b)
      PROVE  state' = state
  BY <1>4 DEF Returns
<1>5. CASE Wake \/ Tick
  BY <1>5 DEF Wake, WakeUnless, Tick
<1>6. CASE OwnCall
  BY <1>6 DEF OwnCall, ShortCircuit, Change
<1>7. CASE UNCHANGED rtvars
  BY <1>7 DEF rtvars
<1> QED
  BY <1>1, <1>2, <1>3, <1>4, <1>5, <1>6, <1>7 DEF RTNext

\* shortCircuitRepeatingTask is not forgotten between the two looks that the thread takes at
\* the state, whatever kind of task it is and whoever calls (ShortCircuitKept).
THEOREM ShortCircuitStands == RTSpec => ShortCircuitKept
<1>1. [RTNext]_rtvars => [Stands]_rtvars
  BY StepKeepsShortCircuit
<1>2. ShortCircuitKept <=> [][Stands]_rtvars
  BY DEF ShortCircuitKept, Stands
<1> QED
  BY <1>1, <1>2, PTL DEF RTSpec

-----------------------------------------------------------------------------
(***************************************************************************)
(* Time: the pauses and the targets of the runs.                           *)
(***************************************************************************)
\* The remainder of a division is the only one.
LEMMA ModUnique ==
  ASSUME NEW D \in Nat \ {0}, NEW q \in Int, NEW r \in 0..(D-1)
  PROVE (D * q + r) % D = r
BY SMT

\* The remainder, and that a multiple of the divisor is what is left.
LEMMA ModForm ==
  ASSUME NEW D \in Nat \ {0}, NEW x \in Int
  PROVE x % D \in 0..(D-1) /\ \E q \in Int : x % D = x - D * q
<1>1. x % D \in 0..(D-1)
  BY SMT
<1>2. \E q \in Int : x % D = x - D * q
  BY SMT
<1> QED
  BY <1>1, <1>2

\* Adding the divisor does not change the remainder.
LEMMA ModShift == ASSUME NEW D \in Nat \ {0}, NEW x \in Int PROVE (x + D) % D = x % D
<1> DEFINE r == x % D
<1>1. r \in 0..(D-1)
  BY ModForm
<1>2. PICK q \in Int : r = x - D * q
  BY ModForm
<1> HIDE DEF r
<1>3. x + D = D * (q+1) + r
  <2> DEFINE a == D * q
             b == D * (q+1)
  <2>1. b = a + D
    BY SMT
  <2>2. a \in Int /\ b \in Int /\ r = x - a
    BY <1>2, SMT
  <2> HIDE DEF a, b
  <2> SUFFICES x + D = b + r
    BY DEF b
  <2> QED
    BY <1>1, <2>1, <2>2, SMT
<1>4. (D * (q+1) + r) % D = r
  BY <1>1, ModUnique, SMT
<1> QED
  BY <1>3, <1>4 DEF r

\* A unit of time passes: what is counted from zero modulo D goes up, what is left goes down.
LEMMA ModStep ==
  ASSUME NEW D \in Nat \ {0}, NEW p \in 0..(D-1), NEW l \in Int, (p + l) % D = 0
  PROVE  (p + 1) % D \in 0..(D-1) /\ (((p + 1) % D) + (l - 1)) % D = 0
<1>1. CASE p + 1 < D
  <2>1. (p + 1) % D = p + 1
    BY <1>1, SMT
  <2>2. (p + 1) + (l - 1) = p + l
    BY SMT
  <2> QED
    BY <1>1, <2>1, <2>2, SMT
<1>2. CASE p + 1 = D
  <2>1. (p + 1) % D = 0
    BY <1>2, SMT
  <2>2. 0 + (l - 1) \in Int /\ (0 + (l - 1)) + D = p + l
    BY <1>2, SMT
  <2>3. (0 + (l - 1)) % D = 0
    BY <2>2, ModShift
  <2> QED
    BY <2>1, <2>3, SMT
<1> QED
  BY <1>1, <1>2, SMT

\* The clocks, and whose calls are under way.
Clocks ==
    /\ delay \in 0..Longest /\ left \in Int /\ since \in 0..(Longest + 1)
    /\ phase \in 0..(Delay - 1)
    /\ doing \in [Caller -> ClientPC]
    /\ \A c \in Caller : doing[c] \in {"short", "change"} => doing[c] \in Calls

\* A fixed rate task whose pauses nobody touches: no run of it is a short circuited one.
OnlyCancelled == Type = "fixed" /\ Calls \cup OwnCalls \subseteq {"cancel"}
Grid ==
    OnlyCancelled => /\ delay = Delay
                     /\ state # "SHORT_CIRCUIT" /\ entry # "SHORT_CIRCUIT"
                     /\ (phase + left) % Delay = 0

\* The other kinds with their own delay: what has passed of a pause and what is left of it
\* are the delay, and it is over when a run that nobody asked for begins.
Paced == Type # "fixed" /\ DelayKept
Pace ==
    Paced => /\ left \geq -1
             /\ thread = "wait" => since + left \geq delay \/ since > Longest
             /\ thread = "loop" /\ state = "WAITING" => since > delay

TimeInv == Clocks /\ Grid /\ Pace

\* The delays are no longer than the longest.
LEMMA LongestIsLongest ==
    /\ Longest \in Nat \ {0} /\ Delay \in 1..Longest
    /\ StartDelay \in 1..Longest /\ MaxDelay \in 1..Longest /\ Increment \in Nat
    /\ \A d \in NewDelay : d \in 1..Longest
<1>1. Longest \in Pause /\ \A d \in Pause : d \leq Longest
  BY PauseAssumption DEF Longest
<1>2. Pause \subseteq Nat \ {0}
  BY DelayAssumption, BackOffAssumption DEF Pause
<1> QED
  BY <1>1, <1>2, BackOffAssumption, SMT DEF Pause

\* calcBackOffDelayAmount stays within the delays of the task.
LEMMA BackOffBounded ==
    ASSUME NEW d \in 0..Longest
    PROVE  calcBackOffDelayAmount(d) \in 0..Longest
BY LongestIsLongest, SMT DEF calcBackOffDelayAmount

\* initRepeatingTask
LEMMA TimeInit == RTInit => TimeInv
<1> SUFFICES ASSUME RTInit PROVE TimeInv
  OBVIOUS
<1>1. Clocks
  BY LongestIsLongest, SMT DEF RTInit, Clocks, ClientPC
<1>2. Grid
  <2>1. 0 % Delay = 0
    BY DelayAssumption, SMT
  <2> QED
    BY <2>1, SMT DEF RTInit, Grid, OnlyCancelled
<1>3. Pace
  BY SMT DEF RTInit, Pace
<1> QED
  BY <1>1, <1>2, <1>3 DEF TimeInv

\* A step that leaves the clocks alone, and the thread where it is.
LEMMA TimeQuiet ==
    ASSUME TimeInv, UNCHANGED <<use, delay, left, since, phase>>, Clocks',
           OnlyCancelled => state' # "SHORT_CIRCUIT" /\ entry' # "SHORT_CIRCUIT",
           thread' = "wait" => thread = "wait",
           thread' = "loop" /\ state' = "WAITING" => thread = "loop" /\ state = "WAITING"
    PROVE  TimeInv'
<1>1. Grid'
  BY DEF TimeInv, Grid, OnlyCancelled, Type, Calls, OwnCalls
<1>2. Pace'
  BY DEF TimeInv, Pace, Paced, DelayKept, Type, Calls, OwnCalls
<1> QED
  BY <1>1, <1>2 DEF TimeInv

\* The work of shortCircuitRepeatingTask on the object.
LEMMA TimeShort ==
    ASSUME TimeInv, ShortCircuit, Clocks', ~OnlyCancelled
    PROVE  TimeInv'
BY TimeQuiet DEF ShortCircuit

\* The work of changeRepeatingTask on the object.
LEMMA TimeChange ==
    ASSUME TimeInv, NEW d \in NewDelay, NEW soon \in BOOLEAN, Change(d, soon), Clocks',
           ~OnlyCancelled, ~DelayKept
    PROVE  TimeInv'
<1>1. ~OnlyCancelled' /\ ~Paced'
  BY DEF Change, OnlyCancelled, Paced, DelayKept, Type, Calls, OwnCalls
<1> QED
  BY <1>1 DEF TimeInv, Grid, Pace

\* The calls of clients.
LEMMA TimeCalls ==
    ASSUME TimeInv, NEW c \in Caller,
           \/ CancelFind(c) \/ CancelMark(c) \/ CancelJoin(c)
           \/ Find(c, "short") \/ Find(c, "change") \/ ShortCircuitTask(c) \/ ChangeTask(c)
    PROVE  TimeInv'
<1>1. CASE CancelFind(c) \/ CancelMark(c) \/ CancelJoin(c) \/ Find(c, "short") \/ Find(c, "change")
  <2>1. Clocks'
    BY <1>1 DEF CancelFind, CancelMark, CancelJoin, CancelJoinIf, Find, CallerGoes, TimeInv, Clocks,
                ClientPC, Calls
  <2>2. /\ UNCHANGED <<use, delay, left, since, phase, thread, entry>>
        /\ state' = state \/ state' = "CANCELED"
    BY <1>1 DEF CancelFind, CancelMark, CancelJoin, CancelJoinIf, Find
  <2> QED
    BY <2>1, <2>2, TimeQuiet DEF TimeInv, Grid
<1>2. CASE ShortCircuitTask(c)
  <2>1. "short" \in Calls
    BY <1>2 DEF ShortCircuitTask, TimeInv, Clocks
  <2>2. Clocks'
    BY <1>2 DEF ShortCircuitTask, ShortCircuit, CallerGoes, TimeInv, Clocks, ClientPC, Calls
  <2> QED
    BY <1>2, <2>1, <2>2, TimeShort DEF ShortCircuitTask, OnlyCancelled
<1>3. CASE ChangeTask(c)
  <2>1. "change" \in Calls
    BY <1>3 DEF ChangeTask, TimeInv, Clocks
  <2>2. PICK d \in NewDelay, soon \in BOOLEAN : Change(d, soon)
    BY <1>3 DEF ChangeTask
  <2>3. Clocks'
    BY <1>3, <2>2, LongestIsLongest, SMT DEF ChangeTask, Change, CallerGoes, TimeInv, Clocks, ClientPC, Calls
  <2> QED
    BY <2>1, <2>2, <2>3, TimeChange DEF OnlyCancelled, DelayKept
<1> QED
  BY <1>1, <1>2, <1>3

\* The calls of the task function.
LEMMA TimeOwnCall == TimeInv /\ OwnCall => TimeInv'
<1> SUFFICES ASSUME TimeInv, OwnCall PROVE TimeInv'
  OBVIOUS
<1>1. CASE /\ state' = "CANCELED"
           /\ UNCHANGED <<use, delay, left, thread, entry, since, phase, doing>>
  <2>1. Clocks'
    BY <1>1 DEF TimeInv, Clocks, Calls
  <2> QED
    BY <1>1, <2>1, TimeQuiet DEF TimeInv, Grid
<1>2. CASE "short" \in OwnCalls /\ ShortCircuit /\ UNCHANGED doing
  <2>1. Clocks'
    BY <1>2 DEF ShortCircuit, TimeInv, Clocks, Calls
  <2> QED
    BY <1>2, <2>1, TimeShort DEF OnlyCancelled
<1>3. ASSUME "change" \in OwnCalls, UNCHANGED doing,
             NEW d \in NewDelay, NEW soon \in BOOLEAN, Change(d, soon)
      PROVE  TimeInv'
  <2>1. Clocks'
    BY <1>3, LongestIsLongest, SMT DEF Change, TimeInv, Clocks, Calls
  <2> QED
    BY <1>3, <2>1, TimeChange DEF OnlyCancelled, DelayKept
<1> QED
  BY <1>1, <1>2, <1>3 DEF OwnCall

\* The thread decides how long to pause.
LEMMA TimeAfter == TimeInv /\ After => TimeInv'
<1> SUFFICES ASSUME TimeInv, After PROVE TimeInv'
  OBVIOUS
<1> DEFINE d == IF Type = "backoff" THEN calcBackOffDelayAmount(delay) ELSE delay
           pauses == state \notin {"CANCELED", "SHORT_CIRCUIT"}
<1>1. /\ delay' = d /\ left' = NextTarget(d)
      /\ state' = IF pauses THEN "WAITING" ELSE state
      /\ thread' = IF pauses /\ left' \geq 0 THEN "wait" ELSE "loop"
      /\ UNCHANGED <<use, entry, doing, since, phase>>
  BY DEF After, AfterPausing
<1>2. d \in 0..Longest
  BY BackOffBounded DEF TimeInv, Clocks
<1>3. Longest \in Nat /\ left \in Int /\ since \in Nat
  BY LongestIsLongest, SMT DEF TimeInv, Clocks
<1>4. Clocks'
  <2>1. left' \in Int
    BY <1>1, <1>2, <1>3, SMT DEF NextTarget
  <2> QED
    BY <1>1, <1>2, <2>1 DEF TimeInv, Clocks, Calls
<1>5. Grid'
  <2> SUFFICES ASSUME OnlyCancelled'
               PROVE  /\ delay' = Delay
                      /\ state' # "SHORT_CIRCUIT" /\ entry' # "SHORT_CIRCUIT"
                      /\ (phase' + left') % Delay = 0
    BY DEF Grid
  <2>1. OnlyCancelled
    BY <1>1 DEF OnlyCancelled, Type, Calls, OwnCalls
  <2>2. /\ delay = Delay /\ state # "SHORT_CIRCUIT" /\ entry # "SHORT_CIRCUIT"
        /\ (phase + left) % Delay = 0
    BY <2>1 DEF TimeInv, Grid
  <2>3. d = Delay /\ left' = left + Delay
    BY <1>1, <2>1, <2>2 DEF OnlyCancelled, NextTarget
  <2>4. /\ phase + left \in Int /\ Delay \in Nat \ {0}
        /\ phase' + left' = (phase + left) + Delay
    BY <1>1, <1>3, <2>3, DelayAssumption, SMT DEF TimeInv, Clocks
  <2>5. ((phase + left) + Delay) % Delay = 0
    BY <2>2, <2>4, ModShift
  <2> QED
    BY <1>1, <2>2, <2>3, <2>4, <2>5
<1>6. Pace'
  <2> SUFFICES ASSUME Paced' PROVE  left' = d /\ (thread' = "loop" => state' # "WAITING")
    BY <1>1, <1>2, <1>3, SMT DEF Pace
  <2>1. left' = d
    BY <1>1 DEF Paced, Type, NextTarget
  <2> QED
    BY <1>1, <1>2, <2>1, SMT
<1> QED
  BY <1>4, <1>5, <1>6 DEF TimeInv

\* The other steps of the thread.
LEMMA TimeThread ==
    ASSUME TimeInv,
           Loop \/ Success \/ Complete \/ Remove \/ \E b \in BOOLEAN : Returns(b)
    PROVE  TimeInv'
<1>1. CASE Loop \/ Success \/ Complete \/ Remove
  <2>1. UNCHANGED <<use, delay, left, since, phase, doing>>
    BY <1>1 DEF Loop, Success, Complete, Remove
  <2>2. Clocks'
    BY <2>1 DEF TimeInv, Clocks, Calls
  <2>3. /\ OnlyCancelled => state' # "SHORT_CIRCUIT" /\ entry' # "SHORT_CIRCUIT"
        /\ thread' # "wait" /\ thread' # "loop"
    BY <1>1 DEF Loop, Success, Complete, Remove, TimeInv, Grid
  <2> QED
    BY <2>1, <2>2, <2>3, TimeQuiet
<1>2. ASSUME NEW b \in BOOLEAN, Returns(b) PROVE TimeInv'
  <2>1. Clocks'
    BY <1>2, LongestIsLongest, SMT DEF Returns, TimeInv, Clocks, Calls
  <2>2. Grid'
    BY <1>2 DEF Returns, TimeInv, Grid, OnlyCancelled, Type, Calls, OwnCalls
  <2>3. Pace'
    BY <1>2 DEF Returns, TimeInv, Pace, Paced, DelayKept, Type, Calls, OwnCalls
  <2> QED
    BY <2>1, <2>2, <2>3 DEF TimeInv
<1> QED
  BY <1>1, <1>2

\* The pause ends, or goes on.
LEMMA TimeWake == TimeInv /\ Wake => TimeInv'
<1> SUFFICES ASSUME TimeInv, Wake PROVE TimeInv'
  OBVIOUS
<1>1. /\ UNCHANGED <<use, state, delay, left, entry, since, phase, doing>>
      /\ thread = "wait"
      /\ thread' = "loop" => state = "SHORT_CIRCUIT" \/ ~(left \geq 0)
  BY DEF Wake, WakeUnless
<1>2. Clocks'
  BY <1>1 DEF TimeInv, Clocks, Calls
<1>3. Grid'
  BY <1>1 DEF TimeInv, Grid, OnlyCancelled, Type, Calls, OwnCalls
<1>4. Pace'
  <2> SUFFICES ASSUME Paced'
               PROVE  /\ left' \geq -1
                      /\ thread' = "wait" => since' + left' \geq delay' \/ since' > Longest
                      /\ thread' = "loop" /\ state' = "WAITING" => since' > delay'
    BY DEF Pace
  <2>1. left \geq -1 /\ (since + left \geq delay \/ since > Longest)
    BY <1>1 DEF TimeInv, Pace, Paced, DelayKept, Type, Calls, OwnCalls
  <2>2. left < 0 => since > delay
    BY <2>1, LongestIsLongest, SMT DEF TimeInv, Clocks
  <2> QED
    BY <1>1, <2>1, <2>2, SMT DEF TimeInv, Clocks
<1> QED
  BY <1>2, <1>3, <1>4 DEF TimeInv

\* A unit of time passes.
LEMMA TimeTick == TimeInv /\ Tick => TimeInv'
<1> SUFFICES ASSUME TimeInv, Tick PROVE TimeInv'
  OBVIOUS
<1>1. /\ UNCHANGED <<use, state, delay, thread, entry, doing>>
      /\ left' = IF Type # "fixed" /\ left < 0 THEN left ELSE left - 1
      /\ since' = IF thread \in {"loop", "after", "wait"} /\ since \leq Longest THEN since + 1 ELSE since
      /\ phase' = (phase + 1) % Delay
  BY DEF Tick
<1>2. /\ Longest \in Nat /\ Delay \in Nat \ {0} /\ left \in Int /\ since \in 0..(Longest + 1)
      /\ phase \in 0..(Delay - 1) /\ delay \in 0..Longest
  BY LongestIsLongest, DelayAssumption DEF TimeInv, Clocks
<1>3. (phase + 1) % Delay \in 0..(Delay - 1)
  BY <1>2, ModForm, SMT
<1>4. Clocks'
  <2>1. left' \in Int /\ since' \in 0..(Longest + 1)
    BY <1>1, <1>2, SMT
  <2> QED
    BY <1>1, <1>3, <2>1 DEF TimeInv, Clocks, Calls
<1>5. Grid'
  <2> SUFFICES ASSUME OnlyCancelled'
               PROVE  /\ delay' = Delay
                      /\ state' # "SHORT_CIRCUIT" /\ entry' # "SHORT_CIRCUIT"
                      /\ (phase' + left') % Delay = 0
    BY DEF Grid
  <2>1. OnlyCancelled
    BY <1>1 DEF OnlyCancelled, Type, Calls, OwnCalls
  <2>2. /\ delay = Delay /\ state # "SHORT_CIRCUIT" /\ entry # "SHORT_CIRCUIT"
        /\ (phase + left) % Delay = 0
    BY <2>1 DEF TimeInv, Grid
  <2>3. left' = left - 1
    BY <1>1, <2>1 DEF OnlyCancelled
  <2>4. (((phase + 1) % Delay) + (left - 1)) % Delay = 0
    BY <1>2, <2>2, ModStep
  <2> QED
    BY <1>1, <2>2, <2>3, <2>4
<1>6. Pace'
  <2> SUFFICES ASSUME Paced'
               PROVE  /\ left' \geq -1
                      /\ thread' = "wait" => since' + left' \geq delay' \/ since' > Longest
                      /\ thread' = "loop" /\ state' = "WAITING" => since' > delay'
    BY DEF Pace
  <2>1. Type # "fixed"
    BY <1>1 DEF Paced, Type
  <2>2. /\ left \geq -1
        /\ thread = "wait" => since + left \geq delay \/ since > Longest
        /\ thread = "loop" /\ state = "WAITING" => since > delay
    BY <1>1 DEF TimeInv, Pace, Paced, DelayKept, Type, Calls, OwnCalls
  <2> QED
    BY <1>1, <1>2, <2>1, <2>2, SMT
<1> QED
  BY <1>4, <1>5, <1>6 DEF TimeInv

\* Every step preserves the invariant.
LEMMA TimeNext == TimeInv /\ [RTNext]_rtvars => TimeInv'
<1> SUFFICES ASSUME TimeInv, [RTNext]_rtvars PROVE TimeInv'
  OBVIOUS
<1>1. CASE UNCHANGED rtvars
  <2>1. Clocks'
    BY <1>1 DEF rtvars, TimeInv, Clocks, Calls
  <2> QED
    BY <1>1, <2>1, TimeQuiet DEF rtvars, TimeInv, Grid
<1> QED
  BY <1>1, TimeCalls, TimeOwnCall, TimeAfter, TimeThread, TimeWake, TimeTick DEF RTNext, RTThreadStep

\* A fixed rate task that is only ever cancelled keeps its targets at multiples of the delay
\* after its creation, however late its runs are (OnTheGrid).
THEOREM TargetsOnTheGrid == RTSpec => []OnTheGrid
<1>1. TimeInv => OnTheGrid
  BY DEF TimeInv, Grid, OnlyCancelled, OnTheGrid
<1> QED
  BY <1>1, TimeInit, TimeNext, PTL DEF RTSpec

\* What a step may do that calls the task function after a pause.
WholePause ==
    (Type # "fixed" /\ DelayKept /\ thread = "loop" /\ thread' = "running" /\ state = "WAITING")
       => since > delay

\* Between two runs of runRepeatTaskThread lies the whole delay, whatever wakes the thread in
\* its timed wait, unless the pause is short circuited (PauseKept).
THEOREM PausesAreWhole == RTSpec => PauseKept
<1>1. TimeInv => WholePause
  BY DEF TimeInv, Pace, Paced, WholePause
<1>2. PauseKept <=> [][WholePause]_rtvars
  BY DEF PauseKept, WholePause
<1> QED
  BY <1>1, <1>2, TimeInit, TimeNext, PTL DEF RTSpec

=============================================================================
