---------------------------- MODULE ProcMgrProofs ----------------------------
(***************************************************************************)
(* Proofs about ProcMgr, for any list of services, any policies, any       *)
(* number of IPC threads and any requests.                                 *)
(***************************************************************************)
EXTENDS ProcMgr, TLAPS

USE Zenon

(***************************************************************************)
(* Processes and who may touch them.  A child that exists is on the books  *)
(* as the pid of its service; the child Main handles is gone; a thread in  *)
(* the stop loop that is not waiting has SERVICE_MTX, so the pid it looked *)
(* up is still the one of its victim.                                      *)
(***************************************************************************)
Types ==
    /\ pid \in [Service -> 0..MaxRuns] /\ runs \in [Service -> 0..MaxRuns]
    /\ ps \in [Child -> {"none", "up", "zombie", "gone"}]
Unborn == \A c \in Child : c[2] > runs[c[1]] => ps[c] = "none"
Booked == \A c \in Child : Alive(c) => pid[c[1]] = c[2]
DeadIsGone == main = "handle" => dead \in Child /\ ps[dead] = "gone"
Where ==
    /\ at \in [Thread -> Phase] /\ pos \in [Thread -> Nat \ {0}]
    /\ victim \in [Thread -> Child \union {NoChild}]
Owns == \A t \in Thread : at[t] \in {"next", "nice", "signal", "kill"} => lock = t
Aims == \A t \in Thread :
    /\ at[t] \in {"nice", "signal", "kill", "wait1", "wait2"} => victim[t] \in Child
    /\ at[t] \in {"nice", "signal", "kill"} => pid[victim[t][1]] = victim[t][2]

ProcInv == Types /\ Unborn /\ Booked /\ DeadIsGone
StopInv == Where /\ Owns /\ Aims

\* What startProcess does to the pids and the children of the services in E,
\* none of which has a child left: the books stay right.
LEMMA StartKeepsBooks ==
  ASSUME Types, Unborn, NEW E, NEW oldpid \in [Service -> 0..MaxRuns],
         \A c \in Child : Alive(c) => oldpid[c[1]] = c[2],
         \A s \in Service : s \in E => oldpid[s] = 0,
         StartEach(E, oldpid)
  PROVE  /\ pid' \in [Service -> 0..MaxRuns] /\ runs' \in [Service -> 0..MaxRuns]
         /\ ps' \in [Child -> {"none", "up", "zombie", "gone"}]
         /\ Unborn' /\ Booked'
         /\ \A c \in Child : ps[c] = "gone" => ps'[c] = "gone"
<1>1. PICK L \in SUBSET {s \in E : runs[s] < MaxRuns} :
        /\ Fork(L)
        /\ pid' = [s \in Service |-> IF s \in L THEN runs[s] + 1 ELSE oldpid[s]]
  BY DEF StartEach
<1>0. MaxRuns \in Nat
  BY ProcAssumption
<1>2. \A c \in Child : c[1] \in Service /\ c[2] \in 1..MaxRuns
  BY DEF Child
<1>3. /\ pid' \in [Service -> 0..MaxRuns] /\ runs' \in [Service -> 0..MaxRuns]
      /\ ps' \in [Child -> {"none", "up", "zombie", "gone"}]
  BY <1>0, <1>1, <1>2, SMT DEF Fork, Types
<1>4. Unborn'
  BY <1>0, <1>1, <1>2, SMT DEF Fork, Types, Unborn
<1>5. Booked'
  BY <1>0, <1>1, <1>2, SMT DEF Fork, Types, Unborn, Alive, Booked
<1>6. \A c \in Child : ps[c] = "gone" => ps'[c] = "gone"
  BY <1>0, <1>1, <1>2, SMT DEF Fork, Types, Unborn
<1> QED
  BY <1>3, <1>4, <1>5, <1>6

\* executeStartOperation starts only services without a pid.
LEMMA ExecuteStartKeepsBooks ==
  ASSUME Types, Unborn, Booked, NEW S, ExecuteStart(S)
  PROVE  /\ pid' \in [Service -> 0..MaxRuns] /\ runs' \in [Service -> 0..MaxRuns]
         /\ ps' \in [Child -> {"none", "up", "zombie", "gone"}]
         /\ Unborn' /\ Booked'
         /\ \A c \in Child : ps[c] = "gone" => ps'[c] = "gone"
<1> DEFINE E == {s \in S \ Java : pid[s] = 0}
<1>1. StartEach(E, pid)
  BY DEF ExecuteStart, ExecuteStartIf
<1>2. /\ \A s \in Service : s \in E => pid[s] = 0
      /\ pid \in [Service -> 0..MaxRuns]
      /\ \A c \in Child : Alive(c) => pid[c[1]] = c[2]
  BY DEF Types, Booked
<1> HIDE DEF E
<1> QED
  BY <1>1, <1>2, StartKeepsBooks

\* A step that starts services with executeStartOperation keeps ProcInv.
LEMMA StartStep ==
  ASSUME ProcInv, NEW S, ExecuteStart(S), UNCHANGED dead,
         main' = "handle" => main = "handle"
  PROVE  ProcInv'
<1>1. /\ pid' \in [Service -> 0..MaxRuns] /\ runs' \in [Service -> 0..MaxRuns]
      /\ ps' \in [Child -> {"none", "up", "zombie", "gone"}]
      /\ Unborn' /\ Booked'
      /\ \A c \in Child : ps[c] = "gone" => ps'[c] = "gone"
  BY ExecuteStartKeepsBooks DEF ProcInv
<1>2. Types'
  BY <1>1 DEF Types
<1>3. DeadIsGone'
  BY <1>1 DEF ProcInv, DeadIsGone
<1> QED
  BY <1>1, <1>2, <1>3 DEF ProcInv

\* handleDeadChild keeps the books: the pid it clears is of a child that is gone.
LEMMA HandleStep ==
  ASSUME ProcInv, HandleDeadChild
  PROVE  ProcInv'
<1> DEFINE s == dead[1]
           cleared == Cleared(s)
<1>1. /\ dead \in Child /\ ps[dead] = "gone" /\ main' # "handle"
      /\ s \in Service /\ dead[2] \in 1..MaxRuns
  BY DEF ProcInv, DeadIsGone, HandleDeadChild, Revive, Exceeded, Child
<1>2. CASE pid[s] # dead[2]
  BY <1>1, <1>2 DEF HandleDeadChild, ProcInv, Types, Unborn, Booked, DeadIsGone, Alive
<1>3. CASE pid[s] = dead[2]
  <2>1. /\ cleared \in [Service -> 0..MaxRuns] /\ cleared[s] = 0
        /\ \A c \in Child : Alive(c) => cleared[c[1]] = c[2]
    <3>1. MaxRuns \in Nat
      BY ProcAssumption
    <3>2. cleared \in [Service -> 0..MaxRuns] /\ cleared[s] = 0
      BY <1>1, <3>1, SMT DEF Cleared, ProcInv, Types
    <3>3. ASSUME NEW c \in Child, Alive(c) PROVE cleared[c[1]] = c[2]
      <4>1. pid[c[1]] = c[2] /\ c[1] \in Service
        BY <3>3 DEF ProcInv, Booked, Child
      <4>2. c[1] # s
        <5>1. SUFFICES ASSUME c[1] = s PROVE FALSE
          OBVIOUS
        <5>2. c = <<c[1], c[2]>> /\ dead = <<dead[1], dead[2]>>
          BY <1>1, SMT DEF Child
        <5>3. c = dead
          BY <4>1, <1>3, <5>1, <5>2
        <5> QED
          BY <5>3, <3>3, <1>1 DEF Alive
      <4> QED
        BY <4>1, <4>2, <1>1 DEF Cleared, ProcInv, Types
    <3> QED
      BY <3>2, <3>3
  <2>2. ASSUME pid' = cleared, UNCHANGED <<runs, ps>> PROVE ProcInv'
    BY <2>1, <2>2, <1>1 DEF ProcInv, Types, Unborn, Booked, DeadIsGone, Alive
  <2>3. ASSUME StartEach({s}, cleared) PROVE ProcInv'
    <3>1. \A x \in Service : x \in {s} => cleared[x] = 0
      BY <2>1
    <3>2. /\ pid' \in [Service -> 0..MaxRuns] /\ runs' \in [Service -> 0..MaxRuns]
          /\ ps' \in [Child -> {"none", "up", "zombie", "gone"}]
          /\ Unborn' /\ Booked'
      <4> HIDE DEF cleared, s
      <4> QED
        BY <2>1, <2>3, <3>1, StartKeepsBooks DEF ProcInv
    <3> QED
      BY <3>2, <1>1 DEF ProcInv, Types, DeadIsGone
  <2>4. \/ pid' = cleared /\ UNCHANGED <<runs, ps>>
        \/ StartEach({s}, cleared)
    BY <1>3 DEF HandleDeadChild, Revive, Exceeded
  <2> QED
    BY <2>2, <2>3, <2>4
<1> QED
  BY <1>2, <1>3

\* Every step keeps ProcInv.
LEMMA ProcStep == ProcInv /\ [Next]_vars => ProcInv'
<1> SUFFICES ASSUME ProcInv, [Next]_vars PROVE ProcInv'
  OBVIOUS
<1> DEFINE Same == UNCHANGED <<pid, runs, ps, main, dead>>
<1>0. ASSUME Same PROVE ProcInv'
  BY <1>0 DEF ProcInv, Types, Unborn, Booked, DeadIsGone, Alive
<1>1. CASE Boot
  BY <1>1, StartStep DEF Boot, BeginStartup
<1>2. CASE HandleDeadChild
  BY <1>2, HandleStep
<1>3. ASSUME NEW c \in Child, Die(c) \/ Reap(c) PROVE ProcInv'
  <2>1. /\ UNCHANGED <<pid, runs>>
        /\ \/ ps[c] = "up" /\ ps' = [ps EXCEPT ![c] = "zombie"] /\ UNCHANGED <<main, dead>>
           \/ /\ ps[c] = "zombie" /\ ps' = [ps EXCEPT ![c] = "gone"]
              /\ dead' = c
    BY <1>3 DEF Die, Reap
  <2>2. Types' /\ Unborn' /\ Booked'
    BY <2>1 DEF ProcInv, Types, Unborn, Booked, Alive
  <2>3. DeadIsGone'
    BY <2>1 DEF ProcInv, Types, DeadIsGone
  <2> QED
    BY <2>2, <2>3 DEF ProcInv
<1>4. ASSUME NEW t \in Admin, NEW r \in Ops,
             StartOp(t, r) \/ StartAllOp(t, r) \/ StopOp(t, r)
      PROVE  ProcInv'
  <2>1. CASE StartOp(t, r)
    BY <2>1, StartStep DEF StartOp
  <2>2. CASE StartAllOp(t, r)
    BY <2>2, StartStep DEF StartAllOp, BeginStartup
  <2>3. CASE StopOp(t, r)
    BY <2>3, <1>0 DEF StopOp, StopOpWith
  <2> QED
    BY <1>4, <2>1, <2>2, <2>3
<1>5. ASSUME NEW t \in Thread, JobStep(t) PROVE ProcInv'
  <2>1. CASE EndStartup(t)
    <3>1. ExecuteStart(job[t].bring) /\ UNCHANGED dead /\ (main' = "handle" => main = "handle")
      BY <2>1 DEF EndStartup
    <3> QED
      BY <3>1, StartStep
  <2>2. CASE NextService(t)
    BY <2>2, <1>0 DEF NextService
  <2>3. CASE Nice(t) \/ Waited(t) \/ Signal(t) \/ Kill(t)
    BY <2>3, <1>0 DEF Nice, Waited, WaitedIf, Signal, Kill, KillWith, defs
  <2>4. CASE FinishStop(t)
    <3>1. UNCHANGED <<main, dead>>
      BY <2>4 DEF FinishStop
    <3>2. CASE EndStop(t)
      BY <3>1, <3>2, <1>0 DEF EndStop, defs
    <3>3. CASE EndRestart(t)
      BY <3>1, <3>3, StartStep DEF EndRestart
    <3>4. CASE EndRestartAll(t)
      BY <3>1, <3>4, StartStep DEF EndRestartAll, BeginStartup
    <3> QED
      BY <2>4, <3>2, <3>3, <3>4 DEF FinishStop
  <2> QED
    BY <1>5, <2>1, <2>2, <2>3, <2>4 DEF JobStep
<1>6. ASSUME NEW r \in Ops, StopMonitoring(r) \/ AskTimer(r) PROVE ProcInv'
  BY <1>6, <1>0 DEF StopMonitoring, AskTimer, defs
<1>7. ASSUME NEW s \in Service, NEW k \in 0..MaxRuns,
             SendAck(s, k) \/ AcknowledgeServiceStarted(s, k)
      PROVE  ProcInv'
  BY <1>7, <1>0 DEF SendAck, AcknowledgeServiceStarted, AcknowledgeWith, defs
<1>8. CASE ResetBadService \/ TimerFires \/ TimerGivesUp \/ AskCount \/ Answered
  BY <1>8, <1>0 DEF ResetBadService, TimerFires, TimerGivesUp, TimerGivesUpWith,
                    AskCount, Answered, defs
<1>9. CASE UNCHANGED vars
  BY <1>9, <1>0 DEF vars, defs
<1> QED
  BY <1>1, <1>2, <1>3, <1>4, <1>5, <1>6, <1>7, <1>8, <1>9 DEF Next

\* A service never has two processes, whatever operations, crashes, failing
\* forks and restarts by the death handler interleave (OneProcess).
THEOREM OneProcessAtATime == Spec => []OneProcess
<1>1. Init => ProcInv
  <2>1. MaxRuns \in Nat
    BY ProcAssumption
  <2> QED
    BY <2>1, SMT DEF Init, ProcInv, Types, Unborn, Booked, DeadIsGone, Alive
<1>2. ProcInv => OneProcess
  BY DEF ProcInv, Booked, Alive, OneProcess
<1> QED
  BY <1>1, <1>2, ProcStep, PTL DEF Spec

\* A step by which thread t leaves its operation, or the mutex, keeps StopInv.
LEMMA LeaveStep ==
  ASSUME StopInv, NEW t \in Thread, lock \in {t, Nobody},
         at' = [at EXCEPT ![t] = "single"] \/ at' = [at EXCEPT ![t] = "idle"],
         pos' = [pos EXCEPT ![t] = 1], UNCHANGED victim
  PROVE  StopInv'
<1>1. Nobody \notin Thread
  BY ProcAssumption
<1>2. Where'
  BY SMT DEF StopInv, Where, Phase
<1>3. \A x \in Thread : x # t =>
        at'[x] = at[x] /\ at[x] \notin {"next", "nice", "signal", "kill"}
  BY <1>1 DEF StopInv, Where, Owns
<1>4. at'[t] \in {"single", "idle"}
  BY DEF StopInv, Where
<1>5. Owns' /\ Aims'
  BY <1>3, <1>4 DEF StopInv, Owns, Aims
<1> QED
  BY <1>2, <1>5 DEF StopInv

\* A step that needs SERVICE_MTX free, and leaves the threads where they are,
\* keeps StopInv, whatever it does to the pids.
LEMMA FreeStep ==
  ASSUME StopInv, lock = Nobody, UNCHANGED <<lock, at, pos, victim>>
  PROVE  StopInv'
<1>1. Nobody \notin Thread
  BY ProcAssumption
<1>2. \A x \in Thread : at[x] \notin {"next", "nice", "signal", "kill"}
  BY <1>1 DEF StopInv, Owns
<1> QED
  BY <1>2 DEF StopInv, Where, Owns, Aims

\* Every step keeps StopInv, when a wait for a death that ended in time is
\* the only kind there is.
LEMMA StopStep == ~Late /\ ProcInv /\ StopInv /\ [Next]_vars => StopInv'
<1> SUFFICES ASSUME ~Late, ProcInv, StopInv, [Next]_vars PROVE StopInv'
  OBVIOUS
<1>n. Nobody \notin Thread /\ Main \in Thread /\ Admin \subseteq Thread
  BY ProcAssumption DEF Thread
<1>0. ASSUME UNCHANGED <<lock, pid, at, pos, victim>> PROVE StopInv'
  BY <1>0 DEF StopInv, Where, Owns, Aims
<1>1. CASE Boot
  BY <1>1, <1>n, LeaveStep DEF Boot, BeginStartup
<1>2. CASE HandleDeadChild
  BY <1>2, FreeStep DEF HandleDeadChild, ops
<1>3. ASSUME NEW c \in Child, Die(c) \/ Reap(c) PROVE StopInv'
  BY <1>3, <1>0 DEF Die, Reap, ops
<1>4. ASSUME NEW t \in Admin, NEW r \in Ops,
             StartOp(t, r) \/ StartAllOp(t, r) \/ StopOp(t, r)
      PROVE  StopInv'
  <2>1. CASE StartOp(t, r)
    BY <2>1, FreeStep DEF StartOp, ops
  <2>2. CASE StartAllOp(t, r)
    BY <2>2, <1>n, LeaveStep DEF StartAllOp, BeginStartup
  <2>3. CASE StopOp(t, r)
    <3>1. /\ lock = Nobody /\ lock' = t /\ at' = [at EXCEPT ![t] = "next"]
          /\ UNCHANGED <<pos, victim, pid>>
      BY <2>3 DEF StopOp, StopOpWith
    <3>2. \A x \in Thread : at[x] \notin {"next", "nice", "signal", "kill"}
      BY <1>n, <3>1 DEF StopInv, Owns
    <3> QED
      BY <1>n, <3>1, <3>2 DEF StopInv, Where, Owns, Aims, Phase
  <2> QED
    BY <1>4, <2>1, <2>2, <2>3
<1>5. ASSUME NEW t \in Thread, JobStep(t) PROVE StopInv'
  <2> DEFINE Moves(ph) == /\ at' = [at EXCEPT ![t] = ph]
                          /\ victim' = [victim EXCEPT ![t] = IF ph = "next" THEN NoChild ELSE @]
                          /\ UNCHANGED <<pos, pid>>
  <2>m. ASSUME NEW ph \in {"wait1", "wait2", "next", "signal"}, Moves(ph), lock = t,
               lock' = IF ph \in {"wait1", "wait2"} THEN Nobody ELSE t,
               at[t] \in {"nice", "signal", "kill"}
        PROVE  StopInv'
    <3>1. \A x \in Thread : x # t => at[x] \notin {"next", "nice", "signal", "kill"}
      BY <2>m DEF StopInv, Owns
    <3>2. Where'
      BY <2>m DEF StopInv, Where, Phase
    <3>3. Owns'
      BY <2>m, <3>1 DEF StopInv, Where, Owns
    <3>4. Aims'
      BY <2>m, <3>1 DEF StopInv, Where, Aims
    <3> QED
      BY <3>2, <3>3, <3>4 DEF StopInv
  <2>1. CASE EndStartup(t)
    <3>1. /\ at' = [at EXCEPT ![t] = "idle"] /\ pos' = [pos EXCEPT ![t] = 1]
          /\ UNCHANGED victim /\ lock = Nobody
      BY <2>1 DEF EndStartup, Return
    <3> QED
      BY <3>1, LeaveStep
  <2>2. CASE NextService(t)
    <3> DEFINE s == Order[pos[t]]
    <3>1. /\ lock = t /\ at[t] = "next" /\ pos[t] <= Len(Order) /\ UNCHANGED <<lock, pid>>
          /\ pos' = [pos EXCEPT ![t] = @ + 1]
          /\ \/ UNCHANGED <<at, victim>>
             \/ /\ pid[s] # 0 /\ victim' = [victim EXCEPT ![t] = <<s, pid[s]>>]
                /\ at' = [at EXCEPT ![t] = "nice"] \/ at' = [at EXCEPT ![t] = "signal"]
      BY <2>2 DEF NextService
    <3>2. pid[s] # 0 => <<s, pid[s]>> \in Child
      <4>1. Order \in Seq(Service) /\ MaxRuns \in Nat
        BY ProcAssumption
      <4>2. pos[t] \in 1..Len(Order)
        BY <3>1, <4>1, SMT DEF StopInv, Where
      <4>3. s \in Service
        BY <4>1, <4>2, SMT
      <4> QED
        BY <4>1, <4>3, SMT DEF ProcInv, Types, Child
    <3>3. \A x \in Thread : x # t => at[x] \notin {"next", "nice", "signal", "kill"}
      BY <3>1 DEF StopInv, Owns
    <3>4. Where'
      <4>1. pos' \in [Thread -> Nat \ {0}]
        BY <3>1, SMT DEF StopInv, Where
      <4>2. at' \in [Thread -> Phase] /\ victim' \in [Thread -> Child \union {NoChild}]
        BY <3>1, <3>2 DEF StopInv, Where, Phase
      <4> QED
        BY <4>1, <4>2 DEF Where
    <3>5. Owns'
      BY <3>1, <3>3 DEF StopInv, Where, Owns
    <3>6. Aims'
      <4>1. CASE UNCHANGED <<at, victim>>
        BY <3>1, <4>1 DEF StopInv, Aims
      <4>2. CASE pid[s] # 0 /\ victim' = [victim EXCEPT ![t] = <<s, pid[s]>>]
        <5>1. victim'[t] \in Child /\ pid'[victim'[t][1]] = victim'[t][2]
          <6>1. victim'[t] = <<s, pid[s]>>
            BY <4>2 DEF StopInv, Where
          <6> QED
            BY <6>1, <3>1, <3>2, <4>2, SMT
        <5>2. ASSUME NEW x \in Thread, x # t
              PROVE  /\ victim'[x] = victim[x] /\ at'[x] = at[x]
                     /\ at[x] \notin {"nice", "signal", "kill"}
          BY <5>2, <3>1, <3>3, <4>2 DEF StopInv, Where
        <5> QED
          BY <5>1, <5>2 DEF StopInv, Aims
      <4> QED
        BY <3>1, <4>1, <4>2
    <3> QED
      BY <3>4, <3>5, <3>6 DEF StopInv
  <2>3. CASE Nice(t)
    <3>1. \E ph \in {"wait1", "next", "signal"} :
             Moves(ph) /\ lock' = IF ph \in {"wait1", "wait2"} THEN Nobody ELSE t
      BY <2>3 DEF Nice, EnterWait, Goto, defs
    <3> QED
      BY <2>3, <3>1, <2>m DEF Nice
  <2>4. CASE Signal(t)
    <3>1. \E ph \in {"wait2", "next"} :
             Moves(ph) /\ lock' = IF ph \in {"wait1", "wait2"} THEN Nobody ELSE t
      BY <2>4 DEF Signal, EnterWait, Goto, defs
    <3> QED
      BY <2>4, <3>1, <2>m DEF Signal
  <2>5. CASE Kill(t)
    <3>1. Moves("next") /\ lock' = t /\ lock = t /\ at[t] = "kill"
      BY <2>5 DEF Kill, KillWith, Goto, defs
    <3> QED
      BY <3>1, <2>m
  <2>6. CASE Waited(t)
    <3>1. /\ lock = Nobody /\ lock' = t /\ at[t] \in {"wait1", "wait2"}
          /\ \E ph \in {"next", "signal", "kill"} :
                Moves(ph) /\ (ph # "next" => Alive(victim[t]))
      BY <2>6 DEF Waited, WaitedIf, Goto, defs
    <3>2. PICK ph \in {"next", "signal", "kill"} :
             Moves(ph) /\ (ph # "next" => Alive(victim[t]))
      BY <3>1
    <3>3. \A x \in Thread : at[x] \notin {"next", "nice", "signal", "kill"}
      BY <1>n, <3>1 DEF StopInv, Owns
    <3>4. victim[t] \in Child /\ (ph # "next" => pid[victim[t][1]] = victim[t][2])
      BY <3>1, <3>2 DEF StopInv, Aims, ProcInv, Booked
    <3>5. Where'
      BY <3>2 DEF StopInv, Where, Phase
    <3>6. Owns'
      BY <3>1, <3>2, <3>3 DEF StopInv, Where, Owns
    <3>7. Aims'
      BY <3>2, <3>3, <3>4 DEF StopInv, Where, Aims
    <3> QED
      BY <3>5, <3>6, <3>7 DEF StopInv
  <2>7. CASE FinishStop(t)
    <3>1. /\ at' = [at EXCEPT ![t] = "single"] \/ at' = [at EXCEPT ![t] = "idle"]
          /\ pos' = [pos EXCEPT ![t] = 1] /\ UNCHANGED victim /\ lock = t
      BY <2>7 DEF FinishStop, EndStop, EndRestart, EndRestartAll, BeginStartup, Return
    <3> QED
      BY <3>1, LeaveStep
  <2> QED
    BY <1>5, <2>1, <2>2, <2>3, <2>4, <2>5, <2>6, <2>7 DEF JobStep
<1>6. ASSUME NEW r \in Ops, StopMonitoring(r) \/ AskTimer(r) PROVE StopInv'
  BY <1>6, <1>0 DEF StopMonitoring, AskTimer, defs, ops
<1>7. ASSUME NEW s \in Service, NEW k \in 0..MaxRuns,
             SendAck(s, k) \/ AcknowledgeServiceStarted(s, k)
      PROVE  StopInv'
  BY <1>7, <1>0 DEF SendAck, AcknowledgeServiceStarted, AcknowledgeWith, defs, ops
<1>8. CASE ResetBadService \/ TimerFires \/ TimerGivesUp \/ AskCount \/ Answered
  BY <1>8, <1>0 DEF ResetBadService, TimerFires, TimerGivesUp, TimerGivesUpWith,
                    AskCount, Answered, defs, ops
<1>9. CASE UNCHANGED vars
  BY <1>9, <1>0 DEF vars, defs, ops
<1> QED
  BY <1>1, <1>2, <1>3, <1>4, <1>5, <1>6, <1>7, <1>8, <1>9 DEF Next

\* Unless a process dies between the fifth and the tenth check of
\* waitForDeath, a stop operation signals only the process it was asked to
\* stop, with any number of operations at once (SignalsOld).
THEOREM SignalsOnlyTheVictim == ~Late => (Spec => []SignalsOld)
<1> SUFFICES ASSUME ~Late PROVE Spec => []SignalsOld
  OBVIOUS
<1>1. Init => ProcInv /\ StopInv
  <2>1. MaxRuns \in Nat
    BY ProcAssumption
  <2> QED
    BY <2>1, SMT DEF Init, ProcInv, Types, Unborn, Booked, DeadIsGone, Alive,
                StopInv, Where, Owns, Aims, Phase
<1>2. ProcInv /\ StopInv /\ [Next]_vars => (ProcInv /\ StopInv)'
  BY ProcStep, StopStep
<1>3. StopInv => SignalsOld
  BY DEF StopInv, Aims, SignalsOld
<1> QED
  BY <1>1, <1>2, <1>3, PTL DEF Spec

(***************************************************************************)
(* Acks and events: when no ack is missing, an event was sent.             *)
(***************************************************************************)
Fewer == /\ acked' \in [Service -> BOOLEAN]
         /\ \A s \in Service : acked'[s] => acked[s]
Event == initAll > 0 \/ initSome
Missing(ack) == \E s \in (AutoStart \union Java) \intersect ExpectAck : ~ack[s]
AckInv ==
    /\ acked \in [Service -> BOOLEAN]
    /\ initAll \in Nat /\ (finalized => initAll > 0)
    /\ ~Missing(acked) => Event
    /\ query = "yes" => Event

\* A step that sends nothing, answers nothing and adds no ack keeps AckInv.
LEMMA NoNewAck ==
  ASSUME AckInv, UNCHANGED <<finalized, initAll, initSome, query>>,
         Fewer
  PROVE  AckInv'
<1>1. (AutoStart \union Java) \intersect ExpectAck \subseteq Service
  BY ProcAssumption
<1>2. Missing(acked) => Missing(acked')
  BY <1>1 DEF Missing, Fewer
<1>3. Event' <=> Event
  BY DEF Event
<1> QED
  BY <1>2, <1>3 DEF AckInv, Fewer

\* Every step keeps AckInv.
LEMMA AckStep == AckInv /\ [Next]_vars => AckInv'
<1> SUFFICES ASSUME AckInv, [Next]_vars PROVE AckInv'
  OBVIOUS
<1>e. ASSUME NEW E, NEW oldpid, StartEach(E, oldpid)
      PROVE  Fewer
  BY <1>e DEF StartEach, Fewer, AckInv
<1>s. ASSUME NEW S, ExecuteStart(S) PROVE Fewer
  BY <1>s, <1>e DEF ExecuteStart, ExecuteStartIf
<1>u. ASSUME UNCHANGED acked PROVE Fewer
  BY <1>u DEF Fewer, AckInv
<1>q. ASSUME UNCHANGED <<acked, finalized, initAll, initSome>>,
             query' # "yes" \/ (~Missing(acked) /\ query' = "yes")
      PROVE  AckInv'
  <2>1. (Missing(acked') <=> Missing(acked)) /\ (Event' <=> Event)
    BY <1>q DEF Missing, Event
  <2> QED
    BY <1>q, <2>1 DEF AckInv
<1>1. CASE Boot
  BY <1>1, <1>s, NoNewAck DEF Boot, BeginStartup
<1>2. CASE HandleDeadChild
  <2>1. UNCHANGED <<finalized, initAll, initSome, query>>
    BY <1>2 DEF HandleDeadChild, acks
  <2>2. \/ UNCHANGED acked
        \/ \E s, oldpid : StartEach({s}, oldpid)
    BY <1>2 DEF HandleDeadChild, Exceeded, Revive
  <2> QED
    BY <2>1, <2>2, <1>e, <1>u, NoNewAck
<1>3. ASSUME NEW c \in Child, Die(c) \/ Reap(c) PROVE AckInv'
  BY <1>3, <1>u, NoNewAck DEF Die, Reap, acks
<1>4. ASSUME NEW t \in Admin, NEW r \in Ops,
             StartOp(t, r) \/ StartAllOp(t, r) \/ StopOp(t, r)
      PROVE  AckInv'
  <2>1. CASE StartOp(t, r)
    BY <2>1, <1>s, NoNewAck DEF StartOp, acks
  <2>2. CASE StartAllOp(t, r)
    BY <2>2, <1>s, NoNewAck DEF StartAllOp, BeginStartup
  <2>3. CASE StopOp(t, r)
    BY <2>3, <1>u, NoNewAck DEF StopOp, StopOpWith, acks
  <2> QED
    BY <1>4, <2>1, <2>2, <2>3
<1>5. ASSUME NEW t \in Thread, JobStep(t) PROVE AckInv'
  <2>1. CASE EndStartup(t)
    <3>1. ExecuteStart(job[t].bring) /\ UNCHANGED <<finalized, initAll, initSome, query>>
      BY <2>1 DEF EndStartup, acks
    <3> QED
      BY <3>1, <1>s, NoNewAck
  <2>2. CASE NextService(t)
    <3>1. /\ UNCHANGED <<finalized, initAll, initSome, query>>
          /\ \/ UNCHANGED acked
             \/ acked' = [acked EXCEPT ![Order[pos[t]]] = @ /\ job[t].op # "restartall"]
      BY <2>2 DEF NextService, acks
    <3>2. CASE UNCHANGED acked
      BY <3>1, <3>2, <1>u, NoNewAck
    <3>3. CASE acked' = [acked EXCEPT ![Order[pos[t]]] = @ /\ job[t].op # "restartall"]
      <4>1. Fewer
        BY <3>3 DEF Fewer, AckInv
      <4> QED
        BY <3>1, <4>1, NoNewAck
    <3> QED
      BY <3>1, <3>2, <3>3
  <2>3. CASE Nice(t) \/ Waited(t) \/ Signal(t) \/ Kill(t)
    BY <2>3, <1>u, NoNewAck
       DEF Nice, Waited, WaitedIf, Signal, Kill, KillWith, defs, acks
  <2>4. CASE FinishStop(t)
    <3>1. UNCHANGED <<finalized, initAll, initSome, query>>
      BY <2>4 DEF FinishStop
    <3>2. UNCHANGED acked \/ \E S : ExecuteStart(S)
      BY <2>4 DEF FinishStop, EndStop, EndRestart, EndRestartAll, BeginStartup, defs
    <3> QED
      BY <3>1, <3>2, <1>s, <1>u, NoNewAck
  <2> QED
    BY <1>5, <2>1, <2>2, <2>3, <2>4 DEF JobStep
<1>6. ASSUME NEW r \in Ops, StopMonitoring(r) \/ AskTimer(r) PROVE AckInv'
  <2>1. CASE StopMonitoring(r)
    BY <2>1, <1>u, NoNewAck DEF StopMonitoring, defs, acks
  <2>2. CASE AskTimer(r)
    BY <2>2, <1>q DEF AskTimer, defs
  <2> QED
    BY <1>6, <2>1, <2>2
<1>7. ASSUME NEW s \in Service, NEW k \in 0..MaxRuns, SendAck(s, k) PROVE AckInv'
  BY <1>7, <1>u, NoNewAck DEF SendAck, defs
<1>8. ASSUME NEW s \in Service, NEW k \in 0..MaxRuns, AcknowledgeServiceStarted(s, k)
      PROVE  AckInv'
  <2>1. Unacked(acked') # {} <=> Missing(acked')
    BY DEF Unacked, Missing
  <2>2. UNCHANGED query /\ acked' \in [Service -> BOOLEAN]
    BY <1>8 DEF AcknowledgeServiceStarted, AcknowledgeWith, AckInv
  <2>3. CASE Unacked(acked') # {}
    BY <1>8, <2>1, <2>2, <2>3
       DEF AcknowledgeServiceStarted, AcknowledgeWith, AckInv, Event
  <2>4. CASE Unacked(acked') = {} /\ mon
    <3>1. initAll' = IF finalized THEN initAll ELSE initAll + 1
      BY <1>8, <2>4 DEF AcknowledgeServiceStarted, AcknowledgeWith, AllAcksReceived
    <3>2. initAll' \in Nat /\ initAll' > 0
      BY <3>1, SMT DEF AckInv
    <3> QED
      BY <2>2, <3>2 DEF AckInv, Event
  <2>5. CASE Unacked(acked') = {} /\ ~mon
    BY <1>8, <2>2, <2>5
       DEF AcknowledgeServiceStarted, AcknowledgeWith, AckInv, Event
  <2> QED
    BY <2>3, <2>4, <2>5
<1>9. CASE TimerGivesUp
  BY <1>9, SMT DEF TimerGivesUp, TimerGivesUpWith, AllAcksReceived,
              defs, AckInv, Event, Missing
<1>10. CASE AskCount
  <2>1. Unacked(acked) # {} <=> Missing(acked)
    BY DEF Unacked, Missing
  <2> QED
    BY <1>10, <2>1, <1>q DEF AskCount, defs
<1>11. CASE Answered
  BY <1>11, <1>q DEF Answered, defs
<1>12. CASE ResetBadService \/ TimerFires
  BY <1>12, <1>u, NoNewAck DEF ResetBadService, TimerFires, defs, acks
<1>13. CASE UNCHANGED vars
  BY <1>13, <1>u, NoNewAck DEF vars, defs, acks
<1> QED
  BY <1>1, <1>2, <1>3, <1>4, <1>5, <1>6, <1>7, <1>8, <1>9, <1>10, <1>11, <1>12, <1>13
     DEF Next

\* When at least one service is to send an ack, areAllServicesStarted answers
\* true only after an INIT_COMPLETE event (AllStartedMeansEvent).
THEOREM StartedAfterEvent ==
  (AutoStart \union Java) \intersect ExpectAck # {} => (Spec => []AllStartedMeansEvent)
<1> SUFFICES ASSUME (AutoStart \union Java) \intersect ExpectAck # {}
             PROVE  Spec => []AllStartedMeansEvent
  OBVIOUS
<1>1. Init => AckInv
  <2>1. (AutoStart \union Java) \intersect ExpectAck \subseteq Service
    BY ProcAssumption
  <2> QED
    BY <2>1, SMT DEF Init, AckInv, Event, Missing
<1>2. AckInv => AllStartedMeansEvent
  BY DEF AckInv, Event, AllStartedMeansEvent
<1> QED
  BY <1>1, <1>2, AckStep, PTL DEF Spec

(***************************************************************************)
(* Reboots: the service under quarantine does not have the reboot action.  *)
(***************************************************************************)
QuietInv ==
    /\ onMax \in [Service -> {"reboot", "stop", "continue"}]
    /\ quiet \in Service => onMax[quiet] # "reboot"
    /\ quiet \in Service \union {NoSvc}
    /\ main = "handle" => dead \in Child
    /\ main = "reboot" => saved \in Service /\ saved # quiet

\* Every step keeps QuietInv.
LEMMA QuietStep == QuietInv /\ [Next]_vars => QuietInv'
<1> SUFFICES ASSUME QuietInv, [Next]_vars PROVE QuietInv'
  OBVIOUS
<1>n. NoSvc \notin Service
  BY ProcAssumption
<1>0. ASSUME UNCHANGED <<onMax, quiet, saved, dead>>,
             main' \in {"handle", "reboot"} => main' = main
      PROVE  QuietInv'
  BY <1>0 DEF QuietInv
<1>1. CASE Boot
  BY <1>1, <1>0 DEF Boot, policy
<1>2. CASE HandleDeadChild
  <2>1. /\ main = "handle" /\ UNCHANGED <<onMax, quiet>>
        /\ \/ main' = "wait"
           \/ main' = "reboot" /\ saved' = dead[1] /\ onMax[dead[1]] = "reboot"
    BY <1>2 DEF HandleDeadChild, Exceeded, Revive
  <2>2. dead[1] \in Service
    BY <2>1 DEF QuietInv, Child
  <2> QED
    BY <2>1, <2>2 DEF QuietInv
<1>3. ASSUME NEW c \in Child, Die(c) \/ Reap(c) PROVE QuietInv'
  BY <1>3, SMT DEF Die, Reap, policy, QuietInv
<1>4. ASSUME NEW t \in Admin, NEW r \in Ops,
             StartOp(t, r) \/ StartAllOp(t, r) \/ StopOp(t, r)
      PROVE  QuietInv'
  BY <1>4, <1>0 DEF StartOp, StartAllOp, StopOp, StopOpWith, policy
<1>5. ASSUME NEW t \in Thread, JobStep(t) PROVE QuietInv'
  <2>1. /\ UNCHANGED <<onMax, quiet, saved, dead>>
        /\ main' = main \/ main' = "wait"
    BY <1>5 DEF JobStep, EndStartup, NextService, Nice, Waited, WaitedIf, Signal,
                Kill, KillWith, FinishStop, policy
  <2> QED
    BY <2>1, <1>0
<1>6. ASSUME NEW r \in Ops, StopMonitoring(r) \/ AskTimer(r) PROVE QuietInv'
  BY <1>6, <1>0 DEF StopMonitoring, AskTimer, policy
<1>7. ASSUME NEW s \in Service, NEW k \in 0..MaxRuns,
             SendAck(s, k) \/ AcknowledgeServiceStarted(s, k)
      PROVE  QuietInv'
  BY <1>7, <1>0 DEF SendAck, AcknowledgeServiceStarted, AcknowledgeWith, policy
<1>8. CASE ResetBadService
  BY <1>8, <1>n DEF ResetBadService, QuietInv
<1>9. CASE TimerFires \/ TimerGivesUp \/ AskCount \/ Answered
  BY <1>9, <1>0 DEF TimerFires, TimerGivesUp, TimerGivesUpWith, AskCount, Answered, policy
<1>10. CASE UNCHANGED vars
  BY <1>10, <1>0 DEF vars, policy
<1> QED
  BY <1>1, <1>2, <1>3, <1>4, <1>5, <1>6, <1>7, <1>8, <1>9, <1>10 DEF Next

\* The service that made the system reboot last time does not make it reboot
\* again before resetBadServiceTask ran, for any policies (NoRebootLoop).
THEOREM RebootLoopPrevented == Spec => []NoRebootLoop
<1>1. Init => QuietInv
  BY ProcAssumption, SMT DEF Init, BootPolicy, QuietInv
<1>2. QuietInv => NoRebootLoop
  BY DEF QuietInv, NoRebootLoop
<1> QED
  BY <1>1, <1>2, QuietStep, PTL DEF Spec

(***************************************************************************)
(* The completion of the startup: only allAcksReceived touches the flag    *)
(* and the count of events.                                                *)
(***************************************************************************)
OnceInv == initAll \in {0, 1} /\ (finalized \/ initAll = 0)

\* Nothing else than allAcksReceived completes the startup.
LEMMA OnlyAllAcksReceived ==
  [Next]_vars => AllAcksReceived \/ UNCHANGED <<finalized, initAll>>
<1> SUFFICES ASSUME [Next]_vars PROVE AllAcksReceived \/ UNCHANGED <<finalized, initAll>>
  OBVIOUS
<1>1. CASE Boot \/ HandleDeadChild
  BY <1>1 DEF Boot, BeginStartup, HandleDeadChild, acks
<1>2. ASSUME NEW c \in Child, Die(c) \/ Reap(c) PROVE UNCHANGED <<finalized, initAll>>
  BY <1>2 DEF Die, Reap, acks
<1>3. ASSUME NEW t \in Admin, NEW r \in Ops,
             StartOp(t, r) \/ StartAllOp(t, r) \/ StopOp(t, r)
      PROVE  UNCHANGED <<finalized, initAll>>
  BY <1>3 DEF StartOp, StartAllOp, BeginStartup, StopOp, StopOpWith, acks
<1>4. ASSUME NEW t \in Thread, JobStep(t) PROVE UNCHANGED <<finalized, initAll>>
  <2>1. CASE EndStartup(t) \/ NextService(t) \/ FinishStop(t)
    BY <2>1 DEF EndStartup, NextService, FinishStop, acks
  <2>2. CASE Nice(t) \/ Waited(t) \/ Signal(t) \/ Kill(t)
    BY <2>2 DEF Nice, Waited, WaitedIf, Signal, Kill, KillWith, acks
  <2> QED
    BY <1>4, <2>1, <2>2 DEF JobStep
<1>5. ASSUME NEW r \in Ops, StopMonitoring(r) \/ AskTimer(r)
      PROVE  UNCHANGED <<finalized, initAll>>
  BY <1>5 DEF StopMonitoring, AskTimer, acks
<1>6. ASSUME NEW s \in Service, NEW k \in 0..MaxRuns,
             SendAck(s, k) \/ AcknowledgeServiceStarted(s, k)
      PROVE  AllAcksReceived \/ UNCHANGED <<finalized, initAll>>
  BY <1>6 DEF SendAck, AcknowledgeServiceStarted, AcknowledgeWith
<1>7. CASE TimerGivesUp
  BY <1>7 DEF TimerGivesUp, TimerGivesUpWith
<1>8. CASE AskCount \/ Answered \/ ResetBadService \/ TimerFires \/ UNCHANGED vars
  BY <1>8 DEF AskCount, Answered, ResetBadService, TimerFires, vars, acks
<1> QED
  BY <1>1, <1>2, <1>3, <1>4, <1>5, <1>6, <1>7, <1>8 DEF Next

\* The startup sequence is completed at most once, although the last ack and the
\* five minute timer both call allAcksReceived (InitCompleteOnce).
THEOREM StartupCompletedOnce == Spec => []InitCompleteOnce
<1>1. Init => OnceInv
  <2>1. Init => initAll = 0
    BY DEF Init
  <2> QED
    BY <2>1 DEF OnceInv
<1>2. OnceInv /\ [Next]_vars => OnceInv'
  <2> SUFFICES ASSUME OnceInv, AllAcksReceived \/ UNCHANGED <<finalized, initAll>>
               PROVE  OnceInv'
    BY OnlyAllAcksReceived
  <2>1. CASE AllAcksReceived
    <3>1. finalized' /\ (initAll' = initAll \/ (~finalized /\ initAll' = initAll + 1))
      BY <2>1 DEF AllAcksReceived
    <3>2. ~finalized => initAll = 0
      BY DEF OnceInv
    <3>3. initAll' \in {0, 1}
      <4>1. CASE initAll' = initAll
        BY <4>1 DEF OnceInv
      <4>2. CASE initAll = 0 /\ initAll' = initAll + 1
        BY <4>2, SMT
      <4> QED
        BY <3>1, <3>2, <4>1, <4>2
    <3> QED
      BY <3>1, <3>3 DEF OnceInv
  <2>2. CASE UNCHANGED <<finalized, initAll>>
    BY <2>2 DEF OnceInv
  <2> QED
    BY <2>1, <2>2
<1>3. OnceInv => InitCompleteOnce
  BY SMT DEF OnceInv, InitCompleteOnce
<1> QED
  BY <1>1, <1>2, <1>3, PTL DEF Spec

(***************************************************************************)
(* Stopping everything does not thrash.  What a stop or restart of all saw *)
(* running is marked as long as it is the process of its service: a new    *)
(* process of that service has another pid.                                *)
(***************************************************************************)
\* Only an operation for recovery takes the mark of a running service away.  Either nobody
\* asks for one, or there is one IPC thread, which then is not stopping everything.
MarksStay == (\A r \in Ops : r.op # "recover") \/ (\A t, u \in Admin : t = u)

Jobs ==
    /\ DOMAIN job = Thread
    /\ \A t \in Thread : job[t].op = "recover" =>
         t \in Admin /\ job[t].seen = {} /\ \E r \in Ops : r.op = "recover"
Marked ==
    /\ ignore \in [Service -> BOOLEAN]
    /\ \A s \in Service : pid[s] <= runs[s]
    /\ \A t \in Admin : \A c \in job[t].seen :
         /\ c[1] \in Service /\ c[2] \in Nat \ {0} /\ c[2] <= runs[c[1]]
         /\ pid[c[1]] = c[2] => ignore[c[1]]

CalmInv == Jobs /\ Marked

\* A process that an operation saw is still the process of its service only if it was
\* before, and then keeps its mark.
Faithful ==
    \A s \in Service : \A k \in Nat \ {0} : k <= runs[s] =>
       /\ k <= runs'[s]
       /\ pid'[s] = k => pid[s] = k /\ (ignore[s] => ignore'[s])

\* So the marks stay while no operation sees more.
LEMMA SeenStayMarked ==
  ASSUME Marked, Faithful, ignore' \in [Service -> BOOLEAN],
         \A s \in Service : pid'[s] <= runs'[s],
         \A t \in Admin : job'[t].seen \subseteq job[t].seen
  PROVE  Marked'
BY SMT DEF Marked, Faithful

\* executeStartOperation forks only services without a process.
LEMMA StartIsFaithful ==
  ASSUME Types, Marked, NEW S, ExecuteStart(S)
  PROVE  /\ Faithful /\ ignore' \in [Service -> BOOLEAN]
         /\ \A s \in Service : pid'[s] <= runs'[s]
<1> DEFINE E == {s \in S \ Java : pid[s] = 0}
<1>1. PICK L \in SUBSET {s \in E : runs[s] < MaxRuns} :
        /\ Fork(L)
        /\ pid' = [s \in Service |-> IF s \in L THEN runs[s] + 1 ELSE pid[s]]
  BY DEF ExecuteStart, ExecuteStartIf, StartEach
<1>2. ignore' = [s \in Service |-> ignore[s] /\ s \notin E]
  BY DEF ExecuteStart, ExecuteStartIf
<1>3. \A s \in Service : pid[s] \in Nat /\ runs[s] \in Nat
  BY ProcAssumption, SMT DEF Types
<1>4. \A s \in Service : runs'[s] = IF s \in L THEN runs[s] + 1 ELSE runs[s]
  BY <1>1 DEF Fork
<1>5. \A s \in Service : pid'[s] = IF s \in L THEN runs[s] + 1 ELSE pid[s]
  BY <1>1
<1>6. \A s \in Service : pid'[s] <= runs'[s]
  BY <1>3, <1>4, <1>5, SMT DEF Marked
<1>7. ignore' \in [Service -> BOOLEAN]
  BY <1>2 DEF Marked
<1>8. ASSUME NEW s \in Service, NEW k \in Nat \ {0}, k <= runs[s]
      PROVE  /\ k <= runs'[s]
             /\ pid'[s] = k => pid[s] = k /\ (ignore[s] => ignore'[s])
  <2>1. k <= runs'[s] /\ (pid'[s] = k => pid[s] = k)
    BY <1>3, <1>4, <1>5, <1>8, SMT
  <2>2. pid[s] = k => s \notin E
    BY <1>8
  <2> QED
    BY <2>1, <2>2, <1>2
<1> QED
  BY <1>6, <1>7, <1>8 DEF Faithful

\* A step that starts services, and by which thread t leaves its operation or begins the
\* startup sequence, or no thread does anything.
LEMMA CalmStart ==
  ASSUME Types, CalmInv, NEW S, ExecuteStart(S),
         \/ UNCHANGED job
         \/ \E t \in Thread : \E rec :
              job' = [job EXCEPT ![t] = rec] /\ rec.seen = {} /\ rec.op # "recover"
  PROVE  CalmInv'
<1>1. Jobs' /\ \A t \in Admin : job'[t].seen \subseteq job[t].seen
  BY DEF CalmInv, Jobs, Thread
<1>2. Marked'
  BY <1>1, StartIsFaithful, SeenStayMarked DEF CalmInv
<1> QED
  BY <1>1, <1>2 DEF CalmInv

\* A step that leaves pids and marks alone.
LEMMA CalmQuiet ==
  ASSUME Types, CalmInv, UNCHANGED <<pid, runs, ignore>>,
         \/ UNCHANGED job
         \/ \E t \in Thread : \E rec :
              job' = [job EXCEPT ![t] = rec] /\ rec.seen = {} /\ rec.op # "recover"
  PROVE  CalmInv'
<1>1. Jobs' /\ \A t \in Admin : job'[t].seen \subseteq job[t].seen
  BY DEF CalmInv, Jobs, Thread
<1>2. Marked'
  BY <1>1 DEF CalmInv, Marked
<1> QED
  BY <1>1, <1>2 DEF CalmInv

\* The record of a thread that leaves its operation, or runs the startup sequence.
LEMMA IdleRecords ==
  /\ Idle.seen = {} /\ Idle.op # "recover"
  /\ \A o, b : o # "recover" =>
       LET rec == [Idle EXCEPT !.op = o, !.bring = b] IN rec.seen = {} /\ rec.op # "recover"
BY DEF Idle

\* handleDeadChild gives a service a new pid, or none.
LEMMA HandleIsCalm ==
  ASSUME ProcInv, CalmInv, HandleDeadChild
  PROVE  CalmInv'
<1> DEFINE s == dead[1]
<1>1. s \in Service /\ UNCHANGED <<job, ignore>>
  BY DEF ProcInv, DeadIsGone, Child, HandleDeadChild, ops
<1>2. \A x \in Service : pid[x] \in Nat /\ runs[x] \in Nat
  BY ProcAssumption, SMT DEF ProcInv, Types
<1>3. \A x \in Service : \/ runs'[x] = runs[x] /\ pid'[x] \in {pid[x], 0}
                         \/ runs'[x] = runs[x] + 1 /\ pid'[x] = runs[x] + 1
  <2>1. CASE UNCHANGED <<pid, runs>>
    BY <2>1
  <2>2. CASE pid' = Cleared(s) /\ UNCHANGED runs
    BY <2>2 DEF Cleared, ProcInv, Types
  <2>3. CASE StartEach({s}, Cleared(s))
    <3>1. PICK L : /\ Fork(L)
                   /\ pid' = [x \in Service |-> IF x \in L THEN runs[x] + 1 ELSE Cleared(s)[x]]
      BY <2>3 DEF StartEach
    <3>2. \A x \in Service : Cleared(s)[x] \in {pid[x], 0}
      BY DEF Cleared, ProcInv, Types
    <3> QED
      BY <3>1, <3>2 DEF Fork
  <2> QED
    BY <2>1, <2>2, <2>3 DEF HandleDeadChild, Revive, Exceeded
<1>4. Faithful /\ \A x \in Service : pid'[x] <= runs'[x]
  BY <1>1, <1>2, <1>3, SMT DEF Faithful, CalmInv, Marked
<1>5. Marked'
  BY <1>1, <1>4, SeenStayMarked DEF CalmInv, Marked
<1> QED
  BY <1>1, <1>5 DEF CalmInv, Jobs

\* A stop or restart of all marks what it saw (ignoreAllProcDeaths).
LEMMA StopIsCalm ==
  ASSUME Types, CalmInv, NEW t \in Admin, NEW r \in Ops, StopOp(t, r)
  PROVE  CalmInv'
<1> DEFINE all == r.op \in {"stopall", "restartall"}
           new == job'[t]
<1>0. t \in Thread /\ DOMAIN job = Thread
  BY DEF Thread, CalmInv, Jobs
<1>1. /\ DOMAIN job' = Thread /\ \A u \in Thread : u # t => job'[u] = job[u]
      /\ new.op = r.op
      /\ new.seen = IF all THEN {<<s, pid[s]>> : s \in Running} ELSE {}
      /\ ignore' = [s \in Service |-> ignore[s] \/ (all /\ s \in Running)]
      /\ UNCHANGED <<pid, runs>>
  BY <1>0 DEF StopOp, StopOpWith, IgnoreAll, Idle
<1>2. Jobs'
  BY <1>0, <1>1 DEF CalmInv, Jobs
<1>3. \A s \in Service : pid[s] \in Nat /\ runs[s] \in Nat
  BY ProcAssumption, SMT DEF Types
<1>4. ignore' \in [Service -> BOOLEAN] /\ \A s \in Service : ignore[s] => ignore'[s]
  BY <1>1 DEF CalmInv, Marked
<1>5. ASSUME NEW c \in new.seen
      PROVE  /\ c[1] \in Service /\ c[2] \in Nat \ {0} /\ c[2] <= runs'[c[1]]
             /\ ignore'[c[1]]
  <2>1. all /\ \E s \in Running : c = <<s, pid[s]>>
    BY <1>1, <1>5
  <2>2. PICK s \in Running : c = <<s, pid[s]>>
    BY <2>1
  <2>3. s \in Service /\ pid[s] > 0 /\ ignore'[s]
    BY <2>1, <1>1 DEF Running
  <2> QED
    BY <2>2, <2>3, <1>1, <1>3, SMT DEF CalmInv, Marked
<1>6. ASSUME NEW u \in Admin, NEW c \in job'[u].seen
      PROVE  /\ c[1] \in Service /\ c[2] \in Nat \ {0} /\ c[2] <= runs'[c[1]]
             /\ pid'[c[1]] = c[2] => ignore'[c[1]]
  <2>1. CASE u = t
    BY <1>5, <2>1
  <2>2. CASE u # t
    BY <1>1, <1>4, <2>2 DEF CalmInv, Marked, Thread
  <2> QED
    BY <2>1, <2>2
<1>7. Marked'
  BY <1>1, <1>4, <1>6 DEF CalmInv, Marked
<1> QED
  BY <1>2, <1>7 DEF CalmInv

\* The head of the stop loop takes a mark away only for a recovery.
LEMMA VisitIsCalm ==
  ASSUME MarksStay, Types, CalmInv, NEW t \in Thread, NextService(t)
  PROVE  CalmInv'
<1>0. UNCHANGED <<job, pid, runs>>
  BY DEF NextService
<1>1. Jobs'
  BY <1>0 DEF CalmInv, Jobs
<1>2. CASE UNCHANGED ignore
  BY <1>0, <1>1, <1>2 DEF CalmInv, Marked
<1>3. ASSUME NEW s, ignore' = [ignore EXCEPT ![s] = job[t].op # "recover"]
      PROVE  CalmInv'
  <2>1. ignore' \in [Service -> BOOLEAN]
    BY <1>3 DEF CalmInv, Marked
  <2>2. CASE job[t].op # "recover"
    <3>1. \A x \in Service : ignore[x] => ignore'[x]
      BY <1>3, <2>2 DEF CalmInv, Marked
    <3> QED
      BY <1>0, <1>1, <2>1, <3>1 DEF CalmInv, Marked
  <2>3. CASE job[t].op = "recover"
    <3>1. \A u \in Admin : job[u].seen = {}
      BY <2>3 DEF CalmInv, Jobs, MarksStay
    <3> QED
      BY <1>0, <1>1, <2>1, <3>1 DEF CalmInv, Marked
  <2> QED
    BY <2>2, <2>3
<1> QED
  BY <1>2, <1>3 DEF NextService

\* Every step keeps the marks of what a stop of all services saw.
LEMMA CalmStep == MarksStay /\ ProcInv /\ CalmInv /\ [Next]_vars => CalmInv'
<1> SUFFICES ASSUME MarksStay, ProcInv, CalmInv, [Next]_vars PROVE CalmInv'
  OBVIOUS
<1>0. Types
  BY DEF ProcInv
<1>00. ASSUME UNCHANGED <<pid, runs, ignore, job>> PROVE CalmInv'
  BY <1>0, <1>00, CalmQuiet
<1>1. CASE Boot
  <2>1. /\ ExecuteStart(SinglePhase)
        /\ job' = [job EXCEPT ![Main] = [Idle EXCEPT !.op = "startall", !.bring = NonSinglePhase]]
    BY <1>1 DEF Boot, BeginStartup
  <2> QED
    BY <1>0, <2>1, IdleRecords, CalmStart DEF Thread
<1>2. CASE HandleDeadChild
  BY <1>2, HandleIsCalm
<1>3. ASSUME NEW c \in Child, Die(c) \/ Reap(c) PROVE CalmInv'
  BY <1>3, <1>00 DEF Die, Reap, ops
<1>4. ASSUME NEW t \in Admin, NEW r \in Ops,
             StartOp(t, r) \/ StartAllOp(t, r) \/ StopOp(t, r)
      PROVE  CalmInv'
  <2>1. CASE StartOp(t, r)
    BY <1>0, <2>1, CalmStart DEF StartOp, ops
  <2>2. CASE StartAllOp(t, r)
    <3>1. /\ ExecuteStart(SinglePhase)
          /\ job' = [job EXCEPT ![t] = [Idle EXCEPT !.op = "startall", !.bring = NonSinglePhase]]
      BY <2>2 DEF StartAllOp, BeginStartup
    <3> QED
      BY <1>0, <3>1, IdleRecords, CalmStart DEF Thread
  <2>3. CASE StopOp(t, r)
    BY <1>0, <2>3, StopIsCalm
  <2> QED
    BY <1>4, <2>1, <2>2, <2>3
<1>5. ASSUME NEW t \in Thread, JobStep(t) PROVE CalmInv'
  <2>1. CASE EndStartup(t)
    <3>1. ExecuteStart(job[t].bring) /\ job' = [job EXCEPT ![t] = Idle]
      BY <2>1 DEF EndStartup, Return
    <3> QED
      BY <1>0, <3>1, IdleRecords, CalmStart
  <2>2. CASE NextService(t)
    BY <1>0, <2>2, VisitIsCalm
  <2>3. CASE Nice(t) \/ Waited(t) \/ Signal(t) \/ Kill(t)
    <3>1. UNCHANGED <<pid, runs, ignore, job>>
      BY <2>3 DEF Nice, Waited, WaitedIf, Signal, Kill, KillWith, EnterWait, Goto, defs
    <3> QED
      BY <3>1, <1>00
  <2>4. CASE FinishStop(t)
    <3>1. CASE EndStop(t)
      <4>1. UNCHANGED <<pid, runs, ignore>> /\ job' = [job EXCEPT ![t] = Idle]
        BY <3>1 DEF EndStop, Return, defs
      <4> QED
        BY <1>0, <4>1, IdleRecords, CalmQuiet
    <3>2. CASE EndRestart(t)
      <4>1. ExecuteStart(job[t].bring) /\ job' = [job EXCEPT ![t] = Idle]
        BY <3>2 DEF EndRestart, Return
      <4> QED
        BY <1>0, <4>1, IdleRecords, CalmStart
    <3>3. CASE EndRestartAll(t)
      <4>1. /\ ExecuteStart(SinglePhase)
            /\ job' = [job EXCEPT ![t] =
                         [Idle EXCEPT !.op = "restartall", !.bring = job[t].bring]]
        BY <3>3 DEF EndRestartAll, BeginStartup
      <4> QED
        BY <1>0, <4>1, IdleRecords, CalmStart
    <3> QED
      BY <2>4, <3>1, <3>2, <3>3 DEF FinishStop
  <2> QED
    BY <1>5, <2>1, <2>2, <2>3, <2>4 DEF JobStep
<1>6. ASSUME NEW r \in Ops, StopMonitoring(r) \/ AskTimer(r) PROVE CalmInv'
  BY <1>6, <1>00 DEF StopMonitoring, AskTimer, defs, ops
<1>7. ASSUME NEW s \in Service, NEW k \in 0..MaxRuns,
             SendAck(s, k) \/ AcknowledgeServiceStarted(s, k)
      PROVE  CalmInv'
  BY <1>7, <1>00 DEF SendAck, AcknowledgeServiceStarted, AcknowledgeWith, defs, ops
<1>8. CASE ResetBadService \/ TimerFires \/ TimerGivesUp \/ AskCount \/ Answered
  BY <1>8, <1>00 DEF ResetBadService, TimerFires, TimerGivesUp, TimerGivesUpWith,
                    AskCount, Answered, defs, ops
<1>9. CASE UNCHANGED vars
  BY <1>9, <1>00 DEF vars, defs, ops
<1> QED
  BY <1>1, <1>2, <1>3, <1>4, <1>5, <1>6, <1>7, <1>8, <1>9 DEF Next

\* What a step may do to the death of a child that a stop of all services saw running.
Unreplaced ==
    \A t \in Admin : \A c \in job[t].seen :
       (dead = c /\ dead' # c) => (pid'[c[1]] = 0 \/ pid'[c[1]] = pid[c[1]])

\* handleDeadChild does not restart a service that is marked.
LEMMA MarkedStaysDown == ProcInv /\ CalmInv /\ HandleDeadChild => Unreplaced
<1> SUFFICES ASSUME ProcInv, CalmInv, HandleDeadChild,
                    NEW t \in Admin, NEW c \in job[t].seen, dead = c
             PROVE  pid'[c[1]] = 0 \/ pid'[c[1]] = pid[c[1]]
  BY DEF Unreplaced
<1>1. CASE pid[c[1]] # c[2]
  BY <1>1 DEF HandleDeadChild
<1>2. CASE pid[c[1]] = c[2]
  <2>1. ignore[c[1]] /\ c[1] \in Service
    BY <1>2 DEF CalmInv, Marked
  <2>2. pid' = Cleared(c[1])
    BY <1>2, <2>1 DEF HandleDeadChild
  <2> QED
    BY <2>1, <2>2 DEF Cleared, ProcInv, Types
<1> QED
  BY <1>1, <1>2

\* Only Main takes up and finishes the death of a child.
LEMMA OnlyHandlerForgets == [Next]_vars /\ dead' # dead => HandleDeadChild \/ pid' = pid
<1> SUFFICES ASSUME [Next]_vars, dead' # dead PROVE HandleDeadChild \/ pid' = pid
  OBVIOUS
<1>1. ASSUME NEW c \in Child, Die(c) \/ Reap(c) PROVE pid' = pid
  BY <1>1 DEF Die, Reap
<1>2. ASSUME NEW t \in Thread, JobStep(t) PROVE FALSE
  BY <1>2 DEF JobStep, EndStartup, NextService, Nice, Waited, WaitedIf, Signal, Kill, KillWith,
              FinishStop
<1> QED
  BY <1>1, <1>2 DEF Next, Boot, StartOp, StartAllOp, StopOp, StopOpWith, StopMonitoring,
     AskTimer, ResetBadService, SendAck, AcknowledgeServiceStarted, AcknowledgeWith,
     TimerFires, TimerGivesUp, TimerGivesUpWith, AskCount, Answered, vars

\* While a stop or restart of all services is in its loop, the death handler replaces no
\* process that it saw (ignoreAllProcDeaths), unless another thread recovers a service at the
\* same time (NoThrash).
THEOREM StopsWithoutThrashing == MarksStay => (Spec => NoThrash)
<1> SUFFICES ASSUME MarksStay PROVE Spec => NoThrash
  OBVIOUS
<1>1. Init => CalmInv
  BY SMT DEF Init, CalmInv, Jobs, Marked, Idle, Thread
<1>2. Init => ProcInv
  <2>1. MaxRuns \in Nat
    BY ProcAssumption
  <2> QED
    BY <2>1, SMT DEF Init, ProcInv, Types, Unborn, Booked, DeadIsGone, Alive
<1>3. ASSUME ProcInv, CalmInv, [Next]_vars PROVE [Unreplaced]_vars
  BY <1>3, OnlyHandlerForgets, MarkedStaysDown DEF Unreplaced
<1>4. NoThrash <=> [][Unreplaced]_vars
  BY DEF NoThrash, Unreplaced
<1>5. ProcInv /\ CalmInv /\ [Next]_vars => (ProcInv /\ CalmInv)'
  BY ProcStep, CalmStep
<1> QED
  BY <1>1, <1>2, <1>3, <1>4, <1>5, PTL DEF Spec

(***************************************************************************)
(* The conjunctions the runs check.                                        *)
(***************************************************************************)

\* currentPid stands for the one process of its service, for those who start it
\* (executeStartOperation) and for those who signal it (executeStopOperation), unless a
\* process dies between the 5th and the 10th check of waitForDeath.
THEOREM PidsTrue == ~Late => (Spec => []PidsAreTrue)
BY OneProcessAtATime, SignalsOnlyTheVictim, PTL DEF PidsAreTrue

\* What areAllServicesStarted answers and what handleDeadChild decides about a reboot are
\* right, if some service is to send an ack.
THEOREM StartupSound ==
  (AutoStart \union Java) \intersect ExpectAck # {} => (Spec => []StartupIsSound)
BY StartedAfterEvent, RebootLoopPrevented, PTL DEF StartupIsSound

==============================================================================
