------------------------------- MODULE ProcMgr -------------------------------
(***************************************************************************)
(* The process manager of the watchdog service (watchdog/core/src/         *)
(* procMgr.c): it launches the configured services, stops and restarts     *)
(* them on request, reacts to the death of a child, and runs the startup   *)
(* sequence that ends with the WATCHDOG_INIT_COMPLETE event.               *)
(*                                                                         *)
(* Threads: Main (the startup sequence, then the wait() loop), the IPC     *)
(* threads Admin that run operationOn...Processes, the timer thread of     *)
(* monitorAckTask, one thread in areAllServicesStarted.  `lock' is the     *)
(* holder of SERVICE_MTX between the steps of a thread; steps that take    *)
(* and release the mutex at once only need it free.  A child is the pair   *)
(* of a service and the number of the fork that made it, and that number   *)
(* stands for its pid.                                                     *)
(***************************************************************************)
EXTENDS Naturals, Sequences

CONSTANTS Order,        \* managerList: the services in definition order
          Java,         \* services without a binary path
          AutoStart, ExpectAck, SinglePhase, RestartOnFail, \* flags, as sets
          Spaced,       \* services with secondsBetweenRestarts > 0
          OnMax,        \* actionOnMaxRestarts: "reboot", "stop", "continue"
          MaxRestarts,  \* maxRestartsPerMinute; 0 is no limit
          Admin,        \* the IPC threads
          Ops,          \* the requests: [op, on, force], on a set of services
          MaxRuns,      \* bound: forks of one service that succeed
          Late,         \* may a child die between the 5th and the 10th check?
          Main, Nobody, NoSvc

Service == {Order[i] : i \in DOMAIN Order}
Thread == Admin \union {Main}
Child == Service \X (1..MaxRuns)
NoChild == <<NoSvc, 0>>

ASSUME ProcAssumption ==
    /\ Order \in Seq(Service) /\ MaxRuns \in Nat /\ MaxRestarts \in Nat /\ Late \in BOOLEAN
    /\ Java \union AutoStart \union ExpectAck \union SinglePhase
         \union RestartOnFail \union Spaced \subseteq Service
    /\ OnMax \in [Service -> {"reboot", "stop", "continue"}]
    /\ Main \notin Admin /\ Nobody \notin Thread /\ NoSvc \notin Service

VARIABLES lock,       \* the holder of SERVICE_MTX
          pid,        \* currentPid, 0 for none
          runs,       \* number of forks of the service so far
          ps,         \* state of each child: none, up, zombie, gone (reaped)
          doomed,     \* children that got SIGKILL
          acked,      \* lastActReceivedTime # 0
          token,      \* shutdownToken and serviceIpcPort are set
          ignore,     \* tempIgoreDeath
          monitored,  \* restartOnFail
          restarts,   \* restartsWithinPastMinute
          onMax,      \* actionOnMaxRestarts
          quiet,      \* the service resetBadServiceTask will restore
          saved,      \* the misbehaving service written to storage
          main,       \* where Main is: "boot", "wait", "handle", "reboot"
          dead,       \* the child Main has reaped and handles
          job,        \* the operation each thread executes
          at,         \* where each thread is in it
          pos,        \* where its iterator over managerList is
          victim,     \* the child it is stopping
          mon,        \* monitorAckTask # 0
          cb,         \* monitorAckDelayCallback has cleared it, not yet locked
          finalized,  \* startupSequenceFinalized
          initAll,    \* INIT_COMPLETE events "all services started" sent, to 2
          initSome,   \* INIT_COMPLETE "some services started" sent
          sent,       \* children (or java services, as 0) that sent their ack
          inflight,   \* acks not yet handled
          query       \* progress of areAllServicesStarted

defs == <<pid, runs, ps, acked, ignore>>
policy == <<token, monitored, restarts, onMax, quiet, saved>>
acks == <<mon, cb, finalized, initAll, initSome, sent, inflight, query>>
ops == <<job, at, pos, victim>>
vars == <<lock, doomed, main, dead, ops, defs, policy, acks>>

Idle == [op |-> "none", on |-> {}, force |-> FALSE, bring |-> {}, seen |-> {}]
Phase == {"idle", "next", "nice", "wait1", "signal", "wait2", "kill", "single"}

TypeOK ==
    /\ lock \in Thread \union {Nobody}
    /\ pid \in [Service -> 0..MaxRuns] /\ runs \in [Service -> 0..MaxRuns]
    /\ ps \in [Child -> {"none", "up", "zombie", "gone"}]
    /\ doomed \subseteq Child
    /\ acked \in [Service -> BOOLEAN] /\ token \in [Service -> BOOLEAN]
    /\ ignore \in [Service -> BOOLEAN] /\ monitored \in [Service -> BOOLEAN]
    /\ restarts \in [Service -> Nat]
    /\ onMax \in [Service -> {"reboot", "stop", "continue"}]
    /\ quiet \in Service \union {NoSvc} /\ saved \in Service \union {NoSvc}
    /\ main \in {"boot", "wait", "handle", "reboot"}
    /\ dead \in Child \union {NoChild} /\ (main = "handle" => dead # NoChild)
    /\ \A t \in Thread :
          /\ job[t].op \in {"none", "stop", "restart", "recover", "startall",
                            "stopall", "restartall"}
          /\ job[t].on \union job[t].bring \subseteq Service /\ job[t].seen \subseteq Child
    /\ at \in [Thread -> Phase] /\ pos \in [Thread -> 1..(Len(Order) + 1)]
    /\ victim \in [Thread -> Child \union {NoChild}]
    /\ mon \in BOOLEAN /\ cb \in BOOLEAN /\ finalized \in BOOLEAN
    /\ initAll \in 0..2 /\ initSome \in BOOLEAN
    /\ sent \subseteq Service \X (0..MaxRuns) /\ inflight \subseteq sent
    /\ query \in {"idle", "off", "armed", "yes", "no"}

(***************************************************************************)
(* Starting: startProcess and executeStartOperation.                       *)
(***************************************************************************)
\* the children of the services in L are forked
Fork(L) ==
    /\ runs' = [s \in Service |-> IF s \in L THEN runs[s] + 1 ELSE runs[s]]
    /\ ps' = [c \in Child |->
                IF c[1] \in L /\ c[2] = runs[c[1]] + 1 THEN "up" ELSE ps[c]]

\* startProcess for each service of E: the ack is forgotten, and a fork may
\* fail, which leaves the service without a pid.  At the bound it must.
StartEach(E, oldpid) ==
    \E L \in SUBSET {s \in E : runs[s] < MaxRuns} :
        /\ Fork(L)
        /\ pid' = [s \in Service |-> IF s \in L THEN runs[s] + 1 ELSE oldpid[s]]
        /\ acked' = [s \in Service |-> acked[s] /\ s \notin E]

\* executeStartOperation on the services that pass the filter
ExecuteStartIf(S, E) ==
    /\ StartEach(E, pid)
    /\ ignore' = [s \in Service |-> ignore[s] /\ s \notin E]
ExecuteStartAnyway(S) == ExecuteStartIf(S, S \ Java)
ExecuteStart(S) == ExecuteStartIf(S, {s \in S \ Java : pid[s] = 0})

\* performStartupSequence(serviceNames) up to its wait: the timer, then the
\* single phase services; `bring' is what is started after the wait
BeginStartup(t, o, bring) ==
    /\ mon' = TRUE
    /\ ExecuteStart(SinglePhase)
    /\ job' = [job EXCEPT ![t] = [Idle EXCEPT !.op = o, !.bring = bring]]
    /\ at' = [at EXCEPT ![t] = "single"]
    /\ pos' = [pos EXCEPT ![t] = 1]
    /\ lock' = Nobody
    /\ UNCHANGED victim

\* the operation is over and SERVICE_MTX released
Return(t) ==
    /\ job' = [job EXCEPT ![t] = Idle]
    /\ at' = [at EXCEPT ![t] = "idle"]
    /\ pos' = [pos EXCEPT ![t] = 1]
    /\ lock' = Nobody
    /\ UNCHANGED victim

\* step 4, when the wait ends by the signal, by the timeout or spuriously
EndStartup(t) ==
    /\ at[t] = "single" /\ lock = Nobody
    /\ ExecuteStart(job[t].bring)
    /\ Return(t)
    /\ main' = IF t = Main THEN "wait" ELSE main
    /\ UNCHANGED <<doomed, dead, policy, acks>>

NonSinglePhase == AutoStart \ SinglePhase

\* a service saved as misbehaving before the boot, the one resetBadServiceTask
\* will restore, does not reboot the system for an hour
BootPolicyKept == OnMax
BootPolicy == [s \in Service |-> IF s = quiet THEN "stop" ELSE OnMax[s]]

\* startConfiguredProcessesAndWait up to the startup sequence
Init ==
    /\ lock = Main /\ main = "boot" /\ dead = NoChild /\ doomed = {} /\ saved = NoSvc
    /\ pid = [s \in Service |-> 0] /\ runs = [s \in Service |-> 0]
    /\ ps = [c \in Child |-> "none"]
    /\ acked = [s \in Service |-> FALSE] /\ token = [s \in Service |-> FALSE]
    /\ ignore = [s \in Service |-> FALSE]
    /\ monitored = [s \in Service |-> s \in RestartOnFail]
    /\ restarts = [s \in Service |-> 0]
    /\ quiet \in {NoSvc} \union {s \in Service : OnMax[s] = "reboot"}
    /\ onMax = BootPolicy
    /\ job = [t \in Thread |-> Idle] /\ at = [t \in Thread |-> "idle"]
    /\ pos = [t \in Thread |-> 1] /\ victim = [t \in Thread |-> NoChild]
    /\ mon = FALSE /\ cb = FALSE /\ finalized = FALSE
    /\ initAll = 0 /\ initSome = FALSE
    /\ sent = {} /\ inflight = {} /\ query = "idle"

Boot ==
    /\ main = "boot" /\ lock = Main
    /\ BeginStartup(Main, "startall", NonSinglePhase)
    /\ UNCHANGED <<main, dead, doomed, policy, cb, finalized, initAll, initSome, sent,
                   inflight, query>>

(***************************************************************************)
(* Stopping: executeStopOperation, which visits the services in order.     *)
(***************************************************************************)
Alive(c) == ps[c] \in {"up", "zombie"}    \* isProcessAlive
Goto(t, ph) ==
    /\ at' = [at EXCEPT ![t] = ph]
    /\ victim' = [victim EXCEPT ![t] = IF ph = "next" THEN NoChild ELSE @]
    /\ UNCHANGED <<job, pos>>

\* operationOnSingle/Group/AllProcesses, START
StartOp(t, r) ==
    /\ lock = Nobody /\ job[t].op = "none" /\ r.op = "start"
    /\ ExecuteStart(r.on)
    /\ UNCHANGED <<lock, doomed, main, dead, ops, policy, acks>>

StartAllOp(t, r) ==
    /\ lock = Nobody /\ job[t].op = "none" /\ r.op = "startall"
    /\ BeginStartup(t, "startall", NonSinglePhase)
    /\ UNCHANGED <<doomed, main, dead, policy, cb, finalized, initAll, initSome, sent,
                   inflight, query>>

Running == {s \in Service : pid[s] > 0}

\* STOP, RESTART and RESTART_FOR_RECOVERY up to the loop.  The operations on
\* all services first mark every running one (ignoreAllProcDeaths), and a
\* restart of all notes what to bring back (getServiceNamesToBounce).
IgnoreAll(marked) == ignore' = [s \in Service |-> ignore[s] \/ s \in marked]
StopOpWith(t, r, marked) ==
    /\ lock = Nobody /\ job[t].op = "none"
    /\ r.op \in {"stop", "restart", "recover", "stopall", "restartall"}
    /\ lock' = t
    /\ IgnoreAll(marked)
    /\ job' = [job EXCEPT ![t] =
         [Idle EXCEPT !.op = r.op, !.on = r.on, !.force = r.force,
            !.bring = IF r.op = "restart" THEN r.on
                      ELSE IF r.op = "restartall" THEN Running \union AutoStart
                      ELSE {},
            !.seen = IF r.op \in {"stopall", "restartall"}
                     THEN {<<s, pid[s]>> : s \in Running} ELSE {}]]
    /\ at' = [at EXCEPT ![t] = "next"]
    /\ UNCHANGED <<pos, victim, doomed, main, dead, pid, runs, ps, acked, policy, acks>>
StopOpNoMark(t, r) == StopOpWith(t, r, {})
StopOp(t, r) ==
    StopOpWith(t, r, IF r.op \in {"stopall", "restartall"} THEN Running ELSE {})

\* the head of the loop: skip a service without a pid or not asked for, mark it.  Only
\* a recovery keeps the death unexpected; only a restart of all resets the ack.
NextService(t) ==
    LET j == job[t]  s == Order[pos[t]] IN
    /\ lock = t /\ at[t] = "next" /\ pos[t] <= Len(Order)
    /\ pos' = [pos EXCEPT ![t] = @ + 1]
    /\ IF pid[s] = 0 \/ s \notin j.on
       THEN UNCHANGED <<ignore, acked, at, victim>>
       ELSE /\ ignore' = [ignore EXCEPT ![s] = j.op # "recover"]
            /\ acked' = [acked EXCEPT ![s] = @ /\ j.op # "restartall"]
            /\ victim' = [victim EXCEPT ![t] = <<s, pid[s]>>]
            /\ at' = [at EXCEPT ![t] =
                 IF token[s] /\ ~j.force /\ j.op # "recover" THEN "nice" ELSE "signal"]
    /\ UNCHANGED <<lock, doomed, main, dead, job, pid, runs, ps, policy, acks>>

\* waitForDeath(old): at once true when the old pid is gone; otherwise it
\* waits on SERVICE_COND, which lets go of SERVICE_MTX
EnterWait(t, ph) ==
    IF Alive(victim[t])
    THEN Goto(t, ph) /\ lock' = Nobody
    ELSE Goto(t, "next") /\ lock' = lock

\* the shutdown request over IPC, with the mutex held, succeeds or fails
Nice(t) ==
    /\ lock = t /\ at[t] = "nice"
    /\ EnterWait(t, "wait1") \/ (Goto(t, "signal") /\ lock' = lock)
    /\ UNCHANGED <<doomed, main, dead, defs, policy, acks>>

\* waitForDeath returns with the mutex.  It answers false when it gave up on
\* a child still there, and also when the child went between the 5th and the
\* 10th check; the next measure is taken if the service has a pid.
WaitedIf(t, gone) ==
    /\ lock = Nobody /\ at[t] \in {"wait1", "wait2"}
    /\ lock' = t
    /\ \E isDead \in (IF gone THEN {TRUE} \union {~Late} ELSE {FALSE}) :
          Goto(t, IF isDead \/ pid[victim[t][1]] = 0 THEN "next"
                  ELSE IF at[t] = "wait1" THEN "signal" ELSE "kill")
    /\ UNCHANGED <<doomed, main, dead, defs, policy, acks>>
\* as it was before the old pid was kept: dead means the pid field is 0
WaitedByField(t) == WaitedIf(t, pid[victim[t][1]] = 0)
Waited(t) == WaitedIf(t, ~Alive(victim[t]))

\* SIGTERM or SIGQUIT to the current pid; the child may die of it (Die)
Signal(t) ==
    /\ lock = t /\ at[t] = "signal"
    /\ EnterWait(t, "wait2")
    /\ UNCHANGED <<doomed, main, dead, defs, policy, acks>>

\* SIGKILL to the current pid, without waiting
KillWith(t, hit) ==
    /\ lock = t /\ at[t] = "kill"
    /\ doomed' = doomed \union hit
    /\ Goto(t, "next")
    /\ UNCHANGED <<lock, main, dead, defs, policy, acks>>
KillNot(t) == KillWith(t, {})
Kill(t) == KillWith(t, {<<victim[t][1], pid[victim[t][1]]>>})

\* the end of the loop, and what the operation does next: nothing (a restart
\* of all too, when its nanosleep is interrupted), ...
EndStop(t) ==
    /\ job[t].op \in {"stop", "stopall", "recover", "restartall"}
    /\ Return(t)
    /\ UNCHANGED <<defs, mon>>

\* ... start the services again, ...
EndRestart(t) ==
    /\ job[t].op = "restart"
    /\ ExecuteStart(job[t].bring)
    /\ Return(t)
    /\ UNCHANGED mon

\* ... or run the startup sequence
EndRestartAll(t) ==
    /\ job[t].op = "restartall"
    /\ BeginStartup(t, "restartall", job[t].bring)

FinishStop(t) ==
    /\ lock = t /\ at[t] = "next" /\ pos[t] > Len(Order)
    /\ EndStop(t) \/ EndRestart(t) \/ EndRestartAll(t)
    /\ UNCHANGED <<doomed, main, dead, policy, cb, finalized, initAll, initSome,
                   sent, inflight, query>>

(***************************************************************************)
(* Children die, Main reaps them and handleDeadChild decides.              *)
(***************************************************************************)
Die(c) ==
    /\ ps[c] = "up"
    /\ ps' = [ps EXCEPT ![c] = "zombie"]
    /\ UNCHANGED <<lock, doomed, main, dead, ops, pid, runs, acked, ignore, policy, acks>>

\* wait() returns a dead child; its pid no longer exists
Reap(c) ==
    /\ main = "wait" /\ ps[c] = "zombie"
    /\ ps' = [ps EXCEPT ![c] = "gone"]
    /\ main' = "handle" /\ dead' = c
    /\ doomed' = doomed \ {c}
    /\ UNCHANGED <<lock, ops, pid, runs, acked, ignore, policy, acks>>

\* the pids without the one of the child of s that died
ClearedNot(s) == pid
Cleared(s) == [pid EXCEPT ![s] = 0]

\* the restart of s, given those pids
Revive(s, cleared) ==
    /\ StartEach({s}, cleared)
    /\ main' = "wait"
    /\ UNCHANGED saved

\* too many restarts: reboot after saving the name, leave it dead, or go on
Exceeded(s, cleared) ==
    \/ /\ onMax[s] = "continue" /\ Revive(s, cleared)
    \/ /\ onMax[s] # "continue"
       /\ pid' = cleared
       /\ main' = IF onMax[s] = "reboot" THEN "reboot" ELSE "wait"
       /\ saved' = IF onMax[s] = "reboot" THEN s ELSE saved
       /\ UNCHANGED <<runs, ps, acked>>

\* handleDeadChild, with SERVICE_MTX.  A child no service has as its pid is
\* forgotten.  A death that is ignored, or of a service that is not restarted,
\* or whose pause is interrupted, leaves the service down.
HandleDeadChild ==
    /\ main = "handle" /\ lock = Nobody
    /\ dead' = NoChild
    /\ LET s == dead[1]  cleared == Cleared(s) IN
       IF pid[s] # dead[2]
       THEN main' = "wait" /\ UNCHANGED <<pid, runs, ps, acked, restarts, saved>>
       ELSE \/ /\ ~monitored[s] \/ ignore[s] \/ s \in Spaced
               /\ pid' = cleared /\ main' = "wait"
               /\ UNCHANGED <<runs, ps, acked, restarts, saved>>
            \/ /\ monitored[s] /\ ~ignore[s]
               /\ \E r \in {restarts[s] + 1, 1} :     \* within the minute or not
                     /\ restarts' = IF MaxRestarts = 0 THEN restarts
                                    ELSE [restarts EXCEPT ![s] = r]
                     /\ IF MaxRestarts > 0 /\ r > MaxRestarts
                        THEN Exceeded(s, cleared) ELSE Revive(s, cleared)
    /\ UNCHANGED <<lock, doomed, ops, ignore, token, monitored, onMax, quiet, acks>>

\* stopMonitoringService
StopMonitoring(r) ==
    /\ lock = Nobody /\ r.op = "unmonitor"
    /\ monitored' = [s \in Service |-> monitored[s] /\ ~(s \in r.on /\ pid[s] > 0)]
    /\ UNCHANGED <<lock, doomed, main, dead, ops, defs, token, restarts, onMax, quiet,
                   saved, acks>>

\* resetBadServiceDelayCallback, an hour after the boot
ResetBadService ==
    /\ quiet # NoSvc /\ lock = Nobody
    /\ onMax' = [onMax EXCEPT ![quiet] = "reboot"]
    /\ quiet' = NoSvc
    /\ UNCHANGED <<lock, doomed, main, dead, ops, defs, token, monitored, restarts,
                   saved, acks>>

(***************************************************************************)
(* Acknowledgements and the end of the startup sequence.                   *)
(***************************************************************************)
\* a service that is up, and is to send an ack, calls watchdog over IPC
SendAck(s, k) ==
    /\ IF k = 0 THEN s \in Java ELSE ps[<<s, k>>] = "up"
    /\ s \in ExpectAck /\ <<s, k>> \notin sent
    /\ sent' = sent \union {<<s, k>>}
    /\ inflight' = inflight \union {<<s, k>>}
    /\ UNCHANGED <<lock, doomed, main, dead, ops, defs, policy, mon, cb, finalized,
                   initAll, initSome, query>>

\* internalCountServicesToBeAcknowledged, as the set it counts
Unacked(ack) == {s \in (AutoStart \union Java) \intersect ExpectAck : ~ack[s]}

\* allAcksReceived: tell the services and send the event, only once
AllAcksReceived ==
    /\ finalized' = TRUE
    /\ initAll' = IF finalized THEN initAll ELSE initAll + 1

\* acknowledgeServiceStarted, with SERVICE_MTX (and ACK_MONITOR_MTX in it)
AcknowledgeWith(s, k, some) ==
    /\ <<s, k>> \in inflight /\ lock = Nobody
    /\ inflight' = inflight \ {<<s, k>>}
    /\ acked' = [acked EXCEPT ![s] = TRUE]
    /\ token' = [token EXCEPT ![s] = TRUE]
    /\ IF Unacked(acked') # {}
       THEN UNCHANGED <<mon, finalized, initAll, initSome>>
       ELSE IF mon
       THEN mon' = FALSE /\ AllAcksReceived /\ UNCHANGED initSome
       ELSE initSome' = some /\ UNCHANGED <<mon, finalized, initAll>>
    /\ UNCHANGED <<lock, doomed, main, dead, ops, pid, runs, ps, ignore, monitored,
                   restarts, onMax, quiet, saved, cb, sent, query>>
AcknowledgeSilent(s, k) == AcknowledgeWith(s, k, initSome)
AcknowledgeServiceStarted(s, k) == AcknowledgeWith(s, k, TRUE)

\* monitorAckDelayCallback after five minutes: first the handle, then, with
\* SERVICE_MTX, the end of the startup sequence
TimerFires ==
    /\ mon /\ ~cb
    /\ mon' = FALSE /\ cb' = TRUE
    /\ UNCHANGED <<lock, doomed, main, dead, ops, defs, policy, finalized, initAll,
                   initSome, sent, inflight, query>>

TimerGivesUpWith(complete) ==
    /\ cb /\ lock = Nobody
    /\ cb' = FALSE
    /\ complete
    /\ UNCHANGED <<lock, doomed, main, dead, ops, defs, policy, mon, initSome, sent,
                   inflight, query>>
TimerForgets == TimerGivesUpWith(UNCHANGED <<finalized, initAll>>)
TimerGivesUp == TimerGivesUpWith(AllAcksReceived)

\* areAllServicesStarted: the timer under one mutex, the count under the other
AskTimer(r) ==
    /\ query = "idle" /\ r.op = "ask"
    /\ query' = IF mon THEN "armed" ELSE "off"
    /\ UNCHANGED <<lock, doomed, main, dead, ops, defs, policy, mon, cb, finalized,
                   initAll, initSome, sent, inflight>>
AskCount ==
    /\ query \in {"off", "armed"} /\ lock = Nobody
    /\ query' = IF query = "off" /\ Unacked(acked) = {} THEN "yes" ELSE "no"
    /\ UNCHANGED <<lock, doomed, main, dead, ops, defs, policy, mon, cb, finalized,
                   initAll, initSome, sent, inflight>>
Answered ==
    /\ query \in {"yes", "no"}
    /\ query' = "idle"
    /\ UNCHANGED <<lock, doomed, main, dead, ops, defs, policy, mon, cb, finalized,
                   initAll, initSome, sent, inflight>>

JobStep(t) ==
    \/ EndStartup(t) \/ NextService(t) \/ Nice(t) \/ Waited(t)
    \/ Signal(t) \/ Kill(t) \/ FinishStop(t)

Next ==
    \/ Boot \/ HandleDeadChild
    \/ \E c \in Child : Die(c) \/ Reap(c)
    \/ \E t \in Admin, r \in Ops : StartOp(t, r) \/ StartAllOp(t, r) \/ StopOp(t, r)
    \/ \E t \in Thread : JobStep(t)
    \/ \E r \in Ops : StopMonitoring(r) \/ AskTimer(r)
    \/ ResetBadService
    \/ \E s \in Service, k \in 0..MaxRuns :
          SendAck(s, k) \/ AcknowledgeServiceStarted(s, k)
    \/ TimerFires \/ TimerGivesUp
    \/ AskCount \/ Answered

Spec == Init /\ [][Next]_vars

(***************************************************************************)
(* Properties.                                                             *)
(***************************************************************************)
\* A service never has two processes: a child that runs is the one its
\* service has as currentPid, whatever starts, restarts and deaths interleave
\* (executeStartOperation skips a service with a pid, and only the death
\* handler clears it).
OneProcess == \A c \in Child : ps[c] = "up" => pid[c[1]] = c[2]

\* What a stop operation signals is the process it was asked to stop, never one
\* started since (the old pid kept in executeStopOperation for waitForDeath).
SignalsOld ==
    \A t \in Thread :
       at[t] \in {"signal", "kill"} => pid[victim[t][1]] = victim[t][2]

\* currentPid stands for the one process of its service, both for those who start it and for
\* those who signal it.
PidsAreTrue == OneProcess /\ SignalsOld

\* Stopping everything does not thrash: no process that ran when a stop or
\* restart of all services began is replaced by the death handler while that
\* operation is in its loop (ignoreAllProcDeaths).
NoThrash ==
    [][\A t \in Admin : \A c \in job[t].seen :
          (dead = c /\ dead' # c) => (pid'[c[1]] = 0 \/ pid'[c[1]] = pid[c[1]])]_vars

\* areAllServicesStarted answers true only after an INIT_COMPLETE event, though
\* it reads the timer and the acks under two different mutexes.
AllStartedMeansEvent == query = "yes" => initAll > 0 \/ initSome

\* No reboot loop: the service that made the system reboot last time does not
\* make it reboot again until resetBadServiceTask has run.
NoRebootLoop == main = "reboot" => saved # quiet

\* What the startup decides from what it remembers is right: that everything is started, and
\* that a service may make the system reboot.
StartupIsSound == AllStartedMeansEvent /\ NoRebootLoop

\* Every death of a child is noticed and its pid cleared, although operations
\* hold SERVICE_MTX for long, unless the system is going to reboot.
DeathNoticed ==
    \A c \in Child : ps[c] = "zombie" ~> (pid[c[1]] # c[2] \/ main = "reboot")

\* A stop operation really ends the process it visits: by the request, by the
\* signal or by SIGKILL.
StopStops ==
    \A c \in Child :
      (\E t \in Admin : victim[t] = c) ~> ps[c] # "up"

\* The startup sequence ends with its event, even if services never ack.
StartupCompletes == <>(initAll > 0)

\* The startup sequence is completed once, by the last ack or by the timer
\* that races it (startupSequenceFinalized).
InitCompleteOnce == initAll <= 1

\* An ack on record is an ack of the running process (startProcess resets
\* lastActReceivedTime to detect it).
AckIsCurrent ==
    \A s \in Service : acked[s] /\ pid[s] > 0 => <<s, pid[s]>> \in sent

\* After a restart the death of the restarted services counts again: none of
\* them is left marked as being stopped (stop, then start).
RestartRearms ==
    [][\A t \in Admin : job[t].op = "restart" /\ job'[t].op = "none"
          => \A s \in job[t].bring : ~ignore'[s]]_vars

\* "Some services started" is for acks after the startup sequence: it is
\* not sent before the event that ends the sequence.
SomeAfterAll == initSome => initAll > 0

\* The ack that ends a startup or a restart of all services makes the
\* INIT_COMPLETE event be sent, for the services that wait for it.
InitCompleteSent == [][mon /\ ~mon' /\ ~cb' => initAll' > initAll]_vars

(***************************************************************************)
(* Main, the timer and the operations make progress; SERVICE_MTX is given  *)
(* to each of them in the end (strong fairness); a child that got SIGKILL  *)
(* dies.                                                                   *)
(***************************************************************************)
Fairness ==
    /\ WF_vars(Boot) /\ SF_vars(HandleDeadChild)
    /\ WF_vars(\E c \in Child : Reap(c))
    /\ WF_vars(\E c \in doomed : Die(c))
    /\ WF_vars(TimerFires) /\ SF_vars(TimerGivesUp)
    /\ \A t \in Thread : SF_vars(JobStep(t))

FairSpec == Spec /\ Fairness
==============================================================================
