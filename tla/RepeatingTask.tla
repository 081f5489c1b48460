--------------------------- MODULE RepeatingTask ---------------------------
(***************************************************************************)
(* repeatingTask (libs/concurrent): a thread calls a function, pauses and  *)
(* calls it again, until the task is cancelled or, for a back off task,    *)
(* until the function reports success.  One task is modelled; tasks share  *)
(* nothing but the list in which handles are looked up under TASK_MTX.     *)
(* The lookup and the work on the object under its own mutex are separate  *)
(* critical sections, so the pointer a client holds in between may be one  *)
(* to an object that was released.                                         *)
(*                                                                         *)
(* Time is counted in units of the delays and kept relative to now.        *)
(***************************************************************************)
EXTENDS Integers

CONSTANTS Caller,       \* threads that call the functions of the interface
          Uses,         \* how the task may be created and used, see Use
          Delay,        \* delayAmount of a normal or fixed rate task
          StartDelay, Increment, MaxDelay,  \* the delays of a back off task
          NewDelay,     \* the delays changeRepeatingTask is called with
          MaxLate       \* bound: how far behind its target a task may get

\* The kind of the task, what clients call, and what the task function itself calls.
RTCall == {"cancel", "short", "change"}
Use == [type : {"normal", "fixed", "backoff"}, calls : SUBSET RTCall, own : SUBSET RTCall]

ASSUME UseAssumption == Uses \subseteq Use
ASSUME DelayAssumption == Delay \in Nat \ {0} /\ NewDelay \subseteq Nat \ {0}
ASSUME BackOffAssumption == {StartDelay, Increment, MaxDelay} \subseteq Nat \ {0}
ASSUME LateAssumption == MaxLate \in Nat \ {0}

\* The pauses there can be; one of them is the longest.
Pause == {Delay, MaxDelay, StartDelay} \cup NewDelay
ASSUME PauseAssumption == \E m \in Pause : \A d \in Pause : d \leq m

VARIABLES use,          \* def->type, and how the task is used
          state,        \* def->state
          listed,       \* the task is in the list of tasks
          delay,        \* def->currentDelay
          left,         \* def->targetRunTime - now; below zero once it has passed
          done,         \* def->didComplete
          thread,       \* where runRepeatTaskThread is
          entry,        \* its taskEntryState
          told,         \* its toldToCancel
          rem,          \* what is left of its timed wait; a broadcast ends it
          doing,        \* doing[c]: where client c is
          released,     \* how often the object was released
          returned,     \* how often cancelRepeatingTask returned the argument
          succeeded,    \* how often the success callback got the argument
          since,        \* time since the task function returned, up to a limit
          phase         \* (now - creation) modulo Delay

rtvars == <<use, state, listed, delay, left, done, thread, entry, told, rem, doing, released, returned,
          succeeded, since, phase>>

RTState == {"IDLE", "WAITING", "RUNNING", "CANCELED", "SHORT_CIRCUIT"}

\* "loop": about to look at the state.  "running": in the task function.  "after": it
\* returned.  "success": out of the loop of a back off task.  "complete": told of no cancel,
\* it marks itself.  "remove": it calls cancelRepeatingTask for itself.
ThreadPC == {"loop", "running", "after", "wait", "success", "complete", "remove", "exited"}
ClientPC == {"idle", "cancel", "join", "short", "change"}

Type == use.type
Calls == use.calls
OwnCalls == use.own

\* A bound for what is compared with a pause.
Longest == CHOOSE m \in Pause : \A d \in Pause : d \leq m

-----------------------------------------------------------------------------
\* initRepeatingTask; the first iteration is due at once.
RTInit ==
    /\ use \in Uses
    /\ state = "IDLE"
    /\ listed = TRUE
    /\ delay = IF Type = "backoff" THEN 0 ELSE Delay
    /\ left = 0
    /\ done = FALSE
    /\ thread = "loop"
    /\ entry = "IDLE"
    /\ told = FALSE
    /\ rem = 0
    /\ doing = [c \in Caller |-> "idle"]
    /\ released = 0
    /\ returned = 0
    /\ succeeded = 0
    /\ since = 0
    /\ phase = 0

Alive == released = 0

CallerGoes(c, where) == doing' = [doing EXCEPT ![c] = where]

calcBackOffDelayAmount(current) ==
    IF current < StartDelay THEN StartDelay
    ELSE IF current + Increment \geq MaxDelay THEN MaxDelay ELSE current + Increment

-----------------------------------------------------------------------------
\* cancelRepeatingTask: the handle is looked up and leaves the list.
CancelFind(c) ==
    /\ "cancel" \in Calls
    /\ doing[c] = "idle"
    /\ listed
    /\ listed' = FALSE
    /\ CallerGoes(c, "cancel")
    /\ UNCHANGED <<use, state, delay, left, done, thread, entry, told, rem, released, returned, succeeded, since, phase>>

\* Does not wait for the thread.
CancelMarkNoJoin(c) ==
    /\ doing[c] = "cancel"
    /\ Alive
    /\ state' = "CANCELED"
    /\ rem' = 0
    /\ released' = released + 1
    /\ returned' = IF state # "CANCELED" THEN returned + 1 ELSE returned
    /\ CallerGoes(c, "idle")
    /\ UNCHANGED <<use, listed, delay, left, done, thread, entry, told, succeeded, since, phase>>

\* The task is told to stop and its pause ends, or it is stopping by itself and is released.
CancelMark(c) ==
    /\ doing[c] = "cancel"
    /\ Alive
    /\ \/ /\ state # "CANCELED"
          /\ state' = "CANCELED"
          /\ rem' = 0
          /\ CallerGoes(c, "join")
          /\ UNCHANGED released
       \/ /\ state = "CANCELED"
          /\ released' = released + 1
          /\ CallerGoes(c, "idle")
          /\ UNCHANGED <<state, rem>>
    /\ UNCHANGED <<use, listed, delay, left, done, thread, entry, told, returned, succeeded, since, phase>>

\* pthread_join, and the object is released.  The argument is returned if give holds.
CancelJoinIf(c, give) ==
    /\ doing[c] = "join"
    /\ thread = "exited"
    /\ returned' = IF give THEN returned + 1 ELSE returned
    /\ released' = released + 1
    /\ CallerGoes(c, "idle")
    /\ UNCHANGED <<use, state, listed, delay, left, done, thread, entry, told, rem, succeeded, since, phase>>

CancelJoinUnchecked(c) == CancelJoinIf(c, TRUE)
CancelJoin(c) == CancelJoinIf(c, ~done)

\* shortCircuitRepeatingTask and changeRepeatingTask look up the handle.
Find(c, kind) ==
    /\ kind \in Calls \cap {"short", "change"}
    /\ doing[c] = "idle"
    /\ listed
    /\ CallerGoes(c, kind)
    /\ UNCHANGED <<use, state, listed, delay, left, done, thread, entry, told, rem, released, returned,
                   succeeded, since, phase>>

\* The work of shortCircuitRepeatingTask on the object: the state, and the end of the pause.
ShortCircuit ==
    /\ state' = IF state # "CANCELED" THEN "SHORT_CIRCUIT" ELSE state
    /\ rem' = IF state # "CANCELED" THEN 0 ELSE rem
    /\ UNCHANGED <<use, listed, delay, left, done, thread, entry, told, released, returned, succeeded, since, phase>>

\* The work of changeRepeatingTask on the object: the delay, the target unless the task
\* function runs, and the end of the pause if changeNow is set.
Change(d, changeNow) ==
    /\ \/ /\ state = "CANCELED"
          /\ UNCHANGED <<delay, left, rem>>
       \/ /\ state # "CANCELED"
          /\ delay' = d
          /\ left' = IF state # "RUNNING" THEN d ELSE left
          /\ rem' = IF changeNow THEN 0 ELSE rem
    /\ UNCHANGED <<use, state, listed, done, thread, entry, told, released, returned, succeeded, since, phase>>

ShortCircuitTask(c) == doing[c] = "short" /\ Alive /\ ShortCircuit /\ CallerGoes(c, "idle")

ChangeTask(c) ==
    /\ doing[c] = "change"
    /\ Alive
    /\ \E d \in NewDelay, changeNow \in BOOLEAN : Change(d, changeNow)
    /\ CallerGoes(c, "idle")

-----------------------------------------------------------------------------
\* The thread at the head of its loop: it calls the task function, or leaves.
Loop ==
    /\ thread = "loop"
    /\ Alive
    /\ \/ /\ state = "CANCELED"
          /\ told' = TRUE
          /\ thread' = IF Type = "backoff" THEN "success" ELSE "exited"
          /\ UNCHANGED <<state, entry>>
       \/ /\ state # "CANCELED"
          /\ entry' = state
          /\ state' = "RUNNING"
          /\ thread' = "running"
          /\ UNCHANGED told
    /\ UNCHANGED <<use, listed, delay, left, done, rem, doing, released, returned, succeeded, since, phase>>

\* The task function returns; TRUE ends a back off task.
Returns(success) ==
    /\ thread = "running"
    /\ thread' = IF success THEN "success" ELSE "after"
    /\ since' = 0
    /\ UNCHANGED <<use, state, listed, delay, left, done, entry, told, rem, doing, released, returned, succeeded, phase>>

\* The target of the next run: for a fixed rate task a delay after the last target, unless
\* this run was short circuited, for the others a delay after now.
NextTargetNow(d) == d
NextTarget(d) == IF Type # "fixed" \/ entry = "SHORT_CIRCUIT" THEN d ELSE left + d

\* After the task function: the next target and, unless it is told to go on, the pause.
AfterPausing(pauses) ==
    LET d == IF Type = "backoff" THEN calcBackOffDelayAmount(delay) ELSE delay IN
    /\ thread = "after"
    /\ Alive
    /\ delay' = d
    /\ left' = NextTarget(d)
    /\ state' = IF pauses THEN "WAITING" ELSE state
    /\ thread' = IF pauses /\ left' \geq 0 THEN "wait" ELSE "loop"
    /\ rem' = IF pauses /\ left' \geq 0 THEN left' ELSE 0
    /\ UNCHANGED <<use, listed, done, entry, told, doing, released, returned, succeeded, since, phase>>

AfterUnchecked == AfterPausing(TRUE)
After == AfterPausing(state \notin {"CANCELED", "SHORT_CIRCUIT"})

\* The timed wait ends, when its time is over, by a broadcast or for no reason.  The thread
\* waits again if wants holds, the pause is not over and nobody told it to go on.
WakeUnless(wants) ==
    /\ thread = "wait"
    /\ Alive
    /\ \/ /\ state = "CANCELED"
          /\ told' = TRUE
          /\ thread' = IF Type = "backoff" THEN "success" ELSE "exited"
          /\ rem' = 0
       \/ /\ state = "SHORT_CIRCUIT" \/ (state # "CANCELED" /\ ~wants)
          /\ thread' = "loop"
          /\ rem' = 0
          /\ UNCHANGED told
       \/ /\ state \notin {"CANCELED", "SHORT_CIRCUIT"} /\ wants
          /\ rem' = left
          /\ UNCHANGED <<thread, told>>
    /\ UNCHANGED <<use, state, listed, delay, left, done, entry, doing, released, returned, succeeded, since, phase>>

WakeOnce == WakeUnless(FALSE)
Wake == WakeUnless(left \geq 0)

\* The end of a back off task: the success callback, whether or not it was cancelled.
Success ==
    /\ thread = "success"
    /\ Alive
    /\ succeeded' = succeeded + 1
    /\ thread' = IF told THEN "exited" ELSE "complete"
    /\ UNCHANGED <<use, state, listed, delay, left, done, entry, told, rem, doing, released, returned, since, phase>>

\* A task that ended by itself is marked, so that a cancel neither joins it nor returns the
\* argument.
Complete ==
    /\ thread = "complete"
    /\ Alive
    /\ state' = "CANCELED"
    /\ done' = TRUE
    /\ thread' = "remove"
    /\ UNCHANGED <<use, listed, delay, left, entry, told, rem, doing, released, returned, succeeded, since, phase>>

\* Its own cancelRepeatingTask releases the object, unless another one took it from the
\* list.
Remove ==
    /\ thread = "remove"
    /\ listed' = FALSE
    /\ released' = released + (IF listed THEN 1 ELSE 0)
    /\ thread' = "exited"
    /\ UNCHANGED <<use, state, delay, left, done, entry, told, rem, doing, returned, succeeded, since, phase>>

\* The task function calls the interface.  A pthread_join of the own thread fails at once.
OwnCall ==
    /\ thread = "running"
    /\ listed
    /\ Alive
    /\ \/ /\ "cancel" \in OwnCalls
          /\ listed' = FALSE
          /\ state' = "CANCELED"
          /\ released' = released + 1
          /\ returned' = IF state # "CANCELED" THEN returned + 1 ELSE returned
          /\ UNCHANGED <<use, delay, left, done, thread, entry, told, rem, succeeded, since, phase>>
       \/ "short" \in OwnCalls /\ ShortCircuit
       \/ /\ "change" \in OwnCalls
          /\ \E d \in NewDelay, changeNow \in BOOLEAN : Change(d, changeNow)
    /\ UNCHANGED doing

\* A unit of time passes.
Tick ==
    /\ left > -MaxLate
    /\ left' = IF Type # "fixed" /\ left < 0 THEN left ELSE left - 1
    /\ rem' = IF rem > 0 THEN rem - 1 ELSE 0
    /\ since' = IF thread \in {"loop", "after", "wait"} /\ since \leq Longest THEN since + 1 ELSE since
    /\ phase' = (phase + 1) % Delay
    /\ UNCHANGED <<use, state, listed, delay, done, thread, entry, told, doing, released, returned, succeeded>>

RTThreadStep == Loop \/ After \/ Success \/ Complete \/ Remove

RTNext ==
    \/ \E c \in Caller : \/ CancelFind(c) \/ CancelMark(c) \/ CancelJoin(c)
                         \/ Find(c, "short") \/ Find(c, "change")
                         \/ ShortCircuitTask(c) \/ ChangeTask(c)
    \/ RTThreadStep
    \/ Returns(FALSE)
    \/ Type = "backoff" /\ Returns(TRUE)
    \/ Wake
    \/ OwnCall
    \/ Tick

\* The clock runs, threads keep running, a wait that is over ends and a task function
\* returns.  Nobody has to call anything.
RTFairness ==
    /\ WF_rtvars(Tick)
    /\ WF_rtvars(RTThreadStep)
    /\ WF_rtvars(\E b \in BOOLEAN : (b => Type = "backoff") /\ Returns(b))
    /\ WF_rtvars(rem = 0 /\ Wake)
    /\ \A c \in Caller : WF_rtvars(CancelMark(c) \/ CancelJoin(c) \/ ShortCircuitTask(c) \/ ChangeTask(c))

RTSpec == RTInit /\ [][RTNext]_rtvars

RTFairSpec == RTSpec /\ RTFairness

-----------------------------------------------------------------------------
\* The type of the state.
RTTypeOK ==
    /\ use \in Uses
    /\ state \in RTState
    /\ listed \in BOOLEAN
    /\ delay \in 0..Longest
    /\ left \in -MaxLate..Longest
    /\ done \in BOOLEAN
    /\ thread \in ThreadPC
    /\ entry \in RTState
    /\ told \in BOOLEAN
    /\ rem \in 0..Longest
    /\ doing \in [Caller -> ClientPC]
    /\ released \in Nat
    /\ returned \in Nat
    /\ succeeded \in Nat
    /\ since \in 0..(Longest + 1)
    /\ phase \in 0..(Delay - 1)

\* The task function does not cancel its own task.
CancelledByClients == "cancel" \notin OwnCalls

\* "wait for the thread to die, so we know it's safe to delete": the object is released
\* once, and then its thread touches it no more and no other cancelRepeatingTask is at work
\* on it, also when a back off task completes while it is being cancelled.
SafeToDelete ==
    CancelledByClients =>
        /\ released \leq 1
        /\ released = 1 => /\ thread \in {"remove", "exited"}
                           /\ \A c \in Caller : doing[c] \notin {"cancel", "join"}

\* cancelRepeatingTask "returns the original 'arg' ... allowing cleanup to safely occur": the
\* argument is returned once, and then the task function is not running and will not run.
NotRunAfterCancel ==
    CancelledByClients => returned \leq 1 /\ (returned = 1 => thread = "exited")

\* didComplete is there "to resolve race when canceling and completing at same time": when a
\* task completed, no cancel returns the argument the success callback got.
CompletedKeepsArg == CancelledByClients /\ done => returned = 0

\* Cancelling a task is safe whatever its thread is doing: the object is freed once and after
\* everyone has left it, the argument comes back once and only when the task function cannot
\* run again, and it does not come back when the completed task gave it away.
CancelIsSafe == SafeToDelete /\ NotRunAfterCancel /\ CompletedKeepsArg

\* The argument goes to one owner: "if the back off task is cancelled at any time it will be
\* handled just like any other repeating tasks", so its argument is returned and not given
\* to the success callback.
ArgOnce == returned + succeeded \leq 1

\* Nobody changes the delay.
DelayKept == "change" \notin Calls \cup OwnCalls

\* Between two runs that are not short circuited lies the whole delay, whatever wakes the
\* thread in the pause (a fixed rate task counts it from the last target instead).
PauseKept ==
    [][(Type # "fixed" /\ DelayKept /\ thread = "loop" /\ thread' = "running" /\ state = "WAITING")
          => since > delay]_rtvars

\* A fixed rate task runs "after the given delay relative to when the task initially started.
\* Then again after 2 * delay": its target is always a multiple of the delay after its
\* creation, however late its runs are, if nobody short circuits a pause.
OnTheGrid ==
    (Type = "fixed" /\ Calls \cup OwnCalls \subseteq {"cancel"}) => (phase + left) % Delay = 0

\* A task is called again and again until it is cancelled, however often a pause is short
\* circuited, if nobody keeps changing the delay; and cancelRepeatingTask returns, whatever
\* the thread was doing.
RunsUntilCancelled ==
    /\ []<>(thread = "running" \/ state = "CANCELED" \/ ~DelayKept)
    /\ \A c \in Caller : doing[c] \in {"cancel", "join"} ~> doing[c] = "idle"

\* A short circuit is not lost between two steps of the thread: it "cancels the pause,
\* forcing the task to loop around", so it stands until the task function is called or the
\* task is cancelled.
ShortCircuitKept ==
    [][(state = "SHORT_CIRCUIT" /\ state' # state) => (thread' = "running" \/ state' = "CANCELED")]_rtvars

\* Handles are there to prevent "memory issues with the caller having a pointer to an object
\* that may have been released in the background".
NoStaleTask == released > 0 => \A c \in Caller : doing[c] = "idle"

\* Without changeNow a change of the delay "will not apply until the next pause": the target
\* of the pause that is on stays.
ChangeWaits ==
    [][(thread = "wait" /\ thread' = "wait" /\ delay' # delay /\ rem' # 0) => left' = left]_rtvars

=============================================================================
