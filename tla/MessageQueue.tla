---------------------------- MODULE MessageQueue ----------------------------
(***************************************************************************)
(* The message queue of the comm service (services/comm/core): messages    *)
(* wait for delivery in the 'all set'; those that meet the filter are also *)
(* in the 'filter set', from which the queue thread takes them, one after  *)
(* the other, to the delegate's processFunc.  A message that expects a     *)
(* reply is in the 'sent set' from then on until a reply or a timeout.     *)
(*                                                                         *)
(* The life of a message ends when the delegate is notified of it or when  *)
(* the thread that received its reply destroys it.                         *)
(*                                                                         *)
(* An action is what happens between lock and unlock of queueMtx;          *)
(* processFunc runs without the mutex and is the time between two actions. *)
(***************************************************************************)
EXTENDS Naturals, Sequences, FiniteSets, Lists

CONSTANTS Client,       \* threads that call the interface
          Msg,          \* messages, with different ids
          NoMsg,
          Asks,         \* messages with expectsReply
          NeedsLink,    \* messages that pass the filter only while the link is up
          NumRetries,   \* message.numRetries
          MaxSent,      \* maxProcessingMessageCount
          MaxDelays,    \* bound on the answers PROCESS_MSG_DELAY_SEND
          MaxLink,      \* bound on the changes of the link
          Calls,        \* the calls that the clients make besides messageQueueAppend
          LateReplies   \* replies may also come after the message has timed out

ASSUME QueueAssumption ==
    /\ NoMsg \notin Msg
    /\ Asks \subseteq Msg /\ NeedsLink \subseteq Msg
    /\ NumRetries \in Nat /\ MaxSent \in Nat \ {0} /\ MaxDelays \in Nat /\ MaxLink \in Nat
    /\ LateReplies \in BOOLEAN

VARIABLES all,          \* allSet
          filtered,     \* filterSet
          sent,         \* sentHash
          state,        \* threadState
          th,           \* where the queue thread is
          cur,          \* the message that the thread processes
          errors,       \* errors[m]: m->errorCount
          late,         \* late messages that the check for timeouts has not come to yet
          fresh,        \* messages not yet appended
          out,          \* messages that the server has got and may still reply to
          ended,        \* ended[m]: how often the life of m ended
          pc,           \* pc[c]: the call c is in, after its first critical section
          hold,         \* hold[c]: the message c removed or completed
          freed,        \* the queue was freed
          up, links,    \* the link; how often it changed
          delays        \* number of answers PROCESS_MSG_DELAY_SEND

sets  == <<all, filtered, sent>>
ghost == <<fresh, ended>>
calls == <<pc, hold, freed>>
world == <<out, up, links, delays>>
vars  == <<sets, state, th, cur, errors, late, ghost, calls, world>>

State == {"NOT_RUNNING", "RUNNING", "PROCESSING", "CANCELING"}
Where == {"none", "loop", "waitSent", "waitEmpty", "timedOut", "check",
          "process", "transmitted", "delay", "exit"}
PC    == {"idle", "remove", "removeSent", "reply", "stop", "destroy", "clear", "free"}

Init ==
    /\ all = <<>> /\ filtered = <<>> /\ sent = {}
    /\ state = "NOT_RUNNING" /\ th = "none" /\ cur = NoMsg
    /\ errors = [m \in Msg |-> 0]
    /\ late = {} /\ fresh = Msg /\ out = {}
    /\ ended = [m \in Msg |-> 0]
    /\ pc = [c \in Client |-> "idle"] /\ hold = [c \in Client |-> NoMsg]
    /\ freed = FALSE
    /\ up \in BOOLEAN /\ links = 0 /\ delays = 0

\* queueMtx is free, but for the thread while it checks the sent set for timeouts.
Lock == th # "check" /\ ~freed

Busy == state = "PROCESSING"

\* delegate->filterFunc
Meets(m) == m \in NeedsLink => up

\* delegate->notifyFunc, after which the message must not be used.
Ended(m) == [ended EXCEPT ![m] = @ + 1]

\* pthread_cond_broadcast, which callers do in state MQ_RUNNING only; the thread may find
\* that its wait has timed out all the same.
AwakeAs(t, s) == IF t = "waitSent" THEN s ELSE IF t \in {"waitEmpty", "delay"} THEN "loop" ELSE t

\* Looks at the sent set only when there is nothing to do.
AwakeUnchecked(t) == AwakeAs(t, "loop")

Awake(t) == AwakeAs(t, "timedOut")

Broadcast == th' = IF state = "RUNNING" THEN Awake(th) ELSE th

-----------------------------------------------------------------------------
\* c may begin a call: nobody destroys the queue, and c is in no other call.
Call(c) == Lock /\ pc[c] = "idle" /\ \A d \in Client : pc[d] \notin {"destroy", "clear", "free"}

Enqueue(m) ==
    /\ all' = Append(all, m)
    /\ filtered' = IF Meets(m) THEN Append(filtered, m) ELSE filtered

AppendThen(c, m, wake) ==
    /\ Call(c)
    /\ m \in fresh
    /\ fresh' = fresh \ {m}
    /\ Enqueue(m)
    /\ IF wake THEN Broadcast ELSE th' = th
    /\ UNCHANGED <<sent, state, cur, errors, late, ended, calls, world>>

\* Leaves it to the thread to notice the message.
AppendQuietly(c, m) == AppendThen(c, m, FALSE)

messageQueueAppend(c, m) == AppendThen(c, m, Meets(m))

RunFilterFrom(c, kept) ==
    /\ Call(c)
    /\ "filter" \in Calls
    /\ \E s \in Selected(all, {m \in Msg : Meets(m)}) : filtered' = kept \o s
    /\ Broadcast
    /\ UNCHANGED <<all, sent, state, cur, errors, late, ghost, calls, world>>

\* Does not empty the filter set first.
RunFilterAppends(c) == RunFilterFrom(c, filtered)

messageQueueRunFilter(c) == RunFilterFrom(c, <<>>)

\* messageQueueRemove until it has unlinked the message and waits for the thread to end
\* the processing.
messageQueueRemove(c, m) ==
    /\ Call(c)
    /\ "remove" \in Calls
    /\ m \in Elements(all) \cup sent
    /\ filtered' = Removed(filtered, m)
    /\ all' = Removed(all, m)
    /\ sent' = IF m \in Elements(all) THEN sent ELSE sent \ {m}
    /\ pc' = [pc EXCEPT ![c] = IF m \in Elements(all) THEN "remove" ELSE "removeSent"]
    /\ hold' = [hold EXCEPT ![c] = m]
    /\ UNCHANGED <<state, th, cur, errors, late, ghost, freed, world>>

Return(c) ==
    /\ pc' = [pc EXCEPT ![c] = "idle"]
    /\ hold' = [hold EXCEPT ![c] = NoMsg]
    /\ freed' = freed

\* messageQueueRemove after waitOnProcessingLocked.
RemoveFinish(c) ==
    /\ Lock /\ ~Busy
    /\ pc[c] \in {"remove", "removeSent"}
    /\ ended' = Ended(hold[c])
    /\ IF pc[c] = "removeSent" THEN Broadcast ELSE th' = th
    /\ Return(c)
    /\ UNCHANGED <<sets, state, cur, errors, late, fresh, world>>

ClearSets ==
    /\ ended' = [m \in Msg |-> ended[m] + (IF m \in sent THEN 1 ELSE 0)
                                        + (IF m \in Elements(all) THEN 1 ELSE 0)]
    /\ all' = <<>> /\ filtered' = <<>> /\ sent' = {}

\* messageQueueClear after waitOnProcessingLocked.
messageQueueClear(c) ==
    /\ Call(c) /\ ~Busy
    /\ "clear" \in Calls
    /\ ClearSets
    /\ UNCHANGED <<state, th, cur, errors, late, fresh, calls, world>>

\* messageQueueCompleted, or messageQueueCompletedCustomSearch without the broadcast, when
\* the reply to m arrives and m is in the sent set.
messageQueueCompleted(c, m) ==
    /\ Call(c)
    /\ "complete" \in Calls
    /\ m \in out \cap sent
    /\ sent' = sent \ {m}
    /\ out' = out \ {m}
    /\ pc' = [pc EXCEPT ![c] = "reply"]
    /\ hold' = [hold EXCEPT ![c] = m]
    /\ Broadcast \/ th' = th
    /\ UNCHANGED <<all, filtered, state, cur, errors, ghost, freed, late, up, links, delays>>

ContainsIf(c, ready) ==
    /\ Lock
    /\ pc[c] = "reply"
    /\ ready
    /\ ended' = IF hold[c] \in sent \cup Elements(all) THEN ended ELSE Ended(hold[c])
    /\ Return(c)
    /\ UNCHANGED <<sets, state, th, cur, errors, late, fresh, world>>

\* Does not wait for the message to be processed.
ContainsBusy(c) == ContainsIf(c, TRUE)

\* The receiver of the reply asks messageQueueContainsMessage, which waits for the thread
\* to end the processing, and destroys the message if the queue does not contain it.
messageQueueContainsMessage(c) == ContainsIf(c, ~Busy)

-----------------------------------------------------------------------------
messageQueueStartThread(c) ==
    /\ Call(c)
    /\ "start" \in Calls
    /\ state = "NOT_RUNNING"
    /\ state' = "RUNNING"
    /\ th' = "loop"
    /\ UNCHANGED <<sets, cur, errors, late, ghost, calls, world>>

\* messageQueueStopThread after waitOnProcessingLocked, on its own ("halt" when it does not
\* wait for the exit) or as the first step of messageQueueDestroy.
messageQueueStopThread(c, k) ==
    /\ Call(c) /\ ~Busy
    /\ k \in Calls \cap {"halt", "stop", "destroy"}
    /\ state' = IF state = "RUNNING" THEN "CANCELING" ELSE state
    /\ Broadcast
    /\ pc' = [pc EXCEPT ![c] =
                CASE k # "halt" /\ state = "RUNNING" -> k
                  [] k = "destroy" /\ state # "RUNNING" -> "clear"
                  [] OTHER -> "idle"]
    /\ UNCHANGED <<sets, cur, errors, late, ghost, hold, freed, world>>

StopFinishIf(c, dead) ==
    /\ Lock
    /\ pc[c] \in {"stop", "destroy"}
    /\ dead
    /\ pc' = [pc EXCEPT ![c] = IF pc[c] = "destroy" THEN "clear" ELSE "idle"]
    /\ UNCHANGED <<sets, state, th, cur, errors, late, ghost, hold, freed, world>>

\* Takes a thread that was told to exit for one that has exited.
StopFinishEarly(c) == StopFinishIf(c, state # "RUNNING")

\* The poll of isThreadDead succeeds.
StopFinish(c) == StopFinishIf(c, state = "NOT_RUNNING")

DestroyClear(c) ==
    /\ Lock /\ ~Busy
    /\ pc[c] = "clear"
    /\ ClearSets
    /\ pc' = [pc EXCEPT ![c] = "free"]
    /\ UNCHANGED <<state, th, cur, errors, late, fresh, hold, freed, world>>

DestroyFree(c) ==
    /\ Lock
    /\ pc[c] = "free"
    /\ pc' = [pc EXCEPT ![c] = "idle"]
    /\ freed' = TRUE
    /\ UNCHANGED <<sets, state, th, cur, errors, late, ghost, hold, world>>

-----------------------------------------------------------------------------
\* queueThread between two of its waits: told to cancel, at the limit of the sent set,
\* without a message, or with one to process.
ThreadCancel ==
    /\ Lock
    /\ th = "loop" /\ state = "CANCELING"
    /\ th' = "exit"
    /\ UNCHANGED <<sets, state, cur, errors, late, ghost, calls, world>>

ThreadPause ==
    /\ Lock
    /\ th = "loop" /\ state # "CANCELING"
    /\ Cardinality(sent) \geq MaxSent
    /\ th' = "waitSent"
    /\ UNCHANGED <<sets, state, cur, errors, late, ghost, calls, world>>

ThreadIdle ==
    /\ Lock
    /\ th = "loop" /\ state # "CANCELING"
    /\ Cardinality(sent) < MaxSent
    /\ filtered = <<>>
    /\ th' = "waitEmpty"
    /\ UNCHANGED <<sets, state, cur, errors, late, ghost, calls, world>>

\* The next message leaves both sets and, if it expects a reply, enters the sent set.
ThreadPop ==
    /\ Lock
    /\ th = "loop" /\ state # "CANCELING"
    /\ Cardinality(sent) < MaxSent
    /\ filtered # <<>>
    /\ cur' = Head(filtered)
    /\ filtered' = Tail(filtered)
    /\ all' = Removed(all, Head(filtered))
    /\ sent' = IF Head(filtered) \in Asks THEN sent \cup {Head(filtered)} ELSE sent
    /\ state' = "PROCESSING"
    /\ th' = "process"
    /\ UNCHANGED <<errors, late, ghost, calls, world>>

\* processFunc hands the message to the server, whose reply may arrive at once.
Transmit ==
    /\ ~freed
    /\ th = "process" /\ cur \in Asks
    /\ th' = "transmitted"
    /\ out' = out \cup {cur}
    /\ UNCHANGED <<sets, state, cur, errors, late, ghost, calls, up, links, delays>>

\* processFunc returns: the message was transmitted or, without reply, delivered.
ProcessSuccess ==
    /\ Lock
    /\ th = IF cur \in Asks THEN "transmitted" ELSE "process"
    /\ ended' = IF cur \in Asks THEN ended ELSE Ended(cur)
    /\ state' = "RUNNING" /\ th' = "loop" /\ cur' = NoMsg
    /\ UNCHANGED <<sets, errors, late, fresh, calls, world>>

\* PROCESS_MSG_SUCCESS_HANDLED or PROCESS_MSG_INVALID.
ProcessFinal ==
    /\ Lock
    /\ th = "process"
    /\ sent' = sent \ {cur}
    /\ ended' = Ended(cur)
    /\ state' = "RUNNING" /\ th' = "loop" /\ cur' = NoMsg
    /\ UNCHANGED <<all, filtered, errors, late, fresh, calls, world>>

\* The message goes back to the end of the queue with n errors, unless these are too many;
\* t is where the thread goes when the message is kept.
Requeue(m, n, t) ==
    /\ errors' = [errors EXCEPT ![m] = n]
    /\ sent' = sent \ {m}
    /\ IF n \leq NumRetries
       THEN Enqueue(m) /\ ended' = ended /\ th' = t
       ELSE UNCHANGED <<all, filtered>> /\ ended' = Ended(m) /\ th' = IF t = "delay" THEN "loop" ELSE t

\* Forgets the message that could not be sent.
ProcessFailureDrops ==
    /\ Lock
    /\ th = "process"
    /\ errors' = [errors EXCEPT ![cur] = @ + 1]
    /\ sent' = sent \ {cur}
    /\ th' = "delay" /\ state' = "RUNNING" /\ cur' = NoMsg
    /\ UNCHANGED <<all, filtered, late, ghost, calls, world>>

\* PROCESS_MSG_SEND_FAILURE
ProcessFailure ==
    /\ Lock
    /\ th = "process"
    /\ Requeue(cur, errors[cur] + 1, "delay")
    /\ state' = "RUNNING" /\ cur' = NoMsg
    /\ UNCHANGED <<late, fresh, calls, world>>

\* PROCESS_MSG_DELAY_SEND
ProcessDelay ==
    /\ Lock
    /\ th = "process"
    /\ delays < MaxDelays
    /\ delays' = delays + 1
    /\ sent' = sent \ {cur}
    /\ Enqueue(cur)
    /\ th' = "delay" /\ state' = "RUNNING" /\ cur' = NoMsg
    /\ UNCHANGED <<errors, late, ghost, calls, out, up, links>>

\* A wait ends by itself: its time is over, or for no reason.
WaitEnds ==
    /\ ~freed
    /\ th \in {"waitSent", "waitEmpty", "delay"}
    /\ th' \in {Awake(th), IF th = "waitEmpty" THEN "timedOut" ELSE Awake(th)}
    /\ UNCHANGED <<sets, state, cur, errors, late, ghost, calls, world>>

\* checkSentHashForTimeouts: the thread takes the mutex and keeps it until it has
\* dealt with all messages whose tracker has expired by now.
CheckBegin ==
    /\ Lock
    /\ th = "timedOut"
    /\ late' \in SUBSET sent
    /\ th' = "check"
    /\ UNCHANGED <<sets, state, cur, errors, ghost, calls, world>>

CheckMessage(m) ==
    /\ th = "check" /\ ~freed
    /\ m \in late
    /\ Requeue(m, errors[m] + 1, "check")
    /\ late' = late \ {m}
    /\ out' = IF LateReplies THEN out ELSE out \ {m}
    /\ UNCHANGED <<state, cur, fresh, calls, up, links, delays>>

CheckEnd ==
    /\ th = "check" /\ ~freed
    /\ late = {}
    /\ th' = "loop"
    /\ UNCHANGED <<sets, state, cur, errors, late, ghost, calls, world>>

ThreadExitAs(s) ==
    /\ Lock
    /\ th = "exit"
    /\ state' = s
    /\ th' = "none"
    /\ UNCHANGED <<sets, cur, errors, late, ghost, calls, world>>

\* Leaves without saying so.
ThreadExitSilent == ThreadExitAs(state)

ThreadExit == ThreadExitAs("NOT_RUNNING")

-----------------------------------------------------------------------------
\* What the filter depends on changes; messageQueueRunFilter is called later, if at all.
LinkChange ==
    /\ ~freed
    /\ links < MaxLink
    /\ links' = links + 1
    /\ up' = ~up
    /\ UNCHANGED <<sets, state, th, cur, errors, late, ghost, calls, out, delays>>

Process == ProcessSuccess \/ ProcessFinal \/ ProcessFailure \/ ProcessDelay

Thread == ThreadCancel \/ ThreadPause \/ ThreadIdle \/ ThreadPop \/ CheckBegin
          \/ (\E m \in Msg : CheckMessage(m)) \/ CheckEnd \/ ThreadExit

Finish(c) ==
    \/ RemoveFinish(c) \/ messageQueueContainsMessage(c)
    \/ StopFinish(c) \/ DestroyClear(c) \/ DestroyFree(c)

Next ==
    \/ \E c \in Client :
          \/ \E m \in Msg : \/ messageQueueAppend(c, m) \/ messageQueueRemove(c, m)
                            \/ messageQueueCompleted(c, m)
          \/ messageQueueRunFilter(c) \/ messageQueueClear(c) \/ messageQueueStartThread(c)
          \/ \E k \in {"halt", "stop", "destroy"} : messageQueueStopThread(c, k)
          \/ Finish(c)
    \/ Thread \/ Transmit \/ Process \/ WaitEnds
    \/ LinkChange

\* The thread runs, processFunc returns, the waits and trackers run out, and clients end
\* the calls they are in; they get the mutex although the thread takes it again and again,
\* because the thread gives it up for whole seconds when it waits.
Fairness ==
    /\ WF_vars(Thread) /\ WF_vars(Transmit \/ Process) /\ WF_vars(WaitEnds /\ th' # "loop")
    /\ WF_vars(WaitEnds /\ th = "delay")
    /\ \A m \in Msg : SF_vars(CheckBegin /\ m \in late')
    /\ \A c \in Client : SF_vars(Finish(c))

Spec == Init /\ [][Next]_vars

FairSpec == Spec /\ Fairness

-----------------------------------------------------------------------------
\* The type of the state.
TypeOK ==
    /\ all \in Seq(Msg) /\ filtered \in Seq(Msg) /\ sent \subseteq Msg
    /\ state \in State /\ th \in Where /\ cur \in Msg \cup {NoMsg}
    /\ errors \in [Msg -> Nat] /\ ended \in [Msg -> Nat]
    /\ late \subseteq Msg /\ fresh \subseteq Msg /\ out \subseteq Msg
    /\ pc \in [Client -> PC] /\ hold \in [Client -> Msg \cup {NoMsg}]
    /\ freed \in BOOLEAN /\ up \in BOOLEAN /\ links \in Nat /\ delays \in Nat

\* The filter set is a subsequence of the all set, which holds no message twice and none
\* that is in the sent set: a message is never sent out of order, never "duplicated to the
\* server", and its id never clashes with the sent set.
FilterInOrder ==
    /\ \A i, j \in 1..Len(all) : all[i] = all[j] => i = j
    /\ \A i \in 1..Len(filtered) : filtered[i] \in Elements(all)
    /\ \A i, j \in 1..Len(filtered) : \A a, b \in 1..Len(all) :
          i < j /\ filtered[i] = all[a] /\ filtered[j] = all[b] => a < b
    /\ Elements(all) \cap sent = {}

\* threadState says what the thread does, so that nobody meets the state that queueThread
\* logs as an error after processFunc, and the thread never sleeps on a message that it
\* could process or on a request to stop.
ThreadInformed ==
    /\ th \in {"process", "transmitted"} <=> state = "PROCESSING"
    /\ th = "none" <=> state = "NOT_RUNNING"
    /\ th = "exit" => state = "CANCELING"
    /\ th \in {"waitSent", "waitEmpty", "delay"} => state = "RUNNING"
    /\ th = "waitEmpty" => filtered = <<>>

\* A message whose life has not ended is somewhere: in a set, in processing or in the
\* hands of a client.
NoLeak ==
    \A m \in Msg \ fresh : ended[m] = 0 =>
        m \in Elements(all) \cup sent \/ cur = m \/ \E c \in Client : hold[c] = m

\* The two lists and the set of sent messages hold every message that has not ended, each in
\* one place, and the filtered list in the order of the full one.
MessagesKept == FilterInOrder /\ NoLeak

\* "Notify and complete each end the message lifecycle; These are mutually exclusive
\* paths": the life of a message ends once, and the queue does not use it afterwards.
EndsOnce ==
    \A m \in Msg :
        /\ ended[m] \leq 1
        /\ ended[m] = 1 => m \notin Elements(all) \cup sent \cup fresh /\ cur # m

\* With the thread running, every message that is appended and needs no link ends, whether
\* the server replies or not, and also when the queue is cleared or destroyed meanwhile,
\* unless the queue is freed while a client is still inside a call for the message.
EveryMessageEnds ==
    \A m \in Msg \ NeedsLink :
        (m \notin fresh /\ state # "NOT_RUNNING")
            ~> (ended[m] = 1 \/ (freed /\ \E c \in Client : hold[c] = m))

\* messageQueueStopThread and messageQueueDestroy: "this will block until the thread exits".
StopReturns == \A c \in Client : pc[c] \in {"stop", "destroy"} ~> pc[c] \notin {"stop", "destroy"}

\* messageQueueDestroy frees the queue when its thread is gone.
ThreadGoneWhenFreed == freed => th = "none"

\* NO_MAX_RETRIES_LIMIT is for "a message that should never be pitched due to too many
\* errors": such a message does not end because of its error count.
NeverPitched == \A m \in Msg : errors[m] > NumRetries => ended[m] = 0
=============================================================================
