-------------------------------- MODULE Zhal --------------------------------
(***************************************************************************)
(* The Zigbee HAL client (libs/zhal/c/src/zhalImpl.c): the threads that    *)
(* call zhalSendRequest, the one worker thread that hands their requests   *)
(* to ZigbeeCore, and the detached thread that zhalAsyncReceiver.c starts  *)
(* for each response that comes back.                                      *)
(*                                                                         *)
(* A request is its WorkItem, and each is sent once.  One step is one      *)
(* critical section.  The item's own mutex is a variable, since the worker *)
(* holds it across the exchange with ZigbeeCore; a section under           *)
(* deviceQueuesMutex, a queue's mutex, asyncRequestsMutex or workerMutex   *)
(* is one step, and so is the worker's scan of all the device queues, each *)
(* of which it visits once.                                                *)
(*                                                                         *)
(* An exchange with ZigbeeCore may fail before the request is delivered,   *)
(* with a refusal, or after ZigbeeCore took it; a response may be lost; a  *)
(* wait on a condition may end with no signal.  mishap records the two     *)
(* that the code is not written for, a failure after delivery and a wait   *)
(* that ends by itself; its promises are stated for runs without them.     *)
(* Unlucky are the requests that may meet with these, Prone the ones that  *)
(* may meet with the others and whose timers may expire.                   *)
(***************************************************************************)
EXTENDS Integers, Sequences, Lists

CONSTANTS Request, Device, DeviceOf, Prone, Unlucky, NULL

ASSUME ZhalAssumption ==
  /\ DeviceOf \in [Request -> Device]
  /\ NULL \notin Request
  /\ Prone \subseteq Request /\ Unlucky \subseteq Request

VARIABLES
  queue,      \* the requests waiting in each device's queue
  isBusy,     \* each device queue's busy counter
  async,      \* asyncRequests: the items awaiting a response
  mtx,        \* who holds each item's mutex
  timedOut,   \* the items marked timedOut
  freed,      \* the items destroyed
  sender,     \* where each zhalSendRequest call is
  worker,     \* where the worker thread is
  avail,      \* availableWork: the items the worker has taken and not done with
  current,    \* the one it is at
  sent,       \* the requests ZigbeeCore has and has not answered
  handler,    \* where each response's thread is
  mishap      \* history: something happened that the code does not expect

core == <<sent, handler, mishap>>
item == <<mtx, timedOut, freed>>
work == <<avail, current>>
vars == <<queue, isBusy, async, mtx, timedOut, freed,
          sender, worker, avail, current, sent, handler, mishap>>

TypeOK ==
  /\ queue \in [Device -> Seq(Request)]
  /\ isBusy \in [Device -> Int]
  /\ async \subseteq Request
  /\ mtx \in [Request -> {"free", "sender", "worker"}]
  /\ timedOut \subseteq Request
  /\ freed \subseteq Request
  /\ sender \in [Request -> {"idle", "pushed", "waiting", "woken", "expired",
                             "pending", "absent", "signal", "ended", "done"}]
  /\ worker \in {"scan", "asleep", "work", "busy", "xmit", "reply", "failed", "unbusy"}
  /\ avail \subseteq Request
  /\ current \in Request \union {NULL}
  /\ sent \subseteq Request
  /\ handler \in [Request -> {"none", "take", "busy", "lock", "signal", "done"}]
  /\ mishap \in BOOLEAN

\* zhalInit: an empty table of each kind and a worker about to look for work.
Init ==
  /\ queue = [d \in Device |-> <<>>]
  /\ isBusy = [d \in Device |-> 0]
  /\ async = {}
  /\ mtx = [r \in Request |-> "free"]
  /\ timedOut = {}
  /\ freed = {}
  /\ sender = [r \in Request |-> "idle"]
  /\ worker = "scan"
  /\ avail = {}
  /\ current = NULL
  /\ sent = {}
  /\ handler = [r \in Request |-> "none"]
  /\ mishap = FALSE

----------------------------------------------------------------------------
\* pthread_cond_signal(&workerCond) under workerMutex: no use unless the worker waits.
SignalWorker == worker' = IF worker = "asleep" THEN "scan" ELSE worker

\* pthread_cond_signal(&item->cond).
SignalItem(r) ==
  sender' = [sender EXCEPT ![r] = IF @ = "waiting" THEN "woken" ELSE @]

Busier(d, n) == isBusy' = [isBusy EXCEPT ![d] = @ + n]

Contains(q, r) == \E i \in 1..Len(q) : q[i] = r

\* queueDelete of an item: a queue holds it once if at all.
queueDelete(q, r) ==
  IF Contains(q, r) THEN Without(q, CHOOSE i \in 1..Len(q) : q[i] = r) ELSE q

SenderAt(r, from, to) == sender[r] = from /\ sender' = [sender EXCEPT ![r] = to]

----------------------------------------------------------------------------
(***************************************************************************)
(* zhalSendRequest.                                                        *)
(***************************************************************************)

\* Lock the item before the worker can get it and push it on its device's queue.
SendPush(r) ==
  /\ SenderAt(r, "idle", "pushed")
  /\ mtx' = [mtx EXCEPT ![r] = "sender"]
  /\ queue' = [queue EXCEPT ![DeviceOf[r]] = Append(@, r)]
  /\ UNCHANGED <<isBusy, async, timedOut, freed, worker, work, core>>

\* Tell the worker and wait on the item's condition, which gives up its mutex.
SendWait(r) ==
  /\ SenderAt(r, "pushed", "waiting")
  /\ mtx' = [mtx EXCEPT ![r] = "free"]
  /\ SignalWorker
  /\ UNCHANGED <<queue, isBusy, async, timedOut, freed, work, core>>

\* The wait ends with ETIMEDOUT; the mutex is still to be taken back.
Expire(r) ==
  /\ r \in Prone
  /\ SenderAt(r, "waiting", "expired")
  /\ UNCHANGED <<queue, isBusy, async, item, worker, work, core>>

\* The wait is one call, not a loop on a condition.
WakeSpuriously(r) ==
  /\ r \in Unlucky
  /\ SenderAt(r, "waiting", "woken")
  /\ mishap' = TRUE
  /\ UNCHANGED <<queue, isBusy, async, item, worker, work, sent, handler>>

\* Timed out: take the item out of asyncRequests.
ExpireAsync(r) ==
  /\ mtx[r] = "free"
  /\ SenderAt(r, "expired", IF r \in async THEN "pending" ELSE "absent")
  /\ mtx' = [mtx EXCEPT ![r] = "sender"]
  /\ async' = async \ {r}
  /\ UNCHANGED <<queue, isBusy, timedOut, freed, worker, work, core>>

InQueue(r) == Contains(queue[DeviceOf[r]], r)

GiveBackNothing(r) == 0

\* What a timed out request takes off its device's busy counter.
GiveBack(r) == IF sender[r] = "pending" THEN 1 ELSE 0

\* Then out of its queue.  A request that was pending gives its device back; one found in
\* neither place is left, marked, to whoever holds it.
ExpireQueue(r) ==
  /\ sender[r] \in {"pending", "absent"}
  /\ queue' = [queue EXCEPT ![DeviceOf[r]] = queueDelete(@, r)]
  /\ Busier(DeviceOf[r], -GiveBack(r))
  /\ timedOut' = IF sender[r] = "absent" /\ ~InQueue(r)
                 THEN timedOut \union {r} ELSE timedOut
  /\ sender' = [sender EXCEPT ![r] = "signal"]
  /\ UNCHANGED <<async, mtx, freed, worker, work, core>>

\* There may be work for the device that was given back; unlock the item.
ExpireSignal(r) ==
  /\ SenderAt(r, "signal", "ended")
  /\ mtx' = [mtx EXCEPT ![r] = "free"]
  /\ SignalWorker
  /\ UNCHANGED <<queue, isBusy, async, timedOut, freed, work, core>>

\* Signalled: take the response, NULL if the exchange failed, and unlock the item.
SendWoken(r) ==
  /\ mtx[r] = "free"
  /\ SenderAt(r, "woken", "ended")
  /\ UNCHANGED <<queue, isBusy, async, item, worker, work, core>>

MarkedNever(r) == {FALSE}

\* What reading timedOut may give: anything, once the item is destroyed.
Marked(r) == IF r \in freed THEN BOOLEAN ELSE {r \in timedOut}

\* Read timedOut again, with the item unlocked, and destroy the item unless it is set.
SendEnd(r) ==
  /\ SenderAt(r, "ended", "done")
  /\ \E marked \in Marked(r) : freed' = IF marked THEN freed ELSE freed \union {r}
  /\ UNCHANGED <<queue, isBusy, async, mtx, timedOut, worker, work, core>>

----------------------------------------------------------------------------
(***************************************************************************)
(* workerThreadProc and workOnItem.                                        *)
(***************************************************************************)

\* queueIterate: on to another item, or, when all have been processed, to another look.
NextItem ==
  /\ avail' = avail \ {current}
  /\ \/ avail' = {} /\ worker' = "scan" /\ current' = NULL
     \/ avail' # {} /\ worker' = "work" /\ current' \in avail'

\* getAvailableWork: a device with nothing outstanding and something queued.
Ready == {d \in Device : isBusy[d] = 0 /\ queue[d] # <<>>}

\* Pop one item of each ready device, to be worked on in the order of the hash map ...
ScanFinds ==
  /\ worker = "scan"
  /\ Ready # {}
  /\ worker' = "work"
  /\ avail' = {Head(queue[d]) : d \in Ready}
  /\ current' \in avail'
  /\ queue' = [d \in Device |-> IF d \in Ready THEN Tail(queue[d]) ELSE queue[d]]
  /\ UNCHANGED <<isBusy, async, item, sender, core>>

\* ... or wait for a signal.
ScanWaits ==
  /\ worker = "scan"
  /\ Ready = {}
  /\ worker' = "asleep"
  /\ UNCHANGED <<queue, isBusy, async, item, sender, work, core>>

\* workOnItem: an item its sender gave up is destroyed.
WorkOnTimedOut ==
  /\ worker = "work"
  /\ mtx[current] = "free"
  /\ current \in timedOut
  /\ freed' = freed \union {current}
  /\ NextItem
  /\ UNCHANGED <<queue, isBusy, async, mtx, timedOut, sender, core>>

\* Any other is locked and put in asyncRequests.
WorkOnItem ==
  /\ worker = "work"
  /\ mtx[current] = "free"
  /\ current \notin timedOut
  /\ mtx' = [mtx EXCEPT ![current] = "worker"]
  /\ async' = async \union {current}
  /\ worker' = "busy"
  /\ UNCHANGED <<queue, isBusy, timedOut, freed, sender, work, core>>

\* Set the device queue busy.
WorkBusy ==
  /\ worker = "busy"
  /\ Busier(DeviceOf[current], 1)
  /\ worker' = "xmit"
  /\ UNCHANGED <<queue, async, item, sender, work, core>>

\* xmit: the request reaches ZigbeeCore, which may answer at once.
XmitSend ==
  /\ worker = "xmit"
  /\ sent' = sent \union {current}
  /\ worker' = "reply"
  /\ UNCHANGED <<queue, isBusy, async, item, sender, work, handler, mishap>>

\* No connection, or the send fails.
XmitConnectFails ==
  /\ worker = "xmit" /\ current \in Prone
  /\ worker' = "failed"
  /\ UNCHANGED <<queue, isBusy, async, item, sender, work, core>>

\* The synchronous reply says yes: unlock the item, its response will complete it.
XmitAccepted ==
  /\ worker = "reply"
  /\ mtx' = [mtx EXCEPT ![current] = "free"]
  /\ NextItem
  /\ UNCHANGED <<queue, isBusy, async, timedOut, freed, sender, core>>

\* It says no, and no response will follow.
XmitRefused ==
  /\ worker = "reply"
  /\ current \in sent \intersect Prone
  /\ sent' = sent \ {current}
  /\ worker' = "failed"
  /\ UNCHANGED <<queue, isBusy, async, item, sender, work, handler, mishap>>

\* It does not come in time, or not whole, though ZigbeeCore took the request.
XmitLate ==
  /\ worker = "reply" /\ current \in Unlucky
  /\ worker' = "failed"
  /\ mishap' = TRUE
  /\ UNCHANGED <<queue, isBusy, async, item, sender, work, sent, handler>>

\* The exchange failed: take the item out of asyncRequests.
FailAsync ==
  /\ worker = "failed"
  /\ async' = async \ {current}
  /\ worker' = "unbusy"
  /\ UNCHANGED <<queue, isBusy, item, sender, work, core>>

\* Clear busy, whoever took the item out, signal its sender and unlock it.
FailSignal ==
  /\ worker = "unbusy"
  /\ Busier(DeviceOf[current], -1)
  /\ SignalItem(current)
  /\ mtx' = [mtx EXCEPT ![current] = "free"]
  /\ NextItem
  /\ UNCHANGED <<queue, async, timedOut, freed, core>>

Worker ==
  \/ ScanFinds \/ ScanWaits \/ WorkOnTimedOut \/ WorkOnItem \/ WorkBusy
  \/ XmitSend \/ XmitConnectFails \/ XmitAccepted \/ XmitRefused \/ XmitLate
  \/ FailAsync \/ FailSignal

----------------------------------------------------------------------------
(***************************************************************************)
(* ZigbeeCore's responses and handleIpcResponse.                           *)
(***************************************************************************)

HandlerAt(r, from, to) == handler[r] = from /\ handler' = [handler EXCEPT ![r] = to]

\* The receiver gets the response and starts a thread for it.
Receive(r) ==
  /\ r \in sent
  /\ sent' = sent \ {r}
  /\ HandlerAt(r, "none", "take")
  /\ UNCHANGED <<queue, isBusy, async, item, sender, worker, work, mishap>>

\* The datagram is lost, or ZigbeeCore never answers.
Lose(r) ==
  /\ r \in sent \intersect Prone
  /\ sent' = sent \ {r}
  /\ UNCHANGED <<queue, isBusy, async, item, sender, worker, work, handler, mishap>>

\* Look the item up in asyncRequests and take it out.
HandleTake(r) ==
  /\ HandlerAt(r, "take", IF r \in async THEN "busy" ELSE "signal")
  /\ async' = async \ {r}
  /\ UNCHANGED <<queue, isBusy, item, sender, worker, work, sent, mishap>>

\* Clear busy for its device queue.
HandleBusy(r) ==
  /\ HandlerAt(r, "busy", "lock")
  /\ Busier(DeviceOf[r], -1)
  /\ UNCHANGED <<queue, async, item, sender, worker, work, sent, mishap>>

\* Lock the item, set its response and signal its sender.
HandleItem(r) ==
  /\ mtx[r] = "free"
  /\ HandlerAt(r, "lock", "signal")
  /\ SignalItem(r)
  /\ UNCHANGED <<queue, isBusy, async, mtx, timedOut, freed, worker, work, sent, mishap>>

HandleSilently(r) ==
  /\ HandlerAt(r, "signal", "done")
  /\ UNCHANGED <<queue, isBusy, async, item, sender, worker, work, sent, mishap>>

\* Let the worker take another look.
HandleSignal(r) ==
  /\ HandlerAt(r, "signal", "done")
  /\ SignalWorker
  /\ UNCHANGED <<queue, isBusy, async, item, sender, work, sent, mishap>>

Handle(r) == HandleTake(r) \/ HandleBusy(r) \/ HandleItem(r) \/ HandleSignal(r)

----------------------------------------------------------------------------
Send(r) ==
  \/ SendWait(r) \/ ExpireAsync(r) \/ ExpireQueue(r) \/ ExpireSignal(r)
  \/ SendWoken(r) \/ SendEnd(r)

Next ==
  \/ Worker
  \/ \E r \in Request :
        \/ SendPush(r) \/ Send(r) \/ Expire(r) \/ WakeSpuriously(r)
        \/ Receive(r) \/ Lose(r) \/ Handle(r)

Spec == Init /\ [][Next]_vars

Lost(r) == sender[r] = "waiting" /\ r \in async /\ r \notin sent /\ handler[r] # "take"

(***************************************************************************)
(* Every thread runs and ZigbeeCore's responses arrive.  A timer is        *)
(* assumed to expire only where no response can come any more, so that a   *)
(* request which could be answered has to be.                              *)
(***************************************************************************)
FairSpec ==
  /\ Spec
  /\ WF_vars(Worker)
  /\ \A r \in Request :
        /\ WF_vars(Send(r) \/ (Expire(r) /\ Lost(r)))
        /\ WF_vars(Receive(r) \/ Handle(r))

----------------------------------------------------------------------------
\* The request has taken its device: it is pending since the worker set busy, or someone
\* took it out of asyncRequests and has not cleared busy yet.
InFlight(r) ==
  \/ r \in async /\ ~(worker = "busy" /\ r = current)
  \/ sender[r] = "pending"
  \/ handler[r] = "busy"
  \/ worker \in {"failed", "unbusy"} /\ r = current

(***************************************************************************)
(* A device queue's counter is the number of its requests in flight, and   *)
(* there is never more than one: whoever takes a request out of            *)
(* asyncRequests (its response, its timed out sender, the worker whose     *)
(* exchange failed) clears busy once for it, so a device is neither given  *)
(* two requests at a time nor shut out.                                    *)
(***************************************************************************)
BusyCounts ==
  ~mishap => \A d \in Device :
     LET flying == {r \in Request : DeviceOf[r] = d /\ InFlight(r)}
     IN  \/ flying = {} /\ isBusy[d] = 0
         \/ \E r \in Request : flying = {r} /\ isBusy[d] = 1

\* The tables and threads, the sender's own call aside, that still lead to the item.
Reachable(r) ==
  \/ r \in async
  \/ InQueue(r)
  \/ r \in avail
  \/ handler[r] \in {"busy", "lock"}

(***************************************************************************)
(* An item is destroyed only when it can no longer be found: no queue or   *)
(* table holds it, the worker has not taken it and no response's thread is *)
(* about to complete it.                                                   *)
(***************************************************************************)
FreedUnreachable == ~mishap => \A r \in freed : ~Reachable(r)

(***************************************************************************)
(* An item is destroyed only after its sender has stopped looking at it    *)
(* too.  zhalSendRequest leaves a marked item to the worker, and then      *)
(* reads the mark again with the item unlocked.                            *)
(***************************************************************************)
FreedAfterSender == ~mishap => \A r \in freed : sender[r] = "done"

(***************************************************************************)
(* zhalSendRequest returns, and without its timer unless the response is   *)
(* lost: no signal to the worker or to the sender is missed.               *)
(***************************************************************************)
EveryRequestEnds ==
  <>mishap \/ []<>(\A r \in Request : sender[r] \in {"idle", "done"})
=============================================================================
