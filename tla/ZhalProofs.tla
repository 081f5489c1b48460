----------------------------- MODULE ZhalProofs -----------------------------
(***************************************************************************)
(* Zhal, for any number of devices and requests: a device's busy counter   *)
(* counts its requests in flight, of which there is at most one, and an    *)
(* item is destroyed only when no table or thread leads to it any more.    *)
(*                                                                         *)
(* Neither is inductive.  The invariant says where a request can be given  *)
(* where its sender is: in its queue, among the items of the worker, in    *)
(* asyncRequests or in the hands of a response's thread, and in no two of  *)
(* them, except for the item that the worker is transmitting.              *)
(***************************************************************************)
EXTENDS Zhal, TLAPS

\* Removing one element (queueDelete, linkedListDelete) leaves a sequence of the same kind
\* that is one shorter.
LEMMA WithoutIsSeq ==
    ASSUME NEW S, NEW s \in Seq(S), NEW k \in 1..Len(s)
    PROVE  /\ Without(s, k) \in Seq(S)
           /\ Len(Without(s, k)) = Len(s) - 1
           /\ \A i \in 1..(Len(s) - 1) :
                 Without(s, k)[i] = IF i < k THEN s[i] ELSE s[i + 1]
<1> DEFINE n == Len(s)
<1>1. n \in Nat /\ n - 1 \in Nat /\ \A i \in 1..n : s[i] \in S
  OBVIOUS
<1>2. \A i \in 1..(n - 1) : (IF i < k THEN s[i] ELSE s[i + 1]) \in S
  BY <1>1
<1>3. Without(s, k) = [i \in 1..(n - 1) |-> IF i < k THEN s[i] ELSE s[i + 1]]
  BY DEF Without
<1> HIDE DEF n
<1>4. Without(s, k) \in Seq(S)
  BY <1>1, <1>2, <1>3
<1>5. Len(Without(s, k)) = n - 1
  BY <1>1, <1>3
<1> QED
  BY <1>3, <1>4, <1>5 DEF n

USE Zenon

\* The worker is in workOnItem with the item's mutex.
Engaged == worker \in {"busy", "xmit", "reply", "failed", "unbusy"}

\* A request is in no queue but its own device's, and there once.
Once(q) == \A i, j \in 1..Len(q) : q[i] = q[j] => i = j

QueueInv ==
  \A d \in Device : /\ Once(queue[d])
                    /\ \A r \in Request : Contains(queue[d], r) => DeviceOf[r] = d

\* What the worker has in hand ...
HandInv ==
  /\ worker \in {"scan", "asleep"} => avail = {} /\ current = NULL
  /\ worker \notin {"scan", "asleep"} => current \in avail

\* ... and its exchange with ZigbeeCore.
ExchangeInv ==
  Engaged =>
     /\ sender[current] \in {"waiting", "expired"} /\ current \notin timedOut
     /\ worker \in {"busy", "xmit", "failed"} => current \in async
     /\ worker = "unbusy" => current \notin async
     /\ worker # "reply" => current \notin sent /\ handler[current] = "none"
     /\ worker = "reply" => current \in async \/ handler[current] \in {"busy", "lock"}

\* Who holds the item's mutex.
Locked(r) ==
  /\ mtx[r] = "sender" <=> sender[r] \in {"pushed", "pending", "absent", "signal"}
  /\ mtx[r] = "worker" <=> Engaged /\ r = current

\* A request that the worker has not yet put in asyncRequests ...
Early(r) == InQueue(r) \/ (r \in avail /\ ~(Engaged /\ r = current))

Queued(r) ==
  /\ Early(r) => sender[r] # "idle" /\ r \notin async /\ r \notin sent /\ handler[r] = "none"
  /\ Early(r) /\ r \notin timedOut => sender[r] \in {"pushed", "waiting", "expired", "absent"}
  /\ InQueue(r) => r \notin avail /\ r \notin timedOut
  /\ sender[r] = "idle" => r \notin async /\ r \notin sent /\ handler[r] = "none"
                           /\ r \notin avail /\ ~InQueue(r)

\* ... and one it has put there, until its response, its sender or the worker takes it out.
Pending(r) ==
  /\ r \in async => sender[r] \in {"waiting", "expired"} /\ handler[r] \in {"none", "take"}
  /\ r \in sent => handler[r] = "none"
  /\ handler[r] \in {"busy", "lock"} => /\ ~InQueue(r)
                                        /\ r \in avail => worker = "reply" /\ r = current
                                        /\ sender[r] \notin {"woken", "pending"}
  /\ sender[r] = "pending" => ~InQueue(r) /\ r \notin avail
  /\ sender[r] = "woken" => ~Reachable(r) /\ handler[r] # "take" /\ r \notin sent

\* What is left behind: a sender that gives up marks the item exactly if somebody else
\* still leads to it, and it is destroyed by whoever leads to it last.
Left(r) ==
  /\ r \in timedOut => sender[r] \in {"signal", "ended", "done"}
  /\ sender[r] \in {"signal", "ended", "done"} /\ Reachable(r) => r \in timedOut
  /\ r \in freed => ~Reachable(r) /\ sender[r] \in {"ended", "done"}

Life(r) == Locked(r) /\ Queued(r) /\ Pending(r) /\ Left(r)

\* The busy counters; a device whose item the worker has still to put in asyncRequests is
\* not busy.
CountInv ==
  /\ \A d \in Device : isBusy[d] \in {0, 1}
  /\ \A d \in Device : isBusy[d] = 1 => \E r \in Request : DeviceOf[r] = d /\ InFlight(r)
  /\ \A r \in Request : InFlight(r) => isBusy[DeviceOf[r]] = 1
  /\ \A r, s \in Request : InFlight(r) /\ InFlight(s) /\ DeviceOf[r] = DeviceOf[s] => r = s
  /\ \A r, s \in avail : DeviceOf[r] = DeviceOf[s] => r = s
  /\ \A r \in avail : worker \in {"work", "busy"} \/ r # current => isBusy[DeviceOf[r]] = 0

IInv ==
  /\ TypeOK /\ HandInv
  /\ ~mishap => QueueInv /\ ExchangeInv /\ CountInv /\ \A r \in Request : Life(r)

-----------------------------------------------------------------------------
(***************************************************************************)
(* Queues.                                                                 *)
(***************************************************************************)
\* queuePush: the item is in the queue, once.
LEMMA AppendHolds ==
  ASSUME NEW q \in Seq(Request), NEW r \in Request
  PROVE  /\ Append(q, r) \in Seq(Request)
         /\ \A x : Contains(Append(q, r), x) <=> Contains(q, x) \/ x = r
         /\ Once(q) /\ ~Contains(q, r) => Once(Append(q, r))
  <1>1. /\ Append(q, r) \in Seq(Request) /\ Len(Append(q, r)) = Len(q) + 1 /\ Len(q) \in Nat
        /\ \A i \in 1..Len(q) : Append(q, r)[i] = q[i]
        /\ Append(q, r)[Len(q) + 1] = r
    BY SMT
  <1>2. \A x : Contains(Append(q, r), x) <=> Contains(q, x) \/ x = r
    BY <1>1, SMT DEF Contains
  <1>3. Once(q) /\ ~Contains(q, r) => Once(Append(q, r))
    BY <1>1, SMT DEF Contains, Once
  <1> QED
    BY <1>1, <1>2, <1>3

\* queuePop of a queue that holds its items once: the first is gone, the others stay.
LEMMA TailHolds ==
  ASSUME NEW q \in Seq(Request), q # <<>>
  PROVE  /\ Tail(q) \in Seq(Request) /\ Head(q) \in Request /\ Contains(q, Head(q))
         /\ Once(q) => Once(Tail(q))
         /\ Once(q) => \A x : Contains(Tail(q), x) <=> Contains(q, x) /\ x # Head(q)
  <1>1. /\ Tail(q) \in Seq(Request) /\ Len(q) \in Nat \ {0} /\ Len(Tail(q)) = Len(q) - 1
        /\ Head(q) = q[1] /\ Head(q) \in Request
        /\ \A i \in 1..Len(Tail(q)) : Tail(q)[i] = q[i + 1]
    BY SMT
  <1>2. Contains(q, Head(q))
    BY <1>1, SMT DEF Contains
  <1>3. Once(q) => Once(Tail(q))
    BY <1>1, SMT DEF Once
  <1>4. ASSUME Once(q), NEW x, Contains(Tail(q), x)
        PROVE  Contains(q, x) /\ x # Head(q)
    BY <1>1, <1>4, SMT DEF Once, Contains
  <1>5. ASSUME NEW x, Contains(q, x), x # Head(q)
        PROVE  Contains(Tail(q), x)
    <2>1. PICK i \in 1..Len(q) : q[i] = x
      BY <1>5 DEF Contains
    <2>2. i - 1 \in 1..Len(Tail(q)) /\ Tail(q)[i - 1] = x
      BY <1>1, <1>5, <2>1, SMT
    <2> QED
      BY <2>2 DEF Contains
  <1> QED
    BY <1>1, <1>2, <1>3, <1>4, <1>5

\* queueDelete: the item is gone, the others stay.
LEMMA DeleteHolds ==
  ASSUME NEW q \in Seq(Request), NEW r \in Request
  PROVE  /\ queueDelete(q, r) \in Seq(Request)
         /\ Once(q) => Once(queueDelete(q, r))
         /\ Once(q) => \A x : Contains(queueDelete(q, r), x) <=> Contains(q, x) /\ x # r
  <1>1. CASE ~Contains(q, r)
    BY <1>1 DEF queueDelete
  <1>2. CASE Contains(q, r)
    <2> DEFINE k == CHOOSE i \in 1..Len(q) : q[i] = r
               t == queueDelete(q, r)
    <2>1. k \in 1..Len(q) /\ q[k] = r /\ Len(q) \in Nat
      BY <1>2, SMT DEF Contains
    <2>2. t = Without(q, k)
      BY <1>2 DEF queueDelete
    <2> HIDE DEF k, t
    <2>3. /\ t \in Seq(Request) /\ Len(t) = Len(q) - 1
          /\ \A i \in 1..Len(t) : t[i] = IF i < k THEN q[i] ELSE q[i + 1]
      BY <2>1, <2>2, WithoutIsSeq
    <2>4. Once(q) => Once(t)
      <3> SUFFICES ASSUME Once(q), NEW i \in 1..Len(t), NEW j \in 1..Len(t), t[i] = t[j]
                   PROVE  i = j
        BY DEF Once
      <3> DEFINE p(n) == IF n < k THEN n ELSE n + 1
      <3>1. p(i) \in 1..Len(q) /\ p(j) \in 1..Len(q) /\ q[p(i)] = q[p(j)]
        BY <2>1, <2>3, SMT
      <3>2. p(i) = p(j)
        BY <3>1 DEF Once
      <3> QED
        BY <2>1, <3>2, SMT
    <2>5. ASSUME Once(q), NEW x, Contains(t, x)
          PROVE  Contains(q, x) /\ x # r
      <3>1. PICK i \in 1..Len(t) : t[i] = x
        BY <2>5 DEF Contains
      <3>2. CASE i < k
        BY <2>1, <2>3, <2>5, <3>1, <3>2, SMT DEF Contains, Once
      <3>3. CASE ~(i < k)
        BY <2>1, <2>3, <2>5, <3>1, <3>3, SMT DEF Contains, Once
      <3> QED
        BY <3>2, <3>3
    <2>6. ASSUME NEW x, Contains(q, x), x # r
          PROVE  Contains(t, x)
      <3>1. PICK i \in 1..Len(q) : q[i] = x
        BY <2>6 DEF Contains
      <3>2. CASE i < k
        BY <2>1, <2>3, <3>1, <3>2, SMT DEF Contains
      <3>3. CASE i > k
        <4>1. i - 1 \in 1..Len(t) /\ t[i - 1] = x
          BY <2>1, <2>3, <3>1, <3>3, SMT
        <4> QED
          BY <4>1 DEF Contains
      <3> QED
        BY <2>1, <2>6, <3>1, <3>2, <3>3, SMT
    <2> QED
      BY <2>3, <2>4, <2>5, <2>6 DEF t
  <1> QED
    BY <1>1, <1>2

(***************************************************************************)
(* Counters.                                                               *)
(***************************************************************************)
\* Set busy.
LEMMA MoreBusy ==
  ASSUME NEW d \in Device, isBusy \in [Device -> Int], Busier(d, 1)
  PROVE  /\ isBusy' \in [Device -> Int]
         /\ isBusy'[d] = isBusy[d] + 1
         /\ \A e \in Device \ {d} : isBusy'[e] = isBusy[e]
  BY SMT DEF Busier

\* Clear busy, or not.
LEMMA LessBusy ==
  ASSUME NEW d \in Device, NEW n \in {0, 1}, isBusy \in [Device -> Int], Busier(d, -n)
  PROVE  /\ isBusy' \in [Device -> Int]
         /\ isBusy'[d] = isBusy[d] - n
         /\ \A e \in Device \ {d} : isBusy'[e] = isBusy[e]
  BY SMT DEF Busier

\* What the worker has still to put in asyncRequests does not grow.
NoMoreWork ==
  \A x \in avail' : /\ x \in avail
                    /\ worker' \in {"work", "busy"} \/ x # current' =>
                         worker \in {"work", "busy"} \/ x # current

\* The request in flight of device d is over: the counter goes back to zero.
LEMMA CountDown ==
  ASSUME CountInv, NEW d \in Device, NoMoreWork, avail \subseteq Request, avail' \subseteq Request,
         \A e \in Device : isBusy'[e] = IF e = d THEN 0 ELSE isBusy[e],
         \A x \in Request : InFlight(x)' <=> InFlight(x) /\ DeviceOf[x] # d
  PROVE  CountInv'
  <1> USE ZhalAssumption
  <1>1. \A e \in Device : isBusy'[e] \in {0, 1}
    BY DEF CountInv
  <1>2. ASSUME NEW e \in Device, isBusy'[e] = 1
        PROVE  \E r \in Request : DeviceOf[r] = e /\ InFlight(r)'
    <2>1. e # d /\ isBusy[e] = 1
      BY <1>2, SMT
    <2>2. PICK r \in Request : DeviceOf[r] = e /\ InFlight(r)
      BY <2>1 DEF CountInv
    <2> QED
      BY <2>1, <2>2
  <1>3. ASSUME NEW r \in Request, InFlight(r)'
        PROVE  isBusy'[DeviceOf[r]] = 1
    BY <1>3 DEF CountInv
  <1>4. \A r, s \in Request : InFlight(r)' /\ InFlight(s)' /\ DeviceOf[r] = DeviceOf[s] => r = s
    BY DEF CountInv
  <1>5. \A r, s \in avail' : DeviceOf[r] = DeviceOf[s] => r = s
    BY DEF CountInv, NoMoreWork
  <1>6. ASSUME NEW r \in avail', worker' \in {"work", "busy"} \/ r # current'
        PROVE  isBusy'[DeviceOf[r]] = 0
    <2>1. r \in avail /\ isBusy[DeviceOf[r]] = 0
      BY <1>6 DEF CountInv, NoMoreWork
    <2> QED
      BY <1>6, <2>1
  <1> QED
    BY <1>1, <1>2, <1>3, <1>4, <1>5, <1>6 DEF CountInv

\* Nothing begins or ends to be in flight.
LEMMA CountSame ==
  ASSUME CountInv, NoMoreWork, avail' \subseteq Request,
         \A e \in Device : isBusy'[e] = isBusy[e],
         \A x \in Request : InFlight(x)' <=> InFlight(x)
  PROVE  CountInv'
  <1> USE ZhalAssumption
  <1>1. \A r \in avail' : (worker' \in {"work", "busy"} \/ r # current') => isBusy'[DeviceOf[r]] = 0
    BY SMT DEF CountInv, NoMoreWork
  <1>2. \A r, s \in avail' : DeviceOf[r] = DeviceOf[s] => r = s
    BY DEF CountInv, NoMoreWork
  <1>3. \A e \in Device : isBusy'[e] = 1 => \E r \in Request : DeviceOf[r] = e /\ InFlight(r)'
    BY DEF CountInv
  <1>4. \A e \in Device : isBusy'[e] \in {0, 1}
    BY DEF CountInv
  <1>5. \A r \in Request : InFlight(r)' => isBusy'[DeviceOf[r]] = 1
    BY DEF CountInv
  <1>6. \A r, s \in Request : InFlight(r)' /\ InFlight(s)' /\ DeviceOf[r] = DeviceOf[s] => r = s
    BY DEF CountInv
  <1> QED
    BY <1>1, <1>2, <1>3, <1>4, <1>5, <1>6 DEF CountInv

\* An item pushed on its queue, locked.
LEMMA SendPushKeeps ==
  ASSUME IInv, NEW r \in Request, SendPush(r)
  PROVE  IInv'
  <1> USE ZhalAssumption DEF SendPush, SenderAt, core, item, work
  <1>1. TypeOK' /\ HandInv'
    <2>0. DeviceOf[r] \in Device /\ queue[DeviceOf[r]] \in Seq(Request)
      BY DEF IInv, TypeOK
    <2>1. Append(queue[DeviceOf[r]], r) \in Seq(Request)
      BY <2>0, AppendHolds
    <2>2. queue' \in [Device -> Seq(Request)]
      BY <2>1 DEF IInv, TypeOK
    <2> QED
      BY <2>2 DEF IInv, TypeOK, HandInv
  <1> SUFFICES ASSUME ~mishap
              PROVE  QueueInv' /\ ExchangeInv' /\ CountInv' /\ \A x \in Request : Life(x)'
    BY <1>1 DEF IInv
  <1>2. QueueInv' /\ \A x \in Request : InQueue(x)' <=> InQueue(x) \/ x = r
    <2>1. /\ \A d \in Device \ {DeviceOf[r]} : queue'[d] = queue[d]
          /\ queue'[DeviceOf[r]] = Append(queue[DeviceOf[r]], r)
          /\ queue[DeviceOf[r]] \in Seq(Request)
      BY DEF IInv, TypeOK
    <2>2. Once(queue[DeviceOf[r]]) /\ ~Contains(queue[DeviceOf[r]], r)
      BY DEF IInv, QueueInv, Life, Queued, InQueue
    <2>3. /\ Once(queue'[DeviceOf[r]])
          /\ \A x : Contains(queue'[DeviceOf[r]], x) <=> Contains(queue[DeviceOf[r]], x) \/ x = r
      BY <2>1, <2>2, AppendHolds, SMT
    <2> QED
      BY <2>1, <2>3 DEF IInv, QueueInv, InQueue
  <1>3. ExchangeInv'
    BY DEF IInv, TypeOK, HandInv, ExchangeInv, Engaged
  <1>4. ASSUME NEW x \in Request PROVE Life(x)'
    <2>1. Life(x) /\ (InQueue(x)' <=> InQueue(x) \/ x = r)
      BY <1>2 DEF IInv
    <2>2. Locked(x)'
      BY <2>1, SMT DEF IInv, TypeOK, HandInv, ExchangeInv, Engaged, Life, Locked, Queued,
         Early, Pending, Left, Reachable
    <2>3. Queued(x)'
      BY <2>1 DEF IInv, TypeOK, HandInv, ExchangeInv, Engaged, Life, Locked, Queued, Early,
         Pending, Left, Reachable
    <2>4. Pending(x)'
      BY <2>1 DEF IInv, TypeOK, HandInv, ExchangeInv, Engaged, Life, Locked, Queued, Early,
         Pending, Left, Reachable
    <2>5. Left(x)'
      BY <2>1 DEF IInv, TypeOK, HandInv, ExchangeInv, Engaged, Life, Locked, Queued, Early,
         Pending, Left, Reachable
    <2> QED
      BY <2>2, <2>3, <2>4, <2>5 DEF Life
  <1>5. \A x \in Request : InFlight(x)' <=> InFlight(x)
    BY DEF IInv, TypeOK, HandInv, ExchangeInv, Engaged, Life, Locked, Pending, InFlight
  <1>6. CountInv'
    BY <1>5, SMT DEF IInv, TypeOK, HandInv, CountInv
  <1> QED
    BY <1>2, <1>3, <1>4, <1>6

\* The sender waits and tells the worker.
LEMMA SendWaitKeeps ==
  ASSUME IInv, NEW r \in Request, SendWait(r)
  PROVE  IInv'
  <1> USE ZhalAssumption DEF SendWait, SenderAt, SignalWorker, core, item, work
  <1>1. TypeOK' /\ HandInv'
    BY DEF IInv, TypeOK, HandInv
  <1> SUFFICES ASSUME ~mishap
              PROVE  QueueInv' /\ ExchangeInv' /\ CountInv' /\ \A x \in Request : Life(x)'
    BY <1>1 DEF IInv
  <1>2. QueueInv' /\ \A x \in Request : InQueue(x)' <=> InQueue(x)
    BY DEF IInv, QueueInv, InQueue
  <1>3. ExchangeInv'
    BY DEF IInv, TypeOK, HandInv, ExchangeInv, Engaged
  <1>4. ASSUME NEW x \in Request PROVE Life(x)'
    <2>1. Life(x) /\ (InQueue(x)' <=> InQueue(x))
      BY <1>2 DEF IInv
    <2>2. Locked(x)'
      BY <2>1, SMT DEF IInv, TypeOK, HandInv, ExchangeInv, Engaged, Life, Locked, Queued,
         Early, Pending, Left, Reachable
    <2>3. Queued(x)'
      BY <2>1, SMT DEF IInv, TypeOK, HandInv, ExchangeInv, Engaged, Life, Locked, Queued,
         Early, Pending, Left, Reachable
    <2>4. Pending(x)'
      BY <2>1, SMT DEF IInv, TypeOK, HandInv, ExchangeInv, Engaged, Life, Locked, Queued,
         Early, Pending, Left, Reachable
    <2>5. Left(x)'
      BY <2>1, SMT DEF IInv, TypeOK, HandInv, ExchangeInv, Engaged, Life, Locked, Queued,
         Early, Pending, Left, Reachable
    <2> QED
      BY <2>2, <2>3, <2>4, <2>5 DEF Life
  <1>5. \A x \in Request : InFlight(x)' <=> InFlight(x)
    BY SMT DEF IInv, TypeOK, HandInv, ExchangeInv, Engaged, Life, Locked, Pending, InFlight
  <1>6. CountInv'
    BY <1>5 DEF IInv, TypeOK, HandInv, CountInv
  <1> QED
    BY <1>2, <1>3, <1>4, <1>6

\* The timer.
LEMMA ExpireKeeps ==
  ASSUME IInv, NEW r \in Request, Expire(r)
  PROVE  IInv'
  <1> USE ZhalAssumption DEF Expire, SenderAt, core, item, work
  <1>1. TypeOK' /\ HandInv'
    BY DEF IInv, TypeOK, HandInv
  <1> SUFFICES ASSUME ~mishap
              PROVE  QueueInv' /\ ExchangeInv' /\ CountInv' /\ \A x \in Request : Life(x)'
    BY <1>1 DEF IInv
  <1>2. QueueInv' /\ \A x \in Request : InQueue(x)' <=> InQueue(x)
    BY DEF IInv, QueueInv, InQueue
  <1>3. ExchangeInv'
    BY DEF IInv, TypeOK, HandInv, ExchangeInv, Engaged
  <1>4. ASSUME NEW x \in Request PROVE Life(x)'
    <2>1. Life(x) /\ (InQueue(x)' <=> InQueue(x))
      BY <1>2 DEF IInv
    <2>2. Locked(x)'
      BY <2>1 DEF IInv, TypeOK, HandInv, ExchangeInv, Engaged, Life, Locked, Queued, Early,
         Pending, Left, Reachable
    <2>3. Queued(x)'
      BY <2>1 DEF IInv, TypeOK, HandInv, ExchangeInv, Engaged, Life, Locked, Queued, Early,
         Pending, Left, Reachable
    <2>4. Pending(x)'
      BY <2>1 DEF IInv, TypeOK, HandInv, ExchangeInv, Engaged, Life, Locked, Queued, Early,
         Pending, Left, Reachable
    <2>5. Left(x)'
      BY <2>1 DEF IInv, TypeOK, HandInv, ExchangeInv, Engaged, Life, Locked, Queued, Early,
         Pending, Left, Reachable
    <2> QED
      BY <2>2, <2>3, <2>4, <2>5 DEF Life
  <1>5. \A x \in Request : InFlight(x)' <=> InFlight(x)
    BY DEF IInv, TypeOK, HandInv, ExchangeInv, Engaged, Life, Locked, Pending, InFlight
  <1>6. CountInv'
    BY <1>5, SMT DEF IInv, TypeOK, HandInv, CountInv
  <1> QED
    BY <1>2, <1>3, <1>4, <1>6

\* A wait that ends by itself is a mishap, after which only the types are kept.
LEMMA WakeSpuriouslyKeeps ==
  ASSUME IInv, NEW r \in Request, WakeSpuriously(r)
  PROVE  IInv'
  <1> USE ZhalAssumption DEF WakeSpuriously, SenderAt, core, item, work
  <1>1. TypeOK' /\ HandInv'
    BY DEF IInv, TypeOK, HandInv
  <1> QED
    BY <1>1 DEF IInv

\* The timed out sender takes its item out of asyncRequests ...
LEMMA ExpireAsyncKeeps ==
  ASSUME IInv, NEW r \in Request, ExpireAsync(r)
  PROVE  IInv'
  <1> USE ZhalAssumption DEF ExpireAsync, SenderAt, core, item, work
  <1>1. TypeOK' /\ HandInv'
    BY DEF IInv, TypeOK, HandInv
  <1> SUFFICES ASSUME ~mishap
              PROVE  QueueInv' /\ ExchangeInv' /\ CountInv' /\ \A x \in Request : Life(x)'
    BY <1>1 DEF IInv
  <1>2. QueueInv' /\ \A x \in Request : InQueue(x)' <=> InQueue(x)
    BY DEF IInv, QueueInv, InQueue
  <1>3. ExchangeInv'
    <2>1. Life(r)
      BY DEF IInv
    <2> QED
      BY <2>1 DEF IInv, TypeOK, HandInv, ExchangeInv, Engaged, Life, Locked, Pending
  <1>4. ASSUME NEW x \in Request PROVE Life(x)'
    <2>1. Life(x) /\ (InQueue(x)' <=> InQueue(x))
      BY <1>2 DEF IInv
    <2>2. Locked(x)'
      BY <2>1, SMT DEF IInv, TypeOK, HandInv, ExchangeInv, Engaged, Life, Locked, Queued,
         Early, Pending, Left, Reachable
    <2>3. Queued(x)'
      BY <2>1 DEF IInv, TypeOK, HandInv, ExchangeInv, Engaged, Life, Locked, Queued, Early,
         Pending, Left, Reachable
    <2>4. Pending(x)'
      BY <2>1, SMT DEF IInv, TypeOK, HandInv, ExchangeInv, Engaged, Life, Locked, Queued,
         Early, Pending, Left, Reachable
    <2>5. Left(x)'
      BY <2>1 DEF IInv, TypeOK, HandInv, ExchangeInv, Engaged, Life, Locked, Queued, Early,
         Pending, Left, Reachable
    <2> QED
      BY <2>2, <2>3, <2>4, <2>5 DEF Life
  <1>5. \A x \in Request : InFlight(x)' <=> InFlight(x)
    BY SMT DEF IInv, TypeOK, HandInv, ExchangeInv, Engaged, Life, Locked, Pending, InFlight
  <1>6. CountInv'
    BY <1>5 DEF IInv, TypeOK, HandInv, CountInv
  <1> QED
    BY <1>2, <1>3, <1>4, <1>6

\* ... and out of its queue, gives the device back and marks what it did not find ...
LEMMA ExpireQueueKeeps ==
  ASSUME IInv, NEW r \in Request, ExpireQueue(r)
  PROVE  IInv'
  <1> USE ZhalAssumption DEF ExpireQueue, core, item, work
  <1>0. /\ isBusy' \in [Device -> Int]
        /\ isBusy'[DeviceOf[r]] = isBusy[DeviceOf[r]] - GiveBack(r)
        /\ \A d \in Device \ {DeviceOf[r]} : isBusy'[d] = isBusy[d]
    <2>1. Busier(DeviceOf[r], -GiveBack(r))
      OBVIOUS
    <2>2. DeviceOf[r] \in Device /\ GiveBack(r) \in {0, 1} /\ isBusy \in [Device -> Int]
      BY DEF GiveBack, IInv, TypeOK
    <2> QED
      BY <2>1, <2>2, LessBusy
  <1>1. TypeOK' /\ HandInv'
    <2>1. isBusy' \in [Device -> Int]
      BY <1>0
    <2>2. queue' \in [Device -> Seq(Request)]
      BY DeleteHolds DEF IInv, TypeOK
    <2> QED
      BY <2>1, <2>2 DEF IInv, TypeOK, HandInv
  <1> SUFFICES ASSUME ~mishap
              PROVE  QueueInv' /\ ExchangeInv' /\ CountInv' /\ \A x \in Request : Life(x)'
    BY <1>1 DEF IInv
  <1>2. QueueInv' /\ \A x \in Request : InQueue(x)' <=> InQueue(x) /\ x # r
    <2>1. /\ \A d \in Device \ {DeviceOf[r]} : queue'[d] = queue[d]
          /\ queue'[DeviceOf[r]] = queueDelete(queue[DeviceOf[r]], r)
          /\ queue[DeviceOf[r]] \in Seq(Request)
      BY DEF IInv, TypeOK
    <2>2. Once(queue[DeviceOf[r]])
      BY DEF IInv, QueueInv
    <2>3. /\ Once(queue'[DeviceOf[r]])
          /\ \A x : Contains(queue'[DeviceOf[r]], x) <=> Contains(queue[DeviceOf[r]], x) /\ x # r
      BY <2>1, <2>2, DeleteHolds, SMT
    <2> QED
      BY <2>1, <2>3 DEF IInv, QueueInv, InQueue
  <1>3. ExchangeInv'
    BY DEF IInv, TypeOK, HandInv, ExchangeInv, Engaged
  <1>4. ASSUME NEW x \in Request PROVE Life(x)'
    <2>1. Life(x) /\ (InQueue(x)' <=> InQueue(x) /\ x # r)
      BY <1>2 DEF IInv
    <2>2. Locked(x)'
      BY <2>1, SMT DEF IInv, TypeOK, HandInv, ExchangeInv, Engaged, Life, Locked, Queued,
         Early, Pending, Left, Reachable
    <2>3. Queued(x)'
      BY <2>1, SMT DEF IInv, TypeOK, HandInv, ExchangeInv, Engaged, Life, Locked, Queued,
         Early, Pending, Left, Reachable
    <2>4. Pending(x)'
      BY <2>1, SMT DEF IInv, TypeOK, HandInv, ExchangeInv, Engaged, Life, Locked, Queued,
         Early, Pending, Left, Reachable
    <2>5. Left(x)'
      BY <2>1, SMT DEF IInv, TypeOK, HandInv, ExchangeInv, Engaged, Life, Locked, Queued,
         Early, Pending, Left, Reachable
    <2> QED
      BY <2>2, <2>3, <2>4, <2>5 DEF Life
  <1>5. \A x \in Request : InFlight(x)' <=> InFlight(x) /\ (sender[r] = "pending" => x # r)
    <2>1. Life(r)
      BY DEF IInv
    <2> QED
      BY <2>1, SMT DEF IInv, TypeOK, HandInv, ExchangeInv, Engaged, Life, Locked, Pending,
         InFlight
  <1>6. CountInv'
    <2>0. NoMoreWork /\ avail \subseteq Request /\ avail' \subseteq Request
      BY DEF IInv, TypeOK, NoMoreWork
    <2>2. CASE sender[r] = "pending"
      <3>1. isBusy[DeviceOf[r]] = 1 /\ isBusy'[DeviceOf[r]] = 0
        BY <1>0, <2>2, SMT DEF IInv, CountInv, InFlight, GiveBack
      <3>2. \A x \in Request : InFlight(x) /\ DeviceOf[x] = DeviceOf[r] => x = r
        BY <2>2 DEF IInv, CountInv, InFlight
      <3>3. \A d \in Device : isBusy'[d] = IF d = DeviceOf[r] THEN 0 ELSE isBusy[d]
        BY <1>0, <3>1
      <3>4. \A x \in Request : InFlight(x)' <=> InFlight(x) /\ DeviceOf[x] # DeviceOf[r]
        BY <1>5, <2>2, <3>2 DEF InFlight
      <3>5. CountInv /\ DeviceOf[r] \in Device
        BY DEF IInv
      <3> QED
        BY <2>0, <3>3, <3>4, <3>5, CountDown
    <2>3. CASE sender[r] # "pending"
      <3>1. \A d \in Device : isBusy'[d] = isBusy[d]
        BY <1>0, <2>3, SMT DEF IInv, TypeOK, GiveBack
      <3>2. CountInv
        BY DEF IInv
      <3>3. \A x \in Request : InFlight(x)' <=> InFlight(x)
        BY <1>5, <2>3
      <3> QED
        BY <2>0, <3>1, <3>2, <3>3, CountSame
    <2> QED
      BY <2>2, <2>3
  <1> QED
    BY <1>2, <1>3, <1>4, <1>6

\* ... tells the worker and unlocks the item.
LEMMA ExpireSignalKeeps ==
  ASSUME IInv, NEW r \in Request, ExpireSignal(r)
  PROVE  IInv'
  <1> USE ZhalAssumption DEF ExpireSignal, SenderAt, SignalWorker, core, item, work
  <1>1. TypeOK' /\ HandInv'
    BY DEF IInv, TypeOK, HandInv
  <1> SUFFICES ASSUME ~mishap
              PROVE  QueueInv' /\ ExchangeInv' /\ CountInv' /\ \A x \in Request : Life(x)'
    BY <1>1 DEF IInv
  <1>2. QueueInv' /\ \A x \in Request : InQueue(x)' <=> InQueue(x)
    BY DEF IInv, QueueInv, InQueue
  <1>3. ExchangeInv'
    BY DEF IInv, TypeOK, HandInv, ExchangeInv, Engaged
  <1>4. ASSUME NEW x \in Request PROVE Life(x)'
    <2>1. Life(x) /\ (InQueue(x)' <=> InQueue(x))
      BY <1>2 DEF IInv
    <2>2. Locked(x)'
      BY <2>1, SMT DEF IInv, TypeOK, HandInv, ExchangeInv, Engaged, Life, Locked, Queued,
         Early, Pending, Left, Reachable
    <2>3. Queued(x)'
      BY <2>1 DEF IInv, TypeOK, HandInv, ExchangeInv, Engaged, Life, Locked, Queued, Early,
         Pending, Left, Reachable
    <2>4. Pending(x)'
      BY <2>1 DEF IInv, TypeOK, HandInv, ExchangeInv, Engaged, Life, Locked, Queued, Early,
         Pending, Left, Reachable
    <2>5. Left(x)'
      BY <2>1 DEF IInv, TypeOK, HandInv, ExchangeInv, Engaged, Life, Locked, Queued, Early,
         Pending, Left, Reachable
    <2> QED
      BY <2>2, <2>3, <2>4, <2>5 DEF Life
  <1>5. \A x \in Request : InFlight(x)' <=> InFlight(x)
    BY DEF IInv, TypeOK, HandInv, ExchangeInv, Engaged, Life, Locked, Pending, InFlight
  <1>6. CountInv'
    BY <1>5 DEF IInv, TypeOK, HandInv, CountInv
  <1> QED
    BY <1>2, <1>3, <1>4, <1>6

\* The signalled sender takes its response.
LEMMA SendWokenKeeps ==
  ASSUME IInv, NEW r \in Request, SendWoken(r)
  PROVE  IInv'
  <1> USE ZhalAssumption DEF SendWoken, SenderAt, core, item, work
  <1>1. TypeOK' /\ HandInv'
    BY DEF IInv, TypeOK, HandInv
  <1> SUFFICES ASSUME ~mishap
              PROVE  QueueInv' /\ ExchangeInv' /\ CountInv' /\ \A x \in Request : Life(x)'
    BY <1>1 DEF IInv
  <1>2. QueueInv' /\ \A x \in Request : InQueue(x)' <=> InQueue(x)
    BY DEF IInv, QueueInv, InQueue
  <1>3. ExchangeInv'
    BY DEF IInv, TypeOK, HandInv, ExchangeInv, Engaged
  <1>4. ASSUME NEW x \in Request PROVE Life(x)'
    <2>1. Life(x) /\ (InQueue(x)' <=> InQueue(x))
      BY <1>2 DEF IInv
    <2>2. Locked(x)'
      BY <2>1 DEF IInv, TypeOK, HandInv, ExchangeInv, Engaged, Life, Locked, Queued, Early,
         Pending, Left, Reachable
    <2>3. Queued(x)'
      BY <2>1 DEF IInv, TypeOK, HandInv, ExchangeInv, Engaged, Life, Locked, Queued, Early,
         Pending, Left, Reachable
    <2>4. Pending(x)'
      BY <2>1 DEF IInv, TypeOK, HandInv, ExchangeInv, Engaged, Life, Locked, Queued, Early,
         Pending, Left, Reachable
    <2>5. Left(x)'
      BY <2>1 DEF IInv, TypeOK, HandInv, ExchangeInv, Engaged, Life, Locked, Queued, Early,
         Pending, Left, Reachable
    <2> QED
      BY <2>2, <2>3, <2>4, <2>5 DEF Life
  <1>5. \A x \in Request : InFlight(x)' <=> InFlight(x)
    BY DEF IInv, TypeOK, HandInv, ExchangeInv, Engaged, Life, Locked, Pending, InFlight
  <1>6. CountInv'
    BY <1>5 DEF IInv, TypeOK, HandInv, CountInv
  <1> QED
    BY <1>2, <1>3, <1>4, <1>6

\* The sender destroys the item unless it is marked.
LEMMA SendEndKeeps ==
  ASSUME IInv, NEW r \in Request, SendEnd(r)
  PROVE  IInv'
  <1> USE ZhalAssumption DEF SendEnd, SenderAt, Marked, core, item, work
  <1>1. TypeOK' /\ HandInv'
    BY DEF IInv, TypeOK, HandInv
  <1> SUFFICES ASSUME ~mishap
              PROVE  QueueInv' /\ ExchangeInv' /\ CountInv' /\ \A x \in Request : Life(x)'
    BY <1>1 DEF IInv
  <1>2. QueueInv' /\ \A x \in Request : InQueue(x)' <=> InQueue(x)
    BY DEF IInv, QueueInv, InQueue
  <1>3. ExchangeInv'
    BY DEF IInv, TypeOK, HandInv, ExchangeInv, Engaged
  <1>4. ASSUME NEW x \in Request PROVE Life(x)'
    <2>1. Life(x) /\ (InQueue(x)' <=> InQueue(x))
      BY <1>2 DEF IInv
    <2>2. Locked(x)'
      BY <2>1 DEF IInv, TypeOK, HandInv, ExchangeInv, Engaged, Life, Locked, Queued, Early,
         Pending, Left, Reachable
    <2>3. Queued(x)'
      BY <2>1 DEF IInv, TypeOK, HandInv, ExchangeInv, Engaged, Life, Locked, Queued, Early,
         Pending, Left, Reachable
    <2>4. Pending(x)'
      BY <2>1 DEF IInv, TypeOK, HandInv, ExchangeInv, Engaged, Life, Locked, Queued, Early,
         Pending, Left, Reachable
    <2>5. Left(x)'
      BY <2>1, SMT DEF IInv, TypeOK, HandInv, ExchangeInv, Engaged, Life, Locked, Queued,
         Early, Pending, Left, Reachable
    <2> QED
      BY <2>2, <2>3, <2>4, <2>5 DEF Life
  <1>5. \A x \in Request : InFlight(x)' <=> InFlight(x)
    BY DEF IInv, TypeOK, HandInv, ExchangeInv, Engaged, Life, Locked, Pending, InFlight
  <1>6. CountInv'
    BY <1>5, SMT DEF IInv, TypeOK, HandInv, CountInv
  <1> QED
    BY <1>2, <1>3, <1>4, <1>6

\* A response arrives.
LEMMA ReceiveKeeps ==
  ASSUME IInv, NEW r \in Request, Receive(r)
  PROVE  IInv'
  <1> USE ZhalAssumption DEF Receive, HandlerAt, core, item, work
  <1>1. TypeOK' /\ HandInv'
    BY DEF IInv, TypeOK, HandInv
  <1> SUFFICES ASSUME ~mishap
              PROVE  QueueInv' /\ ExchangeInv' /\ CountInv' /\ \A x \in Request : Life(x)'
    BY <1>1 DEF IInv
  <1>2. QueueInv' /\ \A x \in Request : InQueue(x)' <=> InQueue(x)
    BY DEF IInv, QueueInv, InQueue
  <1>3. ExchangeInv'
    BY DEF IInv, TypeOK, HandInv, ExchangeInv, Engaged
  <1>4. ASSUME NEW x \in Request PROVE Life(x)'
    <2>1. Life(x) /\ (InQueue(x)' <=> InQueue(x))
      BY <1>2 DEF IInv
    <2>2. Locked(x)'
      BY <2>1 DEF IInv, TypeOK, HandInv, ExchangeInv, Engaged, Life, Locked, Queued, Early,
         Pending, Left, Reachable
    <2>3. Queued(x)'
      BY <2>1, SMT DEF IInv, TypeOK, HandInv, ExchangeInv, Engaged, Life, Locked, Queued,
         Early, Pending, Left, Reachable
    <2>4. Pending(x)'
      BY <2>1, SMT DEF IInv, TypeOK, HandInv, ExchangeInv, Engaged, Life, Locked, Queued,
         Early, Pending, Left, Reachable
    <2>5. Left(x)'
      BY <2>1, SMT DEF IInv, TypeOK, HandInv, ExchangeInv, Engaged, Life, Locked, Queued,
         Early, Pending, Left, Reachable
    <2> QED
      BY <2>2, <2>3, <2>4, <2>5 DEF Life
  <1>5. \A x \in Request : InFlight(x)' <=> InFlight(x)
    BY DEF IInv, TypeOK, HandInv, ExchangeInv, Engaged, Life, Locked, Pending, InFlight
  <1>6. CountInv'
    BY <1>5, SMT DEF IInv, TypeOK, HandInv, CountInv
  <1> QED
    BY <1>2, <1>3, <1>4, <1>6

\* A response is lost.
LEMMA LoseKeeps ==
  ASSUME IInv, NEW r \in Request, Lose(r)
  PROVE  IInv'
  <1> USE ZhalAssumption DEF Lose, core, item, work
  <1>1. TypeOK' /\ HandInv'
    BY DEF IInv, TypeOK, HandInv
  <1> SUFFICES ASSUME ~mishap
              PROVE  QueueInv' /\ ExchangeInv' /\ CountInv' /\ \A x \in Request : Life(x)'
    BY <1>1 DEF IInv
  <1>2. QueueInv' /\ \A x \in Request : InQueue(x)' <=> InQueue(x)
    BY DEF IInv, QueueInv, InQueue
  <1>3. ExchangeInv'
    BY DEF IInv, TypeOK, HandInv, ExchangeInv, Engaged
  <1>4. ASSUME NEW x \in Request PROVE Life(x)'
    <2>1. Life(x) /\ (InQueue(x)' <=> InQueue(x))
      BY <1>2 DEF IInv
    <2>2. Locked(x)'
      BY <2>1 DEF IInv, TypeOK, HandInv, ExchangeInv, Engaged, Life, Locked, Queued, Early,
         Pending, Left, Reachable
    <2>3. Queued(x)'
      BY <2>1 DEF IInv, TypeOK, HandInv, ExchangeInv, Engaged, Life, Locked, Queued, Early,
         Pending, Left, Reachable
    <2>4. Pending(x)'
      BY <2>1 DEF IInv, TypeOK, HandInv, ExchangeInv, Engaged, Life, Locked, Queued, Early,
         Pending, Left, Reachable
    <2>5. Left(x)'
      BY <2>1 DEF IInv, TypeOK, HandInv, ExchangeInv, Engaged, Life, Locked, Queued, Early,
         Pending, Left, Reachable
    <2> QED
      BY <2>2, <2>3, <2>4, <2>5 DEF Life
  <1>5. \A x \in Request : InFlight(x)' <=> InFlight(x)
    BY DEF IInv, TypeOK, HandInv, ExchangeInv, Engaged, Life, Locked, Pending, InFlight
  <1>6. CountInv'
    BY <1>5, SMT DEF IInv, TypeOK, HandInv, CountInv
  <1> QED
    BY <1>2, <1>3, <1>4, <1>6

\* The response's thread takes the item out of asyncRequests ...
LEMMA HandleTakeKeeps ==
  ASSUME IInv, NEW r \in Request, HandleTake(r)
  PROVE  IInv'
  <1> USE ZhalAssumption DEF HandleTake, HandlerAt, core, item, work
  <1>1. TypeOK' /\ HandInv'
    BY DEF IInv, TypeOK, HandInv
  <1> SUFFICES ASSUME ~mishap
              PROVE  QueueInv' /\ ExchangeInv' /\ CountInv' /\ \A x \in Request : Life(x)'
    BY <1>1 DEF IInv
  <1>2. QueueInv' /\ \A x \in Request : InQueue(x)' <=> InQueue(x)
    BY DEF IInv, QueueInv, InQueue
  <1>3. ExchangeInv'
    BY DEF IInv, TypeOK, HandInv, ExchangeInv, Engaged
  <1>4. ASSUME NEW x \in Request PROVE Life(x)'
    <2>1. Life(x) /\ (InQueue(x)' <=> InQueue(x))
      BY <1>2 DEF IInv
    <2>2. Locked(x)'
      BY <2>1 DEF IInv, TypeOK, HandInv, ExchangeInv, Engaged, Life, Locked, Queued, Early,
         Pending, Left, Reachable
    <2>3. Queued(x)'
      BY <2>1, SMT DEF IInv, TypeOK, HandInv, ExchangeInv, Engaged, Life, Locked, Queued,
         Early, Pending, Left, Reachable
    <2>4. Pending(x)'
      BY <2>1, SMT DEF IInv, TypeOK, HandInv, ExchangeInv, Engaged, Life, Locked, Queued,
         Early, Pending, Left, Reachable
    <2>5. Left(x)'
      BY <2>1, SMT DEF IInv, TypeOK, HandInv, ExchangeInv, Engaged, Life, Locked, Queued,
         Early, Pending, Left, Reachable
    <2> QED
      BY <2>2, <2>3, <2>4, <2>5 DEF Life
  <1>5. \A x \in Request : InFlight(x)' <=> InFlight(x)
    BY SMT DEF IInv, TypeOK, HandInv, ExchangeInv, Engaged, Life, Locked, Pending, InFlight
  <1>6. CountInv'
    BY <1>5, SMT DEF IInv, TypeOK, HandInv, CountInv
  <1> QED
    BY <1>2, <1>3, <1>4, <1>6

\* ... clears busy ...
LEMMA HandleBusyKeeps ==
  ASSUME IInv, NEW r \in Request, HandleBusy(r)
  PROVE  IInv'
  <1> USE ZhalAssumption DEF HandleBusy, HandlerAt, core, item, work
  <1>0. /\ isBusy' \in [Device -> Int]
        /\ isBusy'[DeviceOf[r]] = isBusy[DeviceOf[r]] - 1
        /\ \A d \in Device \ {DeviceOf[r]} : isBusy'[d] = isBusy[d]
    <2>1. Busier(DeviceOf[r], -1)
      OBVIOUS
    <2>2. DeviceOf[r] \in Device /\ 1 \in {0, 1} /\ isBusy \in [Device -> Int]
      BY DEF IInv, TypeOK
    <2> QED
      BY <2>1, <2>2, LessBusy
  <1>1. TypeOK' /\ HandInv'
    <2>1. isBusy' \in [Device -> Int]
      BY <1>0
    <2> QED
      BY <2>1 DEF IInv, TypeOK, HandInv
  <1> SUFFICES ASSUME ~mishap
              PROVE  QueueInv' /\ ExchangeInv' /\ CountInv' /\ \A x \in Request : Life(x)'
    BY <1>1 DEF IInv
  <1>2. QueueInv' /\ \A x \in Request : InQueue(x)' <=> InQueue(x)
    BY DEF IInv, QueueInv, InQueue
  <1>3. ExchangeInv'
    BY DEF IInv, TypeOK, HandInv, ExchangeInv, Engaged
  <1>4. ASSUME NEW x \in Request PROVE Life(x)'
    <2>1. Life(x) /\ (InQueue(x)' <=> InQueue(x))
      BY <1>2 DEF IInv
    <2>2. Locked(x)'
      BY <2>1 DEF IInv, TypeOK, HandInv, ExchangeInv, Engaged, Life, Locked, Queued, Early,
         Pending, Left, Reachable
    <2>3. Queued(x)'
      BY <2>1, SMT DEF IInv, TypeOK, HandInv, ExchangeInv, Engaged, Life, Locked, Queued,
         Early, Pending, Left, Reachable
    <2>4. Pending(x)'
      BY <2>1, SMT DEF IInv, TypeOK, HandInv, ExchangeInv, Engaged, Life, Locked, Queued,
         Early, Pending, Left, Reachable
    <2>5. Left(x)'
      BY <2>1, SMT DEF IInv, TypeOK, HandInv, ExchangeInv, Engaged, Life, Locked, Queued,
         Early, Pending, Left, Reachable
    <2> QED
      BY <2>2, <2>3, <2>4, <2>5 DEF Life
  <1>5. \A x \in Request : InFlight(x)' <=> InFlight(x) /\ x # r
    <2>1. Life(r)
      BY DEF IInv
    <2> QED
      BY <2>1, SMT DEF IInv, TypeOK, HandInv, ExchangeInv, Engaged, Life, Locked, Pending,
         InFlight
  <1>6. CountInv'
    <2>2. isBusy[DeviceOf[r]] = 1 /\ isBusy'[DeviceOf[r]] = 0
      BY <1>0, SMT DEF IInv, CountInv, InFlight
    <2>3. \A x \in Request : InFlight(x) /\ DeviceOf[x] = DeviceOf[r] => x = r
      BY DEF IInv, CountInv, InFlight
    <2>4. \A d \in Device : isBusy'[d] = IF d = DeviceOf[r] THEN 0 ELSE isBusy[d]
      BY <1>0, <2>2
    <2>5. \A x \in Request : InFlight(x)' <=> InFlight(x) /\ DeviceOf[x] # DeviceOf[r]
      BY <1>5, <2>3 DEF InFlight
    <2>6. /\ CountInv /\ DeviceOf[r] \in Device
          /\ NoMoreWork /\ avail \subseteq Request /\ avail' \subseteq Request
      BY DEF IInv, TypeOK, NoMoreWork
    <2> QED
      BY <2>4, <2>5, <2>6, CountDown
  <1> QED
    BY <1>2, <1>3, <1>4, <1>6

\* ... signals the sender ...
LEMMA HandleItemKeeps ==
  ASSUME IInv, NEW r \in Request, HandleItem(r)
  PROVE  IInv'
  <1> USE ZhalAssumption DEF HandleItem, HandlerAt, SignalItem, core, item, work
  <1>1. TypeOK' /\ HandInv'
    BY DEF IInv, TypeOK, HandInv
  <1> SUFFICES ASSUME ~mishap
              PROVE  QueueInv' /\ ExchangeInv' /\ CountInv' /\ \A x \in Request : Life(x)'
    BY <1>1 DEF IInv
  <1>2. QueueInv' /\ \A x \in Request : InQueue(x)' <=> InQueue(x)
    BY DEF IInv, QueueInv, InQueue
  <1>3. ExchangeInv'
    <2>1. Life(r)
      BY DEF IInv
    <2> QED
      BY <2>1 DEF IInv, TypeOK, HandInv, ExchangeInv, Engaged, Life, Locked, Pending
  <1>4. ASSUME NEW x \in Request PROVE Life(x)'
    <2>1. Life(x) /\ (InQueue(x)' <=> InQueue(x))
      BY <1>2 DEF IInv
    <2>2. Locked(x)'
      BY <2>1, SMT DEF IInv, TypeOK, HandInv, ExchangeInv, Engaged, Life, Locked, Queued,
         Early, Pending, Left, Reachable
    <2>3. Queued(x)'
      BY <2>1, SMT DEF IInv, TypeOK, HandInv, ExchangeInv, Engaged, Life, Locked, Queued,
         Early, Pending, Left, Reachable
    <2>4. Pending(x)'
      BY <2>1, SMT DEF IInv, TypeOK, HandInv, ExchangeInv, Engaged, Life, Locked, Queued,
         Early, Pending, Left, Reachable
    <2>5. Left(x)'
      BY <2>1, SMT DEF IInv, TypeOK, HandInv, ExchangeInv, Engaged, Life, Locked, Queued,
         Early, Pending, Left, Reachable
    <2> QED
      BY <2>2, <2>3, <2>4, <2>5 DEF Life
  <1>5. \A x \in Request : InFlight(x)' <=> InFlight(x)
    BY SMT DEF IInv, TypeOK, HandInv, ExchangeInv, Engaged, Life, Locked, Pending, InFlight
  <1>6. CountInv'
    BY <1>5 DEF IInv, TypeOK, HandInv, CountInv
  <1> QED
    BY <1>2, <1>3, <1>4, <1>6

\* ... and the worker.
LEMMA HandleSignalKeeps ==
  ASSUME IInv, NEW r \in Request, HandleSignal(r)
  PROVE  IInv'
  <1> USE ZhalAssumption DEF HandleSignal, HandlerAt, SignalWorker, core, item, work
  <1>1. TypeOK' /\ HandInv'
    BY DEF IInv, TypeOK, HandInv
  <1> SUFFICES ASSUME ~mishap
              PROVE  QueueInv' /\ ExchangeInv' /\ CountInv' /\ \A x \in Request : Life(x)'
    BY <1>1 DEF IInv
  <1>2. QueueInv' /\ \A x \in Request : InQueue(x)' <=> InQueue(x)
    BY DEF IInv, QueueInv, InQueue
  <1>3. ExchangeInv'
    BY DEF IInv, TypeOK, HandInv, ExchangeInv, Engaged
  <1>4. ASSUME NEW x \in Request PROVE Life(x)'
    <2>1. Life(x) /\ (InQueue(x)' <=> InQueue(x))
      BY <1>2 DEF IInv
    <2>2. Locked(x)'
      BY <2>1 DEF IInv, TypeOK, HandInv, ExchangeInv, Engaged, Life, Locked, Queued, Early,
         Pending, Left, Reachable
    <2>3. Queued(x)'
      BY <2>1, SMT DEF IInv, TypeOK, HandInv, ExchangeInv, Engaged, Life, Locked, Queued,
         Early, Pending, Left, Reachable
    <2>4. Pending(x)'
      BY <2>1, SMT DEF IInv, TypeOK, HandInv, ExchangeInv, Engaged, Life, Locked, Queued,
         Early, Pending, Left, Reachable
    <2>5. Left(x)'
      BY <2>1, SMT DEF IInv, TypeOK, HandInv, ExchangeInv, Engaged, Life, Locked, Queued,
         Early, Pending, Left, Reachable
    <2> QED
      BY <2>2, <2>3, <2>4, <2>5 DEF Life
  <1>5. \A x \in Request : InFlight(x)' <=> InFlight(x)
    BY SMT DEF IInv, TypeOK, HandInv, ExchangeInv, Engaged, Life, Locked, Pending, InFlight
  <1>6. CountInv'
    BY <1>5 DEF IInv, TypeOK, HandInv, CountInv
  <1> QED
    BY <1>2, <1>3, <1>4, <1>6

\* getAvailableWork takes the first item of every device that is not busy.
LEMMA ScanFindsKeeps ==
  ASSUME IInv, ScanFinds
  PROVE  IInv'
  <1> USE ZhalAssumption DEF ScanFinds, Ready, core, item, work
  <1>1. TypeOK' /\ HandInv'
    <2>1. \A d \in Ready : Tail(queue[d]) \in Seq(Request) /\ Head(queue[d]) \in Request
      BY TailHolds DEF IInv, TypeOK, Ready
    <2>2. queue' \in [Device -> Seq(Request)] /\ avail' \subseteq Request
      BY <2>1, ZenonT(60) DEF IInv, TypeOK
    <2> QED
      BY <2>2 DEF IInv, TypeOK, HandInv
  <1> SUFFICES ASSUME ~mishap
              PROVE  QueueInv' /\ ExchangeInv' /\ CountInv' /\ \A x \in Request : Life(x)'
    BY <1>1 DEF IInv
  <1>2. QueueInv' /\ \A x \in Request : InQueue(x)' <=> InQueue(x) /\ x \notin avail'
    <2>1. \A d \in Ready : /\ Once(Tail(queue[d])) /\ Contains(queue[d], Head(queue[d]))
                          /\ Head(queue[d]) \in Request
                          /\ \A x : Contains(Tail(queue[d]), x) <=> Contains(queue[d], x) /\ x # Head(queue[d])
      BY TailHolds DEF IInv, TypeOK, QueueInv, Ready
    <2>2. \A d \in Device : Once(queue'[d])
      BY <2>1 DEF IInv, QueueInv
    <2>3. \A d \in Device : \A x \in Request : Contains(queue'[d], x) => DeviceOf[x] = d
      BY <2>1 DEF IInv, QueueInv
    <2>4. \A d \in Ready : DeviceOf[Head(queue[d])] = d
      BY <2>1 DEF IInv, QueueInv, Ready
    <2>5. ASSUME NEW x \in Request PROVE InQueue(x)' <=> InQueue(x) /\ x \notin avail'
      <3>1. CASE DeviceOf[x] \in Ready
        <4>1. x \in avail' <=> x = Head(queue[DeviceOf[x]])
          BY <2>4, <3>1, SMT
        <4>2. queue'[DeviceOf[x]] = Tail(queue[DeviceOf[x]])
          BY <3>1 DEF IInv, TypeOK
        <4> QED
          BY <2>1, <3>1, <4>1, <4>2 DEF InQueue
      <3>2. CASE DeviceOf[x] \notin Ready
        BY <2>4, <3>2 DEF InQueue
      <3> QED
        BY <3>1, <3>2
    <2> QED
      BY <2>2, <2>3, <2>5 DEF QueueInv
  <1>3. ExchangeInv'
    BY DEF IInv, TypeOK, HandInv, ExchangeInv, Engaged
  <1>4. ASSUME NEW x \in Request PROVE Life(x)'
    <2>0. x \in avail' => InQueue(x)
      <3> SUFFICES ASSUME NEW d \in Ready, x = Head(queue[d]) PROVE InQueue(x)
        OBVIOUS
      <3>1. queue[d] \in Seq(Request) /\ queue[d] # <<>> /\ d \in Device
        BY DEF IInv, TypeOK, Ready
      <3>2. Contains(queue[d], x)
        BY <3>1, TailHolds
      <3> QED
        BY <3>1, <3>2 DEF IInv, QueueInv, InQueue
    <2>1. Life(x) /\ (InQueue(x)' <=> InQueue(x) /\ x \notin avail')
      BY <1>2 DEF IInv
    <2>2. Locked(x)'
      BY <2>1 DEF IInv, TypeOK, HandInv, ExchangeInv, Engaged, Life, Locked, Queued, Early,
         Pending, Left, Reachable
    <2>3. Queued(x)'
      BY <2>1, <2>0 DEF IInv, TypeOK, HandInv, Engaged, Life, Queued, Early, Pending, Left,
         Reachable
    <2>4. Pending(x)'
      BY <2>1, <2>0 DEF IInv, TypeOK, HandInv, Engaged, Life, Queued, Early, Pending, Left,
         Reachable
    <2>5. Left(x)'
      BY <2>1, <2>0 DEF IInv, TypeOK, HandInv, Engaged, Life, Queued, Early, Pending, Left,
         Reachable
    <2> QED
      BY <2>2, <2>3, <2>4, <2>5 DEF Life
  <1>5. \A x \in Request : InFlight(x)' <=> InFlight(x)
    BY DEF IInv, TypeOK, HandInv, ExchangeInv, Engaged, Life, Locked, Pending, InFlight
  <1>6. CountInv'
    <2>1. \A d \in Ready : DeviceOf[Head(queue[d])] = d
      BY TailHolds DEF IInv, TypeOK, QueueInv, Ready
    <2>2. \A x \in avail' : isBusy[DeviceOf[x]] = 0
      BY <2>1 DEF Ready
    <2>3. \A x, y \in avail' : DeviceOf[x] = DeviceOf[y] => x = y
      BY <2>1, SMT
    <2> QED
      BY <1>5, <2>2, <2>3 DEF IInv, CountInv
  <1> QED
    BY <1>2, <1>3, <1>4, <1>6

\* The worker finds nothing and waits.
LEMMA ScanWaitsKeeps ==
  ASSUME IInv, ScanWaits
  PROVE  IInv'
  <1> USE ZhalAssumption DEF ScanWaits, Ready, core, item, work
  <1>1. TypeOK' /\ HandInv'
    BY DEF IInv, TypeOK, HandInv
  <1> SUFFICES ASSUME ~mishap
              PROVE  QueueInv' /\ ExchangeInv' /\ CountInv' /\ \A x \in Request : Life(x)'
    BY <1>1 DEF IInv
  <1>2. QueueInv' /\ \A x \in Request : InQueue(x)' <=> InQueue(x)
    BY DEF IInv, QueueInv, InQueue
  <1>3. ExchangeInv'
    BY DEF IInv, TypeOK, HandInv, ExchangeInv, Engaged
  <1>4. ASSUME NEW x \in Request PROVE Life(x)'
    <2>1. Life(x) /\ (InQueue(x)' <=> InQueue(x))
      BY <1>2 DEF IInv
    <2>2. Locked(x)'
      BY <2>1 DEF IInv, TypeOK, HandInv, ExchangeInv, Engaged, Life, Locked, Queued, Early,
         Pending, Left, Reachable
    <2>3. Queued(x)'
      BY <2>1 DEF IInv, TypeOK, HandInv, ExchangeInv, Engaged, Life, Locked, Queued, Early,
         Pending, Left, Reachable
    <2>4. Pending(x)'
      BY <2>1 DEF IInv, TypeOK, HandInv, ExchangeInv, Engaged, Life, Locked, Queued, Early,
         Pending, Left, Reachable
    <2>5. Left(x)'
      BY <2>1 DEF IInv, TypeOK, HandInv, ExchangeInv, Engaged, Life, Locked, Queued, Early,
         Pending, Left, Reachable
    <2> QED
      BY <2>2, <2>3, <2>4, <2>5 DEF Life
  <1>5. \A x \in Request : InFlight(x)' <=> InFlight(x)
    BY DEF IInv, TypeOK, HandInv, ExchangeInv, Engaged, Life, Locked, Pending, InFlight
  <1>6. CountInv'
    BY <1>5 DEF IInv, TypeOK, HandInv, CountInv
  <1> QED
    BY <1>2, <1>3, <1>4, <1>6

\* workOnItem destroys an item left to it.
LEMMA WorkOnTimedOutKeeps ==
  ASSUME IInv, WorkOnTimedOut
  PROVE  IInv'
  <1> USE ZhalAssumption DEF WorkOnTimedOut, NextItem, core, item, work
  <1>1. TypeOK' /\ HandInv'
    BY DEF IInv, TypeOK, HandInv
  <1> SUFFICES ASSUME ~mishap
              PROVE  QueueInv' /\ ExchangeInv' /\ CountInv' /\ \A x \in Request : Life(x)'
    BY <1>1 DEF IInv
  <1>2. QueueInv' /\ \A x \in Request : InQueue(x)' <=> InQueue(x)
    BY DEF IInv, QueueInv, InQueue
  <1>3. ExchangeInv'
    BY DEF IInv, TypeOK, HandInv, ExchangeInv, Engaged
  <1>4. ASSUME NEW x \in Request PROVE Life(x)'
    <2>1. Life(x) /\ (InQueue(x)' <=> InQueue(x))
      BY <1>2 DEF IInv
    <2>2. Locked(x)'
      BY <2>1 DEF IInv, TypeOK, HandInv, ExchangeInv, Engaged, Life, Locked, Queued, Early,
         Pending, Left, Reachable
    <2>3. Queued(x)'
      BY <2>1 DEF IInv, TypeOK, HandInv, ExchangeInv, Engaged, Life, Locked, Queued, Early,
         Pending, Left, Reachable
    <2>4. Pending(x)'
      BY <2>1 DEF IInv, TypeOK, HandInv, ExchangeInv, Engaged, Life, Locked, Queued, Early,
         Pending, Left, Reachable
    <2>5. Left(x)'
      BY <2>1 DEF IInv, TypeOK, HandInv, ExchangeInv, Engaged, Life, Locked, Queued, Early,
         Pending, Left, Reachable
    <2> QED
      BY <2>2, <2>3, <2>4, <2>5 DEF Life
  <1>5. \A x \in Request : InFlight(x)' <=> InFlight(x)
    BY DEF IInv, TypeOK, HandInv, ExchangeInv, Engaged, Life, Locked, Pending, InFlight
  <1>6. CountInv'
    BY <1>5 DEF IInv, TypeOK, HandInv, CountInv
  <1> QED
    BY <1>2, <1>3, <1>4, <1>6

\* workOnItem locks an item and puts it in asyncRequests ...
LEMMA WorkOnItemKeeps ==
  ASSUME IInv, WorkOnItem
  PROVE  IInv'
  <1> USE ZhalAssumption DEF WorkOnItem, core, item, work
  <1>1. TypeOK' /\ HandInv'
    BY DEF IInv, TypeOK, HandInv
  <1> SUFFICES ASSUME ~mishap
              PROVE  QueueInv' /\ ExchangeInv' /\ CountInv' /\ \A x \in Request : Life(x)'
    BY <1>1 DEF IInv
  <1>2. QueueInv' /\ \A x \in Request : InQueue(x)' <=> InQueue(x)
    BY DEF IInv, QueueInv, InQueue
  <1>3. ExchangeInv'
    <2>1. current \in Request /\ Life(current)
      BY DEF IInv, TypeOK, HandInv
    <2> QED
      BY <2>1 DEF IInv, TypeOK, HandInv, ExchangeInv, Engaged, Life, Locked, Queued, Early,
         Pending, InFlight
  <1>4. ASSUME NEW x \in Request PROVE Life(x)'
    <2>1. Life(x) /\ (InQueue(x)' <=> InQueue(x))
      BY <1>2 DEF IInv
    <2>2. Locked(x)'
      BY <2>1, SMT DEF IInv, TypeOK, HandInv, ExchangeInv, Engaged, Life, Locked, Queued,
         Early, Pending, Left, Reachable
    <2>3. Queued(x)'
      BY <2>1, SMT DEF IInv, TypeOK, HandInv, ExchangeInv, Engaged, Life, Locked, Queued,
         Early, Pending, Left, Reachable
    <2>4. Pending(x)'
      BY <2>1, SMT DEF IInv, TypeOK, HandInv, ExchangeInv, Engaged, Life, Locked, Queued,
         Early, Pending, Left, Reachable
    <2>5. Left(x)'
      BY <2>1 DEF IInv, TypeOK, HandInv, ExchangeInv, Engaged, Life, Locked, Queued, Early,
         Pending, Left, Reachable
    <2> QED
      BY <2>2, <2>3, <2>4, <2>5 DEF Life
  <1>5. \A x \in Request : InFlight(x)' <=> InFlight(x)
    <2>1. current \in Request /\ Life(current)
      BY DEF IInv, TypeOK, HandInv
    <2> QED
      BY <2>1 DEF IInv, TypeOK, HandInv, ExchangeInv, Engaged, Life, Locked, Queued, Early,
         Pending, InFlight
  <1>6. CountInv'
    BY <1>5 DEF IInv, TypeOK, HandInv, CountInv
  <1> QED
    BY <1>2, <1>3, <1>4, <1>6

\* ... sets busy ...
LEMMA WorkBusyKeeps ==
  ASSUME IInv, WorkBusy
  PROVE  IInv'
  <1> USE ZhalAssumption DEF WorkBusy, core, item, work
  <1>1. TypeOK' /\ HandInv'
    <2>1. current \in Request
      BY DEF IInv, TypeOK, HandInv
    <2>2. isBusy' \in [Device -> Int]
      BY <2>1, MoreBusy DEF IInv, TypeOK
    <2> QED
      BY <2>2 DEF IInv, TypeOK, HandInv
  <1> SUFFICES ASSUME ~mishap
              PROVE  QueueInv' /\ ExchangeInv' /\ CountInv' /\ \A x \in Request : Life(x)'
    BY <1>1 DEF IInv
  <1>2. QueueInv' /\ \A x \in Request : InQueue(x)' <=> InQueue(x)
    BY DEF IInv, QueueInv, InQueue
  <1>3. ExchangeInv'
    BY DEF IInv, TypeOK, HandInv, ExchangeInv, Engaged
  <1>4. ASSUME NEW x \in Request PROVE Life(x)'
    <2>1. Life(x) /\ (InQueue(x)' <=> InQueue(x))
      BY <1>2 DEF IInv
    <2>2. Locked(x)'
      BY <2>1 DEF IInv, TypeOK, HandInv, ExchangeInv, Engaged, Life, Locked, Queued, Early,
         Pending, Left, Reachable
    <2>3. Queued(x)'
      BY <2>1 DEF IInv, TypeOK, HandInv, ExchangeInv, Engaged, Life, Locked, Queued, Early,
         Pending, Left, Reachable
    <2>4. Pending(x)'
      BY <2>1 DEF IInv, TypeOK, HandInv, ExchangeInv, Engaged, Life, Locked, Queued, Early,
         Pending, Left, Reachable
    <2>5. Left(x)'
      BY <2>1 DEF IInv, TypeOK, HandInv, ExchangeInv, Engaged, Life, Locked, Queued, Early,
         Pending, Left, Reachable
    <2> QED
      BY <2>2, <2>3, <2>4, <2>5 DEF Life
  <1>5. \A x \in Request : InFlight(x)' <=> InFlight(x) \/ x = current
    BY SMT DEF IInv, TypeOK, HandInv, ExchangeInv, Engaged, Life, Locked, Pending, InFlight
  <1>6. CountInv'
    <2>0. current \in Request /\ current \in avail
      BY DEF IInv, TypeOK, HandInv
    <2>1. /\ isBusy'[DeviceOf[current]] = isBusy[DeviceOf[current]] + 1
          /\ \A d \in Device \ {DeviceOf[current]} : isBusy'[d] = isBusy[d]
      BY <2>0, MoreBusy DEF IInv, TypeOK
    <2>2. isBusy[DeviceOf[current]] = 0 /\ isBusy'[DeviceOf[current]] = 1
      BY <2>0, <2>1, SMT DEF IInv, CountInv
    <2>3. \A x \in Request : InFlight(x) => DeviceOf[x] # DeviceOf[current]
      BY <2>2, SMT DEF IInv, CountInv
    <2>4. \A x \in avail : DeviceOf[x] = DeviceOf[current] => x = current
      BY <2>0 DEF IInv, CountInv
    <2>5. \A d \in Device : isBusy'[d] = IF d = DeviceOf[current] THEN 1 ELSE isBusy[d]
      BY <2>0, <2>1, <2>2
    <2>6. \A d \in Device : isBusy'[d] \in {0, 1}
      BY <2>5 DEF IInv, CountInv
    <2>7. \A d \in Device : isBusy'[d] = 1 => \E x \in Request : DeviceOf[x] = d /\ InFlight(x)'
      BY <1>5, <2>0, <2>5, SMT DEF IInv, CountInv
    <2>8. \A x \in Request : InFlight(x)' => isBusy'[DeviceOf[x]] = 1
      BY <1>5, <2>0, <2>5 DEF IInv, CountInv
    <2>9. \A x, y \in Request : InFlight(x)' /\ InFlight(y)' /\ DeviceOf[x] = DeviceOf[y] => x = y
      BY <1>5, <2>0, <2>3 DEF IInv, CountInv
    <2>10. \A x, y \in avail' : DeviceOf[x] = DeviceOf[y] => x = y
      BY DEF IInv, CountInv
    <2>11. \A x \in avail' : (worker' \in {"work", "busy"} \/ x # current') => isBusy'[DeviceOf[x]] = 0
      BY <2>0, <2>4, <2>5 DEF IInv, TypeOK, CountInv
    <2> QED
      BY <2>6, <2>7, <2>8, <2>9, <2>10, <2>11 DEF CountInv
  <1> QED
    BY <1>2, <1>3, <1>4, <1>6

\* ... and sends it;
LEMMA XmitSendKeeps ==
  ASSUME IInv, XmitSend
  PROVE  IInv'
  <1> USE ZhalAssumption DEF XmitSend, core, item, work
  <1>1. TypeOK' /\ HandInv'
    BY DEF IInv, TypeOK, HandInv
  <1> SUFFICES ASSUME ~mishap
              PROVE  QueueInv' /\ ExchangeInv' /\ CountInv' /\ \A x \in Request : Life(x)'
    BY <1>1 DEF IInv
  <1>2. QueueInv' /\ \A x \in Request : InQueue(x)' <=> InQueue(x)
    BY DEF IInv, QueueInv, InQueue
  <1>3. ExchangeInv'
    BY DEF IInv, TypeOK, HandInv, ExchangeInv, Engaged
  <1>4. ASSUME NEW x \in Request PROVE Life(x)'
    <2>1. Life(x) /\ (InQueue(x)' <=> InQueue(x))
      BY <1>2 DEF IInv
    <2>2. Locked(x)'
      BY <2>1 DEF IInv, TypeOK, HandInv, ExchangeInv, Engaged, Life, Locked, Queued, Early,
         Pending, Left, Reachable
    <2>3. Queued(x)'
      BY <2>1, SMT DEF IInv, TypeOK, HandInv, ExchangeInv, Engaged, Life, Locked, Queued,
         Early, Pending, Left, Reachable
    <2>4. Pending(x)'
      BY <2>1 DEF IInv, TypeOK, HandInv, ExchangeInv, Engaged, Life, Locked, Queued, Early,
         Pending, Left, Reachable
    <2>5. Left(x)'
      BY <2>1 DEF IInv, TypeOK, HandInv, ExchangeInv, Engaged, Life, Locked, Queued, Early,
         Pending, Left, Reachable
    <2> QED
      BY <2>2, <2>3, <2>4, <2>5 DEF Life
  <1>5. \A x \in Request : InFlight(x)' <=> InFlight(x)
    BY DEF IInv, TypeOK, HandInv, ExchangeInv, Engaged, Life, Locked, Pending, InFlight
  <1>6. CountInv'
    BY <1>5, SMT DEF IInv, TypeOK, HandInv, CountInv
  <1> QED
    BY <1>2, <1>3, <1>4, <1>6

\* the send fails,
LEMMA XmitConnectFailsKeeps ==
  ASSUME IInv, XmitConnectFails
  PROVE  IInv'
  <1> USE ZhalAssumption DEF XmitConnectFails, core, item, work
  <1>1. TypeOK' /\ HandInv'
    BY DEF IInv, TypeOK, HandInv
  <1> SUFFICES ASSUME ~mishap
              PROVE  QueueInv' /\ ExchangeInv' /\ CountInv' /\ \A x \in Request : Life(x)'
    BY <1>1 DEF IInv
  <1>2. QueueInv' /\ \A x \in Request : InQueue(x)' <=> InQueue(x)
    BY DEF IInv, QueueInv, InQueue
  <1>3. ExchangeInv'
    BY DEF IInv, TypeOK, HandInv, ExchangeInv, Engaged
  <1>4. ASSUME NEW x \in Request PROVE Life(x)'
    <2>1. Life(x) /\ (InQueue(x)' <=> InQueue(x))
      BY <1>2 DEF IInv
    <2>2. Locked(x)'
      BY <2>1 DEF IInv, TypeOK, HandInv, ExchangeInv, Engaged, Life, Locked, Queued, Early,
         Pending, Left, Reachable
    <2>3. Queued(x)'
      BY <2>1 DEF IInv, TypeOK, HandInv, ExchangeInv, Engaged, Life, Locked, Queued, Early,
         Pending, Left, Reachable
    <2>4. Pending(x)'
      BY <2>1 DEF IInv, TypeOK, HandInv, ExchangeInv, Engaged, Life, Locked, Queued, Early,
         Pending, Left, Reachable
    <2>5. Left(x)'
      BY <2>1 DEF IInv, TypeOK, HandInv, ExchangeInv, Engaged, Life, Locked, Queued, Early,
         Pending, Left, Reachable
    <2> QED
      BY <2>2, <2>3, <2>4, <2>5 DEF Life
  <1>5. \A x \in Request : InFlight(x)' <=> InFlight(x)
    BY SMT DEF IInv, TypeOK, HandInv, ExchangeInv, Engaged, Life, Locked, Pending, InFlight
  <1>6. CountInv'
    BY <1>5, SMT DEF IInv, TypeOK, HandInv, CountInv
  <1> QED
    BY <1>2, <1>3, <1>4, <1>6

\* the reply says yes,
LEMMA XmitAcceptedKeeps ==
  ASSUME IInv, XmitAccepted
  PROVE  IInv'
  <1> USE ZhalAssumption DEF XmitAccepted, NextItem, core, item, work
  <1>1. TypeOK' /\ HandInv'
    BY DEF IInv, TypeOK, HandInv
  <1> SUFFICES ASSUME ~mishap
              PROVE  QueueInv' /\ ExchangeInv' /\ CountInv' /\ \A x \in Request : Life(x)'
    BY <1>1 DEF IInv
  <1>2. QueueInv' /\ \A x \in Request : InQueue(x)' <=> InQueue(x)
    BY DEF IInv, QueueInv, InQueue
  <1>3. ExchangeInv'
    BY DEF IInv, TypeOK, HandInv, ExchangeInv, Engaged
  <1>4. ASSUME NEW x \in Request PROVE Life(x)'
    <2>1. Life(x) /\ (InQueue(x)' <=> InQueue(x))
      BY <1>2 DEF IInv
    <2>2. Locked(x)'
      BY <2>1, SMT DEF IInv, TypeOK, HandInv, ExchangeInv, Engaged, Life, Locked, Queued,
         Early, Pending, Left, Reachable
    <2>3. Queued(x)'
      BY <2>1 DEF IInv, TypeOK, HandInv, ExchangeInv, Engaged, Life, Locked, Queued, Early,
         Pending, Left, Reachable
    <2>4. Pending(x)'
      BY <2>1 DEF IInv, TypeOK, HandInv, ExchangeInv, Engaged, Life, Locked, Queued, Early,
         Pending, Left, Reachable
    <2>5. Left(x)'
      BY <2>1 DEF IInv, TypeOK, HandInv, ExchangeInv, Engaged, Life, Locked, Queued, Early,
         Pending, Left, Reachable
    <2> QED
      BY <2>2, <2>3, <2>4, <2>5 DEF Life
  <1>5. \A x \in Request : InFlight(x)' <=> InFlight(x)
    BY DEF IInv, TypeOK, HandInv, ExchangeInv, Engaged, Life, Locked, Pending, InFlight
  <1>6. CountInv'
    BY <1>5 DEF IInv, TypeOK, HandInv, CountInv
  <1> QED
    BY <1>2, <1>3, <1>4, <1>6

\* or it says no,
LEMMA XmitRefusedKeeps ==
  ASSUME IInv, XmitRefused
  PROVE  IInv'
  <1> USE ZhalAssumption DEF XmitRefused, core, item, work
  <1>1. TypeOK' /\ HandInv'
    BY DEF IInv, TypeOK, HandInv
  <1> SUFFICES ASSUME ~mishap
              PROVE  QueueInv' /\ ExchangeInv' /\ CountInv' /\ \A x \in Request : Life(x)'
    BY <1>1 DEF IInv
  <1>2. QueueInv' /\ \A x \in Request : InQueue(x)' <=> InQueue(x)
    BY DEF IInv, QueueInv, InQueue
  <1>3. ExchangeInv'
    <2>1. current \in Request /\ Life(current)
      BY DEF IInv, TypeOK, HandInv
    <2> QED
      BY <2>1 DEF IInv, TypeOK, HandInv, ExchangeInv, Engaged, Life, Locked, Queued, Early,
         Pending, InFlight
  <1>4. ASSUME NEW x \in Request PROVE Life(x)'
    <2>1. Life(x) /\ (InQueue(x)' <=> InQueue(x))
      BY <1>2 DEF IInv
    <2>2. Locked(x)'
      BY <2>1 DEF IInv, TypeOK, HandInv, ExchangeInv, Engaged, Life, Locked, Queued, Early,
         Pending, Left, Reachable
    <2>3. Queued(x)'
      BY <2>1 DEF IInv, TypeOK, HandInv, ExchangeInv, Engaged, Life, Locked, Queued, Early,
         Pending, Left, Reachable
    <2>4. Pending(x)'
      BY <2>1 DEF IInv, TypeOK, HandInv, ExchangeInv, Engaged, Life, Locked, Queued, Early,
         Pending, Left, Reachable
    <2>5. Left(x)'
      BY <2>1 DEF IInv, TypeOK, HandInv, ExchangeInv, Engaged, Life, Locked, Queued, Early,
         Pending, Left, Reachable
    <2> QED
      BY <2>2, <2>3, <2>4, <2>5 DEF Life
  <1>5. \A x \in Request : InFlight(x)' <=> InFlight(x)
    BY SMT DEF IInv, TypeOK, HandInv, ExchangeInv, Engaged, Life, Locked, Pending, InFlight
  <1>6. CountInv'
    BY <1>5, SMT DEF IInv, TypeOK, HandInv, CountInv
  <1> QED
    BY <1>2, <1>3, <1>4, <1>6

\* or does not come, which is a mishap.
LEMMA XmitLateKeeps ==
  ASSUME IInv, XmitLate
  PROVE  IInv'
  <1> USE ZhalAssumption DEF XmitLate, core, item, work
  <1>1. TypeOK' /\ HandInv'
    BY DEF IInv, TypeOK, HandInv
  <1> QED
    BY <1>1 DEF IInv

\* A failed exchange takes the item out of asyncRequests ...
LEMMA FailAsyncKeeps ==
  ASSUME IInv, FailAsync
  PROVE  IInv'
  <1> USE ZhalAssumption DEF FailAsync, core, item, work
  <1>1. TypeOK' /\ HandInv'
    BY DEF IInv, TypeOK, HandInv
  <1> SUFFICES ASSUME ~mishap
              PROVE  QueueInv' /\ ExchangeInv' /\ CountInv' /\ \A x \in Request : Life(x)'
    BY <1>1 DEF IInv
  <1>2. QueueInv' /\ \A x \in Request : InQueue(x)' <=> InQueue(x)
    BY DEF IInv, QueueInv, InQueue
  <1>3. ExchangeInv'
    BY DEF IInv, TypeOK, HandInv, ExchangeInv, Engaged
  <1>4. ASSUME NEW x \in Request PROVE Life(x)'
    <2>1. Life(x) /\ (InQueue(x)' <=> InQueue(x))
      BY <1>2 DEF IInv
    <2>2. Locked(x)'
      BY <2>1 DEF IInv, TypeOK, HandInv, ExchangeInv, Engaged, Life, Locked, Queued, Early,
         Pending, Left, Reachable
    <2>3. Queued(x)'
      BY <2>1 DEF IInv, TypeOK, HandInv, ExchangeInv, Engaged, Life, Locked, Queued, Early,
         Pending, Left, Reachable
    <2>4. Pending(x)'
      BY <2>1 DEF IInv, TypeOK, HandInv, ExchangeInv, Engaged, Life, Locked, Queued, Early,
         Pending, Left, Reachable
    <2>5. Left(x)'
      BY <2>1 DEF IInv, TypeOK, HandInv, ExchangeInv, Engaged, Life, Locked, Queued, Early,
         Pending, Left, Reachable
    <2> QED
      BY <2>2, <2>3, <2>4, <2>5 DEF Life
  <1>5. \A x \in Request : InFlight(x)' <=> InFlight(x)
    BY DEF IInv, TypeOK, HandInv, ExchangeInv, Engaged, Life, Locked, Pending, InFlight
  <1>6. CountInv'
    BY <1>5 DEF IInv, TypeOK, HandInv, CountInv
  <1> QED
    BY <1>2, <1>3, <1>4, <1>6

\* ... clears busy and signals the sender.
LEMMA FailSignalKeeps ==
  ASSUME IInv, FailSignal
  PROVE  IInv'
  <1> USE ZhalAssumption DEF FailSignal, NextItem, SignalItem, core, item, work
  <1>0. /\ isBusy' \in [Device -> Int]
        /\ isBusy'[DeviceOf[current]] = isBusy[DeviceOf[current]] - 1
        /\ \A d \in Device \ {DeviceOf[current]} : isBusy'[d] = isBusy[d]
    <2>1. Busier(DeviceOf[current], -1)
      OBVIOUS
    <2>2. DeviceOf[current] \in Device /\ 1 \in {0, 1} /\ isBusy \in [Device -> Int]
      BY DEF IInv, TypeOK, HandInv
    <2> QED
      BY <2>1, <2>2, LessBusy
  <1>1. TypeOK' /\ HandInv'
    <2>1. current \in Request
      BY DEF IInv, TypeOK, HandInv
    <2>2. isBusy' \in [Device -> Int]
      BY <1>0
    <2> QED
      BY <2>2 DEF IInv, TypeOK, HandInv
  <1> SUFFICES ASSUME ~mishap
              PROVE  QueueInv' /\ ExchangeInv' /\ CountInv' /\ \A x \in Request : Life(x)'
    BY <1>1 DEF IInv
  <1>2. QueueInv' /\ \A x \in Request : InQueue(x)' <=> InQueue(x)
    BY DEF IInv, QueueInv, InQueue
  <1>3. ExchangeInv'
    BY DEF IInv, TypeOK, HandInv, ExchangeInv, Engaged
  <1>4. ASSUME NEW x \in Request PROVE Life(x)'
    <2>1. Life(x) /\ (InQueue(x)' <=> InQueue(x))
      BY <1>2 DEF IInv
    <2>2. Locked(x)'
      <3>1. ~Engaged' /\ current \in Request
        BY DEF Engaged, IInv, TypeOK, HandInv
      <3>2. CASE x = current
        BY <2>1, <3>1, <3>2 DEF IInv, TypeOK, ExchangeInv, Engaged, Life, Locked
      <3>3. CASE x # current
        BY <2>1, <3>1, <3>3 DEF IInv, TypeOK, Life, Locked
      <3> QED
        BY <3>2, <3>3
    <2>3. Queued(x)'
      BY <2>1, SMT DEF IInv, TypeOK, HandInv, ExchangeInv, Engaged, Life, Locked, Queued,
         Early, Pending, Left, Reachable
    <2>4. Pending(x)'
      BY <2>1, SMT DEF IInv, TypeOK, HandInv, ExchangeInv, Engaged, Life, Locked, Queued,
         Early, Pending, Left, Reachable
    <2>5. Left(x)'
      BY <2>1, SMT DEF IInv, TypeOK, HandInv, ExchangeInv, Engaged, Life, Locked, Queued,
         Early, Pending, Left, Reachable
    <2> QED
      BY <2>2, <2>3, <2>4, <2>5 DEF Life
  <1>5. \A x \in Request : InFlight(x)' <=> InFlight(x) /\ x # current
    BY SMT DEF IInv, TypeOK, HandInv, ExchangeInv, Engaged, Life, Locked, Pending, InFlight
  <1>6. CountInv'
    <2>0. current \in Request /\ current \in avail /\ InFlight(current)
      BY DEF IInv, TypeOK, HandInv, InFlight
    <2>2. isBusy[DeviceOf[current]] = 1 /\ isBusy'[DeviceOf[current]] = 0
      BY <2>0, <1>0, SMT DEF IInv, CountInv, InFlight
    <2>3. \A x \in Request : InFlight(x) /\ DeviceOf[x] = DeviceOf[current] => x = current
      BY <2>0 DEF IInv, CountInv, InFlight
    <2>4. \A d \in Device : isBusy'[d] = IF d = DeviceOf[current] THEN 0 ELSE isBusy[d]
      BY <2>0, <1>0, <2>2
    <2>5. \A x \in Request : InFlight(x)' <=> InFlight(x) /\ DeviceOf[x] # DeviceOf[current]
      BY <2>0, <1>5, <2>3 DEF InFlight
    <2>6. /\ CountInv /\ DeviceOf[current] \in Device
          /\ NoMoreWork /\ avail \subseteq Request /\ avail' \subseteq Request
      BY <2>0 DEF IInv, TypeOK, NoMoreWork
    <2> QED
      BY <2>4, <2>5, <2>6, CountDown
  <1> QED
    BY <1>2, <1>3, <1>4, <1>6

-----------------------------------------------------------------------------
(***************************************************************************)
(* Together.                                                               *)
(***************************************************************************)

\* zhalInit: no device has a queue with anything in it, and nothing is pending.
LEMMA InitHolds ==
  ASSUME Init
  PROVE  IInv
  <1> USE ZhalAssumption DEF Init
  <1>1. TypeOK /\ HandInv
    <2>1. queue \in [Device -> Seq(Request)]
      BY SMT
    <2>2. isBusy \in [Device -> Int]
      BY SMT
    <2>3. mtx \in [Request -> {"free", "sender", "worker"}]
      BY SMT
    <2>4. sender \in [Request -> {"idle", "pushed", "waiting", "woken", "expired",
                                  "pending", "absent", "signal", "ended", "done"}]
      BY SMT
    <2>5. handler \in [Request -> {"none", "take", "busy", "lock", "signal", "done"}]
      BY SMT
    <2>6. worker \in {"scan", "asleep", "work", "busy", "xmit", "reply", "failed", "unbusy"}
      OBVIOUS
    <2>7. mishap \in BOOLEAN /\ HandInv
      BY DEF HandInv
    <2> QED
      BY <2>1, <2>2, <2>3, <2>4, <2>5, <2>6, <2>7 DEF TypeOK
  <1>2. \A d \in Device : Len(queue[d]) = 0 /\ \A r : ~Contains(queue[d], r)
    BY SMT DEF Contains
  <1>3. QueueInv
    BY <1>2, SMT DEF QueueInv, Once
  <1>4. \A r \in Request : ~InQueue(r)
    BY <1>2 DEF InQueue
  <1>5. ExchangeInv /\ CountInv
    BY SMT DEF ExchangeInv, Engaged, CountInv, InFlight
  <1>6. \A r \in Request : Life(r)
    BY <1>4 DEF Life, Locked, Queued, Pending, Left, Engaged, Early, Reachable
  <1> QED
    BY <1>1, <1>3, <1>5, <1>6 DEF IInv

\* A step of none of the threads leaves everything as it is.
LEMMA StutterKeeps ==
  ASSUME IInv, UNCHANGED vars
  PROVE  IInv'
  <1> USE DEF vars, core, item, work
  <1>1. TypeOK' /\ HandInv'
    BY DEF IInv, TypeOK, HandInv
  <1>2. mishap' = mishap
    OBVIOUS
  <1>3. QueueInv => QueueInv'
    BY DEF QueueInv
  <1>4. ExchangeInv => ExchangeInv'
    BY DEF ExchangeInv, Engaged
  <1>5. CountInv => CountInv'
    BY SMT DEF CountInv, InFlight
  <1>6. ASSUME NEW r \in Request, Life(r)
        PROVE  Life(r)'
    BY <1>6, SMT DEF Life, Locked, Queued, Pending, Left, Engaged, Early, Reachable, InQueue
  <1> QED
    BY <1>1, <1>2, <1>3, <1>4, <1>5, <1>6, SMT DEF IInv

\* The worker, the senders and the responses' threads, step by step.
LEMMA NextKeeps ==
  ASSUME IInv, [Next]_vars
  PROVE  IInv'
  <1>1. CASE Worker
    <2>1. CASE ScanFinds
      BY <2>1, ScanFindsKeeps
    <2>2. CASE ScanWaits
      BY <2>2, ScanWaitsKeeps
    <2>3. CASE WorkOnTimedOut
      BY <2>3, WorkOnTimedOutKeeps
    <2>4. CASE WorkOnItem
      BY <2>4, WorkOnItemKeeps
    <2>5. CASE WorkBusy
      BY <2>5, WorkBusyKeeps
    <2>6. CASE XmitSend
      BY <2>6, XmitSendKeeps
    <2>7. CASE XmitConnectFails
      BY <2>7, XmitConnectFailsKeeps
    <2>8. CASE XmitAccepted
      BY <2>8, XmitAcceptedKeeps
    <2>9. CASE XmitRefused
      BY <2>9, XmitRefusedKeeps
    <2>10. CASE XmitLate
      BY <2>10, XmitLateKeeps
    <2>11. CASE FailAsync
      BY <2>11, FailAsyncKeeps
    <2>12. CASE FailSignal
      BY <2>12, FailSignalKeeps
    <2> QED
      BY <1>1, <2>1, <2>2, <2>3, <2>4, <2>5, <2>6, <2>7, <2>8, <2>9, <2>10, <2>11,
         <2>12 DEF Worker
  <1>2. ASSUME NEW r \in Request,
               SendPush(r) \/ Send(r) \/ Expire(r) \/ WakeSpuriously(r)
                 \/ Receive(r) \/ Lose(r) \/ Handle(r)
        PROVE  IInv'
    <2>1. CASE SendPush(r)
      BY <2>1, SendPushKeeps
    <2>2. CASE SendWait(r)
      BY <2>2, SendWaitKeeps
    <2>3. CASE Expire(r)
      BY <2>3, ExpireKeeps
    <2>4. CASE WakeSpuriously(r)
      BY <2>4, WakeSpuriouslyKeeps
    <2>5. CASE ExpireAsync(r)
      BY <2>5, ExpireAsyncKeeps
    <2>6. CASE ExpireQueue(r)
      BY <2>6, ExpireQueueKeeps
    <2>7. CASE ExpireSignal(r)
      BY <2>7, ExpireSignalKeeps
    <2>8. CASE SendWoken(r)
      BY <2>8, SendWokenKeeps
    <2>9. CASE SendEnd(r)
      BY <2>9, SendEndKeeps
    <2>10. CASE Receive(r)
      BY <2>10, ReceiveKeeps
    <2>11. CASE Lose(r)
      BY <2>11, LoseKeeps
    <2>12. CASE HandleTake(r)
      BY <2>12, HandleTakeKeeps
    <2>13. CASE HandleBusy(r)
      BY <2>13, HandleBusyKeeps
    <2>14. CASE HandleItem(r)
      BY <2>14, HandleItemKeeps
    <2>15. CASE HandleSignal(r)
      BY <2>15, HandleSignalKeeps
    <2> QED
      BY <1>2, <2>1, <2>2, <2>3, <2>4, <2>5, <2>6, <2>7, <2>8, <2>9, <2>10,
         <2>11, <2>12, <2>13, <2>14, <2>15 DEF Send, Handle
  <1>3. CASE UNCHANGED vars
    BY <1>3, StutterKeeps
  <1> QED
    BY <1>1, <1>2, <1>3 DEF Next

\* The invariant holds throughout.
LEMMA Invariant == Spec => []IInv
  <1>1. Init => IInv
    BY InitHolds
  <1>2. IInv /\ [Next]_vars => IInv'
    BY NextKeeps
  <1> QED
    BY <1>1, <1>2, PTL DEF Spec

-----------------------------------------------------------------------------
(***************************************************************************)
(* deviceQueue.isBusy counts: the counter that getAvailableWork reads is 1 *)
(* while one request of the device is in flight and 0 while none is, for   *)
(* any number of devices, senders and responses, as long as no exchange    *)
(* fails after ZigbeeCore took the request and no wait ends by itself.     *)
(***************************************************************************)
THEOREM BusyIsCounted == Spec => []BusyCounts
  <1>1. IInv => BusyCounts
    <2> SUFFICES ASSUME IInv, ~mishap, NEW d \in Device
                 PROVE  LET flying == {r \in Request : DeviceOf[r] = d /\ InFlight(r)}
                        IN  \/ flying = {} /\ isBusy[d] = 0
                            \/ \E r \in Request : flying = {r} /\ isBusy[d] = 1
      BY DEF BusyCounts
    <2> DEFINE flying == {r \in Request : DeviceOf[r] = d /\ InFlight(r)}
    <2>0. CountInv
      BY DEF IInv
    <2>1. CASE isBusy[d] = 1
      <3>1. PICK r \in Request : DeviceOf[r] = d /\ InFlight(r)
        BY <2>0, <2>1 DEF CountInv
      <3>2. \A x \in flying : x = r
        BY <2>0, <3>1 DEF CountInv
      <3>3. flying = {r}
        BY <3>1, <3>2
      <3> QED
        BY <2>1, <3>3
    <2>2. CASE isBusy[d] = 0
      <3>1. flying = {}
        BY <2>0, <2>2, SMT DEF CountInv
      <3> QED
        BY <2>2, <3>1
    <2> QED
      BY <2>0, <2>1, <2>2 DEF CountInv
  <1> QED
    BY <1>1, Invariant, PTL

(***************************************************************************)
(* workItemDestroy is called when the item can no longer be found: neither *)
(* asyncRequests, nor a device queue, nor the worker, nor a response's     *)
(* thread leads to it, under the same provisos.                            *)
(***************************************************************************)
THEOREM FreedIsUnreachable == Spec => []FreedUnreachable
  <1>1. IInv => FreedUnreachable
    BY DEF IInv, TypeOK, Life, Left, FreedUnreachable
  <1> QED
    BY <1>1, Invariant, PTL
=============================================================================
