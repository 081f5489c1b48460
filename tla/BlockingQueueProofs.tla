------------------------ MODULE BlockingQueueProofs ------------------------
(***************************************************************************)
(* Proofs about BlockingQueue, for any threads, items and capacity.        *)
(***************************************************************************)
EXTENDS BlockingQueue, TLAPS

\* Removing one element (queueDelete, linkedListDelete) leaves a sequence of the same kind
\* that is one shorter.
LEMMA WithoutIsSeq ==
    ASSUME NEW S, NEW s \in Seq(S), NEW k \in 1..Len(s)
    PROVE  /\ Without(s, k) \in Seq(S)
           /\ Len(Without(s, k)) = Len(s) - 1
           /\ \A i \in 1..(Len(s) - 1) :
                 Without(s, k)[i] = IF i < k THEN s[i] ELSE s[i + 1]
<1> DEFINE n == Len(s)
<1>1. n \in Nat /\ n - 1 \in Nat /\ \A i \in 1..n : s[i] \in S
  OBVIOUS
<1>2. \A i \in 1..(n - 1) : (IF i < k THEN s[i] ELSE s[i + 1]) \in S
  BY <1>1
<1>3. Without(s, k) = [i \in 1..(n - 1) |-> IF i < k THEN s[i] ELSE s[i + 1]]
  BY DEF Without
<1> HIDE DEF n
<1>4. Without(s, k) \in Seq(S)
  BY <1>1, <1>2, <1>3
<1>5. Len(Without(s, k)) = n - 1
  BY <1>1, <1>3
<1> QED
  BY <1>3, <1>4, <1>5 DEF n

\* Who can be where: only poppers wait on the empty condition and only pushers on the
\* full one, because a thread waits only inside its own call.
Places ==
    \A t \in Thread : /\ op[t] = "push" => t \in Pusher
                      /\ op[t] = "pop" => t \in Popper
                      /\ wait[t] = "empty" => op[t] = "pop"
                      /\ wait[t] = "full" => op[t] = "push"

\* No item carries a stamp that has not been given out, so the next accepted item is the
\* newest.
StampsGiven == \A x \in Item : stamp[x] \leq accepted

IInv ==
    /\ TypeOK
    /\ Conservation
    /\ Fifo
    /\ StampsGiven
    /\ Places
    /\ NoSleeperWhenDisabled

-----------------------------------------------------------------------------
\* pthread_cond_signal moves at most one thread, from the signalled condition to the
\* mutex; it moves one if one waits.
LEMMA SignalledEffect ==
    ASSUME NEW w \in [Thread -> Where], NEW c \in {"full", "empty"},
           NEW v \in Signalled(w, c)
    PROVE  /\ v \in [Thread -> Where]
           /\ \A t \in Thread : v[t] = w[t] \/ (w[t] = c /\ v[t] = "woken")
           /\ (\E t \in Thread : w[t] = c) => \E t \in Thread : w[t] = c /\ v[t] = "woken"
<1>1. CASE \E t \in Thread : w[t] = c
  <2>1. PICK t \in Thread : w[t] = c /\ v = [w EXCEPT ![t] = "woken"]
    BY <1>1 DEF Signalled
  <2>2. "woken" \in Where
    BY DEF Where
  <2> QED
    BY <2>1, <2>2
<1>2. CASE ~\E t \in Thread : w[t] = c
  <2>1. v = w
    BY <1>2 DEF Signalled
  <2> QED
    BY <1>2, <2>1
<1> QED
  BY <1>1, <1>2

-----------------------------------------------------------------------------
LEMMA InitIInv == Init => IInv
<1> SUFFICES ASSUME Init PROVE IInv
  OBVIOUS
<1> USE CapacityAssumption DEF Init
<1>1. TypeOK
  BY DEF TypeOK, Op, Timeout, Where, Result, Fate
<1>2. Conservation /\ Fifo
  BY DEF Conservation, OfferedOnce, Fifo
<1>3. StampsGiven /\ Places /\ NoSleeperWhenDisabled
  BY DEF StampsGiven, Places, NoSleeperWhenDisabled
<1> QED
  BY <1>1, <1>2, <1>3 DEF IInv

-----------------------------------------------------------------------------
(***************************************************************************)
(* One lemma per operation: it preserves the invariant.                    *)
(***************************************************************************)
LEMMA PushCallStep ==
    ASSUME IInv, NEW t \in Thread, NEW x \in Item, NEW to \in Timeout, PushCall(t, x, to)
    PROVE  IInv'
<1> USE DEF IInv, PushCall, Enter
<1>1. TypeOK'
  BY DEF TypeOK, Op, Timeout, Where, Result, Fate
<1>2. Conservation'
  BY DEF TypeOK, Conservation, OfferedOnce
<1>3. Fifo' /\ StampsGiven'
  BY DEF TypeOK, Conservation, Fifo, StampsGiven
<1>4. Places' /\ NoSleeperWhenDisabled'
  BY DEF TypeOK, Places, NoSleeperWhenDisabled
<1> QED
  BY <1>1, <1>2, <1>3, <1>4

LEMMA PopCallStep ==
    ASSUME IInv, NEW t \in Thread, NEW to \in Timeout, PopCall(t, to)
    PROVE  IInv'
<1> USE DEF IInv, PopCall, Enter
<1>1. TypeOK'
  BY DEF TypeOK, Op, Timeout, Where, Result, Fate
<1>2. Conservation'
  BY DEF TypeOK, Conservation, OfferedOnce
<1>3. Fifo' /\ StampsGiven'
  BY DEF TypeOK, Fifo, StampsGiven
<1>4. Places' /\ NoSleeperWhenDisabled'
  BY DEF TypeOK, Places, NoSleeperWhenDisabled
<1> QED
  BY <1>1, <1>2, <1>3, <1>4

LEMMA PushRefuseStep ==
    ASSUME IInv, NEW t \in Thread, op[t] = "push", NEW r \in Result, PushRefuse(t, r)
    PROVE  IInv'
<1> USE DEF IInv, PushRefuse, PushRefuseWith, Return
<1>0. slot[t] \in Item /\ fate[slot[t]] = "offered"
  BY DEF Conservation, OfferedOnce
<1>1. TypeOK'
  BY <1>0 DEF TypeOK, Op, Timeout, Where, Result, Fate
<1>2. Conservation'
  BY <1>0 DEF TypeOK, Conservation, OfferedOnce
<1>3. Fifo' /\ StampsGiven'
  BY <1>0 DEF TypeOK, Conservation, Fifo, StampsGiven
<1>4. Places' /\ NoSleeperWhenDisabled'
  BY DEF TypeOK, Places, NoSleeperWhenDisabled
<1> QED
  BY <1>1, <1>2, <1>3, <1>4

LEMMA PopRefuseStep ==
    ASSUME IInv, NEW t \in Thread, op[t] = "pop", NEW r \in Result, PopRefuse(t, r)
    PROVE  IInv'
<1> USE DEF IInv, PopRefuse, Return
<1>1. TypeOK'
  BY DEF TypeOK, Op, Timeout, Where, Result, Fate
<1>2. Conservation'
  BY DEF TypeOK, Conservation, OfferedOnce
<1>3. Fifo' /\ StampsGiven'
  BY DEF TypeOK, Fifo, StampsGiven
<1>4. Places' /\ NoSleeperWhenDisabled'
  BY DEF TypeOK, Places, NoSleeperWhenDisabled
<1> QED
  BY <1>1, <1>2, <1>3, <1>4

\* A call that waits joins the condition of its own kind, and only while the queue is
\* enabled.
LEMMA BlockStep ==
    ASSUME IInv, NEW t \in Thread, NEW c \in {"full", "empty"}, enabled,
           c = "full" => op[t] = "push", c = "empty" => op[t] = "pop", Block(t, c)
    PROVE  IInv'
<1> USE DEF IInv, Block
<1>1. TypeOK'
  BY DEF TypeOK, Op, Timeout, Where, Result, Fate
<1>2. Conservation' /\ Fifo' /\ StampsGiven'
  BY DEF Conservation, OfferedOnce, Fifo, StampsGiven
<1>3. Places' /\ NoSleeperWhenDisabled'
  BY DEF TypeOK, Places, NoSleeperWhenDisabled
<1> QED
  BY <1>1, <1>2, <1>3

LEMMA PushAcceptStep ==
    ASSUME IInv, NEW t \in Thread, op[t] = "push", ~Full, PushAccept(t)
    PROVE  IInv'
<1> DEFINE x == slot[t]
           w == [wait EXCEPT ![t] = "out"]
           n == Len(items)
<1> USE DEF IInv
<1>0. x \in Item /\ fate[x] = "offered"
  BY DEF Conservation, OfferedOnce
<1>1. /\ op' = [op EXCEPT ![t] = "none"]
      /\ ret' = [ret EXCEPT ![t] = "ok"]
      /\ slot' = [slot EXCEPT ![t] = NoItem]
      /\ tmo' = [tmo EXCEPT ![t] = "zero"]
      /\ due' = [due EXCEPT ![t] = FALSE]
      /\ enabled' = enabled /\ alive' = alive
      /\ fate' = [fate EXCEPT ![x] = "queued"]
      /\ stamp' = [stamp EXCEPT ![x] = accepted + 1]
      /\ accepted' = accepted + 1
  BY DEF PushAccept, PushAcceptWith, Return
<1>2. /\ wait' \in [Thread -> Where]
      /\ \A u \in Thread : wait'[u] \in {wait[u], "out", "woken"}
      /\ wait'[t] = "out"
  <2>1. w \in [Thread -> Where] /\ w[t] = "out" /\ \A u \in Thread \ {t} : w[u] = wait[u]
    BY DEF TypeOK, Where
  <2>2. wait' \in Signalled(w, "empty") \/ wait' = w
    BY DEF PushAccept, PushAcceptWith
  <2> HIDE DEF w, IInv
  <2> QED
    BY <2>1, <2>2, SignalledEffect
<1>3. /\ n \in Nat
      /\ items' \in Seq(Item)
      /\ Len(items') = n + 1
      /\ items'[n + 1] = x
      /\ \A i \in 1..n : items'[i] = items[i] /\ items[i] \in Item
  <2>1. items' = Append(items, x)
    BY DEF PushAccept, PushAcceptWith
  <2> QED
    BY <1>0, <2>1 DEF TypeOK
<1> HIDE DEF x, w, n
<1>4. TypeOK'
  <2>1. Len(items') \leq Capacity
    BY <1>3, CapacityAssumption DEF TypeOK, Full, n
  <2>2. /\ op' \in [Thread -> Op] /\ slot' \in [Thread -> Item \cup {NoItem}]
        /\ tmo' \in [Thread -> Timeout] /\ due' \in [Thread -> BOOLEAN]
        /\ ret' \in [Thread -> Result] /\ enabled' \in BOOLEAN /\ alive' \in BOOLEAN
    BY <1>1 DEF TypeOK, Op, Timeout, Result
  <2>3. fate' \in [Item -> Fate] /\ stamp' \in [Item -> Nat] /\ accepted' \in Nat
    BY <1>0, <1>1 DEF TypeOK, Fate
  <2> QED
    BY <1>2, <1>3, <2>1, <2>2, <2>3 DEF TypeOK
<1>5. /\ \A i \in 1..n : items[i] # x
      /\ fate'[x] = "queued" /\ stamp'[x] = accepted + 1
      /\ \A y \in Item \ {x} : fate'[y] = fate[y] /\ stamp'[y] = stamp[y]
  BY <1>0, <1>1, <1>3 DEF TypeOK, Conservation, n
<1>6. Conservation'
  <2>1. \A i \in 1..Len(items') : fate'[items'[i]] = "queued"
    BY <1>3, <1>5 DEF Conservation, n
  <2>2. \A y \in Item : fate'[y] = "queued" => \E i \in 1..Len(items') : items'[i] = y
    <3> SUFFICES ASSUME NEW y \in Item, fate'[y] = "queued"
                 PROVE  \E i \in 1..(n + 1) : items'[i] = y
      BY <1>3
    <3>1. CASE y = x
      BY <1>3, <3>1
    <3>2. CASE y # x
      <4>1. PICK i \in 1..n : items[i] = y
        BY <1>5, <3>2 DEF Conservation, n
      <4> QED
        BY <1>3, <4>1
    <3> QED
      BY <3>1, <3>2
  <2>3. \A i, j \in 1..Len(items') : items'[i] = items'[j] => i = j
    BY <1>3, <1>5 DEF Conservation, n
  <2>4. OfferedOnce'
    BY <1>0, <1>1, <1>5 DEF TypeOK, Conservation, OfferedOnce, x
  <2> QED
    BY <2>1, <2>2, <2>3, <2>4 DEF Conservation
<1>7. StampsGiven'
  BY <1>0, <1>1, <1>5 DEF TypeOK, StampsGiven
<1>8. Fifo'
  <2>1. \A i, j \in 1..Len(items') : i < j => stamp'[items'[i]] < stamp'[items'[j]]
    <3> SUFFICES ASSUME NEW i \in 1..n, NEW j \in 1..(n + 1), i < j
                 PROVE  stamp'[items'[i]] < stamp'[items'[j]]
      BY <1>3
    <3>1. items'[i] = items[i] /\ stamp'[items'[i]] = stamp[items[i]]
      BY <1>3, <1>5
    <3>2. CASE j \in 1..n
      BY <1>3, <1>5, <3>1, <3>2 DEF Fifo, n
    <3>3. CASE j = n + 1
      <4>1. stamp[items[i]] \in Nat /\ stamp[items[i]] \leq accepted /\ accepted \in Nat
        BY <1>3 DEF TypeOK, StampsGiven
      <4> QED
        BY <1>3, <1>5, <3>1, <3>3, <4>1
    <3> QED
      BY <1>3, <3>2, <3>3
  <2>2. \A y, z \in Item : fate'[y] = "taken" /\ fate'[z] = "queued" => stamp'[y] < stamp'[z]
    <3> SUFFICES ASSUME NEW y \in Item, NEW z \in Item,
                        fate'[y] = "taken", fate'[z] = "queued"
                 PROVE  stamp'[y] < stamp'[z]
      OBVIOUS
    <3>1. y # x /\ stamp'[y] = stamp[y] /\ fate[y] = "taken"
      BY <1>5
    <3>2. CASE z = x
      <4>1. stamp[y] \in Nat /\ stamp[y] \leq accepted /\ accepted \in Nat
        BY DEF TypeOK, StampsGiven
      <4> QED
        BY <1>5, <3>1, <3>2, <4>1
    <3>3. CASE z # x
      BY <1>5, <3>1, <3>3 DEF Fifo
    <3> QED
      BY <3>2, <3>3
  <2> QED
    BY <2>1, <2>2 DEF Fifo
<1>9. Places' /\ NoSleeperWhenDisabled'
  BY <1>1, <1>2 DEF TypeOK, Places, NoSleeperWhenDisabled
<1> QED
  BY <1>4, <1>6, <1>7, <1>8, <1>9

LEMMA PopAcceptStep ==
    ASSUME IInv, NEW t \in Thread, op[t] = "pop", items # <<>>, PopAccept(t)
    PROVE  IInv'
<1> USE DEF IInv, PopAccept, PopAcceptWith, WakePusher, Return
<1> DEFINE w == [wait EXCEPT ![t] = "out"]
<1>0. Len(items) \geq 1 /\ Head(items) = items[1] /\ items[1] \in Item
  BY DEF TypeOK
<1>1. w \in [Thread -> Where] /\ w[t] = "out" /\ \A u \in Thread \ {t} : w[u] = wait[u]
  BY DEF TypeOK, Where
<1>2. /\ wait' \in [Thread -> Where]
      /\ \A u \in Thread : wait'[u] = w[u] \/ (w[u] = "full" /\ wait'[u] = "woken")
  <2>1. wait' \in Signalled(w, "full") \/ wait' = w
    OBVIOUS
  <2> HIDE DEF w, IInv, PopAccept, PopAcceptWith, WakePusher, Return
  <2> QED
    BY <1>1, <2>1, SignalledEffect
<1>3. /\ items' \in Seq(Item)
      /\ Len(items') = Len(items) - 1
      /\ \A i \in 1..(Len(items) - 1) : items'[i] = items[i + 1]
  BY <1>0 DEF TypeOK
<1>4. TypeOK'
  <2>1. Len(items') \leq Capacity
    BY <1>0, <1>3, CapacityAssumption DEF TypeOK
  <2> QED
    BY <1>0, <1>2, <1>3, <2>1 DEF TypeOK, Op, Timeout, Result, Fate
<1>5. Conservation'
  <2>1. \A i \in 1..Len(items') : fate'[items'[i]] = "queued"
    BY <1>0, <1>3 DEF TypeOK, Conservation
  <2>2. \A y \in Item : fate'[y] = "queued" => \E i \in 1..Len(items') : items'[i] = y
    <3> SUFFICES ASSUME NEW y \in Item, fate'[y] = "queued"
                 PROVE  \E i \in 1..Len(items') : items'[i] = y
      OBVIOUS
    <3>1. y # items[1] /\ fate[y] = "queued"
      BY <1>0 DEF TypeOK
    <3>2. PICK j \in 1..Len(items) : items[j] = y
      BY <3>1 DEF Conservation
    <3>3. j - 1 \in 1..Len(items') /\ items'[j - 1] = y
      BY <1>0, <1>3, <3>1, <3>2
    <3> QED
      BY <3>3
  <2>3. \A i, j \in 1..Len(items') : items'[i] = items'[j] => i = j
    BY <1>0, <1>3 DEF TypeOK, Conservation
  <2>4. OfferedOnce'
    BY <1>0 DEF TypeOK, Conservation, OfferedOnce
  <2> QED
    BY <2>1, <2>2, <2>3, <2>4 DEF Conservation
<1>6. Fifo' /\ StampsGiven'
  <2>1. \A i, j \in 1..Len(items') : i < j => stamp'[items'[i]] < stamp'[items'[j]]
    BY <1>0, <1>3 DEF TypeOK, Fifo
  <2>2. \A y \in Item : fate'[y] = "queued" => stamp[items[1]] < stamp[y]
    <3> SUFFICES ASSUME NEW y \in Item, fate'[y] = "queued"
                 PROVE  stamp[items[1]] < stamp[y]
      OBVIOUS
    <3>1. y # items[1] /\ fate[y] = "queued"
      BY <1>0 DEF TypeOK
    <3>2. PICK j \in 1..Len(items) : items[j] = y
      BY <3>1 DEF Conservation
    <3> QED
      BY <1>0, <3>1, <3>2 DEF Fifo
  <2>3. StampsGiven'
    BY DEF StampsGiven
  <2> QED
    BY <1>0, <2>1, <2>2, <2>3 DEF TypeOK, Fifo
<1>7. Places' /\ NoSleeperWhenDisabled'
  BY <1>1, <1>2 DEF TypeOK, Places, NoSleeperWhenDisabled
<1> QED
  BY <1>4, <1>5, <1>6, <1>7

LEMMA DeleteStep ==
    ASSUME IInv, NEW k \in 1..Len(items), Delete(k)
    PROVE  IInv'
<1> DEFINE x == items[k]
           n == Len(items)
<1> USE DEF IInv
<1>0. n \in Nat /\ k \in 1..n /\ x \in Item /\ fate[x] = "queued"
  BY DEF TypeOK, Conservation
<1>1. /\ op' = op /\ slot' = slot /\ tmo' = tmo /\ due' = due /\ ret' = ret
      /\ enabled' = enabled /\ alive' = alive /\ stamp' = stamp /\ accepted' = accepted
      /\ fate' = [fate EXCEPT ![x] = "freed"]
  BY DEF Delete
<1>2. /\ wait' \in [Thread -> Where]
      /\ \A u \in Thread : wait'[u] \in {wait[u], "woken"}
  <2>1. wait \in [Thread -> Where]
    BY DEF TypeOK
  <2>2. wait' \in Signalled(wait, "full") \/ wait' = wait
    BY DEF Delete, WakePusher
  <2> HIDE DEF IInv
  <2> QED
    BY <2>1, <2>2, SignalledEffect
<1>3. /\ items' \in Seq(Item)
      /\ Len(items') = n - 1
      /\ \A i \in 1..(n - 1) : items'[i] = IF i < k THEN items[i] ELSE items[i + 1]
      /\ \A i \in 1..n : items[i] \in Item
  <2>1. items' = Without(items, k)
    BY DEF Delete
  <2>2. items \in Seq(Item) /\ \A i \in 1..n : items[i] \in Item
    BY DEF TypeOK
  <2> HIDE DEF IInv
  <2> QED
    BY <2>1, <2>2, WithoutIsSeq
<1> HIDE DEF x, n
<1>4. TypeOK'
  <2>1. Len(items') \leq Capacity
    BY <1>0, <1>3, CapacityAssumption DEF TypeOK, n
  <2>2. fate' \in [Item -> Fate]
    BY <1>0, <1>1 DEF TypeOK, Fate
  <2> QED
    BY <1>1, <1>2, <1>3, <2>1, <2>2 DEF TypeOK
<1>5. /\ \A i \in 1..n : i # k => items[i] # x
      /\ fate'[x] = "freed"
      /\ \A y \in Item \ {x} : fate'[y] = fate[y]
  BY <1>0, <1>1 DEF TypeOK, Conservation, x, n
<1>6. Conservation'
  <2>1. \A i \in 1..Len(items') : fate'[items'[i]] = "queued"
    <3> SUFFICES ASSUME NEW i \in 1..(n - 1)
                 PROVE  fate'[items'[i]] = "queued"
      BY <1>3
    <3>1. CASE i < k
      BY <1>0, <1>3, <1>5, <3>1 DEF Conservation, n
    <3>2. CASE ~(i < k)
      <4>1. i + 1 \in 1..n /\ i + 1 # k /\ items'[i] = items[i + 1]
        BY <1>0, <1>3, <3>2
      <4> QED
        BY <1>3, <1>5, <4>1 DEF Conservation, n
    <3> QED
      BY <3>1, <3>2
  <2>2. \A y \in Item : fate'[y] = "queued" => \E i \in 1..Len(items') : items'[i] = y
    <3> SUFFICES ASSUME NEW y \in Item, fate'[y] = "queued"
                 PROVE  \E i \in 1..(n - 1) : items'[i] = y
      BY <1>3
    <3>1. y # x /\ fate[y] = "queued"
      BY <1>5
    <3>2. PICK j \in 1..n : items[j] = y
      BY <3>1 DEF Conservation, n
    <3>3. j # k
      BY <3>1, <3>2 DEF x
    <3>4. CASE j < k
      BY <1>0, <1>3, <3>2, <3>4
    <3>5. CASE j > k
      <4>1. j - 1 \in 1..(n - 1) /\ items'[j - 1] = y
        BY <1>0, <1>3, <3>2, <3>5
      <4> QED
        BY <4>1
    <3> QED
      BY <1>0, <3>3, <3>4, <3>5
  <2>3. \A i, j \in 1..Len(items') : items'[i] = items'[j] => i = j
    <3> SUFFICES ASSUME NEW i \in 1..(n - 1), NEW j \in 1..(n - 1), items'[i] = items'[j]
                 PROVE  i = j
      BY <1>3
    <3>1. \A a, b \in 1..n : items[a] = items[b] => a = b
      BY DEF Conservation, n
    <3> QED
      BY <1>0, <1>3, <3>1
  <2>4. OfferedOnce'
    BY <1>0, <1>1, <1>5 DEF TypeOK, Conservation, OfferedOnce
  <2> QED
    BY <2>1, <2>2, <2>3, <2>4 DEF Conservation
<1>7. Fifo' /\ StampsGiven'
  <2>1. \A i, j \in 1..Len(items') : i < j => stamp'[items'[i]] < stamp'[items'[j]]
    <3> SUFFICES ASSUME NEW i \in 1..(n - 1), NEW j \in 1..(n - 1), i < j
                 PROVE  stamp[items'[i]] < stamp[items'[j]]
      BY <1>1, <1>3
    <3>1. \A a, b \in 1..n : a < b => stamp[items[a]] < stamp[items[b]]
      BY DEF Fifo, n
    <3>2. PICK a \in 1..n : items'[i] = items[a] /\ a = IF i < k THEN i ELSE i + 1
      BY <1>0, <1>3
    <3>3. PICK b \in 1..n : items'[j] = items[b] /\ b = IF j < k THEN j ELSE j + 1
      BY <1>0, <1>3
    <3>4. a < b
      BY <1>0, <3>2, <3>3
    <3> QED
      BY <3>1, <3>2, <3>3, <3>4
  <2>2. \A y, z \in Item : fate'[y] = "taken" /\ fate'[z] = "queued" => stamp'[y] < stamp'[z]
    BY <1>1, <1>5 DEF Fifo
  <2>3. StampsGiven'
    BY <1>1 DEF StampsGiven
  <2> QED
    BY <2>1, <2>2, <2>3 DEF Fifo
<1>8. Places' /\ NoSleeperWhenDisabled'
  BY <1>1, <1>2 DEF TypeOK, Places, NoSleeperWhenDisabled
<1> QED
  BY <1>4, <1>6, <1>7, <1>8

\* Freeing every queued item leaves the others alone.
LEMMA FreeAllEffect ==
    ASSUME TypeOK
    PROVE  /\ FreeAll \in [Item -> Fate]
           /\ \A x \in Item : FreeAll[x] # "queued"
           /\ \A x \in Item : fate[x] # "queued" => FreeAll[x] = fate[x]
           /\ \A x \in Item : FreeAll[x] = fate[x] \/ FreeAll[x] = "freed"
BY DEF TypeOK, FreeAll, Fate

LEMMA ClearStep ==
    ASSUME IInv, Clear
    PROVE  IInv'
<1> USE DEF IInv
<1>1. /\ op' = op /\ slot' = slot /\ tmo' = tmo /\ due' = due /\ ret' = ret
      /\ enabled' = enabled /\ alive' = alive /\ stamp' = stamp /\ accepted' = accepted
      /\ items' = <<>> /\ fate' = FreeAll
  BY DEF Clear
<1>2. /\ wait' \in [Thread -> Where]
      /\ \A u \in Thread : wait'[u] \in {wait[u], "woken"}
  <2>1. wait \in [Thread -> Where]
    BY DEF TypeOK
  <2>2. wait' \in Signalled(wait, "full") \/ wait' = wait
    BY DEF Clear, WakePusher
  <2> HIDE DEF IInv
  <2> QED
    BY <2>1, <2>2, SignalledEffect
<1>3. TypeOK'
  BY <1>1, <1>2, FreeAllEffect, CapacityAssumption DEF TypeOK
<1>4. Conservation'
  BY <1>1, FreeAllEffect DEF Conservation, OfferedOnce
<1>5. Fifo' /\ StampsGiven'
  BY <1>1, FreeAllEffect DEF Fifo, StampsGiven
<1>6. Places' /\ NoSleeperWhenDisabled'
  BY <1>1, <1>2 DEF TypeOK, Places, NoSleeperWhenDisabled
<1> QED
  BY <1>3, <1>4, <1>5, <1>6

LEMMA DisableStep ==
    ASSUME IInv, Disable
    PROVE  IInv'
<1> USE DEF IInv, Disable, Broadcast
<1>1. TypeOK'
  BY DEF TypeOK, Where
<1>2. Conservation' /\ Fifo' /\ StampsGiven'
  BY DEF Conservation, OfferedOnce, Fifo, StampsGiven
<1>3. Places' /\ NoSleeperWhenDisabled'
  BY DEF TypeOK, Places, NoSleeperWhenDisabled
<1> QED
  BY <1>1, <1>2, <1>3

LEMMA DestroyBeginStep ==
    ASSUME IInv, NEW t \in Thread, DestroyBegin(t)
    PROVE  IInv'
<1> USE DEF IInv, DestroyBegin, Broadcast
<1>1. TypeOK'
  BY DEF TypeOK, Where, Op
<1>2. Conservation' /\ Fifo' /\ StampsGiven'
  BY DEF TypeOK, Conservation, OfferedOnce, Fifo, StampsGiven
<1>3. Places' /\ NoSleeperWhenDisabled'
  BY DEF TypeOK, Places, NoSleeperWhenDisabled
<1> QED
  BY <1>1, <1>2, <1>3

LEMMA DestroyFinishStep ==
    ASSUME IInv, NEW t \in Thread, DestroyFinish(t)
    PROVE  IInv'
<1> USE DEF IInv, DestroyFinish
<1>1. TypeOK'
  <2>1. fate' \in [Item -> Fate]
    BY FreeAllEffect
  <2>2. items' \in Seq(Item) /\ Len(items') \leq Capacity
    BY CapacityAssumption
  <2>3. op' \in [Thread -> Op]
    BY DEF TypeOK, Op
  <2> QED
    BY <2>1, <2>2, <2>3 DEF TypeOK
<1>2. Conservation' /\ Fifo' /\ StampsGiven'
  BY FreeAllEffect DEF TypeOK, Conservation, OfferedOnce, Fifo, StampsGiven
<1>3. Places' /\ NoSleeperWhenDisabled'
  BY DEF TypeOK, Places, NoSleeperWhenDisabled
<1> QED
  BY <1>1, <1>2, <1>3

\* The clock and the wait sets move without the mutex.
LEMMA WaitingStep ==
    ASSUME IInv, NEW t \in Thread, Deadline(t) \/ Expire(t) \/ SpuriousWakeup(t)
    PROVE  IInv'
<1> USE DEF IInv, Deadline, Expire, SpuriousWakeup
<1>1. TypeOK'
  BY DEF TypeOK, Where
<1>2. Conservation' /\ Fifo' /\ StampsGiven'
  BY DEF Conservation, OfferedOnce, Fifo, StampsGiven
<1>3. Places' /\ NoSleeperWhenDisabled'
  BY DEF TypeOK, Places, NoSleeperWhenDisabled
<1> QED
  BY <1>1, <1>2, <1>3

LEMMA PushRunStep ==
    ASSUME IInv, NEW t \in Thread, PushRun(t)
    PROVE  IInv'
<1>1. op[t] = "push"
  BY DEF PushRun
<1>2. {"interrupted", "timedout"} \subseteq Result
  BY DEF Result
<1>3. \/ PushRefuse(t, "interrupted")
      \/ PushRefuse(t, "timedout")
      \/ ~Full /\ PushAccept(t)
      \/ enabled /\ Block(t, "full")
  BY DEF PushRun
<1> QED
  BY <1>1, <1>2, <1>3, PushRefuseStep, PushAcceptStep, BlockStep

LEMMA PopRunStep ==
    ASSUME IInv, NEW t \in Thread, PopRun(t)
    PROVE  IInv'
<1>1. op[t] = "pop"
  BY DEF PopRun
<1>2. {"interrupted", "timedout"} \subseteq Result
  BY DEF Result
<1>3. \/ PopRefuse(t, "interrupted")
      \/ PopRefuse(t, "timedout")
      \/ items # <<>> /\ PopAccept(t)
      \/ enabled /\ Block(t, "empty")
  BY DEF PopRun
<1> QED
  BY <1>1, <1>2, <1>3, PopRefuseStep, PopAcceptStep, BlockStep

LEMMA NextIInv == IInv /\ [Next]_qvars => IInv'
<1> SUFFICES ASSUME IInv, [Next]_qvars PROVE IInv'
  OBVIOUS
<1>1. CASE \E t \in Thread, x \in Item, to \in Timeout : PushCall(t, x, to)
  BY <1>1, PushCallStep
<1>2. CASE \E t \in Thread, to \in Timeout : PopCall(t, to)
  BY <1>2, PopCallStep
<1>3. ASSUME NEW t \in Thread, PushRun(t) PROVE IInv'
  BY <1>3, PushRunStep
<1>4. ASSUME NEW t \in Thread, PopRun(t) PROVE IInv'
  BY <1>4, PopRunStep
<1>5. ASSUME NEW t \in Thread, DestroyBegin(t) PROVE IInv'
  BY <1>5, DestroyBeginStep
<1>6. ASSUME NEW t \in Thread, DestroyFinish(t) PROVE IInv'
  BY <1>6, DestroyFinishStep
<1>7. ASSUME NEW t \in Thread, Deadline(t) \/ Expire(t) \/ SpuriousWakeup(t) PROVE IInv'
  BY <1>7, WaitingStep
<1>8. CASE \E k \in 1..Len(items) : Delete(k)
  BY <1>8, DeleteStep
<1>9. CASE Clear
  BY <1>9, ClearStep
<1>10. CASE Disable
  BY <1>10, DisableStep
<1>11. CASE UNCHANGED qvars
  BY <1>11 DEF qvars, IInv, TypeOK, Conservation, OfferedOnce, Fifo, StampsGiven, Places,
               NoSleeperWhenDisabled, Full
<1> QED
  BY <1>1, <1>2, <1>3, <1>4, <1>5, <1>6, <1>7, <1>8, <1>9, <1>10, <1>11 DEF Next

-----------------------------------------------------------------------------
\* The blocking queue never exceeds its capacity, loses or duplicates no item, hands items
\* out in the order in which it accepted them, and keeps no sleeper once it is disabled,
\* for any number of threads, any capacity and any mixture of timeouts.
THEOREM QueueSafety ==
    Spec => [](TypeOK /\ Conservation /\ Fifo /\ NoSleeperWhenDisabled)
<1>1. Spec => []IInv
  BY InitIInv, NextIInv, PTL DEF Spec
<1>2. IInv => TypeOK /\ Conservation /\ Fifo /\ NoSleeperWhenDisabled
  BY DEF IInv
<1> QED
  BY <1>1, <1>2, PTL

-----------------------------------------------------------------------------
(***************************************************************************)
(* No lost wakeup for a single consumer or a single producer.              *)
(***************************************************************************)

\* An accepted push leaves no sole popper asleep: if it slept, the queue was empty, so the
\* push signalled the empty condition, and nobody else could have taken the signal.
LEMMA PushAcceptWakes ==
    ASSUME IInv, SolePopperAwake, NEW t \in Thread, op[t] = "push", PushAccept(t),
           \A a, b \in Popper : a = b, NEW p \in Popper
    PROVE  wait'[p] # "empty"
<1> DEFINE w == [wait EXCEPT ![t] = "out"]
<1>1. w \in [Thread -> Where] /\ w[t] = "out" /\ \A u \in Thread \ {t} : w[u] = wait[u]
  BY DEF IInv, TypeOK, Where
<1>2. items = <<>> => wait' \in Signalled(w, "empty")
  BY DEF PushAccept, PushAcceptWith
<1>3. items # <<>> => wait' = w
  BY DEF PushAccept, PushAcceptWith
<1>4. p \in Thread /\ \A u \in Thread : w[u] = "empty" => u = p
  <2>1. \A u \in Thread : wait[u] = "empty" => u \in Popper
    BY DEF IInv, Places
  <2> QED
    BY <1>1, <2>1 DEF Thread
<1>5. w[p] = "empty" => items = <<>>
  BY <1>1, <1>4 DEF SolePopperAwake
<1> HIDE DEF w
<1>6. CASE items = <<>>
  <2>1. /\ \A u \in Thread : wait'[u] = w[u] \/ (w[u] = "empty" /\ wait'[u] = "woken")
        /\ (\E u \in Thread : w[u] = "empty") => \E u \in Thread : w[u] = "empty" /\ wait'[u] = "woken"
    BY <1>1, <1>2, <1>6, SignalledEffect
  <2> QED
    BY <1>4, <2>1
<1>7. CASE items # <<>>
  BY <1>3, <1>5, <1>7
<1> QED
  BY <1>6, <1>7

LEMMA SolePopperStep == IInv /\ SolePopperAwake /\ [Next]_qvars => SolePopperAwake'
<1> SUFFICES ASSUME IInv, SolePopperAwake, [Next]_qvars,
                    \A a, b \in Popper : a = b, NEW p \in Popper, wait'[p] = "empty"
             PROVE  items' = <<>>
  BY DEF SolePopperAwake
<1>0. p \in Thread /\ (wait[p] = "empty" => items = <<>>) /\ wait \in [Thread -> Where]
  BY DEF SolePopperAwake, Thread, IInv, TypeOK
<1>1. CASE \E t \in Thread, x \in Item, to \in Timeout : PushCall(t, x, to)
  BY <1>0, <1>1 DEF PushCall, Enter
<1>2. CASE \E t \in Thread, to \in Timeout : PopCall(t, to)
  BY <1>0, <1>2 DEF PopCall, Enter
<1>3. ASSUME NEW t \in Thread, PushRun(t) PROVE items' = <<>>
  <2>1. CASE PushAccept(t)
    BY <1>3, <2>1, PushAcceptWakes DEF PushRun
  <2>2. CASE \E r \in Result : PushRefuse(t, r)
    BY <1>0, <2>2 DEF PushRefuse, PushRefuseWith
  <2>3. CASE Block(t, "full")
    BY <1>0, <2>3 DEF Block
  <2> QED
    BY <1>3, <2>1, <2>2, <2>3 DEF PushRun, Result
<1>4. ASSUME NEW t \in Thread, PopRun(t) PROVE items' = <<>>
  <2>1. CASE items # <<>> /\ PopAccept(t)
    <3>1. [wait EXCEPT ![t] = "out"] \in [Thread -> Where]
      BY <1>0 DEF Where
    <3>2. wait' \in Signalled([wait EXCEPT ![t] = "out"], "full") \/ wait' = [wait EXCEPT ![t] = "out"]
      BY <2>1 DEF PopAccept, PopAcceptWith, WakePusher
    <3>3. [wait EXCEPT ![t] = "out"][p] \in {wait[p], "out"}
      BY <1>0
    <3>4. wait'[p] \in {[wait EXCEPT ![t] = "out"][p], "woken"}
      BY <1>0, <3>1, <3>2, SignalledEffect
    <3> QED
      BY <1>0, <2>1, <3>3, <3>4
  <2>2. CASE \E r \in Result : PopRefuse(t, r)
    BY <1>0, <2>2 DEF PopRefuse
  <2>3. CASE items = <<>> /\ Block(t, "empty")
    BY <1>0, <2>3 DEF Block
  <2> QED
    BY <1>4, <2>1, <2>2, <2>3 DEF PopRun, Result
<1>5. CASE \E t \in Thread : DestroyBegin(t) \/ DestroyFinish(t)
  BY <1>0, <1>5 DEF DestroyBegin, DestroyFinish, Broadcast
<1>6. CASE \E t \in Thread : Deadline(t) \/ Expire(t) \/ SpuriousWakeup(t)
  BY <1>0, <1>6 DEF Deadline, Expire, SpuriousWakeup
<1>7. CASE \E k \in 1..Len(items) : Delete(k)
  <2>1. items # <<>>
    BY <1>7
  <2>2. wait' \in Signalled(wait, "full") \/ wait' = wait
    BY <1>7 DEF Delete, WakePusher
  <2>3. wait'[p] \in {wait[p], "woken"}
    BY <1>0, <2>2, SignalledEffect
  <2> QED
    BY <1>0, <2>1, <2>3
<1>8. CASE Clear
  BY <1>8 DEF Clear
<1>9. CASE Disable
  BY <1>0, <1>9 DEF Disable, Broadcast
<1>10. CASE UNCHANGED qvars
  BY <1>0, <1>10 DEF qvars
<1> QED
  BY <1>1, <1>2, <1>3, <1>4, <1>5, <1>6, <1>7, <1>8, <1>9, <1>10 DEF Next

\* A queue with at most one consumer thread (the task executor, the automation engine)
\* never lets it sleep on a non-empty queue.
THEOREM NoLostWakeupForSolePopper == Spec => []SolePopperAwake
<1>1. Init => SolePopperAwake
  BY DEF Init, SolePopperAwake, Thread
<1>2. Spec => []IInv
  BY InitIInv, NextIInv, PTL DEF Spec
<1> QED
  BY <1>1, <1>2, SolePopperStep, PTL DEF Spec

\* What a step may do to a disabled queue.
Inert == ~enabled => /\ ~enabled'
                     /\ accepted' = accepted
                     /\ \A x \in Item : fate'[x] = "taken" => fate[x] = "taken"

\* No step lets an item into a disabled queue or hands one out.
LEMMA StepIsInert == IInv /\ [Next]_qvars => Inert
<1> SUFFICES ASSUME IInv, [Next]_qvars, ~enabled
             PROVE  /\ ~enabled' /\ accepted' = accepted
                    /\ \A x \in Item : fate'[x] = "taken" => fate[x] = "taken"
  BY DEF Inert
<1>0. fate \in [Item -> Fate]
  BY DEF IInv, TypeOK
<1>1. CASE \E t \in Thread, x \in Item, to \in Timeout : PushCall(t, x, to)
  BY <1>0, <1>1 DEF PushCall, Enter
<1>2. CASE \E t \in Thread, to \in Timeout : PopCall(t, to)
  BY <1>0, <1>2 DEF PopCall, Enter
<1>3. CASE \E t \in Thread : PushRun(t)
  <2>1. PICK t \in Thread : \E r \in Result : PushRefuse(t, r)
    BY <1>3 DEF PushRun, Result
  <2> QED
    BY <1>0, <2>1 DEF PushRefuse, PushRefuseWith, Return
<1>4. CASE \E t \in Thread : PopRun(t)
  <2>1. PICK t \in Thread : \E r \in Result : PopRefuse(t, r)
    BY <1>4 DEF PopRun, Result
  <2> QED
    BY <1>0, <2>1 DEF PopRefuse, Return
<1>5. CASE \E t \in Thread : DestroyBegin(t) \/ DestroyFinish(t)
  BY <1>0, <1>5 DEF DestroyBegin, DestroyFinish, FreeAll
<1>6. CASE \E t \in Thread : Deadline(t) \/ Expire(t) \/ SpuriousWakeup(t)
  BY <1>6 DEF Deadline, Expire, SpuriousWakeup
<1>7. CASE \E k \in 1..Len(items) : Delete(k)
  BY <1>0, <1>7 DEF Delete
<1>8. CASE Clear \/ Disable
  BY <1>0, <1>8 DEF Clear, Disable, FreeAll
<1>9. CASE UNCHANGED qvars
  BY <1>9 DEF qvars
<1> QED
  BY <1>1, <1>2, <1>3, <1>4, <1>5, <1>6, <1>7, <1>8, <1>9 DEF Next

\* After blockingQueueDisable, or the first half of blockingQueueDestroy, nothing enters the
\* queue and nothing is handed out, for ever (DisabledIsFinal).
THEOREM DisablingIsFinal == Spec => DisabledIsFinal
<1>1. Spec => []IInv
  BY InitIInv, NextIInv, PTL DEF Spec
<1>2. IInv /\ [Next]_qvars => [Inert]_qvars
  BY StepIsInert
<1>3. DisabledIsFinal <=> [][Inert]_qvars
  BY DEF DisabledIsFinal, Inert
<1> QED
  BY <1>1, <1>2, <1>3, PTL DEF Spec

-----------------------------------------------------------------------------
(***************************************************************************)
(* The queue implements BoundedFifo.                                       *)
(***************************************************************************)

\* A step that moves an item between the caller and a call, or moves no item, is invisible.
LEMMA OwnerSame ==
    ASSUME \A x \in Item : \/ fate'[x] = fate[x]
                           \/ {fate[x], fate'[x]} = {"client", "offered"}
    PROVE  Owner' = Owner
<1>1. \A x \in Item : (IF fate'[x] = "offered" THEN "client" ELSE fate'[x])
                      = (IF fate[x] = "offered" THEN "client" ELSE fate[x])
  OBVIOUS
<1> QED
  BY <1>1 DEF Owner

\* An item that changes hands changes its owner, and nothing else does.
LEMMA OwnerMoves ==
    ASSUME TypeOK, NEW x \in Item, NEW f \in {"queued", "taken", "freed"},
           fate' = [fate EXCEPT ![x] = f]
    PROVE  Owner' = [Owner EXCEPT ![x] = f]
<1>1. \A y \in Item : fate'[y] = IF y = x THEN f ELSE fate[y]
  BY DEF TypeOK
<1>2. \A y \in Item : (IF fate'[y] = "offered" THEN "client" ELSE fate'[y])
                      = (IF y = x THEN f
                         ELSE IF fate[y] = "offered" THEN "client" ELSE fate[y])
  BY <1>1
<1> QED
  BY <1>2 DEF Owner

LEMMA OwnerFreed ==
    ASSUME TypeOK, fate' = FreeAll
    PROVE  Owner' = [x \in Item |-> IF Owner[x] = "queued" THEN "freed" ELSE Owner[x]]
BY DEF TypeOK, FreeAll, Owner, Fate

LEMMA PushImplements ==
    ASSUME IInv, NEW t \in Thread, PushRun(t)
    PROVE  Abstract!Next \/ UNCHANGED Abstract!fvars
<1>1. slot[t] \in Item /\ fate[slot[t]] = "offered" /\ fate \in [Item -> Fate]
  BY DEF PushRun, IInv, TypeOK, Conservation, OfferedOnce
<1>2. CASE PushRefuse(t, "interrupted") \/ PushRefuse(t, "timedout")
  <2>1. items' = items /\ enabled' = enabled /\ fate' = [fate EXCEPT ![slot[t]] = "client"]
    BY <1>2 DEF PushRefuse, PushRefuseWith, Return
  <2>2. Owner' = Owner
    BY <1>1, <2>1, OwnerSame
  <2> QED
    BY <2>1, <2>2 DEF Abstract!fvars
<1>3. CASE enabled /\ ~Full /\ PushAccept(t)
  <2>1. /\ items' = Append(items, slot[t]) /\ enabled' = enabled
        /\ fate' = [fate EXCEPT ![slot[t]] = "queued"]
    BY <1>3 DEF PushAccept, PushAcceptWith, Return
  <2>2. Owner' = [Owner EXCEPT ![slot[t]] = "queued"]
    BY <1>1, <2>1, OwnerMoves DEF IInv
  <2>3. Owner[slot[t]] = "client"
    BY <1>1 DEF Owner
  <2>4. Len(items) < Capacity
    BY <1>3, CapacityAssumption DEF IInv, TypeOK, Full
  <2>5. Abstract!Put(slot[t])
    BY <1>3, <2>1, <2>2, <2>3, <2>4 DEF Abstract!Put
  <2> QED
    BY <1>1, <2>5 DEF Abstract!Next
<1>4. CASE Block(t, "full")
  <2>1. items' = items /\ enabled' = enabled /\ fate' = fate
    BY <1>4 DEF Block
  <2>2. Owner' = Owner
    BY <2>1 DEF Owner
  <2> QED
    BY <2>1, <2>2 DEF Abstract!fvars
<1> QED
  BY <1>2, <1>3, <1>4 DEF PushRun

LEMMA PopImplements ==
    ASSUME IInv, NEW t \in Thread, PopRun(t)
    PROVE  Abstract!Next \/ UNCHANGED Abstract!fvars
<1>1. CASE PopRefuse(t, "interrupted") \/ PopRefuse(t, "timedout") \/ Block(t, "empty")
  <2>1. items' = items /\ enabled' = enabled /\ fate' = fate
    BY <1>1 DEF PopRefuse, Return, Block
  <2>2. Owner' = Owner
    BY <2>1 DEF Owner
  <2> QED
    BY <2>1, <2>2 DEF Abstract!fvars
<1>2. CASE enabled /\ items # <<>> /\ PopAccept(t)
  <2>1. /\ items' = Tail(items) /\ enabled' = enabled
        /\ fate' = [fate EXCEPT ![Head(items)] = "taken"]
    BY <1>2 DEF PopAccept, PopAcceptWith, Return
  <2>2. Head(items) \in Item
    BY <1>2 DEF IInv, TypeOK
  <2>3. Owner' = [Owner EXCEPT ![Head(items)] = "taken"]
    BY <2>1, <2>2, OwnerMoves DEF IInv
  <2>4. Abstract!Get
    BY <1>2, <2>1, <2>3 DEF Abstract!Get
  <2> QED
    BY <2>4 DEF Abstract!Next
<1> QED
  BY <1>1, <1>2 DEF PopRun

LEMMA DropImplements ==
    ASSUME IInv, \/ \E k \in 1..Len(items) : Delete(k)
                 \/ Clear
                 \/ \E t \in Thread : DestroyFinish(t)
    PROVE  Abstract!Next
<1>1. ASSUME NEW k \in 1..Len(items), Delete(k) PROVE Abstract!Next
  <2>1. /\ items' = Without(items, k) /\ enabled' = enabled
        /\ fate' = [fate EXCEPT ![items[k]] = "freed"]
    BY <1>1 DEF Delete
  <2>2. items[k] \in Item
    BY DEF IInv, TypeOK
  <2>3. Owner' = [Owner EXCEPT ![items[k]] = "freed"]
    BY <2>1, <2>2, OwnerMoves DEF IInv
  <2>4. Abstract!Drop(k)
    BY <2>1, <2>3 DEF Abstract!Drop, Without, Abstract!Without
  <2> QED
    BY <2>4 DEF Abstract!Next
<1>2. CASE Clear \/ \E t \in Thread : DestroyFinish(t)
  <2>1. items' = <<>> /\ enabled' = enabled /\ fate' = FreeAll
    BY <1>2 DEF Clear, DestroyFinish
  <2>2. Abstract!DropAll
    BY <2>1, OwnerFreed DEF IInv, Abstract!DropAll
  <2> QED
    BY <2>2 DEF Abstract!Next
<1> QED
  BY <1>1, <1>2

LEMMA NextImplements ==
    ASSUME IInv, [Next]_qvars
    PROVE  [Abstract!Next]_(Abstract!fvars)
<1>1. ASSUME NEW t \in Thread, NEW x \in Item, NEW to \in Timeout, PushCall(t, x, to)
      PROVE  UNCHANGED Abstract!fvars
  <2>1. /\ items' = items /\ enabled' = enabled /\ fate[x] = "client"
        /\ fate' = [fate EXCEPT ![x] = "offered"]
    BY <1>1 DEF PushCall, Enter
  <2>2. Owner' = Owner
    BY <2>1, OwnerSame DEF IInv, TypeOK
  <2> QED
    BY <2>1, <2>2 DEF Abstract!fvars
<1>2. CASE items' = items /\ enabled' = enabled /\ fate' = fate
  <2>1. Owner' = Owner
    BY <1>2 DEF Owner
  <2> QED
    BY <1>2, <2>1 DEF Abstract!fvars
<1>3. CASE items' = items /\ enabled' = FALSE /\ fate' = fate
  <2>1. Owner' = Owner
    BY <1>3 DEF Owner
  <2>2. Abstract!Close
    BY <1>3, <2>1 DEF Abstract!Close
  <2> QED
    BY <2>2 DEF Abstract!Next
<1>4. ASSUME NEW t \in Thread, PushRun(t) PROVE Abstract!Next \/ UNCHANGED Abstract!fvars
  BY <1>4, PushImplements
<1>5. ASSUME NEW t \in Thread, PopRun(t) PROVE Abstract!Next \/ UNCHANGED Abstract!fvars
  BY <1>5, PopImplements
<1>6. ASSUME \/ \E k \in 1..Len(items) : Delete(k)
             \/ Clear
             \/ \E t \in Thread : DestroyFinish(t)
      PROVE  Abstract!Next
  BY <1>6, DropImplements
<1>7. ASSUME NEW t \in Thread, NEW to \in Timeout, PopCall(t, to)
      PROVE  items' = items /\ enabled' = enabled /\ fate' = fate
  BY <1>7 DEF PopCall, Enter
<1>8. ASSUME NEW t \in Thread, Deadline(t) \/ Expire(t) \/ SpuriousWakeup(t)
      PROVE  items' = items /\ enabled' = enabled /\ fate' = fate
  BY <1>8 DEF Deadline, Expire, SpuriousWakeup
<1>9. ASSUME Disable \/ \E t \in Thread : DestroyBegin(t)
      PROVE  items' = items /\ enabled' = FALSE /\ fate' = fate
  BY <1>9 DEF Disable, DestroyBegin
<1>10. ASSUME UNCHANGED qvars
       PROVE  items' = items /\ enabled' = enabled /\ fate' = fate
  BY <1>10 DEF qvars
<1> HIDE DEF Abstract!Next, Abstract!fvars
<1> QED
  BY <1>1, <1>2, <1>3, <1>4, <1>5, <1>6, <1>7, <1>8, <1>9, <1>10 DEF Next

\* For any threads, items and capacity, the blocking queue with its mutex, conditions and
\* timeouts implements the plain bounded FIFO queue of BoundedFifo.
THEOREM QueueImplementsFifo == Spec => ImplementsFifo
<1>1. Init => Abstract!Init
  BY DEF Init, Abstract!Init, Owner
<1>2. Spec => []IInv
  BY InitIInv, NextIInv, PTL DEF Spec
<1>3. IInv /\ [Next]_qvars => [Abstract!Next]_(Abstract!fvars)
  BY NextImplements
<1> QED
  BY <1>1, <1>2, <1>3, PTL DEF Spec, ImplementsFifo, Abstract!Spec
=============================================================================
