------------------------ MODULE MessageQueueProofs ------------------------
(***************************************************************************)
(* Proofs about MessageQueue, for any clients, messages, calls and bounds. *)
(***************************************************************************)
EXTENDS MessageQueue, TLAPS

\* No element twice.
Once(s) == \A i, j \in 1..Len(s) : s[i] = s[j] => i = j

\* The elements of f are elements of s, in the order they have there.
Follows(f, s) ==
    /\ \A i \in 1..Len(f) : f[i] \in Elements(s)
    /\ \A i, j \in 1..Len(f) : \A a, b \in 1..Len(s) :
          i < j /\ f[i] = s[a] /\ f[j] = s[b] => a < b

\* t is what is left of s when some places are dropped.
Thins(t, s) ==
    \E p \in [1..Len(t) -> 1..Len(s)] : /\ \A i \in 1..Len(t) : t[i] = s[p[i]]
                                        /\ \A i, j \in 1..Len(t) : i < j => p[i] < p[j]

-----------------------------------------------------------------------------
\* What the operations on the lists do (linkedListAppend, linkedListDelete, the filter's
\* copy), with respect to these three.
LEMMA ElementIs ==
    ASSUME NEW s \in Seq(Msg), NEW x
    PROVE  /\ x \in Elements(s) <=> \E i \in 1..Len(s) : s[i] = x
           /\ Elements(s) \subseteq Msg
  BY DEF Elements

LEMMA AppendIs ==
    ASSUME NEW s \in Seq(Msg), NEW x \in Msg
    PROVE  /\ Append(s, x) \in Seq(Msg)
           /\ Elements(Append(s, x)) = Elements(s) \cup {x}
<1> DEFINE z == Append(s, x)
<1>1. /\ z \in Seq(Msg) /\ Len(z) = Len(s) + 1 /\ Len(s) \in Nat
      /\ \A i \in 1..Len(s) : z[i] = s[i]
      /\ z[Len(s) + 1] = x
  OBVIOUS
<1> HIDE DEF z
<1>2. ASSUME NEW y PROVE y \in Elements(z) <=> y \in Elements(s) \cup {x}
  <2>1. y \in Elements(z) <=> \E i \in 1..Len(z) : z[i] = y
    BY <1>1, ElementIs, Zenon
  <2>2. y \in Elements(s) <=> \E i \in 1..Len(s) : s[i] = y
    BY ElementIs
  <2> QED
    BY <1>1, <2>1, <2>2
<1>3. Elements(z) = Elements(s) \cup {x}
  BY <1>2
<1> QED
  BY <1>1, <1>3 DEF z

LEMMA AppendOnce ==
    ASSUME NEW s \in Seq(Msg), NEW x \in Msg \ Elements(s), Once(s)
    PROVE  Once(Append(s, x))
<1>1. /\ Len(Append(s, x)) = Len(s) + 1 /\ Len(s) \in Nat
      /\ \A i \in 1..Len(s) : Append(s, x)[i] = s[i] /\ s[i] # x
      /\ Append(s, x)[Len(s) + 1] = x
  BY ElementIs
<1> QED
  BY <1>1 DEF Once

LEMMA AppendFollows ==
    ASSUME NEW s \in Seq(Msg), NEW f \in Seq(Msg), NEW x \in Msg \ Elements(s),
           Follows(f, s)
    PROVE  Follows(f, Append(s, x)) /\ Follows(Append(f, x), Append(s, x))
<1> DEFINE n == Len(s)  z == Append(s, x)  g == Append(f, x)
<1>1. /\ Len(z) = n + 1 /\ n \in Nat
      /\ \A i \in 1..n : z[i] = s[i] /\ s[i] # x
      /\ z[n + 1] = x
  BY ElementIs
<1>2. /\ Len(g) = Len(f) + 1 /\ Len(f) \in Nat
      /\ \A i \in 1..Len(f) : g[i] = f[i]
      /\ g[Len(f) + 1] = x
  OBVIOUS
<1>3. Elements(z) = Elements(s) \cup {x}
  BY AppendIs
<1>4. \A i \in 1..Len(f) : f[i] \in Elements(s) /\ f[i] # x
  BY DEF Follows
<1>5. \A i, j \in 1..Len(f) : \A a, b \in 1..n :
          i < j /\ f[i] = s[a] /\ f[j] = s[b] => a < b
  BY DEF Follows
<1> HIDE DEF n, z, g
<1>6. \A i, j \in 1..Len(f) : \A a, b \in 1..(n + 1) :
          i < j /\ f[i] = z[a] /\ f[j] = z[b] => a < b
  <2> SUFFICES ASSUME NEW i \in 1..Len(f), NEW j \in 1..Len(f), NEW a \in 1..(n + 1),
                      NEW b \in 1..(n + 1), i < j, f[i] = z[a], f[j] = z[b]
               PROVE  a < b
    OBVIOUS
  <2>1. a \in 1..n /\ b \in 1..n
    BY <1>1, <1>4
  <2> QED
    BY <1>1, <1>5, <2>1
<1>7. \A i, j \in 1..Len(g) : \A a, b \in 1..(n + 1) :
          i < j /\ g[i] = z[a] /\ g[j] = z[b] => a < b
  <2> SUFFICES ASSUME NEW i \in 1..Len(g), NEW j \in 1..Len(g), NEW a \in 1..(n + 1),
                      NEW b \in 1..(n + 1), i < j, g[i] = z[a], g[j] = z[b]
               PROVE  a < b
    OBVIOUS
  <2>a. i \in 1..Len(f)
    BY <1>2
  <2>b. g[i] = f[i] /\ f[i] # x
    BY <1>2, <1>4, <2>a, Zenon
  <2>c. a # n + 1
    BY <1>1, <2>b, Zenon
  <2>d. n \in Nat /\ Len(f) \in Nat
    BY <1>1, <1>2
  <2>1. a \in 1..n
    BY <2>c, <2>d
  <2>2. CASE j \in 1..Len(f)
    <3>1. g[j] = f[j]
      BY <1>2, <2>2, Zenon
    <3> QED
      BY <1>6, <2>a, <2>b, <2>2, <3>1, Zenon
  <2>3. CASE j = Len(f) + 1
    <3>1. z[b] = x
      BY <1>2, <2>3, Zenon
    <3>2. b \notin 1..n
      BY <1>1, <3>1, Zenon
    <3> QED
      BY <2>1, <2>d, <3>2
  <2>4. j \in 1..Len(f) \/ j = Len(f) + 1
    BY SMTT(20), <1>2, <2>d
  <2> QED
    BY <2>2, <2>3, <2>4, Zenon
<1>8. \A i \in 1..Len(f) : f[i] \in Elements(z)
  BY <1>3, <1>4
<1>9. \A i \in 1..Len(g) : g[i] \in Elements(z)
  BY <1>2, <1>3, <1>4
<1>10. Follows(f, z)
  BY <1>1, <1>6, <1>8 DEF Follows
<1>11. Follows(g, z)
  BY <1>1, <1>7, <1>9 DEF Follows
<1> QED
  BY <1>10, <1>11 DEF z, g

LEMMA FollowsOnce ==
    ASSUME NEW s \in Seq(Msg), NEW f \in Seq(Msg), Follows(f, s)
    PROVE  Once(f)
<1> SUFFICES ASSUME NEW i \in 1..Len(f), NEW j \in 1..Len(f), f[i] = f[j], i < j
             PROVE  FALSE
  BY DEF Once
<1>1. PICK a \in 1..Len(s) : s[a] = f[i]
  BY ElementIs DEF Follows
<1>2. a < a
  BY <1>1 DEF Follows
<1> QED
  BY <1>2

LEMMA ThinsOnce ==
    ASSUME NEW s \in Seq(Msg), NEW t \in Seq(Msg), Once(s), Thins(t, s)
    PROVE  Once(t) /\ Follows(t, s)
<1>1. PICK p \in [1..Len(t) -> 1..Len(s)] : /\ \A i \in 1..Len(t) : t[i] = s[p[i]]
                                            /\ \A i, j \in 1..Len(t) : i < j => p[i] < p[j]
  BY DEF Thins
<1>2. \A i \in 1..Len(t) : t[i] \in Elements(s)
  BY <1>1, ElementIs
<1>3. ASSUME NEW i \in 1..Len(t), NEW j \in 1..Len(t), NEW a \in 1..Len(s), NEW b \in 1..Len(s),
             i < j, t[i] = s[a], t[j] = s[b]
      PROVE  a < b
  <2>1. p[i] \in 1..Len(s) /\ p[j] \in 1..Len(s) /\ s[p[i]] = s[a] /\ s[p[j]] = s[b]
    BY <1>1, <1>3, Zenon
  <2>2. p[i] = a /\ p[j] = b
    BY <2>1 DEF Once
  <2>3. p[i] < p[j]
    BY <1>1, <1>3
  <2> QED
    BY <2>2, <2>3
<1>4. Follows(t, s)
  BY <1>2, <1>3 DEF Follows
<1> QED
  BY <1>4, FollowsOnce

LEMMA ThinsFollows ==
    ASSUME NEW s \in Seq(Msg), NEW f \in Seq(Msg), NEW g \in Seq(Msg),
           Follows(f, s), Thins(g, f)
    PROVE  Follows(g, s)
<1>1. PICK p \in [1..Len(g) -> 1..Len(f)] : /\ \A i \in 1..Len(g) : g[i] = f[p[i]]
                                            /\ \A i, j \in 1..Len(g) : i < j => p[i] < p[j]
  BY Zenon DEF Thins
<1>2. \A i \in 1..Len(g) : g[i] \in Elements(s)
  BY SMTT(20), <1>1 DEF Follows
<1>3. ASSUME NEW i \in 1..Len(g), NEW j \in 1..Len(g), NEW a \in 1..Len(s), NEW b \in 1..Len(s),
             i < j, g[i] = s[a], g[j] = s[b]
      PROVE  a < b
  <2>1. p[i] \in 1..Len(f) /\ p[j] \in 1..Len(f) /\ p[i] < p[j]
    BY <1>1, <1>3, Zenon
  <2>2. f[p[i]] = s[a] /\ f[p[j]] = s[b]
    BY <1>1, <1>3
  <2> QED
    BY <2>1, <2>2 DEF Follows
<1> QED
  BY <1>2, <1>3 DEF Follows

LEMMA FollowsThinned ==
    ASSUME NEW s \in Seq(Msg), NEW t \in Seq(Msg), NEW g \in Seq(Msg),
           Follows(g, s), Thins(t, s), Elements(g) \subseteq Elements(t)
    PROVE  Follows(g, t)
<1>1. PICK p \in [1..Len(t) -> 1..Len(s)] : /\ \A i \in 1..Len(t) : t[i] = s[p[i]]
                                            /\ \A i, j \in 1..Len(t) : i < j => p[i] < p[j]
  BY DEF Thins
<1>2. \A i \in 1..Len(g) : g[i] \in Elements(t)
  BY ElementIs
<1>3. ASSUME NEW i \in 1..Len(g), NEW j \in 1..Len(g), NEW a \in 1..Len(t), NEW b \in 1..Len(t),
             i < j, g[i] = t[a], g[j] = t[b]
      PROVE  a < b
  <2>1. p[a] \in 1..Len(s) /\ p[b] \in 1..Len(s) /\ g[i] = s[p[a]] /\ g[j] = s[p[b]]
    BY <1>1, <1>3, Zenon
  <2>2. p[a] < p[b]
    BY <1>3, <2>1 DEF Follows
  <2>3. ~ (b < a) /\ a # b
    BY <1>1, <2>1, <2>2
  <2> QED
    BY <2>3
<1> QED
  BY <1>2, <1>3 DEF Follows

\* Removing one element (queueDelete, linkedListDelete) leaves a sequence of the same kind
\* that is one shorter.
LEMMA WithoutIs ==
    ASSUME NEW s \in Seq(Msg), NEW k \in 1..Len(s)
    PROVE  /\ Without(s, k) \in Seq(Msg)
           /\ Len(Without(s, k)) = Len(s) - 1
           /\ \A i \in 1..(Len(s) - 1) :
                 Without(s, k)[i] = IF i < k THEN s[i] ELSE s[i + 1]
<1> DEFINE n == Len(s)
<1>1. n \in Nat /\ n - 1 \in Nat /\ \A i \in 1..n : s[i] \in Msg
  OBVIOUS
<1>2. \A i \in 1..(n - 1) : (IF i < k THEN s[i] ELSE s[i + 1]) \in Msg
  BY <1>1
<1>3. Without(s, k) = [i \in 1..(n - 1) |-> IF i < k THEN s[i] ELSE s[i + 1]]
  BY DEF Without
<1> HIDE DEF n
<1>4. Without(s, k) \in Seq(Msg)
  BY <1>1, <1>2, <1>3
<1>5. Len(Without(s, k)) = n - 1
  BY <1>1, <1>3
<1> QED
  BY <1>3, <1>4, <1>5 DEF n

LEMMA WithoutThins ==
    ASSUME NEW s \in Seq(Msg), NEW k \in 1..Len(s)
    PROVE  Thins(Without(s, k), s)
<1> DEFINE t == Without(s, k)
           p == [i \in 1..Len(t) |-> IF i < k THEN i ELSE i + 1]
<1>1. Len(s) \in Nat /\ Len(t) = Len(s) - 1
  BY WithoutIs
<1>2. \A i \in 1..Len(t) : t[i] = IF i < k THEN s[i] ELSE s[i + 1]
  BY WithoutIs
<1> HIDE DEF t
<1>3. p \in [1..Len(t) -> 1..Len(s)]
  BY <1>1
<1>4. \A i \in 1..Len(t) : t[i] = s[p[i]]
  BY <1>2
<1>5. \A i, j \in 1..Len(t) : i < j => p[i] < p[j]
  BY <1>1
<1> HIDE DEF p
<1>6. Thins(t, s)
  BY <1>3, <1>4, <1>5 DEF Thins
<1> QED
  BY <1>6 DEF t

LEMMA WithoutElements ==
    ASSUME NEW s \in Seq(Msg), NEW k \in 1..Len(s), Once(s)
    PROVE  Elements(Without(s, k)) = Elements(s) \ {s[k]}
<1> DEFINE t == Without(s, k)
<1>1. Len(s) \in Nat /\ Len(t) = Len(s) - 1 /\ t \in Seq(Msg)
  BY WithoutIs
<1>2. \A i \in 1..Len(t) : t[i] = IF i < k THEN s[i] ELSE s[i + 1]
  BY WithoutIs
<1> HIDE DEF t
<1>3. ASSUME NEW y PROVE y \in Elements(t) <=> y \in Elements(s) \ {s[k]}
  <2>1. ASSUME NEW i \in 1..Len(t), t[i] = y PROVE y \in Elements(s) /\ y # s[k]
    <3> DEFINE j == IF i < k THEN i ELSE i + 1
    <3>1. j \in 1..Len(s) /\ j # k
      BY <1>1
    <3>2. s[j] = y
      BY <1>2, <2>1
    <3> HIDE DEF j
    <3>3. y # s[k]
      BY <3>1, <3>2, Zenon DEF Once
    <3>4. y \in Elements(s)
      BY <3>1, <3>2, ElementIs
    <3> QED
      BY <3>3, <3>4
  <2>2. ASSUME NEW j \in 1..Len(s), s[j] = y, y # s[k] PROVE \E i \in 1..Len(t) : t[i] = y
    <3>1. CASE j < k
      <4>1. j \in 1..Len(t) /\ t[j] = y
        BY <1>1, <1>2, <2>2, <3>1
      <4> QED
        BY <4>1
    <3>2. CASE k < j
      <4>1. j - 1 \in 1..Len(t) /\ ~(j - 1 < k) /\ (j - 1) + 1 = j
        BY <1>1, <3>2
      <4>2. t[j - 1] = s[j]
        BY <1>2, <4>1
      <4> QED
        BY <2>2, <4>1, <4>2
    <3> QED
      BY <2>2, <3>1, <3>2
  <2>3. y \in Elements(t) <=> \E i \in 1..Len(t) : t[i] = y
    BY <1>1, ElementIs
  <2>4. y \in Elements(s) <=> \E i \in 1..Len(s) : s[i] = y
    BY ElementIs
  <2> QED
    BY <2>1, <2>2, <2>3, <2>4
<1>4. Elements(t) = Elements(s) \ {s[k]}
  BY <1>3
<1> QED
  BY <1>4 DEF t

LEMMA RemovedIs ==
    ASSUME NEW s \in Seq(Msg), NEW x, Once(s)
    PROVE  /\ Removed(s, x) \in Seq(Msg)
           /\ Elements(Removed(s, x)) = Elements(s) \ {x}
           /\ Thins(Removed(s, x), s)
<1>1. CASE x \in Elements(s)
  <2> DEFINE P(k) == s[k] = x /\ \A j \in 1..(k - 1) : s[j] # x
             k == CHOOSE k \in 1..Len(s) : P(k)
  <2>1. PICK h \in 1..Len(s) : s[h] = x
    BY <1>1, ElementIs
  <2>2. P(h)
    BY <2>1 DEF Once
  <2>3. k \in 1..Len(s) /\ P(k)
    BY SMTT(20), <2>2
  <2>4. Removed(s, x) = Without(s, k)
    BY <1>1 DEF Removed
  <2> HIDE DEF k
  <2> QED
    BY <2>3, <2>4, WithoutIs, WithoutThins, WithoutElements, Zenon
<1>2. CASE x \notin Elements(s)
  <2>1. Removed(s, x) = s
    BY <1>2 DEF Removed
  <2>2. Thins(s, s)
    <3> DEFINE p == [i \in 1..Len(s) |-> i]
    <3>1. /\ p \in [1..Len(s) -> 1..Len(s)]
          /\ \A i \in 1..Len(s) : s[i] = s[p[i]]
          /\ \A i, j \in 1..Len(s) : i < j => p[i] < p[j]
      OBVIOUS
    <3> HIDE DEF p
    <3> QED
      BY <3>1 DEF Thins
  <2> QED
    BY <1>2, <2>1, <2>2
<1> QED
  BY <1>1, <1>2

\* Removing a message from both lists, and taking the first of the filter set.
LEMMA RemovedFollows ==
    ASSUME NEW s \in Seq(Msg), NEW f \in Seq(Msg), NEW x, Once(s), Follows(f, s)
    PROVE  Once(Removed(s, x)) /\ Follows(Removed(f, x), Removed(s, x))
<1>1. Once(f)
  BY FollowsOnce
<1>2. /\ Removed(s, x) \in Seq(Msg) /\ Thins(Removed(s, x), s)
      /\ Elements(Removed(s, x)) = Elements(s) \ {x}
  BY RemovedIs
<1>3. /\ Removed(f, x) \in Seq(Msg) /\ Thins(Removed(f, x), f)
      /\ Elements(Removed(f, x)) = Elements(f) \ {x}
  BY <1>1, RemovedIs
<1>4. Elements(f) \subseteq Elements(s)
  BY ElementIs DEF Follows
<1>5. Follows(Removed(f, x), s)
  BY <1>3, ThinsFollows
<1>6. Follows(Removed(f, x), Removed(s, x))
  BY <1>2, <1>3, <1>4, <1>5, FollowsThinned
<1> QED
  BY <1>2, <1>6, ThinsOnce

LEMMA TailFollows ==
    ASSUME NEW s \in Seq(Msg), NEW f \in Seq(Msg), Once(s), Follows(f, s), f # <<>>
    PROVE  /\ Head(f) \in Elements(s) /\ Tail(f) \in Seq(Msg)
           /\ Follows(Tail(f), Removed(s, Head(f)))
<1> DEFINE x == Head(f)  g == Tail(f)
<1>1. /\ Len(f) \in Nat \ {0} /\ x = f[1] /\ g \in Seq(Msg) /\ Len(g) = Len(f) - 1
      /\ \A i \in 1..Len(g) : g[i] = f[i + 1]
  OBVIOUS
<1>2. Once(f)
  BY FollowsOnce
<1>3. x \in Elements(s)
  BY <1>1 DEF Follows
<1> HIDE DEF x, g
<1>4. Thins(g, f)
  <2> DEFINE p == [i \in 1..Len(g) |-> i + 1]
  <2>1. p \in [1..Len(g) -> 1..Len(f)]
    BY <1>1
  <2>2. \A i \in 1..Len(g) : g[i] = f[p[i]]
    BY <1>1
  <2>3. \A i, j \in 1..Len(g) : i < j => p[i] < p[j]
    BY <1>1
  <2> HIDE DEF p
  <2> QED
    BY <2>1, <2>2, <2>3 DEF Thins
<1>5. ASSUME NEW y \in Elements(g) PROVE y \in Elements(s) \ {x}
  <2>1. PICK i \in 1..Len(g) : g[i] = y
    BY <1>1, ElementIs
  <2>2. i + 1 \in 1..Len(f) /\ y = f[i + 1] /\ i + 1 # 1 /\ 1 \in 1..Len(f)
    BY <1>1, <2>1
  <2>3. y # x
    BY <1>1, <1>2, <2>2 DEF Once
  <2> QED
    BY <2>2, <2>3 DEF Follows
<1>6. /\ Removed(s, x) \in Seq(Msg) /\ Thins(Removed(s, x), s)
      /\ Elements(Removed(s, x)) = Elements(s) \ {x}
  BY RemovedIs
<1>7. Follows(g, s)
  BY <1>1, <1>4, ThinsFollows
<1>8. Follows(g, Removed(s, x))
  BY <1>1, <1>5, <1>6, <1>7, FollowsThinned
<1> QED
  BY <1>1, <1>3, <1>8 DEF x, g

LEMMA SelectedFollows ==
    ASSUME NEW s \in Seq(Msg), NEW S, NEW t \in Selected(s, S), Once(s)
    PROVE  t \in Seq(Msg) /\ Follows(t, s)
<1>0. PICK e \in UNION {[1..k -> 1..Len(s)] : k \in 0..Len(s)} :
          /\ \A i, j \in DOMAIN e : i < j => e[i] < e[j]
          /\ t = [i \in DOMAIN e |-> s[e[i]]]
  BY Zenon DEF Selected
<1>1. PICK n \in 0..Len(s) : e \in [1..n -> 1..Len(s)]
  BY <1>0, Zenon
<1>2. n \in Nat /\ DOMAIN e = 1..n /\ \A i \in 1..n : e[i] \in 1..Len(s) /\ s[e[i]] \in Msg
  BY <1>1
<1>3. t \in Seq(Msg) /\ Len(t) = n /\ \A i \in 1..n : t[i] = s[e[i]]
  BY <1>0, <1>2
<1>4. Thins(t, s)
  BY <1>0, <1>1, <1>2, <1>3, Zenon DEF Thins
<1> QED
  BY <1>3, <1>4, ThinsOnce

-----------------------------------------------------------------------------
\* processFunc has the message.
InProcess == th \in {"process", "transmitted"}

\* A client has unlinked the message and has not dealt with it yet.
Held(m) == \E c \in Client : hold[c] = m

InLists ==
    /\ Once(all) /\ Follows(filtered, all)
    /\ \A m \in Msg : ~(m \in sent /\ m \in Elements(all))

\* A message not yet appended is in no list.
Fresh == \A m \in fresh : m \notin Elements(all) /\ m \notin sent

\* The message being processed is in no list but the sent set, and it is not lost there: the
\* thread forgets one that expects a reply only after it was transmitted.
Current ==
    /\ InProcess => cur \in Msg /\ cur \notin Elements(all) /\ cur \notin fresh
    /\ ~InProcess => cur = NoMsg
    /\ th = "transmitted" => cur \in Asks
    /\ th = "check" => late \subseteq sent

Hands == \A c \in Client : hold[c] # NoMsg <=> pc[c] \in {"remove", "removeSent", "reply"}

\* Where a message can be.  While the thread processes one that expects a reply, it is in
\* the sent set, or a client has it: else the thread would lose it when it returns.
Accounted ==
    \A m \in Msg : \/ m \in fresh \/ ended[m] # 0 \/ m \in Elements(all) \/ m \in sent
                   \/ Held(m) \/ (cur = m /\ m \notin Asks)

Placed == InLists /\ Fresh /\ Current /\ Hands /\ Accounted

KeptInv == TypeOK /\ ThreadInformed /\ Placed

\* What makes lives end once: a message that has ended is nowhere, one that a client has is
\* nowhere else, and the server can answer only one that the thread does not give up.
Gone ==
    \A m \in Msg : ended[m] = 0 \/ (/\ ended[m] = 1 /\ m \notin Elements(all) /\ m \notin sent
                                    /\ m \notin fresh /\ cur # m /\ ~Held(m))

Answerable ==
    /\ sent \subseteq Asks
    /\ \A m \in out : m \notin Elements(all) /\ m \notin fresh /\ ~(th = "process" /\ cur = m)
    /\ th = "process" /\ cur \in Asks => cur \in sent

InHand ==
    \A c \in Client :
        /\ pc[c] \notin {"remove", "removeSent"}
        /\ hold[c] # NoMsg => /\ hold[c] \notin Elements(all) /\ hold[c] \notin sent
                              /\ hold[c] \notin fresh
                              /\ cur = hold[c] => th = "transmitted"

OneHand == \A c, d \in Client : hold[c] # NoMsg /\ hold[c] = hold[d] => c = d

Quiet == Gone /\ Answerable /\ InHand /\ OneHand

Destroys == {"destroy", "clear", "free"}

\* One client destroys the queue, and it clears and frees it after the thread's end.
Leaving ==
    /\ \A c, d \in Client : pc[c] \in Destroys /\ pc[d] \in Destroys => c = d
    /\ \A c \in Client : /\ pc[c] # "stop"
                         /\ pc[c] = "destroy" => state \in {"CANCELING", "NOT_RUNNING"}
                         /\ pc[c] \in {"clear", "free"} => state = "NOT_RUNNING"
    /\ state = "CANCELING" => \E c \in Client : pc[c] = "destroy"
    /\ freed => state = "NOT_RUNNING"

-----------------------------------------------------------------------------
\* The queue is empty.
LEMMA EmptyIs == Elements(<<>>) = {} /\ Once(<<>>) /\ Follows(<<>>, <<>>) /\ <<>> \in Seq(Msg)
  BY DEF Elements, Once, Follows

\* A message that is in no list is put at the end of both, or of the all set.
LEMMA EnqueueIs ==
    ASSUME TypeOK, InLists, NEW m \in Msg, m \notin Elements(all), Enqueue(m)
    PROVE  /\ all' \in Seq(Msg) /\ filtered' \in Seq(Msg)
           /\ Once(all') /\ Follows(filtered', all')
           /\ Elements(all') = Elements(all) \cup {m}
<1>1. all \in Seq(Msg) /\ filtered \in Seq(Msg) /\ Once(all) /\ Follows(filtered, all)
  BY DEF TypeOK, InLists
<1>2. all' = Append(all, m) /\ (filtered' = Append(filtered, m) \/ filtered' = filtered)
  BY DEF Enqueue
<1>3. all' \in Seq(Msg) /\ filtered' \in Seq(Msg) /\ Elements(all') = Elements(all) \cup {m}
  BY <1>1, <1>2, AppendIs, Zenon
<1>4. Once(all') /\ Follows(filtered', all')
  BY <1>1, <1>2, AppendOnce, AppendFollows, ZenonT(30)
<1> QED
  BY <1>3, <1>4

\* A life ends.
LEMMA EndedIs ==
    ASSUME TypeOK, NEW m \in Msg
    PROVE  /\ Ended(m) \in [Msg -> Nat] /\ Ended(m)[m] = ended[m] + 1 /\ Ended(m)[m] # 0
           /\ \A n \in Msg : n # m => Ended(m)[n] = ended[n]
           /\ \A n \in Msg : ended[n] # 0 => Ended(m)[n] # 0
  BY DEF TypeOK, Ended

LEMMA ClearedIs ==
    ASSUME TypeOK, InLists, ClearSets
    PROVE  /\ ended' \in [Msg -> Nat]
           /\ \A m \in Msg : /\ m \in sent \/ m \in Elements(all) => ended'[m] = ended[m] + 1
                             /\ ~(m \in sent \/ m \in Elements(all)) => ended'[m] = ended[m]
           /\ all' = <<>> /\ filtered' = <<>> /\ sent' = {}
           /\ Elements(all') = {} /\ Once(all') /\ Follows(filtered', all')
<1>1. \A m \in Msg : ended[m] \in Nat /\ ~(m \in sent /\ m \in Elements(all))
  BY DEF TypeOK, InLists
<1>2. ended' = [m \in Msg |-> ended[m] + (IF m \in sent THEN 1 ELSE 0)
                                        + (IF m \in Elements(all) THEN 1 ELSE 0)]
  BY DEF ClearSets
<1>3. all' = <<>> /\ filtered' = <<>> /\ sent' = {}
  BY DEF ClearSets
<1>4. ended' \in [Msg -> Nat]
  BY <1>1, <1>2
<1>5. \A m \in Msg : /\ m \in sent \/ m \in Elements(all) => ended'[m] = ended[m] + 1
                     /\ ~(m \in sent \/ m \in Elements(all)) => ended'[m] = ended[m]
  BY <1>1, <1>2
<1> QED
  BY <1>3, <1>4, <1>5, EmptyIs, Zenon

\* A client takes a message, or is done with it.
LEMMA HoldIs ==
    ASSUME TypeOK, NEW c \in Client, NEW m \in Msg \cup {NoMsg}, hold' = [hold EXCEPT ![c] = m]
    PROVE  /\ hold' \in [Client -> Msg \cup {NoMsg}] /\ hold'[c] = m
           /\ \A d \in Client : d # c => hold'[d] = hold[d]
           /\ m \in Msg => Held(m)'
           /\ \A n \in Msg : Held(n) => n = hold[c] \/ Held(n)'
           /\ \A n \in Msg : Held(n)' => n = m \/ Held(n)
<1>1. /\ hold' \in [Client -> Msg \cup {NoMsg}] /\ hold'[c] = m
      /\ \A d \in Client : d # c => hold'[d] = hold[d]
  BY DEF TypeOK
<1> QED
  BY <1>1, Zenon DEF Held

\* A call moves on.
LEMMA PcIs ==
    ASSUME TypeOK, NEW c \in Client, NEW p \in PC, pc' = [pc EXCEPT ![c] = p]
    PROVE  /\ pc' \in [Client -> PC] /\ pc'[c] = p
           /\ \A d \in Client : d # c => pc'[d] = pc[d]
  BY DEF TypeOK

\* A message leaves the sent set, for the end of the lists or for good.
Requeued(m) ==
    /\ all' \in Seq(Msg) /\ filtered' \in Seq(Msg) /\ Once(all') /\ Follows(filtered', all')
    /\ sent' = sent \ {m}
    /\ errors' \in [Msg -> Nat] /\ ended' \in [Msg -> Nat]
    /\ \A n \in Msg : n # m => ended'[n] = ended[n] /\
            (n \in Elements(all') <=> n \in Elements(all))
    /\ \/ m \in Elements(all') /\ ended'[m] = ended[m]
       \/ m \notin Elements(all') /\ ended'[m] # 0 /\ (ended[m] = 0 => ended'[m] = 1)

LEMMA RequeueIs ==
    ASSUME TypeOK, InLists, NEW m \in Msg, NEW n \in Nat, NEW t, m \notin Elements(all),
           Requeue(m, n, t)
    PROVE  Requeued(m)
<1>1. sent' = sent \ {m} /\ errors' \in [Msg -> Nat]
  BY DEF Requeue, TypeOK
<1>2. CASE n \leq NumRetries
  <2>1. Enqueue(m) /\ ended' = ended
    BY <1>2 DEF Requeue
  <2>2. /\ all' \in Seq(Msg) /\ filtered' \in Seq(Msg) /\ Once(all') /\ Follows(filtered', all')
        /\ Elements(all') = Elements(all) \cup {m}
    BY <2>1, EnqueueIs
  <2>3. ended' \in [Msg -> Nat]
    BY <2>1 DEF TypeOK
  <2> QED
    BY <1>1, <2>1, <2>2, <2>3, Zenon DEF Requeued
<1>3. CASE ~(n \leq NumRetries)
  <2>1. all' = all /\ filtered' = filtered /\ ended' = Ended(m)
    BY <1>3 DEF Requeue
  <2>2. all \in Seq(Msg) /\ filtered \in Seq(Msg) /\ Once(all) /\ Follows(filtered, all)
    BY DEF TypeOK, InLists
  <2>3. ended[m] = 0 => Ended(m)[m] = 1
    BY DEF TypeOK, Ended
  <2> QED
    BY <1>1, <2>1, <2>2, <2>3, EndedIs, Zenon DEF Requeued
<1> QED
  BY <1>2, <1>3

\* A step that moves no message.
Stays ==
    /\ UNCHANGED <<all, filtered, sent, cur, fresh, ended, hold>>
    /\ InProcess' <=> InProcess
    /\ th' = "transmitted" => cur \in Asks
    /\ th' = "check" => late' \subseteq sent
    /\ \A c \in Client : hold[c] # NoMsg <=> pc'[c] \in {"remove", "removeSent", "reply"}

LEMMA StaysKeeps ==
    ASSUME Placed, Stays
    PROVE  Placed'
<1>1. InLists' /\ Fresh'
  BY DEF Placed, Stays, InLists, Fresh
<1>2. Current'
  BY DEF Placed, Stays, Current
<1>3. Hands'
  BY DEF Stays, Hands
<1>4. Accounted'
  BY DEF Placed, Stays, Accounted, Held
<1> QED
  BY <1>1, <1>2, <1>3, <1>4 DEF Placed

\* One that does not go near processFunc or the clients' messages either.
Rests ==
    /\ Stays /\ out' = out
    /\ th' = "process" => th = "process"
    /\ th = "transmitted" => th' = "transmitted"
    /\ \A c \in Client : pc'[c] \in {"remove", "removeSent"} => pc[c] = pc'[c]

LEMMA RestsKeeps ==
    ASSUME Quiet, Rests
    PROVE  Quiet'
<1>1. Gone'
  BY DEF Quiet, Gone, Rests, Stays, Held
<1>2. Answerable'
  BY DEF Quiet, Answerable, Rests, Stays
<1>3. InHand'
  BY DEF Quiet, InHand, Rests, Stays
<1>4. OneHand'
  BY DEF Quiet, OneHand, Rests, Stays
<1> QED
  BY <1>1, <1>2, <1>3, <1>4 DEF Quiet

\* messageQueueClear, and messageQueueDestroy that calls it, with nothing in processing.
LEMMA ClearSetsKeeps ==
    ASSUME KeptInv, ClearSets, th \notin {"process", "transmitted", "check"},
           UNCHANGED <<state, th, cur, errors, late, fresh, hold, freed, world>>,
           pc' \in [Client -> PC],
           \A c \in Client : pc'[c] = pc[c] \/ (pc[c] = "clear" /\ pc'[c] = "free")
    PROVE  KeptInv' /\ (Quiet => Quiet')
<1> USE DEF KeptInv, Placed
<1>a. ~InProcess /\
        UNCHANGED <<state, th, cur, errors, late, fresh, hold, freed, out, up, links, delays>>
  BY DEF InProcess, world
<1>b. /\ ended' \in [Msg -> Nat]
      /\ \A m \in Msg : /\ m \in sent \/ m \in Elements(all) => ended'[m] = ended[m] + 1
                        /\ ~(m \in sent \/ m \in Elements(all)) => ended'[m] = ended[m]
      /\ all' = <<>> /\ filtered' = <<>> /\ sent' = {}
      /\ Elements(all') = {} /\ Once(all') /\ Follows(filtered', all')
  BY ClearedIs
<1>1. TypeOK'
  BY <1>a, <1>b, EmptyIs DEF TypeOK
<1>2. ThreadInformed'
  BY <1>a, <1>b DEF ThreadInformed
<1>3. InLists' /\ Fresh'
  BY <1>a, <1>b, Zenon DEF InLists, Fresh
<1>4. Current'
  BY <1>a DEF Current, InProcess
<1>5. Hands'
  BY <1>a DEF Hands
<1>6. Accounted'
  <2>1. \A m \in Msg : /\ m \in sent \/ m \in Elements(all) => ended'[m] # 0
                       /\ ended[m] # 0 => ended'[m] # 0
    BY <1>b DEF TypeOK
  <2> QED
    BY <1>a, <2>1, Zenon DEF Accounted, Held
<1>7. ASSUME Quiet PROVE Quiet'
  <2>q. Gone /\ Answerable /\ InHand /\ OneHand
    BY <1>7 DEF Quiet
  <2>a. \A m \in Msg : m \in sent \/ m \in Elements(all) => ended[m] = 0 /\ ~Held(m) /\
          m \notin fresh
    <3>1. ASSUME NEW m \in Msg, m \in sent \/ m \in Elements(all) PROVE ~Held(m)
      BY <2>q, <3>1, QueueAssumption DEF InHand, Held
    <3> QED
      BY <2>q, <3>1 DEF Gone, Fresh
  <2>b. \A m \in Msg : /\ m \in sent \/ m \in Elements(all) => ended'[m] = 1
                       /\ ~(m \in sent \/ m \in Elements(all)) => ended'[m] = ended[m]
    BY <1>b, <2>a
  <2>c. \A m \in Msg : /\ m \notin Elements(all') /\ m \notin sent' /\ (m \in fresh' => m \in fresh)
                       /\ cur' # m /\ (Held(m)' <=> Held(m))
    BY <1>a, <1>b, QueueAssumption DEF Held, Current
  <2>1. Gone'
    BY <2>q, <2>a, <2>b, <2>c, Zenon DEF Gone
  <2>2. Answerable'
    BY <1>a, <1>b, <2>q DEF Answerable
  <2>3. InHand'
    BY <1>a, <1>b, <2>q DEF InHand
  <2>4. OneHand'
    BY <1>a, <2>q, Zenon DEF OneHand
  <2> QED
    BY <2>1, <2>2, <2>3, <2>4 DEF Quiet
<1> QED
  BY <1>1, <1>2, <1>3, <1>4, <1>5, <1>6, <1>7

LEMMA MessageQueueAppendKeeps ==
    ASSUME KeptInv, NEW c \in Client, NEW m \in Msg, messageQueueAppend(c, m)
    PROVE  KeptInv' /\ (Quiet => Quiet')
<1> USE DEF KeptInv, Placed
<1>a. /\ m \in fresh /\ fresh' = fresh \ {m} /\ sent' = sent /\ cur' = cur /\ late' = late
      /\ ended' = ended /\ hold' = hold /\ pc' = pc /\ out' = out /\ Enqueue(m) /\ th # "check"
      /\ (th' = "process" <=> th = "process")
      /\ (InProcess' <=> InProcess) /\ (th' = "transmitted" <=> th = "transmitted") /\ th' # "check"
  BY DEF messageQueueAppend, AppendThen, Call, Lock, Broadcast, Awake, AwakeAs, calls, world,
         InProcess
<1>b. /\ all' \in Seq(Msg) /\ filtered' \in Seq(Msg) /\ Once(all') /\ Follows(filtered', all')
      /\ Elements(all') = Elements(all) \cup {m}
  BY <1>a, EnqueueIs DEF Fresh
<1>c. /\ th' = th \/ (Meets(m) /\ th' = (IF state = "RUNNING" THEN Awake(th) ELSE th))
      /\ Meets(m) \/ filtered' = filtered
      /\ UNCHANGED <<state, errors, freed, up, links, delays>>
  BY DEF messageQueueAppend, AppendThen, Broadcast, Enqueue, calls, world
<1>d. th' \in Where
  BY <1>c DEF TypeOK, Where, Awake, AwakeAs
<1>1. TypeOK'
  BY <1>a, <1>b, <1>c, <1>d DEF TypeOK
<1>2. ThreadInformed'
  <2>1. Meets(m) => th' = IF state = "RUNNING" THEN Awake(th) ELSE th
    BY DEF messageQueueAppend, AppendThen, Broadcast
  <2> QED
    BY <1>c, <2>1 DEF ThreadInformed, Awake, AwakeAs
<1>3. InLists'
  BY <1>a, <1>b, Zenon DEF InLists, Fresh
<1>4. Fresh'
  BY <1>a, <1>b, Zenon DEF Fresh
<1>5. Current'
  BY <1>a, <1>b, Zenon DEF Current
<1>6. Hands'
  BY DEF Hands, messageQueueAppend, AppendThen, calls
<1>7. Accounted'
  BY <1>a, <1>b, Zenon DEF Accounted, Held
<1>8. ASSUME Quiet PROVE Quiet'
  <2>q. Gone /\ Answerable /\ InHand /\ OneHand
    BY <1>8 DEF Quiet
  <2>1. Gone'
    BY <1>a, <1>b, <2>q, Zenon DEF Gone, Held
  <2>2. Answerable'
    BY <1>a, <1>b, <2>q, Zenon DEF Answerable
  <2>3. InHand'
    BY <1>a, <1>b, <2>q, Zenon DEF InHand
  <2>4. OneHand'
    BY <1>a, <2>q, Zenon DEF OneHand
  <2> QED
    BY <2>1, <2>2, <2>3, <2>4 DEF Quiet
<1> QED
  BY <1>1, <1>2, <1>3, <1>4, <1>5, <1>6, <1>7, <1>8 DEF Placed

LEMMA MessageQueueRunFilterKeeps ==
    ASSUME KeptInv, NEW c \in Client, messageQueueRunFilter(c)
    PROVE  KeptInv'
<1>a. PICK s \in Selected(all, {m \in Msg : Meets(m)}) : filtered' = <<>> \o s
  BY DEF messageQueueRunFilter, RunFilterFrom
<1>b. all \in Seq(Msg) /\ Once(all)
  BY DEF KeptInv, Placed, InLists, TypeOK
<1>c. s \in Seq(Msg) /\ Follows(s, all)
  BY <1>b, SelectedFollows
<1>d. filtered' \in Seq(Msg) /\ Follows(filtered', all) /\ all' = all /\ sent' = sent
  BY <1>a, <1>c DEF messageQueueRunFilter, RunFilterFrom
<1>1. TypeOK'
  BY <1>d DEF KeptInv, TypeOK, Where, messageQueueRunFilter, RunFilterFrom, Broadcast, Awake,
         AwakeAs, ghost, calls, world
<1>2. ThreadInformed'
  BY DEF KeptInv, ThreadInformed, messageQueueRunFilter, RunFilterFrom, Broadcast, Awake, AwakeAs
<1>3. InLists'
  BY <1>d, Zenon DEF KeptInv, Placed, InLists
<1>4. Fresh'
  BY DEF KeptInv, Placed, Fresh, messageQueueRunFilter, RunFilterFrom, ghost
<1>5. Current'
  BY DEF KeptInv, Placed, Current, InProcess, messageQueueRunFilter, RunFilterFrom, Broadcast,
         Awake, AwakeAs, ghost
<1>6. Hands'
  BY DEF KeptInv, Placed, Hands, messageQueueRunFilter, RunFilterFrom, calls
<1>7. Accounted'
  BY DEF KeptInv, Placed, Accounted, Held, messageQueueRunFilter, RunFilterFrom, ghost, calls
<1> QED
  BY <1>1, <1>2, <1>3, <1>4, <1>5, <1>6, <1>7 DEF KeptInv, Placed

LEMMA MessageQueueRemoveKeeps ==
    ASSUME KeptInv, NEW c \in Client, NEW m \in Msg, messageQueueRemove(c, m)
    PROVE  KeptInv'
<1> USE DEF KeptInv, Placed
<1>a. /\ all \in Seq(Msg) /\ filtered \in Seq(Msg) /\ Once(all) /\ Follows(filtered, all)
  BY DEF TypeOK, InLists
<1>b. /\ all' = Removed(all, m) /\ filtered' = Removed(filtered, m)
      /\ sent' = (IF m \in Elements(all) THEN sent ELSE sent \ {m})
      /\ m \in Elements(all) \cup sent
      /\ pc' = [pc EXCEPT ![c] = IF m \in Elements(all) THEN "remove" ELSE "removeSent"]
      /\ hold' = [hold EXCEPT ![c] = m] /\ pc[c] = "idle" /\ th # "check"
      /\ UNCHANGED <<state, th, cur, errors, late, fresh, ended, freed, out, up, links, delays>>
  BY DEF messageQueueRemove, Call, Lock, ghost, world
<1>c. /\ all' \in Seq(Msg) /\ Elements(all') = Elements(all) \ {m} /\ Once(all')
      /\ filtered' \in Seq(Msg) /\ Follows(filtered', all')
  BY <1>a, <1>b, RemovedIs, RemovedFollows, FollowsOnce, Zenon
<1>d. /\ hold' \in [Client -> Msg \cup {NoMsg}] /\ hold'[c] = m /\ Held(m)'
      /\ \A d \in Client : d # c => hold'[d] = hold[d]
      /\ \A n \in Msg : Held(n) => n = hold[c] \/ Held(n)'
  BY <1>b, HoldIs, Zenon
<1>e. \E p \in {"remove", "removeSent"} : pc' = [pc EXCEPT ![c] = p]
  BY <1>b, Zenon
<1>f. /\ pc' \in [Client -> PC] /\ pc'[c] \in {"remove", "removeSent"}
      /\ \A d \in Client : d # c => pc'[d] = pc[d]
  BY <1>e DEF TypeOK, PC
<1>g. sent' \subseteq sent /\ \A n \in sent : n # m => n \in sent'
  BY <1>b
<1>h. hold[c] = NoMsg /\ m # NoMsg
  BY <1>b, QueueAssumption DEF Hands
<1>1. TypeOK'
  BY <1>b, <1>c, <1>d, <1>f, <1>g DEF TypeOK
<1>2. ThreadInformed'
  <2>1. filtered = <<>> => filtered' = <<>>
    BY <1>b, EmptyIs, Zenon DEF Removed
  <2> QED
    BY <1>b, <2>1 DEF ThreadInformed
<1>3. InLists'
  BY <1>c, <1>g, Zenon DEF InLists
<1>4. Fresh'
  BY <1>b, <1>c, <1>g, Zenon DEF Fresh
<1>5. Current'
  BY <1>b, <1>c, Zenon DEF Current, InProcess
<1>6. Hands'
  BY <1>d, <1>f, <1>h, Zenon DEF Hands
<1>7. Accounted'
  <2> SUFFICES ASSUME NEW n \in Msg
               PROVE  \/ n \in fresh' \/ ended'[n] # 0 \/ n \in Elements(all') \/ n \in sent'
                      \/ Held(n)' \/ (cur' = n /\ n \notin Asks)
    BY DEF Accounted
  <2>1. CASE n = m
    BY <1>d, <2>1
  <2>2. CASE n # m
    BY <1>b, <1>c, <1>d, <1>g, <1>h, <2>2, QueueAssumption, Zenon DEF Accounted
  <2> QED
    BY <2>1, <2>2
<1> QED
  BY <1>1, <1>2, <1>3, <1>4, <1>5, <1>6, <1>7 DEF Placed

LEMMA RemoveFinishKeeps ==
    ASSUME KeptInv, NEW c \in Client, RemoveFinish(c)
    PROVE  KeptInv'
<1>a. hold[c] \in Msg
  BY DEF KeptInv, Placed, Hands, TypeOK, RemoveFinish
<1>1. TypeOK'
  BY <1>a, EndedIs, Zenon DEF KeptInv, TypeOK, Where, PC, RemoveFinish, Broadcast, Awake, AwakeAs,
         Return, sets, world
<1>2. ThreadInformed'
  BY DEF KeptInv, ThreadInformed, RemoveFinish, Broadcast, Awake, AwakeAs, sets
<1>3. InLists'
  BY DEF KeptInv, Placed, InLists, RemoveFinish, sets
<1>4. Fresh'
  BY DEF KeptInv, Placed, Fresh, RemoveFinish, sets
<1>5. Current'
  BY DEF KeptInv, Placed, Current, InProcess, RemoveFinish, Broadcast, Awake, AwakeAs, sets
<1>6. Hands'
  BY DEF KeptInv, Placed, Hands, TypeOK, RemoveFinish, Return
<1>7. Accounted'
  BY DEF KeptInv, Placed, Accounted, TypeOK, Held, RemoveFinish, Ended, Return, sets
<1> QED
  BY <1>1, <1>2, <1>3, <1>4, <1>5, <1>6, <1>7 DEF KeptInv, Placed

LEMMA MessageQueueClearKeeps ==
    ASSUME KeptInv, NEW c \in Client, messageQueueClear(c)
    PROVE  KeptInv' /\ (Quiet => Quiet')
BY ClearSetsKeeps, Zenon DEF KeptInv, ThreadInformed, TypeOK, messageQueueClear, Call, Lock, Busy,
       calls

LEMMA MessageQueueCompletedKeeps ==
    ASSUME KeptInv, NEW c \in Client, NEW m \in Msg, messageQueueCompleted(c, m)
    PROVE  KeptInv' /\ (Quiet => Quiet')
<1> USE DEF KeptInv, Placed
<1>a. /\ hold' = [hold EXCEPT ![c] = m] /\ pc' = [pc EXCEPT ![c] = "reply"] /\ pc[c] = "idle"
      /\ sent' = sent \ {m} /\ m \in out /\ m \in sent /\ UNCHANGED <<all, fresh, ended, cur>>
  BY DEF messageQueueCompleted, Call, ghost
<1>b. /\ hold' \in [Client -> Msg \cup {NoMsg}] /\ hold'[c] = m /\ Held(m)'
      /\ \A d \in Client : d # c => hold'[d] = hold[d]
      /\ \A n \in Msg : Held(n) => n = hold[c] \/ Held(n)'
  BY <1>a, HoldIs, Zenon
<1>c. /\ pc' \in [Client -> PC] /\ pc'[c] = "reply"
      /\ \A d \in Client : d # c => pc'[d] = pc[d]
  BY <1>a DEF TypeOK, PC
<1>d. hold[c] = NoMsg /\ m # NoMsg /\ NoMsg \notin Msg
  BY <1>a, QueueAssumption DEF Hands
<1>1. TypeOK'
  BY DEF TypeOK, Where, PC, messageQueueCompleted, Broadcast, Awake, AwakeAs, ghost
<1>2. ThreadInformed'
  BY DEF KeptInv, Placed, ThreadInformed, TypeOK, messageQueueCompleted, Call, Lock, Broadcast,
         Awake, AwakeAs, ghost
<1>3. InLists'
  BY DEF InLists, messageQueueCompleted
<1>4. Fresh'
  BY DEF Fresh, messageQueueCompleted, ghost
<1>5. Current'
  BY DEF Current, InProcess, messageQueueCompleted, Call, Lock, Broadcast, Awake, AwakeAs, ghost
<1>6. Hands'
  BY <1>b, <1>c, <1>d, Zenon DEF Hands
<1>7. Accounted'
  BY <1>a, <1>b, <1>d, Zenon DEF Accounted
<1>8. ASSUME Quiet PROVE Quiet'
  <2>q. Gone /\ Answerable /\ InHand /\ OneHand
    BY <1>8 DEF Quiet
  <2>a. /\ m \notin Elements(all) /\ m \notin sent' /\ m \notin fresh /\ sent' \subseteq sent
        /\ \A d \in Client : hold[d] # m
    BY <1>a, <1>d, <2>q, Zenon DEF InLists, Fresh, InHand
  <2>b. /\ cur = m => th = "transmitted"
        /\ th = "transmitted" => th' = "transmitted"
        /\ th' = "process" => th = "process"
    BY <1>a, <1>d, <2>q DEF Answerable, Current, InProcess, Broadcast, Awake, AwakeAs,
           messageQueueCompleted
  <2>1. Gone'
    <3>1. ended[m] = 0
      BY <1>a, <2>q, Zenon DEF Gone
    <3>2. \A n \in Msg : n # m /\ Held(n)' => Held(n)
      BY <1>b, Zenon DEF Held
    <3> QED
      BY <1>a, <2>q, <2>a, <3>1, <3>2, Zenon DEF Gone
  <2>2. Answerable'
    <3>1. out' = out \ {m} /\ (th' = "process" /\ cur' \in Asks => cur' # m)
      BY <1>a, <2>q, <2>b DEF messageQueueCompleted
    <3>2. sent' \subseteq Asks /\ (th' = "process" /\ cur' \in Asks => cur' \in sent')
      BY <1>a, <2>q, <2>b, <3>1 DEF Answerable
    <3> QED
      BY <1>a, <2>q, <2>b, <3>1, <3>2 DEF Answerable
  <2>3. InHand'
    <3>1. \A d \in Client : pc'[d] \notin {"remove", "removeSent"}
      BY <1>c, <2>q DEF InHand
    <3>2. \A d \in Client : d # c /\ hold'[d] # NoMsg => /\ hold'[d] \notin Elements(all')
            /\ hold'[d] \notin sent' /\ hold'[d] \notin fresh' /\
                    (cur' = hold'[d] => th' = "transmitted")
      BY <1>a, <1>b, <2>q, <2>a, <2>b DEF InHand
    <3>3. /\ hold'[c] \notin Elements(all') /\ hold'[c] \notin sent' /\ hold'[c] \notin fresh'
          /\ cur' = hold'[c] => th' = "transmitted"
      BY <1>a, <1>b, <2>a, <2>b
    <3> QED
      BY <3>1, <3>2, <3>3 DEF InHand
  <2>4. OneHand'
    BY <1>b, <2>q, <2>a, Zenon DEF OneHand
  <2> QED
    BY <2>1, <2>2, <2>3, <2>4 DEF Quiet
<1> QED
  BY <1>1, <1>2, <1>3, <1>4, <1>5, <1>6, <1>7, <1>8 DEF Placed

LEMMA MessageQueueContainsMessageKeeps ==
    ASSUME KeptInv, NEW c \in Client, messageQueueContainsMessage(c)
    PROVE  KeptInv'
<1>a. hold[c] \in Msg
  BY DEF KeptInv, Placed, Hands, TypeOK, messageQueueContainsMessage, ContainsIf
<1>1. TypeOK'
  BY <1>a, EndedIs, Zenon DEF KeptInv, TypeOK, PC, messageQueueContainsMessage, ContainsIf,
         Return, sets, world
<1>2. ThreadInformed'
  BY DEF KeptInv, ThreadInformed, messageQueueContainsMessage, ContainsIf, sets
<1>3. InLists'
  BY DEF KeptInv, Placed, InLists, messageQueueContainsMessage, ContainsIf, sets
<1>4. Fresh'
  BY DEF KeptInv, Placed, Fresh, messageQueueContainsMessage, ContainsIf, sets
<1>5. Current'
  BY DEF KeptInv, Placed, Current, InProcess, messageQueueContainsMessage, ContainsIf, sets
<1>6. Hands'
  BY DEF KeptInv, Placed, Hands, TypeOK, messageQueueContainsMessage, ContainsIf, Return
<1>7. Accounted'
  BY DEF KeptInv, Placed, Accounted, TypeOK, Held, messageQueueContainsMessage, ContainsIf, Ended,
         Return, sets
<1> QED
  BY <1>1, <1>2, <1>3, <1>4, <1>5, <1>6, <1>7 DEF KeptInv, Placed

LEMMA MessageQueueStartThreadKeeps ==
    ASSUME KeptInv, NEW c \in Client, messageQueueStartThread(c)
    PROVE  KeptInv' /\ (Quiet => Quiet')
<1>1. TypeOK'
  BY DEF KeptInv, TypeOK, State, Where, messageQueueStartThread, sets, ghost, calls, world
<1>2. ThreadInformed'
  BY DEF ThreadInformed, messageQueueStartThread
<1>3. Rests
  BY DEF KeptInv, Placed, InProcess, Hands, Rests, Stays, ThreadInformed, messageQueueStartThread,
         sets, ghost, calls, world
<1> QED
  BY <1>1, <1>2, <1>3, StaysKeeps, RestsKeeps DEF KeptInv, Rests

LEMMA MessageQueueStopThreadKeeps ==
    ASSUME KeptInv, NEW c \in Client, NEW k \in {"halt", "stop", "destroy"},
           messageQueueStopThread(c, k)
    PROVE  KeptInv' /\ (Quiet => Quiet')
<1>1. TypeOK'
  BY DEF KeptInv, TypeOK, State, Where, PC, messageQueueStopThread, Broadcast, Awake, AwakeAs,
         sets, ghost, world
<1>2. ThreadInformed'
  BY DEF KeptInv, ThreadInformed, messageQueueStopThread, Broadcast, Awake, AwakeAs
<1>3. Rests
  BY DEF KeptInv, Placed, Current, InProcess, Hands, Rests, Stays, messageQueueStopThread, Call,
         Broadcast, Awake, AwakeAs, sets, ghost, world
<1> QED
  BY <1>1, <1>2, <1>3, StaysKeeps, RestsKeeps DEF KeptInv, Rests

LEMMA StopFinishKeeps ==
    ASSUME KeptInv, NEW c \in Client, StopFinish(c)
    PROVE  KeptInv' /\ (Quiet => Quiet')
<1>1. TypeOK'
  BY DEF KeptInv, TypeOK, PC, StopFinish, StopFinishIf, sets, ghost, world
<1>2. ThreadInformed'
  BY DEF KeptInv, ThreadInformed, StopFinish, StopFinishIf
<1>3. Rests
  BY DEF KeptInv, Placed, Current, InProcess, Hands, Rests, Stays, StopFinish, StopFinishIf, sets,
         ghost, world
<1> QED
  BY <1>1, <1>2, <1>3, StaysKeeps, RestsKeeps DEF KeptInv, Rests

LEMMA DestroyClearKeeps ==
    ASSUME KeptInv, NEW c \in Client, DestroyClear(c)
    PROVE  KeptInv' /\ (Quiet => Quiet')
BY ClearSetsKeeps, Zenon DEF KeptInv, ThreadInformed, TypeOK, PC, DestroyClear, Lock, Busy

LEMMA DestroyFreeKeeps ==
    ASSUME KeptInv, NEW c \in Client, DestroyFree(c)
    PROVE  KeptInv' /\ (Quiet => Quiet')
<1>1. TypeOK'
  BY DEF KeptInv, TypeOK, PC, DestroyFree, sets, ghost, world
<1>2. ThreadInformed'
  BY DEF KeptInv, ThreadInformed, DestroyFree, sets
<1>3. Rests
  BY DEF KeptInv, Placed, Current, InProcess, Hands, Rests, Stays, DestroyFree, sets, ghost, world
<1> QED
  BY <1>1, <1>2, <1>3, StaysKeeps, RestsKeeps DEF KeptInv, Rests

LEMMA ThreadCancelKeeps ==
    ASSUME KeptInv, ThreadCancel
    PROVE  KeptInv' /\ (Quiet => Quiet')
<1>1. TypeOK'
  BY DEF KeptInv, TypeOK, Where, ThreadCancel, sets, ghost, calls, world
<1>2. ThreadInformed'
  BY DEF ThreadInformed, ThreadCancel
<1>3. Rests
  BY DEF KeptInv, Placed, InProcess, Hands, Rests, Stays, ThreadCancel, sets, ghost, calls, world
<1> QED
  BY <1>1, <1>2, <1>3, StaysKeeps, RestsKeeps DEF KeptInv, Rests

LEMMA ThreadPauseKeeps ==
    ASSUME KeptInv, ThreadPause
    PROVE  KeptInv' /\ (Quiet => Quiet')
<1>1. TypeOK'
  BY DEF KeptInv, TypeOK, Where, ThreadPause, sets, ghost, calls, world
<1>2. ThreadInformed'
  BY DEF KeptInv, TypeOK, State, ThreadInformed, ThreadPause
<1>3. Rests
  BY DEF KeptInv, Placed, InProcess, Hands, Rests, Stays, ThreadPause, sets, ghost, calls, world
<1> QED
  BY <1>1, <1>2, <1>3, StaysKeeps, RestsKeeps DEF KeptInv, Rests

LEMMA ThreadIdleKeeps ==
    ASSUME KeptInv, ThreadIdle
    PROVE  KeptInv' /\ (Quiet => Quiet')
<1>1. TypeOK'
  BY DEF KeptInv, TypeOK, Where, ThreadIdle, sets, ghost, calls, world
<1>2. ThreadInformed'
  BY DEF KeptInv, TypeOK, State, ThreadInformed, ThreadIdle, sets
<1>3. Rests
  BY DEF KeptInv, Placed, InProcess, Hands, Rests, Stays, ThreadIdle, sets, ghost, calls, world
<1> QED
  BY <1>1, <1>2, <1>3, StaysKeeps, RestsKeeps DEF KeptInv, Rests

LEMMA ThreadPopKeeps ==
    ASSUME KeptInv, ThreadPop
    PROVE  KeptInv' /\ (Quiet => Quiet')
<1> USE DEF KeptInv, Placed
<1> DEFINE x == Head(filtered)
<1>a. /\ all \in Seq(Msg) /\ filtered \in Seq(Msg) /\ Once(all) /\ Follows(filtered, all)
  BY DEF TypeOK, InLists
<1>b. /\ filtered # <<>> /\ cur' = x /\ filtered' = Tail(filtered) /\ all' = Removed(all, x)
      /\ sent' = (IF x \in Asks THEN sent \cup {x} ELSE sent)
      /\ state' = "PROCESSING" /\ th = "loop" /\ th' = "process"
      /\ UNCHANGED <<errors, late, fresh, ended, pc, hold, freed, out, up, links, delays>>
  BY DEF ThreadPop, ghost, calls, world
<1> HIDE DEF x
<1>c. x \in Elements(all) /\ filtered' \in Seq(Msg) /\ Follows(filtered', all')
  BY <1>a, <1>b, TailFollows DEF x
<1>d. all' \in Seq(Msg) /\ Elements(all') = Elements(all) \ {x} /\ Once(all')
  BY <1>a, <1>b, RemovedIs, RemovedFollows, Zenon
<1>e. x \in Msg /\ x \notin fresh /\ x \notin sent
  BY <1>a, <1>c, ElementIs DEF Fresh, InLists
<1>f. /\ sent' \subseteq Msg /\ sent \subseteq sent' /\ \A m \in sent' : m \in sent \/ m = x
      /\ x \in Asks => x \in sent'
  BY <1>b, <1>e DEF TypeOK
<1>1. TypeOK'
  BY <1>b, <1>c, <1>d, <1>e, <1>f DEF TypeOK, State, Where
<1>2. ThreadInformed'
  BY <1>b DEF ThreadInformed
<1>3. InLists'
  BY <1>c, <1>d, <1>f, Zenon DEF InLists
<1>4. Fresh'
  BY <1>b, <1>d, <1>e, <1>f, Zenon DEF Fresh
<1>5. Current'
  BY <1>b, <1>d, <1>e, Zenon DEF Current, InProcess
<1>6. Hands'
  BY <1>b, Zenon DEF Hands
<1>7. Accounted'
  <2>1. cur = NoMsg /\ NoMsg \notin Msg
    BY <1>b, QueueAssumption DEF Current, InProcess
  <2> QED
    BY <1>b, <1>d, <1>f, <2>1, Zenon DEF Accounted, Held
<1>8. ASSUME Quiet PROVE Quiet'
  <2>q. Gone /\ Answerable /\ InHand /\ OneHand
    BY <1>8 DEF Quiet
  <2>a. ended[x] = 0 /\ x \notin out /\ \A c \in Client : hold[c] # x
    BY <1>c, <1>e, <2>q, QueueAssumption, Zenon DEF Gone, Answerable, InHand
  <2>1. Gone'
    BY <1>b, <1>d, <1>f, <2>q, <2>a, Zenon DEF Gone, Held
  <2>2. Answerable'
    <3>1. sent' \subseteq Asks
      BY <1>b, <2>q DEF Answerable
    <3> QED
      BY <1>b, <1>d, <1>f, <2>q, <2>a, <3>1, Zenon DEF Answerable
  <2>3. InHand'
    BY <1>b, <1>d, <1>f, <2>q, <2>a, Zenon DEF InHand
  <2>4. OneHand'
    BY <1>b, <2>q, Zenon DEF OneHand
  <2> QED
    BY <2>1, <2>2, <2>3, <2>4 DEF Quiet
<1> QED
  BY <1>1, <1>2, <1>3, <1>4, <1>5, <1>6, <1>7, <1>8 DEF Placed

LEMMA TransmitKeeps ==
    ASSUME KeptInv, Transmit
    PROVE  KeptInv'
<1>1. TypeOK'
  BY DEF KeptInv, Placed, Current, InProcess, TypeOK, Where, Transmit, sets, ghost, calls
<1>2. ThreadInformed'
  BY DEF KeptInv, ThreadInformed, Transmit
<1>3. Stays
  BY DEF KeptInv, Placed, InProcess, Hands, Stays, Transmit, sets, ghost, calls
<1> QED
  BY <1>1, <1>2, <1>3, StaysKeeps DEF KeptInv

LEMMA ProcessSuccessKeeps ==
    ASSUME KeptInv, ProcessSuccess
    PROVE  KeptInv' /\ (Quiet => Quiet')
<1> USE DEF KeptInv, Placed
<1>a. cur \in Msg
  BY DEF Current, InProcess, ProcessSuccess
<1>1. TypeOK'
  BY <1>a, EndedIs, Zenon DEF TypeOK, State, Where, ProcessSuccess, sets, calls, world
<1>2. ThreadInformed'
  BY DEF ThreadInformed, ProcessSuccess
<1>3. InLists'
  BY DEF InLists, ProcessSuccess, sets
<1>4. Fresh'
  BY DEF Fresh, ProcessSuccess, sets
<1>5. Current'
  BY DEF Current, InProcess, ProcessSuccess
<1>6. Hands'
  BY DEF Hands, ProcessSuccess, calls
<1>7. Accounted'
  BY DEF Accounted, TypeOK, Held, Current, ProcessSuccess, Ended, sets, calls
<1>8. ASSUME Quiet PROVE Quiet'
  <2>q. Gone /\ Answerable /\ InHand /\ OneHand
    BY <1>8 DEF Quiet
  <2>a. /\ ended' = (IF cur \in Asks THEN ended ELSE Ended(cur)) /\ sent' = sent /\
          cur' = NoMsg /\ th' = "loop"
        /\ UNCHANGED <<all, fresh, out, pc, hold>> /\ InProcess
        /\ cur \notin Asks => th = "process"
    BY <1>a, <2>q DEF ProcessSuccess, sets, calls, world, InProcess
  <2>b. /\ ended[cur] = 0 /\ cur \notin Elements(all) /\ cur \notin fresh
    BY <1>a, <2>q, <2>a DEF Gone, Current
  <2>c. cur \notin Asks => ~Held(cur) /\ cur \notin sent'
    BY <1>a, <2>q, <2>a, QueueAssumption DEF Held, InHand, Answerable
  <2>d. \A n \in Msg : \/ ended'[n] = ended[n]
                       \/ n = cur /\ ended'[n] = 1 /\ ~Held(cur) /\ cur \notin sent'
    BY <1>a, <2>a, <2>b, <2>c DEF Ended
  <2>1. Gone'
    <3>1. \A n \in Msg : cur' # n /\ (n \in sent' => n \in sent) /\ (Held(n)' => Held(n))
      BY <2>a, QueueAssumption DEF Held
    <3> QED
      BY <2>q, <2>a, <2>b, <2>d, <3>1, Zenon DEF Gone
  <2>2. Answerable'
    <3>1. sent' \subseteq Asks /\ th' # "process"
      BY <2>q, <2>a DEF Answerable
    <3> QED
      BY <2>q, <2>a, <3>1, Zenon DEF Answerable
  <2>3. InHand'
    <3>1. sent' \subseteq sent
      BY <2>a
    <3> QED
      BY <2>q, <2>a, <3>1, Zenon DEF InHand
  <2>4. OneHand'
    BY <2>q, <2>a, Zenon DEF OneHand
  <2> QED
    BY <2>1, <2>2, <2>3, <2>4 DEF Quiet
<1> QED
  BY <1>1, <1>2, <1>3, <1>4, <1>5, <1>6, <1>7, <1>8 DEF Placed

LEMMA ProcessFinalKeeps ==
    ASSUME KeptInv, ProcessFinal
    PROVE  KeptInv' /\ (Quiet => Quiet')
<1> USE DEF KeptInv, Placed
<1>a. cur \in Msg
  BY DEF Current, InProcess, ProcessFinal
<1>1. TypeOK'
  BY <1>a, EndedIs, Zenon DEF TypeOK, State, Where, ProcessFinal, calls, world
<1>2. ThreadInformed'
  BY DEF ThreadInformed, ProcessFinal
<1>3. InLists'
  BY DEF InLists, ProcessFinal
<1>4. Fresh'
  BY DEF Fresh, ProcessFinal
<1>5. Current'
  BY DEF Current, InProcess, ProcessFinal
<1>6. Hands'
  BY DEF Hands, ProcessFinal, calls
<1>7. Accounted'
  BY DEF Accounted, TypeOK, Held, ProcessFinal, Ended, calls
<1>8. ASSUME Quiet PROVE Quiet'
  <2>q. Gone /\ Answerable /\ InHand /\ OneHand
    BY <1>8 DEF Quiet
  <2>a. /\ ended' = (Ended(cur)) /\ sent' = sent \ {cur} /\ cur' = NoMsg /\ th' = "loop"
        /\ UNCHANGED <<all, fresh, out, pc, hold>> /\ InProcess
        /\ th = "process"
    BY <1>a, <2>q DEF ProcessFinal, calls, world, InProcess
  <2>b. /\ ended[cur] = 0 /\ cur \notin Elements(all) /\ cur \notin fresh
    BY <1>a, <2>q, <2>a DEF Gone, Current
  <2>c. ~Held(cur) /\ cur \notin sent'
    BY <1>a, <2>q, <2>a, QueueAssumption DEF Held, InHand
  <2>d. \A n \in Msg : \/ ended'[n] = ended[n]
                       \/ n = cur /\ ended'[n] = 1 /\ ~Held(cur) /\ cur \notin sent'
    BY <1>a, <2>a, <2>b, <2>c DEF Ended
  <2>1. Gone'
    <3>1. \A n \in Msg : cur' # n /\ (n \in sent' => n \in sent) /\ (Held(n)' => Held(n))
      BY <2>a, QueueAssumption DEF Held
    <3> QED
      BY <2>q, <2>a, <2>b, <2>d, <3>1, Zenon DEF Gone
  <2>2. Answerable'
    <3>1. sent' \subseteq Asks /\ th' # "process"
      BY <2>q, <2>a DEF Answerable
    <3> QED
      BY <2>q, <2>a, <3>1, Zenon DEF Answerable
  <2>3. InHand'
    <3>1. sent' \subseteq sent
      BY <2>a
    <3> QED
      BY <2>q, <2>a, <3>1, Zenon DEF InHand
  <2>4. OneHand'
    BY <2>q, <2>a, Zenon DEF OneHand
  <2> QED
    BY <2>1, <2>2, <2>3, <2>4 DEF Quiet
<1> QED
  BY <1>1, <1>2, <1>3, <1>4, <1>5, <1>6, <1>7, <1>8 DEF Placed

LEMMA ProcessFailureKeeps ==
    ASSUME KeptInv, ProcessFailure
    PROVE  KeptInv' /\ (Quiet => Quiet')
<1> USE DEF KeptInv, Placed
<1>a. /\ th = "process" /\ Requeue(cur, errors[cur] + 1, "delay") /\ state' = "RUNNING" /\
        cur' = NoMsg
      /\ UNCHANGED <<late, fresh, pc, hold, freed, out, up, links, delays>>
  BY DEF ProcessFailure, calls, world
<1>b. cur \in Msg /\ cur \notin Elements(all) /\ cur \notin fresh
  BY <1>a DEF Current, InProcess
<1>c. th' \in {"delay", "loop"}
  BY <1>a DEF Requeue
<1>d. Requeued(cur)
  BY <1>a, <1>b, RequeueIs DEF TypeOK
<1>1. TypeOK'
  BY <1>a, <1>c, <1>d, Zenon DEF TypeOK, State, Where, Requeued
<1>2. ThreadInformed'
  BY <1>a, <1>c DEF ThreadInformed
<1>3. InLists'
  BY <1>d, Zenon DEF InLists, Requeued
<1>4. Fresh'
  <2>1. \A n \in fresh : n \in Msg /\ n # cur
    BY <1>b DEF TypeOK
  <2>2. \A n \in fresh : n \notin Elements(all') /\ n \notin sent' /\ ended'[n] = ended[n]
    BY <1>d, <2>1 DEF Fresh, Requeued
  <2> QED
    BY <1>a, <2>1, <2>2 DEF Fresh
<1>5. Current'
  BY <1>a, <1>c DEF Current, InProcess
<1>6. Hands'
  BY <1>a, Zenon DEF Hands
<1>7. Accounted'
  BY <1>a, <1>d, Zenon DEF Accounted, Held, Requeued
<1>8. ASSUME Quiet PROVE Quiet'
  <2>q. Gone /\ Answerable /\ InHand /\ OneHand
    BY <1>8 DEF Quiet
  <2>a. ended[cur] = 0 /\ cur \notin out /\ \A c \in Client : hold[c] # cur
    BY <1>a, <1>b, <2>q, QueueAssumption, Zenon DEF Gone, Answerable, InHand
  <2>1. Gone'
    <3>1. \A n \in Msg : cur' # n /\ (n \in sent' => n \in sent) /\ (Held(n)' => Held(n))
      BY <1>a, <1>d, QueueAssumption DEF Held, Requeued
    <3>2. \A n \in Msg : n # cur => ended'[n] = ended[n] /\
            (n \in Elements(all') <=> n \in Elements(all))
      BY <1>d, Zenon DEF Requeued
    <3>4. ended'[cur] = 0 \/ (cur \notin Elements(all') /\ ended'[cur] = 1)
      BY <1>d, <2>a, Zenon DEF Requeued
    <3>5. cur \notin sent'
      BY <1>d DEF Requeued
    <3>3. ~Held(cur)
      BY <2>a DEF Held
    <3> QED
      BY <1>a, <1>b, <2>q, <3>1, <3>2, <3>3, <3>4, <3>5, Zenon DEF Gone
  <2>2. Answerable'
    <3>1. sent' \subseteq Asks /\ th' # "process" /\ out' \subseteq out /\ cur \notin out'
      BY <1>a, <1>c, <1>d, <2>q, <2>a DEF Answerable, Requeued
    <3>2. \A n \in out' : n \in Msg /\ n # cur
      BY <3>1 DEF TypeOK
    <3> QED
      BY <1>a, <1>d, <2>q, <3>1, <3>2 DEF Answerable, Requeued
  <2>3. InHand'
    <3>1. \A n \in Msg : n # cur => (n \in Elements(all') => n \in Elements(all)) /\
            (n \in sent' => n \in sent)
      BY <1>d DEF Requeued
    <3>2. \A c \in Client : hold[c] # NoMsg => hold[c] \in Msg
      BY DEF TypeOK
    <3>3. cur' = NoMsg
      BY <1>a DEF InProcess
    <3> QED
      BY <1>a, <2>q, <2>a, <3>1, <3>2, <3>3, Zenon DEF InHand
  <2>4. OneHand'
    BY <1>a, <2>q, Zenon DEF OneHand
  <2> QED
    BY <2>1, <2>2, <2>3, <2>4 DEF Quiet
<1> QED
  BY <1>1, <1>2, <1>3, <1>4, <1>5, <1>6, <1>7, <1>8 DEF Placed

LEMMA ProcessDelayKeeps ==
    ASSUME KeptInv, ProcessDelay
    PROVE  KeptInv' /\ (Quiet => Quiet')
<1> USE DEF KeptInv, Placed
<1>a. /\ th = "process" /\ Enqueue(cur) /\ sent' = sent \ {cur} /\ delays' = delays + 1
      /\ th' = "delay" /\ state' = "RUNNING" /\ cur' = NoMsg
      /\ UNCHANGED <<errors, late, fresh, ended, pc, hold, freed, out, up, links>>
  BY DEF ProcessDelay, ghost, calls
<1>b. cur \in Msg /\ cur \notin Elements(all) /\ cur \notin fresh
  BY <1>a DEF Current, InProcess
<1>c. /\ all' \in Seq(Msg) /\ filtered' \in Seq(Msg) /\ Once(all') /\ Follows(filtered', all')
      /\ Elements(all') = Elements(all) \cup {cur}
  BY <1>a, <1>b, EnqueueIs
<1>1. TypeOK'
  BY <1>a, <1>c DEF TypeOK, State, Where
<1>2. ThreadInformed'
  BY <1>a DEF ThreadInformed
<1>3. InLists'
  BY <1>a, <1>c, Zenon DEF InLists
<1>4. Fresh'
  BY <1>a, <1>b, <1>c, Zenon DEF Fresh
<1>5. Current'
  BY <1>a DEF Current, InProcess
<1>6. Hands'
  BY <1>a, Zenon DEF Hands
<1>7. Accounted'
  BY <1>a, <1>c, Zenon DEF Accounted, Held
<1>8. ASSUME Quiet PROVE Quiet'
  <2>q. Gone /\ Answerable /\ InHand /\ OneHand
    BY <1>8 DEF Quiet
  <2>a. ended[cur] = 0 /\ cur \notin out /\ \A c \in Client : hold[c] # cur
    BY <1>a, <1>b, <2>q, QueueAssumption, Zenon DEF Gone, Answerable, InHand
  <2>1. Gone'
    <3>1. \A n \in Msg : /\ cur' # n /\ (n \in sent' => n \in sent) /\ (Held(n)' => Held(n))
                         /\ n # cur => (n \in Elements(all') => n \in Elements(all))
      BY <1>a, <1>c, QueueAssumption DEF Held
    <3> QED
      BY <1>a, <2>q, <2>a, <3>1, Zenon DEF Gone
  <2>2. Answerable'
    <3>1. sent' \subseteq Asks /\ th' # "process"
      BY <1>a, <2>q DEF Answerable
    <3> QED
      BY <1>a, <1>c, <2>q, <2>a, <3>1, Zenon DEF Answerable
  <2>3. InHand'
    <3>1. sent' \subseteq sent
      BY <1>a
    <3> QED
      BY <1>a, <1>c, <2>q, <2>a, <3>1, QueueAssumption, Zenon DEF InHand
  <2>4. OneHand'
    BY <1>a, <2>q, Zenon DEF OneHand
  <2> QED
    BY <2>1, <2>2, <2>3, <2>4 DEF Quiet
<1> QED
  BY <1>1, <1>2, <1>3, <1>4, <1>5, <1>6, <1>7, <1>8 DEF Placed

LEMMA WaitEndsKeeps ==
    ASSUME KeptInv, WaitEnds
    PROVE  KeptInv' /\ (Quiet => Quiet')
<1>1. TypeOK'
  BY DEF KeptInv, TypeOK, Where, WaitEnds, Awake, AwakeAs, sets, ghost, calls, world
<1>2. ThreadInformed'
  BY DEF KeptInv, ThreadInformed, WaitEnds, Awake, AwakeAs
<1>3. Rests
  BY DEF KeptInv, Placed, InProcess, Hands, Rests, Stays, WaitEnds, Awake, AwakeAs, sets, ghost,
         calls, world
<1> QED
  BY <1>1, <1>2, <1>3, StaysKeeps, RestsKeeps DEF KeptInv, Rests

LEMMA CheckBeginKeeps ==
    ASSUME KeptInv, CheckBegin
    PROVE  KeptInv' /\ (Quiet => Quiet')
<1>1. TypeOK'
  BY DEF KeptInv, TypeOK, Where, CheckBegin, sets, ghost, calls, world
<1>2. ThreadInformed'
  BY DEF KeptInv, ThreadInformed, CheckBegin
<1>3. Rests
  BY DEF KeptInv, Placed, InProcess, Hands, Rests, Stays, CheckBegin, sets, ghost, calls, world
<1> QED
  BY <1>1, <1>2, <1>3, StaysKeeps, RestsKeeps DEF KeptInv, Rests

LEMMA CheckMessageKeeps ==
    ASSUME KeptInv, NEW m \in Msg, CheckMessage(m)
    PROVE  KeptInv' /\ (~LateReplies /\ Quiet => Quiet')
<1> USE DEF KeptInv, Placed
<1>a. /\ th = "check" /\ m \in late /\ Requeue(m, errors[m] + 1, "check") /\ late' = late \ {m}
      /\ out' \subseteq out
      /\ UNCHANGED <<state, cur, fresh, pc, hold, freed, up, links, delays>>
  BY DEF CheckMessage, calls
<1>b. m \in sent /\ m \notin Elements(all) /\ m \notin fresh
  BY <1>a, Zenon DEF Current, InLists, Fresh
<1>c. th' = "check"
  BY <1>a DEF Requeue
<1>d. Requeued(m)
  BY <1>a, <1>b, RequeueIs DEF TypeOK
<1>1. TypeOK'
  BY <1>a, <1>c, <1>d, Zenon DEF TypeOK, Requeued
<1>2. ThreadInformed'
  BY <1>a, <1>c DEF ThreadInformed
<1>3. InLists'
  BY <1>d, Zenon DEF InLists, Requeued
<1>4. Fresh'
  <2>1. \A n \in fresh : n \in Msg /\ n # m
    BY <1>b DEF TypeOK
  <2>2. \A n \in fresh : n \notin Elements(all') /\ n \notin sent' /\ ended'[n] = ended[n]
    BY <1>d, <2>1 DEF Fresh, Requeued
  <2> QED
    BY <1>a, <2>1, <2>2 DEF Fresh
<1>5. Current'
  <2>1. late' \subseteq sent'
    BY <1>a, <1>d DEF Current, Requeued
  <2> QED
    BY <1>a, <1>c, <2>1 DEF Current, InProcess
<1>6. Hands'
  BY <1>a, Zenon DEF Hands
<1>7. Accounted'
  BY <1>a, <1>d, Zenon DEF Accounted, Held, Requeued
<1>8. ASSUME ~LateReplies, Quiet PROVE Quiet'
  <2>q. Gone /\ Answerable /\ InHand /\ OneHand /\ ~LateReplies
    BY <1>8 DEF Quiet
  <2>a. ended[m] = 0 /\ \A c \in Client : hold[c] # m
    BY <1>a, <1>b, <2>q, QueueAssumption, Zenon DEF Gone, InHand
  <2>1. Gone'
    <3>1. \A n \in Msg : cur' # n /\ (n \in sent' => n \in sent) /\ (Held(n)' => Held(n))
      BY <1>a, <1>d, QueueAssumption DEF Held, Requeued, Current, InProcess
    <3>2. \A n \in Msg : n # m => ended'[n] = ended[n] /\
            (n \in Elements(all') <=> n \in Elements(all))
      BY <1>d, Zenon DEF Requeued
    <3>4. ended'[m] = 0 \/ (m \notin Elements(all') /\ ended'[m] = 1)
      BY <1>d, <2>a, Zenon DEF Requeued
    <3>5. m \notin sent'
      BY <1>d DEF Requeued
    <3>3. ~Held(m)
      BY <2>a DEF Held
    <3> QED
      BY <1>a, <1>b, <2>q, <3>1, <3>2, <3>3, <3>4, <3>5, Zenon DEF Gone
  <2>2. Answerable'
    <3>1. sent' \subseteq Asks /\ th' # "process" /\ out' \subseteq out /\ m \notin out'
      BY <1>a, <1>c, <1>d, <2>q DEF Answerable, Requeued, CheckMessage
    <3>2. \A n \in out' : n \in Msg /\ n # m
      BY <3>1 DEF TypeOK
    <3> QED
      BY <1>a, <1>d, <2>q, <3>1, <3>2 DEF Answerable, Requeued
  <2>3. InHand'
    <3>1. \A n \in Msg : n # m => (n \in Elements(all') => n \in Elements(all)) /\
            (n \in sent' => n \in sent)
      BY <1>d DEF Requeued
    <3>2. \A c \in Client : hold[c] # NoMsg => hold[c] \in Msg
      BY DEF TypeOK
    <3>3. cur' = NoMsg
      BY <1>a DEF Current, InProcess
    <3> QED
      BY <1>a, <2>q, <2>a, <3>1, <3>2, <3>3, Zenon DEF InHand
  <2>4. OneHand'
    BY <1>a, <2>q, Zenon DEF OneHand
  <2> QED
    BY <2>1, <2>2, <2>3, <2>4 DEF Quiet
<1> QED
  BY <1>1, <1>2, <1>3, <1>4, <1>5, <1>6, <1>7, <1>8 DEF Placed

LEMMA CheckEndKeeps ==
    ASSUME KeptInv, CheckEnd
    PROVE  KeptInv' /\ (Quiet => Quiet')
<1>1. TypeOK'
  BY DEF KeptInv, TypeOK, Where, CheckEnd, sets, ghost, calls, world
<1>2. ThreadInformed'
  BY DEF KeptInv, ThreadInformed, CheckEnd
<1>3. Rests
  BY DEF KeptInv, Placed, InProcess, Hands, Rests, Stays, CheckEnd, sets, ghost, calls, world
<1> QED
  BY <1>1, <1>2, <1>3, StaysKeeps, RestsKeeps DEF KeptInv, Rests

LEMMA ThreadExitKeeps ==
    ASSUME KeptInv, ThreadExit
    PROVE  KeptInv' /\ (Quiet => Quiet')
<1>1. TypeOK'
  BY DEF KeptInv, TypeOK, State, Where, ThreadExit, ThreadExitAs, sets, ghost, calls, world
<1>2. ThreadInformed'
  BY DEF ThreadInformed, ThreadExit, ThreadExitAs
<1>3. Rests
  BY DEF KeptInv, Placed, InProcess, Hands, Rests, Stays, ThreadExit, ThreadExitAs, sets, ghost,
         calls, world
<1> QED
  BY <1>1, <1>2, <1>3, StaysKeeps, RestsKeeps DEF KeptInv, Rests

LEMMA LinkChangeKeeps ==
    ASSUME KeptInv, LinkChange
    PROVE  KeptInv' /\ (Quiet => Quiet')
<1>1. TypeOK'
  BY DEF KeptInv, TypeOK, LinkChange, sets, ghost, calls
<1>2. ThreadInformed'
  BY DEF KeptInv, ThreadInformed, LinkChange, sets
<1>3. Rests
  BY DEF KeptInv, Placed, Current, InProcess, Hands, Rests, Stays, LinkChange, sets, ghost, calls
<1> QED
  BY <1>1, <1>2, <1>3, StaysKeeps, RestsKeeps DEF KeptInv, Rests

LEMMA InitKeeps ==
    ASSUME Init
    PROVE  KeptInv /\ Quiet /\ Leaving
<1>1. Elements(<<>>) = {} /\ Once(<<>>) /\ Follows(<<>>, <<>>) /\ <<>> \in Seq(Msg)
  BY EmptyIs
<1>2. KeptInv
  BY <1>1, QueueAssumption, Zenon DEF Init, KeptInv, TypeOK, State, Where, PC, ThreadInformed,
         Placed, InLists, Fresh, Current, InProcess, Hands, Accounted
<1>3. Quiet /\ Leaving
  BY <1>1, QueueAssumption DEF Init, Quiet, Gone, Answerable, InHand, OneHand, Leaving, Destroys
<1> QED
  BY <1>2, <1>3

LEMMA NextKeeps ==
    ASSUME KeptInv, [Next]_vars
    PROVE  KeptInv'
<1>1. ASSUME NEW c \in Client, NEW m \in Msg, messageQueueAppend(c, m) \/ messageQueueRemove(c,
             m) \/ messageQueueCompleted(c, m)
      PROVE  KeptInv'
  BY <1>1, MessageQueueAppendKeeps, MessageQueueRemoveKeeps, MessageQueueCompletedKeeps
<1>2. ASSUME NEW c \in Client,
             messageQueueRunFilter(c) \/ messageQueueClear(c) \/ messageQueueStartThread(c)
      PROVE  KeptInv'
  BY <1>2, MessageQueueRunFilterKeeps, MessageQueueClearKeeps, MessageQueueStartThreadKeeps
<1>3. ASSUME NEW c \in Client, NEW k \in {"halt", "stop", "destroy"}, messageQueueStopThread(c, k)
      PROVE  KeptInv'
  BY <1>3, MessageQueueStopThreadKeeps
<1>4. ASSUME NEW c \in Client, Finish(c)
      PROVE  KeptInv'
  BY <1>4, RemoveFinishKeeps, MessageQueueContainsMessageKeeps, StopFinishKeeps,
         DestroyClearKeeps, DestroyFreeKeeps DEF Finish
<1>5. ASSUME Thread PROVE KeptInv'
  BY <1>5, ThreadCancelKeeps, ThreadPauseKeeps, ThreadIdleKeeps, ThreadPopKeeps, CheckBeginKeeps,
         CheckMessageKeeps, CheckEndKeeps, ThreadExitKeeps DEF Thread
<1>6. ASSUME Process PROVE KeptInv'
  BY <1>6, ProcessSuccessKeeps, ProcessFinalKeeps, ProcessFailureKeeps, ProcessDelayKeeps DEF
         Process
<1>7. ASSUME Transmit \/ WaitEnds \/ LinkChange PROVE KeptInv'
  BY <1>7, TransmitKeeps, WaitEndsKeeps, LinkChangeKeeps
<1>8. ASSUME UNCHANGED vars PROVE KeptInv'
  BY <1>8 DEF KeptInv, TypeOK, ThreadInformed, Placed, InLists, Fresh, Current, InProcess, Hands,
         Accounted, Held, vars, sets, ghost, calls, world
<1> QED
  BY <1>1, <1>2, <1>3, <1>4, <1>5, <1>6, <1>7, <1>8 DEF Next

LEMMA MessageQueueRunFilterQuiet ==
    ASSUME KeptInv, Quiet, NEW c \in Client, messageQueueRunFilter(c)
    PROVE  Quiet'
<1>1. Gone'
  BY DEF Quiet, Gone, Held, messageQueueRunFilter, RunFilterFrom, ghost, calls
<1>2. Answerable'
  BY DEF Quiet, Answerable, Broadcast, Awake, AwakeAs, messageQueueRunFilter, RunFilterFrom,
         ghost, world
<1>3. InHand'
  BY DEF Quiet, InHand, Broadcast, Awake, AwakeAs, messageQueueRunFilter, RunFilterFrom, ghost,
         calls
<1>4. OneHand'
  BY DEF Quiet, OneHand, messageQueueRunFilter, RunFilterFrom, calls
<1> QED
  BY <1>1, <1>2, <1>3, <1>4 DEF Quiet

LEMMA MessageQueueRemoveQuiet ==
    ASSUME KeptInv, Quiet, NEW c \in Client, NEW m \in Msg, messageQueueRemove(c, m),
           "remove" \notin Calls
    PROVE  Quiet'
BY DEF messageQueueRemove

LEMMA RemoveFinishQuiet ==
    ASSUME KeptInv, Quiet, NEW c \in Client, RemoveFinish(c)
    PROVE  Quiet'
BY DEF Quiet, InHand, RemoveFinish

LEMMA MessageQueueContainsMessageQuiet ==
    ASSUME KeptInv, Quiet, NEW c \in Client, messageQueueContainsMessage(c)
    PROVE  Quiet'
<1> USE DEF KeptInv, Placed, Quiet
<1> DEFINE h == hold[c]
<1>a. /\ h \in Msg /\ Held(h) /\ h \notin sent /\ h \notin Elements(all) /\ h \notin fresh /\
        cur # h
  BY DEF Hands, TypeOK, Held, InHand, messageQueueContainsMessage, ContainsIf, Busy,
         ThreadInformed
<1>b. /\ ended' = Ended(h) /\ hold' = [hold EXCEPT ![c] = NoMsg]
      /\ UNCHANGED <<all, sent, fresh, cur>>
  BY <1>a DEF messageQueueContainsMessage, ContainsIf, Return, sets
<1>c. \A n \in Msg : /\ Held(n)' => Held(n) /\ n # h
                     /\ n # h => ended'[n] = ended[n]
                     /\ n = h => ended'[n] = 1
  <2>1. ended[h] = 0
    BY <1>a DEF Gone
  <2>2. \A n \in Msg : /\ n # h => ended'[n] = ended[n]
                       /\ n = h => ended'[n] = 1
    BY <1>a, <1>b, <2>1 DEF Ended, TypeOK
  <2>3. \A n \in Msg : Held(n)' => Held(n) /\ n # h
    BY <1>a, <1>b, QueueAssumption DEF Held, TypeOK, OneHand
  <2> QED
    BY <2>2, <2>3
<1> HIDE DEF h
<1>1. Gone'
  BY <1>a, <1>b, <1>c, Zenon DEF Gone
<1>2. Answerable'
  BY DEF Answerable, messageQueueContainsMessage, ContainsIf, sets, world
<1>3. InHand' /\ OneHand'
  BY DEF InHand, OneHand, messageQueueContainsMessage, ContainsIf, Return, sets
<1> QED
  BY <1>1, <1>2, <1>3

LEMMA TransmitQuiet ==
    ASSUME KeptInv, Quiet, Transmit
    PROVE  Quiet'
<1>1. Gone'
  BY DEF Quiet, Gone, Held, Transmit, sets, ghost, calls
<1>2. Answerable'
  BY DEF Quiet, Answerable, Current, InProcess, KeptInv, Placed, Transmit, sets, ghost
<1>3. InHand'
  BY DEF Quiet, InHand, Transmit, sets, ghost, calls
<1>4. OneHand'
  BY DEF Quiet, OneHand, Transmit, calls
<1> QED
  BY <1>1, <1>2, <1>3, <1>4 DEF Quiet

LEMMA NextQuiet ==
    ASSUME "remove" \notin Calls, ~LateReplies, KeptInv, Quiet, [Next]_vars
    PROVE  Quiet'
<1>1. ASSUME NEW c \in Client, NEW m \in Msg, messageQueueAppend(c, m) \/ messageQueueRemove(c,
             m) \/ messageQueueCompleted(c, m)
      PROVE  Quiet'
  BY <1>1, MessageQueueAppendKeeps, MessageQueueRemoveQuiet, MessageQueueCompletedKeeps
<1>2. ASSUME NEW c \in Client,
             messageQueueRunFilter(c) \/ messageQueueClear(c) \/ messageQueueStartThread(c)
      PROVE  Quiet'
  BY <1>2, MessageQueueRunFilterQuiet, MessageQueueClearKeeps, MessageQueueStartThreadKeeps
<1>3. ASSUME NEW c \in Client, NEW k \in {"halt", "stop", "destroy"}, messageQueueStopThread(c, k)
      PROVE  Quiet'
  BY <1>3, MessageQueueStopThreadKeeps
<1>4. ASSUME NEW c \in Client, Finish(c)
      PROVE  Quiet'
  BY <1>4, RemoveFinishQuiet, MessageQueueContainsMessageQuiet, StopFinishKeeps,
         DestroyClearKeeps, DestroyFreeKeeps DEF Finish
<1>5. ASSUME Thread PROVE Quiet'
  BY <1>5, ThreadCancelKeeps, ThreadPauseKeeps, ThreadIdleKeeps, ThreadPopKeeps, CheckBeginKeeps,
         CheckMessageKeeps, CheckEndKeeps, ThreadExitKeeps DEF Thread
<1>6. ASSUME Process PROVE Quiet'
  BY <1>6, ProcessSuccessKeeps, ProcessFinalKeeps, ProcessFailureKeeps, ProcessDelayKeeps DEF
         Process
<1>7. ASSUME Transmit \/ WaitEnds \/ LinkChange PROVE Quiet'
  BY <1>7, TransmitQuiet, WaitEndsKeeps, LinkChangeKeeps
<1>8. ASSUME UNCHANGED vars PROVE Quiet'
  BY <1>8 DEF Quiet, Gone, Answerable, InHand, OneHand, Held, vars, sets, ghost, calls, world
<1> QED
  BY <1>1, <1>2, <1>3, <1>4, <1>5, <1>6, <1>7, <1>8 DEF Next

LEMMA NextLeaves ==
    ASSUME Calls \cap {"halt", "stop"} = {}, KeptInv, Leaving, [Next]_vars
    PROVE  Leaving'
<1> USE DEF KeptInv, TypeOK, Leaving, Destroys, ThreadInformed
<1>1. ASSUME NEW c \in Client, NEW m \in Msg, messageQueueAppend(c, m)
      PROVE  Leaving'
  BY <1>1 DEF messageQueueAppend, AppendThen, calls
<1>2. ASSUME NEW c \in Client, messageQueueRunFilter(c)
      PROVE  Leaving'
  BY <1>2 DEF messageQueueRunFilter, RunFilterFrom, calls
<1>3. ASSUME NEW c \in Client, NEW m \in Msg, messageQueueRemove(c, m)
      PROVE  Leaving'
  BY <1>3 DEF messageQueueRemove, Call
<1>4. ASSUME NEW c \in Client, RemoveFinish(c)
      PROVE  Leaving'
  BY <1>4 DEF RemoveFinish, Return
<1>5. ASSUME NEW c \in Client, messageQueueClear(c)
      PROVE  Leaving'
  BY <1>5 DEF messageQueueClear, calls
<1>6. ASSUME NEW c \in Client, NEW m \in Msg, messageQueueCompleted(c, m)
      PROVE  Leaving'
  BY <1>6 DEF messageQueueCompleted, Call
<1>7. ASSUME NEW c \in Client, messageQueueContainsMessage(c)
      PROVE  Leaving'
  BY <1>7 DEF messageQueueContainsMessage, ContainsIf, Return
<1>8. ASSUME NEW c \in Client, messageQueueStartThread(c)
      PROVE  Leaving'
  BY <1>8 DEF messageQueueStartThread, Call, Lock, calls
<1>9. ASSUME NEW c \in Client, NEW k \in {"halt", "stop", "destroy"}, messageQueueStopThread(c, k)
      PROVE  Leaving'
  <2>1. /\ k = "destroy" /\ state # "PROCESSING" /\ freed' = freed
        /\ state' = IF state = "RUNNING" THEN "CANCELING" ELSE state
    BY <1>9 DEF messageQueueStopThread, Busy
  <2>2. \A d \in Client : pc[d] \notin Destroys
    BY <1>9 DEF messageQueueStopThread, Call
  <2>3. pc' = [pc EXCEPT ![c] = IF state = "RUNNING" THEN "destroy" ELSE "clear"]
    BY <1>9, <2>1, Zenon DEF messageQueueStopThread
  <2>4. state \in {"RUNNING", "NOT_RUNNING"} /\ ~freed
    BY <1>9, <2>1, <2>2 DEF State, messageQueueStopThread, Call, Lock
  <2>5. \A d \in Client : pc'[d] = IF d = c THEN IF state = "RUNNING" THEN "destroy"
          ELSE "clear" ELSE pc[d]
    BY <2>3
  <2> QED
    BY <2>1, <2>2, <2>4, <2>5, Zenon
<1>10. ASSUME NEW c \in Client, StopFinish(c)
      PROVE  Leaving'
  BY <1>10 DEF StopFinish, StopFinishIf
<1>11. ASSUME NEW c \in Client, DestroyClear(c)
      PROVE  Leaving'
  BY <1>11 DEF DestroyClear
<1>12. ASSUME NEW c \in Client, DestroyFree(c)
      PROVE  Leaving'
  BY <1>12 DEF DestroyFree
<1>13. ASSUME ThreadCancel PROVE Leaving'
  BY <1>13 DEF ThreadCancel, calls
<1>14. ASSUME ThreadPause PROVE Leaving'
  BY <1>14 DEF ThreadPause, calls
<1>15. ASSUME ThreadIdle PROVE Leaving'
  BY <1>15 DEF ThreadIdle, calls
<1>16. ASSUME ThreadPop PROVE Leaving'
  BY <1>16 DEF ThreadPop, calls
<1>17. ASSUME Transmit PROVE Leaving'
  BY <1>17 DEF Transmit, calls
<1>18. ASSUME ProcessSuccess PROVE Leaving'
  BY <1>18 DEF ProcessSuccess, calls
<1>19. ASSUME ProcessFinal PROVE Leaving'
  BY <1>19 DEF ProcessFinal, calls
<1>20. ASSUME ProcessFailure PROVE Leaving'
  BY <1>20 DEF ProcessFailure, calls
<1>21. ASSUME ProcessDelay PROVE Leaving'
  BY <1>21 DEF ProcessDelay, calls
<1>22. ASSUME WaitEnds PROVE Leaving'
  BY <1>22 DEF WaitEnds, calls
<1>23. ASSUME CheckBegin PROVE Leaving'
  BY <1>23 DEF CheckBegin, calls
<1>24. ASSUME NEW m \in Msg, CheckMessage(m)
      PROVE  Leaving'
  BY <1>24 DEF CheckMessage, calls
<1>25. ASSUME CheckEnd PROVE Leaving'
  BY <1>25 DEF CheckEnd, calls
<1>26. ASSUME ThreadExit PROVE Leaving'
  BY <1>26 DEF ThreadExit, ThreadExitAs, calls
<1>27. ASSUME LinkChange PROVE Leaving'
  BY <1>27 DEF LinkChange, calls
<1>28. ASSUME UNCHANGED vars PROVE Leaving'
  BY <1>28 DEF vars, calls
<1> QED
  BY <1>1, <1>2, <1>3, <1>4, <1>5, <1>6, <1>7, <1>8, <1>9, <1>10, <1>11, <1>12, <1>13,
         <1>14, <1>15, <1>16, <1>17, <1>18, <1>19, <1>20, <1>21, <1>22, <1>23, <1>24, <1>25,
         <1>26, <1>27, <1>28, ZenonT(30) DEF Next, Finish, Thread, Process

-----------------------------------------------------------------------------
LEMMA KeptInvHolds == Spec => []KeptInv
<1>1. Init => KeptInv
  BY InitKeeps
<1>2. KeptInv /\ [Next]_vars => KeptInv'
  BY NextKeeps
<1> QED
  BY <1>1, <1>2, PTL DEF Spec

\* Whatever the clients call and in whatever order, and also when replies come late, the
\* message that the queue has accepted and not ended is in allSet, in sentHash, in processing
\* or with the client that is about to end it; allSet holds it once and never together with
\* sentHash; and filterSet keeps the order of allSet, over appends, retries and timeouts that
\* put messages back, runs of the filter, removals and clears.
THEOREM KeepsMessages == Spec => []MessagesKept
<1>1. KeptInv => FilterInOrder
  BY DEF KeptInv, Placed, InLists, Once, Follows, FilterInOrder, TypeOK
<1>2. KeptInv => NoLeak
  BY DEF KeptInv, Placed, Accounted, Held, NoLeak
<1>3. KeptInv => MessagesKept
  BY <1>1, <1>2 DEF MessagesKept
<1> QED
  BY <1>3, KeptInvHolds, PTL

\* threadState and the thread agree: nobody meets the state that queueThread logs as an error
\* after processFunc, and the thread does not sleep on a message that passed the filter or on
\* a request to stop, because every call that changes filterSet or threadState broadcasts.
THEOREM InformsThread == Spec => []ThreadInformed
<1>1. KeptInv => ThreadInformed
  BY DEF KeptInv
<1> QED
  BY <1>1, KeptInvHolds, PTL

\* As long as nobody calls messageQueueRemove and the server does not answer a message that
\* has timed out, notifyFunc is called or the reply is delivered once for each message, and
\* the queue does not use the message afterwards.
THEOREM LivesEndOnce ==
    ASSUME "remove" \notin Calls, ~LateReplies
    PROVE  Spec => []EndsOnce
<1>1. Init => KeptInv /\ Quiet
  BY InitKeeps
<1>2. KeptInv /\ Quiet /\ [Next]_vars => KeptInv' /\ Quiet'
  BY NextKeeps, NextQuiet
<1>3. Quiet => EndsOnce
  BY DEF Quiet, Gone, EndsOnce
<1> QED
  BY <1>1, <1>2, <1>3, PTL DEF Spec

\* messageQueueDestroy frees the queue after queueThread has ended, for every number of
\* clients and whatever they do meanwhile, when it is the only one to stop the thread.
THEOREM FreesAfterThread ==
    ASSUME Calls \cap {"halt", "stop"} = {}
    PROVE  Spec => []ThreadGoneWhenFreed
<1>1. Init => KeptInv /\ Leaving
  BY InitKeeps
<1>2. KeptInv /\ Leaving /\ [Next]_vars => KeptInv' /\ Leaving'
  BY NextKeeps, NextLeaves
<1>3. KeptInv /\ Leaving => ThreadGoneWhenFreed
  BY DEF KeptInv, ThreadInformed, Leaving, ThreadGoneWhenFreed
<1> QED
  BY <1>1, <1>2, <1>3, PTL DEF Spec
=============================================================================
