------------------------------- MODULE Lists -------------------------------
(***************************************************************************)
(* Removal from the ordered containers of libs/types (icQueue,             *)
(* icLinkedList), seen as sequences.                                       *)
(***************************************************************************)
EXTENDS Naturals, Sequences

\* s without its k-th element: queueDelete and linkedListDelete unlink the first element
\* that their compare function accepts.
Without(s, k) == [i \in 1..(Len(s) - 1) |-> IF i < k THEN s[i] ELSE s[i + 1]]

Elements(s) == {s[i] : i \in 1..Len(s)}

\* s without the first occurrence of x, if there is one.
Removed(s, x) ==
    IF x \in Elements(s)
    THEN Without(s, CHOOSE k \in 1..Len(s) : s[k] = x /\ \A j \in 1..(k - 1) : s[j] # x)
    ELSE s

\* The elements of s that are in S, in their order: a set with this one sequence.
Selected(s, S) ==
    {[i \in DOMAIN e |-> s[e[i]]] :
        e \in {f \in UNION {[1..n -> 1..Len(s)] : n \in 0..Len(s)} :
                 /\ \A i, j \in DOMAIN f : i < j => f[i] < f[j]
                 /\ \A k \in 1..Len(s) : s[k] \in S <=> \E i \in DOMAIN f : f[i] = k}}
=============================================================================
