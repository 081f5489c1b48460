---------------------------- MODULE BoundedFifo ----------------------------
(***************************************************************************)
(* What icBlockingQueue.h promises, with no threads, mutex, conditions or  *)
(* timeouts: a first-in first-out queue of at most Capacity pointers, each *)
(* owned by one party, that takes and gives nothing once it is closed.     *)
(***************************************************************************)
EXTENDS Naturals, Sequences, Lists

CONSTANTS Item, Capacity

VARIABLES content,      \* the pointers in the queue, oldest first
          open,         \* FALSE once the queue is disabled or being destroyed
          owner         \* owner[x]: who owns the pointer x

fvars == <<content, open, owner>>

Init ==
    /\ content = <<>>
    /\ open = TRUE
    /\ owner = [x \in Item |-> "client"]

Put(x) ==
    /\ open
    /\ Len(content) < Capacity
    /\ owner[x] = "client"
    /\ content' = Append(content, x)
    /\ owner' = [owner EXCEPT ![x] = "queued"]
    /\ UNCHANGED open

Get ==
    /\ open
    /\ content # <<>>
    /\ content' = Tail(content)
    /\ owner' = [owner EXCEPT ![Head(content)] = "taken"]
    /\ UNCHANGED open

\* One item is dropped; the rest keep their order.
Drop(k) ==
    /\ content' = Without(content, k)
    /\ owner' = [owner EXCEPT ![content[k]] = "freed"]
    /\ UNCHANGED open

DropAll ==
    /\ content' = <<>>
    /\ owner' = [x \in Item |-> IF owner[x] = "queued" THEN "freed" ELSE owner[x]]
    /\ UNCHANGED open

Close ==
    /\ open' = FALSE
    /\ UNCHANGED <<content, owner>>

Next ==
    \/ \E x \in Item : Put(x)
    \/ Get
    \/ \E k \in 1..Len(content) : Drop(k)
    \/ DropAll
    \/ Close

Spec == Init /\ [][Next]_fvars
=============================================================================
