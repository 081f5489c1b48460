-------------------------- MODULE MCBlockingQueue --------------------------
(***************************************************************************)
(* BlockingQueue for TLC: symmetry over interchangeable threads and items. *)
(***************************************************************************)
EXTENDS BlockingQueue, TLC

Symmetry ==
    Permutations(Pusher) \cup Permutations(Popper) \cup Permutations(Item)
=============================================================================
