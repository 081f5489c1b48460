---------------------------- MODULE MCThreadPool ----------------------------
(***************************************************************************)
(* ThreadPool for TLC.  Workers are interchangeable, and so are tasks.     *)
(***************************************************************************)
EXTENDS ThreadPool, TLC

Symmetry == Permutations(Popper \ Pusher) \cup Permutations(Item)

=============================================================================
