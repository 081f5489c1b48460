--------------------------- MODULE MCDelayedTask ---------------------------
(***************************************************************************)
(* DelayedTask for TLC: clients and task objects are interchangeable.      *)
(***************************************************************************)
EXTENDS DelayedTask, TLC

Symmetry == Permutations(Client) \cup Permutations(Task)
=============================================================================
