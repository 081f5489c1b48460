--------------------------- MODULE MCMessageQueue ---------------------------
(***************************************************************************)
(* MessageQueue for TLC: clients are interchangeable.                      *)
(***************************************************************************)
EXTENDS MessageQueue, TLC

Symmetry == Permutations(Client)
=============================================================================
