-------------------------- MODULE MCRepeatingTask --------------------------
(***************************************************************************)
(* RepeatingTask for TLC: a task of each kind, with the calls that make    *)
(* sense for it.                                                           *)
(***************************************************************************)
EXTENDS RepeatingTask

EveryUse ==
    {[type |-> "normal",  calls |-> {"cancel", "short", "change"}, own |-> {"short", "change"}],
     [type |-> "normal",  calls |-> {"cancel", "short"},           own |-> {"short"}],
     [type |-> "fixed",   calls |-> {"cancel"},                    own |-> {"cancel"}],
     [type |-> "backoff", calls |-> {"cancel", "short"},           own |-> {"short"}]}
=============================================================================
