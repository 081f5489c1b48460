------------------------------ MODULE MCProcMgr ------------------------------
(* Small instances of ProcMgr: a is a single phase service, b a plain one.   *)
EXTENDS ProcMgr

CONSTANTS a, b

ListB == <<b>>
ListAB == <<a, b>>
Reboot == [s \in Service |-> "reboot"]
Mixed == [s \in Service |-> IF s = a THEN "continue" ELSE "stop"]

Req(o, S) == [op |-> o, on |-> S, force |-> FALSE]
Forced(r) == [r EXCEPT !.force = TRUE]

\* The requests of a client that asks whether everything is started.
OpsAsk == {Req(o, {b}) : o \in {"restart", "unmonitor"}} \union {Req("ask", {})}

\* Requests that concern one service and all of them.
OpsOne == {Req(o, {b}) : o \in {"start", "recover"}}
    \union {Forced(Req("restartall", Service)), Req("startall", Service)}
==============================================================================
