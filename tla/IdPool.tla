------------------------------- MODULE IdPool -------------------------------
(***************************************************************************)
(* What the server's identifier generator promises its callers             *)
(* (xrServer::PerformIDgen and xrServer::FreeID): an identifier that is    *)
(* handed out was not in use, and stays in use until it is freed.          *)
(***************************************************************************)

CONSTANTS
    Values,         \* the identifiers the generator manages
    NoValue         \* what "got" holds before the first request

VARIABLES
    used,           \* the identifiers handed out and not freed since
    got             \* the identifier the last request returned

vars == <<used, got>>

Init == used = {} /\ got = NoValue

\* A request, for any identifier or for a given one, returns an unused one.
Get(v) ==
    /\ v \notin used
    /\ used' = used \union {v}
    /\ got' = v

Release(v) ==
    /\ v \in used
    /\ used' = used \ {v}
    /\ UNCHANGED got

Next == \E v \in Values : Get(v) \/ Release(v)

Spec == Init /\ [][Next]_vars
=============================================================================
