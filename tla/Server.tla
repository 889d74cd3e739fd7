-------------------------------- MODULE Server --------------------------------
(***************************************************************************)
(* The PostgreSQL server as its clients see it, and all they may rely on:  *)
(* it accepts connections or not, its backends are cut one by one or all   *)
(* at once, and a server that accepts again has kept none.                 *)
(***************************************************************************)
CONSTANTS Sessions      \* the connections there may be

VARIABLES
    accepting,  \* connections are accepted
    backends    \* the sessions that have a backend

serverVars == <<accepting, backends>>

ServerInit == accepting = TRUE /\ backends = {}

Connect(s) ==
    /\ accepting
    /\ backends' = backends \cup {s}
    /\ UNCHANGED accepting

(* Stopped, started, restarted, some of its backends gone. *)
Change ==
    /\ accepting' \in BOOLEAN
    /\ backends' \in SUBSET backends
    /\ ~accepting /\ accepting' => backends' = {}

Next == Change \/ \E s \in Sessions : Connect(s)

Spec == ServerInit /\ [][Next]_serverVars

===============================================================================
