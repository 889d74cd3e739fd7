------------------------------- MODULE MCAgents -------------------------------
(***************************************************************************)
(* A small instance of Agents: one route of the core, two of a plugin, one *)
(* of another.                                                             *)
(***************************************************************************)
EXTENDS Agents

Databases == {"d", "schema"}

MCCore == <<[http_method |-> "GET", path |-> <<Literal("profile")>>]>>

MCPlugins == {"maintenance", "dashboard"}

MCRoutesOf ==
    [p \in MCPlugins |->
        IF p = "dashboard"
        THEN <<[http_method |-> "GET", path |-> <<Literal("dashboard")>>]>>
        ELSE <<[http_method |-> "GET", path |-> <<Literal("maintenance")>>],
               [http_method |-> "GET",
                path |-> <<Literal("maintenance"), Pattern(Databases)>>]>>]

(* An agent is started with the dashboard, or may load it by a reload. *)
MCConfigurations == {<<"maintenance", "dashboard">>, <<"maintenance">>}

MCRequests ==
    {[http_method |-> "GET", path |-> path] :
        path \in {<<"profile">>, <<"dashboard">>, <<"maintenance", "d">>}}

(* Daemons differ in their name only, and only invariants are checked. *)
Symmetry == Permutations(Daemons)

================================================================================
