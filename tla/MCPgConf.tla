------------------------------- MODULE MCPgConf -------------------------------
(***************************************************************************)
(* Small instances of PgConf: a setting that a reload changes, a setting   *)
(* that only a restart changes, and bodies of one or two items.            *)
(***************************************************************************)
EXTENDS PgConf, Units, TLC

CONSTANTS reloaded, restarted, boot, other, zero

TwoNames == {reloaded, restarted}
TwoValues == {boot, other}
ThreeValues == {boot, other, zero}

Plain(n, v) == [name |-> n, value |-> v, force |-> FALSE]
Forced(n, v) == [name |-> n, value |-> v, force |-> TRUE]

(* A body of no item, one that reverts a change, one whose second item is  *)
(* wrong and one that names a setting twice.                               *)
FewPosts ==
    {<<>>,
     <<Plain(reloaded, boot)>>,
     <<Plain(reloaded, other), Plain(restarted, Bad)>>,
     <<Plain(restarted, other), Plain(restarted, boot)>>}

(* Bodies for two requests at a time: no item, a revert, a second item   *)
(* that is wrong, a value the code takes for none and one the server       *)
(* refuses.                                                                *)
RacingPosts ==
    {<<>>,
     <<Plain(reloaded, boot)>>,
     <<Plain(reloaded, other), Plain(restarted, Bad)>>,
     <<Plain(restarted, zero), Forced(reloaded, Refused)>>}

(* The number a value is compared to its bounds with is the one PostgreSQL *)
(* would make of it, unless its unit is smaller than the setting's         *)
(* (plugins/pgconf/functions.py:133).  It says nothing of a state: it is   *)
(* evaluated in the first.                                                 *)
UnitsRight == Init => \A num \in 0 .. 2, factor \in {1, 8} : Right(num, factor)

=============================================================================
