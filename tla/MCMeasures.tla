------------------------------ MODULE MCMeasures ------------------------------
(***************************************************************************)
(* Small instances of Measures; the HTTP threads are interchangeable.  The *)
(* probes of a collect, of which Measures follows one, are in Probes.      *)
(***************************************************************************)
EXTENDS Measures, Probes, TLC

Symmetry == Permutations(Apis)

(* A probe that fails takes away its own values and no other's, on a host  *)
(* and a server of any kind, whatever the probes asked for                 *)
(* (monitoring/probes.py:91).  It says nothing of a state: it is evaluated *)
(* in the first.                                                           *)
OneFailureOneGap == Init => \A name \in Names, s \in Situations({}) : OneGap(name, s)

=============================================================================
