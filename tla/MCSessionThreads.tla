--------------------------- MODULE MCSessionThreads ---------------------------
(***************************************************************************)
(* Small instances of SessionThreads.  Threads, identifiers and users are  *)
(* interchangeable, which the safety runs exploit.                         *)
(***************************************************************************)
EXTENDS SessionThreads, TLC

Symmetry == Permutations(Threads) \cup Permutations(Sids) \cup Permutations(Users)

=============================================================================
