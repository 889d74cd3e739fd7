------------------------------ MODULE MCControl -------------------------------
(***************************************************************************)
(* The instance of Control that is checked, with the lists of backends of  *)
(* Processes, from which clients take the pids to terminate.               *)
(***************************************************************************)
EXTENDS Control, Processes

(* A backend that lives through a listing is shown with its own numbers,   *)
(* one that ends meanwhile without rates, and what is listed as blocking   *)
(* is what has to be terminated (activity/process.py:165).  It says        *)
(* nothing of a state: it is evaluated in the first.                       *)
ListingRight ==
    Init => /\ \A life \in Lives, foreign \in BOOLEAN : RowRight(life, foreign)
            /\ \A locks \in SUBSET Lock : KillingFrees(locks)

===============================================================================
