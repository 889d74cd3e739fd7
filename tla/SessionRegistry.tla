--------------------------- MODULE SessionRegistry ---------------------------
(***************************************************************************)
(* What the session table of the agent promises whatever the interleaving  *)
(* of its threads: a session identifier is drawn for one user, becomes     *)
(* usable at most once, and never becomes usable again once it has ended.  *)
(* Nothing is said of when a session ends: that is what the races of the   *)
(* implementation leave open.  The identifiers live their lives side by    *)
(* side: one step may open a session and end others.                       *)
(***************************************************************************)

CONSTANTS
    Sids,       \* session identifiers
    Users,      \* usernames
    NoUser      \* the owner of an identifier not yet drawn

VARIABLES
    owner,      \* owner[s]: the user s was drawn for
    status      \* status[s]: how far the life of s has gone

vars == <<owner, status>>

TypeOK ==
    /\ owner \in [Sids -> Users \cup {NoUser}]
    /\ status \in [Sids -> {"new", "pending", "live", "ended"}]

Init ==
    /\ owner = [s \in Sids |-> NoUser]
    /\ status = [s \in Sids |-> "new"]

(* A login draws the identifier for its user ... *)
Draw(s) == status[s] = "new" /\ status'[s] = "pending" /\ owner'[s] \in Users

(* ... and makes it usable, ... *)
Open(s) == status[s] = "pending" /\ status'[s] = "live" /\ owner'[s] = owner[s]

(* ... unless it finds no room for it.  A usable session ends by a logout, *)
(* a purge, a later login of its user, or a slot that is overwritten.      *)
End(s) == status[s] \in {"pending", "live"} /\ status'[s] = "ended" /\ owner'[s] = owner[s]

Rest(s) == status'[s] = status[s] /\ owner'[s] = owner[s]

Next ==
    /\ TypeOK'
    /\ \A s \in Sids : Rest(s) \/ Draw(s) \/ Open(s) \/ End(s)

Spec == Init /\ [][Next]_vars

=============================================================================
