----------------------------- MODULE OperationLife -----------------------------
(***************************************************************************)
(* What a client may expect of the maintenance operations it schedules,    *)
(* and all of it: an operation waits, begins at most once, and ends; it is *)
(* done only if its statement has completed since it began; once it is     *)
(* done or stopped, cancelled or not, it does not begin again.  That a     *)
(* cancellation answered "ok" has stopped anything is not among it.        *)
(***************************************************************************)
CONSTANTS Ids

VARIABLES
    life,       \* life[id]: none, waiting, running, done or stopped
    completed   \* the operations whose statement has completed

lifeVars == <<life, completed>>

Init ==
    /\ life = [id \in Ids |-> "none"]
    /\ completed = {}

Schedule(id) ==
    /\ life[id] = "none"
    /\ life' = [life EXCEPT ![id] = "waiting"]
    /\ completed' = completed \ {id}

Begin(id) ==
    /\ life[id] = "waiting"
    /\ life' = [life EXCEPT ![id] = "running"]
    /\ UNCHANGED completed

(* On the server: even after the operation was stopped. *)
Complete(id) ==
    /\ life[id] \in {"running", "stopped"}
    /\ completed' = completed \cup {id}
    /\ UNCHANGED life

(* Done, failed, cancelled while it waited, or aborted. *)
End(id) ==
    /\ \/ life[id] = "running" /\ id \in completed /\ life' = [life EXCEPT ![id] = "done"]
       \/ life[id] \in {"waiting", "running"} /\ life' = [life EXCEPT ![id] = "stopped"]
    /\ UNCHANGED completed

Forget(id) ==
    /\ life[id] \in {"done", "stopped"}
    /\ life' = [life EXCEPT ![id] = "none"]
    /\ completed' = completed \ {id}

(* The agent stops: what ran is over. *)
Interrupt ==
    /\ life' = [id \in Ids |-> IF life[id] = "running" THEN "stopped" ELSE life[id]]
    /\ UNCHANGED completed

Operate(id) == Schedule(id) \/ Begin(id) \/ Complete(id) \/ End(id) \/ Forget(id)

Next == (\E id \in Ids : Operate(id)) \/ Interrupt

Spec == Init /\ [][Next]_lifeVars /\ \A id \in Ids : WF_lifeVars(Begin(id) \/ End(id))

================================================================================
