-------------------------------- MODULE Records --------------------------------
(***************************************************************************)
(* The two tables of SQLite that keep their latest records and no others:  *)
(* action_logs, the notifications (notification.py), and metrics, the      *)
(* history of the dashboard (plugins/dashboard/db.py).  A record is purged *)
(* if its time is not among the times of the `limit` latest records.       *)
(***************************************************************************)
EXTENDS Integers, FiniteSets

LaterThan(time, records) == {other \in records : other.time > time}

(* DELETE ... WHERE time NOT IN (SELECT time ... ORDER BY time DESC LIMIT  *)
(* limit): records of one time stay or go together.                        *)
Newest(records, limit) ==
    {record \in records : Cardinality(LaterThan(record.time, records)) < limit}

(* One transaction adds a record and purges the table. *)
Added(records, record, limit) == Newest(records \cup {record}, limit)

(* The latest record, or one of them. *)
Latest(records) == CHOOSE record \in records : LaterThan(record.time, records) = {}

================================================================================
