-------------------------------- MODULE Probes --------------------------------
(***************************************************************************)
(* What a collect makes of its probes (plugins/monitoring/probes.py): each *)
(* is checked against the host or the server, run, and its rows added to   *)
(* the output; what happens when one fails depends on its kind.  Which     *)
(* rows a query returns is left out: a probe has some or none.  What the   *)
(* differential probes count is in Measures.                               *)
(***************************************************************************)
EXTENDS Integers, Sequences

(* on: the servers it is for; catches: an error of a query of its own is   *)
(* logged and gives no rows; differential: it has none the first time, or  *)
(* none the first time unless it is run for an HTTP client.                *)
Host(name, differential) ==
    [name |-> name, level |-> "host", min_version |-> 0, on |-> {"primary", "standby"},
     catches |-> FALSE, differential |-> differential]
Sql(name, level, min_version, differential) ==
    [name |-> name, level |-> level, min_version |-> min_version,
     on |-> {"primary", "standby"}, catches |-> TRUE, differential |-> differential]
OnlyOn(role, probe) == [probe EXCEPT !.on = {role}]

probe_sessions == Sql("sessions", "instance", 0, "no")
probe_xacts == Sql("xacts", "instance", 70400, "columns")
probe_locks == Sql("locks", "instance", 0, "no")
probe_blocks == Sql("blocks", "instance", 0, "columns")
probe_bgwriter == Sql("bgwriter", "instance", 80300, "columns")
probe_db_size == Sql("db_size", "instance", 0, "no")
probe_tblspc_size == Sql("tblspc_size", "instance", 0, "no")
probe_filesystems_size == Host("filesystems_size", "no")
probe_cpu == Host("cpu", "always")
probe_process == Host("process", "always")
probe_memory == Host("memory", "no")
probe_loadavg == Host("loadavg", "no")
(* It takes the first row of each of its queries, be there one or not, and *)
(* computes its delta itself. *)
probe_wal_files ==
    OnlyOn("primary", [Sql("wal_files", "instance", 80200, "always") EXCEPT !.catches = FALSE])
probe_replication_lag == OnlyOn("standby", Sql("replication_lag", "instance", 90000, "no"))
probe_temp_files_size_delta == Sql("temp_files_size_delta", "instance", 0, "columns")
(* 96000, not 90600: never on a server of version 9.6. *)
probe_replication_connection ==
    OnlyOn("standby", Sql("replication_connection", "instance", 96000, "no"))
probe_heap_bloat == Sql("heap_bloat", "database", 0, "no")
probe_btree_bloat == Sql("btree_bloat", "database", 0, "no")

AllProbes ==
    <<probe_sessions, probe_xacts, probe_locks, probe_blocks, probe_bgwriter, probe_db_size,
      probe_tblspc_size, probe_filesystems_size, probe_cpu, probe_process, probe_memory,
      probe_loadavg, probe_wal_files, probe_replication_lag, probe_temp_files_size_delta,
      probe_replication_connection, probe_heap_bloat, probe_btree_bloat>>

(* The names asked for, or all. *)
load_probes(options) ==
    LET probes[k \in 0 .. Len(AllProbes)] ==
            IF k = 0 THEN <<>>
            ELSE IF "*" \in options \/ AllProbes[k].name \in options
                 THEN Append(probes[k - 1], AllProbes[k]) ELSE probes[k - 1] IN
    probes[Len(AllProbes)]

-----------------------------------------------------------------------------
(* A situation s: the host, the server as instance_info has found it, the  *)
(* databases that refuse a connection, the probes that fail, whether this  *)
(* is the first collect, and whether it is one (delta) or an HTTP client's.*)
MainDatabase == "postgres"

HostProbe_check(s) == s.linux
SqlProbe_check(p, s) == s.available /\ p.min_version <= s.version
check(p, s) == IF p.level = "host" THEN HostProbe_check(s) ELSE SqlProbe_check(p, s)

(* The databases named in the configuration, if there are such ones. *)
dbnames(p, s) ==
    IF p.level # "database" THEN {MainDatabase}
    ELSE IF "*" \in s.configured THEN s.databases ELSE s.configured \cap s.databases

(* Probe.delta returns no interval the first time; run_probes takes the    *)
(* columns to compare away from a probe run for an HTTP client.            *)
HasRows(p, s) ==
    ~(s.first /\ (p.differential = "always" \/ (p.differential = "columns" /\ s.delta)))

Role(s) == IF s.standby THEN "standby" ELSE "primary"

(* Does p.run raise? *)
Raises(p, s) ==
    IF p.level = "host" THEN p.name \in s.failing
    ELSE \/ dbnames(p, s) \cap s.refusing # {}
         \/ ~p.catches /\ Role(s) \in p.on /\ dbnames(p, s) # {} /\ p.name \in s.failing

(* Does it return rows, if it does not raise? *)
Probe_run(p, s) ==
    /\ p.level = "host" \/ (Role(s) \in p.on /\ dbnames(p, s) # {})
    /\ p.name \notin s.failing /\ HasRows(p, s)

Entry(p, s) == [name |-> p.name, rows |-> Probe_run(p, s)]

(* Bug variant: an error of any probe ends the collect. *)
AfterProbe_raises(done, p, s) ==
    IF done.lost \/ ~check(p, s) THEN done
    ELSE IF Raises(p, s) THEN [lost |-> TRUE, output |-> {}]
    ELSE [done EXCEPT !.output = @ \cup {Entry(p, s)}]

(* One turn of the loop: a host probe that fails is left out, any other    *)
(* that raises ends the collect, and what the output was is lost.          *)
AfterProbe(done, p, s) ==
    IF done.lost \/ ~check(p, s) \/ (p.level = "host" /\ Raises(p, s)) THEN done
    ELSE IF Raises(p, s) THEN [lost |-> TRUE, output |-> {}]
    ELSE [done EXCEPT !.output = @ \cup {Entry(p, s)}]

(* The date of the output is asked from the server first. *)
run_probes(probes, s) ==
    LET after[k \in 0 .. Len(probes)] ==
            IF k = 0 THEN [lost |-> MainDatabase \in s.refusing, output |-> {}]
            ELSE AfterProbe(after[k - 1], probes[k], s) IN
    after[Len(probes)]

-----------------------------------------------------------------------------
Names == {AllProbes[k].name : k \in DOMAIN AllProbes}

Situations(failing) ==
    [linux : BOOLEAN, available : BOOLEAN, version : {90100, 90600, 120000}, standby : BOOLEAN,
     databases : {{MainDatabase, "d"}}, configured : {{"*"}, {"d", "gone"}},
     refusing : {{}, {"d"}}, failing : {failing}, first : BOOLEAN, delta : BOOLEAN]

Others(done, name) == {entry \in done.output : entry.name # name}

(* The probe of that name, failing, takes away its own values and no       *)
(* other's; only a database that refuses the connection, or the WAL probe  *)
(* of a primary, loses a whole collect.                                    *)
OneGap(name, s) ==
    LET all == run_probes(load_probes({"*"}), s)
        failed == run_probes(load_probes({"*"}), [s EXCEPT !.failing = {name}])
        alone == run_probes(load_probes({name}), s) IN
    /\ all.lost => s.available /\ s.refusing # {}
    /\ IF name = "wal_files" /\ s.available /\ ~s.standby
       THEN failed.lost
       ELSE failed.lost = all.lost /\ Others(failed, name) = Others(all, name)
    /\ ~all.lost => alone.output = all.output \ Others(all, name)

================================================================================
