--------------------------------- MODULE Agents ---------------------------------
(***************************************************************************)
(* The processes of the agent on one host, from their start to their end:  *)
(* what main() does in order (scripts/agent.py), the pidfile that is to    *)
(* keep a second daemon out (daemon.py), the database of the dashboard     *)
(* that a start with this plugin creates anew (plugins/dashboard), the     *)
(* port that one process gets, and tools that bootstrap the same plugins   *)
(* without looking at the pidfile: an agent in the foreground, runtask.    *)
(* The process that serves routes its requests as Routing says.            *)
(***************************************************************************)
EXTENDS Routing, Records

CONSTANTS
    Daemons,        \* agents configured to daemonize
    Tools,          \* an agent in the foreground, or a task of runtask
    HistoryLength,  \* records of the dashboard (150 by default)
    Times,          \* times of the clock
    MaxEvents,      \* bound: events from outside, as Event counts them
    Nobody

ASSUME ProcessAssumption ==
    /\ Nobody \notin Daemons \cup Tools /\ Daemons \cap Tools = {}
    /\ {"absent", "nul"} \cap (Daemons \cup Tools) = {}
ASSUME HistoryAssumption == HistoryLength \in Nat \ {0} /\ Times \subseteq Int

VARIABLES
    pc,         \* pc[a]: what process a does next
    conf,       \* conf[a]: the plugins it was started with
    pidfile,    \* "absent", "nul" or the process it names
    port,       \* the process that listens
    table,      \* the table metrics exists
    metrics,    \* its records
    now,        \* the clock
    events,     \* history: the events so far
    since,      \* history: since[a]: the records stored since the start of a dropped the table
    strange     \* history: what happened that spoils things, see Strange

agentVars == <<pc, conf, pidfile, port, table, metrics, now, events, since, strange>>
vars == <<agentVars, routingVars>>

Processes == Daemons \cup Tools

(* raced: two daemons have started at once; tooled: a tool has created the *)
(* table anew; setback: the clock went back.                               *)
Strange == {"raced", "tooled", "setback"}

Goes(a, step) == pc' = [pc EXCEPT ![a] = step]
Event == events < MaxEvents /\ events' = events + 1

Init ==
    /\ pc = [a \in Processes |-> "off"] /\ conf = [a \in Processes |-> <<>>]
    /\ pidfile = "absent" /\ port = Nobody
    /\ table = FALSE /\ metrics = {}
    /\ now \in Times
    /\ events = 0 /\ since = [a \in Processes |-> {}] /\ strange = {}
    /\ RoutingInit

(* The plugins that are bootstrapped are those of the start: a reload that *)
(* loads the dashboard does not create its table.                          *)
Bootstraps(order) == "dashboard" \in ToSet(order)

AfterPidfile(order) == IF Bootstraps(order) THEN "drop" ELSE "bind"

-----------------------------------------------------------------------------
(* A process is started, with what its configuration names by now: a       *)
(* daemon turns to its pidfile, a tool to the plugins.                     *)
start(a, order) ==
    /\ pc[a] = "off" /\ Event
    /\ conf' = [conf EXCEPT ![a] = order]
    /\ Goes(a, IF a \in Daemons THEN "read" ELSE AfterPidfile(order))
    /\ UNCHANGED <<pidfile, port, table, metrics, now, since, strange, routingVars>>

(* The process ends. *)
Off(a) ==
    /\ Goes(a, "off")
    /\ conf' = [conf EXCEPT ![a] = <<>>] /\ since' = [since EXCEPT ![a] = {}]

Starting(d) == pc[d] \in {"mark", "write"}

(* Bug variant: the pidfile is not looked into. *)
read_pidfile_blind(a) ==
    /\ pc[a] = "read" /\ Goes(a, "mark")
    /\ strange' = IF \E b \in Daemons \ {a} : Starting(b) THEN strange \cup {"raced"} ELSE strange
    /\ UNCHANGED <<conf, pidfile, port, table, metrics, now, events, since, routingVars>>

(* daemonize: a file that holds a number refuses the start, one that holds *)
(* the mark does not.                                                      *)
read_pidfile(a) ==
    /\ pc[a] = "read"
    /\ IF pidfile \in Processes
       THEN Off(a) /\ UNCHANGED strange
       ELSE /\ Goes(a, "mark")
            /\ strange' = IF \E b \in Daemons \ {a} : Starting(b)
                          THEN strange \cup {"raced"} ELSE strange
            /\ UNCHANGED <<conf, since>>
    /\ UNCHANGED <<pidfile, port, table, metrics, now, events, routingVars>>

mark(a) ==
    /\ pc[a] = "mark" /\ Goes(a, "write")
    /\ pidfile' = "nul"
    /\ UNCHANGED <<conf, port, table, metrics, now, events, since, strange, routingVars>>

(* The two forks are between the mark and the number. *)
write_pidfile(a) ==
    /\ pc[a] = "write" /\ Goes(a, AfterPidfile(conf[a]))
    /\ pidfile' = a
    /\ UNCHANGED <<conf, port, table, metrics, now, events, since, strange, routingVars>>

-----------------------------------------------------------------------------
Tooled(a) == strange' = IF a \in Tools THEN strange \cup {"tooled"} ELSE strange

(* Bug variant: the table is kept from one start to the next. *)
bootstrap_drop_keeps(a) ==
    /\ pc[a] = "drop" /\ Goes(a, "create")
    /\ table' = FALSE /\ since' = [since EXCEPT ![a] = {}]
    /\ Tooled(a)
    /\ UNCHANGED <<conf, metrics, pidfile, port, now, events, routingVars>>

(* DROP TABLE and CREATE TABLE are a transaction each. *)
bootstrap_drop(a) ==
    /\ pc[a] = "drop" /\ Goes(a, "create")
    /\ table' = FALSE /\ metrics' = {} /\ since' = [since EXCEPT ![a] = {}]
    /\ Tooled(a)
    /\ UNCHANGED <<conf, pidfile, port, now, events, routingVars>>

(* remove_pidfile, at the exit of a daemon that has written its number:    *)
(* whatever the file holds.                                                *)
remove_pidfile(a) == pidfile' = IF a \in Daemons THEN "absent" ELSE pidfile

(* Another process may have created the table in the meantime: the start   *)
(* ends with the error.                                                    *)
bootstrap_create(a) ==
    /\ pc[a] = "create"
    /\ IF table THEN Off(a) /\ remove_pidfile(a) /\ UNCHANGED table
       ELSE Goes(a, "bind") /\ table' = TRUE /\ UNCHANGED <<conf, since, pidfile>>
    /\ UNCHANGED <<port, metrics, now, events, strange, routingVars>>

(* Bug variant: a port that is taken is shared. *)
bind_shared(a) ==
    /\ pc[a] = "bind" /\ Goes(a, "serve") /\ port' = a
    /\ RoutingStarts(conf[a])
    /\ UNCHANGED <<conf, pidfile, table, metrics, now, events, since, strange>>

(* HTTPDService.setup: the port is free, or the process ends. *)
bind(a) ==
    /\ pc[a] = "bind"
    /\ IF port = Nobody
       THEN /\ Goes(a, "serve") /\ port' = a
            /\ RoutingStarts(conf[a])
            /\ UNCHANGED <<conf, since, pidfile>>
       ELSE Off(a) /\ remove_pidfile(a) /\ UNCHANGED <<port, routingVars>>
    /\ UNCHANGED <<table, metrics, now, events, strange>>

(* runtask does not serve: it runs its task and ends. *)
run_task(a) ==
    /\ pc[a] = "bind" /\ a \in Tools /\ Off(a)
    /\ UNCHANGED <<pidfile, port, table, metrics, now, events, strange, routingVars>>

Ends(a) ==
    /\ Off(a)
    /\ IF port = a THEN port' = Nobody /\ RoutingEnds ELSE UNCHANGED <<port, routingVars>>

(* An agent that serves is stopped. *)
stop(a) ==
    /\ pc[a] = "serve" /\ Event
    /\ Ends(a) /\ remove_pidfile(a)
    /\ UNCHANGED <<table, metrics, now, strange>>

(* A process is killed at any moment, or fails to fork: its pidfile stays. *)
killed(a) ==
    /\ pc[a] # "off" /\ Event
    /\ Ends(a)
    /\ UNCHANGED <<pidfile, table, metrics, now, strange>>

(* Somebody removes the pidfile of an agent that is no more. *)
Cleaned ==
    /\ pidfile \in Processes /\ pc[pidfile] = "off" /\ Event
    /\ pidfile' = "absent"
    /\ UNCHANGED <<pc, conf, port, table, metrics, now, since, strange, routingVars>>

-----------------------------------------------------------------------------
add_metric(time) == Added(metrics, [time |-> time], HistoryLength)

(* The collector runs from the start of the services on, which is before   *)
(* the port is taken, and only where the dashboard is loaded; it may also  *)
(* be what runtask is asked to run.                                        *)
Collects(a) ==
    \/ pc[a] = "bind" /\ Bootstraps(conf[a])
    \/ pc[a] = "serve" /\ "dashboard" \in plugins

(* The record has the time it is stored at, which is the key; no table, or *)
(* a record of that time, and the worker fails.                            *)
dashboard_collector_worker(a) ==
    /\ Collects(a) /\ Event
    /\ IF table /\ [time |-> now] \notin metrics
       THEN /\ metrics' = add_metric(now)
            /\ since' = [b \in Processes |->
                            IF Bootstraps(conf[b]) /\ pc[b] \in {"create", "bind", "serve"}
                            THEN since[b] \cup {[time |-> now]} ELSE since[b]]
       ELSE UNCHANGED <<metrics, since>>
    /\ UNCHANGED <<pc, conf, pidfile, port, table, now, strange, routingVars>>

SetClock ==
    /\ now' \in Times \ {now}
    /\ strange' = IF now' < now THEN strange \cup {"setback"} ELSE strange
    /\ UNCHANGED <<pc, conf, pidfile, port, table, metrics, events, since, routingVars>>

-----------------------------------------------------------------------------
(* The process that serves routes requests, and applies its configuration  *)
(* at a reload.                                                            *)
Routes ==
    /\ port # Nobody
    /\ \/ /\ Apply \/ \E t \in Requesters : Serve(t)
          /\ UNCHANGED agentVars
       \/ /\ \/ \E new \in SUBSET Plugins \ {plugins} : reload(new)
             \/ \E t \in Requesters, request \in Requests : get_route(t, request)
          /\ Event
          /\ UNCHANGED <<pc, conf, pidfile, port, table, metrics, now, since, strange>>

Next ==
    \/ \E a \in Processes :
          \/ \E order \in Configurations : start(a, order)
          \/ read_pidfile(a) \/ mark(a) \/ write_pidfile(a)
          \/ bootstrap_drop(a) \/ bootstrap_create(a) \/ bind(a) \/ run_task(a)
          \/ stop(a) \/ killed(a) \/ dashboard_collector_worker(a)
    \/ Cleaned
    \/ SetClock
    \/ Routes

Spec == Init /\ [][Next]_vars

-----------------------------------------------------------------------------
(* Processes, files and routes have their values; the port and the process *)
(* that serves belong together.                                            *)
TypeOK ==
    /\ pc \in [Processes -> {"off", "read", "mark", "write", "drop", "create", "bind", "serve"}]
    /\ conf \in [Processes -> Configurations \cup {<<>>}]
    /\ pidfile \in Processes \cup {"absent", "nul"}
    /\ \A a \in Processes : pc[a] = "serve" <=> port = a
    /\ table \in BOOLEAN /\ metrics \subseteq [time : Times]
    /\ now \in Times
    /\ strange \subseteq Strange
    /\ RoutingTyped

(* Unless two daemons have started at once, the pidfile names the daemon   *)
(* that is past it, until the end of that daemon: no other gets as far as  *)
(* the database, and none that ends takes the file of another with it      *)
(* (daemon.py:10-37).                                                      *)
PidfileTells ==
    "raced" \notin strange =>
        \A d \in Daemons : pc[d] \in {"drop", "create", "bind", "serve"} => pidfile = d

(* The history of the dashboard "should not contain old data", "that's why *)
(* the table is dropped and recreated when the agent starts", and acts "as *)
(* a FIFO queue" (plugins/dashboard/db.py:13-18).  While an agent serves   *)
(* that was started with the dashboard, and whatever other processes have  *)
(* come, gone or been killed at any step: each of its records was stored   *)
(* after the table was dropped by that start; and it is the last of these  *)
(* records, none lost.  Excepted are                                       *)
(* - from both, an agent that loads the dashboard by a reload, which finds *)
(*   what an earlier one has left, or no table;                            *)
(* - from the second, a tool or a daemon that starts at the same time and  *)
(*   drops the table too, and a clock that was set back, after which what  *)
(*   has just been stored is purged first.                                 *)
HistoryKept ==
    port # Nobody /\ Bootstraps(conf[port]) =>
        /\ metrics \subseteq since[port]
        /\ strange = {} => table /\ metrics = Newest(since[port], HistoryLength)

================================================================================
