----------------------------- MODULE AgentsProofs -----------------------------
(***************************************************************************)
(* The agents of a host, however many daemons and tools there are: what    *)
(* the pidfile tells, what the history of the dashboard keeps from one     *)
(* start to the next, and what the requests meet in the list of routes.    *)
(***************************************************************************)
EXTENDS Agents, RecordsProofs, RoutingProofs

Steps == {"off", "read", "mark", "write", "drop", "create", "bind", "serve"}

(* The processes, the file and the table have their values.                *)
Typed ==
    /\ pc \in [Processes -> Steps]
    /\ conf \in [Processes -> Configurations \cup {<<>>}]
    /\ pidfile \in Processes \cup {"absent", "nul"}
    /\ port \in Processes \cup {Nobody}
    /\ \A a \in Processes : pc[a] = "serve" <=> port = a
    /\ metrics \subseteq [time : Times]
    /\ now \in Times
    /\ strange \subseteq Strange

TableTyped == table \in BOOLEAN

SinceTyped ==
    /\ since \in [Processes -> SUBSET [time : Times]]
    /\ \A a \in Processes : IsFiniteSet(since[a])

(* Tools are never at the pidfile, and have dropped the table when they    *)
(* are past the bootstrap of the dashboard.                                *)
ToolOK ==
    \A t \in Tools :
        /\ pc[t] \notin {"read", "mark", "write"}
        /\ pc[t] = "create" => "tooled" \in strange
        /\ pc[t] \in {"bind", "serve"} /\ Bootstraps(conf[t]) => "tooled" \in strange

(* Daemons that have not raced: one at most is at the pidfile, and none is *)
(* past it at that time; the one that is past it has its name there.       *)
Before == {"mark", "write"}
Past == {"drop", "create", "bind", "serve"}

PidOK ==
    "raced" \notin strange =>
        /\ \A d \in Daemons : pc[d] \in Past => pidfile = d
        /\ \A d \in Daemons : pc[d] \in Before => pidfile \notin Processes
        /\ \A d, e \in Daemons : pc[d] \in Before /\ pc[e] \in Before => d = e

(* A process that has dropped the table. *)
Dropped == {a \in Processes : pc[a] \in {"create", "bind", "serve"} /\ Bootstraps(conf[a])}

FreshOK == \A a \in Dropped : metrics \subseteq since[a]

KeptOK ==
    strange = {} =>
        \A d \in Dropped : /\ d \in Daemons
                           /\ metrics = Newest(since[d], HistoryLength)
                           /\ pc[d] # "create" => table

IInv ==
    /\ Typed /\ TableTyped /\ SinceTyped /\ ToolOK /\ PidOK /\ FreshOK /\ KeptOK
    /\ RoutingInv

-----------------------------------------------------------------------------
LEMMA Values ==
  /\ Nobody \notin Processes /\ "absent" \notin Processes /\ "nul" \notin Processes
  /\ Daemons \subseteq Processes /\ Tools \subseteq Processes
  /\ \A a \in Processes : a \in Daemons \/ a \in Tools
  /\ \A a \in Daemons : a \notin Tools
BY ProcessAssumption DEF Processes

LEMMA NewestIs ==
  ASSUME NEW records, NEW limit
  PROVE  Newest(records, limit) \subseteq records
BY DEF Newest

LEMMA InitHolds == Init => IInv
<1> SUFFICES ASSUME Init PROVE IInv
  OBVIOUS
<1>1. Typed /\ SinceTyped /\ ToolOK /\ PidOK /\ FreshOK /\ KeptOK
  BY Values, FS_EmptySet
  DEF Init, Typed, Steps, ToolOK, PidOK, Past, Before, SinceTyped, FreshOK, KeptOK, Dropped
<1>2. TableTyped
  BY DEF Init, TableTyped
<1>3. RoutingInv
  BY RoutingInitHolds DEF Init
<1>4. QED
  BY <1>1, <1>2, <1>3 DEF IInv

(* The requests leave the processes and the table alone. *)
LEMMA RoutesLeaves ==
  ASSUME Routes
  PROVE  UNCHANGED <<pc, conf, pidfile, port, table, metrics, now, since, strange>>
BY DEF Routes, agentVars

-----------------------------------------------------------------------------
LEMMA TypedStep ==
  ASSUME Typed, [Next]_vars
  PROVE  Typed'
<1> USE Values DEF Typed
<1>1. ASSUME NEW a \in Processes, NEW order \in Configurations, start(a, order) PROVE Typed'
  BY <1>1 DEF start, Goes, Steps, AfterPidfile
<1>2. ASSUME NEW a \in Processes, read_pidfile(a) PROVE Typed'
  BY <1>2 DEF read_pidfile, Goes, Off, Steps, Strange
<1>3. ASSUME NEW a \in Processes, mark(a) PROVE Typed'
  BY <1>3 DEF mark, Goes, Steps
<1>4. ASSUME NEW a \in Processes, write_pidfile(a) PROVE Typed'
  BY <1>4 DEF write_pidfile, Goes, Steps, AfterPidfile
<1>5. ASSUME NEW a \in Processes, bootstrap_drop(a) PROVE Typed'
  BY <1>5 DEF bootstrap_drop, Goes, Steps, Strange, Tooled
<1>6. ASSUME NEW a \in Processes, bootstrap_create(a) PROVE Typed'
  BY <1>6 DEF bootstrap_create, Goes, Off, Steps, remove_pidfile
<1>7. ASSUME NEW a \in Processes, bind(a) PROVE Typed'
  BY <1>7 DEF bind, Goes, Off, Steps, remove_pidfile
<1>8. ASSUME NEW a \in Processes, run_task(a) PROVE Typed'
  BY <1>8 DEF run_task, Goes, Off, Steps
<1>9. ASSUME NEW a \in Processes, stop(a) PROVE Typed'
  BY <1>9 DEF stop, Ends, Goes, Off, Steps, remove_pidfile
<1>10. ASSUME NEW a \in Processes, killed(a) PROVE Typed'
  BY <1>10 DEF killed, Ends, Goes, Off, Steps
<1>11. ASSUME Cleaned PROVE Typed'
  BY <1>11 DEF Cleaned
<1>12. ASSUME NEW a \in Processes, dashboard_collector_worker(a) PROVE Typed'
  <2>1. metrics' \subseteq metrics \cup {[time |-> now]}
    BY <1>12, NewestIs DEF dashboard_collector_worker, add_metric, Added
  <2>2. QED
    BY <1>12, <2>1 DEF dashboard_collector_worker
<1>13. ASSUME SetClock PROVE Typed'
  BY <1>13 DEF SetClock, Strange
<1>14. ASSUME UNCHANGED agentVars PROVE Typed'
  BY <1>14 DEF agentVars
<1>15. ASSUME Routes PROVE Typed'
  BY <1>15, RoutesLeaves
<1>16. QED
  BY <1>1, <1>2, <1>3, <1>4, <1>5, <1>6, <1>7, <1>8, <1>9, <1>10, <1>11, <1>12, <1>13, <1>14,
     <1>15 DEF Next, vars

LEMMA TableTypedStep ==
  ASSUME TableTyped, [Next]_vars
  PROVE  TableTyped'
<1>1. ASSUME NEW a \in Processes,
             \/ (\E order \in Configurations : start(a, order)) \/ read_pidfile(a) \/ mark(a)
             \/ write_pidfile(a) \/ bind(a) \/ run_task(a) \/ stop(a) \/ killed(a)
             \/ dashboard_collector_worker(a)
      PROVE  table' = table
  BY <1>1 DEF start, read_pidfile, mark, write_pidfile, bind, run_task, stop, killed,
              dashboard_collector_worker
<1>2. ASSUME NEW a \in Processes, bootstrap_drop(a) PROVE TableTyped'
  BY <1>2, Zenon DEF bootstrap_drop, TableTyped
<1>3. ASSUME NEW a \in Processes, bootstrap_create(a) PROVE TableTyped'
  BY <1>3, Zenon DEF bootstrap_create, TableTyped
<1>4. ASSUME Cleaned \/ SetClock \/ UNCHANGED agentVars
      PROVE  table' = table
  BY <1>4 DEF Cleaned, SetClock, agentVars
<1>5. ASSUME Routes PROVE table' = table
  BY <1>5, RoutesLeaves
<1>6. ASSUME table' = table PROVE TableTyped'
  BY <1>6, Zenon DEF TableTyped
<1>7. QED
  BY <1>1, <1>2, <1>3, <1>4, <1>5, <1>6 DEF Next, vars

LEMMA ToolStep ==
  ASSUME Typed, ToolOK, [Next]_vars
  PROVE  ToolOK'
<1> USE Values DEF Typed, ToolOK
<1>1. ASSUME NEW a \in Processes, NEW order \in Configurations, start(a, order) PROVE ToolOK'
  BY <1>1 DEF start, Goes, AfterPidfile
<1>2. ASSUME NEW a \in Processes, read_pidfile(a) PROVE ToolOK'
  BY <1>2 DEF read_pidfile, Goes, Off
<1>3. ASSUME NEW a \in Processes, mark(a) PROVE ToolOK'
  BY <1>3 DEF mark, Goes
<1>4. ASSUME NEW a \in Processes, write_pidfile(a) PROVE ToolOK'
  BY <1>4 DEF write_pidfile, Goes, AfterPidfile
<1>5. ASSUME NEW a \in Processes, bootstrap_drop(a) PROVE ToolOK'
  BY <1>5 DEF bootstrap_drop, Goes, Tooled
<1>6. ASSUME NEW a \in Processes, bootstrap_create(a) PROVE ToolOK'
  BY <1>6 DEF bootstrap_create, Goes, Off
<1>7. ASSUME NEW a \in Processes, bind(a) PROVE ToolOK'
  BY <1>7 DEF bind, Goes, Off
<1>8. ASSUME NEW a \in Processes, run_task(a) PROVE ToolOK'
  BY <1>8 DEF run_task, Goes, Off
<1>9. ASSUME NEW a \in Processes, stop(a) PROVE ToolOK'
  BY <1>9 DEF stop, Ends, Goes, Off
<1>10. ASSUME NEW a \in Processes, killed(a) PROVE ToolOK'
  BY <1>10 DEF killed, Ends, Goes, Off
<1>11. ASSUME Cleaned \/ (\E a \in Processes : dashboard_collector_worker(a))
              \/ UNCHANGED agentVars
       PROVE  ToolOK'
  BY <1>11 DEF Cleaned, dashboard_collector_worker, agentVars
<1>12. ASSUME SetClock PROVE ToolOK'
  BY <1>12 DEF SetClock
<1>13. ASSUME Routes PROVE ToolOK'
  BY <1>13, RoutesLeaves
<1>14. QED
  BY <1>1, <1>2, <1>3, <1>4, <1>5, <1>6, <1>7, <1>8, <1>9, <1>10, <1>11, <1>12, <1>13
  DEF Next, vars

-----------------------------------------------------------------------------
(* A daemon is past the pidfile only with its own name there: what is      *)
(* removed at its end is its own.                                          *)
LEMMA PidStep ==
  ASSUME Typed, ToolOK, PidOK, [Next]_vars
  PROVE  PidOK'
<1> USE Values DEF Typed, PidOK, Past, Before
<1>1. ASSUME NEW a \in Processes, NEW order \in Configurations, start(a, order) PROVE PidOK'
  BY <1>1 DEF start, Goes, AfterPidfile
<1>2. ASSUME NEW a \in Processes, read_pidfile(a) PROVE PidOK'
  <2>1. a \in Daemons
    BY <1>2 DEF read_pidfile, ToolOK
  <2>2. CASE pidfile \in Processes
    BY <1>2, <2>2 DEF read_pidfile, Goes, Off
  <2>3. CASE pidfile \notin Processes /\ \E b \in Daemons \ {a} : pc[b] \in Before
    BY <1>2, <2>3 DEF read_pidfile, Starting
  <2>4. CASE pidfile \notin Processes /\ ~ \E b \in Daemons \ {a} : pc[b] \in Before
    BY <1>2, <2>1, <2>4 DEF read_pidfile, Goes, Starting
  <2>5. QED
    BY <2>2, <2>3, <2>4
<1>3. ASSUME NEW a \in Processes, mark(a) PROVE PidOK'
  <2>1. a \in Daemons
    BY <1>3 DEF mark, ToolOK
  <2>2. QED
    BY <1>3, <2>1 DEF mark, Goes
<1>4. ASSUME NEW a \in Processes, write_pidfile(a) PROVE PidOK'
  <2>1. a \in Daemons
    BY <1>4 DEF write_pidfile, ToolOK
  <2>2. QED
    BY <1>4, <2>1 DEF write_pidfile, Goes, AfterPidfile
<1>5. ASSUME NEW a \in Processes, bootstrap_drop(a) PROVE PidOK'
  BY <1>5 DEF bootstrap_drop, Goes, Tooled
<1>6. ASSUME NEW a \in Processes, bootstrap_create(a) PROVE PidOK'
  BY <1>6 DEF bootstrap_create, Goes, Off, remove_pidfile
<1>7. ASSUME NEW a \in Processes, bind(a) PROVE PidOK'
  BY <1>7 DEF bind, Goes, Off, remove_pidfile
<1>8. ASSUME NEW a \in Processes, run_task(a) PROVE PidOK'
  BY <1>8 DEF run_task, Goes, Off
<1>9. ASSUME NEW a \in Processes, stop(a) PROVE PidOK'
  BY <1>9 DEF stop, Ends, Goes, Off, remove_pidfile
<1>10. ASSUME NEW a \in Processes, killed(a) PROVE PidOK'
  BY <1>10 DEF killed, Ends, Goes, Off
<1>11. ASSUME Cleaned PROVE PidOK'
  BY <1>11 DEF Cleaned
<1>12. ASSUME (\E a \in Processes : dashboard_collector_worker(a)) \/ UNCHANGED agentVars
       PROVE  PidOK'
  BY <1>12 DEF dashboard_collector_worker, agentVars
<1>13. ASSUME SetClock PROVE PidOK'
  BY <1>13 DEF SetClock
<1>14. ASSUME Routes PROVE PidOK'
  BY <1>14, RoutesLeaves
<1>15. QED
  BY <1>1, <1>2, <1>3, <1>4, <1>5, <1>6, <1>7, <1>8, <1>9, <1>10, <1>11, <1>12, <1>13, <1>14
  DEF Next, vars

-----------------------------------------------------------------------------
(* A step of one process that stores nothing: what the others have dropped *)
(* and what was stored since stay.                                         *)
Quiet(a) ==
    \/ (\E order \in Configurations : start(a, order)) \/ read_pidfile(a) \/ mark(a)
    \/ write_pidfile(a) \/ bootstrap_create(a) \/ bind(a) \/ run_task(a) \/ stop(a) \/ killed(a)

LEMMA QuietLeaves ==
  ASSUME Typed, SinceTyped, NEW a \in Processes, Quiet(a)
  PROVE  /\ metrics' = metrics /\ strange \subseteq strange' /\ (table => table')
         /\ Dropped' \subseteq Dropped
         /\ \A b \in Dropped' : since'[b] = since[b] /\ (pc'[b] # pc[b] => b = a)
         /\ a \in Dropped' /\ pc[a] = "create" => table'
         /\ a \in Dropped' => pc'[a] # "create"
         /\ since' \in [Processes -> SUBSET [time : Times]]
         /\ \A b \in Processes : since'[b] \in {since[b], {}}
<1> USE DEF Typed, SinceTyped, Dropped, Goes, Off, Bootstraps
<1>1. CASE \E order \in Configurations : start(a, order)
  BY <1>1 DEF start, AfterPidfile
<1>2. CASE read_pidfile(a)
  BY <1>2 DEF read_pidfile
<1>3. CASE mark(a)
  BY <1>3 DEF mark
<1>4. CASE write_pidfile(a)
  BY <1>4 DEF write_pidfile, AfterPidfile
<1>5. CASE bootstrap_create(a)
  <2>1. CASE table
    <3>1. Off(a) /\ UNCHANGED <<table, metrics, strange>>
      BY <1>5, <2>1 DEF bootstrap_create
    <3>2. QED
      BY <2>1, <3>1
  <2>2. CASE ~table
    <3>1. Goes(a, "bind") /\ table' = TRUE /\ UNCHANGED <<conf, since, metrics, strange>>
          /\ pc[a] = "create"
      BY <1>5, <2>2 DEF bootstrap_create
    <3>2. QED
      BY <3>1
  <2>3. QED
    BY <2>1, <2>2
<1>6. CASE bind(a)
  BY <1>6 DEF bind
<1>7. CASE run_task(a)
  BY <1>7 DEF run_task
<1>8. CASE stop(a)
  BY <1>8 DEF stop, Ends
<1>9. CASE killed(a)
  BY <1>9 DEF killed, Ends
<1>10. QED
  BY <1>1, <1>2, <1>3, <1>4, <1>5, <1>6, <1>7, <1>8, <1>9 DEF Quiet

(* Nothing but the clock, the pidfile or the requests changes. *)
LEMMA ElseLeaves ==
  ASSUME Cleaned \/ SetClock \/ Routes \/ UNCHANGED agentVars
  PROVE  UNCHANGED <<pc, conf, table, metrics, since>> /\ strange \subseteq strange'
BY RoutesLeaves DEF Cleaned, SetClock, agentVars

LEMMA StepIs ==
  ASSUME [Next]_vars
  PROVE  \/ \E a \in Processes : Quiet(a)
         \/ \E a \in Processes : bootstrap_drop(a)
         \/ \E a \in Processes : dashboard_collector_worker(a)
         \/ Cleaned \/ SetClock \/ Routes \/ UNCHANGED agentVars
BY DEF Next, Quiet, vars

LEMMA SinceStep ==
  ASSUME Typed, SinceTyped, [Next]_vars
  PROVE  SinceTyped'
<1>1. ASSUME NEW a \in Processes, Quiet(a) PROVE SinceTyped'
  BY <1>1, QuietLeaves, FS_EmptySet DEF SinceTyped
<1>2. ASSUME NEW a \in Processes, bootstrap_drop(a) PROVE SinceTyped'
  BY <1>2, FS_EmptySet DEF bootstrap_drop, SinceTyped
<1>3. ASSUME NEW a \in Processes, dashboard_collector_worker(a) PROVE SinceTyped'
  <2>1. CASE since' = since
    BY <2>1 DEF SinceTyped
  <2>2. CASE since' = [b \in Processes |->
                         IF Bootstraps(conf[b]) /\ pc[b] \in {"create", "bind", "serve"}
                         THEN since[b] \cup {[time |-> now]} ELSE since[b]]
    <3>1. now \in Times
      BY DEF Typed
    <3>2. \A b \in Processes : since'[b] \in {since[b], since[b] \cup {[time |-> now]}}
      BY <2>2
    <3>3. ASSUME NEW b \in Processes PROVE IsFiniteSet(since'[b])
      <4>1. IsFiniteSet(since[b]) /\ IsFiniteSet(since[b] \cup {[time |-> now]})
        BY FS_AddElement DEF SinceTyped
      <4>2. QED
        BY <3>2, <4>1, Zenon
    <3>4. since' \in [Processes -> SUBSET [time : Times]]
      <4> DEFINE more(b) == IF Bootstraps(conf[b]) /\ pc[b] \in {"create", "bind", "serve"}
                            THEN since[b] \cup {[time |-> now]} ELSE since[b]
      <4>1. \A b \in Processes : more(b) \in SUBSET [time : Times]
        BY <3>1 DEF SinceTyped
      <4>2. since' = [b \in Processes |-> more(b)]
        BY <2>2
      <4> HIDE DEF more
      <4>3. QED
        BY <4>1, <4>2
    <3>5. QED
      BY <3>3, <3>4 DEF SinceTyped
  <2>3. QED
    BY <1>3, <2>1, <2>2 DEF dashboard_collector_worker
<1>4. ASSUME Cleaned \/ SetClock \/ Routes \/ UNCHANGED agentVars PROVE SinceTyped'
  BY <1>4, ElseLeaves DEF SinceTyped
<1>5. QED
  BY <1>1, <1>2, <1>3, <1>4, StepIs

(* Whoever stores, it counts for all that have dropped the table.          *)
LEMMA CollectorStores ==
  ASSUME SinceTyped, NEW a \in Processes, dashboard_collector_worker(a)
  PROVE  /\ Dropped' = Dropped /\ UNCHANGED <<pc, table, strange>>
         /\ \/ metrics' = metrics /\ since' = since
            \/ /\ metrics' = add_metric(now)
               /\ \A b \in Dropped : since'[b] = since[b] \cup {[time |-> now]}
BY DEF dashboard_collector_worker, Dropped

LEMMA FreshStep ==
  ASSUME Typed, SinceTyped, FreshOK, [Next]_vars
  PROVE  FreshOK'
<1>1. ASSUME NEW a \in Processes, Quiet(a) PROVE FreshOK'
  BY <1>1, QuietLeaves DEF FreshOK
<1>2. ASSUME NEW a \in Processes, bootstrap_drop(a) PROVE FreshOK'
  BY <1>2 DEF bootstrap_drop, FreshOK
<1>3. ASSUME NEW a \in Processes, dashboard_collector_worker(a) PROVE FreshOK'
  <2>1. add_metric(now) \subseteq metrics \cup {[time |-> now]}
    BY NewestIs DEF add_metric, Added
  <2>2. QED
    BY <1>3, <2>1, CollectorStores DEF FreshOK
<1>4. ASSUME Cleaned \/ SetClock \/ Routes \/ UNCHANGED agentVars PROVE FreshOK'
  BY <1>4, ElseLeaves DEF FreshOK, Dropped
<1>5. QED
  BY <1>1, <1>2, <1>3, <1>4, StepIs

(* Two daemons are not past the pidfile at a time: none drops the table    *)
(* that another has created.                                               *)
LEMMA KeptStep ==
  ASSUME Typed, SinceTyped, ToolOK, PidOK, KeptOK, [Next]_vars
  PROVE  KeptOK'
<1>1. ASSUME NEW a \in Processes, Quiet(a) PROVE KeptOK'
  <2>1. SUFFICES ASSUME strange' = {}, NEW d \in Dropped'
                 PROVE  /\ d \in Daemons /\ metrics' = Newest(since'[d], HistoryLength)
                        /\ pc'[d] # "create" => table'
    BY DEF KeptOK
  <2>2. strange = {} /\ d \in Dropped /\ metrics' = metrics /\ since'[d] = since[d]
    BY <1>1, <2>1, QuietLeaves
  <2>3. pc'[d] # "create" => table'
    BY <1>1, <2>1, <2>2, QuietLeaves DEF KeptOK
  <2>4. QED
    BY <2>2, <2>3 DEF KeptOK
<1>2. ASSUME NEW a \in Processes, bootstrap_drop(a) PROVE KeptOK'
  <2>1. SUFFICES ASSUME strange' = {}, NEW d \in Dropped'
                 PROVE  /\ d \in Daemons /\ metrics' = Newest(since'[d], HistoryLength)
                        /\ pc'[d] # "create" => table'
    BY DEF KeptOK
  <2>2. a \in Daemons /\ strange = {} /\ pc[a] = "drop" /\ metrics' = {}
    BY <1>2, <2>1, Values DEF bootstrap_drop, Tooled
  <2>3. d = a
    <3>1. SUFFICES ASSUME d # a PROVE FALSE
      OBVIOUS
    <3>2. d \in Dropped
      BY <1>2, <3>1 DEF bootstrap_drop, Dropped, Goes, Typed
    <3>3. d \in Daemons /\ pc[d] \in Past /\ pc[a] \in Past
      BY <2>2, <3>2 DEF KeptOK, Dropped, Past
    <3>4. QED
      BY <2>2, <3>1, <3>3, Values DEF PidOK
  <2>4. since'[a] = {} /\ pc'[a] = "create"
    BY <1>2 DEF bootstrap_drop, Goes, Typed, SinceTyped
  <2>5. Newest({}, HistoryLength) = {}
    BY NewestIs
  <2>6. QED
    BY <2>2, <2>3, <2>4, <2>5
<1>3. ASSUME NEW a \in Processes, dashboard_collector_worker(a) PROVE KeptOK'
  <2>1. CASE metrics' = metrics /\ since' = since
    BY <1>3, <2>1, CollectorStores DEF KeptOK
  <2>2. CASE /\ metrics' = add_metric(now)
             /\ \A b \in Dropped : since'[b] = since[b] \cup {[time |-> now]}
    <3>1. SUFFICES ASSUME strange = {}, NEW d \in Dropped
                   PROVE  metrics' = Newest(since'[d], HistoryLength)
      BY <1>3, CollectorStores DEF KeptOK
    <3>2. PICK record : record = [time |-> now]
      OBVIOUS
    <3>3. record.time \in Int /\ IsTable(since[d])
      <4>1. d \in Processes
        BY DEF Dropped
      <4>2. IsFiniteSet(since[d]) /\ \A r \in since[d] : r.time \in Times
        BY <4>1 DEF SinceTyped
      <4>3. now \in Int
        BY HistoryAssumption DEF Typed
      <4>4. QED
        BY <3>2, <4>2, <4>3, HistoryAssumption DEF IsTable
    <3>4. Added(Newest(since[d], HistoryLength), record, HistoryLength)
            = Newest(since[d] \cup {record}, HistoryLength)
      BY <3>3, HistoryAssumption, PurgeForgetsNothing
    <3>5. metrics = Newest(since[d], HistoryLength)
      BY <3>1 DEF KeptOK
    <3>6. QED
      BY <2>2, <3>2, <3>4, <3>5 DEF add_metric
  <2>3. QED
    BY <1>3, <2>1, <2>2, CollectorStores
<1>4. ASSUME Cleaned \/ SetClock \/ Routes \/ UNCHANGED agentVars PROVE KeptOK'
  BY <1>4, ElseLeaves DEF KeptOK, Dropped
<1>5. QED
  BY <1>1, <1>2, <1>3, <1>4, StepIs

-----------------------------------------------------------------------------
(* The list of routes: a process that ends leaves it to the next one as it *)
(* is at the start.                                                        *)
LEMMA RoutesOfAgentsStep ==
  ASSUME Typed, RoutingInv, [Next]_vars
  PROVE  RoutingInv'
<1>1. ASSUME UNCHANGED routingVars PROVE RoutingInv'
  BY <1>1, RoutingStutter
<1>2. ASSUME NEW a \in Processes,
             \/ (\E order \in Configurations : start(a, order)) \/ read_pidfile(a) \/ mark(a)
             \/ write_pidfile(a) \/ bootstrap_drop(a) \/ bootstrap_create(a) \/ run_task(a)
             \/ dashboard_collector_worker(a)
      PROVE  RoutingInv'
  BY <1>1, <1>2 DEF start, read_pidfile, mark, write_pidfile, bootstrap_drop, bootstrap_create,
                    run_task, dashboard_collector_worker
<1>3. ASSUME NEW a \in Processes, bind(a) PROVE RoutingInv'
  <2>1. conf[a] \in Seq(Plugins) /\ Distinct(conf[a])
    BY NoOrder, ConfiguredAssumption DEF Typed
  <2>2. RoutingStarts(conf[a]) \/ UNCHANGED routingVars
    BY <1>3 DEF bind
  <2>3. QED
    BY <1>1, <2>1, <2>2, RoutingStartsHolds
<1>4. ASSUME NEW a \in Processes, stop(a) \/ killed(a) PROVE RoutingInv'
  <2>1. RoutingEnds \/ UNCHANGED routingVars
    BY <1>4 DEF stop, killed, Ends
  <2>2. QED
    BY <1>1, <2>1, RoutingEndsHolds
<1>5. ASSUME Cleaned \/ SetClock PROVE RoutingInv'
  BY <1>1, <1>5 DEF Cleaned, SetClock
<1>6. ASSUME Routes PROVE RoutingInv'
  BY <1>6, RoutingStep DEF Routes
<1>7. QED
  BY <1>1, <1>2, <1>3, <1>4, <1>5, <1>6 DEF Next, vars

LEMMA InvStep == IInv /\ [Next]_vars => IInv'
BY TypedStep, TableTypedStep, SinceStep, ToolStep, PidStep, FreshStep, KeptStep,
   RoutesOfAgentsStep DEF IInv

LEMMA Invariance == Spec => []IInv
BY InitHolds, InvStep, PTL DEF Spec

-----------------------------------------------------------------------------
(* The processes, their file, the table and the list of routes have their  *)
(* values, and the process that serves has the port.                       *)
THEOREM TypeCorrect == Spec => []TypeOK
<1>1. Typed /\ TableTyped /\ RoutingTyped => TypeOK
  BY Zenon DEF Typed, TableTyped, TypeOK, Steps
<1>2. IInv => TypeOK
  BY <1>1, TypedOfInv DEF IInv
<1>3. QED
  BY <1>2, Invariance, PTL

(* daemon.py:10-37: unless two daemons have started at once, the pidfile   *)
(* names the one that is past it.                                          *)
THEOREM PidfileTellsHolds == Spec => []PidfileTells
<1>1. IInv => PidfileTells
  BY DEF IInv, PidOK, Past, PidfileTells
<1>2. QED
  BY <1>1, Invariance, PTL

(* plugins/dashboard/db.py:13-51: while an agent serves that was started   *)
(* with the dashboard, nothing in its history is from before that start,   *)
(* whatever other processes do; and unless one of them drops the table, or *)
(* the clock is set back, its history is the last records stored since.    *)
THEOREM HistoryKeptHolds == Spec => []HistoryKept
<1>1. IInv => HistoryKept
  <2>1. SUFFICES ASSUME IInv, port # Nobody, Bootstraps(conf[port])
                 PROVE  /\ metrics \subseteq since[port]
                        /\ strange = {} => table /\ metrics = Newest(since[port], HistoryLength)
    BY DEF HistoryKept
  <2>2. port \in Processes /\ pc[port] = "serve"
    BY <2>1 DEF IInv, Typed
  <2>3. port \in Dropped
    BY <2>1, <2>2 DEF Dropped
  <2>4. QED
    BY <2>1, <2>2, <2>3 DEF IInv, FreshOK, KeptOK
<1>2. QED
  BY <1>1, Invariance, PTL

(* httpd.py:171: a request for a route that was there all the while is     *)
(* missed only if routes were removed, and never if it is of the core.     *)
THEOREM MissedOnlyByRemovalHolds == Spec => []MissedOnlyByRemoval
<1>1. IInv => MissedOnlyByRemoval
  BY MissedOfInv DEF IInv
<1>2. QED
  BY <1>1, Invariance, PTL

(* httpd.py:225-297, routing.py:78: a request goes to a plugin that is     *)
(* loaded or being loaded, unless routes were removed since.               *)
THEOREM FoundIsLoadedHolds == Spec => []FoundIsLoaded
<1>1. IInv => FoundIsLoaded
  BY FoundOfInv DEF IInv
<1>2. QED
  BY <1>1, Invariance, PTL

(* routing.py:46-96: between two applications of a configuration the list  *)
(* is the routes of the core and of the plugins that are loaded.           *)
THEOREM RoutesOfPluginsHolds == Spec => []RoutesOfPlugins
<1>1. IInv => RoutesOfPlugins
  BY RoutesOfInv DEF IInv
<1>2. QED
  BY <1>1, Invariance, PTL

================================================================================
