# Specifications of temboard-agent

temboard-agent runs beside a PostgreSQL server. It serves an HTTPS API with which
temboard changes settings, schedules maintenance, controls the server and reads
metrics, and it collects metrics on its own. These TLA+ modules describe the parts
of it where several threads, workers or servers touch the same state. TLC checks
them on small instances and TLAPS proves the main results for instances of any size.

    tlasany MCSessionThreads.tla
    tlc -workers 2 -config threads.cfg MCSessionThreads
    tlapm SessionThreadsProofs.tla

`PROJECT.json` lists the runs with their properties, the source lines each
definition stands for, the hazards and the mutants (definitions of the modules
named after a plausible bug, each of which breaks the property it is listed with).

## The system

| Component | State | Operations | What is hard |
|---|---|---|---|
| Session table (`sharedmemory.py`, `api.py`) | array of 100 (sessionid, time, username) | add, update, delete, lookups, purge_expired; reached by /login, /logout, /profile and every route with `check_session` | no lock spans two accesses: one thread per request and the purging main thread interleave; lookups return live views of slots |
| HTTP server (`httpd.py`, `routing.py`, `usermgmt.py`) | list of routes, socket | accept with a timeout of 1 s, a thread per connection, route, authenticate, answer | the main thread accepts, shakes hands and purges; a reload changes the routes under the threads |
| Settings (`plugins/pgconf`) | settings of PostgreSQL: in use, stored | GET, POST /pgconf/configuration | checks and changes alternate item by item; the server reloads later, and restarts |
| Monitoring (`plugins/monitoring`) | `monitoring.db`: last_measures, metrics | collector every 60 s, HTTP probes, history | read and replace of a measure is not atomic and shared by processes and threads; restarts |
| Notification log (`notification.py`) | `core.db`: action_logs | push (insert, purge), get_last_n | order and purge by the time a record was built |
| Dashboard history (`plugins/dashboard`) | `dashboard.db`: metrics | collector every 2 s, purge to 150 records | order by a clock that may go back |
| Maintenance (`plugins/maintenance`) | tasks of the task manager | schedule, list, cancel; workers for vacuum, analyze, reindex | check-then-act against tasks that start, end and are retried, and tables that are dropped; identifiers drawn from a digest |
| Administration (`plugins/administration`, `command.py`) | the server, up or down | run pg_ctl, then poll the server | timeouts against late answers; a command that returns before its end |
| Activity (`plugins/activity`) | - | lists of backends, kill several | one of several kills fails; a pid that changes hands between two readings |
| Daemon (`daemon.py`) and agent (`scripts/agent.py`, `runtask.py`) | pidfile, port | daemonize, bootstrap, serve, reload | two agents started at once; a tool that bootstraps beside an agent |
| Connections, inventory, statements, command line | - | queries, parsing, prompts | I/O without shared state |

They interact through calls. An HTTP thread runs `check_sessionid` and then the
function of its route, which may push a notification, open a connection of its own
to PostgreSQL, or send a message to the task manager. The scheduler and the worker
pool are processes of their own; they share SQLite files with the HTTP process.
The task manager, the services and the application class come from
`temboardagent/toolkit`, a git submodule whose source is not in this repository:
what is used of it is modelled as external where a module needs it.

What makes each part correct:

- sessions: an identifier serves the user it was drawn for, nobody loses a session
  but by a logout, a new login, the purge or a lack of slots, a session that has
  ended never comes back, and an unused session goes;
- settings: what is answered with 200 is stored as posted, announced in the log and
  comes into use; nothing is changed unless the whole request is valid;
- measures: deltas report each event once and never span a restart of the agent;
- logs and histories: a queue of N records; that of the dashboard has none of an
  earlier agent;
- maintenance: what is accepted is known, is done only if its statement has run, and
  runs at most once; what is known can be found and cancelled;
- administration: an answer "ok" is true of the server until the next command, and
  every control is answered;
- pidfile: it names the daemon that is past it; routes: those of the core and of the
  plugins that are loaded, and a request finds its own.

## Modules

| Module | What it is |
|---|---|
| `SessionRegistry` | abstract: the life of a session identifier |
| `SessionThreads` | the session table, the HTTP threads and the main thread |
| `MCSessionThreads` | instances: symmetry |
| `SessionThreadsProofs` | theorems about `SessionThreads` |
| `PgConf` | POST /pgconf/configuration against PostgreSQL |
| `MCPgConf` | instances: bodies of requests |
| `PgConfProofs` | theorems about `PgConf` and `Units` |
| `Measures` | Probe.delta, last_measures and metrics, collector and HTTP probes |
| `MCMeasures` | instances: symmetry; the property of `Probes` |
| `MeasuresProofs` | theorems about `Measures` and `Probes` |
| `Probes` | which probes a collect runs, on what, and what a failing one takes with it |
| `Units` | the number a value with a unit stands for (`human_to_number`) |
| `Server` | abstract: a PostgreSQL server as its clients see it |
| `OperationLife` | abstract: what a client may expect of a maintenance operation |
| `Maintenance`, `MCMaintenance` | scheduling, lists, cancellation and workers, on a `Server` |
| `MaintenanceProofs` | theorems about `Maintenance`; the safety of `OperationLife` |
| `Records` | the tables of SQLite that keep their latest records |
| `RecordsProofs` | theorems about `Records`; the fact about numbers other proofs rest on |
| `Control`, `MCControl` | starting, stopping and polling the server, kills, and the log of both; implements `Server` |
| `ControlProofs` | theorems about `Control`, its refinement of `Server`, and `Processes` |
| `Processes` | the lists of backends and the two readings of /proc behind them |
| `Routing` | the list of routes, its changes and the threads that walk it |
| `RoutingProofs` | lemmas about lists of routes and the steps of `Routing` |
| `Agents`, `MCAgents` | the processes of the agent: pidfile, dashboard history, port; `Routing` in the one that serves |
| `AgentsProofs` | theorems about `Agents` and the `Routing` in it |

They compose as the code does: `Agents` extends `Routing` and `Records`, `Control`
extends `Records`; `Maintenance` runs on `Server`, which `Control` is shown to
implement, so that what `Maintenance` assumes of a server that is stopped, restarted
and has backends terminated is what the administration and activity plugins do to it.

### SessionThreads

`sessions` is the array; `pc`, `mine`, `i`, `view`, `seen`, `route` are the locals of
a request thread; `main` is the main thread. A step makes at most one access to the
array, because that is what is atomic in the code:

- `self.sessions[i]` and the iteration over `self.sessions` return a `Session` that
  is a *live view* of the slot; reading a field of it, or assigning `session.time`,
  goes to shared memory at that moment (`view[t]` is the slot number, never a copy);
- `self.sessions[i] = session` copies a whole slot in one step. The wrapper that
  `Array(..., lock=...)` returns holds its lock for the assignment, and the copy
  itself does not release the interpreter lock;
- a comparison that reads two places (`update`) is two steps, `upd_read` and
  `upd_cmp`. A step that reads the clock reads it with its access to the array.

Each simplification, and why it loses nothing:

- `login` before `add` changes nothing: `get_by_username` compares a `str` with
  `bytes`, which are never equal, so the branch of `api.py:69-72` is never taken;
- an identifier is a digest of 32 random bytes, so `login` takes a fresh one and
  `SharedItem_exists` cannot be raised; the two comparisons of `add`'s first loop
  then have one outcome that depends on the array, and are one step;
- `gen_sessionid` returns 64 characters, the whole of `T_SESSIONID_SIZE`: the length
  test of the purge is "not zeroed";
- a request that fails before or without looking at a session is `Dismiss`, one
  that succeeds with a route that does not look again is route `"other"`;
- clients send identifiers they were given (`Known`); one never drawn is refused
  by a scan of all the slots and changes nothing;
- notifications are pushed between the steps and leave the table alone, whether
  they succeed or not (`NotificationError` is caught);
- the username read in `check_sessionid` after the stamp leaves the table for the
  route's notifications. It may be another user's, see the hazards;
- an age stops at TTL + 1; `Session()` has time 0.0, older than any TTL.

The main thread alternates between `handle_request`, which starts at most one thread
or times out, and a pass of `purge_expired` over every slot.

The history variables are `issued`, which user an identifier was drawn for, and
`held`, the slots that have contained the looked-for identifier without a break.

### PgConf

`running` and `stored` are what pg_settings shows and what postgresql.auto.conf asks
for. A request reads the settings once (`get_settings`, one query), then for each
item: `check` (refuse, skip, or go on), `push` the notification, `alter` the server;
then `pg_reload_conf`, `notify`, answer. Each is one call to another party or a run
of local code, so requests, reloads and restarts interleave between them.

- A value is one the checks and the server accept (`Values`), one the checks reject
  (`Bad`, also for an unknown name or a malformed item), one only the server rejects
  (`Refused`), or the empty string (`Reset`). `Nil` are the values the code takes for
  none at `if setting['setting']`: a real setting given as 0 with a unit becomes 0.0.
  `Target` is what the code then does with an item, `Asked` what the client has asked
  for, and the properties are about `Asked`: that 0 comes to be a reset is an exception
  `PostedIsStoredIfSynced` makes by name (`post[r][k].value \notin Nil`).
- `force` also stands for a value spelt otherwise than the server spells it: integer
  settings are compared as strings, so `1024kB` differs from `1MB` and is stored.
- A reload is asked for and done later. A restart takes everything stored into use
  and cuts the connections open at the time; the statement that follows fails. A
  reload asked for by the administration plugin or by hand adds no behaviour to those
  another request asks for.
- `log` is the set of announcements; order and bound are matters of the log itself.

History variables: `silent`, a notification has failed; `synced[r]`, r began with
nothing stored and not in use, and no other request has altered anything since.

### Measures

One counter and one clock stand for what a probe measures: `run` reads both. `delta`
is computed between `get_last_measure` and `upsert_last_measure`, which are two SQLite
transactions. The probers are the collector (one at a time: `pool_size=1`) and HTTP
threads: the probes of CPU, processes and WAL files call `self.delta` themselves, so
`delta=False` of `api_run_probe` does not keep them off the table. `skip` is a
transaction that fails on a locked database, `Zero` a reset of the counter,
`bootstrap` a stop of the agent at any point and its next start, which drops
last_measures and keeps metrics. `count - total` tells whether the counter was
reset; the code cannot tell a reset that the counter has outgrown, and neither does
`delta`.

### Probes and Units

Pure functions, each with its reference. `Probes` has one definition per probe: its
level, versions, servers, whether it catches errors of its queries and whether it
has rows the first time. `AfterProbe` is a turn of the loop of `run_probes`;
`Raises` and `Probe_run` say what happens in it. The loops of `load_probes` and
`run_probes` are recursive functions over the places of a list. `OneFailureOneGap` takes every probe,
makes it fail in every situation (host, server, version, databases, first collect or
not, HTTP or collector) and compares the output with that of a collect without
failure and with that of the probe alone. `Units` compares the tables of
`human_to_number` with the units put together step by step. The conversion is right
but for a size in a smaller unit than its setting's (512kB for a setting in MB), where
it counts from bytes; `UnitsRight` says both. Neither property is about a state, so it
is evaluated in the initial state of the run it belongs to.

### Maintenance

A task of the manager has an operation, a date and a status; `worker[id]` is the
process that runs it, `req[c]` a request of an HTTP thread. A request to schedule
connects and looks the table or index up (`check`), then sends TASK_NEW
(`schedule_operation`); one to cancel asks for the three lists in turn (`look`), then
sends TASK_CANCEL (`cancel`). Between any two of these steps tasks begin and end,
tables are dropped, the server changes and the agent restarts.

- The task manager is external. What is assumed: a task has one identifier, waits,
  is given to a free worker of its type, reports done only if its worker returned; a
  cancellation that is taken ends one that waits and aborts one that runs; after a
  restart what waited waits and what ran does not run again. What is not known is a
  choice: whether a task that is known already is refused or kept, whether a message
  whose reply is lost was heard, whether a cancellation is taken, whether an abort takes
  the backend with it.
- `cancel` answers "ok" whatever the reply to its message is: the code looks at the
  reply to TASK_NEW (`functions.py:552`) and not at this one (`740-752`). So nothing is
  claimed of an operation whose cancellation was answered "ok"; `OperationLife` says what
  it does in any case.
- A worker connects and looks again (`connect`), begins its statement, which locks
  the relation (`execute`), and ends with it (`finish`). The three workers differ in
  the text of the statement only.
- An operation has the mode of a vacuum, which the task keeps. An identifier is the
  tuple the digest is drawn from; the mode is not part of it, here as in the code: a
  VACUUM FULL asked for at the date of a plain VACUUM that is known is answered with its
  identifier, and never runs. `AcceptedIsTask` excepts the mode, and nothing else.
- The lists show what the code's filter passes. That of a database gives `dbname`
  alone, which the filter ignores unless a schema comes with it (`functions.py:626`), and
  the reindexes of a table are asked for without the table
  (`maintenance/__init__.py:266-269`), so both show operations on other objects, against
  the comment "Filter by db/schema/table if provided" (`functions.py:625`). `ListsRight`
  says that no list misses an operation, and that the vacuums and the analyzes of a table
  are shown alone; of what else those two show it says nothing.
- Whether the date of a task has come is a choice of `Dispatch`; dates are otherwise
  values.

History: `ran`, the statements that have completed; `accepted`, the requests that were
answered with an identifier; `there` in a request, its operation is known all the while.

### Control, Records and Processes

A control is `post_pg_control`, `push`, `pg_ctl`, then one `poll` per attempt; a kill
is `post_activity_kill`, then `pg_terminate_backend` and `announce` for each pid, then
`close`. `exec_script` gives the results of the command: success with any state it may
leave the server in, a failure, or an `OSError`, whose code is 0 although nothing ran.
`Accepting` is all that a poll can see; a server that is about to stop (`leaving`) or
to restart (`restarting`) still accepts. The command is the one configured: nothing
says that it waits (`pg_ctl -w`), so a start returns 0 over a server that is leaving as
over one that is up, and a restart before anything has happened. The 10 seconds of a
poll are `Attempts` connections, and may be over after any of them.

`AnswerHolds` is about `promised`, what the last answer "ok" said, kept until the next
command is executed. The answers it excepts make no promise (`Promise`, `Clear`,
`poll_refused`), and in each of them the poll takes one server for another, which the
code does not notice:

- a control that was not alone;
- a command the system could not execute, of which the code is 0;
- a start or restart whose command returned 0 over a server that still accepts and is to
  go down: that of an earlier stop, or of a restart that is still to be done;
- a stop whose command returned 0 over a server that an earlier restart is to bring up;
- a stop whose last connection was refused for want of another.

`Stored` inserts a record with the time its notification was built at and purges the
table, in one transaction: `Newest` keeps the records whose time is among the latest
`Limit`, so that ties stay or go together. `Records` holds these operators, for
`action_logs` and for the history of the dashboard. `Fifo` is what the documentation of
the log asks for, that what was stored first is purged first; it is violated (run
`fifo`). `FifoIfInOrder` is what remains: a queue of at most `Limit` records, if they
were stored in the order of their times and no two have the same.

`Processes` follows one row of a listing: the process its pid belongs to at the four
readings of /proc, two before and two after the sleep. A rate is the pair of processes
it was computed from. A row is left out if a reading is there after the sleep and was
not before, and also if its duration is null, that of a backend that has run nothing
yet. `ListingRight` also shows that terminating what `get_activity_blocking` lists
leaves nobody waiting but for advisory locks, which it does not see.

### Agents and Routing

`pc[a]` is how far process a has come in main(): read the pidfile, mark it, write the
number after two forks, drop and create the table of the dashboard, bind the port,
serve. A tool (an agent in the foreground, or runtask) starts at the table. A process
ends at an error, by `stop`, or is `killed` at any step; only an orderly end removes
the pidfile. The process that serves has the routes and the requests.

`conf[a]` are the plugins process a was started with, in order. Only those are
bootstrapped: a start without the dashboard leaves its table alone, and a reload that
loads the dashboard neither drops nor creates it. The collector runs from the start of
the services on, which is before the port is bound, where the dashboard is among the
plugins, and stops and starts with the reloads of the process that serves; runtask may
run it too (`Collects`). `since[a]` is the history of what was stored since process a
dropped the table.

`HistoryKept` is about an agent that was started with the dashboard. Its records are of
after the drop, whatever other processes do and whatever the clock does: no data of an
earlier agent (`dashboard/db.py:13-16`). That none of the recent ones is lost is said
only if the clock went forward and no other process dropped the table, see `strange`.
An agent that loads the dashboard by a reload is excepted: it has the records an earlier
one has left, or no table at all and a collector that fails.

`routes` is the list ROUTES. The main thread adds and removes one route at a time
(`add`, `remove`); `look` is one turn of the loop of `get_route`, whose iterator keeps a
place in the list and no copy of it, so that a removal before the place makes it miss
a route that was there all along. A path is a sequence of words or of sets of words
(regular expressions).

`strange` records the three things that spoil the history and the pidfile, each of
which the code allows: two daemons between reading and writing the pidfile (`raced`),
a tool that created the table anew (`tooled`), a clock set back (`setback`).
`PidfileTells` excepts the first, the second part of `HistoryKept` all three.

## What the runs check

| Run | Instance | Checks |
|---|---|---|
| `threads` | 2 request threads, 3 identifiers, 2 users, 2 slots, TTL 0; route logout, whose requests do all that others do and then delete | `TypeOK`; `OwnerIntegrity`: a slot never mixes two sessions; `RefusedOnlyIfGone`: a lookup misses a session only if no slot has kept it; `RegistrySpec`: the table implements `SessionRegistry` |
| `one_request` | 1 request thread, TTL 1, all routes, fairness | `RefusedOnlyIfGone` with the second lookup of /profile, and what holds only when requests do not overlap: `OneSessionPerUser`, `LogoutEnds`, `EndsByRule`; `ExpiredGoes` (liveness) |
| `purge_race` | 1 request thread | finds that the purge removes a session just renewed |
| `logout_copy` | 2 request threads | finds that a logout may leave a copy of its session |
| `pgconf` | 2 requests, 2 settings (one changed by a restart only), bodies of 0 to 2 items, fairness | `TypeOK`; `Announced`; `PostedIsStoredIfSynced`; `Converges` (liveness); `UnitsRight` |
| `posted_stored` | 1 request | finds that a change not yet in use cannot be taken back |
| `checked_first` | 1 request | finds that items are altered before later ones are checked |
| `measures` | collector and 1 HTTP thread, 2 events, 2 ticks, 1 restart; all 18 probes, 384 situations | `TypeOK`; `CountedOnce`; `CountedAll`; `FreshBase`; `OneFailureOneGap` |
| `maintenance` | 2 clients, 3 vacuums (of one table plain and FULL, of its namesake in another database), 1 date, 1 worker, 2 posts, 1 delete, 1 drop or restart, fairness | `TypeOK`; `AcceptedIsTask`: no operation is lost or taken for another, but for the mode; `DoneMeansRun`; `CancelFinds`: an operation there all along is found; `ListsRight`; `LifeSpec`: operations live as `OperationLife` says, liveness included |
| `control` | 2 threads, 1 other session, 2 attempts, 2 times, log of 1 record, fairness | `TypeOK`; `FifoIfInOrder`: the log is a queue if filled in order; `AnswerHolds`; `ControlAnswered` (liveness); `ServerSpec`: implements `Server`; `ListingRight` |
| `fifo` | 2 threads that reload | finds that the log purges what was stored last |
| `agents` | 2 daemons, 1 tool, started with or without the dashboard; 1 HTTP thread, 3 plugin routes and 1 of the core, 5 events, 2 times; daemons are symmetric | `TypeOK`; `MissedOnlyByRemoval`; `FoundIsLoaded`; `RoutesOfPlugins`; `PidfileTells`; `HistoryKept` |

The five runs that end in a counterexample set a sentence of a docstring, a comment
or a test against the code; `findings` quotes them. Other sentences the code does not
keep were met on the way and have no run:

- "Filter by db/schema/table if provided" (`maintenance/functions.py:625`): see
  Maintenance above;
- "To limit the number of returned records to N, the query parameter 'limit' can be
  used and set to N." (`monitoring/__init__.py:175-177`): 0 is taken for no limit
  (`monitoring/db.py:83`);
- "history should not contain old data" and "act as a FIFO queue"
  (`dashboard/db.py:13-18`): not if a reload loads the plugin, nor after the clock was
  set back;
- "we want to keep only the last 100 messages" (`notification.py:75`): the limit is 1000.

Bounds. Two slots and two users are what a copy from one slot to another, a session in
two slots, a full table and a slot that changes hands need. The third identifier
allows a login after both slots are taken. TTL 0 makes every session expire at the
next tick, TTL 1 lets one be renewed in time. The bound on identifiers bounds the
logins of a behaviour, not their overlap. In `pgconf` the bodies are those that meet
the branches: nothing, a revert, a second item that is wrong, a value taken for none
and one the server refuses; the theorem on `PostedIsStoredIfSynced` covers all bodies.
`CheckedFirst` and `PostedIsStored` need one request only. In `measures` two events
suffice to be counted twice, missed, or hidden by a reset; `Keep = 0` with two ticks
makes the purge remove a record. In `maintenance` a vacuum of the same table in two
modes is what an identifier does not tell apart, one of its namesake in another
database what it must; one worker is what makes a task wait while its table is
dropped. The operations are vacuums: the three types differ in the list they are shown
in, of which `lists` names all, and in the filter of the reindexes, which
`ListsRightHolds` covers. Two posts let a request be repeated. In `control` a log of
one record and two times make every push purge, also one that arrives late; two
attempts are a retry and a last one; `MaxRecords` stops requests, not those under way.
`fifo` needs no other command than a reload. In `agents` the bound counts events from
outside (starts, stops, kills, requests, reloads, collects): five suffice for a start
under each step of another, for a reload under a request, and for an agent that loads
the dashboard by a reload over the records of an earlier one.

Fairness. `WF(serve1)`: the main thread loops for ever over an accept with a timeout
and the purge; it assumes that a TLS handshake ends, for which the code sets no
timeout. In PgConf `WF(post_settings(r))`: a thread that has begun a request runs on,
each of its calls returning or raising; `WF(Reload)`: PostgreSQL handles the signal
it was sent. In Maintenance `WF(WorkerStep \/ ManagerStep)` of each task: its worker and
the scheduler's loop run on, statements end, the date of a task comes. In Control
`WF(GoOn(t))`: a thread goes on with its request, commands and connections return;
`check_call` has no timeout in the code, so this assumes that pg_ctl ends, and nothing
of the server. Agents has safety only. Clients, the clock, restarts and the request
threads of SessionThreads owe nothing. All runs check for deadlock.

`CountedOnce` and `CountedAll` are conditional: probers that overlap between reading
and replacing a measure do report the same events twice, or a negative interval.
Nothing in the code prevents the overlap, no text claims there is none, and the
`overlapped` flag marks exactly those behaviours.

## What is proved

TLAPS checks all obligations of the proof modules, for any value of the constants
that satisfies the assumptions of the modules, which TLC evaluates on every run:

- `SessionThreads`: there is a slot; null values are not identifiers or users; the
  routes are the three modelled;
- `PgConf`: marks differ from values, `Boot` and `Nil` are values, bodies are sequences
  of items;
- `Measures`: bounds are numbers, there is a start, the collector is no HTTP thread,
  and `None` is no measure;
- `Control`: commands are the four, `None` is none of the other values, there is an
  attempt and a record;
- `Maintenance`: no table and index of a schema share a name, as in PostgreSQL, so that
  two operations of one type on one name differ in their mode at most
  (`NamesAssumption`); an operation comes with what the path of its request holds, a
  database, and a schema if it has a table or an index (`OperationsAssumption`); `None`
  is no task. That the digest keeps tuples apart is part of the model;
- `Routing`: the routes of the core and of each plugin are a list, none of them twice
  and none of them in two (`DistinctAssumption`: every `@routes` and `@add_route` of
  the repository has a method and a path of its own); the plugins of each configuration
  an agent may start with are in some order, none twice (they are a dictionary, `scripts/agent.py:112`);
- `Agents`: `absent` and `nul`, the contents of a pidfile that names nobody, are no
  processes; a daemon is no tool; the history has a record.

`SessionThreadsProofs`

- `TypeCorrect`: `TypeOK` is not inductive: a thread that is about to write through
  its view must have one. `Typed` adds `ViewOK` for that.
- `OwnerIntegrityHolds`: from `IdentityInv`, which adds that slots and the sessions
  being added pair an identifier with the user it was drawn for (`Drawn`), and that
  a login in progress has its identifier for itself, not in any slot (`Apart`).
  `stamp` and `upd_write` are the interesting cases: a view that has gone stale is
  harmless because a slot is copied whole.
- `TableImplementsRegistry`: from the same invariant, every step maps each
  identifier to a step of its own life or to a stutter.
- `RefusedOnlyIfGoneHolds`: from `HeldInv`: a slot in `held` still has the
  identifier, the scan has not passed any such slot (`AheadOf`), and a slot that was
  read while held was read right.
- `OneSessionPerUserHolds`, `LogoutEndsHolds`, `EndsByRuleHolds`: under `OneThread`, one
  request at a time, which is how the run `one_request` is set up and what a client that
  waits for its answers makes of the agent; without it they are false (`logout_copy`
  shows one case). From `SoloInv`: beside a single request only the purge writes, and
  it only zeroes (`Fades`), so what the request has seen of the table stays or is
  zeroed (`SoloOK`): a login's loop has no slot of its user behind it, an update copies a
  slot onto itself, a logout has its session in one slot.

`PgConfProofs`

- `TypeCorrect`: `Typed` adds that a request at `push` or `alter` is at an item.
- `AnnouncedHolds`: a request at `alter` has announced its item, or the log is silent.
- `PostedIsStoredIfSyncedHolds`: from `SyncInv`: for a request in sync, a setting that
  no item before `at` names is stored as it was read (`AsRead`), and an item before
  `at`, if no other names its setting, is stored as asked (`AsAsked`). Items that the
  comparison skips are covered because what is in use equals what was stored then. What
  was posted is compared as posted: `AsAsked` speaks of what the code makes of an item
  (`Target`), which is the value itself but for a reset and for the values in `Nil`, the
  exception the property names.
- `RightAlways`, and `UnitsRightHolds` from it: the conversion of a value, for any number
  and any factor of a setting. Sizes: a unit has the same place in the code's list and in
  the reference up to TB, so the code counts the steps between two of them unless the
  value's comes first (`SizeRight`). Times: every entry of the table is compared with the
  product of the steps between two units (`RatioStep`, `RatiosUp`, `TimeRight`).

`MeasuresProofs`

- `TypeCorrect`, `CountedOnceHolds`, `CountedAllHolds` and `FreshBaseHolds` rest on one
  invariant. A counter is never above its events, and can have been reached from every
  measure that is kept or held, by counting alone or from zero after a reset
  (`Follows`): a delta is then at most the events between two measures, and all of
  them without a reset (`DeltaFits`). A measure that is kept or held is of this start
  of the agent, which is `FreshBase`, overlaps or not. As long as no two probers have
  measured at once, the prober that measures has read what the table still holds, and
  what was reported happened before its measure (`AloneOK`); its report then begins
  where the last one ended.
- `HistoryPages`: what /monitoring/history gives with a limit above 0 is a first part of
  what it has from the date on, of `limit` records if any is left, so a client that asks
  again from after the last record it got misses none that is still there. From
  `TableInv` (the times of the records differ, `add_metric` being refused otherwise) and
  `FirstOnes`, a fact about any such table: the latest of what is given has all the rest
  of it before it, and the earliest of what is left has `limit` records before it. A
  limit of 0 is taken for none and is excepted.
- `OneGapAlways`, and `OneFailureOneGapHolds` from it: for any version from 8.2 on, any
  databases and any of them refusing connections but the main one, where the runs take a
  few. `LoadedIs` and `RunIs` turn the two loops into sets: a collect is lost if some
  probe of the list ends it, and has an entry for every probe that is kept otherwise
  (`Outcome`). `ProbeIs` goes through the 18 probes: all but the WAL probe are `Guarded`,
  caught in the loop or in the probe, so that a failure of their own ends nothing
  (`FailureEndsNone`) and what the others make is what they made (`OtherRuns`).
- `OrderChangesNothing`, from `RunIs`: the output does not depend on the order of the
  probes, which in the code is that of a dictionary.

`RecordsProofs`

- `LeastExists`: a set of numbers has a least one, from the well-foundedness of the
  finite subsets of the numbers. Where a definition recurs over the places of a list
  (`FlattenSeq`, `load_probes`, `run_probes`, the ratios of units), the provers know of
  no function it defines: that there is one, and what it holds at each place, is proved
  by there being no least place where this fails.
- `PurgeForgetsNothing`: `Newest(Newest(S) + r) = Newest(S + r)`: a record purged has
  `limit` later ones, and keeps them among any records added since
  (`LaterThanMonotone`); if some of those were purged, a later one has as many
  (`LatestExists`).

`ControlProofs`

- `TypeCorrect`: with the fact that a server which is down has no backend, over all
  results of a command.
- `FifoIfInOrderHolds`: the records are numbered without gaps as they are stored
  (`Numbered`), and the log is the `Newest` of them all, from `PurgeForgetsNothing` at
  each of the three places that push. If times are in the order of the numbers, the
  records later than one are those of greater number, and there are as many of them as
  there are numbers (`CountAfter`).
- `AnswerHoldsAlways`: from `Holding`: a poll that may promise, being alone and its
  command having left a server that goes the way it was asked to, has a server on that
  way still (`Held`); two undisturbed controls never overlap (`Alone`).
- `ControlImplementsServer`: every step changes what is seen of the server as `Server`
  allows, or not at all; a server that accepts again has kept no backend because one
  that is down has none, part of the types. `Server` has no liveness, so this is the
  whole refinement; with `MaintenanceUsesServer` the two modules keep to one
  specification of the server they share.
- `ListingRightHolds`: a row is computed for every life of a pid (`RowRightAny`), and
  terminating what is listed as blocking leaves nobody waiting but for advisory locks,
  whatever the set of locks and the number of backends (`KillingFreesAny`).

`MaintenanceProofs`

- `Inductive`, the invariant all but the last rest on: what the manager knows under an
  identifier has the operation, but for its mode, and the date it was drawn from; a worker has a task that
  runs, and one that is done has run it; a request to cancel what has been there all
  the while has found it, or has the list of its type still to ask for. From it
  `TypeCorrect`, `AcceptedIsTaskHolds`, `DoneMeansRunHolds` and `CancelFindsHolds`.
- `OperationsLive`: every step is a step of `OperationLife` or a stutter. This needs
  `BackendOfBegun` as well: a backend that was left alone is of a task that has begun,
  which is not scheduled anew before the backend is gone (an assumption about the task
  manager, part of `Forget`).
- `ListsRightHolds`: what `list_scheduled_operation` shows is what passes the filter
  (`ShownIs`); the schema and the table of a request are never `None`, so the filter of
  a table compares all three names; the place of the highest bit of a status is the
  place of its label (`HasBit`, `LabelOf`).
- `MaintenanceUsesServer`: what the workers do to the server, those whose statement goes
  on alone included, is a step of `Server`, as what `Control` does is.

`RoutingProofs`, `AgentsProofs`

- `RoutingInv` is the invariant of the list and of the threads that walk it. `Present`
  says which routes of a plugin are there at each step of its loading or unloading: a
  first part of them, or a last. The list is the core's routes, then those present,
  none twice, each plugin's in order (`ListOK`, `Sound`). A request that looks has passed
  no route that matches it, unless one was removed, and none of the core in any case:
  removals are behind the core's places. From it `MissedOnlyByRemovalHolds`,
  `FoundIsLoadedHolds` and `RoutesOfPluginsHolds`, for any lists of routes, any number
  of plugins, threads and reloads.
- Lists are proved about through their places: what appending a route, or removing the
  first equal to it, leaves at each place. The list an agent starts with is a
  `FlattenSeq`, a recursive function: that there is one is proved (`FlattenExists`), and
  what it holds too, from a least counterexample (`LeastExists`) in place of an
  induction.
- `IInv` adds the processes. `TypeCorrect`: the process that serves has the port
  (`Typed`). `PidfileTellsHolds` needs `PidOK`: without a race one daemon at most is
  between reading and writing the pidfile, and none is past it then. `HistoryKeptHolds`
  is about every process that has dropped the table, from the drop on. `FreshOK`: the
  records are among those stored since, because a purge or the drop of another process
  only takes some away. `KeptOK`, while nothing strange has happened: a process that has
  dropped the table is a daemon and the only one (`ToolOK`: a tool past the drop has
  been noted; `PidOK`), and the records are the newest of those stored since
  (`PurgeForgetsNothing`).

Model-checked only:

- liveness, which rests on fairness and ENABLED: `ExpiredGoes`, `Converges`,
  `ControlAnswered`, and that part of `LifeSpec`. The safety of `LifeSpec` is
  `OperationsLive`;
- the runs that end in a counterexample.

Every invariant and every action property of a run that passes is a theorem.

## Not modelled, and the plan

Not modelled on purpose:

- what the probes, the dashboard and the inventory measure, and the parsing of the
  output of system tools: no state, no interaction;
- the text of queries and the checks of parameters against regular expressions;
- hashing of passwords, prompts, registration: sequential programs;
- the task manager, the services and the application class: their source is not in
  this repository;
- `pgconf/filemgmt.py`, `Sessions.add_tuple` and `delete_metric`, which nothing calls;
- packaging.

Plan:

1. The behaviours the listed hazards leave without a property: errors that `delete`
   does not raise, a handshake that blocks the main thread.
