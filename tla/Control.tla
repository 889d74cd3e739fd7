-------------------------------- MODULE Control --------------------------------
(***************************************************************************)
(* The PostgreSQL server as the agent acts on it: POST                     *)
(* /administration/control (plugins/administration), which announces the   *)
(* action, runs the configured pg_ctl and polls the server, and POST       *)
(* /activity/kill (plugins/activity), which terminates backends one by     *)
(* one and announces each; with the log of the announcements               *)
(* (notification.py).  HTTP threads do one request after another, beside   *)
(* each other.  The server and pg_ctl are external: what a command leaves  *)
(* the server in is a choice, and so is whether it returns before the end. *)
(***************************************************************************)
EXTENDS Records

CONSTANTS
    Threads,        \* HTTP threads; the connection of one has its name
    Commands,       \* the actions asked for: some of start, stop, restart, reload
    Sessions,       \* the sessions of other clients on the server
    Attempts,       \* connections tried in the 10 seconds of a poll
    Limit,          \* records the log keeps (1000 in the code)
    Times,          \* times of the clock, which may be set back
    MaxRecords,     \* bound: no request begins when as many were stored
    None

ASSUME CommandsAssumption == Commands \subseteq {"start", "stop", "restart", "reload"}
ASSUME NoneAssumption == None \notin Commands /\ None \notin Times /\ None \notin {"up", "down"}
ASSUME NumberAssumption == Attempts \in Nat \ {0} /\ Limit \in Nat \ {0} /\ Times \subseteq Int

VARIABLES
    server,     \* the server; "leaving" and "restarting" are asked to and still accept
    backends,   \* the sessions and threads that have a backend
    ctl,        \* ctl[t]: the request of thread t
    now,        \* the clock
    log,        \* the table action_logs
    stored,     \* history: every record ever stored in it
    promised    \* history: what an answer "ok" has said of the server

logVars == <<log, stored>>
vars == <<server, backends, ctl, now, logVars, promised>>

(* clear and disturbed are history: the command was executed and left no   *)
(* server that a poll could take for the one asked for; another control    *)
(* was in progress meanwhile.                                              *)
Request ==
    [pc : {"idle", "push", "pg_ctl", "poll", "kill", "announce"},
     action : Commands \cup {None}, time : Times \cup {None}, tries : 0 .. Attempts - 1,
     pids : SUBSET (Sessions \cup Threads), clear : BOOLEAN, disturbed : BOOLEAN]

Idle == [pc |-> "idle", action |-> None, time |-> None, tries |-> 0, pids |-> {},
         clear |-> FALSE, disturbed |-> FALSE]

States == {"up", "leaving", "restarting", "stopping", "down", "starting"}

Accepting == server \in {"up", "leaving", "restarting"}

Init ==
    /\ server = "up" /\ backends = {}
    /\ ctl = [t \in Threads |-> Idle]
    /\ now \in Times
    /\ log = {} /\ stored = {}
    /\ promised = None

-----------------------------------------------------------------------------
(* Bug variant: the purge keeps the oldest records. *)
Stored_oldest(time) ==
    LET records == log \cup {[time |-> time, n |-> Cardinality(stored)]} IN
    /\ stored' = stored \cup records
    /\ log' = {r \in records : Cardinality({s \in records : s.time < r.time}) < Limit}

(* NotificationMgmt.push: the record is added and the table purged, in one *)
(* transaction.  Records differ, also those of one time.                   *)
Stored(time) ==
    LET record == [time |-> time, n |-> Cardinality(stored)] IN
    /\ stored' = stored \cup {record}
    /\ log' = Added(log, record, Limit)

(* A notification takes the time when it is built. *)
Notification == now

Controlled == {t \in Threads : ctl[t].action # None}

(* POST /administration/control *)
post_pg_control(t, action) ==
    /\ ctl[t].pc = "idle" /\ Cardinality(stored) < MaxRecords
    /\ ctl' = [u \in Threads |->
                  IF u = t THEN [Idle EXCEPT !.pc = "push", !.action = action,
                                             !.time = Notification,
                                             !.disturbed = Controlled # {}]
                  ELSE [ctl[u] EXCEPT !.disturbed = u \in Controlled]]
    /\ UNCHANGED <<server, backends, now, logVars, promised>>

Answer(t) == ctl' = [ctl EXCEPT ![t] = Idle]

(* The notification is stored; or it is not, the database being locked,    *)
(* and the request ends with the error.                                    *)
push(t) ==
    /\ ctl[t].pc = "push"
    /\ \/ /\ Stored(ctl[t].time)
          /\ ctl' = [ctl EXCEPT ![t].pc = "pg_ctl", ![t].time = None]
       \/ Answer(t) /\ UNCHANGED logVars
    /\ UNCHANGED <<server, backends, now, promised>>

-----------------------------------------------------------------------------
(* What pg_ctl may leave the server in when it returns 0.  Nothing says    *)
(* that it waits for the end, and it may be a wrapper: a start finds a     *)
(* server it leaves alone, also one on its way down; what a restart asks   *)
(* for is done later.                                                      *)
After(action) ==
    CASE action = "start"   -> IF server \in {"down", "starting"}
                               THEN {"starting", "up", "down"} ELSE {server}
      [] action = "stop"    -> IF Accepting \/ server = "starting"
                               THEN {"leaving", "stopping", "down"} \cup ({server} \cap {"restarting"})
                               ELSE {server}
      [] action = "restart" -> {"starting", "up"} \cup {IF Accepting THEN "restarting" ELSE server}
      [] action = "reload"  -> {server} \ {"down"}

(* And when it fails: what it has begun may go on, the time it waits for   *)
(* the end being over.                                                     *)
AfterFailure(action) ==
    {server} \cup (CASE action = "start"   -> IF server = "down" THEN {"starting"} ELSE {}
                     [] action = "stop"    -> IF Accepting THEN {"leaving"} ELSE {}
                     [] action = "restart" -> {"down", "starting"}
                                              \cup (IF Accepting THEN {"leaving"} ELSE {})
                     [] action = "reload"  -> {})

(* Bug variant: a restart keeps the backends until they end. *)
Ran_keeps(action, rcode, state) ==
    [rcode |-> rcode, executed |-> TRUE, state |-> state,
     backends |-> IF state = "down" THEN {} ELSE backends]

(* The command has run: backends are cut with the server. *)
Ran(action, rcode, state) ==
    [rcode |-> rcode, executed |-> TRUE, state |-> state,
     backends |-> IF \/ state \in {"down", "starting"}
                     \/ action = "restart" /\ rcode = 0 /\ state = "up"
                  THEN {} ELSE backends]

(* exec_script: the command succeeds; it fails, with a code that is not 0; *)
(* or the system cannot execute it, and the code is 0 all the same.        *)
exec_script(action) ==
    {Ran(action, 0, state) : state \in After(action)}
    \cup {Ran(action, 1, state) : state \in AfterFailure(action)}
    \cup {[rcode |-> 0, executed |-> FALSE, state |-> server, backends |-> backends]}

(* A start or a restart has left no server that is to go down before it    *)
(* comes up, a stop none that is to come up.                               *)
Clear(action, result) ==
    /\ result.executed
    /\ result.state # "restarting"
    /\ action = "stop" \/ result.state # "leaving"

(* The command is executed; a failure ends the request with an error, a    *)
(* reload is answered "ok" and the others go on to poll the server.        *)
pg_ctl(t) ==
    LET action == ctl[t].action IN
    /\ ctl[t].pc = "pg_ctl"
    /\ \E result \in exec_script(action) :
          /\ server' = result.state /\ backends' = result.backends
          /\ promised' = IF action = "reload" \/ ~result.executed THEN promised ELSE None
          /\ IF result.rcode # 0 \/ action = "reload" THEN Answer(t)
             ELSE ctl' = [ctl EXCEPT ![t].pc = "poll", ![t].clear = Clear(action, result)]
    /\ UNCHANGED <<now, logVars>>

Promise(t, state) ==
    promised' = IF ctl[t].clear /\ ~ctl[t].disturbed THEN state ELSE promised

(* The server is as the action wants it, as far as a connection can tell.  *)
Reached(action) == IF action = "stop" THEN ~Accepting ELSE Accepting

(* The 10 seconds may be over after any attempt, and are after the last.   *)
Retry(t) ==
    \/ ctl[t].tries < Attempts - 1 /\ ctl' = [ctl EXCEPT ![t].tries = @ + 1]
    \/ Answer(t)

(* Bug variant: a connection is not tried once the command has returned 0. *)
poll_skipped(t) ==
    /\ ctl[t].pc = "poll"
    /\ Promise(t, IF ctl[t].action = "stop" THEN "down" ELSE "up")
    /\ Answer(t)
    /\ UNCHANGED <<server, backends, now, logVars>>

(* Bug variant: the time is not looked at while the server is not reached. *)
poll_forever(t) ==
    /\ ctl[t].pc = "poll"
    /\ IF Reached(ctl[t].action)
       THEN Answer(t) /\ Promise(t, IF ctl[t].action = "stop" THEN "down" ELSE "up")
       ELSE UNCHANGED <<ctl, promised>>
    /\ UNCHANGED <<server, backends, now, logVars>>

(* One attempt, connect and SELECT 1: "ok" if the server is reached, "ko"  *)
(* when the 10 seconds are over.                                           *)
poll(t) ==
    /\ ctl[t].pc = "poll"
    /\ IF Reached(ctl[t].action)
       THEN Answer(t) /\ Promise(t, IF ctl[t].action = "stop" THEN "down" ELSE "up")
       ELSE Retry(t) /\ UNCHANGED promised
    /\ UNCHANGED <<server, backends, now, logVars>>

(* A server that accepts may refuse this connection, having no more to     *)
(* give: a stop takes it for the end.                                      *)
poll_refused(t) ==
    /\ ctl[t].pc = "poll" /\ Accepting
    /\ IF ctl[t].action = "stop" THEN Answer(t) ELSE Retry(t)
    /\ UNCHANGED <<server, backends, now, logVars, promised>>

-----------------------------------------------------------------------------
(* POST /activity/kill: the request connects, or ends with an error.       *)
post_activity_kill(t, pids) ==
    /\ ctl[t].pc = "idle" /\ Cardinality(stored) < MaxRecords
    /\ Accepting
    /\ backends' = backends \cup {t}
    /\ ctl' = [ctl EXCEPT ![t] = [Idle EXCEPT !.pc = "kill", !.pids = pids]]
    /\ UNCHANGED <<server, now, logVars, promised>>

(* pg_terminate_backend(pid), true or false; the notification is built. *)
pg_terminate_backend(t, pid) ==
    /\ ctl[t].pc = "kill" /\ pid \in ctl[t].pids /\ t \in backends
    /\ backends' = backends \ {pid}
    /\ ctl' = [ctl EXCEPT ![t].pc = "announce", ![t].pids = @ \ {pid},
                          ![t].time = Notification]
    /\ UNCHANGED <<server, now, logVars, promised>>

(* Stored or not: an error is swallowed. *)
announce(t) ==
    /\ ctl[t].pc = "announce"
    /\ Stored(ctl[t].time) \/ UNCHANGED logVars
    /\ ctl' = [ctl EXCEPT ![t].pc = "kill", ![t].time = None]
    /\ UNCHANGED <<server, backends, now, promised>>

(* The end of the list, or an error of the connection, which was cut: the  *)
(* backends that are left in the list stay.                                *)
close(t) ==
    /\ ctl[t].pc = "kill" /\ (ctl[t].pids = {} \/ t \notin backends)
    /\ backends' = backends \ {t}
    /\ Answer(t)
    /\ UNCHANGED <<server, now, logVars, promised>>

-----------------------------------------------------------------------------
(* Other clients of the server, and what it does by itself: external.      *)
Connect(s) ==
    /\ Accepting
    /\ backends' = backends \cup {s}
    /\ UNCHANGED <<server, ctl, now, logVars, promised>>

Disconnect(s) ==
    /\ backends' = backends \ {s}
    /\ UNCHANGED <<server, ctl, now, logVars, promised>>

Proceed ==
    /\ \/ server = "leaving" /\ server' = "stopping" /\ UNCHANGED backends
       \/ server = "restarting" /\ server' = "starting" /\ backends' = {}
       \/ server = "stopping" /\ server' = "down" /\ backends' = {}
       \/ server = "starting" /\ server' \in {"up", "down"} /\ UNCHANGED backends
    /\ UNCHANGED <<ctl, now, logVars, promised>>

SetClock ==
    /\ now' \in Times
    /\ UNCHANGED <<server, backends, ctl, logVars, promised>>

GoOn(t) ==
    \/ push(t) \/ pg_ctl(t) \/ poll(t) \/ poll_refused(t)
    \/ \E pid \in ctl[t].pids : pg_terminate_backend(t, pid)
    \/ announce(t) \/ close(t)

Next ==
    \/ \E t \in Threads :
          \/ GoOn(t)
          \/ \E action \in Commands : post_pg_control(t, action)
          \/ \E pids \in SUBSET backends \ {{}} : post_activity_kill(t, pids)
    \/ \E s \in Sessions : Connect(s) \/ Disconnect(s)
    \/ Proceed
    \/ SetClock

(* A thread that has begun a request runs on, the time of its attempts     *)
(* passing; nobody else owes anything, the server included.                *)
Spec == Init /\ [][Next]_vars /\ \A t \in Threads : WF_vars(GoOn(t))

-----------------------------------------------------------------------------
(* The requests, the server and the log have their values; a server that   *)
(* is down has no backend.                                                 *)
TypeOK ==
    /\ server \in States
    /\ backends \subseteq Sessions \cup Threads
    /\ ctl \in [Threads -> Request]
    /\ now \in Times
    /\ log \subseteq stored
    /\ \A record \in stored : record.time \in Times
    /\ promised \in {None, "up", "down"}
    /\ server \in {"down", "starting"} => backends = {}

(* The notifications were stored in the order of their times, no two of    *)
(* which are the same.                                                     *)
InOrder(records) == \A r, s \in records : r.n < s.n => r.time < s.time

(* What the documentation of Notification expects, "FIFO behavior"         *)
(* (notification.py:25): what was stored first is purged first.  The table *)
(* is purged by time (notification.py:79): run `fifo` shows a record that  *)
(* is purged as soon as it is stored, the clock having been set back or    *)
(* another thread having built a later one before.                         *)
Fifo == \A gone \in stored \ log, kept \in log : gone.n < kept.n

(* The behaviour of a queue of at most Limit records, purged bit by bit at *)
(* each push: the log is the last ones stored, none missing and none more. *)
(* Only if they were stored in the order of their times: it excepts        *)
(* notifications of the same time, which stay or go together, a clock that *)
(* was set back, and threads that store in another order than they built.  *)
FifoIfInOrder ==
    InOrder(stored) => log = {r \in stored : r.n >= Cardinality(stored) - Limit}

(* What the answer "ok" to a start, restart or stop says of the server     *)
(* holds until the next command is executed: a server said to be up does   *)
(* not turn out to be about to stop, one said to be stopped does not come  *)
(* up (administration/__init__.py:45-84).  It excepts the answer to        *)
(* - a control that was not alone;                                         *)
(* - a command that could not be executed, of which the code is 0;         *)
(* - a start or restart whose command returned 0 over a server that still  *)
(*   accepts and is to go down: a start that does not wait finds the       *)
(*   server of an earlier stop, a restart that does not wait its own;      *)
(* - a stop whose command returned 0 over a server that an earlier restart *)
(*   is to bring up;                                                       *)
(* - a stop whose last connection was refused for want of another.         *)
(* In each the poll takes one server for another.                          *)
AnswerHolds ==
    /\ promised = "up" => server = "up"
    /\ promised = "down" => server \in {"stopping", "down"}

(* Every control is answered, whatever the server does: no poll goes on    *)
(* for ever.                                                               *)
ControlAnswered == \A t \in Threads : ctl[t].pc = "push" ~> ctl[t].pc = "idle"

(* The server is one that Maintenance can work with: what connects, is     *)
(* cut and comes back does so as Server says.                              *)
Seen == INSTANCE Server WITH Sessions <- Sessions \cup Threads, accepting <- Accepting

ServerSpec == Seen!Spec

================================================================================
