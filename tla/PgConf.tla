-------------------------------- MODULE PgConf --------------------------------
(***************************************************************************)
(* POST /pgconf/configuration (plugins/pgconf/functions.py): each request  *)
(* reads the settings of PostgreSQL once, then checks its items and alters *)
(* the server one item after another, and asks for a reload at the end.    *)
(* PostgreSQL, and the notification log, answer through calls; requests    *)
(* and reloads interleave between them.                                    *)
(***************************************************************************)
EXTENDS Integers, Sequences

CONSTANTS
    Requests,   \* threads that serve a POST
    Names,      \* names of settings
    Restart,    \* those PostgreSQL changes at a restart only
    Values,     \* values the checks and the server accept
    Boot,       \* the value of a setting that is not stored
    Reset,      \* '' posted: go back to Boot
    Bad,        \* a value the checks reject; an unknown or a missing name
    Nil,        \* accepted values that the code takes for none when it writes
                \* them: 0 for a real setting, given with its unit
    Refused,    \* a value the checks accept and the server does not
    Posts       \* bodies clients send

ASSUME BootAssumption == Boot \in Values
ASSUME NilAssumption == Nil \subseteq Values
ASSUME RestartAssumption == Restart \subseteq Names
ASSUME MarkAssumption == {Reset, Bad, Refused} \cap Values = {}

(* One item of a body: the name, the new value, and whether it is to be    *)
(* stored even if nothing changes: 'force', or the same value in another   *)
(* spelling, which the comparison of strings takes for a change.           *)
Item == [name : Names, value : Values \cup {Reset, Bad, Refused}, force : BOOLEAN]

ASSUME PostsAssumption == Posts \subseteq Seq(Item)

VARIABLES
    running,    \* running[n]: the value in use, which pg_settings shows
    stored,     \* stored[n]: the value postgresql.auto.conf asks for
    signalled,  \* a reload has been asked for and not been done
    lost,       \* requests whose connection a restart has cut
    pc,         \* pc[r]: what request r does next
    post,       \* post[r]: the body of r
    at,         \* at[r]: the item of post[r] r is at
    rows,       \* rows[r]: the settings r has read
    log,        \* the setting changes announced in the notification log
    silent,     \* history: a notification could not be pushed
    synced      \* history: synced[r], r began with nothing stored that was
                \* not in use, and no other request has altered anything since

postgres == <<running, stored, signalled>>
vars == <<postgres, lost, pc, post, at, rows, log, silent, synced>>

Open == {"check", "push", "alter", "reload", "notify"}

TypeOK ==
    /\ running \in [Names -> Values]
    /\ stored \in [Names -> Values]
    /\ signalled \in BOOLEAN
    /\ lost \subseteq Requests
    /\ pc \in [Requests -> Open \cup {"idle"}]
    /\ post \in [Requests -> Posts \cup {<<>>}]
    /\ at \in [Requests -> Nat \ {0}]
    /\ \A r \in Requests : at[r] <= Len(post[r]) + 1
    /\ rows \in [Requests -> [Names -> Values]]
    /\ log \subseteq Names \X (Values \cup {Reset, Refused})
    /\ silent \in BOOLEAN
    /\ synced \in [Requests -> BOOLEAN]

Init ==
    /\ running = [n \in Names |-> Boot]
    /\ stored = [n \in Names |-> Boot]
    /\ signalled = FALSE
    /\ lost = {}
    /\ pc = [r \in Requests |-> "idle"]
    /\ post = [r \in Requests |-> <<>>]
    /\ at = [r \in Requests |-> 1]
    /\ rows = [r \in Requests |-> [n \in Names |-> Boot]]
    /\ log = {}
    /\ silent = FALSE
    /\ synced = [r \in Requests |-> FALSE]

-----------------------------------------------------------------------------
(* What the statement sent makes PostgreSQL store: SET for a value Python  *)
(* takes for true, RESET for None and for 0.0.                             *)
Target(item) == IF item.value \in Nil \cup {Reset} THEN Boot ELSE item.value
Current(r) == post[r][at[r]]
Done(r) == at[r] > Len(post[r])

(* The new value is compared with the one in use when the request began; a *)
(* reset, None by then, differs from any.                                  *)
Differs(r, item) == item.force \/ item.value # rows[r][item.name]

Goto(r, step) == pc' = [pc EXCEPT ![r] = step]

(* The answer is sent, 200 or an error, and the connection closed. *)
Answer(r) ==
    /\ Goto(r, "idle")
    /\ post' = [post EXCEPT ![r] = <<>>]
    /\ at' = [at EXCEPT ![r] = 1]
    /\ rows' = [rows EXCEPT ![r] = [n \in Names |-> Boot]]
    /\ lost' = lost \ {r}
    /\ synced' = [synced EXCEPT ![r] = FALSE]

(* post_settings begins: get_settings. *)
get_settings(r, body) ==
    /\ pc[r] = "idle"
    /\ Goto(r, "check")
    /\ post' = [post EXCEPT ![r] = body]
    /\ rows' = [rows EXCEPT ![r] = running]
    /\ synced' = [synced EXCEPT ![r] = stored = running]
    /\ at' = [at EXCEPT ![r] = 1]
    /\ UNCHANGED <<postgres, lost, log, silent>>

(* Bug variant: the loop leaves its index one further. *)
check_past_end(r) ==
    /\ pc[r] = "check"
    /\ \/ Done(r) /\ Goto(r, "reload") /\ at' = [at EXCEPT ![r] = @ + 1]
                  /\ UNCHANGED <<lost, post, rows, synced>>
       \/ ~Done(r) /\ Current(r).value = Bad /\ Answer(r)
       \/ /\ ~Done(r) /\ Current(r).value # Bad
          /\ IF Differs(r, Current(r))
             THEN Goto(r, "push") /\ at' = at
             ELSE Goto(r, "check") /\ at' = [at EXCEPT ![r] = @ + 1]
          /\ UNCHANGED <<lost, post, rows, synced>>
    /\ UNCHANGED <<postgres, log, silent>>

(* The next item is checked: error 406, go on to the next one if nothing   *)
(* is to be changed, or change it.  Items before it stay altered.          *)
check(r) ==
    /\ pc[r] = "check"
    /\ \/ Done(r) /\ Goto(r, "reload") /\ UNCHANGED <<lost, post, at, rows, synced>>
       \/ ~Done(r) /\ Current(r).value = Bad /\ Answer(r)
       \/ /\ ~Done(r) /\ Current(r).value # Bad
          /\ IF Differs(r, Current(r))
             THEN Goto(r, "push") /\ at' = at
             ELSE Goto(r, "check") /\ at' = [at EXCEPT ![r] = @ + 1]
          /\ UNCHANGED <<lost, post, rows, synced>>
    /\ UNCHANGED <<postgres, log, silent>>

(* Bug variant: the notification shows the value before the change. *)
push_previous(r) ==
    /\ pc[r] = "push"
    /\ Goto(r, "alter")
    /\ \/ log' = log \cup {<<Current(r).name, rows[r][Current(r).name]>>} /\ silent' = silent
       \/ log' = log /\ silent' = TRUE
    /\ UNCHANGED <<postgres, lost, post, at, rows, synced>>

(* The change is announced; a failure to do so is logged and ignored. *)
push(r) ==
    /\ pc[r] = "push"
    /\ Goto(r, "alter")
    /\ \/ log' = log \cup {<<Current(r).name, Current(r).value>>} /\ silent' = silent
       \/ log' = log /\ silent' = TRUE
    /\ UNCHANGED <<postgres, lost, post, at, rows, synced>>

(* Bug variant: an error of ALTER SYSTEM is logged and ignored too. *)
alter_ignores_error(r) ==
    /\ pc[r] = "alter"
    /\ stored' = IF r \in lost \/ Current(r).value = Refused THEN stored
                 ELSE [stored EXCEPT ![Current(r).name] = Target(Current(r))]
    /\ synced' = [q \in Requests |-> q = r /\ synced[q]]
    /\ Goto(r, "check")
    /\ at' = [at EXCEPT ![r] = @ + 1]
    /\ UNCHANGED <<running, signalled, lost, post, rows, log, silent>>

(* ALTER SYSTEM SET or RESET, or error 408. *)
alter(r) ==
    /\ pc[r] = "alter"
    /\ \/ /\ r \notin lost
          /\ Current(r).value # Refused
          /\ stored' = [stored EXCEPT ![Current(r).name] = Target(Current(r))]
          /\ synced' = [q \in Requests |-> q = r /\ synced[q]]
          /\ Goto(r, "check")
          /\ at' = [at EXCEPT ![r] = @ + 1]
          /\ UNCHANGED <<lost, post, rows>>
       \/ /\ r \in lost \/ Current(r).value = Refused
          /\ Answer(r)
          /\ UNCHANGED stored
    /\ UNCHANGED <<running, signalled, log, silent>>

(* Bug variant: no reload unless this request has altered something. *)
pg_reload_conf_if_altered(r) ==
    /\ pc[r] = "reload"
    /\ \/ /\ r \notin lost
          /\ signalled' = (signalled \/ \E k \in 1 .. Len(post[r]) : Differs(r, post[r][k]))
          /\ Goto(r, "notify")
          /\ UNCHANGED <<lost, post, at, rows, synced>>
       \/ r \in lost /\ Answer(r) /\ signalled' = signalled
    /\ UNCHANGED <<running, stored, log, silent>>

(* SELECT pg_reload_conf() returns as soon as the server is signalled.  It *)
(* raises when the connection is gone, which is answered by error 500.     *)
pg_reload_conf(r) ==
    /\ pc[r] = "reload"
    /\ \/ /\ r \notin lost
          /\ signalled' = TRUE
          /\ Goto(r, "notify")
          /\ UNCHANGED <<lost, post, at, rows, synced>>
       \/ r \in lost /\ Answer(r) /\ signalled' = signalled
    /\ UNCHANGED <<running, stored, log, silent>>

(* The reload is announced, which no property looks at, and the request is *)
(* answered with 200.                                                      *)
notify(r) ==
    /\ pc[r] = "notify"
    /\ Answer(r)
    /\ UNCHANGED <<postgres, log, silent>>

(* PostgreSQL does the reload ... *)
Reload ==
    /\ signalled
    /\ running' = [n \in Names |-> IF n \in Restart THEN running[n] ELSE stored[n]]
    /\ signalled' = FALSE
    /\ UNCHANGED <<stored, lost, pc, post, at, rows, log, silent, synced>>

(* ... or is restarted, from the administration plugin or by hand, which   *)
(* cuts the connections of the requests in progress.                       *)
RestartServer ==
    /\ running' = stored
    /\ signalled' = FALSE
    /\ lost' = {r \in Requests : pc[r] \in Open}
    /\ UNCHANGED <<stored, pc, post, at, rows, log, silent, synced>>

post_settings(r) == check(r) \/ push(r) \/ alter(r) \/ pg_reload_conf(r) \/ notify(r)

Next ==
    \/ \E r \in Requests, body \in Posts : get_settings(r, body)
    \/ \E r \in Requests : post_settings(r)
    \/ Reload \/ RestartServer

Spec == Init /\ [][Next]_vars

(* The server does the reloads it is asked for and a thread that has begun *)
(* a request runs it to its end; clients owe nothing.                      *)
FairSpec ==
    /\ Spec
    /\ WF_vars(Reload)
    /\ \A r \in Requests : WF_vars(post_settings(r))

-----------------------------------------------------------------------------
(* What an item asks for: the value posted, 0 included, or no value.       *)
Asked(item) == IF item.value = Reset THEN Boot ELSE item.value

NamedOnce(r, k) == \A l \in 1 .. Len(post[r]) : l # k => post[r][l].name # post[r][k].name
StoredAsPosted(r, k) == stored[post[r][k].name] = Asked(post[r][k])

Accepted(r) == pc[r] = "notify" /\ pc'[r] = "idle"

(* What a request answered with 200 has asked for is stored, for a setting *)
(* its body names once, when the request began with nothing stored that    *)
(* was not in use and no other request altered a setting beside it.  The   *)
(* exception: 0 posted for a real setting, for which the code asks         *)
(* PostgreSQL to forget the setting (`if setting['setting']`), so that its *)
(* default is what comes into use, under an answer of 200.                 *)
PostedIsStoredIfSynced ==
    [][\A r \in Requests : Accepted(r) /\ synced[r] =>
        \A k \in 1 .. Len(post[r]) :
            NamedOnce(r, k) /\ post[r][k].value \notin Nil => StoredAsPosted(r, k)]_vars

(* It does not hold in general: the test of a POST answered with 200 looks *)
(* for the posted value in postgresql.auto.conf.                           *)
PostedIsStored ==
    [][\A r \in Requests : Accepted(r) =>
        \A k \in 1 .. Len(post[r]) : NamedOnce(r, k) => StoredAsPosted(r, k)]_vars

(* Whatever PostgreSQL stores has been announced in the notification log,  *)
(* unless a notification was lost: also what a request that failed halfway *)
(* has left behind.                                                        *)
Announced == \A n \in Names : stored[n] # Boot => silent \/ <<n, stored[n]>> \in log

(* A request all of whose items have passed brings everything stored into  *)
(* use, what failed requests have left behind included.                    *)
InSync == \A n \in Names \ Restart : running[n] = stored[n]
Converges == \A r \in Requests : pc[r] = "reload" /\ r \notin lost ~> InSync

(* "At this point, all incoming parameters have been checked": a setting   *)
(* is announced and altered only when the whole body has passed.           *)
CheckedFirst ==
    \A r \in Requests : pc[r] = "push" =>
        \A k \in 1 .. Len(post[r]) : post[r][k].value # Bad

=============================================================================
