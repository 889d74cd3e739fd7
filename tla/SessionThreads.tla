---------------------------- MODULE SessionThreads ----------------------------
(***************************************************************************)
(* The session table of temboard-agent (sharedmemory.py) and every thread  *)
(* that reads or writes it: one thread per HTTP request (api.py, reached   *)
(* through httpd.py) and the main thread, which accepts a connection or    *)
(* times out and then purges the expired sessions.                         *)
(*                                                                         *)
(* A step makes at most one access to the shared array.  An element read   *)
(* from it, sessions[k], is a live view of slot k and not a copy; an       *)
(* element written to it is copied in one go.                              *)
(***************************************************************************)
EXTENDS Integers

CONSTANTS
    Threads,    \* threads the HTTP server may have running at once
    Sids,       \* identifiers gen_sessionid may return (bounds the logins)
    Users,      \* users of the password file
    NoSid,      \* b'', the sessionid of a zeroed slot
    NoUser,     \* b'', the username of a zeroed slot
    Routes,     \* routes with check_session: those that look at sessions
                \* again, and "other" for all that do not
    N,          \* size of the array
    TTL         \* ticks a session may stay unused

ASSUME SizeAssumption == N \in Nat \ {0} /\ TTL \in Nat
ASSUME NullAssumption == NoSid \notin Sids /\ NoUser \notin Users
ASSUME RouteAssumption == Routes \subseteq {"other", "logout", "profile"}

VARIABLES
    sessions,   \* the shared array of Session structures
    main,       \* the main thread: what it does next and at which slot
    pc,         \* pc[t]: what request thread t does next
    route,      \* route[t]: the route whose session t is checking
    mine,       \* mine[t]: the Session t has built, or the header's X-Session
    i,          \* i[t]: the slot the loop of t is at
    view,       \* view[t]: the slot t holds a view of, 0 if none
    seen,       \* seen[t]: the sessionid t has read and not yet compared
    issued,     \* history: the user each identifier was drawn for
    held        \* history: the slots that have held the X-Session of t ever
                \* since t began to look for it

vars == <<sessions, main, pc, route, mine, i, view, seen, issued, held>>

Slots == 1 .. N
Ages == 0 .. TTL + 1
Expired(age) == age > TTL

(* A Session structure, its time kept as an age in ticks; Session() has    *)
(* time 0.0, which is older than any TTL.                                  *)
Session == [sid : Sids \cup {NoSid}, user : Users \cup {NoUser}, age : Ages]
Zero == [sid |-> NoSid, user |-> NoUser, age |-> TTL + 1]

LoginSteps == {"add_scan", "add_zero", "claim_scan", "claim_write"}
ViewSteps == {"stamp", "upd_read", "upd_cmp", "upd_write"}
CheckSteps == {"find"} \cup ViewSteps
RouteSteps == {"del_scan", "del_write", "prof_find"}
Steps == {"idle", "recv"} \cup LoginSteps \cup CheckSteps \cup RouteSteps
MainSteps == {"serve", "sid", "time", "clear"}

Live == {sessions[k].sid : k \in Slots} \ {NoSid}

(* The identifiers a client may send: those some login has finished with.  *)
Known == {s \in Sids : /\ issued[s] # NoUser
                       /\ \A t \in Threads : pc[t] \in LoginSteps => mine[t].sid # s}

TypeOK ==
    /\ sessions \in [Slots -> Session]
    /\ main \in [at : MainSteps, slot : Slots]
    /\ pc \in [Threads -> Steps]
    /\ route \in [Threads -> Routes \cup {"other"}]
    /\ mine \in [Threads -> Session]
    /\ i \in [Threads -> Slots]
    /\ view \in [Threads -> 0 .. N]
    /\ seen \in [Threads -> Sids \cup {NoSid}]
    /\ issued \in [Sids -> Users \cup {NoUser}]
    /\ held \in [Threads -> SUBSET Slots]

Init ==
    /\ sessions = [k \in Slots |-> Zero]
    /\ main = [at |-> "serve", slot |-> 1]
    /\ pc = [t \in Threads |-> "idle"]
    /\ route = [t \in Threads |-> "other"]
    /\ mine = [t \in Threads |-> Zero]
    /\ i = [t \in Threads |-> 1]
    /\ view = [t \in Threads |-> 0]
    /\ seen = [t \in Threads |-> NoSid]
    /\ issued = [s \in Sids |-> NoUser]
    /\ held = [t \in Threads |-> {}]

-----------------------------------------------------------------------------
(* Building blocks of the steps *)

(* The history variable follows each step: a thread that has just taken up *)
(* an identifier holds every slot that contains it, and keeps those slots  *)
(* only as long as they contain it and lookups of it may come.             *)
Observe ==
    held' = [t \in Threads |->
                {k \in Slots : /\ pc'[t] \in CheckSteps \cup {"prof_find"}
                               /\ sessions'[k].sid = mine'[t].sid
                               /\ pc[t] # "recv" => k \in held[t]}]

Put(k, session) == sessions' = [sessions EXCEPT ![k] = session]

(* The answer is sent and the thread ends: its locals are gone. *)
Answer(t) ==
    /\ pc' = [pc EXCEPT ![t] = "idle"]
    /\ route' = [route EXCEPT ![t] = "other"]
    /\ mine' = [mine EXCEPT ![t] = Zero]
    /\ i' = [i EXCEPT ![t] = 1]
    /\ view' = [view EXCEPT ![t] = 0]
    /\ seen' = [seen EXCEPT ![t] = NoSid]

Goto(t, step, slot) ==
    /\ pc' = [pc EXCEPT ![t] = step]
    /\ i' = [i EXCEPT ![t] = slot]
    /\ UNCHANGED <<route, mine, view, seen>>

(* check_sessionid returns, its locals gone, and the route is entered. *)
Enter(t, step) ==
    /\ pc' = [pc EXCEPT ![t] = step]
    /\ route' = [route EXCEPT ![t] = "other"]
    /\ i' = [i EXCEPT ![t] = 1]
    /\ view' = [view EXCEPT ![t] = 0]
    /\ UNCHANGED <<mine, seen>>

(* for i in range(0, self.size): back to `step` at the next slot ... *)
Loop(t, step) == i[t] < N /\ Goto(t, step, i[t] + 1)
(* ... until the slots are exhausted. *)
Exhausted(t) == i[t] = N

-----------------------------------------------------------------------------
(* The main thread: HTTPDService.serve1 *)

(* handle_request accepts a connection and a thread is started for it. *)
Accept(t) ==
    /\ main.at = "serve"
    /\ pc[t] = "idle"
    /\ main' = [at |-> "sid", slot |-> 1]
    /\ Goto(t, "recv", 1)
    /\ UNCHANGED <<sessions, issued>>
    /\ Observe

(* handle_request gives up after a second, or the handshake fails. *)
Timeout ==
    /\ main.at = "serve"
    /\ main' = [at |-> "sid", slot |-> 1]
    /\ UNCHANGED <<sessions, issued, pc, route, mine, i, view, seen>>
    /\ Observe

(* Bug variants: range(0, self.size + 1) and range(0, self.size - 1). *)
NextSlotPastEnd ==
    main' = IF main.slot <= N THEN [at |-> "sid", slot |-> main.slot + 1]
                              ELSE [at |-> "serve", slot |-> 1]
NextSlotMissesLast ==
    main' = IF main.slot < N - 1 THEN [at |-> "sid", slot |-> main.slot + 1]
                                 ELSE [at |-> "serve", slot |-> 1]
(* for i in range(0, self.size) of purge_expired. *)
NextSlot ==
    main' = IF main.slot < N THEN [at |-> "sid", slot |-> main.slot + 1]
                             ELSE [at |-> "serve", slot |-> 1]

(* purge_expired: is there a session in the slot? *)
purge_sid ==
    /\ main.at = "sid"
    /\ IF sessions[main.slot].sid # NoSid THEN main' = [main EXCEPT !.at = "time"]
                                          ELSE NextSlot
    /\ UNCHANGED <<sessions, issued, pc, route, mine, i, view, seen>>
    /\ Observe

(* Is the time in the slot too old? *)
purge_time ==
    /\ main.at = "time"
    /\ IF Expired(sessions[main.slot].age) THEN main' = [main EXCEPT !.at = "clear"]
                                           ELSE NextSlot
    /\ UNCHANGED <<sessions, issued, pc, route, mine, i, view, seen>>
    /\ Observe

(* The notification has been pushed; the slot is zeroed, whatever it holds *)
(* by now.                                                                 *)
purge_clear ==
    /\ main.at = "clear"
    /\ Put(main.slot, Zero)
    /\ NextSlot
    /\ UNCHANGED <<issued, pc, route, mine, i, view, seen>>
    /\ Observe

-----------------------------------------------------------------------------
(* POST /login *)

(* A request that never looks at a session: no such route, bad content,    *)
(* key authentication, a route that needs none, or a failed login.         *)
Dismiss(t) ==
    /\ pc[t] = "recv"
    /\ Answer(t)
    /\ UNCHANGED <<sessions, main, issued>>
    /\ Observe

(* The user is authenticated and an identifier is drawn for a new Session. *)
(* The lookup by username before that compares str with bytes: it finds    *)
(* no session, whatever the slots hold, and changes nothing.               *)
login(t, u, s) ==
    /\ pc[t] = "recv"
    /\ issued[s] = NoUser
    /\ issued' = [issued EXCEPT ![s] = u]
    /\ mine' = [mine EXCEPT ![t] = [sid |-> s, user |-> u, age |-> 0]]
    /\ pc' = [pc EXCEPT ![t] = "add_scan"]
    /\ UNCHANGED <<sessions, main, route, i, view, seen>>
    /\ Observe

(* Bug variant: the first loop of add stops at a free slot. *)
add_scan_stops_at_free(t) ==
    /\ pc[t] = "add_scan"
    /\ \/ sessions[i[t]].sid = NoSid /\ Goto(t, "claim_scan", 1)
       \/ /\ sessions[i[t]].sid # NoSid
          /\ sessions[i[t]].user = mine[t].user
          /\ Goto(t, "add_zero", i[t])
       \/ /\ sessions[i[t]].sid # NoSid
          /\ sessions[i[t]].user # mine[t].user
          /\ \/ Loop(t, "add_scan")
             \/ Exhausted(t) /\ Goto(t, "claim_scan", 1)
    /\ UNCHANGED <<sessions, main, issued>>
    /\ Observe

(* add, first loop.  The identifier being new, SharedItem_exists is out of *)
(* reach and the reads of sid and of user may be taken as one step.        *)
add_scan(t) ==
    /\ pc[t] = "add_scan"
    /\ sessions[i[t]].sid # mine[t].sid
    /\ \/ /\ sessions[i[t]].user = mine[t].user
          /\ Goto(t, "add_zero", i[t])
       \/ /\ sessions[i[t]].user # mine[t].user
          /\ \/ Loop(t, "add_scan")
             \/ Exhausted(t) /\ Goto(t, "claim_scan", 1)
    /\ UNCHANGED <<sessions, main, issued>>
    /\ Observe

(* An earlier session of the user is removed and the loop goes on. *)
add_zero(t) ==
    /\ pc[t] = "add_zero"
    /\ Put(i[t], Zero)
    /\ \/ Loop(t, "add_scan")
       \/ Exhausted(t) /\ Goto(t, "claim_scan", 1)
    /\ UNCHANGED <<main, issued>>
    /\ Observe

(* add, second loop: look for a zeroed slot, or give up with error 500. *)
claim_scan(t) ==
    /\ pc[t] = "claim_scan"
    /\ \/ sessions[i[t]].sid = NoSid /\ Goto(t, "claim_write", i[t])
       \/ sessions[i[t]].sid # NoSid /\ Loop(t, "claim_scan")
       \/ sessions[i[t]].sid # NoSid /\ Exhausted(t) /\ Answer(t)
    /\ UNCHANGED <<sessions, main, issued>>
    /\ Observe

(* The slot is written, whatever it holds by now, and the login succeeds. *)
claim_write(t) ==
    /\ pc[t] = "claim_write"
    /\ Put(i[t], mine[t])
    /\ Answer(t)
    /\ UNCHANGED <<main, issued>>
    /\ Observe

-----------------------------------------------------------------------------
(* Every other route with check_session: check_sessionid, then the route *)

check_sessionid(t, s, r) ==
    /\ pc[t] = "recv"
    /\ s \in Known
    /\ mine' = [mine EXCEPT ![t] = [Zero EXCEPT !.sid = s]]
    /\ route' = [route EXCEPT ![t] = r]
    /\ pc' = [pc EXCEPT ![t] = "find"]
    /\ UNCHANGED <<sessions, main, issued, i, view, seen>>
    /\ Observe

(* Bug variant: the lookup gives up at the first free slot. *)
get_by_sessionid_stops_at_free(t) ==
    /\ pc[t] = "find"
    /\ \/ /\ sessions[i[t]].sid = mine[t].sid
          /\ view' = [view EXCEPT ![t] = i[t]]
          /\ pc' = [pc EXCEPT ![t] = "stamp"]
          /\ i' = [i EXCEPT ![t] = 1]
          /\ UNCHANGED <<route, mine, seen>>
       \/ sessions[i[t]].sid \notin {mine[t].sid, NoSid} /\ Loop(t, "find")
       \/ sessions[i[t]].sid = NoSid /\ Answer(t)
    /\ UNCHANGED <<sessions, main, issued>>
    /\ Observe

(* get_by_sessionid returns a view of the first slot that matches, or the  *)
(* request is refused with 401.                                            *)
get_by_sessionid(t) ==
    /\ pc[t] = "find"
    /\ \/ /\ sessions[i[t]].sid = mine[t].sid
          /\ view' = [view EXCEPT ![t] = i[t]]
          /\ pc' = [pc EXCEPT ![t] = "stamp"]
          /\ i' = [i EXCEPT ![t] = 1]
          /\ UNCHANGED <<route, mine, seen>>
       \/ sessions[i[t]].sid # mine[t].sid /\ Loop(t, "find")
       \/ sessions[i[t]].sid # mine[t].sid /\ Exhausted(t) /\ Answer(t)
    /\ UNCHANGED <<sessions, main, issued>>
    /\ Observe

(* session.time = time.time() goes straight to the slot behind the view;   *)
(* the username then read from it matters to no other step here.           *)
stamp(t) ==
    /\ pc[t] = "stamp"
    /\ sessions' = [sessions EXCEPT ![view[t]].age = 0]
    /\ Goto(t, "upd_read", 1)
    /\ UNCHANGED <<main, issued>>
    /\ Observe

(* update: the sessionid of slot i ... *)
upd_read(t) ==
    /\ pc[t] = "upd_read"
    /\ seen' = [seen EXCEPT ![t] = sessions[i[t]].sid]
    /\ pc' = [pc EXCEPT ![t] = "upd_cmp"]
    /\ UNCHANGED <<sessions, main, issued, route, mine, i, view>>
    /\ Observe

(* Bug variant: the comparison is missing, the first slot is written. *)
upd_cmp_missing(t) ==
    /\ pc[t] = "upd_cmp"
    /\ pc' = [pc EXCEPT ![t] = "upd_write"]
    /\ seen' = [seen EXCEPT ![t] = NoSid]
    /\ UNCHANGED <<sessions, main, issued, route, mine, i, view>>
    /\ Observe

(* ... is compared with that behind the view; at the end of the array the  *)
(* request is refused with 401.                                            *)
upd_cmp(t) ==
    LET same == seen[t] = sessions[view[t]].sid
        Then(step, slot) ==
            /\ pc' = [pc EXCEPT ![t] = step]
            /\ i' = [i EXCEPT ![t] = slot]
            /\ seen' = [seen EXCEPT ![t] = NoSid]
            /\ UNCHANGED <<route, mine, view>> IN
    /\ pc[t] = "upd_cmp"
    /\ \/ same /\ Then("upd_write", i[t])
       \/ ~same /\ i[t] < N /\ Then("upd_read", i[t] + 1)
       \/ ~same /\ Exhausted(t) /\ Answer(t)
    /\ UNCHANGED <<sessions, main, issued>>
    /\ Observe

(* Bug variants: the update leaves the username of the slot alone; the     *)
(* update stores a copy of the session taken when it was looked up.        *)
upd_write_no_user(t) ==
    /\ pc[t] = "upd_write"
    /\ Put(i[t], [sessions[view[t]] EXCEPT !.user = sessions[i[t]].user])
    /\ \/ route[t] = "other" /\ Answer(t)
       \/ route[t] = "logout" /\ Enter(t, "del_scan")
       \/ route[t] = "profile" /\ Enter(t, "prof_find")
    /\ UNCHANGED <<main, issued>>
    /\ Observe

upd_write_copy(t) ==
    /\ pc[t] = "upd_write"
    /\ Put(i[t], [sid |-> mine[t].sid, user |-> issued[mine[t].sid], age |-> 0])
    /\ \/ route[t] = "other" /\ Answer(t)
       \/ route[t] = "logout" /\ Enter(t, "del_scan")
       \/ route[t] = "profile" /\ Enter(t, "prof_find")
    /\ UNCHANGED <<main, issued>>
    /\ Observe

(* The slot behind the view is copied to slot i; the request is accepted   *)
(* and its route is run.                                                   *)
upd_write(t) ==
    /\ pc[t] = "upd_write"
    /\ Put(i[t], sessions[view[t]])
    /\ \/ route[t] = "other" /\ Answer(t)
       \/ route[t] = "logout" /\ Enter(t, "del_scan")
       \/ route[t] = "profile" /\ Enter(t, "prof_find")
    /\ UNCHANGED <<main, issued>>
    /\ Observe

(* logout, after its notification: delete the first slot that matches; if  *)
(* none does, SharedItem_not_found becomes error 500.                      *)
del_scan(t) ==
    /\ pc[t] = "del_scan"
    /\ \/ sessions[i[t]].sid = mine[t].sid /\ Goto(t, "del_write", i[t])
       \/ sessions[i[t]].sid # mine[t].sid /\ Loop(t, "del_scan")
       \/ sessions[i[t]].sid # mine[t].sid /\ Exhausted(t) /\ Answer(t)
    /\ UNCHANGED <<sessions, main, issued>>
    /\ Observe

(* Bug variant: logout only makes the session expire. *)
del_write_expires(t) ==
    /\ pc[t] = "del_write"
    /\ Put(i[t], [sessions[i[t]] EXCEPT !.age = TTL + 1])
    /\ Answer(t)
    /\ UNCHANGED <<main, issued>>
    /\ Observe

del_write(t) ==
    /\ pc[t] = "del_write"
    /\ Put(i[t], Zero)
    /\ Answer(t)
    /\ UNCHANGED <<main, issued>>
    /\ Observe

(* Bug variant: the second lookup gives up at the first free slot. *)
prof_find_stops_at_free(t) ==
    /\ pc[t] = "prof_find"
    /\ \/ sessions[i[t]].sid \in {mine[t].sid, NoSid} /\ Answer(t)
       \/ sessions[i[t]].sid \notin {mine[t].sid, NoSid} /\ Loop(t, "prof_find")
       \/ sessions[i[t]].sid \notin {mine[t].sid, NoSid} /\ Exhausted(t) /\ Answer(t)
    /\ UNCHANGED <<sessions, main, issued>>
    /\ Observe

(* profile looks the session up a second time. *)
prof_find(t) ==
    /\ pc[t] = "prof_find"
    /\ \/ sessions[i[t]].sid = mine[t].sid /\ Answer(t)
       \/ sessions[i[t]].sid # mine[t].sid /\ Loop(t, "prof_find")
       \/ sessions[i[t]].sid # mine[t].sid /\ Exhausted(t) /\ Answer(t)
    /\ UNCHANGED <<sessions, main, issued>>
    /\ Observe

-----------------------------------------------------------------------------
(* Time passes: every session grows older, the unsaved ones too. *)
Older(session) == [session EXCEPT !.age = IF Expired(@) THEN @ ELSE @ + 1]

Tick ==
    /\ sessions' = [k \in Slots |-> Older(sessions[k])]
    /\ mine' = [t \in Threads |-> Older(mine[t])]
    /\ UNCHANGED <<main, issued, pc, route, i, view, seen>>
    /\ Observe

purge_expired == purge_sid \/ purge_time \/ purge_clear

serve1 == Timeout \/ (\E t \in Threads : Accept(t)) \/ purge_expired

Request(t) ==
    \/ Dismiss(t)
    \/ \E u \in Users, s \in Sids : login(t, u, s)
    \/ add_scan(t) \/ add_zero(t) \/ claim_scan(t) \/ claim_write(t)
    \/ \E s \in Sids, r \in Routes : check_sessionid(t, s, r)
    \/ get_by_sessionid(t) \/ stamp(t) \/ upd_read(t) \/ upd_cmp(t) \/ upd_write(t)
    \/ del_scan(t) \/ del_write(t) \/ prof_find(t)

Next == serve1 \/ (\E t \in Threads : Request(t)) \/ Tick

Spec == Init /\ [][Next]_vars

(* The main thread never stops serving; clients and clock owe nothing. *)
FairSpec == Spec /\ WF_vars(serve1)

-----------------------------------------------------------------------------
(* A slot never mixes two sessions: whatever is copied where, and by whom, *)
(* it holds an identifier together with the user it was drawn for.         *)
OwnerIntegrity ==
    \A k \in Slots :
        LET session == sessions[k] IN
        IF session.sid = NoSid THEN session.user = NoUser
                               ELSE session.user = issued[session.sid]

(* A lookup refuses a request only if no slot has kept its session from    *)
(* the time the request began: threads that add, copy and remove other     *)
(* sessions meanwhile cannot make a steady session be missed.  An update   *)
(* refuses it only if the slot found by the lookup has lost the session.   *)
Refused(t) ==
    /\ pc[t] \in {"find", "upd_cmp", "prof_find"}
    /\ pc'[t] = "idle"
    /\ pc[t] = "prof_find" => sessions[i[t]].sid # mine[t].sid

RefusedOnlyIfGone ==
    [][\A t \in Threads :
          Refused(t) => IF pc[t] = "upd_cmp" THEN view[t] \notin held[t]
                                             ELSE held[t] = {}]_vars

(* The table implements the abstract registry: no identifier serves two    *)
(* users or comes back once it has ended, in spite of copies of slots      *)
(* taken through views that have gone stale.                               *)
Pending == {mine[t].sid : t \in {u \in Threads : pc[u] \in LoginSteps}}

StatusOf(s) ==
    IF issued[s] = NoUser THEN "new"
    ELSE IF s \in Live THEN "live"
    ELSE IF s \in Pending THEN "pending" ELSE "ended"

Registry == INSTANCE SessionRegistry
    WITH owner <- issued, status <- [s \in Sids |-> StatusOf(s)]

RegistrySpec == Registry!Spec

(* A user has at most one session.  Holds as long as one request is served *)
(* at a time, the purge running beside it.                                 *)
OneSessionPerUser ==
    \A k, l \in Slots :
        sessions[k].user = sessions[l].user /\ sessions[k].user # NoUser => k = l

(* A logout that answers has removed the session: sessions.delete promises *)
(* to "Remove a Session".                                                  *)
LogoutEnds ==
    [][\A t \in Threads :
          pc[t] = "del_write" /\ pc'[t] = "idle" => mine[t].sid \notin Live']_vars

(* A session ends by the purge, by its own logout or by a new login of its *)
(* user, and by nothing else: a check of one session or the storing of     *)
(* another takes no slot away.                                             *)
EndsByRule ==
    [][\A s \in Live \ Live' :
          \/ main.at = "clear" /\ sessions[main.slot].sid = s
          \/ \E t \in Threads :
                \/ pc[t] = "del_write" /\ mine[t].sid = s
                \/ pc[t] = "add_zero" /\ mine[t].user = issued[s]]_vars

(* purge_expired removes a Session "when the Session last update time +    *)
(* TTL is prior to current timestamp".                                     *)
PurgesExpiredOnly ==
    [][main.at = "clear" /\ main'.at # "clear" =>
          Expired(sessions[main.slot].age)]_vars

(* A session left unused beyond its TTL is purged in the end, or is taken  *)
(* up again by a request that came before the purge.                       *)
ExpiredInTable(s) == \E k \in Slots : sessions[k].sid = s /\ Expired(sessions[k].age)
ExpiredGoes == \A s \in Sids : ExpiredInTable(s) ~> ~ExpiredInTable(s)

=============================================================================
