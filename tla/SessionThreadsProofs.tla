-------------------------- MODULE SessionThreadsProofs --------------------------
(***************************************************************************)
(* Theorems of SessionThreads, for any number of threads, slots, users and *)
(* identifiers.                                                            *)
(***************************************************************************)
EXTENDS SessionThreads, TLAPS

(* The values of each variable, one thread or one slot changed at a time. *)
LEMMA ZeroIsSession == Zero \in Session /\ Zero.sid = NoSid /\ Zero.user = NoUser
  BY SizeAssumption DEF Zero, Session, Ages

LEMMA SlotsFacts == 1 \in Slots /\ N \in Slots /\ Slots \subseteq 0 .. N
  BY SizeAssumption DEF Slots

LEMMA OlderIsSession ==
  ASSUME NEW session \in Session
  PROVE  /\ Older(session) \in Session
         /\ Older(session).sid = session.sid
         /\ Older(session).user = session.user
  BY SizeAssumption DEF Older, Session, Ages, Expired

LEMMA NextIsSlot == ASSUME NEW k \in Slots, k < N PROVE k + 1 \in Slots
  BY SizeAssumption DEF Slots

-----------------------------------------------------------------------------
(* A thread that updates the session it has found does it through a view   *)
(* of a slot: with this the type invariant is inductive.                   *)
ViewOK == \A t \in Threads : pc[t] \in ViewSteps => view[t] \in Slots
Typed == TypeOK /\ ViewOK

LocalsOK ==
    /\ pc \in [Threads -> Steps]
    /\ route \in [Threads -> Routes \cup {"other"}]
    /\ mine \in [Threads -> Session]
    /\ i \in [Threads -> Slots]
    /\ view \in [Threads -> 0 .. N]
    /\ seen \in [Threads -> Sids \cup {NoSid}]
    /\ ViewOK

SharedOK ==
    /\ sessions \in [Slots -> Session]
    /\ main \in [at : MainSteps, slot : Slots]
    /\ issued \in [Sids -> Users \cup {NoUser}]

LEMMA TypedParts == LocalsOK' /\ SharedOK' /\ Observe => Typed'
  BY DEF LocalsOK, SharedOK, Observe, Typed, TypeOK

LEMMA StepNames ==
  /\ {"idle", "recv", "find", "stamp", "upd_read", "upd_cmp", "upd_write"} \subseteq Steps
  /\ {"add_scan", "add_zero", "claim_scan", "claim_write"} \subseteq Steps
  /\ {"del_scan", "del_write", "prof_find"} \subseteq Steps
  /\ ViewSteps = {"stamp", "upd_read", "upd_cmp", "upd_write"}
  BY DEF Steps, LoginSteps, CheckSteps, ViewSteps, RouteSteps

LEMMA GotoTyped ==
  ASSUME Typed, NEW t \in Threads, NEW step \in Steps, NEW slot \in Slots,
         Goto(t, step, slot), step \in ViewSteps => view[t] \in Slots
  PROVE  LocalsOK'
  BY DEF Typed, TypeOK, ViewOK, LocalsOK, Goto

LEMMA AnswerTyped ==
  ASSUME Typed, NEW t \in Threads, Answer(t)
  PROVE  LocalsOK'
  BY ZeroIsSession, SlotsFacts, StepNames DEF Typed, TypeOK, ViewOK, LocalsOK, Answer

LEMMA EnterTyped ==
  ASSUME Typed, NEW t \in Threads, NEW step \in Steps \ ViewSteps, Enter(t, step)
  PROVE  LocalsOK'
  BY SlotsFacts DEF Typed, TypeOK, ViewOK, LocalsOK, Enter

LEMMA PutTyped ==
  ASSUME Typed, NEW k \in Slots, NEW session \in Session, Put(k, session)
  PROVE  sessions' \in [Slots -> Session]
  BY DEF Typed, TypeOK, Put

LEMMA NextSlotTyped ==
  ASSUME Typed, NextSlot
  PROVE  main' \in [at : MainSteps, slot : Slots]
  BY NextIsSlot, SlotsFacts, SizeAssumption DEF Typed, TypeOK, NextSlot, MainSteps, Slots

LEMMA LoopTyped ==
  ASSUME Typed, NEW t \in Threads, NEW step \in Steps \ ViewSteps, Loop(t, step)
  PROVE  LocalsOK'
<1>1. i[t] \in Slots /\ i[t] + 1 \in Slots /\ Goto(t, step, i[t] + 1)
  BY NextIsSlot DEF Typed, TypeOK, Loop
<1>2. QED
  BY <1>1, GotoTyped

LEMMA Typed_purge == Typed /\ purge_expired => Typed'
<1> SUFFICES ASSUME Typed, purge_expired PROVE Typed'
  OBVIOUS
<1>1. LocalsOK' /\ Observe
  BY DEF purge_expired, purge_sid, purge_time, purge_clear, LocalsOK, Typed, TypeOK, ViewOK
<1>2. CASE purge_sid
  BY <1>1, <1>2, TypedParts, NextSlotTyped
  DEF purge_sid, SharedOK, Typed, TypeOK, MainSteps
<1>3. CASE purge_time
  BY <1>1, <1>3, TypedParts, NextSlotTyped
  DEF purge_time, SharedOK, Typed, TypeOK, MainSteps
<1>4. CASE purge_clear
  BY <1>1, <1>4, TypedParts, NextSlotTyped, PutTyped, ZeroIsSession
  DEF purge_clear, SharedOK, Typed, TypeOK
<1>5. QED
  BY <1>2, <1>3, <1>4 DEF purge_expired

LEMMA Typed_serve1 == Typed /\ serve1 => Typed'
<1> SUFFICES ASSUME Typed, serve1 PROVE Typed'
  OBVIOUS
<1>1. ASSUME NEW t \in Threads, Accept(t) PROVE Typed'
  <2>1. LocalsOK'
    BY <1>1, GotoTyped, StepNames, SlotsFacts DEF Accept
  <2>2. QED
    BY <1>1, <2>1, TypedParts, SlotsFacts DEF Accept, SharedOK, Typed, TypeOK, MainSteps
<1>2. CASE Timeout
  BY <1>2, TypedParts, SlotsFacts
  DEF Timeout, LocalsOK, SharedOK, Typed, TypeOK, ViewOK, MainSteps
<1>3. QED
  BY <1>1, <1>2, Typed_purge DEF serve1

(* POST /login *)
LEMMA Typed_login ==
  ASSUME Typed, NEW t \in Threads,
         \/ Dismiss(t)
         \/ \E u \in Users, s \in Sids : login(t, u, s)
         \/ add_scan(t) \/ add_zero(t) \/ claim_scan(t) \/ claim_write(t)
  PROVE  Typed'
<1> USE StepNames
<1>0. i[t] \in Slots /\ mine[t] \in Session
  BY DEF Typed, TypeOK
<1>1. CASE Dismiss(t)
  BY <1>1, AnswerTyped, TypedParts DEF Dismiss, SharedOK, Typed, TypeOK
<1>2. ASSUME NEW u \in Users, NEW s \in Sids, login(t, u, s) PROVE Typed'
  <2>1. [sid |-> s, user |-> u, age |-> 0] \in Session
    BY SizeAssumption DEF Session, Ages
  <2>2. LocalsOK'
    BY <1>2, <2>1 DEF login, LocalsOK, Typed, TypeOK, ViewOK
  <2>3. SharedOK'
    BY <1>2 DEF login, SharedOK, Typed, TypeOK
  <2>4. QED
    BY <1>2, <2>2, <2>3, TypedParts DEF login
<1>3. CASE add_scan(t)
  <2>1. LocalsOK'
    BY <1>0, <1>3, GotoTyped, LoopTyped, SlotsFacts DEF add_scan
  <2>2. QED
    BY <1>3, <2>1, TypedParts DEF add_scan, SharedOK, Typed, TypeOK
<1>4. CASE add_zero(t)
  <2>1. LocalsOK'
    BY <1>4, GotoTyped, LoopTyped, SlotsFacts DEF add_zero
  <2>2. QED
    BY <1>0, <1>4, <2>1, PutTyped, ZeroIsSession, TypedParts DEF add_zero, SharedOK, Typed, TypeOK
<1>5. CASE claim_scan(t)
  <2>1. LocalsOK'
    BY <1>0, <1>5, GotoTyped, LoopTyped, AnswerTyped DEF claim_scan
  <2>2. QED
    BY <1>5, <2>1, TypedParts DEF claim_scan, SharedOK, Typed, TypeOK
<1>6. CASE claim_write(t)
  BY <1>0, <1>6, AnswerTyped, PutTyped, TypedParts DEF claim_write, SharedOK, Typed, TypeOK
<1>7. QED
  BY <1>1, <1>2, <1>3, <1>4, <1>5, <1>6

(* The routes that check a session *)
LEMMA Typed_check ==
  ASSUME Typed, NEW t \in Threads,
         \/ \E s \in Sids, r \in Routes : check_sessionid(t, s, r)
         \/ get_by_sessionid(t) \/ stamp(t) \/ upd_read(t) \/ upd_cmp(t) \/ upd_write(t)
  PROVE  Typed'
<1> USE StepNames
<1>0. i[t] \in Slots /\ view[t] \in 0 .. N
  BY DEF Typed, TypeOK
<1>1. ASSUME NEW s \in Sids, NEW r \in Routes, check_sessionid(t, s, r) PROVE Typed'
  <2>1. [Zero EXCEPT !.sid = s] \in Session
    BY ZeroIsSession DEF Session
  <2>2. LocalsOK'
    BY <1>1, <2>1 DEF check_sessionid, LocalsOK, Typed, TypeOK, ViewOK
  <2>3. QED
    BY <1>1, <2>2, TypedParts DEF check_sessionid, SharedOK, Typed, TypeOK
<1>2. CASE get_by_sessionid(t)
  <2>1. CASE Loop(t, "find") \/ Answer(t)
    BY <1>2, <2>1, LoopTyped, AnswerTyped, TypedParts
    DEF get_by_sessionid, SharedOK, Typed, TypeOK
  <2>2. CASE /\ view' = [view EXCEPT ![t] = i[t]]
             /\ pc' = [pc EXCEPT ![t] = "stamp"]
             /\ i' = [i EXCEPT ![t] = 1]
             /\ UNCHANGED <<route, mine, seen>>
    <3>1. LocalsOK'
      BY <1>0, <2>2, SlotsFacts DEF LocalsOK, Typed, TypeOK, ViewOK
    <3>2. QED
      BY <1>2, <3>1, TypedParts DEF get_by_sessionid, SharedOK, Typed, TypeOK
  <2>3. QED
    BY <1>2, <2>1, <2>2 DEF get_by_sessionid
<1>3. CASE stamp(t)
  <2>1. view[t] \in Slots
    BY <1>3 DEF stamp, Typed, ViewOK
  <2>2. LocalsOK'
    BY <1>3, <2>1, GotoTyped, SlotsFacts DEF stamp
  <2>3. \A session \in Session : [session EXCEPT !.age = 0] \in Session
    BY SizeAssumption DEF Session, Ages
  <2>4. sessions' \in [Slots -> Session]
    BY <1>3, <2>1, <2>3 DEF stamp, Typed, TypeOK
  <2>5. QED
    BY <1>3, <2>2, <2>4, TypedParts DEF stamp, SharedOK, Typed, TypeOK
<1>4. CASE upd_read(t)
  <2>1. sessions[i[t]].sid \in Sids \cup {NoSid}
    BY <1>0 DEF Typed, TypeOK, Session
  <2>2. LocalsOK'
    BY <1>4, <2>1 DEF upd_read, LocalsOK, Typed, TypeOK, ViewOK
  <2>3. QED
    BY <1>4, <2>2, TypedParts DEF upd_read, SharedOK, Typed, TypeOK
<1>5. CASE upd_cmp(t)
  <2>1. CASE Answer(t)
    BY <1>5, <2>1, AnswerTyped, TypedParts DEF upd_cmp, SharedOK, Typed, TypeOK
  <2>2. ASSUME NEW step \in {"upd_read", "upd_write"}, NEW slot \in Slots,
               pc' = [pc EXCEPT ![t] = step],
               i' = [i EXCEPT ![t] = slot],
               seen' = [seen EXCEPT ![t] = NoSid],
               UNCHANGED <<route, mine, view>>
        PROVE  Typed'
    <3>1. view[t] \in Slots
      BY <1>5 DEF upd_cmp, Typed, ViewOK
    <3>2. LocalsOK'
      BY <2>2, <3>1 DEF LocalsOK, Typed, TypeOK, ViewOK
    <3>3. QED
      BY <1>5, <3>2, TypedParts DEF upd_cmp, SharedOK, Typed, TypeOK
  <2>3. QED
    BY <1>0, <1>5, <2>1, <2>2, NextIsSlot DEF upd_cmp
<1>6. CASE upd_write(t)
  <2>1. sessions[view[t]] \in Session
    BY <1>6 DEF upd_write, Typed, TypeOK, ViewOK
  <2>2. sessions' \in [Slots -> Session]
    BY <1>0, <1>6, <2>1, PutTyped DEF upd_write
  <2>3. LocalsOK'
    BY <1>6, AnswerTyped, EnterTyped DEF upd_write
  <2>4. QED
    BY <1>6, <2>2, <2>3, TypedParts DEF upd_write, SharedOK, Typed, TypeOK
<1>7. QED
  BY <1>1, <1>2, <1>3, <1>4, <1>5, <1>6

LEMMA Typed_route ==
  ASSUME Typed, NEW t \in Threads, del_scan(t) \/ del_write(t) \/ prof_find(t)
  PROVE  Typed'
<1> USE StepNames
<1>0. i[t] \in Slots
  BY DEF Typed, TypeOK
<1>1. CASE del_scan(t)
  <2>1. LocalsOK'
    BY <1>0, <1>1, GotoTyped, LoopTyped, AnswerTyped DEF del_scan
  <2>2. QED
    BY <1>1, <2>1, TypedParts DEF del_scan, SharedOK, Typed, TypeOK
<1>2. CASE del_write(t)
  BY <1>0, <1>2, AnswerTyped, PutTyped, ZeroIsSession, TypedParts
  DEF del_write, SharedOK, Typed, TypeOK
<1>3. CASE prof_find(t)
  <2>1. LocalsOK'
    BY <1>3, LoopTyped, AnswerTyped DEF prof_find
  <2>2. QED
    BY <1>3, <2>1, TypedParts DEF prof_find, SharedOK, Typed, TypeOK
<1>4. QED
  BY <1>1, <1>2, <1>3

LEMMA Typed_Tick == Typed /\ Tick => Typed'
<1> SUFFICES ASSUME Typed, Tick PROVE Typed'
  OBVIOUS
<1>1. sessions' \in [Slots -> Session] /\ mine' \in [Threads -> Session]
  BY OlderIsSession DEF Tick, Typed, TypeOK
<1>2. QED
  BY <1>1, TypedParts DEF Tick, LocalsOK, SharedOK, Typed, TypeOK, ViewOK

LEMMA TypedStep == Typed /\ [Next]_vars => Typed'
<1> SUFFICES ASSUME Typed, [Next]_vars PROVE Typed'
  OBVIOUS
<1>1. CASE serve1
  BY <1>1, Typed_serve1
<1>2. ASSUME NEW t \in Threads, Request(t) PROVE Typed'
  BY <1>2, Typed_login, Typed_check, Typed_route DEF Request
<1>3. CASE Tick
  BY <1>3, Typed_Tick
<1>4. CASE UNCHANGED vars
  BY <1>4 DEF vars, Typed, TypeOK, ViewOK
<1>5. QED
  BY <1>1, <1>2, <1>3, <1>4 DEF Next

LEMMA TypedInit == Init => Typed
  BY ZeroIsSession, SlotsFacts
  DEF Init, Typed, TypeOK, ViewOK, MainSteps, Steps, ViewSteps

(* Every variable keeps to its values: loops stay inside the array, views  *)
(* point at slots, whatever the threads do.                                *)
THEOREM TypeCorrect == Spec => []TypeOK
<1>1. Typed => TypeOK
  BY DEF Typed
<1>2. QED
  BY <1>1, TypedInit, TypedStep, PTL DEF Spec

-----------------------------------------------------------------------------
(* What one step can do to the identity (identifier and user) of a slot:   *)
(* keep it or copy that of another slot, zero it, or store a new session.  *)
SameIdentity(k, l) ==
    sessions'[k].sid = sessions[l].sid /\ sessions'[k].user = sessions[l].user

Stored(t, k) == pc[t] = "claim_write" /\ pc'[t] = "idle" /\ sessions'[k] = mine[t]

LEMMA TableStep ==
  ASSUME Typed, [Next]_vars, NEW k \in Slots
  PROVE  \/ \E l \in Slots : SameIdentity(k, l)
         \/ sessions'[k] = Zero
         \/ \E t \in Threads : Stored(t, k)
<1> USE DEF SameIdentity, Typed, TypeOK, Put
<1>1. CASE UNCHANGED sessions
  BY <1>1
<1>2. CASE serve1
  BY <1>1, <1>2
  DEF serve1, Accept, Timeout, purge_expired, purge_sid, purge_time, purge_clear
<1>3. ASSUME NEW t \in Threads, Request(t), sessions' # sessions
      PROVE  \/ \E l \in Slots : SameIdentity(k, l)
             \/ sessions'[k] = Zero
             \/ \E u \in Threads : Stored(u, k)
  <2>1. \/ add_zero(t) \/ claim_write(t) \/ stamp(t) \/ upd_write(t) \/ del_write(t)
    BY <1>3 DEF Request, Dismiss, login, add_scan, claim_scan, check_sessionid,
                get_by_sessionid, upd_read, upd_cmp, del_scan, prof_find
  <2>2. CASE add_zero(t) \/ del_write(t)
    BY <2>2 DEF add_zero, del_write
  <2>3. CASE claim_write(t)
    BY <2>3 DEF claim_write, Answer, Stored
  <2>4. CASE stamp(t)
    BY <2>4 DEF stamp, Session
  <2>5. CASE upd_write(t)
    <3>1. view[t] \in Slots /\ i[t] \in Slots
      BY <2>5 DEF upd_write, ViewOK, ViewSteps
    <3>2. sessions' = [sessions EXCEPT ![i[t]] = sessions[view[t]]]
      BY <2>5 DEF upd_write
    <3>3. QED
      BY <3>1, <3>2
  <2>6. QED
    BY <2>1, <2>2, <2>3, <2>4, <2>5
<1>4. CASE Tick
  BY <1>4, OlderIsSession DEF Tick
<1>5. QED
  BY <1>1, <1>2, <1>3, <1>4 DEF Next, vars

(* A thread is in a login because it was, with the same new session, or    *)
(* because it has just drawn an identifier.                                *)
LEMMA LoginStep ==
  ASSUME Typed, [Next]_vars, NEW t \in Threads, pc'[t] \in LoginSteps
  PROVE  \/ /\ pc[t] \in LoginSteps
            /\ mine'[t].sid = mine[t].sid
            /\ mine'[t].user = mine[t].user
         \/ \E u \in Users, s \in Sids : login(t, u, s)
<1> USE DEF Typed, TypeOK, LoginSteps
<1>1. CASE UNCHANGED <<pc, mine>>
  BY <1>1
<1>2. ASSUME NEW u \in Threads, Accept(u)
      PROVE  pc[t] \in LoginSteps /\ mine'[t] = mine[t]
  BY <1>2 DEF Accept, Goto
<1>3. ASSUME NEW u \in Threads, Request(u), ~ \E v \in Users, s \in Sids : login(u, v, s)
      PROVE  pc[t] \in LoginSteps /\ mine'[t] = mine[t]
  <2>1. CASE Dismiss(u) \/ add_scan(u) \/ add_zero(u) \/ claim_scan(u) \/ claim_write(u)
    BY <2>1 DEF Dismiss, add_scan, add_zero, claim_scan, claim_write, Answer, Goto, Loop
  <2>2. CASE \E s \in Sids, r \in Routes : check_sessionid(u, s, r)
    BY <2>2 DEF check_sessionid
  <2>3. CASE get_by_sessionid(u) \/ stamp(u) \/ upd_read(u)
    BY <2>3 DEF get_by_sessionid, stamp, upd_read, Answer, Goto, Loop
  <2>4. CASE upd_cmp(u) \/ upd_write(u)
    BY <2>4 DEF upd_cmp, upd_write, Answer, Enter
  <2>5. CASE del_scan(u) \/ del_write(u) \/ prof_find(u)
    BY <2>5 DEF del_scan, del_write, prof_find, Answer, Goto, Loop
  <2>6. QED
    BY <1>3, <2>1, <2>2, <2>3, <2>4, <2>5 DEF Request
<1>4. CASE Tick
  BY <1>4, OlderIsSession DEF Tick
<1>5. ASSUME NEW u \in Threads, NEW v \in Users, NEW s \in Sids, login(u, v, s), u # t
      PROVE  pc[t] \in LoginSteps /\ mine'[t] = mine[t]
  BY <1>5 DEF login
<1>6. QED
  BY <1>1, <1>2, <1>3, <1>4, <1>5
  DEF Next, vars, serve1, Timeout, purge_expired, purge_sid, purge_time, purge_clear

(* Identifiers are drawn by logins and by nothing else. *)
LEMMA IssuedStep ==
  ASSUME [Next]_vars
  PROVE  \/ issued' = issued
         \/ \E t \in Threads, u \in Users, s \in Sids : login(t, u, s)
  BY DEF Next, vars, serve1, Accept, Timeout, purge_expired, purge_sid, purge_time,
         purge_clear, Request, Dismiss, add_scan, add_zero, claim_scan, claim_write,
         check_sessionid, get_by_sessionid, stamp, upd_read, upd_cmp, upd_write,
         del_scan, del_write, prof_find, Tick

-----------------------------------------------------------------------------
(* The invariant behind owner integrity and the registry: what the slots   *)
(* and the logins under way hold has been drawn, for the user it is held   *)
(* with; a login under way has its identifier to itself.                   *)
SlotDrawn(session) ==
    IF session.sid = NoSid THEN session.user = NoUser
    ELSE session.sid \in Sids /\ issued[session.sid] = session.user /\ session.user \in Users

Drawn ==
    /\ \A k \in Slots : SlotDrawn(sessions[k])
    /\ \A t \in Threads : pc[t] \in LoginSteps =>
           mine[t].sid # NoSid /\ SlotDrawn(mine[t])

Apart ==
    /\ \A t \in Threads : pc[t] \in LoginSteps => mine[t].sid \notin Live
    /\ \A t, u \in Threads :
           pc[t] \in LoginSteps /\ pc[u] \in LoginSteps /\ mine[t].sid = mine[u].sid => t = u

LEMMA DrawnStep == Typed /\ Drawn /\ [Next]_vars => Drawn'
<1> SUFFICES ASSUME Typed, Drawn, [Next]_vars PROVE Drawn'
  OBVIOUS
<1>1. ASSUME NEW k \in Slots PROVE SlotDrawn(sessions[k])'
  <2>1. ASSUME NEW l \in Slots, SameIdentity(k, l) PROVE SlotDrawn(sessions[k])'
    <3>1. SlotDrawn(sessions[l]) /\ sessions[l] \in Session
      BY DEF Drawn, Typed, TypeOK
    <3>2. issued'[sessions[l].sid] = issued[sessions[l].sid] \/ sessions[l].sid = NoSid
      BY <3>1, IssuedStep, NullAssumption DEF SlotDrawn, login, Typed, TypeOK
    <3>3. QED
      BY <2>1, <3>1, <3>2 DEF SameIdentity, SlotDrawn
  <2>2. CASE sessions'[k] = Zero
    BY <2>2, ZeroIsSession DEF SlotDrawn
  <2>3. ASSUME NEW t \in Threads, Stored(t, k) PROVE SlotDrawn(sessions[k])'
    <3>1. SlotDrawn(mine[t]) /\ mine[t].sid # NoSid
      BY <2>3 DEF Stored, Drawn, LoginSteps
    <3>2. issued'[mine[t].sid] = issued[mine[t].sid]
      BY <3>1, IssuedStep, NullAssumption DEF SlotDrawn, login, Typed, TypeOK
    <3>3. QED
      BY <2>3, <3>1, <3>2 DEF Stored, SlotDrawn
  <2>4. QED
    BY <2>1, <2>2, <2>3, TableStep
<1>2. ASSUME NEW t \in Threads, pc'[t] \in LoginSteps
      PROVE  mine'[t].sid # NoSid /\ SlotDrawn(mine[t])'
  <2>1. CASE /\ pc[t] \in LoginSteps
             /\ mine'[t].sid = mine[t].sid
             /\ mine'[t].user = mine[t].user
    <3>1. SlotDrawn(mine[t]) /\ mine[t].sid # NoSid
      BY <2>1 DEF Drawn
    <3>2. issued'[mine[t].sid] = issued[mine[t].sid]
      BY <3>1, IssuedStep, NullAssumption DEF SlotDrawn, login, Typed, TypeOK
    <3>3. QED
      BY <2>1, <3>1, <3>2 DEF SlotDrawn
  <2>2. ASSUME NEW u \in Users, NEW s \in Sids, login(t, u, s)
        PROVE  mine'[t].sid # NoSid /\ SlotDrawn(mine[t])'
    BY <2>2, NullAssumption DEF login, SlotDrawn, Typed, TypeOK
  <2>3. QED
    BY <1>2, <2>1, <2>2, LoginStep
<1>3. QED
  BY <1>1, <1>2 DEF Drawn

(* Nothing that was not in the table gets there but through a login. *)
LEMMA LiveStep ==
  ASSUME Typed, [Next]_vars, NEW s, s \in Live'
  PROVE  s \in Live \/ \E t \in Threads :
                           pc[t] = "claim_write" /\ pc'[t] = "idle" /\ mine[t].sid = s
<1>1. PICK k \in Slots : sessions'[k].sid = s /\ s # NoSid
  BY DEF Live
<1>2. QED
  BY <1>1, TableStep, ZeroIsSession DEF SameIdentity, Stored, Live

LEMMA ApartStep == Typed /\ Drawn /\ Apart /\ [Next]_vars => Apart'
<1> SUFFICES ASSUME Typed, Drawn, Apart, [Next]_vars PROVE Apart'
  OBVIOUS
<1>1. ASSUME NEW t \in Threads, pc'[t] \in LoginSteps, mine'[t].sid \in Live'
      PROVE  FALSE
  <2>1. ASSUME NEW u \in Users, NEW s \in Sids, login(t, u, s) PROVE FALSE
    <3>1. s \in Live
      BY <1>1, <2>1 DEF login, Live, Typed, TypeOK
    <3>2. issued[s] \in Users
      BY <3>1 DEF Drawn, SlotDrawn, Live
    <3>3. QED
      BY <2>1, <3>2, NullAssumption DEF login
  <2>2. CASE pc[t] \in LoginSteps /\ mine'[t].sid = mine[t].sid
    <3>1. mine[t].sid \notin Live
      BY <2>2 DEF Apart
    <3>2. PICK u \in Threads : /\ pc[u] = "claim_write"
                               /\ pc'[u] = "idle"
                               /\ mine[u].sid = mine[t].sid
      BY <1>1, <2>2, <3>1, LiveStep
    <3>3. u = t
      BY <2>2, <3>2 DEF Apart, LoginSteps
    <3>4. QED
      BY <1>1, <3>2, <3>3 DEF LoginSteps
  <2>3. QED
    BY <1>1, <2>1, <2>2, LoginStep
<1>2. ASSUME NEW t \in Threads, NEW u \in Threads,
             pc'[t] \in LoginSteps, pc'[u] \in LoginSteps, mine'[t].sid = mine'[u].sid, t # u
      PROVE  FALSE
  <2>1. ASSUME NEW v \in Users, NEW s \in Sids, NEW r \in Threads, NEW q \in Threads,
               login(r, v, s), r # q, pc'[q] \in LoginSteps, mine'[q].sid = mine'[r].sid
        PROVE  FALSE
    <3>1. pc[q] \in LoginSteps /\ mine[q].sid = s
      BY <2>1 DEF login, Typed, TypeOK
    <3>2. issued[s] \in Users
      BY <3>1 DEF Drawn, SlotDrawn
    <3>3. QED
      BY <2>1, <3>2, NullAssumption DEF login
  <2>2. CASE /\ pc[t] \in LoginSteps /\ mine'[t].sid = mine[t].sid
             /\ pc[u] \in LoginSteps /\ mine'[u].sid = mine[u].sid
    BY <1>2, <2>2 DEF Apart
  <2>3. QED
    BY <1>2, <2>1, <2>2, LoginStep
<1>3. QED
  BY <1>1, <1>2 DEF Apart

(* Owner integrity, and with it the safety part of who a session is. *)
IdentityInv == Typed /\ Drawn /\ Apart

LEMMA IdentityInit == Init => IdentityInv
<1>1. Init => Drawn /\ Apart
  BY ZeroIsSession DEF Init, Drawn, Apart, SlotDrawn, LoginSteps
<1>2. QED
  BY <1>1, TypedInit DEF IdentityInv

LEMMA IdentityStep == IdentityInv /\ [Next]_vars => IdentityInv'
  BY TypedStep, DrawnStep, ApartStep DEF IdentityInv

(* A slot never mixes two sessions, however copies, purges and logins of   *)
(* any number of threads are interleaved (Sessions.add, update, delete and *)
(* purge_expired).                                                         *)
THEOREM OwnerIntegrityHolds == Spec => []OwnerIntegrity
<1>1. IdentityInv => OwnerIntegrity
  BY DEF IdentityInv, Drawn, SlotDrawn, OwnerIntegrity
<1>2. QED
  BY <1>1, IdentityInit, IdentityStep, PTL DEF Spec

-----------------------------------------------------------------------------
(* The refinement of SessionRegistry.  Every step moves each identifier    *)
(* along its life or leaves it where it is.                                *)
LEMMA PendingStep ==
  ASSUME Typed, [Next]_vars, NEW s \in Sids, issued[s] # NoUser, s \in Pending'
  PROVE  s \in Pending
<1>1. PICK t \in Threads : pc'[t] \in LoginSteps /\ mine'[t].sid = s
  BY DEF Pending
<1>2. ASSUME NEW u \in Users, NEW r \in Sids, login(t, u, r) PROVE FALSE
  BY <1>1, <1>2 DEF login, Typed, TypeOK
<1>3. QED
  BY <1>1, <1>2, LoginStep DEF Pending

LEMMA LifeStep ==
  ASSUME IdentityInv, [Next]_vars, NEW s \in Sids
  PROVE  \/ issued'[s] = issued[s] /\ StatusOf(s)' = StatusOf(s)
         \/ StatusOf(s) = "new" /\ StatusOf(s)' = "pending" /\ issued'[s] \in Users
         \/ StatusOf(s) = "pending" /\ StatusOf(s)' = "live" /\ issued'[s] = issued[s]
         \/ /\ StatusOf(s) \in {"pending", "live"}
            /\ StatusOf(s)' = "ended"
            /\ issued'[s] = issued[s]
<1> USE DEF IdentityInv
<1>1. CASE issued[s] = NoUser /\ issued'[s] = NoUser
  BY <1>1 DEF StatusOf
<1>2. CASE issued[s] = NoUser /\ issued'[s] # NoUser
  <2>1. PICK t \in Threads, u \in Users : login(t, u, s)
    BY <1>2, IssuedStep DEF login, Typed, TypeOK
  <2>2. issued'[s] = u /\ u # NoUser
    BY <2>1, NullAssumption DEF login, Typed, TypeOK
  <2>3. s \notin Live
    BY <1>2, NullAssumption DEF Live, Drawn, SlotDrawn
  <2>4. s \notin Live'
    BY <2>1, <2>3 DEF login, Live
  <2>5. s \in Pending'
    BY <2>1 DEF login, Pending, LoginSteps, Typed, TypeOK
  <2>6. QED
    BY <1>2, <2>2, <2>4, <2>5 DEF StatusOf
<1>3. CASE issued[s] # NoUser
  <2>1. issued'[s] = issued[s]
    BY <1>3, IssuedStep DEF login, Typed, TypeOK
  <2>2. s \in Pending' => s \in Pending
    BY <1>3, PendingStep
  <2>3. s \in Live' => s \in Live \/ s \in Pending
    BY LiveStep DEF Pending, LoginSteps
  <2>4. ~(s \in Live /\ s \in Pending)
    BY DEF Apart, Pending
  <2>5. QED
    BY <1>3, <2>1, <2>2, <2>3, <2>4 DEF StatusOf
<1>4. QED
  BY <1>1, <1>2, <1>3

(* The session table implements the registry: an identifier is drawn for   *)
(* one user, opens at most once and never comes back, in spite of updates  *)
(* that copy whatever a stale view shows.                                  *)
THEOREM TableImplementsRegistry == Spec => RegistrySpec
<1>1. Init => Registry!Init
  BY DEF Init, Registry!Init, StatusOf
<1>2. ASSUME IdentityInv, [Next]_vars PROVE [Registry!Next]_(Registry!vars)
  <2>1. Registry!TypeOK'
    <3>1. issued' \in [Sids -> Users \cup {NoUser}]
      BY <1>2, TypedStep DEF IdentityInv, Typed, TypeOK
    <3>2. \A s \in Sids : StatusOf(s)' \in {"new", "pending", "live", "ended"}
      BY DEF StatusOf
    <3>3. QED
      BY <3>1, <3>2 DEF Registry!TypeOK
  <2>2. ASSUME NEW s \in Sids
        PROVE  \/ Registry!Rest(s) \/ Registry!Draw(s)
               \/ Registry!Open(s) \/ Registry!End(s)
    BY <1>2, LifeStep DEF Registry!Rest, Registry!Draw, Registry!Open, Registry!End
  <2>3. QED
    BY <2>1, <2>2 DEF Registry!Next
<1>3. QED
  BY <1>1, <1>2, IdentityInit, IdentityStep, PTL DEF Spec, RegistrySpec, Registry!Spec

-----------------------------------------------------------------------------
(* Lookups miss nothing that stays.  The slots a thread still holds match  *)
(* its identifier and are not behind its loop; an update that has read the *)
(* slot it views has read the session there.                               *)
HeldMatches ==
    \A t \in Threads : \A k \in held[t] : sessions[k].sid = mine[t].sid

AheadOf(t) ==
    /\ pc[t] = "recv" => i[t] = 1
    /\ pc[t] \in {"find", "prof_find"} => \A k \in held[t] : i[t] <= k
    /\ pc[t] \in {"upd_read", "upd_cmp"} /\ view[t] \in held[t] => i[t] <= view[t]
    /\ pc[t] = "upd_cmp" /\ view[t] \in held[t] /\ i[t] = view[t] =>
           seen[t] = mine[t].sid

HeldInv == Typed /\ HeldMatches /\ \A t \in Threads : AheadOf(t)

LEMMA NextObserves == Next => Observe
  BY DEF Next, serve1, Accept, Timeout, purge_expired, purge_sid, purge_time,
         purge_clear, Request, Dismiss, login, add_scan, add_zero, claim_scan,
         claim_write, check_sessionid, get_by_sessionid, stamp, upd_read, upd_cmp,
         upd_write, del_scan, del_write, prof_find, Tick

(* Only its own steps move a thread. *)
Still(t) ==
    /\ pc'[t] = pc[t] /\ i'[t] = i[t] /\ view'[t] = view[t] /\ seen'[t] = seen[t]
    /\ mine'[t].sid = mine[t].sid

LEMMA OthersKeep ==
  ASSUME Typed, [Next]_vars, NEW t \in Threads
  PROVE  Still(t) \/ Accept(t) \/ Request(t)
<1> USE DEF Still, Typed, TypeOK
<1>1. ASSUME NEW u \in Threads, u # t, Accept(u) PROVE Still(t)
  BY <1>1 DEF Accept, Goto
<1>2. ASSUME NEW u \in Threads, u # t, Request(u) PROVE Still(t)
  <2>1. CASE Dismiss(u) \/ add_scan(u) \/ add_zero(u) \/ claim_scan(u) \/ claim_write(u)
    BY <1>2, <2>1 DEF Dismiss, add_scan, add_zero, claim_scan, claim_write, Answer, Goto, Loop
  <2>2. CASE \/ \E s \in Sids, r \in Routes : check_sessionid(u, s, r)
             \/ \E s \in Sids, v \in Users : login(u, v, s)
    BY <1>2, <2>2 DEF check_sessionid, login
  <2>3. CASE get_by_sessionid(u) \/ stamp(u) \/ upd_read(u)
    BY <1>2, <2>3 DEF get_by_sessionid, stamp, upd_read, Answer, Goto, Loop
  <2>4. CASE upd_cmp(u) \/ upd_write(u)
    BY <1>2, <2>4 DEF upd_cmp, upd_write, Answer, Enter
  <2>5. CASE del_scan(u) \/ del_write(u) \/ prof_find(u)
    BY <1>2, <2>5 DEF del_scan, del_write, prof_find, Answer, Goto, Loop
  <2>6. QED
    BY <1>2, <2>1, <2>2, <2>3, <2>4, <2>5 DEF Request
<1>3. CASE Tick
  BY <1>3, OlderIsSession DEF Tick
<1>4. CASE UNCHANGED <<pc, i, view, seen, mine>>
  BY <1>4
<1>5. QED
  BY <1>1, <1>2, <1>3, <1>4
  DEF Next, vars, serve1, Timeout, purge_expired, purge_sid, purge_time, purge_clear

(* What the history variable keeps. *)
LEMMA HeldStep ==
  ASSUME Typed, Next, NEW t \in Threads
  PROVE  /\ held'[t] \subseteq Slots
         /\ \A k \in held'[t] : sessions'[k].sid = mine'[t].sid
         /\ pc[t] # "recv" => held'[t] \subseteq held[t]
  BY NextObserves DEF Observe

(* A loop that passes a slot that does not match passes no held slot. *)
LEMMA HeldAhead ==
  ASSUME HeldInv, Next, NEW t \in Threads, pc[t] \in {"find", "prof_find"},
         sessions[i[t]].sid # mine[t].sid
  PROVE  \A k \in held'[t] : i[t] + 1 <= k
<1>1. held'[t] \subseteq held[t] /\ held[t] \subseteq Slots /\ i[t] \in Slots
  BY HeldStep DEF HeldInv, Typed, TypeOK
<1>2. \A k \in held[t] : i[t] <= k /\ k # i[t]
  BY DEF HeldInv, HeldMatches, AheadOf
<1>3. QED
  BY <1>1, <1>2, SizeAssumption DEF Slots

LEMMA AheadStep ==
  ASSUME HeldInv, Next, NEW t \in Threads
  PROVE  AheadOf(t)'
<1> USE DEF AheadOf, HeldInv, Typed, TypeOK
<1>0. i[t] \in Slots /\ view[t] \in 0 .. N /\ AheadOf(t) /\ [Next]_vars
  OBVIOUS
<1>1. CASE Still(t)
  BY <1>0, <1>1, HeldStep DEF Still
<1>2. CASE Accept(t)
  BY <1>2 DEF Accept, Goto
<1>3. CASE Dismiss(t) \/ \E u \in Users, s \in Sids : login(t, u, s)
  BY <1>3 DEF Dismiss, login, Answer
<1>4. CASE add_scan(t) \/ add_zero(t) \/ claim_scan(t) \/ claim_write(t)
  BY <1>4 DEF add_scan, add_zero, claim_scan, claim_write, Answer, Goto, Loop
<1>5. CASE \E s \in Sids, r \in Routes : check_sessionid(t, s, r)
  <2>1. pc'[t] = "find" /\ i'[t] = i[t] /\ pc[t] = "recv"
    BY <1>5 DEF check_sessionid
  <2>2. i'[t] = 1 /\ held'[t] \subseteq Slots
    BY <2>1, <1>0, HeldStep
  <2>3. QED
    BY <2>1, <2>2, SizeAssumption DEF Slots
<1>6. CASE get_by_sessionid(t)
  <2>1. CASE Goto(t, "find", i[t] + 1) /\ sessions[i[t]].sid # mine[t].sid
    BY <1>0, <1>6, <2>1, HeldAhead DEF get_by_sessionid, Goto
  <2>2. CASE pc'[t] \in {"stamp", "idle"}
    BY <2>2
  <2>3. QED
    BY <1>6, <2>1, <2>2 DEF get_by_sessionid, Answer, Loop
<1>7. CASE stamp(t)
  <2>1. pc'[t] = "upd_read" /\ i'[t] = 1 /\ held'[t] \subseteq Slots
    BY <1>7, HeldStep DEF stamp, Goto
  <2>2. QED
    BY <2>1, SizeAssumption DEF Slots
<1>8. CASE upd_read(t)
  <2>1. /\ pc'[t] = "upd_cmp" /\ pc[t] = "upd_read" /\ i'[t] = i[t]
        /\ view'[t] = view[t] /\ mine'[t] = mine[t] /\ sessions' = sessions
        /\ seen'[t] = sessions[i[t]].sid
    BY <1>8 DEF upd_read
  <2>2. held'[t] \subseteq held[t] /\ \A k \in held'[t] : sessions'[k].sid = mine'[t].sid
    BY <2>1, HeldStep
  <2>3. QED
    BY <1>0, <2>1, <2>2
<1>9. CASE upd_cmp(t)
  <2>1. CASE pc'[t] \in {"upd_write", "idle"}
    BY <2>1
  <2>2. CASE /\ pc'[t] = "upd_read" /\ i'[t] = i[t] + 1 /\ view'[t] = view[t]
             /\ seen[t] # sessions[view[t]].sid
    <3>1. pc[t] = "upd_cmp" /\ held'[t] \subseteq held[t]
      BY <1>9, HeldStep DEF upd_cmp
    <3>2. view[t] \in held[t] => i[t] < view[t]
      BY <1>0, <2>2, <3>1, SizeAssumption DEF HeldMatches, Slots
    <3>3. QED
      BY <1>0, <2>2, <3>1, <3>2, SizeAssumption DEF Slots
  <2>3. QED
    BY <1>9, <2>1, <2>2 DEF upd_cmp, Answer
<1>10. CASE upd_write(t)
  <2>1. pc'[t] \in {"idle", "del_scan", "prof_find"} /\ i'[t] = 1 /\ held'[t] \subseteq Slots
    BY <1>10, HeldStep DEF upd_write, Answer, Enter
  <2>2. QED
    BY <2>1, SizeAssumption DEF Slots
<1>11. CASE del_scan(t) \/ del_write(t)
  <2>1. pc'[t] \in {"del_scan", "del_write", "idle"}
    BY <1>11 DEF del_scan, del_write, Answer, Goto, Loop
  <2>2. QED
    BY <2>1
<1>12. CASE prof_find(t)
  <2>1. CASE Goto(t, "prof_find", i[t] + 1) /\ sessions[i[t]].sid # mine[t].sid
    BY <1>0, <1>12, <2>1, HeldAhead DEF prof_find, Goto
  <2>2. CASE pc'[t] = "idle"
    BY <2>2
  <2>3. QED
    BY <1>12, <2>1, <2>2 DEF prof_find, Answer, Loop
<1>20. QED
  BY <1>0, <1>1, <1>2, <1>3, <1>4, <1>5, <1>6, <1>7, <1>8, <1>9, <1>10, <1>11, <1>12,
     OthersKeep DEF Request

LEMMA HeldInit == Init => HeldInv
<1> SUFFICES ASSUME Init PROVE HeldInv
  OBVIOUS
<1>1. \A t \in Threads : pc[t] = "idle" /\ held[t] = {}
  BY DEF Init
<1>2. QED
  BY <1>1, TypedInit DEF HeldInv, HeldMatches, AheadOf

LEMMA HeldInvStep == HeldInv /\ [Next]_vars => HeldInv'
<1> SUFFICES ASSUME HeldInv, [Next]_vars PROVE HeldInv'
  OBVIOUS
<1>1. CASE Next
  <2>1. Typed'
    BY <1>1, TypedStep DEF HeldInv
  <2>2. HeldMatches'
    BY <1>1, HeldStep DEF HeldInv, HeldMatches
  <2>3. QED
    BY <1>1, <2>1, <2>2, AheadStep DEF HeldInv
<1>2. CASE UNCHANGED vars
  BY <1>2, TypedStep DEF vars, HeldInv, HeldMatches, AheadOf
<1>3. QED
  BY <1>1, <1>2

(* A steady session is never missed: a lookup answers 401 only if no slot  *)
(* has kept the session since it began, an update only if the slot it      *)
(* views has lost it, whatever other threads add, copy and remove.         *)
THEOREM RefusedOnlyIfGoneHolds == Spec => RefusedOnlyIfGone
<1>1. ASSUME HeldInv, Next, NEW t \in Threads, Refused(t)
      PROVE  IF pc[t] = "upd_cmp" THEN view[t] \notin held[t] ELSE held[t] = {}
  <2> USE DEF HeldInv, Typed, TypeOK
  <2>1. /\ pc[t] \in {"find", "upd_cmp", "prof_find"} /\ pc'[t] = "idle"
        /\ pc[t] = "prof_find" => sessions[i[t]].sid # mine[t].sid
    BY <1>1 DEF Refused
  <2>2. ~Still(t) /\ ~Accept(t)
    BY <2>1 DEF Still, Accept
  <2>3. get_by_sessionid(t) \/ upd_cmp(t) \/ prof_find(t)
    BY <1>1, <2>1, <2>2, OthersKeep
    DEF Request, Dismiss, login, add_scan, add_zero, claim_scan, claim_write,
        check_sessionid, stamp, upd_read, upd_write, del_scan, del_write
  <2>4. AheadOf(t) /\ HeldMatches /\ held[t] \subseteq Slots /\ i[t] \in Slots
    BY <1>1
  <2>5. CASE get_by_sessionid(t) \/ prof_find(t)
    <3>1. i[t] = N /\ sessions[i[t]].sid # mine[t].sid /\ pc[t] \in {"find", "prof_find"}
      BY <2>1, <2>5, <1>1
      DEF get_by_sessionid, prof_find, Goto, Loop, Exhausted
    <3>2. QED
      BY <2>4, <3>1, SizeAssumption DEF AheadOf, HeldMatches, Slots
  <2>6. CASE upd_cmp(t)
    <3>1. i[t] = N /\ seen[t] # sessions[view[t]].sid /\ pc[t] = "upd_cmp"
      BY <2>1, <2>6, <1>1 DEF upd_cmp, Exhausted
    <3>2. QED
      BY <2>4, <3>1, SizeAssumption DEF AheadOf, HeldMatches, Slots
  <2>7. QED
    BY <2>3, <2>5, <2>6
<1>2. HeldInv /\ [Next]_vars =>
        [\A t \in Threads : Refused(t) =>
            IF pc[t] = "upd_cmp" THEN view[t] \notin held[t] ELSE held[t] = {}]_vars
  BY <1>1
<1>3. QED
  BY <1>2, HeldInit, HeldInvStep, PTL DEF Spec, RefusedOnlyIfGone

-----------------------------------------------------------------------------
(* One request at a time, the purge running beside it.  What the thread    *)
(* has seen of the table then stays, but for the slots that are zeroed:    *)
(* the slots before a login's loop are not its user's, the slot it has     *)
(* found is free, an update copies a slot onto itself, and a logout finds  *)
(* its session in one slot only.                                           *)
OneThread == \A t, u \in Threads : t = u

SoloOK(t) ==
    /\ pc[t] \in {"add_scan", "add_zero"} =>
           \A k \in Slots : k < i[t] => sessions[k].user # mine[t].user
    /\ pc[t] = "add_zero" => sessions[i[t]].user \in {mine[t].user, NoUser}
    /\ pc[t] \in {"claim_scan", "claim_write"} =>
           \A k \in Slots : sessions[k].user # mine[t].user
    /\ pc[t] = "claim_write" => sessions[i[t]].sid = NoSid
    /\ pc[t] = "upd_cmp" =>
           /\ sessions[i[t]].sid \in {seen[t], NoSid}
           /\ seen[t] # NoSid /\ i[t] # view[t] => sessions[view[t]].sid # seen[t]
    /\ pc[t] = "upd_write" =>
           i[t] = view[t] \/ (sessions[i[t]].sid = NoSid /\ sessions[view[t]].sid = NoSid)
    /\ pc[t] \in CheckSteps \cup RouteSteps => mine[t].sid # NoSid
    /\ pc[t] = "del_write" =>
           /\ sessions[i[t]].sid \in {mine[t].sid, NoSid}
           /\ \A k \in Slots : k # i[t] => sessions[k].sid # mine[t].sid

OneSlotPerSid ==
    \A k, l \in Slots : sessions[k].sid = sessions[l].sid /\ sessions[k].sid # NoSid => k = l

SoloInv ==
    /\ IdentityInv /\ HeldInv
    /\ OneSlotPerSid /\ OneSessionPerUser
    /\ \A t \in Threads : SoloOK(t)

(* The slots as they are afterwards: all as before, or one of them zeroed. *)
Zeroed(slot) ==
    \A k \in Slots : IF k = slot THEN sessions'[k].sid = NoSid /\ sessions'[k].user = NoUser
                                 ELSE SameIdentity(k, k)

Fades ==
    \A k \in Slots : SameIdentity(k, k) \/ (sessions'[k].sid = NoSid /\ sessions'[k].user = NoUser)

LEMMA SoloTable ==
  ASSUME SoloInv, [Next]_vars
  PROVE  \/ \A k \in Slots : SameIdentity(k, k)
         \/ main.at = "clear" /\ Zeroed(main.slot)
         \/ \E t \in Threads : (add_zero(t) \/ del_write(t)) /\ Zeroed(i[t])
         \/ \E t \in Threads : claim_write(t) /\ sessions' = [sessions EXCEPT ![i[t]] = mine[t]]
<1> USE DEF SoloInv, IdentityInv, SameIdentity, Zeroed, Typed, TypeOK, Put
<1>1. CASE UNCHANGED sessions
  BY <1>1
<1>2. CASE purge_clear
  BY <1>2, ZeroIsSession DEF purge_clear
<1>3. CASE Tick
  BY <1>3, OlderIsSession DEF Tick
<1>4. ASSUME NEW t \in Threads, add_zero(t) \/ del_write(t)
      PROVE  Zeroed(i[t])
  BY <1>4, ZeroIsSession DEF add_zero, del_write
<1>5. ASSUME NEW t \in Threads, claim_write(t)
      PROVE  sessions' = [sessions EXCEPT ![i[t]] = mine[t]]
  BY <1>5 DEF claim_write
<1>6. ASSUME NEW t \in Threads, stamp(t)
      PROVE  \A k \in Slots : SameIdentity(k, k)
  BY <1>6 DEF stamp, Session
<1>7. ASSUME NEW t \in Threads, upd_write(t)
      PROVE  \A k \in Slots : SameIdentity(k, k)
  <2>1. view[t] \in Slots /\ i[t] \in Slots /\ pc[t] = "upd_write"
        /\ sessions' = [sessions EXCEPT ![i[t]] = sessions[view[t]]]
    BY <1>7 DEF upd_write, ViewOK, ViewSteps
  <2>2. CASE i[t] = view[t]
    BY <2>1, <2>2
  <2>3. CASE sessions[i[t]].sid = NoSid /\ sessions[view[t]].sid = NoSid
    <3>1. sessions[i[t]].user = NoUser /\ sessions[view[t]].user = NoUser
      BY <2>1, <2>3 DEF Drawn, SlotDrawn
    <3>2. QED
      BY <2>1, <2>3, <3>1
  <2>4. QED
    BY <2>1, <2>2, <2>3 DEF SoloOK
<1>8. ASSUME NEW t \in Threads, Request(t), sessions' # sessions
      PROVE  add_zero(t) \/ claim_write(t) \/ stamp(t) \/ upd_write(t) \/ del_write(t)
  BY <1>8 DEF Request, Dismiss, login, add_scan, claim_scan, check_sessionid,
              get_by_sessionid, upd_read, upd_cmp, del_scan, prof_find
<1>9. ASSUME serve1 PROVE UNCHANGED sessions \/ (main.at = "clear" /\ Zeroed(main.slot))
  BY <1>2, <1>9, ZeroIsSession
  DEF serve1, Accept, Timeout, purge_expired, purge_sid, purge_time, purge_clear
<1>10. QED
  <2> HIDE DEF SoloInv, IdentityInv, SameIdentity, Zeroed, Typed, TypeOK, Put
  <2>1. CASE \E t \in Threads : Request(t)
    <3>1. PICK t \in Threads : Request(t)
      BY <2>1
    <3>2. CASE sessions' = sessions
      BY <1>1, <3>2
    <3>3. CASE sessions' # sessions
      BY <1>4, <1>5, <1>6, <1>7, <1>8, <3>1, <3>3
    <3>4. QED
      BY <3>2, <3>3
  <2>2. CASE serve1 \/ Tick \/ UNCHANGED vars
    BY <1>1, <1>3, <1>9, <2>2 DEF vars
  <2>3. QED
    BY <2>1, <2>2 DEF Next

LEMMA SoloSlots ==
  ASSUME SoloInv, [Next]_vars
  PROVE  OneSlotPerSid' /\ OneSessionPerUser'
<1>1. ASSUME Fades PROVE OneSlotPerSid' /\ OneSessionPerUser'
  BY <1>1 DEF SoloInv, Fades, SameIdentity, OneSlotPerSid, OneSessionPerUser
<1>2. ASSUME NEW t \in Threads, claim_write(t), sessions' = [sessions EXCEPT ![i[t]] = mine[t]]
      PROVE  OneSlotPerSid' /\ OneSessionPerUser'
  <2>1. pc[t] = "claim_write" /\ i[t] \in Slots
    BY <1>2 DEF claim_write, SoloInv, IdentityInv, Typed, TypeOK
  <2>2. \A k \in Slots : sessions[k].user # mine[t].user
    BY <2>1 DEF SoloInv, SoloOK
  <2>3. \A k \in Slots : sessions[k].sid # mine[t].sid
    BY <2>1 DEF SoloInv, IdentityInv, Drawn, Apart, Live, LoginSteps
  <2>4. \A k \in Slots : sessions'[k] = IF k = i[t] THEN mine[t] ELSE sessions[k]
    BY <1>2 DEF SoloInv, IdentityInv, Typed, TypeOK
  <2>5. OneSlotPerSid'
    BY <2>3, <2>4 DEF SoloInv, OneSlotPerSid
  <2>6. OneSessionPerUser'
    BY <2>2, <2>4 DEF SoloInv, OneSessionPerUser
  <2>7. QED
    BY <2>5, <2>6
<1>3. QED
  BY <1>1, <1>2, SoloTable DEF Zeroed, Fades

LEMMA SoloStill ==
  ASSUME SoloInv, NEW t \in Threads, Fades, Still(t), mine'[t].user = mine[t].user
  PROVE  SoloOK(t)'
<1>1. /\ SoloOK(t) /\ Typed /\ i[t] \in Slots
      /\ pc[t] \in ViewSteps => view[t] \in Slots
      /\ pc[t] \in LoginSteps => mine[t].user # NoUser
  BY NullAssumption DEF SoloInv, IdentityInv, Typed, TypeOK, ViewOK, Drawn, SlotDrawn
<1>2. \A k \in Slots : /\ sessions'[k].sid \in {sessions[k].sid, NoSid}
                       /\ sessions'[k].user \in {sessions[k].user, NoUser}
  BY DEF Fades, SameIdentity
<1>3. QED
  BY <1>1, <1>2 DEF SoloOK, Still, LoginSteps, ViewSteps, CheckSteps, RouteSteps

(* The steps of the request itself. *)
LEMMA SoloRequest ==
  ASSUME SoloInv, NEW t \in Threads, Request(t), [Next]_vars
  PROVE  SoloOK(t)'
<1>0. /\ SoloOK(t) /\ Typed /\ Drawn /\ AheadOf(t) /\ i[t] \in Slots /\ N \in Nat
      /\ mine[t] \in Session
      /\ pc[t] \in ViewSteps => view[t] \in Slots
      /\ pc[t] \in LoginSteps => mine[t].user # NoUser /\ mine[t].sid # NoSid
  BY SizeAssumption, NullAssumption
  DEF SoloInv, IdentityInv, HeldInv, Typed, TypeOK, ViewOK, Drawn, SlotDrawn
<1> DEFINE Idle == pc'[t] = "idle"
<1>1. ASSUME Idle PROVE SoloOK(t)'
  BY <1>1 DEF SoloOK, CheckSteps, ViewSteps, RouteSteps
<1>2. CASE Dismiss(t)
  BY <1>0, <1>1, <1>2 DEF Dismiss, Answer, Typed, TypeOK
<1>3. ASSUME NEW u \in Users, NEW s \in Sids, login(t, u, s) PROVE SoloOK(t)'
  <2>1. pc'[t] = "add_scan" /\ i'[t] = 1
    BY <1>0, <1>3 DEF login, AheadOf, Typed, TypeOK
  <2>2. \A k \in Slots : ~(k < 1)
    BY DEF Slots
  <2>3. QED
    BY <2>1, <2>2 DEF SoloOK, CheckSteps, ViewSteps, RouteSteps
<1>4. CASE add_scan(t)
  <2>1. /\ pc[t] = "add_scan" /\ sessions' = sessions /\ mine' = mine
        /\ \/ /\ pc'[t] = "add_zero" /\ i'[t] = i[t] /\ sessions[i[t]].user = mine[t].user
           \/ /\ sessions[i[t]].user # mine[t].user
              /\ \/ pc'[t] = "add_scan" /\ i'[t] = i[t] + 1
                 \/ pc'[t] = "claim_scan" /\ i[t] = N
    BY <1>0, <1>4 DEF add_scan, Loop, Exhausted, Goto, Typed, TypeOK
  <2>2. \A k \in Slots : k < i[t] => sessions[k].user # mine[t].user
    BY <1>0, <2>1 DEF SoloOK
  <2>3. \A k \in Slots : k <= N /\ (k < i[t] + 1 => k < i[t] \/ k = i[t])
                         /\ (i[t] = N => k < i[t] \/ k = i[t])
    BY <1>0 DEF Slots
  <2>4. QED
    BY <2>1, <2>2, <2>3 DEF SoloOK, CheckSteps, ViewSteps, RouteSteps
<1>5. CASE add_zero(t)
  <2>1. /\ pc[t] = "add_zero" /\ sessions' = [sessions EXCEPT ![i[t]] = Zero] /\ mine' = mine
        /\ \/ pc'[t] = "add_scan" /\ i'[t] = i[t] + 1
           \/ pc'[t] = "claim_scan" /\ i[t] = N
    BY <1>0, <1>5 DEF add_zero, Put, Loop, Exhausted, Goto, Typed, TypeOK
  <2>2. \A k \in Slots : k < i[t] => sessions[k].user # mine[t].user
    BY <1>0, <2>1 DEF SoloOK
  <2>3. \A k \in Slots : k <= N /\ (k < i[t] + 1 => k < i[t] \/ k = i[t])
                         /\ (i[t] = N => k < i[t] \/ k = i[t])
    BY <1>0 DEF Slots
  <2>4. mine[t].user # NoUser
    BY <1>0, <2>1 DEF LoginSteps
  <2>5. \A k \in Slots : sessions'[k].user = IF k = i[t] THEN NoUser ELSE sessions[k].user
    BY <1>0, <2>1, ZeroIsSession DEF Typed, TypeOK
  <2>6. QED
    BY <2>1, <2>2, <2>3, <2>4, <2>5 DEF SoloOK, CheckSteps, ViewSteps, RouteSteps
<1>6. CASE claim_scan(t)
  <2>1. /\ pc[t] = "claim_scan" /\ sessions' = sessions
        /\ \/ pc'[t] = "claim_write" /\ i'[t] = i[t] /\ sessions[i[t]].sid = NoSid /\ mine' = mine
           \/ pc'[t] = "claim_scan" /\ mine' = mine
           \/ Idle
    BY <1>0, <1>6 DEF claim_scan, Loop, Exhausted, Goto, Answer, Typed, TypeOK
  <2>2. QED
    BY <1>0, <1>1, <2>1 DEF SoloOK, CheckSteps, ViewSteps, RouteSteps
<1>7. CASE claim_write(t)
  BY <1>0, <1>1, <1>7 DEF claim_write, Answer, Typed, TypeOK
<1>8. ASSUME NEW s \in Sids, NEW r \in Routes, check_sessionid(t, s, r) PROVE SoloOK(t)'
  <2>1. pc'[t] = "find" /\ mine'[t].sid = s /\ s # NoSid
    BY <1>0, <1>8, NullAssumption DEF check_sessionid, Zero, Typed, TypeOK
  <2>2. QED
    BY <2>1 DEF SoloOK
<1>9. CASE get_by_sessionid(t)
  <2>1. \/ Idle
        \/ pc'[t] \in {"find", "stamp"} /\ mine' = mine /\ pc[t] = "find"
    BY <1>0, <1>9 DEF get_by_sessionid, Loop, Goto, Answer, Typed, TypeOK
  <2>2. QED
    BY <1>0, <1>1, <2>1 DEF SoloOK, CheckSteps, ViewSteps, RouteSteps
<1>10. CASE stamp(t)
  <2>1. pc'[t] = "upd_read" /\ mine' = mine /\ pc[t] = "stamp"
    BY <1>0, <1>10 DEF stamp, Goto, Typed, TypeOK
  <2>2. QED
    BY <1>0, <2>1 DEF SoloOK, CheckSteps, ViewSteps, RouteSteps
<1>11. CASE upd_read(t)
  <2>1. /\ pc[t] = "upd_read" /\ pc'[t] = "upd_cmp" /\ seen'[t] = sessions[i[t]].sid
        /\ sessions' = sessions /\ mine' = mine /\ i' = i /\ view' = view /\ view[t] \in Slots
    BY <1>0, <1>11 DEF upd_read, Typed, TypeOK, ViewSteps
  <2>2. sessions[i[t]].sid # NoSid /\ i[t] # view[t] => sessions[view[t]].sid # sessions[i[t]].sid
    BY <1>0, <2>1 DEF SoloInv, OneSlotPerSid
  <2>3. QED
    BY <1>0, <2>1, <2>2 DEF SoloOK, CheckSteps, ViewSteps, RouteSteps
<1>12. CASE upd_cmp(t)
  <2>1. pc[t] = "upd_cmp" /\ sessions' = sessions
    BY <1>12 DEF upd_cmp
  <2>2. \/ Idle
        \/ pc'[t] = "upd_read" /\ mine' = mine
        \/ /\ pc'[t] = "upd_write" /\ mine' = mine /\ i'[t] = i[t] /\ view' = view
           /\ seen[t] = sessions[view[t]].sid
    BY <1>0, <1>12 DEF upd_cmp, Answer, Typed, TypeOK
  <2>3. CASE seen[t] = sessions[view[t]].sid
    <3>1. i[t] = view[t] \/ (sessions[i[t]].sid = NoSid /\ sessions[view[t]].sid = NoSid)
      BY <1>0, <2>1, <2>3 DEF SoloOK
    <3>2. QED
      BY <1>0, <1>1, <2>1, <2>2, <3>1 DEF SoloOK, CheckSteps, ViewSteps, RouteSteps
  <2>4. CASE seen[t] # sessions[view[t]].sid
    BY <1>0, <1>1, <2>1, <2>2, <2>4 DEF SoloOK, CheckSteps, ViewSteps, RouteSteps
  <2>5. QED
    BY <2>3, <2>4
<1>13. CASE upd_write(t)
  <2>1. \/ Idle
        \/ pc'[t] \in {"del_scan", "prof_find"} /\ mine' = mine /\ pc[t] = "upd_write"
    BY <1>0, <1>13 DEF upd_write, Enter, Answer, Typed, TypeOK
  <2>2. QED
    BY <1>0, <1>1, <2>1 DEF SoloOK, CheckSteps, ViewSteps, RouteSteps
<1>14. CASE del_scan(t)
  <2>1. pc[t] = "del_scan" /\ sessions' = sessions
    BY <1>14 DEF del_scan
  <2>2. \/ Idle
        \/ pc'[t] = "del_scan" /\ mine' = mine
        \/ /\ pc'[t] = "del_write" /\ mine' = mine /\ i'[t] = i[t]
           /\ sessions[i[t]].sid = mine[t].sid
    BY <1>0, <1>14 DEF del_scan, Loop, Goto, Answer, Typed, TypeOK
  <2>3. mine[t].sid # NoSid
    BY <1>0, <2>1 DEF SoloOK, RouteSteps
  <2>4. CASE sessions[i[t]].sid = mine[t].sid
    <3>1. \A k \in Slots : k # i[t] => sessions[k].sid # mine[t].sid
      BY <1>0, <2>3, <2>4 DEF SoloInv, OneSlotPerSid
    <3>2. QED
      BY <1>0, <1>1, <2>1, <2>2, <2>3, <2>4, <3>1 DEF SoloOK, CheckSteps, ViewSteps, RouteSteps
  <2>5. CASE sessions[i[t]].sid # mine[t].sid
    BY <1>0, <1>1, <2>1, <2>2, <2>3, <2>5 DEF SoloOK, CheckSteps, ViewSteps, RouteSteps
  <2>6. QED
    BY <2>4, <2>5
<1>15. CASE del_write(t)
  BY <1>0, <1>1, <1>15 DEF del_write, Answer, Typed, TypeOK
<1>16. CASE prof_find(t)
  <2>1. \/ Idle
        \/ pc'[t] = "prof_find" /\ mine' = mine /\ pc[t] = "prof_find"
    BY <1>0, <1>16 DEF prof_find, Loop, Goto, Answer, Typed, TypeOK
  <2>2. QED
    BY <1>0, <1>1, <2>1 DEF SoloOK, CheckSteps, ViewSteps, RouteSteps
<1>17. QED
  BY <1>2, <1>3, <1>4, <1>5, <1>6, <1>7, <1>8, <1>9, <1>10, <1>11, <1>12, <1>13, <1>14, <1>15,
     <1>16 DEF Request

LEMMA SoloInit == Init => SoloInv
<1> SUFFICES ASSUME Init PROVE SoloInv
  OBVIOUS
<1>1. \A k \in Slots : sessions[k].sid = NoSid /\ sessions[k].user = NoUser
  BY ZeroIsSession DEF Init
<1>2. \A t \in Threads : SoloOK(t)
  BY DEF Init, SoloOK, CheckSteps, ViewSteps, RouteSteps
<1>3. QED
  BY <1>1, <1>2, IdentityInit, HeldInit DEF SoloInv, OneSlotPerSid, OneSessionPerUser

LEMMA SoloStep ==
  ASSUME OneThread
  PROVE  SoloInv /\ [Next]_vars => SoloInv'
<1> SUFFICES ASSUME SoloInv, [Next]_vars PROVE SoloInv'
  OBVIOUS
<1>1. ASSUME NEW t \in Threads PROVE SoloOK(t)'
  <2>1. CASE \E u \in Threads : Request(u)
    BY <2>1, SoloRequest DEF OneThread
  <2>2. CASE ~ \E u \in Threads : Request(u)
    <3>1. Fades
      <4>1. \A u \in Threads : ~add_zero(u) /\ ~del_write(u) /\ ~claim_write(u)
        BY <2>2 DEF Request
      <4>2. QED
        BY <4>1, SoloTable DEF Fades, Zeroed
    <3>2. CASE Accept(t)
      <4>1. pc'[t] = "recv"
        BY <3>2 DEF Accept, Goto, SoloInv, IdentityInv, Typed, TypeOK
      <4>2. QED
        BY <4>1 DEF SoloOK, CheckSteps, ViewSteps, RouteSteps
    <3>3. CASE ~Accept(t)
      <4>1. Still(t)
        BY <2>2, <3>3, OthersKeep DEF SoloInv, IdentityInv
      <4>2. mine'[t].user = mine[t].user
        <5>1. mine' = mine \/ Tick
          BY <2>2 DEF Next, vars, serve1, Accept, Goto, Timeout, purge_expired, purge_sid,
                      purge_time, purge_clear
        <5>2. mine[t] \in Session
          BY DEF SoloInv, IdentityInv, Typed, TypeOK
        <5>3. QED
          BY <5>1, <5>2, OlderIsSession DEF Tick
      <4>3. QED
        BY <3>1, <4>1, <4>2, SoloStill
    <3>4. QED
      BY <3>2, <3>3
  <2>3. QED
    BY <2>1, <2>2
<1>2. IdentityInv' /\ HeldInv'
  BY IdentityStep, HeldInvStep DEF SoloInv
<1>3. QED
  BY <1>1, <1>2, SoloSlots DEF SoloInv

(* Sessions.add: with one request at a time a user has one session at      *)
(* most, whatever the purge zeroes under the two loops of a login.         *)
THEOREM OneSessionPerUserHolds ==
  ASSUME OneThread
  PROVE  Spec => []OneSessionPerUser
<1>1. SoloInv => OneSessionPerUser
  BY DEF SoloInv
<1>2. SoloInv /\ [Next]_vars => SoloInv'
  BY SoloStep
<1>3. QED
  BY <1>1, <1>2, SoloInit, PTL DEF Spec

(* Sessions.delete: with one request at a time a logout that answers has   *)
(* removed the session.                                                    *)
THEOREM LogoutEndsHolds ==
  ASSUME OneThread
  PROVE  Spec => LogoutEnds
<1>1. ASSUME SoloInv, [Next]_vars, NEW t \in Threads, pc[t] = "del_write", pc'[t] = "idle"
      PROVE  mine[t].sid \notin Live'
  <2>1. del_write(t)
    <3>1. ~Still(t) /\ ~Accept(t)
      BY <1>1 DEF Still, Accept
    <3>2. Request(t)
      BY <1>1, <3>1, OthersKeep DEF SoloInv, IdentityInv
    <3>3. QED
      BY <1>1, <3>2
      DEF Request, Dismiss, login, add_scan, add_zero, claim_scan, claim_write, check_sessionid,
          get_by_sessionid, stamp, upd_read, upd_cmp, upd_write, del_scan, prof_find
  <2>2. /\ sessions' = [sessions EXCEPT ![i[t]] = Zero]
        /\ \A k \in Slots : k # i[t] => sessions[k].sid # mine[t].sid
    BY <1>1, <2>1 DEF del_write, Put, SoloInv, SoloOK
  <2>3. \A k \in Slots : sessions'[k].sid # mine[t].sid \/ sessions'[k].sid = NoSid
    BY <1>1, <2>2, ZeroIsSession DEF SoloInv, IdentityInv, Typed, TypeOK
  <2>4. QED
    BY <2>3 DEF Live
<1>2. SoloInv /\ [Next]_vars =>
        [\A t \in Threads :
            pc[t] = "del_write" /\ pc'[t] = "idle" => mine[t].sid \notin Live']_vars
  BY <1>1
<1>3. SoloInv /\ [Next]_vars => SoloInv'
  BY SoloStep
<1>4. QED
  BY <1>2, <1>3, SoloInit, PTL DEF Spec, LogoutEnds

(* sharedmemory.py: with one request at a time a session ends by the purge,*)
(* by its own logout or by a new login of its user, and by nothing else.   *)
THEOREM EndsByRuleHolds ==
  ASSUME OneThread
  PROVE  Spec => EndsByRule
<1> DEFINE Rule(s) ==
             \/ main.at = "clear" /\ sessions[main.slot].sid = s
             \/ \E t \in Threads :
                   \/ pc[t] = "del_write" /\ mine[t].sid = s
                   \/ pc[t] = "add_zero" /\ mine[t].user = issued[s]
<1>1. ASSUME SoloInv, [Next]_vars, NEW s \in Live \ Live'
      PROVE  Rule(s)
  <2>1. PICK k \in Slots : sessions[k].sid = s /\ s # NoSid
    BY <1>1 DEF Live
  <2>2. ~SameIdentity(k, k)
    BY <1>1, <2>1 DEF Live, SameIdentity
  <2>3. CASE main.at = "clear" /\ Zeroed(main.slot)
    <3>1. k = main.slot
      BY <2>2, <2>3 DEF Zeroed
    <3>2. QED
      BY <2>1, <2>3, <3>1
  <2>4. ASSUME NEW t \in Threads, add_zero(t) \/ del_write(t), Zeroed(i[t]) PROVE Rule(s)
    <3>1. k = i[t]
      BY <2>2, <2>4 DEF Zeroed
    <3>2. SoloOK(t)
      BY <1>1 DEF SoloInv
    <3>3. CASE del_write(t)
      BY <2>1, <3>1, <3>2, <3>3 DEF del_write, SoloOK
    <3>4. CASE add_zero(t)
      <4>1. pc[t] = "add_zero" /\ sessions[k].user \in {mine[t].user, NoUser}
        BY <3>1, <3>2, <3>4 DEF add_zero, SoloOK
      <4>2. sessions[k].user = issued[s] /\ sessions[k].user # NoUser
        BY <1>1, <2>1, NullAssumption DEF SoloInv, IdentityInv, Drawn, SlotDrawn
      <4>3. QED
        BY <4>1, <4>2
    <3>5. QED
      BY <2>4, <3>3, <3>4
  <2>5. ASSUME NEW t \in Threads, claim_write(t), sessions' = [sessions EXCEPT ![i[t]] = mine[t]]
        PROVE  FALSE
    <3>1. pc[t] = "claim_write" /\ i[t] \in Slots
      BY <1>1, <2>5 DEF claim_write, SoloInv, IdentityInv, Typed, TypeOK
    <3>2. sessions[i[t]].sid = NoSid
      BY <1>1, <3>1 DEF SoloInv, SoloOK
    <3>3. sessions'[k] = sessions[k]
      BY <1>1, <2>1, <2>5, <3>2 DEF SoloInv, IdentityInv, Typed, TypeOK
    <3>4. QED
      BY <2>2, <3>3 DEF SameIdentity
  <2> HIDE DEF Rule
  <2>6. QED
    BY <1>1, <2>2, <2>3, <2>4, <2>5, SoloTable
<1>2. SoloInv /\ [Next]_vars => [\A s \in Live \ Live' : Rule(s)]_vars
  BY <1>1
<1>3. SoloInv /\ [Next]_vars => SoloInv'
  BY SoloStep
<1>4. QED
  BY <1>2, <1>3, SoloInit, PTL DEF Spec, EndsByRule

=============================================================================
