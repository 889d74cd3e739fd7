----------------------------- MODULE ControlProofs -----------------------------
(***************************************************************************)
(* Theorems of Control, for any number of threads, sessions and attempts,  *)
(* and of the lists of backends from which pids to terminate are taken.    *)
(***************************************************************************)
EXTENDS MCControl, RecordsProofs

Step(t) ==
    \/ GoOn(t)
    \/ \E action \in Commands : post_pg_control(t, action)
    \/ \E pids \in SUBSET backends \ {{}} : post_activity_kill(t, pids)

Environment ==
    \/ \E s \in Sessions : Connect(s) \/ Disconnect(s)
    \/ Proceed
    \/ SetClock

LEMMA NextIs == Next <=> (\E t \in Threads : Step(t)) \/ Environment
  BY DEF Next, Step, Environment

(* A thread that is about to store a notification has its time, and one    *)
(* has an action if and only if it is at a step of post_pg_control.        *)
WellFormed(r) ==
    /\ r.pc \in {"push", "announce"} => r.time \in Times
    /\ r.action \in Commands <=> r.pc \in {"push", "pg_ctl", "poll"}

Dated == \A t \in Threads : WellFormed(ctl[t])

(* The records are numbered in the order in which they were stored. *)
Numbered(records) ==
    /\ \A r \in records : r.n \in 0 .. Cardinality(records) - 1
    /\ \A k \in 0 .. Cardinality(records) - 1 : \E r \in records : r.n = k
    /\ \A r, s \in records : r.n = s.n => r = s

StoredOK == IsTable(stored) /\ Numbered(stored) /\ log = Newest(stored, Limit)
Typed == TypeOK /\ Dated /\ StoredOK

LEMMA TypedInit == Init => Typed
<1> SUFFICES ASSUME Init PROVE Typed
  OBVIOUS
<1>1. Idle \in Request
  BY NumberAssumption DEF Idle, Request
<1>2. WellFormed(Idle)
  BY NoneAssumption DEF WellFormed, Idle
<1>6. TypeOK /\ Dated
  BY <1>1, <1>2 DEF Init, TypeOK, Dated, States
<1>3. IsTable(stored) /\ Numbered(stored)
  <2>1. stored = {} /\ IsFiniteSet(stored) /\ Cardinality(stored) = 0
    BY FS_EmptySet DEF Init
  <2>2. QED
    BY <2>1 DEF IsTable, Numbered
<1>4. log = Newest(stored, Limit)
  BY DEF Init, Newest
<1>5. QED
  BY <1>6, <1>3, <1>4 DEF Typed, StoredOK

LEMMA OneMoreNumbered ==
  ASSUME NEW records, IsFiniteSet(records), Numbered(records),
         NEW record, record.n = Cardinality(records)
  PROVE  Numbered(records \cup {record})
<1>1. Cardinality(records) \in Nat
  BY FS_CardinalityType
<1>2. record \notin records
  BY <1>1 DEF Numbered
<1>3. Cardinality(records \cup {record}) = Cardinality(records) + 1
  BY <1>2, FS_AddElement
<1>4. PICK c \in Nat : c = Cardinality(records)
  BY <1>1
<1>5. /\ \A r \in records : r.n \in 0 .. c - 1
      /\ \A k \in 0 .. c - 1 : \E r \in records : r.n = k
      /\ \A r, s \in records : r.n = s.n => r = s
  BY <1>4 DEF Numbered
<1>6. \A r \in records \cup {record} : r.n \in 0 .. c
  BY <1>4, <1>5
<1>7. ASSUME NEW k \in 0 .. c PROVE \E r \in records \cup {record} : r.n = k
  <2>1. k = c \/ k \in 0 .. c - 1
    BY <1>4
  <2>2. QED
    BY <1>4, <1>5, <2>1
<1>8. ASSUME NEW r \in records \cup {record}, NEW s \in records \cup {record}, r.n = s.n
      PROVE  r = s
  BY <1>4, <1>5, <1>8
<1>9. Cardinality(records \cup {record}) - 1 = c
  BY <1>3, <1>4
<1>10. QED
  BY <1>6, <1>7, <1>8, <1>9 DEF Numbered

LEMMA StoredKeeps ==
  ASSUME Typed, NEW time \in Times, Stored(time)
  PROVE  StoredOK' /\ log' \subseteq stored' /\ (\A record \in stored' : record.time \in Times)
<1> DEFINE record == [time |-> time, n |-> Cardinality(stored)]
<1>1. record.time \in Int
  BY NumberAssumption
<1>2. IsTable(stored \cup {record})
  BY <1>1, FS_AddElement DEF Typed, StoredOK, IsTable
<1>3. log' = Newest(stored \cup {record}, Limit)
  BY <1>1, PurgeForgetsNothing, NumberAssumption DEF Typed, StoredOK, Stored
<1>9. Numbered(stored \cup {record})
  BY OneMoreNumbered DEF Typed, StoredOK, IsTable
<1>4. stored' = stored \cup {record}
  BY DEF Stored
<1>5. StoredOK'
  BY <1>2, <1>3, <1>4, <1>9 DEF StoredOK, IsTable, Numbered
<1>6. \A r \in stored' : r.time \in Times
  BY <1>4 DEF Typed, TypeOK
<1>7. log' \subseteq stored'
  BY <1>3, <1>4 DEF Newest
<1>8. QED
  BY <1>5, <1>6, <1>7

(* What is left to see of a step that stores nothing. *)
LEMMA NothingStored ==
  ASSUME Typed, UNCHANGED logVars
  PROVE  StoredOK' /\ log' \subseteq stored' /\ (\A record \in stored' : record.time \in Times)
  BY DEF Typed, TypeOK, StoredOK, IsTable, Numbered, logVars

(* What a command may leave the server in. *)
LEMMA ResultOK ==
  ASSUME Typed, NEW action \in Commands, NEW result \in exec_script(action)
  PROVE  /\ result.state \in States
         /\ result.backends \in SUBSET (Sessions \cup Threads)
         /\ result.state \in {"down", "starting"} => result.backends = {}
         /\ result.executed \in BOOLEAN /\ result.rcode \in {0, 1}
<1> USE CommandsAssumption DEF Typed, TypeOK, States, Accepting
<1>1. CASE \E state \in After(action) : result = Ran(action, 0, state)
  BY <1>1 DEF After, Ran
<1>2. CASE \E state \in AfterFailure(action) : result = Ran(action, 1, state)
  BY <1>2 DEF AfterFailure, Ran
<1>3. CASE result = [rcode |-> 0, executed |-> FALSE, state |-> server, backends |-> backends]
  BY <1>3
<1>4. QED
  BY <1>1, <1>2, <1>3 DEF exec_script

Steps == {"idle", "push", "pg_ctl", "poll", "kill", "announce"}

LEMMA RequestTyped ==
  ASSUME NEW r \in Request
  PROVE  /\ r.pc \in Steps
         /\ r.action \in Commands \cup {None} /\ r.time \in Times \cup {None}
         /\ r.tries \in 0 .. Attempts - 1 /\ r.pids \in SUBSET (Sessions \cup Threads)
         /\ r.clear \in BOOLEAN /\ r.disturbed \in BOOLEAN
  BY DEF Request, Steps

(* The request of a thread becomes r. *)
LEMMA BecomesTyped ==
  ASSUME ctl \in [Threads -> Request], Dated, NEW t \in Threads, NEW r \in Request,
         WellFormed(r), ctl' = [ctl EXCEPT ![t] = r]
  PROVE  ctl' \in [Threads -> Request] /\ Dated'
  BY DEF Dated

LEMMA IdleTyped == Idle \in Request /\ WellFormed(Idle) /\ Idle.action = None
<1>1. Idle \in Request
  BY NumberAssumption DEF Idle, Request
<1>2. WellFormed(Idle) /\ Idle.action = None
  BY NoneAssumption DEF Idle, WellFormed
<1>3. QED
  BY <1>1, <1>2

LEMMA AnswerTyped ==
  ASSUME ctl \in [Threads -> Request], Dated, NEW t \in Threads, Answer(t)
  PROVE  ctl' \in [Threads -> Request] /\ Dated'
  BY IdleTyped, BecomesTyped DEF Answer

LEMMA PostTyped ==
  ASSUME Typed, NEW t \in Threads, NEW action \in Commands, post_pg_control(t, action)
  PROVE  ctl' \in [Threads -> Request] /\ Dated'
<1> DEFINE r == [Idle EXCEPT !.pc = "push", !.action = action, !.time = now,
                             !.disturbed = Controlled # {}]
<1>1. (Controlled # {}) \in BOOLEAN /\ now \in Times
  BY DEF Typed, TypeOK
<1>2. r \in Request /\ r.pc = "push" /\ r.time = now /\ r.action = action
  BY <1>1, IdleTyped DEF Request
<1>4. ctl' = [u \in Threads |-> IF u = t THEN r
                 ELSE [ctl[u] EXCEPT !.disturbed = u \in Controlled]]
  BY DEF post_pg_control, Notification
<1>5. ctl \in [Threads -> Request] /\ Dated
  BY DEF Typed, TypeOK
<1>6. WellFormed(r)
  BY <1>1, <1>2, CommandsAssumption DEF WellFormed
<1>7. ASSUME NEW u \in Threads
      PROVE  /\ [ctl[u] EXCEPT !.disturbed = u \in Controlled] \in Request
             /\ WellFormed([ctl[u] EXCEPT !.disturbed = u \in Controlled])
  <2>1. ctl[u] \in Request /\ WellFormed(ctl[u])
    BY <1>5 DEF Dated
  <2> DEFINE b == u \in Controlled
             d == [ctl[u] EXCEPT !.disturbed = b]
  <2>2. b \in BOOLEAN
    OBVIOUS
  <2> HIDE DEF b
  <2>3. d \in Request /\ d.pc = ctl[u].pc /\ d.time = ctl[u].time /\ d.action = ctl[u].action
    BY <2>1, <2>2 DEF Request
  <2>4. d \in Request /\ WellFormed(d)
    BY <2>1, <2>3 DEF WellFormed
  <2>5. QED
    BY <2>4 DEF b
<1> DEFINE d(u) == [ctl[u] EXCEPT !.disturbed = u \in Controlled]
<1> HIDE DEF d, r
<1>8. ctl' = [u \in Threads |-> IF u = t THEN r ELSE d(u)]
  BY <1>4 DEF d, r
<1>9. \A u \in Threads : d(u) \in Request /\ WellFormed(d(u))
  BY <1>7 DEF d
<1>10. QED
  BY <1>2, <1>6, <1>8, <1>9 DEF Dated

(* TypeOK, Dated and StoredOK follow from their parts. *)
LEMMA TypedFrom ==
  ASSUME Typed, ctl' \in [Threads -> Request] /\ Dated',
         \/ UNCHANGED logVars
         \/ \E time \in Times : Stored(time),
         server' \in States,
         backends' \in SUBSET (Sessions \cup Threads),
         server' \in {"down", "starting"} => backends' = {},
         now' \in Times, promised' \in {None, "up", "down"}
  PROVE  Typed'
<1>1. StoredOK' /\ log' \subseteq stored' /\ (\A record \in stored' : record.time \in Times)
  BY StoredKeeps, NothingStored
<1>2. QED
  BY <1>1 DEF Typed, TypeOK

LEMMA TypedNext == Typed /\ [Next]_vars => Typed'
<1> SUFFICES ASSUME Typed, [Next]_vars PROVE Typed'
  OBVIOUS
<1>T. /\ server \in States
      /\ backends \in SUBSET (Sessions \cup Threads)
      /\ ctl \in [Threads -> Request] /\ Dated
      /\ server \in {"down", "starting"} => backends = {}
      /\ now \in Times /\ promised \in {None, "up", "down"}
  BY DEF Typed, TypeOK
<1>1. ASSUME NEW t \in Threads, NEW action \in Commands, post_pg_control(t, action)
      PROVE  Typed'
  BY <1>T, <1>1, PostTyped, TypedFrom DEF post_pg_control
<1>2. ASSUME NEW t \in Threads, push(t) PROVE Typed'
  <2>1. CASE Stored(ctl[t].time) /\ ctl' = [ctl EXCEPT ![t].pc = "pg_ctl", ![t].time = None]
    <3> DEFINE r == [ctl[t] EXCEPT !.pc = "pg_ctl", !.time = None]
    <3>0. ctl[t] \in Request /\ WellFormed(ctl[t]) /\ "pg_ctl" \in Steps
      BY <1>T DEF Dated, Steps
    <3>1. r \in Request /\ WellFormed(r)
      <4>1. r \in Request /\ r.pc = "pg_ctl" /\ r.action = ctl[t].action
        BY <3>0 DEF Request, Steps
      <4>2. QED
        BY <1>2, <3>0, <4>1 DEF WellFormed, push
    <3>2. ctl' \in [Threads -> Request] /\ Dated'
      BY <1>T, <2>1, <3>1, BecomesTyped
    <3>3. ctl[t].time \in Times
      BY <1>2, <3>0 DEF push, WellFormed
    <3>4. QED
      BY <1>2, <1>T, <2>1, <3>2, <3>3, TypedFrom DEF push
  <2>2. CASE Answer(t) /\ UNCHANGED logVars
    BY <1>2, <1>T, <2>2, AnswerTyped, TypedFrom DEF push
  <2>3. QED
    BY <1>2, <2>1, <2>2 DEF push
<1>3. ASSUME NEW t \in Threads, pg_ctl(t) PROVE Typed'
  <2>1. ctl[t].action \in Commands /\ WellFormed(ctl[t]) /\ ctl[t] \in Request
    BY <1>3, <1>T DEF pg_ctl, Dated, WellFormed
  <2>2. PICK result \in exec_script(ctl[t].action), clear \in BOOLEAN :
          /\ server' = result.state /\ backends' = result.backends
          /\ promised' \in {promised, None}
          /\ \/ Answer(t)
             \/ ctl' = [ctl EXCEPT ![t].pc = "poll", ![t].clear = clear]
    <3>1. PICK result \in exec_script(ctl[t].action) :
             /\ server' = result.state /\ backends' = result.backends
             /\ promised' \in {promised, None}
             /\ \/ Answer(t)
                \/ ctl' = [ctl EXCEPT ![t].pc = "poll",
                                      ![t].clear = Clear(ctl[t].action, result)]
      BY <1>3 DEF pg_ctl
    <3>2. Clear(ctl[t].action, result) \in BOOLEAN
      BY DEF Clear
    <3>3. QED
      BY <3>1, <3>2
  <2>3. /\ result.state \in States
        /\ result.backends \in SUBSET (Sessions \cup Threads)
        /\ result.state \in {"down", "starting"} => result.backends = {}
    BY <2>1, ResultOK
  <2>4. ctl' \in [Threads -> Request] /\ Dated'
    <3>1. CASE Answer(t)
      BY <1>T, <3>1, AnswerTyped
    <3>2. CASE ctl' = [ctl EXCEPT ![t].pc = "poll", ![t].clear = clear]
      <4> DEFINE r == [ctl[t] EXCEPT !.pc = "poll", !.clear = clear]
      <4>1. "poll" \in Steps
        BY DEF Steps
      <4>2. r \in Request /\ r.pc = "poll" /\ r.action = ctl[t].action
        BY <2>1, <2>2 DEF Request, Steps
      <4>3. WellFormed(r)
        BY <2>1, <4>2 DEF WellFormed
      <4>4. QED
        BY <1>T, <3>2, <4>2, <4>3, BecomesTyped
    <3>3. QED
      BY <2>2, <3>1, <3>2
  <2>5. QED
    BY <1>3, <1>T, <2>2, <2>3, <2>4, TypedFrom DEF pg_ctl
<1>4. ASSUME NEW t \in Threads, Retry(t) PROVE ctl' \in [Threads -> Request] /\ Dated'
  <2>1. CASE ctl[t].tries < Attempts - 1 /\ ctl' = [ctl EXCEPT ![t].tries = @ + 1]
    <3> DEFINE r == [ctl[t] EXCEPT !.tries = ctl[t].tries + 1]
    <3>1. ctl[t].tries + 1 \in 0 .. Attempts - 1
      BY <1>T, <2>1, RequestTyped, NumberAssumption
    <3>2. /\ r \in Request /\ r.pc = ctl[t].pc /\ r.time = ctl[t].time
          /\ r.action = ctl[t].action
      BY <1>T, <3>1 DEF Request
    <3>3. WellFormed(r)
      BY <1>T, <3>2 DEF Dated, WellFormed
    <3>4. QED
      BY <1>T, <2>1, <3>2, <3>3, BecomesTyped
  <2>2. QED
    BY <1>T, <1>4, <2>1, AnswerTyped DEF Retry
<1>5. ASSUME NEW t \in Threads, poll(t) PROVE Typed'
  <2>1. promised' \in {None, "up", "down"}
    BY <1>5, <1>T DEF poll, Promise
  <2>2. ctl' \in [Threads -> Request] /\ Dated'
    BY <1>5, <1>T, <1>4, AnswerTyped DEF poll
  <2>3. QED
    BY <1>5, <1>T, <2>1, <2>2, TypedFrom DEF poll
<1>6. ASSUME NEW t \in Threads, poll_refused(t) PROVE Typed'
  <2>1. ctl' \in [Threads -> Request] /\ Dated'
    BY <1>6, <1>T, <1>4, AnswerTyped DEF poll_refused
  <2>2. QED
    BY <1>6, <1>T, <2>1, TypedFrom DEF poll_refused
<1>7. ASSUME NEW t \in Threads, NEW pids \in SUBSET backends, post_activity_kill(t, pids)
      PROVE  Typed'
  <2> DEFINE r == [Idle EXCEPT !.pc = "kill", !.pids = pids]
  <2>1. pids \in SUBSET (Sessions \cup Threads)
    BY <1>T
  <2>2. r \in Request /\ r.pc = "kill" /\ r.action = None
    BY <2>1, IdleTyped DEF Request
  <2>5. WellFormed(r)
    BY <2>2, NoneAssumption DEF WellFormed
  <2>3. ctl' \in [Threads -> Request] /\ Dated'
    BY <1>7, <1>T, <2>2, <2>5, BecomesTyped DEF post_activity_kill
  <2>4. QED
    BY <1>7, <1>T, <2>3, TypedFrom DEF post_activity_kill, Accepting, States
<1>8. ASSUME NEW t \in Threads, NEW pid \in ctl[t].pids, pg_terminate_backend(t, pid)
      PROVE  Typed'
  <2> DEFINE r == [ctl[t] EXCEPT !.pc = "announce", !.pids = ctl[t].pids \ {pid}, !.time = now]
  <2>1. ctl[t].pids \ {pid} \in SUBSET (Sessions \cup Threads)
    BY <1>T, RequestTyped
  <2>0. ctl[t] \in Request /\ WellFormed(ctl[t]) /\ "announce" \in Steps
    BY <1>T DEF Dated, Steps
  <2>2. r \in Request /\ WellFormed(r)
    <3>1. r \in Request /\ r.pc = "announce" /\ r.time = now /\ r.action = ctl[t].action
      BY <1>T, <2>0, <2>1 DEF Request, Steps
    <3>2. QED
      BY <1>8, <1>T, <2>0, <3>1 DEF WellFormed, pg_terminate_backend
  <2>3. ctl' = [ctl EXCEPT ![t] = r]
    BY <1>8, <1>T DEF pg_terminate_backend, Notification
  <2>4. ctl' \in [Threads -> Request] /\ Dated'
    BY <1>T, <2>2, <2>3, BecomesTyped
  <2>5. QED
    BY <1>8, <1>T, <2>4, TypedFrom DEF pg_terminate_backend
<1>9. ASSUME NEW t \in Threads, announce(t) PROVE Typed'
  <2> DEFINE r == [ctl[t] EXCEPT !.pc = "kill", !.time = None]
  <2>0. ctl[t] \in Request /\ WellFormed(ctl[t]) /\ "kill" \in Steps
    BY <1>T DEF Dated, Steps
  <2>1. r \in Request /\ WellFormed(r)
    <3>1. r \in Request /\ r.pc = "kill" /\ r.action = ctl[t].action
      BY <2>0 DEF Request, Steps
    <3>2. QED
      BY <1>9, <2>0, <3>1 DEF WellFormed, announce
  <2>2. ctl' \in [Threads -> Request] /\ Dated'
    BY <1>9, <1>T, <2>1, BecomesTyped DEF announce
  <2>3. ctl[t].time \in Times
    BY <1>9, <2>0 DEF announce, WellFormed
  <2>4. QED
    BY <1>9, <1>T, <2>2, <2>3, TypedFrom DEF announce
<1>10. ASSUME NEW t \in Threads, close(t) PROVE Typed'
  <2>1. ctl' \in [Threads -> Request] /\ Dated'
    BY <1>10, <1>T, AnswerTyped DEF close
  <2>2. QED
    BY <1>10, <1>T, <2>1, TypedFrom DEF close
<1>11. CASE Environment
  <2>1. UNCHANGED <<ctl, logVars, promised>>
    BY <1>11 DEF Environment, Connect, Disconnect, Proceed, SetClock
  <2>2. ctl' \in [Threads -> Request] /\ Dated'
    BY <1>T, <2>1 DEF Dated
  <2>3. /\ server' \in States
        /\ backends' \in SUBSET (Sessions \cup Threads)
        /\ server' \in {"down", "starting"} => backends' = {}
        /\ now' \in Times
    BY <1>11, <1>T DEF Environment, Connect, Disconnect, Proceed, SetClock, Accepting, States
  <2>4. QED
    BY <1>T, <2>1, <2>2, <2>3, TypedFrom
<1>12. CASE UNCHANGED vars
  <2>1. ctl' \in [Threads -> Request] /\ Dated'
    BY <1>12, <1>T DEF vars, Dated
  <2>2. QED
    BY <1>12, <1>T, <2>1, TypedFrom DEF vars
<1>13. QED
  BY <1>1, <1>2, <1>3, <1>5, <1>6, <1>7, <1>8, <1>9, <1>10, <1>11, <1>12, NextIs DEF Step, GoOn

(* TypeOK: the requests, the server and the log have their values, and a   *)
(* server that is down has no backend, of whatever size the instance is.   *)
THEOREM TypeCorrect == Spec => []TypeOK
<1>1. Typed => TypeOK
  BY DEF Typed
<1>2. QED
  BY <1>1, TypedInit, TypedNext, PTL DEF Spec

LEMMA CountAfter ==
  ASSUME NEW records, IsFiniteSet(records), Numbered(records), NEW m \in records
  PROVE  Cardinality({r \in records : r.n > m.n}) = Cardinality(records) - 1 - m.n
<1> DEFINE after == {r \in records : r.n > m.n}
           number == [r \in after |-> r.n]
<1>1. PICK c \in Nat : c = Cardinality(records)
  BY FS_CardinalityType
<1>2. /\ \A r \in records : r.n \in 0 .. c - 1
      /\ \A k \in 0 .. c - 1 : \E r \in records : r.n = k
      /\ \A r, s \in records : r.n = s.n => r = s
  BY <1>1 DEF Numbered
<1>3. m.n \in 0 .. c - 1
  BY <1>2
<1>4. number \in [after -> m.n + 1 .. c - 1]
  BY <1>2, <1>3
<1>5. \A r, s \in after : number[r] = number[s] => r = s
  BY <1>2
<1>6. ASSUME NEW k \in m.n + 1 .. c - 1 PROVE \E r \in after : number[r] = k
  <2>1. k \in 0 .. c - 1 /\ k > m.n
    BY <1>3
  <2>2. PICK r \in records : r.n = k
    BY <1>2, <2>1
  <2>3. r \in after /\ number[r] = k
    BY <2>1, <2>2
  <2>4. QED
    BY <2>3
<1>7. ExistsBijection(after, m.n + 1 .. c - 1)
  <2>1. number \in Bijection(after, m.n + 1 .. c - 1)
    BY <1>4, <1>5, <1>6 DEF Bijection, Injection, Surjection, IsInjective
  <2>2. QED
    BY <2>1 DEF ExistsBijection
<1>8. IsFiniteSet(after)
  BY FS_Subset
<1>9. Cardinality(after) = Cardinality(m.n + 1 .. c - 1)
  BY <1>7, <1>8, FS_Bijection
<1>10. Cardinality(m.n + 1 .. c - 1) = c - 1 - m.n
  BY <1>3, FS_Interval
<1>11. QED
  BY <1>1, <1>9, <1>10

(* FifoIfInOrder: notifications that were stored in the order of their     *)
(* times, no two of one time, are kept as by a queue of Limit records,     *)
(* although each push purges by time what the pushes before it have left.  *)
THEOREM FifoIfInOrderHolds == Spec => []FifoIfInOrder
<1>1. ASSUME Typed PROVE FifoIfInOrder
  <2>1. SUFFICES ASSUME InOrder(stored)
                 PROVE  log = {r \in stored : r.n >= Cardinality(stored) - Limit}
    BY DEF FifoIfInOrder
  <2>2. IsTable(stored) /\ Numbered(stored) /\ log = Newest(stored, Limit)
    BY <1>1 DEF Typed, StoredOK
  <2>3. PICK c \in Nat : c = Cardinality(stored)
    BY <2>2, FS_CardinalityType DEF IsTable
  <2>4. ASSUME NEW m \in stored
        PROVE  Cardinality(LaterThan(m.time, stored)) < Limit <=> m.n >= c - Limit
    <3>1. \A r \in stored : r.n \in Int /\ r.time \in Int
      BY <2>2, <2>3 DEF Numbered, IsTable
    <3>2. \A r \in stored : r.time > m.time <=> r.n > m.n
      <4>1. ASSUME NEW r \in stored, r.n > m.n PROVE r.time > m.time
        BY <2>1, <3>1, <4>1 DEF InOrder
      <4>2. ASSUME NEW r \in stored, ~(r.n > m.n) PROVE ~(r.time > m.time)
        <5>1. CASE r.n = m.n
          BY <2>2, <3>1, <5>1 DEF Numbered
        <5>2. CASE r.n < m.n
          BY <2>1, <3>1, <5>2 DEF InOrder
        <5>3. QED
          BY <3>1, <4>2, <5>1, <5>2
      <4>3. QED
        BY <4>1, <4>2
    <3>3. LaterThan(m.time, stored) = {r \in stored : r.n > m.n}
      BY <3>2 DEF LaterThan
    <3>4. Cardinality(LaterThan(m.time, stored)) = c - 1 - m.n
      BY <2>2, <2>3, <3>3, CountAfter DEF IsTable
    <3>5. QED
      BY <2>3, <3>1, <3>4, NumberAssumption
  <2>5. QED
    BY <2>2, <2>3, <2>4 DEF Newest
<1>2. QED
  BY <1>1, TypedInit, TypedNext, PTL DEF Spec

-----------------------------------------------------------------------------
(* Where the command of a poll leads the server to. *)
Toward(action) == IF action = "stop" THEN {"leaving", "stopping", "down"}
                  ELSE {"starting", "up", "stopping", "down"}

Held(r) ==
    r.pc = "poll" => /\ r.action # "reload"
                     /\ r.clear /\ ~r.disturbed => server \in Toward(r.action)

(* Two controls at a time have disturbed each other. *)
Alone ==
    \A t, u \in Threads : t # u /\ ctl[t].action # None /\ ctl[u].action # None
                             => ctl[t].disturbed /\ ctl[u].disturbed

Holding == Typed /\ AnswerHolds /\ (\A t \in Threads : Held(ctl[t])) /\ Alone

LEMMA HoldingInit == Init => Holding
<1> SUFFICES ASSUME Init PROVE Holding
  OBVIOUS
<1>1. AnswerHolds
  BY NoneAssumption DEF Init, AnswerHolds
<1>2. \A t \in Threads : ctl[t] = Idle
  BY DEF Init
<1>3. Alone /\ (\A t \in Threads : Held(ctl[t]))
  BY <1>2 DEF Alone, Held, Idle
<1>4. QED
  BY <1>1, <1>3, TypedInit DEF Holding

(* The request of a thread becomes r, which is a control no more or the    *)
(* one it was, and the server stays.                                       *)
LEMMA BecomesHolding ==
  ASSUME Holding, Typed', NEW t \in Threads, NEW r \in Request,
         ctl' = [ctl EXCEPT ![t] = r],
         r.action = None \/ (r.action = ctl[t].action /\ r.disturbed = ctl[t].disturbed),
         UNCHANGED server, Held(r), AnswerHolds'
  PROVE  Holding'
<1>1. ctl \in [Threads -> Request]
  BY DEF Holding, Typed, TypeOK
<1>2. \A u \in Threads : ctl'[u] = IF u = t THEN r ELSE ctl[u]
  BY <1>1
<1>3. Alone'
  BY <1>2 DEF Holding, Alone
<1>4. (\A u \in Threads : Held(ctl[u]))'
  BY <1>2 DEF Holding, Held
<1>5. QED
  BY <1>3, <1>4 DEF Holding

LEMMA AnswerHolding ==
  ASSUME Holding, Typed', NEW t \in Threads, Answer(t), UNCHANGED server, AnswerHolds'
  PROVE  Holding'
<1>1. Held(Idle)
  BY DEF Held, Idle
<1>2. QED
  BY <1>1, IdleTyped, BecomesHolding DEF Answer

LEMMA PostHolding ==
  ASSUME Holding, Typed', NEW t \in Threads, NEW action \in Commands,
         post_pg_control(t, action)
  PROVE  Holding'
<1>0. ctl \in [Threads -> Request] /\ ctl' \in [Threads -> Request] /\ ctl[t].pc = "idle"
      /\ Dated
  BY DEF Holding, Typed, TypeOK, post_pg_control
<1>1. ctl[t].action = None
  BY <1>0, RequestTyped DEF Dated, WellFormed
<1>2. /\ ctl'[t].pc = "push" /\ ctl'[t].disturbed = (Controlled # {})
      /\ \A u \in Threads \ {t} :
            /\ ctl'[u].pc = ctl[u].pc /\ ctl'[u].action = ctl[u].action
            /\ ctl'[u].clear = ctl[u].clear
            /\ ctl'[u].disturbed = (u \in Controlled)
  <2>1. ctl' = [u \in Threads |->
                  IF u = t THEN [Idle EXCEPT !.pc = "push", !.action = action,
                                             !.time = Notification,
                                             !.disturbed = Controlled # {}]
                  ELSE [ctl[u] EXCEPT !.disturbed = u \in Controlled]]
    BY DEF post_pg_control
  <2>2. ctl'[t].pc = "push" /\ ctl'[t].disturbed = (Controlled # {})
    BY <2>1 DEF Idle
  <2>3. ASSUME NEW u \in Threads, u # t
        PROVE  /\ ctl'[u].pc = ctl[u].pc /\ ctl'[u].action = ctl[u].action
               /\ ctl'[u].clear = ctl[u].clear
               /\ ctl'[u].disturbed = (u \in Controlled)
    <3>1. ctl'[u] = [ctl[u] EXCEPT !.disturbed = u \in Controlled] /\ ctl[u] \in Request
      BY <1>0, <2>1, <2>3
    <3>2. QED
      BY <3>1 DEF Request
  <2>4. QED
    BY <2>2, <2>3
<1>3. \A u \in Threads : u \in Controlled <=> ctl[u].action # None
  BY DEF Controlled
<1>4. Alone'
  <2>1. SUFFICES ASSUME NEW v \in Threads, NEW u \in Threads, v # u,
                        ctl'[v].action # None, ctl'[u].action # None
                 PROVE  ctl'[v].disturbed
    BY DEF Alone
  <2>2. CASE v = t
    <3>1. u \in Controlled
      BY <1>2, <1>3, <2>1, <2>2
    <3>2. QED
      BY <1>2, <2>2, <3>1
  <2>3. CASE v # t
    BY <1>2, <1>3, <2>1, <2>3
  <2>4. QED
    BY <2>2, <2>3
<1>5. ASSUME NEW u \in Threads PROVE Held(ctl[u])'
  <2>1. CASE u = t
    BY <1>2, <2>1 DEF Held
  <2>2. CASE u # t /\ ctl[u].pc = "poll"
    <3>1. ctl[u].action \in Commands
      BY <1>0, <2>2 DEF Dated, WellFormed
    <3>2. ctl'[u].disturbed = TRUE
      BY <1>2, <1>3, <2>2, <3>1, NoneAssumption
    <3>3. ctl[u].action # "reload"
      BY <2>2 DEF Holding, Held
    <3>4. QED
      BY <1>2, <2>2, <3>2, <3>3 DEF Held
  <2>3. CASE u # t /\ ctl[u].pc # "poll"
    BY <1>2, <2>3 DEF Held
  <2>4. QED
    BY <2>1, <2>2, <2>3
<1>6. AnswerHolds'
  BY DEF Holding, AnswerHolds, post_pg_control
<1>7. QED
  BY <1>4, <1>5, <1>6 DEF Holding

(* A command that is executed disturbs every other control; one that is    *)
(* not, or a reload, leaves the server as it is.                           *)
LEMMA CommandHolding ==
  ASSUME Holding, Typed', NEW t \in Threads, pg_ctl(t)
  PROVE  Holding'
<1>0. /\ ctl \in [Threads -> Request] /\ ctl' \in [Threads -> Request]
      /\ ctl[t].pc = "pg_ctl" /\ Dated
  BY DEF Holding, Typed, TypeOK, pg_ctl
<1>1. ctl[t].action \in Commands /\ ctl[t].action # None
  BY <1>0, NoneAssumption DEF Dated, WellFormed
<1>2. PICK result \in exec_script(ctl[t].action) :
         /\ server' = result.state
         /\ promised' = IF ctl[t].action = "reload" \/ ~result.executed THEN promised ELSE None
         /\ IF result.rcode # 0 \/ ctl[t].action = "reload" THEN Answer(t)
            ELSE ctl' = [ctl EXCEPT ![t].pc = "poll", ![t].clear = Clear(ctl[t].action, result)]
  BY DEF pg_ctl
<1>3. \/ \E state \in After(ctl[t].action) : result = Ran(ctl[t].action, 0, state)
      \/ \E state \in AfterFailure(ctl[t].action) : result = Ran(ctl[t].action, 1, state)
      \/ result = [rcode |-> 0, executed |-> FALSE, state |-> server, backends |-> backends]
  BY DEF exec_script
<1>4. /\ result.executed \in BOOLEAN
      /\ ~result.executed \/ ctl[t].action = "reload" => result.state = server
      /\ result.rcode = 0 /\ Clear(ctl[t].action, result) /\ ctl[t].action # "reload"
            => result.state \in Toward(ctl[t].action)
  <2>0. server \in States
    BY DEF Holding, Typed, TypeOK
  <2>1. CASE \E state \in After(ctl[t].action) : result = Ran(ctl[t].action, 0, state)
    <3>1. PICK state \in After(ctl[t].action) : result = Ran(ctl[t].action, 0, state)
      BY <2>1
    <3>2. result.state = state /\ result.executed = TRUE
      BY <3>1 DEF Ran
    <3>3. ctl[t].action = "reload" => state = server
      BY <3>1 DEF After
    <3>4. ctl[t].action # "reload" /\ Clear(ctl[t].action, result)
             => state \in Toward(ctl[t].action)
      BY <1>1, <2>0, <3>1, <3>2, CommandsAssumption DEF After, Toward, Clear, States, Accepting
    <3>5. QED
      BY <3>2, <3>3, <3>4
  <2>2. CASE \E state \in AfterFailure(ctl[t].action) : result = Ran(ctl[t].action, 1, state)
    <3>1. PICK state \in AfterFailure(ctl[t].action) : result = Ran(ctl[t].action, 1, state)
      BY <2>2
    <3>2. result.state = state /\ result.executed = TRUE /\ result.rcode # 0
      BY <3>1 DEF Ran
    <3>3. ctl[t].action = "reload" => state = server
      BY <3>1 DEF AfterFailure
    <3>4. QED
      BY <3>2, <3>3
  <2>3. CASE result = [rcode |-> 0, executed |-> FALSE, state |-> server, backends |-> backends]
    BY <2>3 DEF Clear
  <2>4. QED
    BY <1>3, <2>1, <2>2, <2>3
<1>5. AnswerHolds'
  BY <1>2, <1>4, NoneAssumption DEF Holding, AnswerHolds
<1>6. \A u \in Threads \ {t} : ctl'[u] = ctl[u]
  BY <1>0, <1>2 DEF Answer
<1>7. \A u \in Threads \ {t} : ctl[u].pc = "poll" => ctl[u].disturbed
  <2>1. \A u \in Threads : ctl[u].pc = "poll" => ctl[u].action # None
    BY <1>0, NoneAssumption DEF Dated, WellFormed
  <2>2. QED
    BY <1>1, <2>1 DEF Holding, Alone
<1>8. /\ ctl'[t].action = None \/ ctl'[t].action = ctl[t].action
      /\ ctl'[t].action # None => ctl'[t].disturbed = ctl[t].disturbed
      /\ Held(ctl[t])'
  <2>1. CASE Answer(t)
    BY <1>0, <2>1 DEF Answer, Idle, Held
  <2>2. CASE /\ result.rcode = 0 /\ ctl[t].action # "reload"
             /\ ctl' = [ctl EXCEPT ![t].pc = "poll", ![t].clear = Clear(ctl[t].action, result)]
    <3>1. /\ ctl'[t].action = ctl[t].action /\ ctl'[t].disturbed = ctl[t].disturbed
          /\ ctl'[t].clear = Clear(ctl[t].action, result)
      BY <1>0, <2>2 DEF Request
    <3>2. QED
      BY <1>2, <1>4, <2>2, <3>1 DEF Held
  <2>3. QED
    BY <1>2, <2>1, <2>2
<1>9. Alone'
  BY <1>6, <1>8 DEF Holding, Alone
<1>10. (\A u \in Threads : Held(ctl[u]))'
  BY <1>6, <1>7, <1>8 DEF Holding, Held
<1>11. QED
  BY <1>5, <1>9, <1>10 DEF Holding

LEMMA RetryHolding ==
  ASSUME Holding, Typed', NEW t \in Threads, Retry(t), UNCHANGED <<server, promised>>
  PROVE  Holding'
<1>0. ctl \in [Threads -> Request] /\ ctl' \in [Threads -> Request] /\ AnswerHolds'
  BY DEF Holding, Typed, TypeOK, AnswerHolds
<1>1. CASE ctl' = [ctl EXCEPT ![t].tries = @ + 1]
  <2> DEFINE r == [ctl[t] EXCEPT !.tries = ctl[t].tries + 1]
  <2>1. r = ctl'[t] /\ ctl' = [ctl EXCEPT ![t] = r]
    BY <1>0, <1>1
  <2>2. /\ r.pc = ctl[t].pc /\ r.action = ctl[t].action
        /\ r.clear = ctl[t].clear /\ r.disturbed = ctl[t].disturbed
    BY <1>0 DEF Request
  <2>3. r \in Request /\ Held(r)
    BY <1>0, <2>1, <2>2 DEF Holding, Held
  <2>4. QED
    BY <1>0, <2>1, <2>2, <2>3, BecomesHolding
<1>2. QED
  BY <1>0, <1>1, AnswerHolding DEF Retry

LEMMA PollHolding ==
  ASSUME Holding, Typed', NEW t \in Threads, poll(t)
  PROVE  Holding'
<1>1. CASE Reached(ctl[t].action)
  <2> DEFINE state == IF ctl[t].action = "stop" THEN "down" ELSE "up"
  <2>1. Answer(t) /\ UNCHANGED server /\ Promise(t, state) /\ ctl[t].pc = "poll"
    BY <1>1 DEF poll
  <2>2. CASE ctl[t].clear /\ ~ctl[t].disturbed
    <3>1. promised' = state /\ server \in Toward(ctl[t].action)
      BY <2>1, <2>2 DEF Promise, Holding, Held
    <3>2. AnswerHolds'
      BY <1>1, <2>1, <3>1 DEF AnswerHolds, Toward, Reached, Accepting
    <3>3. QED
      BY <2>1, <3>2, AnswerHolding
  <2>3. CASE ~(ctl[t].clear /\ ~ctl[t].disturbed)
    <3>1. promised' = promised
      BY <2>1, <2>3 DEF Promise
    <3>2. AnswerHolds'
      BY <2>1, <3>1 DEF Holding, AnswerHolds
    <3>3. QED
      BY <2>1, <3>2, AnswerHolding
  <2>4. QED
    BY <2>2, <2>3
<1>2. CASE ~Reached(ctl[t].action)
  BY <1>2, RetryHolding DEF poll
<1>3. QED
  BY <1>1, <1>2

LEMMA HoldingNext == Holding /\ [Next]_vars => Holding'
<1> SUFFICES ASSUME Holding, [Next]_vars PROVE Holding'
  OBVIOUS
<1>T. Typed' /\ ctl \in [Threads -> Request]
  BY TypedNext DEF Holding, Typed, TypeOK
<1>P. UNCHANGED <<server, promised>> => AnswerHolds'
  BY DEF Holding, AnswerHolds
<1>1. ASSUME NEW t \in Threads, NEW action \in Commands, post_pg_control(t, action)
      PROVE  Holding'
  BY <1>T, <1>1, PostHolding
<1>2. ASSUME NEW t \in Threads, pg_ctl(t) PROVE Holding'
  BY <1>T, <1>2, CommandHolding
<1>3. ASSUME NEW t \in Threads, poll(t) PROVE Holding'
  BY <1>T, <1>3, PollHolding
<1>4. ASSUME NEW t \in Threads, poll_refused(t) PROVE Holding'
  <2>1. UNCHANGED <<server, promised>> /\ (Answer(t) \/ Retry(t))
    BY <1>4 DEF poll_refused
  <2>2. QED
    BY <1>T, <1>P, <2>1, RetryHolding, AnswerHolding
(* A step after which the request is not at poll, the server unchanged. *)
<1>5. ASSUME NEW t \in Threads, NEW r, r = ctl'[t], ctl' = [ctl EXCEPT ![t] = r],
             UNCHANGED <<server, promised>>, r.pc # "poll",
             r.action = None \/ (r.action = ctl[t].action /\ r.disturbed = ctl[t].disturbed)
      PROVE  Holding'
  <2>1. r \in Request
    BY <1>T, <1>5 DEF Typed, TypeOK
  <2>2. Held(r)
    BY <1>5 DEF Held
  <2>3. QED
    BY <1>T, <1>P, <1>5, <2>1, <2>2, BecomesHolding
<1>6. ASSUME NEW t \in Threads, push(t) PROVE Holding'
  <2>1. CASE ctl' = [ctl EXCEPT ![t].pc = "pg_ctl", ![t].time = None]
    <3>1. /\ ctl' = [ctl EXCEPT ![t] = ctl'[t]] /\ ctl'[t].pc = "pg_ctl"
          /\ ctl'[t].action = ctl[t].action /\ ctl'[t].disturbed = ctl[t].disturbed
      <4> DEFINE r == [ctl[t] EXCEPT !.pc = "pg_ctl", !.time = None]
      <4>1. ctl[t] \in Request /\ ctl' = [ctl EXCEPT ![t] = r] /\ ctl'[t] = r
        BY <1>T, <2>1
      <4>2. r.pc = "pg_ctl" /\ r.action = ctl[t].action /\ r.disturbed = ctl[t].disturbed
        BY <4>1 DEF Request
      <4>3. QED
        BY <4>1, <4>2
    <3>2. QED
      BY <1>5, <1>6, <3>1 DEF push
  <2>2. QED
    BY <1>T, <1>P, <1>6, <2>1, AnswerHolding DEF push
<1>7. ASSUME NEW t \in Threads, NEW pids \in SUBSET backends, post_activity_kill(t, pids)
      PROVE  Holding'
  <2>1. ctl' = [ctl EXCEPT ![t] = ctl'[t]] /\ ctl'[t].pc = "kill" /\ ctl'[t].action = None
    BY <1>T, <1>7 DEF post_activity_kill, Idle
  <2>2. QED
    BY <1>5, <1>7, <2>1 DEF post_activity_kill
<1>8. ASSUME NEW t \in Threads, NEW pid \in ctl[t].pids, pg_terminate_backend(t, pid)
      PROVE  Holding'
  <2>1. /\ ctl' = [ctl EXCEPT ![t] = ctl'[t]] /\ ctl'[t].pc = "announce"
        /\ ctl'[t].action = ctl[t].action /\ ctl'[t].disturbed = ctl[t].disturbed
    BY <1>T, <1>8 DEF pg_terminate_backend, Request
  <2>2. QED
    BY <1>5, <1>8, <2>1 DEF pg_terminate_backend
<1>9. ASSUME NEW t \in Threads, announce(t) PROVE Holding'
  <2>1. /\ ctl' = [ctl EXCEPT ![t] = ctl'[t]] /\ ctl'[t].pc = "kill"
        /\ ctl'[t].action = ctl[t].action /\ ctl'[t].disturbed = ctl[t].disturbed
    <3> DEFINE r == [ctl[t] EXCEPT !.pc = "kill", !.time = None]
    <3>1. ctl[t] \in Request /\ ctl' = [ctl EXCEPT ![t] = r] /\ ctl'[t] = r
      BY <1>T, <1>9 DEF announce
    <3>2. r.pc = "kill" /\ r.action = ctl[t].action /\ r.disturbed = ctl[t].disturbed
      BY <3>1 DEF Request
    <3>3. QED
      BY <3>1, <3>2
  <2>2. QED
    BY <1>5, <1>9, <2>1 DEF announce
<1>10. ASSUME NEW t \in Threads, close(t) PROVE Holding'
  BY <1>T, <1>P, <1>10, AnswerHolding DEF close
<1>11. ASSUME UNCHANGED <<ctl, promised>>,
              server' = server \/ (server = "leaving" /\ server' = "stopping")
              \/ (server = "restarting" /\ server' = "starting")
              \/ (server = "stopping" /\ server' = "down")
              \/ (server = "starting" /\ server' \in {"up", "down"})
       PROVE  Holding'
  <2>1. AnswerHolds' /\ Alone'
    BY <1>11 DEF Holding, AnswerHolds, Alone
  <2>2. \A action : server \in Toward(action) => server' \in Toward(action)
    BY <1>11 DEF Toward
  <2>3. (\A t \in Threads : Held(ctl[t]))'
    BY <1>11, <2>2 DEF Holding, Held
  <2>4. QED
    BY <1>T, <2>1, <2>3 DEF Holding
<1>12. CASE Environment \/ UNCHANGED vars
  BY <1>11, <1>12 DEF Environment, Connect, Disconnect, Proceed, SetClock, vars
<1>13. QED
  BY <1>1, <1>2, <1>3, <1>4, <1>6, <1>7, <1>8, <1>9, <1>10, <1>12, NextIs DEF Step, GoOn

(* AnswerHolds: what the answer "ok" to a control that was alone says of   *)
(* the server holds until the next command is executed, for any number of  *)
(* threads, other clients and connections tried.                           *)
THEOREM AnswerHoldsAlways == Spec => []AnswerHolds
<1>1. Holding => AnswerHolds
  BY DEF Holding
<1>2. QED
  BY <1>1, HoldingInit, HoldingNext, PTL DEF Spec

-----------------------------------------------------------------------------
(* Control keeps the promises of Server, step by step. *)
LEMMA SeenInit == Init => Seen!ServerInit
BY DEF Init, Accepting, Seen!ServerInit

(* A change of the server that is none of a client. *)
LEMMA SeenChange ==
  ASSUME backends' \in SUBSET backends, ~Accepting /\ Accepting' => backends' = {}
  PROVE  Seen!Change
<1>1. Accepting' \in BOOLEAN
  BY DEF Accepting
<1>2. QED
  BY <1>1 DEF Seen!Change

(* A server that comes back has cut its backends, also if it was still     *)
(* stopping when it was told to restart.                                   *)
LEMMA SeenCommand ==
  ASSUME Typed, NEW t \in Threads, pg_ctl(t)
  PROVE  Seen!Change
<1>1. ctl[t].action \in Commands
  BY DEF Typed, TypeOK, Dated, WellFormed, pg_ctl
<1>a. PICK action : action = ctl[t].action
  OBVIOUS
<1>2. PICK result \in exec_script(action) :
         server' = result.state /\ backends' = result.backends
  BY <1>a DEF pg_ctl
<1>3. server \in States
      /\ (server \in {"down", "starting"} => backends = {})
  BY DEF Typed, TypeOK
<1>4. backends' \in SUBSET backends /\ (~Accepting /\ Accepting' => backends' = {})
  <2>1. CASE \E state \in After(action) : result = Ran(action, 0, state)
    <3>1. PICK state \in After(action) : result = Ran(action, 0, state)
      BY <2>1
    <3>2. CASE action = "start"
      BY <1>2, <1>3, <3>1, <3>2 DEF After, Ran, Accepting, States
    <3>3. CASE action = "stop"
      BY <1>2, <1>3, <3>1, <3>3 DEF After, Ran, Accepting, States
    <3>4. CASE action = "restart"
      BY <1>2, <1>3, <3>1, <3>4 DEF After, Ran, Accepting, States
    <3>5. CASE action = "reload"
      BY <1>2, <1>3, <3>1, <3>5 DEF After, Ran, Accepting, States
    <3>6. QED
      BY <1>a, <1>1, <3>2, <3>3, <3>4, <3>5, CommandsAssumption
  <2>2. CASE \E state \in AfterFailure(action) : result = Ran(action, 1, state)
    <3>1. PICK state \in AfterFailure(action) : result = Ran(action, 1, state)
      BY <2>2
    <3>2. state = server \/ state \in {"down", "starting"} \/ (state = "leaving" /\ Accepting)
      BY <1>a, <1>1, <3>1, CommandsAssumption DEF AfterFailure
    <3>3. result.state = state /\ result.backends \in {backends, {}}
          /\ (state \in {"down", "starting"} => result.backends = {})
      BY <3>1 DEF Ran
    <3>4. QED
      BY <1>2, <3>2, <3>3 DEF Accepting
  <2>3. CASE result = [rcode |-> 0, executed |-> FALSE, state |-> server, backends |-> backends]
    BY <1>2, <2>3 DEF Accepting
  <2>4. QED
    BY <2>1, <2>2, <2>3 DEF exec_script
<1>5. QED
  BY <1>4, SeenChange

LEMMA SeenNext == Typed /\ [Next]_vars => [Seen!Next]_Seen!serverVars
<1> SUFFICES ASSUME Typed, [Next]_vars PROVE [Seen!Next]_Seen!serverVars
  OBVIOUS
<1>1. UNCHANGED <<server, backends>> => [Seen!Next]_Seen!serverVars
  BY DEF Accepting, Seen!serverVars
<1>2. ASSUME NEW t \in Threads, GoOn(t) PROVE [Seen!Next]_Seen!serverVars
  <2>1. CASE pg_ctl(t)
    BY <2>1, SeenCommand DEF Seen!Next
  <2>2. CASE push(t) \/ poll(t) \/ poll_refused(t) \/ announce(t)
    BY <1>1, <2>2 DEF push, poll, poll_refused, announce
  <2>3. CASE close(t) \/ \E pid \in ctl[t].pids : pg_terminate_backend(t, pid)
    <3>1. backends' \in SUBSET backends /\ server' = server
      BY <2>3 DEF close, pg_terminate_backend
    <3>2. QED
      BY <3>1, SeenChange DEF Seen!Next, Accepting
  <2>4. QED
    BY <1>2, <2>1, <2>2, <2>3 DEF GoOn
<1>3. ASSUME NEW t \in Threads, NEW action \in Commands, post_pg_control(t, action)
      PROVE  [Seen!Next]_Seen!serverVars
  BY <1>1, <1>3 DEF post_pg_control
(* A client, or the connection of a thread, comes. *)
<1>4. ASSUME NEW s \in Sessions \cup Threads, Accepting, backends' = backends \cup {s},
             server' = server
      PROVE  [Seen!Next]_Seen!serverVars
  <2>1. Seen!Connect(s)
    BY <1>4 DEF Seen!Connect, Accepting
  <2>2. QED
    BY <2>1 DEF Seen!Next
<1>5. ASSUME NEW t \in Threads, NEW pids, post_activity_kill(t, pids)
      PROVE  [Seen!Next]_Seen!serverVars
  BY <1>4, <1>5 DEF post_activity_kill
<1>6. CASE Environment
  <2>1. ASSUME NEW s \in Sessions, Connect(s) PROVE [Seen!Next]_Seen!serverVars
    BY <1>4, <2>1 DEF Connect
  <2>2. ASSUME NEW s \in Sessions, Disconnect(s) PROVE [Seen!Next]_Seen!serverVars
    <3>1. backends' \in SUBSET backends /\ server' = server
      BY <2>2 DEF Disconnect
    <3>2. QED
      BY <3>1, SeenChange DEF Seen!Next, Accepting
  <2>3. CASE Proceed
    <3>1. backends' \in SUBSET backends /\ (~Accepting /\ Accepting' => backends' = {})
      BY <2>3 DEF Proceed, Typed, TypeOK, Accepting
    <3>2. QED
      BY <3>1, SeenChange DEF Seen!Next
  <2>4. CASE SetClock
    BY <1>1, <2>4 DEF SetClock
  <2>5. QED
    BY <1>6, <2>1, <2>2, <2>3, <2>4 DEF Environment
<1>7. CASE UNCHANGED vars
  BY <1>1, <1>7 DEF vars
<1>8. QED
  BY <1>2, <1>3, <1>5, <1>6, <1>7, NextIs DEF Step

(* The server that requests, clients and pg_ctl act on, however they       *)
(* interleave, is one that Server allows: Maintenance, which is written    *)
(* over Server, may rely on it.                                            *)
THEOREM ControlImplementsServer == Spec => ServerSpec
<1>1. QED
  BY TypedInit, TypedNext, SeenInit, SeenNext, PTL DEF Spec, ServerSpec, Seen!Spec

-----------------------------------------------------------------------------
(* The lists of backends (Processes).  Whatever the locks and the number   *)
(* of backends, nobody who waits for a lock on a relation or a transaction *)
(* waits for one that is not listed as blocking.                           *)
LEMMA ListsPids == ASSUME NEW pids, NEW procs PROVE DOMAIN listing(pids, procs) = pids
  BY DEF listing

LEMMA KillingFreesAny == ASSUME NEW locks PROVE KillingFrees(locks)
<1> DEFINE procs == [pid \in Pids |-> [life |-> [t \in Instants |-> "backend"],
                                      foreign |-> FALSE, queried |-> TRUE]]
           blocking == DOMAIN get_activity_blocking(locks, procs)
           left == {l \in locks : l.pid \notin blocking}
<1>1. SUFFICES ASSUME NEW l \in left, NEW held \in left,
                      ~l.granted, held.granted, held.on = l.on, l.on # "advisory"
               PROVE  FALSE
  BY Zenon DEF KillingFrees
<1>2. blocking = {k.pid : k \in {h \in locks : /\ h.granted /\ h.on # "advisory"
                                               /\ \E b \in locks : ~b.granted /\ b.on = h.on}}
  BY ListsPids DEF get_activity_blocking
<1> HIDE DEF blocking
<1>3. l \in locks /\ held \in locks /\ held.pid \notin blocking
  OBVIOUS
<1>4. held \in {h \in locks : /\ h.granted /\ h.on # "advisory"
                              /\ \E b \in locks : ~b.granted /\ b.on = h.on}
  BY <1>1, <1>3, Zenon
<1>5. held.pid \in blocking
  BY <1>2, <1>4, Zenon
<1>6. QED
  BY <1>3, <1>5

LEMMA RateIs ==
    ASSUME NEW first \in DOMAIN Ages, NEW second \in DOMAIN Ages
    PROVE  /\ second = Nobody => rate(first, second) = NoRate
           /\ second # Nobody /\ first = Nobody => rate(first, second) = Raised
           /\ second # Nobody /\ first # Nobody => rate(first, second) = <<first, second>>
           /\ rate(first, second) = Raised => second # Nobody /\ first = Nobody
<1>1. NoRate # Raised
  BY DEF NoRate, Raised
<1>2. <<first, second>> # Raised
  BY DEF Raised
<1>3. QED
  BY <1>1, <1>2 DEF rate

LEMMA RowRightAny == ASSUME NEW life \in Lives, NEW foreign \in BOOLEAN PROVE RowRight(life, foreign)
<1> DEFINE proc == [life |-> life, foreign |-> foreign, queried |-> TRUE]
           rows == get_activity(Pids, 2, [pid \in Pids |-> proc])[1]
<1>1. rows = shown(proc, TRUE)
  <2>1. 1 \in Pids \ {2} /\ 1 \in Pids
    BY DEF Pids
  <2>2. QED
    BY <2>1 DEF get_activity, listing
<1>2. /\ life \in [1 .. 4 -> {"backend", "nobody", "other"}]
      /\ \A t \in 1 .. 3 : Ages[life[t]] <= Ages[life[t + 1]]
  <2>1. Instants = 1 .. 4 /\ Instants \ {Second} = 1 .. 3
    BY DEF Instants, First, Second
  <2>2. DOMAIN Ages = {"backend", "nobody", "other"}
    BY DEF Ages
  <2>3. QED
    BY <2>1, <2>2 DEF Lives
<1>3. /\ life[1] = "nobody" => life[2] # "backend"
      /\ life[1] = "other" => life[2] = "other"
      /\ life[2] = "nobody" => life[3] # "backend"
      /\ life[2] = "other" => life[3] = "other"
      /\ life[3] = "nobody" => life[4] # "backend"
      /\ life[3] = "other" => life[4] = "other"
  <2>1. Ages["backend"] = 1 /\ Ages["nobody"] = 2 /\ Ages["other"] = 3
    BY DEF Ages
  <2>2. \A t \in 1 .. 3 : life[t] \in {"backend", "nobody", "other"} /\ life[t + 1] \in {"backend", "nobody", "other"}
    BY <1>2
  <2>3. Ages[life[1]] <= Ages[life[2]] /\ Ages[life[2]] <= Ages[life[3]] /\ Ages[life[3]] <= Ages[life[4]]
    BY <1>2
  <2>4. QED
    BY <1>2, <2>1, <2>3
<1> DEFINE first == parse_proc_io(life, 2, foreign)
           second == parse_proc_io(life, 3, foreign)
           io == rate(first, second)
           cpu == rate(life[1], life[4])
           row == [io |-> io, cpu |-> cpu, memory |-> mem_usage(life, TRUE),
                   iow |-> mem_usage(life, TRUE)]
<1>4. shown(proc, TRUE) = IF Raised \in {io, cpu} THEN {} ELSE {row}
  <2>1. io_usage(life, foreign) = io /\ cpu_usage(life) = cpu
    BY DEF io_usage, cpu_usage, parse_proc_stat, First, FirstIo, SecondIo, Second
  <2>2. proc.life = life /\ proc.foreign = foreign /\ proc.queried = TRUE
    OBVIOUS
  <2>. HIDE DEF io, cpu, proc
  <2>3. QED
    BY <2>1, <2>2, Zenon DEF shown
<1>5. /\ life[1] \in {"backend", "nobody", "other"} /\ life[2] \in {"backend", "nobody", "other"}
      /\ life[3] \in {"backend", "nobody", "other"} /\ life[4] \in {"backend", "nobody", "other"}
  BY <1>2
<1>6. /\ first = IF foreign /\ life[2] = "other" THEN "nobody" ELSE life[2]
      /\ second = IF foreign /\ life[3] = "other" THEN "nobody" ELSE life[3]
  BY DEF parse_proc_io, Nobody
<1>7. /\ first \in DOMAIN Ages /\ second \in DOMAIN Ages
      /\ life[1] \in DOMAIN Ages /\ life[4] \in DOMAIN Ages
  <2>1. DOMAIN Ages = {"backend", "nobody", "other"}
    BY DEF Ages
  <2> HIDE DEF first, second
  <2>2. QED
    BY <1>5, <1>6, <2>1
<1> HIDE DEF first, second
<1>8. /\ second = "nobody" => io = NoRate
      /\ second # "nobody" /\ first # "nobody" => io = <<first, second>>
      /\ io = Raised => second # "nobody" /\ first = "nobody"
      /\ second # "nobody" /\ first = "nobody" => io = Raised
  BY <1>7, RateIs DEF Nobody
<1>9. /\ life[4] = "nobody" => cpu = NoRate
      /\ life[4] # "nobody" /\ life[1] # "nobody" => cpu = <<life[1], life[4]>>
      /\ cpu = Raised => life[4] # "nobody" /\ life[1] = "nobody"
      /\ life[4] # "nobody" /\ life[1] = "nobody" => cpu = Raised
  BY <1>7, RateIs DEF Nobody
<1> HIDE DEF io, cpu, proc
<1>10. ASSUME Alive(life)
       PROVE  rows = {[io |-> <<"backend", "backend">>, cpu |-> <<"backend", "backend">>,
                       memory |-> "backend", iow |-> "backend"]}
  <2>1. life[1] = "backend" /\ life[2] = "backend" /\ life[3] = "backend" /\ life[4] = "backend"
    BY <1>10 DEF Alive, Instants, First, Second
  <2>2. first = "backend" /\ second = "backend"
    BY <1>6, <2>1
  <2>3. io = <<"backend", "backend">> /\ cpu = <<"backend", "backend">>
    BY <1>8, <1>9, <2>1, <2>2
  <2>4. io # Raised /\ cpu # Raised
    BY <1>8, <1>9, <2>1, <2>2
  <2>5. mem_usage(life, TRUE) = "backend"
    BY <2>1 DEF mem_usage, parse_proc_stat, First, Nobody
  <2>6. QED
    BY <1>1, <1>4, <2>3, <2>4, <2>5
<1>11. ASSUME rows = {}
       PROVE  TakenOver(life) /\ Nobody \in {life[First], life[FirstIo]}
  <2>1. io = Raised \/ cpu = Raised
    BY <1>1, <1>4, <1>11
  <2>2. CASE io = Raised
    <3>1. second # "nobody" /\ first = "nobody"
      BY <1>8, <2>2
    <3>2. life[2] = "nobody" /\ life[3] # "nobody"
      BY <1>3, <1>5, <1>6, <3>1
    <3>3. life[4] = "other"
      BY <1>3, <1>5, <3>2
    <3>4. QED
      BY <3>2, <3>3 DEF TakenOver, Nobody, First, FirstIo, Second
  <2>3. CASE cpu = Raised
    <3>1. life[4] # "nobody" /\ life[1] = "nobody"
      BY <1>9, <2>3
    <3>2. life[4] = "other"
      BY <1>3, <1>5, <3>1
    <3>3. QED
      BY <3>1, <3>2 DEF TakenOver, Nobody, First, FirstIo, Second
  <2>4. QED
    BY <2>1, <2>2, <2>3
<1>12. ASSUME NEW r \in rows, ~TakenOver(life)
       PROVE  {r.io, r.cpu} \subseteq {NoRate, <<"backend", "backend">>}
  <2>1. life[4] # "other"
    BY <1>12 DEF TakenOver, Second
  <2>2. life[1] # "other" /\ life[2] # "other" /\ life[3] # "other"
    BY <1>3, <2>1
  <2>3. first = life[2] /\ second = life[3]
    BY <1>6, <2>2
  <2>4. r = row /\ io # Raised /\ cpu # Raised
    BY <1>1, <1>4, <1>12
  <2>5. r.io = io /\ r.cpu = cpu
    BY <2>4
  <2>6. io \in {NoRate, <<"backend", "backend">>}
    BY <1>3, <1>5, <1>8, <2>2, <2>3
  <2>7. cpu \in {NoRate, <<"backend", "backend">>}
    BY <1>3, <1>5, <1>9, <2>1, <2>2
  <2>8. QED
    BY <2>5, <2>6, <2>7
<1> USE DEF proc
<1>13. QED
  BY <1>10, <1>11, <1>12, Zenon DEF RowRight

(* activity/process.py:165, activity/functions.py: a backend that lives    *)
(* through a listing is shown with its own numbers, whatever becomes of    *)
(* its pid; and terminating what is listed as blocking frees the others.   *)
THEOREM ListingRightHolds == Spec => []ListingRight
<1>1. ListingRight
  BY RowRightAny, KillingFreesAny, Zenon DEF ListingRight
<1>2. QED
  BY <1>1, PTL

================================================================================
