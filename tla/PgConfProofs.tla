----------------------------- MODULE PgConfProofs -----------------------------
(***************************************************************************)
(* Theorems of PgConf, for any settings, bodies and number of requests,    *)
(* and of Units, for any number.                                           *)
(***************************************************************************)
EXTENDS MCPgConf, RecordsProofs, TLAPS

USE DEF postgres

(* A request that is about to change something is at an item that passed   *)
(* the checks.                                                             *)
AtItem == \A r \in Requests : pc[r] \in {"push", "alter"} => ~Done(r) /\ Current(r).value # Bad
Typed == TypeOK /\ AtItem

LEMMA EmptyBody == <<>> \in Seq(Item) /\ Len(<<>>) = 0
  OBVIOUS

LEMMA PostIsSeq ==
  ASSUME TypeOK, NEW r \in Requests
  PROVE  post[r] \in Seq(Item) /\ Len(post[r]) \in Nat
<1>1. post[r] \in Posts \cup {<<>>}
  BY DEF TypeOK
<1>2. post[r] \in Seq(Item)
  BY <1>1, PostsAssumption, EmptyBody
<1>3. QED
  BY <1>2

LEMMA CurrentIsItem ==
  ASSUME TypeOK, NEW r \in Requests, ~Done(r)
  PROVE  /\ at[r] \in 1 .. Len(post[r])
         /\ Current(r).name \in Names
         /\ Current(r).value \in Values \cup {Reset, Bad, Refused}
<1>1. at[r] \in 1 .. Len(post[r])
  BY PostIsSeq DEF TypeOK, Done
<1>2. Current(r) \in Item
  BY <1>1, PostIsSeq DEF Current
<1>3. QED
  BY <1>1, <1>2 DEF Item

LEMMA TypedInit == Init => Typed
<1> SUFFICES ASSUME Init PROVE Typed
  OBVIOUS
<1>1. \A r \in Requests : pc[r] = "idle" /\ at[r] = 1 /\ post[r] = <<>>
  BY DEF Init
<1>2. \A r \in Requests : Len(post[r]) = 0
  BY <1>1, EmptyBody
<1>3. ASSUME NEW r \in Requests PROVE at[r] <= Len(post[r]) + 1
  <2>1. at[r] = 1 /\ Len(post[r]) = 0
    BY <1>1, <1>2
  <2>2. QED
    BY <2>1
<1>4. [n \in Names |-> Boot] \in [Names -> Values]
  BY BootAssumption
<1>5. TypeOK
  <2>1. rows \in [Requests -> [Names -> Values]]
    BY <1>4 DEF Init
  <2>2. synced \in [Requests -> BOOLEAN] /\ signalled \in BOOLEAN /\ silent \in BOOLEAN
    BY DEF Init
  <2>3. post \in [Requests -> Posts \cup {<<>>}]
    BY DEF Init
  <2>4. pc \in [Requests -> Open \cup {"idle"}] /\ at \in [Requests -> Nat \ {0}]
    BY DEF Init
  <2>5. running \in [Names -> Values] /\ stored \in [Names -> Values]
    BY <1>4 DEF Init
  <2>6. lost \subseteq Requests /\ log \subseteq Names \X (Values \cup {Reset, Refused})
    BY DEF Init
  <2>7. QED
    BY <1>3, <2>1, <2>2, <2>3, <2>4, <2>5, <2>6 DEF TypeOK
<1>6. QED
  BY <1>1, <1>5 DEF Typed, AtItem

LEMMA AnswerTyped ==
  ASSUME Typed, NEW r \in Requests, Answer(r)
  PROVE  /\ pc' \in [Requests -> Open \cup {"idle"}]
         /\ post' \in [Requests -> Posts \cup {<<>>}]
         /\ at' \in [Requests -> Nat \ {0}]
         /\ \A q \in Requests : at'[q] <= Len(post'[q]) + 1
         /\ rows' \in [Requests -> [Names -> Values]]
         /\ lost' \subseteq Requests
         /\ synced' \in [Requests -> BOOLEAN]
         /\ AtItem'
<1> USE DEF Answer, Typed, TypeOK
<1>1. /\ pc' \in [Requests -> Open \cup {"idle"}]
      /\ post' \in [Requests -> Posts \cup {<<>>}]
      /\ at' \in [Requests -> Nat \ {0}]
      /\ lost' \subseteq Requests
      /\ synced' \in [Requests -> BOOLEAN]
  BY DEF Goto
<1>2. rows' \in [Requests -> [Names -> Values]]
  BY BootAssumption
<1>3. ASSUME NEW q \in Requests PROVE at'[q] <= Len(post'[q]) + 1
  <2>1. CASE q = r
    BY <2>1, EmptyBody
  <2>2. CASE q # r
    BY <2>2
  <2>3. QED
    BY <2>1, <2>2
<1>4. AtItem'
  BY DEF AtItem, Goto, Done, Current
<1>5. QED
  BY <1>1, <1>2, <1>3, <1>4

(* A request goes on to its next step, at the same item or the next one. *)
Move(r, step) ==
    /\ Goto(r, step)
    /\ at' = at \/ at' = [at EXCEPT ![r] = @ + 1]
    /\ UNCHANGED <<lost, post, rows>>

LEMMA MoveTyped ==
  ASSUME Typed, NEW r \in Requests, NEW step \in Open, Move(r, step),
         at' # at => ~Done(r),
         step \in {"push", "alter"} => at' = at /\ ~Done(r) /\ Current(r).value # Bad
  PROVE  /\ pc' \in [Requests -> Open \cup {"idle"}]
         /\ post' \in [Requests -> Posts \cup {<<>>}]
         /\ at' \in [Requests -> Nat \ {0}]
         /\ \A q \in Requests : at'[q] <= Len(post'[q]) + 1
         /\ rows' \in [Requests -> [Names -> Values]]
         /\ lost' \subseteq Requests
         /\ AtItem'
<1> USE DEF Move, Typed, TypeOK
<1>1. ASSUME NEW q \in Requests PROVE at'[q] <= Len(post'[q]) + 1
  <2>1. CASE at' = at
    BY <2>1
  <2>2. CASE at' = [at EXCEPT ![r] = @ + 1] /\ at' # at
    <3>1. at[r] <= Len(post[r]) /\ Len(post[r]) \in Nat
      BY <2>2, PostIsSeq DEF Done
    <3>2. QED
      BY <2>2, <3>1
  <2>3. QED
    BY <2>1, <2>2
<1>2. AtItem'
  BY DEF AtItem, Goto, Done, Current
<1>3. QED
  BY <1>1, <1>2 DEF Goto

LEMMA TypedStep == Typed /\ [Next]_vars => Typed'
<1> SUFFICES ASSUME Typed, [Next]_vars PROVE Typed'
  OBVIOUS
<1> USE DEF Typed, TypeOK
<1>1. ASSUME NEW r \in Requests, NEW body \in Posts, get_settings(r, body) PROVE Typed'
  <2>1. \A q \in Requests : at'[q] <= Len(post'[q]) + 1
    <3>1. at'[r] = 1 /\ post'[r] = body /\ body \in Seq(Item)
      BY <1>1, PostsAssumption DEF get_settings
    <3>2. Len(body) \in Nat
      BY <3>1
    <3>3. QED
      BY <1>1, <3>1, <3>2 DEF get_settings
  <2>2. AtItem'
    BY <1>1 DEF get_settings, AtItem, Goto, Done, Current
  <2>3. QED
    BY <1>1, <2>1, <2>2 DEF get_settings, Goto, Open
<1>2. ASSUME NEW r \in Requests, check(r) PROVE Typed'
  <2>1. CASE Answer(r)
    BY <1>2, <2>1, AnswerTyped DEF check
  <2>2. CASE ~Answer(r)
    <3>1. \/ Move(r, "reload") /\ at' = at
          \/ Move(r, "push") /\ at' = at /\ ~Done(r) /\ Current(r).value # Bad
          \/ Move(r, "check") /\ ~Done(r)
      BY <1>2, <2>2 DEF check, Move
    <3>2. QED
      BY <1>2, <2>2, <3>1, MoveTyped DEF check, Open
  <2>3. QED
    BY <2>1, <2>2
<1>3. ASSUME NEW r \in Requests, push(r) PROVE Typed'
  <2>1. ~Done(r) /\ Current(r).value # Bad
    BY <1>3 DEF push, AtItem
  <2>2. <<Current(r).name, Current(r).value>> \in Names \X (Values \cup {Reset, Refused})
    BY <2>1, CurrentIsItem
  <2>3. Move(r, "alter") /\ at' = at
    BY <1>3 DEF push, Move
  <2>4. QED
    BY <1>3, <2>1, <2>2, <2>3, MoveTyped DEF push, Open
<1>4. ASSUME NEW r \in Requests, alter(r) PROVE Typed'
  <2>1. CASE r \in lost \/ Current(r).value = Refused
    <3>1. Answer(r) /\ UNCHANGED <<running, stored, signalled, log, silent>>
      BY <1>4, <2>1 DEF alter
    <3>2. QED
      BY <3>1, AnswerTyped
  <2>2. CASE r \notin lost /\ Current(r).value # Refused
    <3>1. ~Done(r) /\ Current(r).value \notin {Bad, Refused}
      BY <1>4, <2>2 DEF alter, AtItem
    <3>2. Target(Current(r)) \in Values
      BY <3>1, CurrentIsItem, BootAssumption DEF Target
    <3>3. Move(r, "check")
      BY <1>4, <2>2 DEF alter, Move
    <3>4. synced' \in [Requests -> BOOLEAN]
      <4>1. synced' = [q \in Requests |-> q = r /\ synced[q]]
        BY <1>4, <2>2 DEF alter
      <4>2. \A q \in Requests : (q = r /\ synced[q]) \in BOOLEAN
        OBVIOUS
      <4>3. QED
        BY <4>1, <4>2
    <3>5. stored' \in [Names -> Values]
      BY <1>4, <2>2, <3>2 DEF alter
    <3>6. UNCHANGED <<running, signalled, log, silent>>
      BY <1>4 DEF alter
    <3>7. QED
      BY <3>1, <3>3, <3>4, <3>5, <3>6, MoveTyped DEF Open
  <2>3. QED
    BY <2>1, <2>2
<1>5. ASSUME NEW r \in Requests, pg_reload_conf(r) PROVE Typed'
  <2>1. CASE Answer(r)
    BY <1>5, <2>1, AnswerTyped DEF pg_reload_conf
  <2>2. CASE ~Answer(r)
    <3>1. Move(r, "notify") /\ at' = at
      BY <1>5, <2>2 DEF pg_reload_conf, Move
    <3>2. QED
      BY <1>5, <2>2, <3>1, MoveTyped DEF pg_reload_conf, Open
  <2>3. QED
    BY <2>1, <2>2
<1>6. ASSUME NEW r \in Requests, notify(r) PROVE Typed'
  BY <1>6, AnswerTyped DEF notify
<1>7. CASE Reload
  BY <1>7 DEF Reload, AtItem, Done, Current
<1>8. CASE RestartServer
  BY <1>8 DEF RestartServer, AtItem, Done, Current
<1>9. CASE UNCHANGED vars
  BY <1>9 DEF vars, AtItem, Done, Current
<1>10. QED
  BY <1>1, <1>2, <1>3, <1>4, <1>5, <1>6, <1>7, <1>8, <1>9 DEF Next, post_settings

(* The type invariant. *)
THEOREM TypeCorrect == Spec => []TypeOK
<1>1. Typed => TypeOK
  BY DEF Typed
<1>2. QED
  BY <1>1, TypedInit, TypedStep, PTL DEF Spec

-----------------------------------------------------------------------------
(* Between the notification and the alteration the notification stays.     *)
Told ==
    \A r \in Requests : pc[r] = "alter" =>
        silent \/ <<Current(r).name, Current(r).value>> \in log

LEMMA AnnouncedStep ==
  Typed /\ Told /\ Announced /\ [Next]_vars => Told' /\ Announced'
<1> SUFFICES ASSUME Typed, Told, Announced, [Next]_vars PROVE Told' /\ Announced'
  OBVIOUS
<1> USE DEF Typed, TypeOK, Told, Announced
<1>1. ASSUME NEW r \in Requests, NEW body \in Posts, get_settings(r, body)
      PROVE Told' /\ Announced'
  BY <1>1 DEF get_settings, Goto, Current
<1>2. ASSUME NEW r \in Requests, check(r) PROVE Told' /\ Announced'
  BY <1>2 DEF check, Answer, Goto, Current
<1>3. ASSUME NEW r \in Requests, push(r) PROVE Told' /\ Announced'
  BY <1>3 DEF push, Goto, Current
<1>4. ASSUME NEW r \in Requests, alter(r) PROVE Told' /\ Announced'
  <2>1. CASE Answer(r)
    BY <1>4, <2>1 DEF alter, Answer, Goto, Current
  <2>2. CASE ~Answer(r)
    <3>1. Told'
      BY <1>4, <2>2 DEF alter, Goto, Current
    <3>2. ASSUME NEW n \in Names, stored'[n] # Boot, ~silent'
          PROVE  <<n, stored'[n]>> \in log'
      BY <1>4, <2>2, <3>2 DEF alter, Target
    <3>3. QED
      BY <3>1, <3>2
  <2>3. QED
    BY <2>1, <2>2
<1>5. ASSUME NEW r \in Requests, pg_reload_conf(r) \/ notify(r) PROVE Told' /\ Announced'
  BY <1>5 DEF pg_reload_conf, notify, Answer, Goto, Current
<1>6. CASE Reload \/ RestartServer \/ UNCHANGED vars
  BY <1>6 DEF Reload, RestartServer, vars, Current
<1>7. QED
  BY <1>1, <1>2, <1>3, <1>4, <1>5, <1>6 DEF Next, post_settings

(* Nothing is stored in PostgreSQL that the notification log does not      *)
(* tell of, unless a notification could not be pushed.                     *)
THEOREM AnnouncedHolds == Spec => []Announced
<1>1. Init => Told /\ Announced
  BY DEF Init, Told, Announced
<1>2. QED
  BY <1>1, TypedInit, TypedStep, AnnouncedStep, PTL DEF Spec

-----------------------------------------------------------------------------
(* While a request stays synced, a setting that no item behind it names is *)
(* stored as it was read, and one that a single item behind it names is    *)
(* stored as that item asks.                                               *)
Real == (Values \ Nil) \cup {Boot}
OnlyReal == \A n \in Names : stored[n] \in Real /\ running[n] \in Real

AsRead(r, n) ==
    (\A k \in 1 .. Len(post[r]) : k < at[r] => post[r][k].name # n) => stored[n] = rows[r][n]

AsAsked(r, k) ==
    k < at[r] /\ NamedOnce(r, k) => stored[post[r][k].name] = Target(post[r][k])

SyncedOK(r) ==
    /\ pc[r] \in {"reload", "notify"} => Done(r)
    /\ pc[r] \in Open => \A n \in Names : rows[r][n] \in Real
    /\ pc[r] \in Open /\ synced[r] =>
         /\ \A n \in Names : AsRead(r, n)
         /\ \A k \in 1 .. Len(post[r]) : AsAsked(r, k)

SyncInv == Typed /\ OnlyReal /\ \A r \in Requests : SyncedOK(r)

LEMMA TargetIsReal ==
  ASSUME NEW item \in Item, item.value \notin {Bad, Refused}
  PROVE  Target(item) \in Real
  BY DEF Item, Target, Real

LEMMA ItemsOf ==
  ASSUME TypeOK, NEW r \in Requests, NEW k \in 1 .. Len(post[r])
  PROVE  post[r][k] \in Item
  BY PostIsSeq

(* Nothing that concerns r changes. *)
LEMMA SyncedStays ==
  ASSUME NEW r \in Requests, SyncedOK(r), UNCHANGED stored,
         pc'[r] = pc[r], post'[r] = post[r], at'[r] = at[r], rows'[r] = rows[r],
         synced'[r] => synced[r]
  PROVE  SyncedOK(r)'
  BY DEF SyncedOK, AsRead, AsAsked, NamedOnce, Done

(* An item whose setting is as it is asked for already is passed over. *)
LEMMA SyncedSkips ==
  ASSUME SyncInv, NEW r \in Requests, pc[r] = "check", ~Done(r),
         ~Differs(r, Current(r)), Move(r, "check"), at'[r] = at[r] + 1,
         UNCHANGED <<stored, synced>>
  PROVE  SyncedOK(r)'
<1> USE DEF SyncInv
<1>1. /\ at[r] \in 1 .. Len(post[r]) /\ Current(r) \in Item /\ pc[r] \in Open
      /\ Len(post[r]) \in Nat
  BY CurrentIsItem, ItemsOf, PostIsSeq DEF Typed, Current, Open
<1>2. pc'[r] = "check" /\ post'[r] = post[r] /\ rows'[r] = rows[r]
  BY DEF Move, Goto, Typed, TypeOK
<1>3. ASSUME synced[r], NEW n \in Names PROVE AsRead(r, n)'
  BY <1>1, <1>2, <1>3 DEF AsRead, SyncedOK
<1>4. ASSUME synced[r], NEW k \in 1 .. Len(post[r]) PROVE AsAsked(r, k)'
  <2>1. CASE k # at[r]
    <3>1. k < at'[r] => k < at[r]
      BY <1>1, <2>1
    <3>2. QED
      BY <1>1, <1>2, <1>4, <3>1 DEF AsAsked, NamedOnce, SyncedOK
  <2>2. CASE k = at[r]
    <3>1. NamedOnce(r, k) => stored[Current(r).name] = rows[r][Current(r).name]
      BY <1>1, <1>4, <2>2 DEF NamedOnce, AsRead, SyncedOK, Current, Item
    <3>2. Current(r).value = rows[r][Current(r).name] /\ Current(r).value \in Real
      BY <1>1 DEF Differs, SyncedOK, Item
    <3>3. Target(Current(r)) = Current(r).value
      BY <3>2, MarkAssumption, BootAssumption DEF Target, Real
    <3>4. QED
      BY <1>2, <2>2, <3>1, <3>2, <3>3 DEF AsAsked, NamedOnce, Current
  <2>3. QED
    BY <2>1, <2>2
<1>5. QED
  BY <1>1, <1>2, <1>3, <1>4 DEF SyncedOK

(* An item is altered as it asks, and no single item before it is undone. *)
LEMMA SyncedAlters ==
  ASSUME SyncInv, NEW r \in Requests, ~Done(r), pc[r] = "alter",
         Move(r, "check"), at'[r] = at[r] + 1, synced'[r] => synced[r],
         stored' = [stored EXCEPT ![Current(r).name] = Target(Current(r))]
  PROVE  SyncedOK(r)'
<1> USE DEF SyncInv
<1>1. /\ at[r] \in 1 .. Len(post[r]) /\ Current(r) \in Item /\ pc[r] \in Open
      /\ Len(post[r]) \in Nat /\ Current(r) = post[r][at[r]]
  BY CurrentIsItem, ItemsOf, PostIsSeq DEF Typed, Current, Open
<1>2. pc'[r] = "check" /\ post'[r] = post[r] /\ rows'[r] = rows[r]
  BY DEF Move, Goto, Typed, TypeOK
<1>3. /\ stored'[Current(r).name] = Target(Current(r))
      /\ \A n \in Names : n # Current(r).name => stored'[n] = stored[n]
  BY <1>1 DEF Typed, TypeOK, Item
<1>4. ASSUME synced[r], NEW n \in Names PROVE AsRead(r, n)'
  BY <1>1, <1>2, <1>3, <1>4 DEF AsRead, SyncedOK
<1>5. ASSUME synced[r], NEW k \in 1 .. Len(post[r]) PROVE AsAsked(r, k)'
  <2>1. CASE k # at[r]
    <3>1. k < at'[r] => k < at[r]
      BY <1>1, <2>1
    <3>2. NamedOnce(r, k) => post[r][k].name # Current(r).name
      BY <1>1, <2>1 DEF NamedOnce
    <3>3. post[r][k].name \in Names
      BY ItemsOf DEF Typed, Item
    <3>4. k < at[r] /\ NamedOnce(r, k) => stored[post[r][k].name] = Target(post[r][k])
      BY <1>1, <1>5 DEF SyncedOK, AsAsked
    <3>5. QED
      BY <1>2, <1>3, <3>1, <3>2, <3>3, <3>4 DEF AsAsked, NamedOnce
  <2>2. CASE k = at[r]
    BY <1>1, <1>2, <1>3, <2>2 DEF AsAsked
  <2>3. QED
    BY <2>1, <2>2
<1>6. QED
  BY <1>1, <1>2, <1>4, <1>5 DEF SyncedOK
LEMMA OnlyRealStep ==
  ASSUME SyncInv, [Next]_vars
  PROVE  OnlyReal'
<1> USE DEF SyncInv, OnlyReal, Typed, TypeOK
<1>1. ASSUME NEW r \in Requests, alter(r) PROVE OnlyReal'
  <2>1. CASE stored' = stored
    BY <1>1, <2>1 DEF alter
  <2>2. CASE stored' # stored
    <3>1. ~Done(r) /\ Current(r).value \notin {Bad, Refused} /\ Current(r) \in Item
      BY <1>1, <2>2, CurrentIsItem, ItemsOf DEF alter, AtItem, Current
    <3>2. Target(Current(r)) \in Real
      BY <3>1, TargetIsReal
    <3>3. QED
      BY <1>1, <2>2, <3>2 DEF alter
  <2>3. QED
    BY <2>1, <2>2
<1>2. CASE Reload \/ RestartServer
  BY <1>2 DEF Reload, RestartServer
<1>3. CASE UNCHANGED <<stored, running>>
  BY <1>3
<1>4. QED
  BY <1>1, <1>2, <1>3
  DEF Next, vars, post_settings, get_settings, check, push, pg_reload_conf, notify

LEMMA SyncedStep ==
  ASSUME SyncInv, [Next]_vars, NEW r \in Requests
  PROVE  SyncedOK(r)'
<1> USE DEF SyncInv, Typed, TypeOK
<1>1. ASSUME Answer(r) PROVE SyncedOK(r)'
  BY <1>1 DEF Answer, Goto, SyncedOK, Open
<1>2. ASSUME NEW body \in Posts, get_settings(r, body) PROVE SyncedOK(r)'
  <2>1. /\ pc'[r] = "check" /\ rows'[r] = running /\ at'[r] = 1 /\ post'[r] = body
        /\ synced'[r] => stored = running
        /\ stored' = stored
    BY <1>2 DEF get_settings, Goto
  <2>2. \A k \in 1 .. Len(body) : ~(k < 1)
    BY PostsAssumption
  <2>3. QED
    BY <2>1, <2>2 DEF SyncedOK, AsRead, AsAsked, OnlyReal
<1>3. ASSUME check(r) PROVE SyncedOK(r)'
  <2>1. CASE Answer(r)
    BY <1>1, <2>1
  <2>2. CASE Done(r) /\ Move(r, "reload") /\ at' = at /\ UNCHANGED <<stored, synced>>
    BY <1>3, <2>2 DEF check, Move, Goto, SyncedOK, AsRead, AsAsked, NamedOnce, Done, Open
  <2>3. CASE Move(r, "push") /\ at' = at /\ UNCHANGED <<stored, synced>>
    BY <1>3, <2>3 DEF check, Move, Goto, SyncedOK, AsRead, AsAsked, NamedOnce, Done, Open
  <2>4. CASE /\ Move(r, "check") /\ at' = [at EXCEPT ![r] = @ + 1] /\ ~Done(r)
             /\ ~Differs(r, Current(r)) /\ UNCHANGED <<stored, synced>>
    BY <1>3, <2>4, SyncedSkips DEF check
  <2>5. CASE ~Answer(r)
    <3>1. CASE Done(r)
      BY <1>3, <2>2, <2>5, <3>1 DEF check, Move
    <3>2. CASE ~Done(r) /\ Differs(r, Current(r))
      BY <1>3, <2>3, <2>5, <3>2 DEF check, Move
    <3>3. CASE ~Done(r) /\ ~Differs(r, Current(r))
      BY <1>3, <2>4, <2>5, <3>3 DEF check, Move
    <3>4. QED
      BY <3>1, <3>2, <3>3
  <2>6. QED
    BY <2>1, <2>5
<1>4. ASSUME push(r) PROVE SyncedOK(r)'
  BY <1>4 DEF push, Goto, SyncedOK, AsRead, AsAsked, NamedOnce, Done, Open
<1>5. ASSUME alter(r) PROVE SyncedOK(r)'
  <2>1. CASE Answer(r)
    BY <1>1, <2>1
  <2>2. CASE ~Answer(r)
    <3>1. Move(r, "check") /\ at'[r] = at[r] + 1 /\ ~Done(r) /\ pc[r] = "alter"
      BY <1>5, <2>2 DEF alter, Move, AtItem
    <3>2. synced'[r] => synced[r]
      BY <1>5, <2>2 DEF alter
    <3>3. stored' = [stored EXCEPT ![Current(r).name] = Target(Current(r))]
      BY <1>5, <2>2 DEF alter
    <3>4. QED
      BY <3>1, <3>2, <3>3, SyncedAlters
  <2>3. QED
    BY <2>1, <2>2
<1>6. ASSUME pg_reload_conf(r) PROVE SyncedOK(r)'
  <2>1. CASE Answer(r)
    BY <1>1, <2>1
  <2>2. CASE ~Answer(r)
    <3>1. /\ pc[r] = "reload" /\ pc'[r] = "notify" /\ stored' = stored
          /\ UNCHANGED <<lost, post, at, rows, synced>>
      BY <1>6, <2>2 DEF pg_reload_conf, Goto
    <3>2. QED
      BY <3>1 DEF SyncedOK, AsRead, AsAsked, NamedOnce, Done, Open
  <2>3. QED
    BY <2>1, <2>2
<1>7. ASSUME notify(r) PROVE SyncedOK(r)'
  BY <1>1, <1>7 DEF notify
<1>8. ASSUME NEW q \in Requests, q # r,
             (\E body \in Posts : get_settings(q, body)) \/ post_settings(q)
      PROVE  SyncedOK(r)'
  <2>1. pc'[r] = pc[r] /\ post'[r] = post[r] /\ at'[r] = at[r] /\ rows'[r] = rows[r]
    BY <1>8 DEF post_settings, get_settings, check, push, alter, pg_reload_conf, notify,
                Answer, Goto
  <2>2. CASE stored' = stored
    <3>1. synced'[r] => synced[r]
      BY <1>8 DEF post_settings, get_settings, check, push, alter, pg_reload_conf,
                  notify, Answer
    <3>2. QED
      BY <2>1, <2>2, <3>1, SyncedStays
  <2>3. CASE stored' # stored
    <3>1. ~synced'[r]
      BY <1>8, <2>3 DEF post_settings, get_settings, check, push, alter,
                        pg_reload_conf, notify
    <3>2. QED
      BY <2>1, <3>1 DEF SyncedOK, Done
  <2>4. QED
    BY <2>2, <2>3
<1>9. CASE Reload \/ RestartServer \/ UNCHANGED vars
  BY <1>9, SyncedStays DEF Reload, RestartServer, vars
<1>10. QED
  BY <1>2, <1>3, <1>4, <1>5, <1>6, <1>7, <1>8, <1>9 DEF Next, post_settings

(* A request answered with 200 has stored every value it was posted but 0  *)
(* for a real setting, provided it began with nothing stored that was not  *)
(* in use and no other request altered anything beside it.  Asked is the   *)
(* posted value: the proof is where it meets what alter stores.            *)
THEOREM PostedIsStoredIfSyncedHolds == Spec => PostedIsStoredIfSynced
<1> DEFINE AllStored(r) ==
        \A k \in 1 .. Len(post[r]) :
            NamedOnce(r, k) /\ post[r][k].value \notin Nil => StoredAsPosted(r, k)
<1>1. Init => SyncInv
  BY TypedInit, BootAssumption DEF Init, SyncInv, OnlyReal, Real, SyncedOK, Open
<1>2. SyncInv /\ [Next]_vars => SyncInv'
  BY TypedStep, OnlyRealStep, SyncedStep DEF SyncInv
<1>3. ASSUME SyncInv, NEW r \in Requests, Accepted(r), synced[r] PROVE AllStored(r)
  <2>1. SyncedOK(r) /\ pc[r] \in Open /\ Done(r)
    BY <1>3 DEF SyncInv, Accepted, SyncedOK, Open
  <2>2. \A k \in 1 .. Len(post[r]) : AsAsked(r, k) /\ k < at[r]
    BY <1>3, <2>1, PostIsSeq DEF SyncedOK, Done, SyncInv, Typed, TypeOK
  <2>3. ASSUME NEW k \in 1 .. Len(post[r]), post[r][k].value \notin Nil
        PROVE  Target(post[r][k]) = Asked(post[r][k])
    BY <2>3 DEF Target, Asked
  <2>4. QED
    BY <2>2, <2>3 DEF StoredAsPosted, AsAsked
<1>4. SyncInv => [\A r \in Requests : Accepted(r) /\ synced[r] => AllStored(r)]_vars
  BY <1>3
<1>5. QED
  BY <1>1, <1>2, <1>4, PTL DEF Spec, PostedIsStoredIfSynced

-----------------------------------------------------------------------------
(* The ratios of the units of time are made one from the other: the        *)
(* function they are of exists.                                            *)
Ratios(f, i, n) == f = [k \in i .. n |-> IF k = i THEN 1 ELSE Step[k - 1] * f[k - 1]]

LEMMA RatiosExist == ASSUME NEW i \in Nat, NEW n \in Nat PROVE \E f : Ratios(f, i, n)
<1> DEFINE T == {m \in Nat : ~ \E f : Ratios(f, i, m)}
<1>1. SUFFICES ASSUME T # {} PROVE FALSE
  OBVIOUS
<1>2. PICK m \in T : \A k \in T : m <= k
  BY <1>1, LeastExists
<1>3. CASE m <= i
  <2>1. Ratios([k \in i .. m |-> 1], i, m)
    BY <1>3 DEF Ratios
  <2>2. QED
    BY <2>1
<1>4. CASE m > i
  <2>1. m - 1 \in Nat /\ m - 1 \notin T
    BY <1>2, <1>4
  <2>2. PICK f : Ratios(f, i, m - 1)
    BY <2>1
  <2> DEFINE next == Step[m - 1] * f[m - 1]
             g == [k \in i .. m |-> IF k = m THEN next ELSE f[k]]
  <2>3. Ratios(g, i, m)
    <3>1. ASSUME NEW k \in i .. m
          PROVE  g[k] = IF k = i THEN 1 ELSE Step[k - 1] * g[k - 1]
      <4>1. CASE k = m
        <5>1. g[k] = next /\ g[k - 1] = f[k - 1] /\ k # i
          BY <1>4, <2>1, <4>1
        <5>2. QED
          BY <4>1, <5>1
      <4>2. CASE k = i
        BY <1>4, <2>1, <2>2, <4>2 DEF Ratios
      <4>3. CASE k # m /\ k # i
        <5>1. k \in i .. m - 1 /\ k - 1 \in i .. m - 1
          BY <4>3
        <5>2. g[k] = f[k] /\ g[k - 1] = f[k - 1]
          BY <4>3, <5>1
        <5>3. f[k] = Step[k - 1] * f[k - 1]
          BY <2>2, <4>3, <5>1 DEF Ratios
        <5>4. QED
          BY <4>3, <5>2, <5>3
      <4>4. QED
        BY <4>1, <4>2, <4>3
    <3> HIDE DEF g
    <3>2. g = [k \in i .. m |-> g[k]]
      BY DEF g
    <3>3. QED
      BY <3>1, <3>2 DEF Ratios
  <2>4. QED
    BY <2>3
<1>5. QED
  BY <1>3, <1>4

(* A unit is one of itself, and each step to a greater one multiplies. *)
LEMMA RatioOne == ASSUME NEW i \in Nat, NEW j \in Nat, i >= j PROVE Ratio(i, j) = 1
BY DEF Ratio

LEMMA RatioStep ==
  ASSUME NEW i \in 1 .. 5, NEW j \in 2 .. 6, i < j
  PROVE  Ratio(i, j) = Step[j - 1] * Ratio(i, j - 1)
<1> DEFINE h == CHOOSE f : Ratios(f, i, 6)
<1>1. Ratios(h, i, 6)
  BY RatiosExist
<1>2. \A k \in Nat : Ratio(i, k) = IF i >= k THEN 1 ELSE h[k]
  BY DEF Ratio, Ratios
<1> HIDE DEF h
<1>3. h[j] = Step[j - 1] * h[j - 1] /\ h[i] = 1
  BY <1>1 DEF Ratios
<1>4. CASE j - 1 = i
  BY <1>2, <1>3, <1>4
<1>5. CASE j - 1 > i
  BY <1>2, <1>3, <1>5
<1>6. QED
  BY <1>4, <1>5

LEMMA Steps == Step[1] = 1000 /\ Step[2] = 1000 /\ Step[3] = 60 /\ Step[4] = 60 /\ Step[5] = 24
BY DEF Step

LEMMA RatiosUp ==
  /\ Ratio(1, 2) = 1000
  /\ Ratio(2, 3) = 1000 /\ Ratio(2, 4) = 60000 /\ Ratio(2, 5) = 3600000 /\ Ratio(2, 6) = 86400000
  /\ Ratio(3, 4) = 60 /\ Ratio(3, 5) = 3600 /\ Ratio(3, 6) = 86400
  /\ Ratio(4, 5) = 60 /\ Ratio(4, 6) = 1440
  /\ Ratio(5, 6) = 24
<1>1. \A i \in 1 .. 6 : Ratio(i, i) = 1
  BY RatioOne
<1>2. Ratio(1, 2) = 1000
  BY <1>1, Steps, RatioStep
<1>3. Ratio(2, 3) = 1000
  BY <1>1, Steps, RatioStep
<1>4. Ratio(2, 4) = 60000
  BY <1>3, Steps, RatioStep
<1>5. Ratio(2, 5) = 3600000
  BY <1>4, Steps, RatioStep
<1>6. Ratio(2, 6) = 86400000
  BY <1>5, Steps, RatioStep
<1>7. Ratio(3, 4) = 60
  BY <1>1, Steps, RatioStep
<1>8. Ratio(3, 5) = 3600
  BY <1>7, Steps, RatioStep
<1>9. Ratio(3, 6) = 86400
  BY <1>8, Steps, RatioStep
<1>10. Ratio(4, 5) = 60
  BY <1>1, Steps, RatioStep
<1>11. Ratio(4, 6) = 1440
  BY <1>10, Steps, RatioStep
<1>12. Ratio(5, 6) = 24
  BY <1>1, Steps, RatioStep
<1>13. QED
  BY <1>2, <1>3, <1>4, <1>5, <1>6, <1>7, <1>8, <1>9, <1>10, <1>11, <1>12

LEMMA Ranks ==
  /\ Rank(Clock, "us") = 1 /\ Rank(Clock, "ms") = 2 /\ Rank(Clock, "s") = 3
  /\ Rank(Clock, "min") = 4 /\ Rank(Clock, "h") = 5 /\ Rank(Clock, "d") = 6
BY DEF Rank, Clock

LEMMA RanksOfBytes ==
  /\ Rank(Bytes, "B") = 1 /\ Rank(Bytes, "KB") = 2 /\ Rank(Bytes, "MB") = 3
  /\ Rank(Bytes, "GB") = 4 /\ Rank(Bytes, "TB") = 5
BY DEF Rank, Bytes

LEMMA Places ==
  /\ place("B") = 1 /\ place("KB") = 2 /\ place("MB") = 3 /\ place("GB") = 4 /\ place("TB") = 5
BY DEF place, units

LEMMA TakenAreSizes ==
  /\ TakenSizes \subseteq Sizes /\ SettingSizes \subseteq TakenSizes
  /\ NoUnit \notin Sizes
<1>1. units[1] = "B" /\ units[2] = "KB" /\ units[3] = "MB" /\ units[4] = "GB" /\ units[5] = "TB"
  BY DEF units
<1>2. DOMAIN units = 1 .. 9
  BY DEF units
<1>3. TakenSizes \subseteq Sizes
  BY <1>1, <1>2 DEF TakenSizes, Sizes
<1>4. NoUnit \notin Sizes
  BY DEF NoUnit, Sizes, units
<1>5. QED
  BY <1>3, <1>4 DEF TakenSizes, SettingSizes

(* A size is scaled right exactly if it is in no smaller unit than its     *)
(* setting's.                                                              *)
LEMMA SizeRight ==
  ASSUME NEW num, NEW factor, NEW p_unit \in TakenSizes, NEW h_unit \in SettingSizes
  PROVE  Rank(Bytes, h_unit) <= Rank(Bytes, p_unit) <=>
         RightSize(human_to_number(num, p_unit, factor, h_unit), num, p_unit, factor, h_unit)
<1>1. human_to_number(num, p_unit, factor, h_unit) = Number(num, kilos(p_unit, h_unit), 1, factor)
  BY TakenAreSizes DEF human_to_number
<1>2. /\ place(p_unit) = Rank(Bytes, p_unit) /\ place(h_unit) = Rank(Bytes, h_unit)
      /\ Rank(Bytes, p_unit) \in 1 .. 5 /\ Rank(Bytes, h_unit) \in 1 .. 3
  BY Places, RanksOfBytes DEF TakenSizes, SettingSizes
<1>3. kilos(p_unit, h_unit) = IF Rank(Bytes, h_unit) <= Rank(Bytes, p_unit)
                              THEN Rank(Bytes, p_unit) - Rank(Bytes, h_unit)
                              ELSE Rank(Bytes, p_unit) - 1
  BY <1>2, TakenAreSizes DEF kilos
<1>4. \A k, l : Number(num, k, 1, factor) = Number(num, l, 1, factor) <=> k = l
  BY DEF Number
<1>5. QED
  BY <1>1, <1>2, <1>3, <1>4 DEF RightSize

(* What the table says of each pair of units of time. *)
LEMMA InTable ==
  ASSUME NEW num, NEW factor, NEW p_unit \in Times, NEW h_unit \in DOMAIN mult
  PROVE  LET by == mult[h_unit][p_unit] IN
         human_to_number(num, p_unit, factor, h_unit) =
             IF p_unit \notin DOMAIN mult[h_unit] THEN KeyError
             ELSE IF by > 0 THEN Number(num, 0, by, 1) ELSE Number(num, 0, 1, -by)
<1>1. p_unit # NoUnit /\ p_unit \notin Sizes
  BY DEF Times, NoUnit, Sizes, units
<1>2. MultOf(h_unit) = mult[h_unit]
  BY DEF MultOf
<1>3. QED
  BY <1>1, <1>2 DEF human_to_number

(* A pair of units is converted right if the table has the ratio for it,   *)
(* above zero for a unit that is greater than the setting's.               *)
LEMMA TimeOf ==
  ASSUME NEW num, NEW factor, NEW p_unit \in Times, NEW h_unit \in DOMAIN mult,
         LET by == mult[h_unit][p_unit] IN
         \/ p_unit \notin DOMAIN mult[h_unit]
         \/ /\ by > 0 /\ by = Ratio(Rank(Clock, h_unit), Rank(Clock, p_unit))
            /\ Ratio(Rank(Clock, p_unit), Rank(Clock, h_unit)) = 1
         \/ /\ ~(by > 0) /\ -by = Ratio(Rank(Clock, p_unit), Rank(Clock, h_unit))
            /\ Ratio(Rank(Clock, h_unit), Rank(Clock, p_unit)) = 1
  PROVE  RightTime(human_to_number(num, p_unit, factor, h_unit), num, p_unit, h_unit)
<1> DEFINE by == mult[h_unit][p_unit]
           n == human_to_number(num, p_unit, factor, h_unit)
           up == Ratio(Rank(Clock, h_unit), Rank(Clock, p_unit))
           down == Ratio(Rank(Clock, p_unit), Rank(Clock, h_unit))
<1>1. n = IF p_unit \notin DOMAIN mult[h_unit] THEN KeyError
          ELSE IF by > 0 THEN Number(num, 0, by, 1) ELSE Number(num, 0, 1, -by)
  BY InTable
<1> HIDE DEF n, by, up, down
<1>2. n = KeyError \/ n = Number(num, 0, up, down)
  BY <1>1 DEF by, up, down
<1>3. QED
  BY <1>2 DEF RightTime, n, up, down

LEMMA TimeRight ==
  ASSUME NEW num, NEW factor, NEW p_unit \in Times, NEW h_unit \in DOMAIN mult
  PROVE  RightTime(human_to_number(num, p_unit, factor, h_unit), num, p_unit, h_unit)
<1>1. DOMAIN mult = {"ms", "s", "min", "h", "d"}
  BY DEF mult
<1>2. \A i \in 1 .. 6, j \in 1 .. 6 : i >= j => Ratio(i, j) = 1
  BY RatioOne
<1>3. CASE h_unit = "ms"
  <2>1. mult[h_unit] = [us |-> -1000, ms |-> 1, s |-> 1000, min |-> 60000, h |-> 3600000,
                        d |-> 86400000]
    BY <1>3 DEF mult
  <2>2. QED
    BY <1>2, <1>3, <2>1, TimeOf, Ranks, RatiosUp DEF Times
<1>4. CASE h_unit = "s"
  <2>1. mult[h_unit] = [ms |-> -1000, s |-> 1, min |-> 60, h |-> 3600, d |-> 86400]
    BY <1>4 DEF mult
  <2>2. QED
    BY <1>2, <1>4, <2>1, TimeOf, Ranks, RatiosUp DEF Times
<1>5. CASE h_unit = "min"
  <2>1. mult[h_unit] = [ms |-> -60000, s |-> -60, min |-> 1, h |-> 60, d |-> 1440]
    BY <1>5 DEF mult
  <2>2. QED
    BY <1>2, <1>5, <2>1, TimeOf, Ranks, RatiosUp DEF Times
<1>6. CASE h_unit = "h"
  <2>1. mult[h_unit] = [ms |-> -3600000, s |-> -3600, min |-> -60, h |-> 1, d |-> 24]
    BY <1>6 DEF mult
  <2>2. QED
    BY <1>2, <1>6, <2>1, TimeOf, Ranks, RatiosUp DEF Times
<1>7. CASE h_unit = "d"
  <2>1. mult[h_unit] = [ms |-> -86400000, s |-> -86400, min |-> -1440, h |-> -24, d |-> 1]
    BY <1>7 DEF mult
  <2>2. QED
    BY <1>2, <1>7, <2>1, TimeOf, Ranks, RatiosUp DEF Times
<1>8. QED
  BY <1>1, <1>3, <1>4, <1>5, <1>6, <1>7

(* plugins/pgconf/functions.py:114: a posted value is turned into the     *)
(* number of its setting's units it is, whatever its number and the factor *)
(* of the setting, unless its unit is smaller than the setting's.          *)
THEOREM RightAlways == \A num, factor : Right(num, factor)
BY SizeRight, TimeRight DEF Right

(* What the run evaluates in the first state, for a few numbers. *)
THEOREM UnitsRightHolds == Spec => []UnitsRight
<1>1. UnitsRight
  BY RightAlways DEF UnitsRight
<1>2. QED
  BY <1>1, PTL

=============================================================================
