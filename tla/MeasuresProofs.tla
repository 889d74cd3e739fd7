---------------------------- MODULE MeasuresProofs ----------------------------
(***************************************************************************)
(* What the deltas of the probes report, for any number of HTTP threads    *)
(* and any bounds: no event twice and none missed while no two probers     *)
(* measure at once, and never one from before a restart.  And what one     *)
(* probe that fails takes from a collect, on any host and server.          *)
(***************************************************************************)
EXTENDS MCMeasures, RecordsProofs, TLAPS

Measuring(p) == pc[p] \in {"delta", "upsert"}

(* The counter c can have been reached, at event t, from a measure: by     *)
(* counting alone, or from zero with the events since a reset.             *)
Follows(from, c, t) ==
    /\ from.total <= t
    /\ c - from.count = t - from.total \/ c <= t - from.total

Numbers == count <= total /\ counted \subseteq 1 .. total

(* The row of last_measures is of this start of the agent. *)
LastOK ==
    last # None =>
        last.count <= last.total /\ Follows(last, count, total) /\ last.boot = boots

ProberOK(p) ==
    /\ taken[p].count <= taken[p].total
    /\ pc[p] # "idle" => Follows(taken[p], count, total) /\ taken[p].boot = boots
    /\ base[p] # None => base[p].count <= base[p].total
    /\ pc[p] = "upsert" /\ base[p] # None => base[p].boot = boots

(* A prober that measures alone: what it has read is still what the table  *)
(* holds, and all that has been reported happened before its measure.      *)
AloneOK(p) ==
    /\ \A q \in Probers : Measuring(p) /\ Measuring(q) => p = q
    /\ Measuring(p) => counted \subseteq 1 .. taken[p].total
    /\ Measuring(p) /\ last # None => Follows(last, taken[p].count, taken[p].total)
    /\ pc[p] = "upsert" => base[p] = last

(* The events reported are those up to the last measure, all of them since *)
(* the row of measures began.                                              *)
Reported ==
    /\ ~excess
    /\ last # None =>
        /\ counted \subseteq 1 .. last.total
        /\ since + 1 .. last.total \subseteq counted

Alone == ~overlapped => Reported /\ \A p \in Probers : AloneOK(p)

IInv ==
    /\ TypeOK
    /\ Numbers
    /\ LastOK
    /\ \A p \in Probers : ProberOK(p)
    /\ Alone

-----------------------------------------------------------------------------
LEMMA MeasureFields ==
  ASSUME NEW m \in Measure
  PROVE  /\ m # None
         /\ m.time \in Times /\ m.count \in Totals /\ m.total \in Totals
         /\ m.boot \in 1 .. MaxBoots
         /\ m.count \in Int /\ m.total \in Int /\ m.count >= 0 /\ m.total >= 0
BY NoneAssumption, NumberAssumption DEF Measure, Totals, Times

LEMMA ZeroIsMeasure ==
  /\ ZeroMeasure \in Measure
  /\ ZeroMeasure.count <= ZeroMeasure.total
BY NumberAssumption DEF ZeroMeasure, Measure, Times, Totals

(* A delta is no number of events, or a number of them. *)
LEMMA DeltaType ==
  ASSUME NEW from \in Measure \cup {None}, NEW to \in Measure
  PROVE  /\ delta(from, to) \in Totals \cup {None}
         /\ delta(from, to) # None => delta(from, to) <= to.count
<1>1. CASE from = None
  BY <1>1 DEF delta
<1>2. CASE from \in Measure
  <2>1. from # None /\ from.count \in Int /\ to.count \in Int /\ from.count >= 0
        /\ to.count \in Totals /\ MaxTotal \in Nat
    BY <1>2, MeasureFields, NumberAssumption
  <2>2. QED
    BY <2>1 DEF delta, Totals
<1>3. QED
  BY <1>1, <1>2

(* A delta between measures that follow one another is at most the events  *)
(* between them, and all of them unless the counter has been reset.        *)
LEMMA DeltaFits ==
  ASSUME NEW from \in Measure, NEW to \in Measure,
         Follows(from, to.count, to.total), delta(from, to) # None
  PROVE  /\ delta(from, to) \in Nat
         /\ delta(from, to) <= to.total - from.total
         /\ ~ResetBetween(from, to) => delta(from, to) = to.total - from.total
<1>1. /\ from # None
      /\ from.count \in Int /\ from.total \in Int /\ from.count >= 0
      /\ to.count \in Int /\ to.total \in Int
  BY MeasureFields
<1>2. to.count >= from.count /\ delta(from, to) = to.count - from.count
  BY <1>1 DEF delta
<1>3. QED
  BY <1>1, <1>2 DEF Follows, ResetBetween

LEMMA FollowsCount ==
  ASSUME NEW from \in Measure, NEW c \in Int, NEW t \in Int, Follows(from, c, t)
  PROVE  Follows(from, c + 1, t + 1) /\ Follows(from, 0, t)
<1>1. from.count \in Int /\ from.total \in Int
  BY MeasureFields
<1>2. QED
  BY <1>1 DEF Follows

-----------------------------------------------------------------------------
LEMMA TypeInit == Init => TypeOK
<1>1. 0 \in Times /\ 0 \in Totals /\ 1 \in 1 .. MaxBoots
  BY NumberAssumption DEF Times, Totals
<1>2. QED
  BY <1>1, ZeroIsMeasure DEF Init, TypeOK

LEMMA TypeFinish ==
  ASSUME TypeOK, NEW p \in Probers, Finish(p)
  PROVE  /\ pc' \in [Probers -> {"idle", "delta", "upsert", "store"}]
         /\ taken' \in [Probers -> Measure]
         /\ base' \in [Probers -> Measure \cup {None}]
BY ZeroIsMeasure DEF TypeOK, Finish

LEMMA TypeContinue ==
  ASSUME TypeOK, NEW p \in Probers, Continue(p)
  PROVE  /\ pc' \in [Probers -> {"idle", "delta", "upsert", "store"}]
         /\ taken' \in [Probers -> Measure]
         /\ base' \in [Probers -> Measure \cup {None}]
BY TypeFinish DEF TypeOK, Continue

(* The latest n of t events are among those there can be. *)
LEMMA LatestEvents ==
  ASSUME NEW t \in Totals, NEW n \in Totals, n <= t
  PROVE  t - n + 1 .. t \subseteq 1 .. MaxTotal
BY NumberAssumption DEF Totals

(* A report stays within the events there are only because no counter is   *)
(* above them: types alone are not inductive.                              *)
LEMMA TypeReport ==
  ASSUME TypeOK, NEW p \in Probers, ProberOK(p), Report(p)
  PROVE  counted' \subseteq 1 .. MaxTotal /\ since' \in Totals /\ excess' \in BOOLEAN
<1>1. PICK d, t : d = delta(base[p], taken[p]) /\ t = taken[p].total
  OBVIOUS
<1>2. base[p] \in Measure \cup {None} /\ taken[p] \in Measure
  BY DEF TypeOK
<1>3. d \in Totals \cup {None} /\ t \in Totals
  BY <1>1, <1>2, DeltaType, MeasureFields
<1>4. counted \subseteq 1 .. MaxTotal /\ since \in Totals
  BY DEF TypeOK
<1>5. CASE d = None
  <2>1. since' = t /\ counted' = counted /\ excess' = excess
    BY <1>1, <1>5 DEF Report
  <2>2. excess' \in BOOLEAN
    BY <2>1, Zenon DEF TypeOK
  <2>3. QED
    BY <1>3, <1>4, <2>1, <2>2, Zenon
<1>6. CASE d # None
  <2>1. counted' = counted \cup (t - d + 1 .. t) /\ (since' = t \/ since' = since)
    BY <1>1, <1>6 DEF Report
  <2>2. excess' \in BOOLEAN
    BY <1>1, <1>6, Zenon DEF Report
  <2>3. d \in Totals
    BY <1>3, <1>6
  <2>4. taken[p].count \in Int /\ d \in Int /\ t \in Int
        /\ d <= taken[p].count /\ taken[p].count <= t
    BY <1>1, <1>2, <1>3, <1>6, <2>3, DeltaType, MeasureFields DEF ProberOK, Totals
  <2>5. d <= t
    BY <2>4
  <2>6. t - d + 1 .. t \subseteq 1 .. MaxTotal
    BY <1>3, <2>3, <2>5, LatestEvents
  <2>7. counted' \subseteq 1 .. MaxTotal
    BY <1>4, <2>1, <2>6, Zenon
  <2>8. QED
    BY <1>3, <1>4, <2>1, <2>2, <2>7, Zenon
<1>7. QED
  BY <1>5, <1>6

-----------------------------------------------------------------------------
(* What one delta reports when it follows a measure at event f: the latest *)
(* d of the events up to t.                                                *)
LEMMA LatestFollow ==
  ASSUME NEW f \in Nat, NEW t \in Nat, NEW d \in Nat, d <= t - f,
         NEW seen, seen \subseteq 1 .. f
  PROVE  /\ (t - d + 1 .. t) \cap seen = {}
         /\ t - d + 1 .. t \subseteq f + 1 .. t
         /\ seen \cup (t - d + 1 .. t) \subseteq 1 .. t
OBVIOUS

LEMMA LatestComplete ==
  ASSUME NEW f \in Nat, NEW t \in Nat, NEW s \in Nat, NEW seen, s + 1 .. f \subseteq seen
  PROVE  s + 1 .. t \subseteq seen \cup (t - (t - f) + 1 .. t)
OBVIOUS

(* The reported events are never more than those that happened. *)
LEMMA ReportNumbers ==
  ASSUME IInv, NEW p \in Probers, pc[p] # "idle", Report(p)
  PROVE  counted' \subseteq 1 .. total
<1>1. PICK d, t : d = delta(base[p], taken[p]) /\ t = taken[p].total
  OBVIOUS
<1>2. base[p] \in Measure \cup {None} /\ taken[p] \in Measure /\ total \in Totals
  BY DEF IInv, TypeOK
<1>3. taken[p].count <= t /\ t <= total
  BY <1>1 DEF IInv, ProberOK, Follows
<1>4. counted \subseteq 1 .. total
  BY DEF IInv, Numbers
<1>5. CASE d = None
  BY <1>1, <1>4, <1>5 DEF Report
<1>6. CASE d # None
  <2>1. counted' = counted \cup (t - d + 1 .. t)
    BY <1>1, <1>6 DEF Report
  <2>2. d \in Totals /\ d <= taken[p].count
    BY <1>1, <1>2, <1>6, DeltaType
  <2>3. d \in Nat /\ taken[p].count \in Nat /\ t \in Nat /\ total \in Nat
    BY <1>1, <1>2, <2>2, MeasureFields, NumberAssumption DEF Totals
  <2>4. t - d + 1 .. t \subseteq 1 .. total
    BY <1>3, <2>2, <2>3
  <2>5. QED
    BY <1>4, <2>1, <2>4, Zenon
<1>7. QED
  BY <1>5, <1>6

(* A prober that has measured alone reports no event twice, and leaves     *)
(* none out.                                                               *)
LEMMA ReportAlone ==
  ASSUME IInv, ~overlapped, NEW p \in Probers, pc[p] = "upsert", Report(p)
  PROVE  /\ ~excess'
         /\ counted' \subseteq 1 .. taken[p].total
         /\ since' + 1 .. taken[p].total \subseteq counted'
<1>1. PICK d, t, from : d = delta(from, taken[p]) /\ t = taken[p].total /\ from = base[p]
  OBVIOUS
<1>2. taken[p] \in Measure /\ last \in Measure \cup {None} /\ since \in Totals
  BY DEF IInv, TypeOK
<1>3. t \in Nat /\ since \in Nat
  BY <1>1, <1>2, MeasureFields, NumberAssumption DEF Totals
<1>4. /\ ~excess
      /\ counted \subseteq 1 .. t
      /\ from = last
      /\ last # None => Follows(last, taken[p].count, t)
  BY <1>1 DEF IInv, Alone, AloneOK, Reported, Measuring
<1>5. CASE d = None
  <2>1. since' = t /\ counted' = counted /\ excess' = excess
    BY <1>1, <1>5 DEF Report
  <2>2. since' + 1 .. t = {}
    BY <1>3, <2>1
  <2>3. QED
    BY <1>1, <1>4, <2>1, <2>2, Zenon
<1>6. CASE d # None
  <2>1. from # None /\ from \in Measure
    BY <1>1, <1>2, <1>4, <1>6 DEF delta
  <2>2. PICK f : f = from.total
    OBVIOUS
  <2>3. /\ d \in Nat /\ d <= t - f
        /\ ~ResetBetween(from, taken[p]) => d = t - f
    BY <1>1, <1>2, <1>4, <1>6, <2>1, <2>2, DeltaFits
  <2>4. f \in Nat
    BY <2>1, <2>2, MeasureFields
  <2>5. counted \subseteq 1 .. f /\ since + 1 .. f \subseteq counted
    BY <1>4, <2>1, <2>2 DEF IInv, Alone, Reported
  <2>6. /\ (t - d + 1 .. t) \cap counted = {}
        /\ t - d + 1 .. t \subseteq f + 1 .. t
        /\ counted \cup (t - d + 1 .. t) \subseteq 1 .. t
    BY <1>3, <2>3, <2>4, <2>5, LatestFollow
  <2>7. /\ counted' = counted \cup (t - d + 1 .. t)
        /\ since' = IF ResetBetween(from, taken[p]) THEN t ELSE since
        /\ excess' = (excess \/ (t - d + 1 .. t) \cap counted # {}
                             \/ ~ t - d + 1 .. t \subseteq f + 1 .. t)
    BY <1>1, <1>6, <2>2, Zenon DEF Report, Events
  <2>8. ~excess'
    BY <1>4, <2>6, <2>7, Zenon
  <2>9. since' + 1 .. t \subseteq counted'
    <3>1. CASE ResetBetween(from, taken[p])
      <4>1. t + 1 .. t = {}
        BY <1>3
      <4>2. QED
        BY <2>7, <3>1, <4>1, Zenon
    <3>2. CASE ~ResetBetween(from, taken[p])
      <4>1. since + 1 .. t \subseteq counted \cup (t - (t - f) + 1 .. t)
        BY <1>3, <2>4, <2>5, LatestComplete
      <4>2. QED
        BY <2>3, <2>7, <3>2, <4>1, Zenon
    <3>3. QED
      BY <3>1, <3>2
  <2>10. QED
    BY <1>1, <2>6, <2>7, <2>8, <2>9, Zenon
<1>7. QED
  BY <1>5, <1>6

-----------------------------------------------------------------------------
LEMMA InitHolds == Init => IInv
<1> SUFFICES ASSUME Init PROVE IInv
  OBVIOUS
<1>1. TypeOK
  BY TypeInit
<1>2. Numbers /\ LastOK
  BY DEF Init, Numbers, LastOK
<1>3. ASSUME NEW p \in Probers PROVE ProberOK(p) /\ AloneOK(p)
  BY ZeroIsMeasure DEF Init, ProberOK, AloneOK, Measuring
<1>4. Reported
  BY DEF Init, Reported
<1>5. QED
  BY <1>1, <1>2, <1>3, <1>4, Zenon DEF IInv, Alone

LEMMA RunKeeps ==
  ASSUME IInv, NEW p \in Probers, run(p)
  PROVE  IInv'
<1> DEFINE measure == [time |-> now, count |-> count, total |-> total, boot |-> boots]
<1>1. TypeOK /\ Numbers /\ LastOK /\ Alone /\ \A q \in Probers : ProberOK(q)
  BY DEF IInv
<1>2. measure \in Measure /\ measure.count = count /\ measure.total = total
      /\ measure.boot = boots
  BY <1>1 DEF TypeOK, Measure
<1>3. count \in Int /\ total \in Int /\ count <= total
  BY <1>1, NumberAssumption DEF TypeOK, Numbers, Totals
<1>4. TypeOK'
  <2>1. pc' \in [Probers -> {"idle", "delta", "upsert", "store"}] /\ taken' \in [Probers -> Measure]
    BY <1>1, <1>2 DEF run, TypeOK
  <2>2. overlapped' \in BOOLEAN
    BY Zenon DEF run
  <2>3. QED
    BY <1>1, <2>1, <2>2, Zenon DEF run, TypeOK, server, history
<1>5. Numbers' /\ LastOK'
  BY <1>1 DEF run, server, history, Numbers, LastOK, Follows
<1>6. ASSUME NEW q \in Probers PROVE ProberOK(q)'
  <2>1. CASE q = p
    <3>1. taken'[q] = measure /\ pc'[q] = "delta" /\ base'[q] = base[q]
          /\ count' = count /\ total' = total /\ boots' = boots
      BY <1>1, <2>1 DEF run, server, TypeOK
    <3>2. Follows(measure, count, total)
      BY <1>2, <1>3 DEF Follows
    <3>3. QED
      BY <1>1, <1>2, <1>3, <3>1, <3>2 DEF ProberOK, Follows
  <2>2. CASE q # p
    <3>1. taken'[q] = taken[q] /\ pc'[q] = pc[q] /\ base'[q] = base[q]
          /\ count' = count /\ total' = total /\ boots' = boots
      BY <1>1, <2>2 DEF run, server, TypeOK
    <3>2. QED
      BY <1>1, <3>1 DEF ProberOK, Follows
  <2>3. QED
    BY <2>1, <2>2
<1>7. ASSUME ~overlapped' PROVE Reported' /\ \A q \in Probers : AloneOK(q)'
  <2>1. ~overlapped /\ \A q \in Probers : pc[q] \notin {"delta", "upsert"}
    BY <1>7, Zenon DEF run
  <2>2. last' = last /\ count' = count /\ total' = total /\ counted' = counted
        /\ since' = since /\ excess' = excess
    BY DEF run, server, history
  <2>3. Reported'
    BY <1>1, <2>1, <2>2 DEF Alone, Reported
  <2>4. \A q \in Probers : q # p => ~Measuring(q)' /\ pc'[q] # "upsert"
    BY <1>1, <2>1 DEF run, TypeOK, Measuring
  <2>5. taken'[p] = measure /\ pc'[p] = "delta"
    BY <1>1 DEF run, TypeOK
  <2>6. counted' \subseteq 1 .. taken'[p].total
    BY <1>1, <1>2, <2>2, <2>5 DEF Numbers
  <2>7. last' # None => Follows(last', taken'[p].count, taken'[p].total)
    BY <1>1, <1>2, <2>2, <2>5 DEF LastOK
  <2>8. QED
    BY <2>3, <2>4, <2>5, <2>6, <2>7 DEF AloneOK
<1>8. QED
  BY <1>4, <1>5, <1>6, <1>7, Zenon DEF IInv, Alone

LEMMA GetLastMeasureKeeps ==
  ASSUME IInv, NEW p \in Probers, get_last_measure(p)
  PROVE  IInv'
<1>1. TypeOK /\ Numbers /\ LastOK /\ Alone /\ \A q \in Probers : ProberOK(q)
  BY DEF IInv
<1>2. /\ taken' = taken /\ last' = last /\ count' = count /\ total' = total
      /\ counted' = counted /\ since' = since /\ excess' = excess
      /\ boots' = boots /\ overlapped' = overlapped
  BY DEF get_last_measure, server, history
<1>3. TypeOK'
  <2>1. pc' \in [Probers -> {"idle", "delta", "upsert", "store"}]
        /\ base' \in [Probers -> Measure \cup {None}]
    BY <1>1 DEF get_last_measure, TypeOK
  <2>2. QED
    BY <1>1, <1>2, <2>1, Zenon DEF get_last_measure, TypeOK, server, history
<1>4. Numbers' /\ LastOK'
  BY <1>1, <1>2 DEF Numbers, LastOK, Follows
<1>5. pc[p] = "delta" /\ pc'[p] = "upsert" /\ base'[p] = last
      /\ \A q \in Probers \ {p} : pc'[q] = pc[q] /\ base'[q] = base[q]
  BY <1>1 DEF get_last_measure, TypeOK
<1>6. ASSUME NEW q \in Probers PROVE ProberOK(q)'
  <2>1. CASE q = p
    BY <1>1, <1>2, <1>5, <2>1 DEF ProberOK, LastOK, Follows
  <2>2. CASE q # p
    BY <1>1, <1>2, <1>5, <2>2 DEF ProberOK, Follows
  <2>3. QED
    BY <2>1, <2>2
<1>7. ASSUME ~overlapped PROVE Reported' /\ \A q \in Probers : AloneOK(q)'
  <2>1. Reported'
    BY <1>1, <1>2, <1>7 DEF Alone, Reported
  <2>2. \A q \in Probers : Measuring(q)' <=> Measuring(q)
    BY <1>5 DEF Measuring
  <2>3. \A q \in Probers : pc'[q] = "upsert" => base'[q] = last'
    BY <1>1, <1>2, <1>5, <1>7 DEF Alone, AloneOK
  <2>4. QED
    BY <1>1, <1>2, <1>7, <2>1, <2>2, <2>3 DEF Alone, AloneOK, Follows
<1>8. QED
  BY <1>2, <1>3, <1>4, <1>6, <1>7, Zenon DEF IInv, Alone

(* A prober that is past its delta keeps its measure or forgets it, and    *)
(* the others do not notice.                                               *)
Leaves(p) ==
    /\ pc' \in [Probers -> {"idle", "delta", "upsert", "store"}]
    /\ taken' \in [Probers -> Measure]
    /\ base' \in [Probers -> Measure \cup {None}]
    /\ pc'[p] \in {"idle", "store"}
    /\ taken'[p].count <= taken'[p].total
    /\ pc'[p] = "store" => taken'[p] = taken[p]
    /\ base'[p] \in {base[p], None}
    /\ \A q \in Probers \ {p} : pc'[q] = pc[q] /\ taken'[q] = taken[q] /\ base'[q] = base[q]

LEMMA FinishLeaves ==
  ASSUME IInv, NEW p \in Probers, Finish(p)
  PROVE  Leaves(p)
BY TypeFinish, ZeroIsMeasure DEF IInv, TypeOK, Finish, Leaves

LEMMA ContinueLeaves ==
  ASSUME IInv, NEW p \in Probers, Continue(p)
  PROVE  Leaves(p)
<1>1. CASE p = Collector
  BY <1>1, TypeContinue DEF IInv, TypeOK, ProberOK, Continue, Leaves
<1>2. CASE p # Collector
  BY <1>2, FinishLeaves DEF Continue
<1>3. QED
  BY <1>1, <1>2

(* If nothing else changes but the row and the reports, the probers are as *)
(* they should be.                                                         *)
LEMMA LeavesProbers ==
  ASSUME IInv, NEW p \in Probers, pc[p] # "idle", Leaves(p),
         count' = count, total' = total, boots' = boots,
         NEW q \in Probers
  PROVE  ProberOK(q)'
<1>1. ProberOK(q)
  BY DEF IInv
<1>2. CASE q = p
  <2>1. pc'[q] \in {"idle", "store"} /\ taken'[q].count <= taken'[q].total
        /\ base'[q] \in {base[q], None}
        /\ (pc'[q] = "store" => taken'[q] = taken[q])
    BY <1>2 DEF Leaves
  <2>2. QED
    BY <1>1, <1>2, <2>1 DEF ProberOK, Follows
<1>3. CASE q # p
  <2>1. pc'[q] = pc[q] /\ taken'[q] = taken[q] /\ base'[q] = base[q]
    BY <1>3 DEF Leaves
  <2>2. QED
    BY <1>1, <2>1 DEF ProberOK, Follows
<1>4. QED
  BY <1>2, <1>3

LEMMA UpsertKeeps ==
  ASSUME IInv, NEW p \in Probers, upsert_last_measure(p)
  PROVE  IInv'
<1>1. TypeOK /\ Numbers /\ LastOK /\ Alone /\ \A q \in Probers : ProberOK(q)
  BY DEF IInv
<1>2. /\ pc[p] = "upsert" /\ last' = taken[p] /\ Report(p) /\ Leaves(p)
      /\ now' = now /\ count' = count /\ total' = total /\ metrics' = metrics
      /\ boots' = boots /\ overlapped' = overlapped
  BY ContinueLeaves DEF upsert_last_measure, server
<1>3. TypeOK'
  <2>1. counted' \subseteq 1 .. MaxTotal /\ since' \in Totals /\ excess' \in BOOLEAN
    BY <1>1, <1>2, TypeReport
  <2>2. last' \in Measure \cup {None}
    BY <1>1, <1>2 DEF TypeOK
  <2>3. QED
    BY <1>1, <1>2, <2>1, <2>2, Zenon DEF TypeOK, Leaves
<1>4. Numbers'
  BY <1>1, <1>2, ReportNumbers DEF Numbers
<1>5. LastOK'
  BY <1>1, <1>2 DEF LastOK, ProberOK, Follows
<1>6. \A q \in Probers : ProberOK(q)'
  BY <1>2, LeavesProbers
<1>7. ASSUME ~overlapped PROVE Reported' /\ \A q \in Probers : AloneOK(q)'
  <2>1. ~excess' /\ counted' \subseteq 1 .. taken[p].total
        /\ since' + 1 .. taken[p].total \subseteq counted'
    BY <1>2, <1>7, ReportAlone
  <2>2. Reported'
    BY <1>2, <2>1 DEF Reported
  <2>3. \A q \in Probers : ~Measuring(q)' /\ pc'[q] # "upsert"
    BY <1>1, <1>2, <1>7 DEF Alone, AloneOK, Measuring, Leaves
  <2>4. QED
    BY <2>2, <2>3 DEF AloneOK
<1>8. QED
  BY <1>2, <1>3, <1>4, <1>5, <1>6, <1>7, Zenon DEF IInv, Alone

(* Steps of a prober that neither read the counter nor touch the row.      *)
LEMMA LeavesKeeps ==
  ASSUME IInv, NEW p \in Probers, pc[p] # "idle", Leaves(p),
         metrics' \subseteq [time : Times, delta : Totals \cup {None}],
         UNCHANGED <<server, last, boots, history, overlapped>>
  PROVE  IInv'
<1>1. TypeOK /\ Numbers /\ LastOK /\ Alone /\ \A q \in Probers : ProberOK(q)
  BY DEF IInv
<1>2. /\ now' = now /\ count' = count /\ total' = total /\ last' = last
      /\ counted' = counted /\ since' = since /\ excess' = excess
      /\ boots' = boots /\ overlapped' = overlapped
  BY DEF server, history
<1>3. TypeOK'
  BY <1>1, <1>2, Zenon DEF TypeOK, Leaves
<1>4. Numbers' /\ LastOK'
  BY <1>1, <1>2 DEF Numbers, LastOK, Follows
<1>5. \A q \in Probers : ProberOK(q)'
  BY <1>2, LeavesProbers
<1>6. ASSUME ~overlapped PROVE Reported' /\ \A q \in Probers : AloneOK(q)'
  <2>1. Reported'
    BY <1>1, <1>2, <1>6 DEF Alone, Reported
  <2>2. ~Measuring(p)' /\ pc'[p] # "upsert"
    BY DEF Leaves, Measuring
  <2>3. \A q \in Probers \ {p} :
           pc'[q] = pc[q] /\ taken'[q] = taken[q] /\ base'[q] = base[q]
    BY DEF Leaves
  <2>4. ASSUME NEW q \in Probers PROVE AloneOK(q)'
    <3>1. CASE q = p
      BY <2>2, <3>1 DEF AloneOK
    <3>2. CASE q # p
      BY <1>1, <1>2, <1>6, <2>2, <2>3, <3>2 DEF Alone, AloneOK, Measuring, Follows
    <3>3. QED
      BY <3>1, <3>2
  <2>5. QED
    BY <2>1, <2>4
<1>7. Alone'
  <2>1. ~overlapped' => ~overlapped
    BY <1>1, <1>2 DEF TypeOK
  <2>2. ~overlapped' => Reported'
    BY <1>6, <2>1
  <2>3. ~overlapped' => \A q \in Probers : AloneOK(q)'
    BY <1>6, <2>1
  <2>4. QED
    BY <2>2, <2>3, Zenon DEF Alone
<1>8. QED
  BY <1>3, <1>4, <1>5, <1>7, Zenon DEF IInv

LEMMA SkipKeeps ==
  ASSUME IInv, NEW p \in Probers, skip(p)
  PROVE  IInv'
<1>1. Leaves(p)
  <2>1. CASE p = Collector
    BY <2>1 DEF IInv, TypeOK, ProberOK, skip, Leaves
  <2>2. CASE p # Collector
    BY <2>2, FinishLeaves DEF skip
  <2>3. QED
    BY <2>1, <2>2
<1>2. pc[p] # "idle"
  BY DEF skip
<1>3. metrics' \subseteq [time : Times, delta : Totals \cup {None}]
  BY DEF skip, IInv, TypeOK
<1>4. QED
  BY <1>1, <1>2, <1>3, LeavesKeeps DEF skip

LEMMA AddMetricKeeps ==
  ASSUME IInv, add_metric
  PROVE  IInv'
<1>1. Collector \in Probers
  BY DEF Probers
<1>2. Leaves(Collector) /\ pc[Collector] # "idle"
  BY <1>1, FinishLeaves DEF add_metric
<1>3. metrics' \subseteq [time : Times, delta : Totals \cup {None}]
  <2>1. delta(base[Collector], taken[Collector]) \in Totals \cup {None}
    BY <1>1, DeltaType DEF IInv, TypeOK
  <2>2. QED
    BY <2>1 DEF add_metric, IInv, TypeOK
<1>4. UNCHANGED <<server, last, boots, history, overlapped>>
  BY Zenon DEF add_metric
<1>5. QED
  BY <1>1, <1>2, <1>3, <1>4, LeavesKeeps, Zenon

(* After a restart there is no row: whatever measures come are not         *)
(* compared with those before it.                                          *)
LEMMA BootstrapKeeps ==
  ASSUME IInv, bootstrap
  PROVE  IInv'
<1>1. TypeOK /\ Numbers /\ Alone
  BY DEF IInv
<1>2. /\ last' = None /\ now' = now /\ count' = count /\ total' = total /\ metrics' = metrics
      /\ counted' = counted /\ since' = since /\ excess' = excess /\ overlapped' = overlapped
      /\ pc' = [p \in Probers |-> "idle"]
      /\ taken' = [p \in Probers |-> ZeroMeasure]
      /\ base' = [p \in Probers |-> None]
  BY DEF bootstrap, server, history
<1>3. boots' \in 1 .. MaxBoots
  BY <1>1, NumberAssumption DEF bootstrap, TypeOK
<1>4. TypeOK'
  <2>1. pc' \in [Probers -> {"idle", "delta", "upsert", "store"}]
        /\ taken' \in [Probers -> Measure] /\ base' \in [Probers -> Measure \cup {None}]
    BY <1>2, ZeroIsMeasure
  <2>2. QED
    BY <1>1, <1>2, <1>3, <2>1, Zenon DEF TypeOK
<1>5. Numbers' /\ LastOK'
  BY <1>1, <1>2 DEF Numbers, LastOK
<1>6. ASSUME NEW q \in Probers PROVE ProberOK(q)' /\ AloneOK(q)'
  BY <1>2, ZeroIsMeasure DEF ProberOK, AloneOK, Measuring
<1>7. ASSUME ~overlapped PROVE Reported'
  BY <1>1, <1>2, <1>7 DEF Alone, Reported
<1>8. QED
  BY <1>2, <1>4, <1>5, <1>6, <1>7, Zenon DEF IInv, Alone

(* The server counts an event, or the counter is reset: a measure made     *)
(* before is still one it can follow.                                      *)
LEMMA CounterKeeps ==
  ASSUME IInv, Count \/ Zero
  PROVE  IInv'
<1>1. TypeOK /\ Numbers /\ LastOK /\ Alone /\ \A q \in Probers : ProberOK(q)
  BY DEF IInv
<1>2. /\ now' = now /\ last' = last /\ metrics' = metrics /\ pc' = pc /\ taken' = taken
      /\ base' = base /\ boots' = boots /\ overlapped' = overlapped
      /\ counted' = counted /\ since' = since /\ excess' = excess
  BY DEF Count, Zero, history
<1>3. count \in Nat /\ total \in Nat /\ count <= total
  BY <1>1, NumberAssumption DEF TypeOK, Numbers, Totals
<1>4. \/ count' = count + 1 /\ total' = total + 1
      \/ count' = 0 /\ total' = total
  BY DEF Count, Zero
<1>5. count' \in Totals /\ total' \in Totals
  BY <1>1, <1>3, NumberAssumption DEF Count, Zero, TypeOK, Totals
<1>6. TypeOK'
  BY <1>1, <1>2, <1>5, Zenon DEF TypeOK
<1>7. Numbers'
  <2>1. 1 .. total \subseteq 1 .. total'
    BY <1>3, <1>4
  <2>2. count' <= total'
    BY <1>3, <1>4
  <2>3. QED
    BY <1>1, <1>2, <2>1, <2>2, Zenon DEF Numbers
<1>8. ASSUME NEW from \in Measure, Follows(from, count, total)
      PROVE  Follows(from, count', total')
  BY <1>3, <1>4, <1>8, FollowsCount
<1>9. LastOK'
  BY <1>1, <1>2, <1>8 DEF LastOK, TypeOK
<1>10. ASSUME NEW q \in Probers PROVE ProberOK(q)'
  <2>1. taken[q] \in Measure
    BY <1>1 DEF TypeOK
  <2>2. QED
    BY <1>1, <1>2, <1>8, <2>1 DEF ProberOK
<1>11. Alone'
  BY <1>1, <1>2, Zenon DEF Alone, Reported, AloneOK, Measuring
<1>12. QED
  BY <1>6, <1>7, <1>9, <1>10, <1>11, Zenon DEF IInv

LEMMA QuietKeeps ==
  ASSUME IInv, UNCHANGED vars \/ Tick
  PROVE  IInv'
<1>1. TypeOK /\ Numbers /\ LastOK /\ Alone /\ \A q \in Probers : ProberOK(q)
  BY DEF IInv
<1>2. /\ count' = count /\ total' = total /\ last' = last /\ metrics' = metrics /\ pc' = pc
      /\ taken' = taken /\ base' = base /\ boots' = boots /\ overlapped' = overlapped
      /\ counted' = counted /\ since' = since /\ excess' = excess
  BY DEF Tick, vars, server, history
<1>3. now' \in Times
  BY <1>1, NumberAssumption DEF Tick, vars, server, TypeOK, Times
<1>4. TypeOK'
  BY <1>1, <1>2, <1>3, Zenon DEF TypeOK
<1>5. Numbers' /\ LastOK' /\ \A q \in Probers : ProberOK(q)'
  BY <1>1, <1>2 DEF Numbers, LastOK, ProberOK, Follows
<1>6. Alone'
  BY <1>1, <1>2, Zenon DEF Alone, Reported, AloneOK, Measuring, Follows
<1>7. QED
  BY <1>4, <1>5, <1>6, Zenon DEF IInv

LEMMA StepKeeps == IInv /\ [Next]_vars => IInv'
<1> SUFFICES ASSUME IInv, [Next]_vars PROVE IInv'
  OBVIOUS
<1>1. ASSUME NEW p \in Probers, Probe(p) PROVE IInv'
  BY <1>1, RunKeeps, GetLastMeasureKeeps, UpsertKeeps, SkipKeeps, Zenon DEF Probe
<1>2. CASE add_metric
  BY <1>2, AddMetricKeeps, Zenon
<1>3. CASE bootstrap
  BY <1>3, BootstrapKeeps, Zenon
<1>4. CASE Count \/ Zero
  BY <1>4, CounterKeeps, Zenon
<1>5. CASE UNCHANGED vars \/ Tick
  BY <1>5, QuietKeeps, Zenon
<1>6. QED
  BY <1>1, <1>2, <1>3, <1>4, <1>5, Zenon DEF Next

LEMMA Inductive == Spec => []IInv
<1>1. QED
  BY InitHolds, StepKeeps, PTL DEF Spec

-----------------------------------------------------------------------------
(* Every variable has its type: the events reported are some that there    *)
(* were, which rests on no counter being above its events.                 *)
THEOREM TypeCorrect == Spec => []TypeOK
<1>1. IInv => TypeOK
  BY DEF IInv
<1>2. QED
  BY <1>1, Inductive, PTL

(* monitoring/probes.py:235-285: the collector and any number of HTTP      *)
(* threads that probe one after the other report no event twice, and none  *)
(* that did not happen since the measure before.                           *)
THEOREM CountedOnceHolds == Spec => []CountedOnce
<1>1. IInv => CountedOnce
  BY Zenon DEF IInv, Alone, Reported, CountedOnce
<1>2. QED
  BY <1>1, Inductive, PTL

(* Nor do they miss one between the first of a row of measures that deltas *)
(* follow and the last, whatever probe or collect fails.                   *)
THEOREM CountedAllHolds == Spec => []CountedAll
<1>1. IInv => CountedAll
  BY Zenon DEF IInv, Alone, Reported, CountedAll
<1>2. QED
  BY <1>1, Inductive, PTL

(* monitoring/db.py:16: no delta is made of measures of two starts         *)
(* of the agent, with probers that overlap as well.                        *)
THEOREM FreshBaseHolds == Spec => []FreshBase
<1>1. IInv => FreshBase
  BY DEF IInv, ProberOK, FreshBase
<1>2. QED
  BY <1>1, Inductive, PTL

-----------------------------------------------------------------------------
(* The history a client pulls.  The records of the table have a time each  *)
(* of their own.                                                           *)
Table(records) ==
    /\ IsFiniteSet(records)
    /\ \A record \in records : record.time \in Nat
    /\ \A one, other \in records : one.time = other.time => one = other

Earlier(records, record) == {other \in records : other.time < record.time}

(* What the table has from start on comes oldest first: no more than the   *)
(* limit, as many as the limit if any is left for another request, and     *)
(* nothing that is left is as old as what is given.                        *)
Pages(start, limit) ==
    LET given == get_metrics(start, limit)
        left == From(start) \ given IN
    /\ Cardinality(given) <= limit
    /\ left # {} => Cardinality(given) = limit
    /\ \A record \in given, later \in left : record.time < later.time

LEMMA EarlierFinite ==
  ASSUME NEW records, Table(records), NEW record
  PROVE  /\ Earlier(records, record) \in SUBSET records
         /\ IsFiniteSet(Earlier(records, record))
         /\ Cardinality(Earlier(records, record)) \in Nat
<1>1. Earlier(records, record) \in SUBSET records
  BY DEF Earlier
<1>2. IsFiniteSet(Earlier(records, record))
  BY <1>1, FS_Subset DEF Table
<1>3. QED
  BY <1>1, <1>2, FS_CardinalityType

(* The records with fewer than `limit` others before them are at most that *)
(* many: the latest of them is preceded by the rest.                       *)
LEMMA FirstOnes ==
  ASSUME NEW records, Table(records), NEW limit \in Nat \ {0}
  PROVE  LET given == {record \in records : Cardinality(Earlier(records, record)) < limit}
             left == records \ given IN
         /\ Cardinality(given) <= limit
         /\ left # {} => Cardinality(given) = limit
         /\ \A record \in given, later \in left : record.time < later.time
<1> DEFINE before(record) == Earlier(records, record)
           given == {record \in records : Cardinality(before(record)) < limit}
           left == records \ given
<1>1. IsFiniteSet(given) /\ Cardinality(given) \in Nat
  <2>1. given \in SUBSET records
    OBVIOUS
  <2>2. IsFiniteSet(given)
    BY <2>1, FS_Subset DEF Table
  <2>3. QED
    BY <2>2, FS_CardinalityType
<1>2. ASSUME NEW record \in given, NEW later \in left, ~(record.time < later.time)
      PROVE  FALSE
  <2>1. record.time \in Nat /\ later.time \in Nat
    BY DEF Table
  <2>2. before(later) \subseteq before(record)
    <3>1. ASSUME NEW other \in before(later) PROVE other \in before(record)
      BY <1>2, <2>1, <3>1 DEF Earlier, Table
    <3>2. QED
      BY <3>1
  <2>3. Cardinality(before(later)) <= Cardinality(before(record))
    BY <2>2, EarlierFinite, FS_Subset
  <2>4. Cardinality(before(later)) \in Nat /\ Cardinality(before(record)) \in Nat
    BY EarlierFinite
  <2>5. Cardinality(before(record)) < limit /\ ~(Cardinality(before(later)) < limit)
    OBVIOUS
  <2>6. QED
    BY <2>3, <2>4, <2>5
<1>3. Cardinality(given) <= limit
  <2>1. CASE given = {}
    BY <2>1, FS_EmptySet
  <2>2. CASE given # {}
    <3>1. IsTable(records)
      BY DEF Table, IsTable
    <3>2. PICK last_one \in given : \A other \in given : ~(other.time > last_one.time)
      <4>1. given \in SUBSET records
        OBVIOUS
      <4> HIDE DEF given
      <4>2. QED
        BY <2>2, <3>1, <4>1, LatestExists
    <3>3. given \subseteq before(last_one) \cup {last_one}
      <4>1. ASSUME NEW other \in given, other # last_one PROVE other \in before(last_one)
        <5>1. other.time \in Nat /\ last_one.time \in Nat /\ other.time # last_one.time
          BY <4>1 DEF Table
        <5>2. other.time < last_one.time
          BY <3>2, <5>1
        <5>3. QED
          BY <5>2 DEF Earlier
      <4>2. QED
        BY <4>1
    <3>4. IsFiniteSet(before(last_one) \cup {last_one})
          /\ Cardinality(before(last_one) \cup {last_one}) = Cardinality(before(last_one)) + 1
      <4>1. last_one.time \in Nat
        BY DEF Table
      <4>2. last_one \notin before(last_one)
        BY <4>1 DEF Earlier
      <4>3. QED
        BY <4>2, EarlierFinite, FS_AddElement
    <3>5. Cardinality(given) <= Cardinality(before(last_one)) + 1
      BY <3>3, <3>4, FS_Subset
    <3>6. Cardinality(before(last_one)) \in Nat /\ Cardinality(before(last_one)) < limit
      BY EarlierFinite
    <3>7. QED
      BY <1>1, <3>5, <3>6
  <2>3. QED
    BY <2>1, <2>2
<1>4. ASSUME left # {} PROVE Cardinality(given) = limit
  <2> DEFINE times == {record.time : record \in left}
  <2>1. PICK first \in left : \A other \in left : first.time <= other.time
    <3>1. times \in SUBSET Nat /\ times # {}
      BY <1>4 DEF Table
    <3>2. PICK time \in times : \A other \in times : time <= other
      BY <3>1, LeastExists
    <3>3. QED
      BY <3>2
  <2>2. before(first) \subseteq given
    <3>1. ASSUME NEW other \in before(first) PROVE other \in given
      <4>1. other \in records /\ other.time \in Nat /\ first.time \in Nat
            /\ other.time < first.time
        BY <3>1 DEF Earlier, Table
      <4>2. other \notin left
        BY <2>1, <4>1
      <4>3. QED
        BY <4>1, <4>2
    <3>2. QED
      BY <3>1
  <2>3. Cardinality(before(first)) <= Cardinality(given)
    BY <1>1, <2>2, FS_Subset
  <2>4. Cardinality(before(first)) \in Nat /\ ~(Cardinality(before(first)) < limit)
    BY EarlierFinite
  <2>5. QED
    BY <1>1, <1>3, <2>3, <2>4
<1>5. QED
  BY <1>2, <1>3, <1>4

(* The table refuses a second record of a time (monitoring/db.py:38).      *)
LEMMA TableInv == Spec => []Table(metrics)
<1>1. Init => Table(metrics)
  BY FS_EmptySet DEF Init, Table
<1>2. ASSUME TypeOK, Table(metrics), [Next]_vars
      PROVE  Table(metrics)'
  <2>1. CASE add_metric /\ metrics' # metrics
    <3> DEFINE record == [time |-> now, delta |-> delta(base[Collector], taken[Collector])]
               all == metrics \cup {record}
    <3>1. /\ \A other \in metrics : other.time # now
          /\ metrics' = {other \in all : other.time >= now - Keep}
      BY <2>1 DEF add_metric
    <3>2. record.time = now /\ now \in Nat
      BY <1>2 DEF TypeOK, Times
    <3>3. IsFiniteSet(all)
      BY <1>2, FS_AddElement DEF Table
    <3> HIDE DEF record
    <3>4. Table(all)
      BY <1>2, <3>1, <3>2, <3>3 DEF Table
    <3>5. metrics' \in SUBSET all
      BY <3>1
    <3>6. IsFiniteSet(metrics')
      BY <3>3, <3>5, FS_Subset
    <3>7. QED
      BY <3>4, <3>5, <3>6 DEF Table
  <2>2. CASE metrics' = metrics
    BY <1>2, <2>2 DEF Table
  <2>3. add_metric \/ metrics' = metrics
    BY <1>2 DEF Next, Probe, run, get_last_measure, upsert_last_measure, skip, bootstrap, Count,
                Zero, Tick, vars, server, history
  <2>4. QED
    BY <2>1, <2>2, <2>3
<1>3. QED
  BY <1>1, <1>2, TypeCorrect, PTL DEF Spec

(* monitoring/db.py:69-91: a client of /monitoring/history that asks for   *)
(* records from a date on, a few at a time, gets the oldest of them; none  *)
(* is left behind by what it gets, and it has them all when it gets fewer  *)
(* than it asked for.  A limit of 0, taken for none, is the exception      *)
(* (monitoring/db.py:83).                                                  *)
THEOREM HistoryPages == Spec => [](\A start \in Times, limit \in Nat \ {0} : Pages(start, limit))
<1>1. Table(metrics) => \A start \in Times, limit \in Nat \ {0} : Pages(start, limit)
  <2> SUFFICES ASSUME Table(metrics), NEW start \in Times, NEW limit \in Nat \ {0}
               PROVE  Pages(start, limit)
    OBVIOUS
  <2>1. From(start) \in SUBSET metrics
    BY DEF From, LatestRecords
  <2>2. Table(From(start))
    BY <2>1, FS_Subset DEF Table
  <2>3. get_metrics(start, limit) =
            {record \in From(start) : Cardinality(Earlier(From(start), record)) < limit}
    BY DEF get_metrics, Earlier
  <2> DEFINE records == From(start)
             given == {record \in records : Cardinality(Earlier(records, record)) < limit}
             left == records \ given
  <2>4. /\ Cardinality(given) <= limit
        /\ left # {} => Cardinality(given) = limit
        /\ \A record \in given, later \in left : record.time < later.time
    BY <2>2, FirstOnes
  <2>5. get_metrics(start, limit) = given /\ From(start) \ given = left
    BY <2>3
  <2> HIDE DEF records, given, left
  <2>6. QED
    BY <2>4, <2>5 DEF Pages
<1>2. QED
  BY <1>1, TableInv, PTL

-----------------------------------------------------------------------------
(* The probes of a collect.  What load_probes and run_probes make of any   *)
(* list: the functions they are defined by exist, and hold at each probe   *)
(* what the probes up to it have made.                                     *)
Has(list, n) == {list[j] : j \in 1 .. n}

LEMMA HasOneMore ==
  ASSUME NEW list, NEW k \in Nat, k # 0
  PROVE  Has(list, k) = Has(list, k - 1) \cup {list[k]}
<1>1. 1 .. k = (1 .. k - 1) \cup {k}
  OBVIOUS
<1>2. QED
  BY <1>1 DEF Has

Chosen(p, options) == "*" \in options \/ p.name \in options

Loads(f, options, n) ==
    f = [k \in 0 .. n |->
            IF k = 0 THEN <<>>
            ELSE IF "*" \in options \/ AllProbes[k].name \in options
                 THEN Append(f[k - 1], AllProbes[k]) ELSE f[k - 1]]

LEMMA LoadsExists == ASSUME NEW options, NEW n \in Nat PROVE \E f : Loads(f, options, n)
<1> DEFINE T == {m \in Nat : ~ \E f : Loads(f, options, m)}
<1>1. SUFFICES ASSUME T # {} PROVE FALSE
  OBVIOUS
<1>2. PICK m \in T : \A k \in T : m <= k
  BY <1>1, LeastExists
<1>3. CASE m = 0
  <2>1. Loads([k \in 0 .. 0 |-> <<>>], options, 0)
    BY DEF Loads
  <2>2. QED
    BY <1>3, <2>1
<1>4. CASE m # 0
  <2>1. m - 1 \in Nat /\ m - 1 \notin T
    BY <1>2, <1>4
  <2>2. PICK f : Loads(f, options, m - 1)
    BY <2>1
  <2> DEFINE next == IF "*" \in options \/ AllProbes[m].name \in options
                     THEN Append(f[m - 1], AllProbes[m]) ELSE f[m - 1]
             g == [k \in 0 .. m |-> IF k = m THEN next ELSE f[k]]
  <2>3. Loads(g, options, m)
    <3>1. ASSUME NEW k \in 0 .. m
          PROVE  g[k] = IF k = 0 THEN <<>>
                        ELSE IF "*" \in options \/ AllProbes[k].name \in options
                             THEN Append(g[k - 1], AllProbes[k]) ELSE g[k - 1]
      <4>1. CASE k = m
        <5>1. g[k] = next /\ g[k - 1] = f[k - 1] /\ k # 0
          BY <1>4, <2>1, <4>1
        <5>2. QED
          BY <4>1, <5>1
      <4>2. CASE k = 0
        BY <1>4, <2>1, <2>2, <4>2 DEF Loads
      <4>3. CASE k # m /\ k # 0
        <5>1. k \in 0 .. m - 1 /\ k - 1 \in 0 .. m - 1
          BY <4>3
        <5>2. g[k] = f[k] /\ g[k - 1] = f[k - 1]
          BY <4>3, <5>1
        <5>3. f[k] = IF "*" \in options \/ AllProbes[k].name \in options
                     THEN Append(f[k - 1], AllProbes[k]) ELSE f[k - 1]
          BY <2>2, <4>3, <5>1 DEF Loads
        <5>4. QED
          BY <4>3, <5>2, <5>3
      <4>4. QED
        BY <4>1, <4>2, <4>3
    <3> HIDE DEF g
    <3>2. g = [k \in 0 .. m |-> g[k]]
      BY DEF g
    <3>3. QED
      BY <3>1, <3>2 DEF Loads
  <2>4. QED
    BY <2>3
<1>5. QED
  BY <1>3, <1>4

LEMMA Eighteen == Len(AllProbes) = 18
  BY DEF AllProbes

(* What is loaded is a list of the probes that are chosen. *)
LEMMA LoadedIs ==
  ASSUME NEW options
  PROVE  /\ Len(load_probes(options)) \in Nat
         /\ Has(load_probes(options), Len(load_probes(options))) =
                {p \in Has(AllProbes, 18) : Chosen(p, options)}
<1> DEFINE h == CHOOSE f : Loads(f, options, 18)
<1>1. Loads(h, options, 18)
  BY LoadsExists
<1>2. load_probes(options) = h[18]
  BY Eighteen DEF load_probes, Loads
<1> DEFINE P == Has(AllProbes, 18)
           Right(k) == /\ h[k] \in Seq(P)
                       /\ Has(h[k], Len(h[k])) = {p \in Has(AllProbes, k) : Chosen(p, options)}
           T == {k \in 0 .. 18 : ~Right(k)}
<1> HIDE DEF h
<1>3. T = {}
  <2>1. SUFFICES ASSUME T # {} PROVE FALSE
    OBVIOUS
  <2>2. PICK k \in T : \A j \in T : k <= j
    <3>1. T \in SUBSET Nat
      OBVIOUS
    <3> HIDE DEF T
    <3>2. QED
      BY <2>1, <3>1, LeastExists
  <2>3. k # 0
    <3>1. h[0] = <<>>
      BY <1>1 DEF Loads
    <3>2. Right(0)
      BY <3>1 DEF Has
    <3>3. QED
      BY <2>2, <3>2
  <2>4. k - 1 \in 0 .. 18 /\ Right(k - 1)
    BY <2>2, <2>3
  <2> DEFINE before == h[k - 1]
             probe == AllProbes[k]
  <2>5. h[k] = IF Chosen(probe, options) THEN Append(before, probe) ELSE before
    BY <1>1, <2>2, <2>3 DEF Loads, Chosen
  <2>6. probe \in P /\ Has(AllProbes, k) = Has(AllProbes, k - 1) \cup {probe}
    <3>1. k \in 1 .. 18
      BY <2>2, <2>3
    <3>2. probe \in P
      BY <3>1 DEF Has
    <3>3. Has(AllProbes, k) = Has(AllProbes, k - 1) \cup {AllProbes[k]}
      BY <3>1, HasOneMore
    <3>4. QED
      BY <3>2, <3>3
  <2>7. before \in Seq(P)
        /\ Has(before, Len(before)) = {p \in Has(AllProbes, k - 1) : Chosen(p, options)}
    BY <2>4
  <2> HIDE DEF P, before, probe
  <2>8. Append(before, probe) \in Seq(P)
        /\ Has(Append(before, probe), Len(Append(before, probe))) =
               Has(before, Len(before)) \cup {probe}
    <3>1. Len(before) \in Nat /\ Len(Append(before, probe)) = Len(before) + 1
      BY <2>7
    <3>2. /\ \A j \in 1 .. Len(before) : Append(before, probe)[j] = before[j]
          /\ Append(before, probe)[Len(before) + 1] = probe
      BY <2>7
    <3>3. QED
      BY <2>6, <2>7, <3>1, <3>2 DEF Has
  <2>9. Right(k)
    BY <2>5, <2>6, <2>7, <2>8
  <2>10. QED
    BY <2>2, <2>9
<1>4. Right(18)
  BY <1>3
<1>5. QED
  BY <1>2, <1>4

-----------------------------------------------------------------------------
(* What ends a collect, and what one probe adds to it. *)
Ends(p, s) == check(p, s) /\ p.level # "host" /\ Raises(p, s)
Kept(p, s) == check(p, s) /\ ~Raises(p, s)
Lost(probes, s) == MainDatabase \in s.refusing \/ \E p \in probes : Ends(p, s)
Made(probes, s) == {Entry(p, s) : p \in {q \in probes : Kept(q, s)}}
Outcome(probes, s) ==
    IF Lost(probes, s) THEN [lost |-> TRUE, output |-> {}]
    ELSE [lost |-> FALSE, output |-> Made(probes, s)]

Runs(f, probes, s, n) ==
    f = [k \in 0 .. n |->
            IF k = 0 THEN [lost |-> MainDatabase \in s.refusing, output |-> {}]
            ELSE AfterProbe(f[k - 1], probes[k], s)]

LEMMA RunsExists ==
  ASSUME NEW probes, NEW s, NEW n \in Nat
  PROVE  \E f : Runs(f, probes, s, n)
<1> DEFINE T == {m \in Nat : ~ \E f : Runs(f, probes, s, m)}
           first == [lost |-> MainDatabase \in s.refusing, output |-> {}]
<1>1. SUFFICES ASSUME T # {} PROVE FALSE
  OBVIOUS
<1>2. PICK m \in T : \A k \in T : m <= k
  BY <1>1, LeastExists
<1>3. CASE m = 0
  <2>1. Runs([k \in 0 .. 0 |-> first], probes, s, 0)
    BY DEF Runs
  <2>2. QED
    BY <1>3, <2>1
<1>4. CASE m # 0
  <2>1. m - 1 \in Nat /\ m - 1 \notin T
    BY <1>2, <1>4
  <2>2. PICK f : Runs(f, probes, s, m - 1)
    BY <2>1
  <2> DEFINE next == AfterProbe(f[m - 1], probes[m], s)
             g == [k \in 0 .. m |-> IF k = m THEN next ELSE f[k]]
  <2>3. Runs(g, probes, s, m)
    <3>1. ASSUME NEW k \in 0 .. m
          PROVE  g[k] = IF k = 0 THEN first ELSE AfterProbe(g[k - 1], probes[k], s)
      <4> HIDE DEF first
      <4>1. CASE k = m
        <5>1. g[k] = next /\ g[k - 1] = f[k - 1] /\ k # 0
          BY <1>4, <2>1, <4>1
        <5>2. QED
          BY <4>1, <5>1
      <4>2. CASE k = 0
        <5>1. g[0] = f[0] /\ 0 \in 0 .. m - 1
          BY <1>4, <2>1
        <5>2. f[0] = first
          BY <2>2, <5>1 DEF Runs, first
        <5>3. QED
          BY <4>2, <5>1, <5>2
      <4>3. CASE k # m /\ k # 0
        <5>1. k \in 0 .. m - 1 /\ k - 1 \in 0 .. m - 1
          BY <4>3
        <5>2. g[k] = f[k] /\ g[k - 1] = f[k - 1]
          BY <4>3, <5>1
        <5>3. f[k] = AfterProbe(f[k - 1], probes[k], s)
          BY <2>2, <4>3, <5>1 DEF Runs
        <5>4. QED
          BY <4>3, <5>2, <5>3
      <4>4. QED
        BY <4>1, <4>2, <4>3
    <3> HIDE DEF g
    <3>2. g = [k \in 0 .. m |-> g[k]]
      BY DEF g
    <3>3. QED
      BY <3>1, <3>2 DEF Runs
  <2>4. QED
    BY <2>3
<1>5. QED
  BY <1>3, <1>4

LEMMA AddEntry ==
  ASSUME NEW made, NEW entry, NEW out, out = [lost |-> FALSE, output |-> made]
  PROVE  [out EXCEPT !.output = @ \cup {entry}] = [lost |-> FALSE, output |-> made \cup {entry}]
<1>1. \A no, more : [[lost |-> no, output |-> made] EXCEPT !.output = more] =
                    [lost |-> no, output |-> more]
  OBVIOUS
<1>2. out.output = made
  OBVIOUS
<1>3. QED
  BY <1>1, <1>2

LEMMA AfterOne ==
  ASSUME NEW before, NEW p, NEW s
  PROVE  AfterProbe(Outcome(before, s), p, s) = Outcome(before \cup {p}, s)
<1> DEFINE out == Outcome(before, s)
<1>1. CASE Lost(before, s)
  <2>1. out = [lost |-> TRUE, output |-> {}]
    BY <1>1 DEF Outcome
  <2>2. out.lost
    BY <2>1
  <2>3. AfterProbe(out, p, s) = out
    BY <2>2 DEF AfterProbe
  <2>4. Lost(before \cup {p}, s)
    BY <1>1 DEF Lost
  <2>5. QED
    BY <2>1, <2>3, <2>4 DEF Outcome
<1>2. CASE ~Lost(before, s)
  <2>1. out = [lost |-> FALSE, output |-> Made(before, s)]
    BY <1>2 DEF Outcome
  <2>2. ~out.lost /\ out.output = Made(before, s)
    BY <2>1
  <2>3. CASE Ends(p, s)
    <3>1. AfterProbe(out, p, s) = [lost |-> TRUE, output |-> {}]
      BY <2>2, <2>3 DEF AfterProbe, Ends
    <3>2. Lost(before \cup {p}, s)
      BY <2>3 DEF Lost
    <3>3. QED
      BY <3>1, <3>2 DEF Outcome
  <2>4. CASE ~Ends(p, s) /\ ~Kept(p, s)
    <3>1. AfterProbe(out, p, s) = out
      BY <2>4 DEF AfterProbe, Ends, Kept
    <3>2. ~Lost(before \cup {p}, s)
      BY <1>2, <2>4 DEF Lost
    <3>3. Made(before \cup {p}, s) = Made(before, s)
      BY <2>4 DEF Made
    <3>4. QED
      BY <2>1, <3>1, <3>2, <3>3 DEF Outcome
  <2>5. CASE ~Ends(p, s) /\ Kept(p, s)
    <3>1. AfterProbe(out, p, s) = [out EXCEPT !.output = @ \cup {Entry(p, s)}]
      BY <2>2, <2>5 DEF AfterProbe, Kept
    <3>2. ~Lost(before \cup {p}, s)
      BY <1>2, <2>5 DEF Lost
    <3>3. Made(before \cup {p}, s) = Made(before, s) \cup {Entry(p, s)}
      BY <2>5 DEF Made
    <3>4. [out EXCEPT !.output = @ \cup {Entry(p, s)}] =
          [lost |-> FALSE, output |-> Made(before, s) \cup {Entry(p, s)}]
      BY <2>1, AddEntry
    <3>5. Outcome(before \cup {p}, s) =
          [lost |-> FALSE, output |-> Made(before, s) \cup {Entry(p, s)}]
      BY <3>2, <3>3 DEF Outcome
    <3>6. QED
      BY <3>1, <3>4, <3>5
  <2>6. QED
    BY <2>3, <2>4, <2>5
<1>3. QED
  BY <1>1, <1>2

(* What a run makes of a list of probes: a set's worth, whatever their order. *)
LEMMA RunIs ==
  ASSUME NEW probes, NEW s, Len(probes) \in Nat
  PROVE  run_probes(probes, s) = Outcome(Has(probes, Len(probes)), s)
<1> DEFINE n == Len(probes)
           h == CHOOSE f : Runs(f, probes, s, n)
<1>1. Runs(h, probes, s, n)
  BY RunsExists
<1>2. run_probes(probes, s) = h[n]
  BY DEF run_probes, Runs
<1> HIDE DEF h
<1> DEFINE Right(k) == h[k] = Outcome(Has(probes, k), s)
           T == {k \in 0 .. n : ~Right(k)}
<1>3. T = {}
  <2>1. SUFFICES ASSUME T # {} PROVE FALSE
    OBVIOUS
  <2>2. PICK k \in T : \A j \in T : k <= j
    <3>1. T \in SUBSET Nat
      OBVIOUS
    <3> HIDE DEF T
    <3>2. QED
      BY <2>1, <3>1, LeastExists
  <2>3. k # 0
    <3>1. h[0] = [lost |-> MainDatabase \in s.refusing, output |-> {}]
      BY <1>1 DEF Runs
    <3>2. Has(probes, 0) = {}
      BY DEF Has
    <3>3. Lost({}, s) <=> MainDatabase \in s.refusing
      BY DEF Lost
    <3>4. Made({}, s) = {}
      BY DEF Made
    <3>5. Outcome({}, s) = [lost |-> MainDatabase \in s.refusing, output |-> {}]
      <4>1. CASE MainDatabase \in s.refusing
        <5>1. (MainDatabase \in s.refusing) = TRUE
          BY <4>1
        <5>2. QED
          BY <3>3, <5>1 DEF Outcome
      <4>2. CASE MainDatabase \notin s.refusing
        <5>1. (MainDatabase \in s.refusing) = FALSE
          BY <4>2
        <5>2. QED
          BY <3>3, <3>4, <5>1 DEF Outcome
      <4>3. QED
        BY <4>1, <4>2
    <3>6. Right(0)
      BY <3>1, <3>2, <3>5
    <3>7. QED
      BY <2>2, <3>6
  <2>4. k - 1 \in 0 .. n /\ k - 1 \notin T
    BY <2>2, <2>3
  <2>5. Right(k - 1)
    BY <2>4
  <2>6. h[k] = AfterProbe(h[k - 1], probes[k], s)
    <3>1. k \in 0 .. n
      BY <2>2
    <3>2. QED
      BY <1>1, <2>3, <3>1 DEF Runs
  <2>7. Has(probes, k) = Has(probes, k - 1) \cup {probes[k]}
    BY <2>2, <2>3, HasOneMore
  <2>8. Right(k)
    BY <2>5, <2>6, <2>7, AfterOne
  <2>9. QED
    BY <2>2, <2>8
<1>4. Right(n)
  BY <1>3
<1>5. QED
  BY <1>2, <1>4

(* Any host and server whose main database answers, with no probe failing. *)
AnySituation(names) ==
    [linux : BOOLEAN, available : BOOLEAN, version : {v \in Int : v >= 80200},
     standby : BOOLEAN, databases : SUBSET names, configured : SUBSET names,
     refusing : {r \in SUBSET names : MainDatabase \notin r}, failing : {{}},
     first : BOOLEAN, delta : BOOLEAN]

Collected == Has(AllProbes, 18)

(* An error of its own is caught where the probe is run, or in it, but for *)
(* one. *)
Guarded(p) == p.level = "host" \/ p.catches

LEMMA HostIs ==
  ASSUME NEW name, NEW differential, name # "*"
  PROVE  Host(name, differential).name # "*" /\ Guarded(Host(name, differential))
BY DEF Host, Guarded

LEMMA SqlIs ==
  ASSUME NEW name, NEW level, NEW version, NEW differential, name # "*"
  PROVE  /\ Sql(name, level, version, differential).name # "*"
         /\ Guarded(Sql(name, level, version, differential))
BY DEF Sql, Guarded

LEMMA OnlyOnIs ==
  ASSUME NEW name, NEW level, NEW version, NEW differential, NEW role, name # "*"
  PROVE  /\ OnlyOn(role, Sql(name, level, version, differential)).name # "*"
         /\ Guarded(OnlyOn(role, Sql(name, level, version, differential)))
BY DEF Sql, OnlyOn, Guarded

LEMMA WalIs ==
  LET p == probe_wal_files IN
  /\ p.name = "wal_files" /\ p.level # "host" /\ p.level # "database" /\ p.min_version = 80200
  /\ p.on = {"primary"} /\ ~p.catches
BY DEF probe_wal_files, OnlyOn, Sql

LEMMA ProbeIs ==
  ASSUME NEW p \in Collected, p # probe_wal_files
  PROVE  p.name # "*" /\ Guarded(p)
<1>1. PICK k \in 1 .. 18 : p = AllProbes[k]
  BY DEF Collected, Has
<1>2. CASE k \in {8, 9, 10, 11, 12}
  <2>1. p \in {probe_filesystems_size, probe_cpu, probe_process, probe_memory, probe_loadavg}
    BY <1>1, <1>2 DEF AllProbes
  <2>2. QED
    BY <2>1, HostIs DEF probe_filesystems_size, probe_cpu, probe_process, probe_memory,
                        probe_loadavg
<1>3. CASE k \in {14, 16}
  <2>1. p \in {probe_replication_lag, probe_replication_connection}
    BY <1>1, <1>3 DEF AllProbes
  <2>2. QED
    BY <2>1, OnlyOnIs DEF probe_replication_lag, probe_replication_connection
<1>4. CASE k \in {1, 2, 3, 4, 5, 6, 7}
  <2>1. p \in {probe_sessions, probe_xacts, probe_locks, probe_blocks, probe_bgwriter,
               probe_db_size, probe_tblspc_size}
    BY <1>1, <1>4 DEF AllProbes
  <2>2. QED
    BY <2>1, SqlIs DEF probe_sessions, probe_xacts, probe_locks, probe_blocks, probe_bgwriter,
                       probe_db_size, probe_tblspc_size
<1>5. CASE k \in {15, 17, 18}
  <2>1. p \in {probe_temp_files_size_delta, probe_heap_bloat, probe_btree_bloat}
    BY <1>1, <1>5 DEF AllProbes
  <2>2. QED
    BY <2>1, SqlIs DEF probe_temp_files_size_delta, probe_heap_bloat, probe_btree_bloat
<1>6. k # 13
  BY <1>1 DEF AllProbes
<1>7. QED
  BY <1>2, <1>3, <1>4, <1>5, <1>6

LEMMA WalLoaded == probe_wal_files \in Collected
<1>1. AllProbes[13] = probe_wal_files
  BY DEF AllProbes
<1>2. QED
  BY <1>1 DEF Collected, Has

LEMMA NoStar ==
  ASSUME NEW p \in Collected
  PROVE  p.name # "*"
BY ProbeIs, WalIs

(* The situation in which one probe fails differs in nothing else. *)
LEMMA Failing ==
  ASSUME NEW names, NEW s \in AnySituation(names), NEW name
  PROVE  LET f == [s EXCEPT !.failing = {name}] IN
         /\ f.failing = {name} /\ s.failing = {}
         /\ f.linux = s.linux /\ f.available = s.available /\ f.version = s.version
         /\ f.standby = s.standby /\ f.databases = s.databases /\ f.configured = s.configured
         /\ f.refusing = s.refusing /\ f.first = s.first /\ f.delta = s.delta
         /\ MainDatabase \notin s.refusing /\ s.version \in Int /\ s.version >= 80200
BY DEF AnySituation

LEMMA SameChecks ==
  ASSUME NEW names, NEW s \in AnySituation(names), NEW name, NEW p
  PROVE  LET f == [s EXCEPT !.failing = {name}] IN
         /\ check(p, f) = check(p, s)
         /\ dbnames(p, f) = dbnames(p, s)
         /\ HasRows(p, f) = HasRows(p, s)
         /\ Role(f) = Role(s)
<1> DEFINE f == [s EXCEPT !.failing = {name}]
<1>1. /\ f.linux = s.linux /\ f.available = s.available /\ f.version = s.version
      /\ f.standby = s.standby /\ f.databases = s.databases /\ f.configured = s.configured
      /\ f.first = s.first /\ f.delta = s.delta
  BY Failing
<1> HIDE DEF f
<1>2. check(p, f) = check(p, s)
  BY <1>1, Zenon DEF check, HostProbe_check, SqlProbe_check
<1>3. dbnames(p, f) = dbnames(p, s)
  BY <1>1, Zenon DEF dbnames
<1>4. HasRows(p, f) = HasRows(p, s)
  BY <1>1, Zenon DEF HasRows
<1>5. Role(f) = Role(s)
  BY <1>1, Zenon DEF Role
<1>6. QED
  BY <1>2, <1>3, <1>4, <1>5 DEF f

(* Another probe than the one that fails runs as it did. *)
LEMMA OtherRuns ==
  ASSUME NEW names, NEW s \in AnySituation(names), NEW name, NEW p, p.name # name
  PROVE  LET f == [s EXCEPT !.failing = {name}] IN
         /\ Raises(p, f) <=> Raises(p, s)
         /\ Kept(p, f) <=> Kept(p, s)
         /\ Entry(p, f) = Entry(p, s)
<1> DEFINE f == [s EXCEPT !.failing = {name}]
<1>1. f.failing = {name} /\ s.failing = {} /\ f.refusing = s.refusing
  BY Failing
<1>2. /\ check(p, f) = check(p, s) /\ dbnames(p, f) = dbnames(p, s)
      /\ HasRows(p, f) = HasRows(p, s) /\ Role(f) = Role(s)
  BY SameChecks
<1> HIDE DEF f
<1>3. p.name \notin f.failing /\ p.name \notin s.failing
  BY <1>1
<1>4. Raises(p, f) <=> Raises(p, s)
  BY <1>1, <1>2, <1>3 DEF Raises
<1>5. Kept(p, f) <=> Kept(p, s)
  BY <1>2, <1>4 DEF Kept
<1>6. Probe_run(p, f) = Probe_run(p, s)
  BY <1>2, <1>3 DEF Probe_run
<1>7. QED
  BY <1>4, <1>5, <1>6 DEF Entry, f

(* A guarded probe that fails ends no collect. *)
LEMMA GuardedEnds ==
  ASSUME NEW names, NEW s \in AnySituation(names), NEW name, NEW p, Guarded(p)
  PROVE  LET f == [s EXCEPT !.failing = {name}] IN Ends(p, f) <=> Ends(p, s)
<1> DEFINE f == [s EXCEPT !.failing = {name}]
<1>1. f.refusing = s.refusing
  BY Failing
<1>2. check(p, f) = check(p, s) /\ dbnames(p, f) = dbnames(p, s)
  BY SameChecks
<1> HIDE DEF f
<1>3. CASE p.level = "host"
  BY <1>3 DEF Ends, f
<1>4. CASE p.level # "host"
  <2>1. Raises(p, f) <=> Raises(p, s)
    BY <1>1, <1>2, <1>4 DEF Raises, Guarded
  <2>2. QED
    BY <1>2, <2>1 DEF Ends, f
<1>5. QED
  BY <1>3, <1>4

LEMMA EntryName == ASSUME NEW p, NEW s PROVE Entry(p, s).name = p.name
  BY DEF Entry

LEMMA OutcomeParts ==
  ASSUME NEW probes, NEW s
  PROVE  /\ Outcome(probes, s).lost <=> Lost(probes, s)
         /\ Outcome(probes, s).lost \in BOOLEAN
         /\ Outcome(probes, s).output = IF Lost(probes, s) THEN {} ELSE Made(probes, s)
<1>1. CASE Lost(probes, s)
  BY <1>1 DEF Outcome
<1>2. CASE ~Lost(probes, s)
  BY <1>2 DEF Outcome
<1>3. QED
  BY <1>1, <1>2

LEMMA RunAll ==
  ASSUME NEW s
  PROVE  run_probes(load_probes({"*"}), s) = Outcome(Collected, s)
<1>1. {p \in Has(AllProbes, 18) : Chosen(p, {"*"})} = Collected
  BY DEF Chosen, Collected
<1>2. QED
  BY <1>1, LoadedIs, RunIs

LEMMA RunOne ==
  ASSUME NEW s, NEW name, name # "*"
  PROVE  run_probes(load_probes({name}), s) = Outcome({p \in Collected : p.name = name}, s)
<1>1. {p \in Has(AllProbes, 18) : Chosen(p, {name})} = {p \in Collected : p.name = name}
  BY DEF Chosen, Collected
<1>2. QED
  BY <1>1, LoadedIs, RunIs

(* Without a failing probe, a collect is lost by a refused connection only. *)
LEMMA LostByRefusal ==
  ASSUME NEW names, NEW s \in AnySituation(names), Lost(Collected, s)
  PROVE  s.available /\ s.refusing # {}
<1>1. s.failing = {} /\ MainDatabase \notin s.refusing
  BY DEF AnySituation
<1>2. PICK p \in Collected : Ends(p, s)
  BY <1>1 DEF Lost
<1>3. s.available
  BY <1>2 DEF Ends, check, SqlProbe_check
<1>4. dbnames(p, s) \cap s.refusing # {}
  BY <1>1, <1>2 DEF Ends, Raises
<1>5. QED
  BY <1>3, <1>4

LEMMA WalEnds ==
  ASSUME NEW names, NEW s \in AnySituation(names), s.available, ~s.standby
  PROVE  Lost(Collected, [s EXCEPT !.failing = {"wal_files"}])
<1> DEFINE f == [s EXCEPT !.failing = {"wal_files"}]
           p == probe_wal_files
<1>1. /\ f.failing = {"wal_files"} /\ f.available /\ ~f.standby
      /\ f.version \in Int /\ 80200 <= f.version
  BY Failing
<1>2. p.name = "wal_files" /\ p.level # "host" /\ p.level # "database" /\ p.min_version = 80200
      /\ p.on = {"primary"} /\ ~p.catches
  BY WalIs
<1>3. p \in Collected
  BY WalLoaded
<1> HIDE DEF f, p
<1>4. check(p, f)
  BY <1>1, <1>2 DEF check, SqlProbe_check
<1>5. Role(f) \in p.on /\ dbnames(p, f) # {}
  BY <1>1, <1>2 DEF Role, dbnames
<1>6. Raises(p, f)
  BY <1>1, <1>2, <1>5 DEF Raises
<1>7. Lost(Collected, f)
  BY <1>2, <1>3, <1>4, <1>6 DEF Lost, Ends
<1>8. QED
  BY <1>7 DEF f

(* But for the WAL probe of a primary, no probe that fails ends a collect. *)
LEMMA FailureEndsNone ==
  ASSUME NEW names, NEW s \in AnySituation(names),
         NEW name, ~(name = "wal_files" /\ s.available /\ ~s.standby),
         NEW p \in Collected
  PROVE  Ends(p, [s EXCEPT !.failing = {name}]) <=> Ends(p, s)
<1> DEFINE f == [s EXCEPT !.failing = {name}]
<1>1. /\ check(p, f) = check(p, s) /\ dbnames(p, f) = dbnames(p, s)
      /\ Role(f) = Role(s)
  BY SameChecks
<1>2. f.refusing = s.refusing /\ f.failing = {name} /\ s.failing = {}
  BY Failing
<1>3. CASE p # probe_wal_files
  BY <1>3, ProbeIs, GuardedEnds
<1>4. CASE p = probe_wal_files
  <2>1. p.name = "wal_files" /\ p.level # "host" /\ p.on = {"primary"}
    BY <1>4, WalIs
  <2>2. CASE name # "wal_files"
    <3>1. Raises(p, f) <=> Raises(p, s)
      BY <2>1, <2>2, OtherRuns
    <3>2. QED
      BY <1>1, <3>1 DEF Ends
  <2>3. CASE ~s.available
    <3>1. ~check(p, s)
      BY <2>1, <2>3 DEF check, SqlProbe_check
    <3> HIDE DEF f
    <3>2. QED
      BY <1>1, <3>1 DEF Ends, f
  <2>4. CASE s.standby
    <3>1. Role(s) \notin p.on
      BY <2>1, <2>4 DEF Role
    <3> HIDE DEF f
    <3>2. Raises(p, f) <=> Raises(p, s)
      BY <1>1, <1>2, <2>1, <3>1 DEF Raises
    <3>3. QED
      BY <1>1, <3>2 DEF Ends, f
  <2>5. QED
    BY <2>2, <2>3, <2>4
<1>5. QED
  BY <1>3, <1>4

LEMMA FailureLeavesOthers ==
  ASSUME NEW names, NEW s \in AnySituation(names),
         NEW name, ~(name = "wal_files" /\ s.available /\ ~s.standby)
  PROVE  LET f == [s EXCEPT !.failing = {name}] IN
         /\ Lost(Collected, f) <=> Lost(Collected, s)
         /\ Others(Outcome(Collected, f), name) = Others(Outcome(Collected, s), name)
<1> DEFINE f == [s EXCEPT !.failing = {name}]
<1>1. f.refusing = s.refusing
  BY Failing
<1>2. \A p \in Collected : Ends(p, f) <=> Ends(p, s)
  BY FailureEndsNone
<1>3. \A p : p.name # name => (Kept(p, f) <=> Kept(p, s)) /\ Entry(p, f) = Entry(p, s)
  BY OtherRuns
<1> HIDE DEF f
<1>4. Lost(Collected, f) <=> Lost(Collected, s)
  BY <1>1, <1>2 DEF Lost
<1>5. {e \in Made(Collected, f) : e.name # name} = {e \in Made(Collected, s) : e.name # name}
  <2>1. ASSUME NEW e \in Made(Collected, f), e.name # name PROVE e \in Made(Collected, s)
    BY <1>3, <2>1, EntryName DEF Made
  <2>2. ASSUME NEW e \in Made(Collected, s), e.name # name PROVE e \in Made(Collected, f)
    BY <1>3, <2>2, EntryName DEF Made
  <2>3. QED
    BY <2>1, <2>2
<1>6. Others(Outcome(Collected, f), name) = Others(Outcome(Collected, s), name)
  BY <1>4, <1>5, OutcomeParts DEF Others
<1>7. QED
  BY <1>4, <1>6 DEF f

(* A probe asked for alone gives what it gives in a whole collect. *)
LEMMA AloneGives ==
  ASSUME NEW s, NEW name, ~Lost(Collected, s)
  PROVE  LET all == Outcome(Collected, s) IN
         Outcome({p \in Collected : p.name = name}, s).output = all.output \ Others(all, name)
<1> DEFINE one == {p \in Collected : p.name = name}
           all == Outcome(Collected, s)
<1>1. ~Lost(one, s)
  BY DEF Lost
<1>2. Outcome(one, s).output = Made(one, s) /\ all.output = Made(Collected, s)
  BY <1>1, OutcomeParts
<1>3. Made(one, s) = {e \in Made(Collected, s) : e.name = name}
  BY EntryName DEF Made
<1> HIDE DEF one, all
<1>4. all.output \ Others(all, name) = {e \in Made(Collected, s) : e.name = name}
  BY <1>2 DEF Others
<1>5. QED
  BY <1>2, <1>3, <1>4 DEF one, all

(* monitoring/probes.py:21-38: load_probes lists the probes in the order   *)
(* of a dictionary.  Two lists of the same probes end alike: both lose the *)
(* collect, or both give the same output.                                  *)
THEOREM OrderChangesNothing ==
  ASSUME NEW probes, NEW others, NEW s, Len(probes) \in Nat, Len(others) \in Nat,
         Has(probes, Len(probes)) = Has(others, Len(others))
  PROVE  run_probes(probes, s) = run_probes(others, s)
<1>1. run_probes(probes, s) = Outcome(Has(probes, Len(probes)), s)
  BY RunIs
<1>2. run_probes(others, s) = Outcome(Has(others, Len(others)), s)
  BY RunIs
<1>3. QED
  BY <1>1, <1>2

(* A probe that fails takes away its own values and no other's, on any     *)
(* host and server, of any version from 8.2 on and with any databases,     *)
(* whichever of them refuse a connection but the one the date is asked     *)
(* from (monitoring/probes.py:91-121).                                     *)
THEOREM OneGapAlways ==
  ASSUME NEW names, NEW name \in Names, NEW s \in AnySituation(names)
  PROVE  OneGap(name, s)
<1> DEFINE f == [s EXCEPT !.failing = {name}]
           all == Outcome(Collected, s)
           failed == Outcome(Collected, f)
           alone == Outcome({p \in Collected : p.name = name}, s)
<1>1. name # "*"
  <2>1. PICK k \in DOMAIN AllProbes : name = AllProbes[k].name
    BY DEF Names
  <2>2. DOMAIN AllProbes = 1 .. 18
    BY DEF AllProbes
  <2>3. AllProbes[k] \in Collected
    BY <2>1, <2>2 DEF Collected, Has
  <2>4. QED
    BY <2>1, <2>3, NoStar
<1>2. /\ run_probes(load_probes({"*"}), s) = all
      /\ run_probes(load_probes({"*"}), f) = failed
      /\ run_probes(load_probes({name}), s) = alone
  BY <1>1, RunAll, RunOne
<1>3. all.lost => s.available /\ s.refusing # {}
  BY LostByRefusal, OutcomeParts
<1>4. name = "wal_files" /\ s.available /\ ~s.standby => failed.lost
  BY WalEnds, OutcomeParts
<1>5. ~(name = "wal_files" /\ s.available /\ ~s.standby) =>
          failed.lost = all.lost /\ Others(failed, name) = Others(all, name)
  BY FailureLeavesOthers, OutcomeParts
<1>6. ~all.lost => alone.output = all.output \ Others(all, name)
  BY AloneGives, OutcomeParts
<1> HIDE DEF f, all, failed, alone
<1>7. QED
  BY <1>2, <1>3, <1>4, <1>5, <1>6 DEF OneGap, f

LEMMA SituationsIn == Situations({}) \subseteq AnySituation({MainDatabase, "d", "gone", "*"})
<1> DEFINE main == MainDatabase
           d == "d"
           names == {main, d, "gone", "*"}
           V == {90100, 90600, 120000}
           D == {{main, d}}
           C == {{"*"}, {d, "gone"}}
           R == {{}, {d}}
           W == {v \in Int : v >= 80200}
           Q == {r \in SUBSET names : main \notin r}
           T == SUBSET names
           F == {{}}
<1>1. main # d
  BY DEF MainDatabase
<1> HIDE DEF main, d
<1>2. V \subseteq W /\ D \subseteq T /\ C \subseteq T /\ R \subseteq Q
  BY <1>1
<1> HIDE DEF V, D, C, R, W, Q, T, F
<1>3. ASSUME NEW s \in [linux : BOOLEAN, available : BOOLEAN, version : V, standby : BOOLEAN,
                        databases : D, configured : C, refusing : R, failing : F,
                        first : BOOLEAN, delta : BOOLEAN]
      PROVE  s \in [linux : BOOLEAN, available : BOOLEAN, version : W, standby : BOOLEAN,
                    databases : T, configured : T, refusing : Q, failing : F,
                    first : BOOLEAN, delta : BOOLEAN]
  BY <1>2
<1>4. QED
  BY <1>3 DEF Situations, AnySituation, main, d, V, D, C, R, W, Q, T, F

(* The probe that fails leaves a gap of its own only: what the run         *)
(* evaluates in the first state, for a few versions and databases.         *)
THEOREM OneFailureOneGapHolds == Spec => []OneFailureOneGap
<1>1. ASSUME NEW s \in Situations({}) PROVE s \in AnySituation({MainDatabase, "d", "gone", "*"})
  BY SituationsIn
<1>2. OneFailureOneGap
  BY <1>1, OneGapAlways DEF OneFailureOneGap
<1>3. QED
  BY <1>2, PTL

================================================================================
