------------------------------- MODULE Measures -------------------------------
(***************************************************************************)
(* The differential probes of the monitoring plugin (plugins/monitoring):  *)
(* Probe.delta compares a counter with the measure kept in the table       *)
(* last_measures and replaces that measure.  The collector, a worker       *)
(* process that the scheduler runs one at a time, and the HTTP threads of  *)
(* /monitoring/probe/... share the table, without a lock around the two    *)
(* calls.  The collector adds what it gets to the table metrics, which     *)
(* /monitoring/history reads.  One counter stands for all.                 *)
(***************************************************************************)
EXTENDS Integers, FiniteSets

CONSTANTS
    Apis,       \* HTTP threads that run the probe
    Collector,  \* the collector
    None,       \* no row in last_measures; no delta in a record
    Keep,       \* ticks a record stays in metrics (6 hours)
    MaxTime, MaxTotal, MaxBoots     \* bounds of a run

ASSUME CollectorAssumption == Collector \notin Apis
ASSUME NumberAssumption == {Keep, MaxTime, MaxTotal, MaxBoots} \subseteq Nat /\ MaxBoots # 0

Probers == Apis \cup {Collector}
Times == 0 .. MaxTime
Totals == 0 .. MaxTotal

VARIABLES
    now,        \* the clock
    count,      \* the counter of the server, or of the host
    last,       \* the row of last_measures
    metrics,    \* the table metrics: time and delta of each collect
    pc,         \* pc[p]: what p does next
    taken,      \* taken[p]: the measure p has made
    base,       \* base[p]: the last measure p has found
    total,      \* history: the events ever counted, resets or not
    boots,      \* history: starts of the agent
    counted,    \* history: the events some delta has reported
    since,      \* history: the events there were at the first of the
                \* measures deltas have followed without break or reset
    excess,     \* history: a delta has reported an event twice or in vain
    overlapped  \* history: two probers were between reading and replacing

server == <<now, count, total>>
history == <<counted, since, excess>>
vars == <<server, last, metrics, pc, taken, base, boots, history, overlapped>>

(* A measure, with the events and the starts of the agent at its time. *)
Measure == [time : Times, count : Totals, total : Totals, boot : 1 .. MaxBoots]
ZeroMeasure == [time |-> 0, count |-> 0, total |-> 0, boot |-> 1]

ASSUME NoneAssumption == None \notin Totals /\ None \notin Measure

TypeOK ==
    /\ now \in Times /\ count \in Totals /\ total \in Totals
    /\ last \in Measure \cup {None}
    /\ metrics \subseteq [time : Times, delta : Totals \cup {None}]
    /\ pc \in [Probers -> {"idle", "delta", "upsert", "store"}]
    /\ taken \in [Probers -> Measure]
    /\ base \in [Probers -> Measure \cup {None}]
    /\ boots \in 1 .. MaxBoots
    /\ counted \subseteq 1 .. MaxTotal
    /\ since \in Totals
    /\ excess \in BOOLEAN /\ overlapped \in BOOLEAN

Init ==
    /\ now = 0 /\ count = 0 /\ total = 0
    /\ last = None
    /\ metrics = {}
    /\ pc = [p \in Probers |-> "idle"]
    /\ taken = [p \in Probers |-> ZeroMeasure]
    /\ base = [p \in Probers |-> None]
    /\ boots = 1
    /\ counted = {} /\ since = 0 /\ excess = FALSE /\ overlapped = FALSE

-----------------------------------------------------------------------------
(* The events from one measure to a later one. *)
Events(from, to) == from.total + 1 .. to.total

(* Bug variant: the delta is reported even if the counter has gone         *)
(* backwards.                                                              *)
delta_negative(from, to) ==
    IF from = None THEN None ELSE to.count - from.count

(* What a delta makes of two measures: nothing if there is no base or the  *)
(* counter has gone backwards.                                             *)
delta(from, to) ==
    IF from = None \/ (from # None /\ to.count < from.count) THEN None
    ELSE to.count - from.count

(* The probe reads the counter and the clock. *)
run(p) ==
    /\ pc[p] = "idle"
    /\ pc' = [pc EXCEPT ![p] = "delta"]
    /\ taken' = [taken EXCEPT ![p] =
                    [time |-> now, count |-> count, total |-> total, boot |-> boots]]
    /\ overlapped' = (overlapped \/ \E q \in Probers : pc[q] \in {"delta", "upsert"})
    /\ UNCHANGED <<server, last, metrics, base, boots, history>>

get_last_measure(p) ==
    /\ pc[p] = "delta"
    /\ pc' = [pc EXCEPT ![p] = "upsert"]
    /\ base' = [base EXCEPT ![p] = last]
    /\ UNCHANGED <<server, last, metrics, taken, boots, history, overlapped>>

(* The counter has been reset between two measures. *)
ResetBetween(from, to) == from.count - from.total # to.count - to.total

(* The delta is reported, to the HTTP client or to the collector: it       *)
(* stands for the latest events.  After a reset that the counter has       *)
(* outgrown the code cannot tell that there were others.                   *)
Report(p) ==
    LET from == base[p]
        to == taken[p]
        latest == to.total - delta(from, to) + 1 .. to.total IN
    IF delta(from, to) = None
    THEN /\ since' = to.total
         /\ UNCHANGED <<counted, excess>>
    ELSE /\ counted' = counted \cup latest
         /\ excess' = (excess \/ latest \cap counted # {} \/ ~ latest \subseteq Events(from, to))
         /\ since' = IF ResetBetween(from, to) THEN to.total ELSE since

(* The locals of a prober that has finished. *)
Finish(p) ==
    /\ pc' = [pc EXCEPT ![p] = "idle"]
    /\ taken' = [taken EXCEPT ![p] = ZeroMeasure]
    /\ base' = [base EXCEPT ![p] = None]

(* A record is still to be stored, or the HTTP client is answered. *)
Continue(p) ==
    IF p = Collector THEN pc' = [pc EXCEPT ![p] = "store"] /\ UNCHANGED <<taken, base>>
                     ELSE Finish(p)

(* Bug variants: the UPDATE leaves the data alone; a measure that comes in *)
(* the same tick as the one before is thought to bring nothing.            *)
upsert_keeps_data(p) ==
    /\ pc[p] = "upsert"
    /\ last' = IF last = None THEN taken[p] ELSE [last EXCEPT !.time = taken[p].time]
    /\ Report(p)
    /\ Continue(p)
    /\ UNCHANGED <<server, metrics, boots, overlapped>>

upsert_same_tick(p) ==
    /\ pc[p] = "upsert"
    /\ last' = taken[p]
    /\ IF base[p] # None /\ taken[p].time = base[p].time THEN UNCHANGED history
                                                          ELSE Report(p)
    /\ Continue(p)
    /\ UNCHANGED <<server, metrics, boots, overlapped>>

(* The new measure replaces the last one, delta or not. *)
upsert_last_measure(p) ==
    /\ pc[p] = "upsert"
    /\ last' = taken[p]
    /\ Report(p)
    /\ Continue(p)
    /\ UNCHANGED <<server, metrics, boots, overlapped>>

(* Either call fails, the database being locked for too long: the probe is *)
(* skipped, and the rest of the collect goes on without it.                *)
skip(p) ==
    /\ pc[p] \in {"delta", "upsert"}
    /\ IF p = Collector
       THEN pc' = [pc EXCEPT ![p] = "store"] /\ base' = [base EXCEPT ![p] = None]
            /\ UNCHANGED taken
       ELSE Finish(p)
    /\ UNCHANGED <<server, last, metrics, boots, history, overlapped>>

(* The collector adds its record, time being the primary key, and purges   *)
(* the table; or the collect fails, in a later probe or in this insertion. *)
add_metric ==
    /\ pc[Collector] = "store"
    /\ \/ /\ \A record \in metrics : record.time # now
          /\ metrics' =
                {record \in metrics \cup
                    {[time |-> now, delta |-> delta(base[Collector], taken[Collector])]} :
                 record.time >= now - Keep}
       \/ UNCHANGED metrics
    /\ Finish(Collector)
    /\ UNCHANGED <<server, last, boots, history, overlapped>>

(* Bug variant: last_measures is created only if it does not exist. *)
bootstrap_keeps_measures ==
    /\ boots < MaxBoots
    /\ boots' = boots + 1
    /\ pc' = [p \in Probers |-> "idle"]
    /\ taken' = [p \in Probers |-> ZeroMeasure]
    /\ base' = [p \in Probers |-> None]
    /\ UNCHANGED <<server, last, metrics, history, overlapped>>

(* The agent stops, wherever its threads and workers are, and starts again *)
(* with an empty last_measures.                                            *)
bootstrap ==
    /\ boots < MaxBoots
    /\ boots' = boots + 1
    /\ last' = None
    /\ pc' = [p \in Probers |-> "idle"]
    /\ taken' = [p \in Probers |-> ZeroMeasure]
    /\ base' = [p \in Probers |-> None]
    /\ UNCHANGED <<server, metrics, history, overlapped>>

-----------------------------------------------------------------------------
(* The server: an event is counted, the counter is reset, time passes. *)
Count ==
    /\ total < MaxTotal
    /\ count' = count + 1 /\ total' = total + 1
    /\ UNCHANGED <<now, last, metrics, pc, taken, base, boots, history, overlapped>>

Zero ==
    /\ count # 0
    /\ count' = 0
    /\ UNCHANGED <<now, total, last, metrics, pc, taken, base, boots, history, overlapped>>

Tick ==
    /\ now < MaxTime
    /\ now' = now + 1
    /\ UNCHANGED <<count, total, last, metrics, pc, taken, base, boots, history, overlapped>>

Probe(p) == run(p) \/ get_last_measure(p) \/ upsert_last_measure(p) \/ skip(p)

Next == (\E p \in Probers : Probe(p)) \/ add_metric \/ bootstrap \/ Count \/ Zero \/ Tick

Spec == Init /\ [][Next]_vars

-----------------------------------------------------------------------------
(* get_metrics: the records from `start` on, or the latest one if there is *)
(* no start, in the order of time; at most `limit` of them, if any.  The   *)
(* code takes 0 for none, for the one as for the other.                    *)
LatestRecords == {record \in metrics : \A other \in metrics : other.time <= record.time}
From(start) == IF start = 0 THEN LatestRecords ELSE {record \in metrics : record.time >= start}

get_metrics(start, limit) ==
    IF limit = 0 THEN From(start)
    ELSE {record \in From(start) :
             Cardinality({other \in From(start) : other.time < record.time}) < limit}

-----------------------------------------------------------------------------
(* No event is reported twice, and none that did not happen, by whichever  *)
(* of the collector and the HTTP threads, as long as no two of them        *)
(* measure at once.                                                        *)
CountedOnce == excess => overlapped

(* Nor is one missed, between the first of a row of measures that deltas   *)
(* follow without a reset of the counter and the last: a failed collect or *)
(* a measure made for an HTTP client takes it away from the history of     *)
(* metrics, and only from there.                                           *)
CountedAll ==
    last # None /\ ~overlapped => since + 1 .. last.total \subseteq counted

(* "We do not want to compute delta values with potentially old data": a   *)
(* delta never spans a restart of the agent.                               *)
FreshBase ==
    \A p \in Probers : pc[p] = "upsert" /\ base[p] # None => base[p].boot = taken[p].boot

=============================================================================
