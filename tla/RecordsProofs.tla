----------------------------- MODULE RecordsProofs -----------------------------
(***************************************************************************)
(* A table that is purged at each insertion keeps the same records as one  *)
(* that would be purged at the end only.                                   *)
(***************************************************************************)
EXTENDS Records, FiniteSetTheorems, TLAPS

(* A set of numbers has a least one: what the proofs by induction of the   *)
(* other modules rest on is that there is no least number they fail for.   *)
LEMMA LeastExists ==
  ASSUME NEW T \in SUBSET Nat, T # {}
  PROVE  \E m \in T : \A k \in T : m <= k
<1> DEFINE upto(n) == 1 .. n
           U == {upto(n) : n \in T}
           all == UNION U
<1>1. U \subseteq FiniteSubsetsOf(Nat)
  BY FS_Interval DEF FiniteSubsetsOf
<1>2. U # {}
  OBVIOUS
<1>3. PICK least \in U : \A set \in U : <<set, least>> \notin StrictSubsetOrdering(Nat)
  BY <1>1, <1>2, FS_StrictSubsetOrderingWellFounded, WFMin
<1>4. PICK m \in T : least = upto(m)
  OBVIOUS
<1>5. ASSUME NEW k \in T, k < m
      PROVE  FALSE
  <2>1. upto(k) \subseteq upto(m) /\ m \in upto(m) /\ m \notin upto(k)
    BY <1>5
  <2>2. upto(k) \in SUBSET Nat /\ upto(m) \in SUBSET Nat
    OBVIOUS
  <2>3. <<upto(k), upto(m)>> \in StrictSubsetOrdering(Nat)
    BY <2>1, <2>2 DEF StrictSubsetOrdering
  <2>4. QED
    BY <1>3, <1>4, <2>3
<1>6. QED
  BY <1>5

-----------------------------------------------------------------------------
IsTable(records) == IsFiniteSet(records) /\ \A record \in records : record.time \in Int

LEMMA LaterThanFinite ==
  ASSUME NEW records, IsTable(records), NEW time \in Int
  PROVE  /\ LaterThan(time, records) \in SUBSET records
         /\ IsFiniteSet(LaterThan(time, records))
         /\ Cardinality(LaterThan(time, records)) \in Nat
<1>1. LaterThan(time, records) \in SUBSET records
  BY DEF LaterThan
<1>2. IsFiniteSet(LaterThan(time, records))
  BY <1>1, FS_Subset DEF IsTable
<1>3. QED
  BY <1>1, <1>2, FS_CardinalityType

(* Fewer records are later in a smaller table. *)
LEMMA LaterThanMonotone ==
  ASSUME NEW records, IsTable(records), NEW time \in Int, NEW limit \in Nat,
         Cardinality(LaterThan(time, records)) < limit,
         NEW some, some \subseteq LaterThan(time, records)
  PROVE  Cardinality(some) < limit
<1>1. IsFiniteSet(some) /\ Cardinality(some) <= Cardinality(LaterThan(time, records))
  BY LaterThanFinite, FS_Subset
<1>2. QED
  BY <1>1, LaterThanFinite, FS_CardinalityType

(* Among the records of a table that are in a set there is a latest one. *)
LEMMA LatestExists ==
  ASSUME NEW records, IsTable(records), NEW some \in SUBSET records, some # {}
  PROVE  \E record \in some : \A other \in some : ~(other.time > record.time)
<1> DEFINE later(record) == LaterThan(record.time, records)
           T == {later(record) : record \in some}
<1>1. T \subseteq FiniteSubsetsOf(records)
  BY LaterThanFinite DEF IsTable, FiniteSubsetsOf
<1>2. T # {}
  OBVIOUS
<1>3. PICK least \in T : \A set \in T : <<set, least>> \notin StrictSubsetOrdering(records)
  BY <1>1, <1>2, FS_StrictSubsetOrderingWellFounded, WFMin
<1>4. PICK record \in some : least = later(record)
  OBVIOUS
<1>5. ASSUME NEW other \in some, other.time > record.time
      PROVE  FALSE
  <2>1. record.time \in Int /\ other.time \in Int
    BY DEF IsTable
  <2>2. later(other) \subseteq later(record)
    BY <1>5, <2>1 DEF LaterThan, IsTable
  <2>3. other \in later(record) /\ other \notin later(other)
    BY <1>5, <2>1 DEF LaterThan
  <2>4. later(other) \in SUBSET records /\ later(record) \in SUBSET records
    BY DEF LaterThan
  <2>5. <<later(other), later(record)>> \in StrictSubsetOrdering(records)
    BY <2>2, <2>3, <2>4 DEF StrictSubsetOrdering
  <2>6. QED
    BY <1>3, <1>4, <2>5
<1>6. QED
  BY <1>5

(* notification.py:79, dashboard/db.py:42: to purge a table and then again *)
(* with a record more leaves what one purge of all the records leaves.     *)
THEOREM PurgeForgetsNothing ==
  ASSUME NEW records, IsTable(records), NEW record, record.time \in Int,
         NEW limit \in Nat \ {0}
  PROVE  Added(Newest(records, limit), record, limit) = Newest(records \cup {record}, limit)
<1> DEFINE kept == Newest(records, limit)
           all == records \cup {record}
           rest == kept \cup {record}
<1>1. kept \in SUBSET records
  BY DEF Newest
<1>2. IsTable(all) /\ IsTable(rest)
  BY <1>1, FS_Subset, FS_AddElement DEF IsTable
<1>3. ASSUME NEW r \in Newest(all, limit) PROVE r \in Newest(rest, limit)
  <2>1. r \in all /\ r.time \in Int /\ Cardinality(LaterThan(r.time, all)) < limit
    BY <1>2 DEF Newest, IsTable
  <2>2. r \in rest
    <3>1. CASE r \in records
      <4>1. LaterThan(r.time, records) \subseteq LaterThan(r.time, all)
        BY DEF LaterThan
      <4>2. Cardinality(LaterThan(r.time, records)) < limit
        BY <1>2, <2>1, <4>1, LaterThanMonotone
      <4>3. QED
        BY <3>1, <4>2 DEF Newest
    <3>2. CASE r = record
      BY <3>2
    <3>3. QED
      BY <2>1, <3>1, <3>2
  <2>3. LaterThan(r.time, rest) \subseteq LaterThan(r.time, all)
    BY <1>1 DEF LaterThan
  <2>4. Cardinality(LaterThan(r.time, rest)) < limit
    BY <1>2, <2>1, <2>3, LaterThanMonotone
  <2>5. QED
    BY <2>2, <2>4 DEF Newest
<1>4. ASSUME NEW r \in Newest(rest, limit) PROVE r \in Newest(all, limit)
  <2>1. r \in rest /\ r \in all /\ r.time \in Int
        /\ Cardinality(LaterThan(r.time, rest)) < limit
    BY <1>1, <1>2 DEF Newest, IsTable
  <2> DEFINE purged == LaterThan(r.time, all) \ rest
  <2>2. CASE purged = {}
    <3>1. LaterThan(r.time, all) = LaterThan(r.time, rest)
      BY <1>1, <2>2 DEF LaterThan
    <3>2. QED
      BY <2>1, <3>1 DEF Newest
  <2>3. CASE purged # {}
    <3>1. purged \in SUBSET records
      BY DEF LaterThan
    <3>2. PICK y \in purged : \A z \in purged : ~(z.time > y.time)
      BY <2>3, <3>1, LatestExists
    <3>3. y \in records /\ y \notin kept /\ y.time \in Int /\ y.time > r.time
      BY <3>1 DEF LaterThan, IsTable
    <3>4. LaterThan(y.time, records) \subseteq LaterThan(r.time, rest)
      <4>1. ASSUME NEW z \in LaterThan(y.time, records)
            PROVE  z \in LaterThan(r.time, rest)
        <5>1. z \in records /\ z.time \in Int /\ z.time > y.time
          BY DEF LaterThan, IsTable
        <5>2. z.time > r.time
          BY <2>1, <3>3, <5>1
        <5>3. z \in rest
          BY <3>2, <5>1, <5>2 DEF LaterThan
        <5>4. QED
          BY <5>2, <5>3 DEF LaterThan
      <4>2. QED
        BY <4>1
    <3>5. Cardinality(LaterThan(y.time, records)) < limit
      BY <1>2, <2>1, <3>4, LaterThanMonotone
    <3>6. QED
      BY <3>3, <3>5 DEF Newest
  <2>4. QED
    BY <2>2, <2>3
<1>5. QED
  BY <1>3, <1>4 DEF Added

================================================================================
