----------------------------- MODULE RoutingProofs -----------------------------
(***************************************************************************)
(* The list of routes, whatever the plugins and their routes are: what is  *)
(* in it while the main thread changes it under the threads that walk it.  *)
(***************************************************************************)
EXTENDS Routing, RecordsProofs, SequenceTheorems, FiniteSetTheorems, TLAPS

-----------------------------------------------------------------------------
(* FlattenSeq is defined by recursion over the sequence of sequences; the  *)
(* function it is made of exists.                                          *)
Flattens(f, seqs, n) ==
    f = [i \in 1 .. n |-> IF i = 1 THEN seqs[i] ELSE f[i - 1] \o seqs[i]]

LEMMA FlattenExists ==
  ASSUME NEW seqs, NEW n \in Nat
  PROVE  \E f : Flattens(f, seqs, n)
<1> DEFINE T == {m \in Nat : ~ \E f : Flattens(f, seqs, m)}
<1>1. SUFFICES ASSUME T # {} PROVE FALSE
  OBVIOUS
<1>2. PICK m \in T : \A k \in T : m <= k
  BY <1>1, LeastExists
<1>3. CASE m = 0
  <2>1. Flattens([i \in 1 .. 0 |-> 0], seqs, 0)
    BY DEF Flattens
  <2>2. QED
    BY <1>3, <2>1
<1>4. CASE m # 0
  <2>1. m - 1 \in Nat /\ m - 1 \notin T
    BY <1>2, <1>4
  <2>2. PICK f : Flattens(f, seqs, m - 1)
    BY <2>1
  <2> DEFINE g == [i \in 1 .. m |-> IF i = m /\ i # 1 THEN f[i - 1] \o seqs[i] ELSE
                                    IF i = 1 THEN seqs[1] ELSE f[i]]
  <2>3. ASSUME NEW i \in 1 .. m
        PROVE  g[i] = IF i = 1 THEN seqs[i] ELSE g[i - 1] \o seqs[i]
    <3>1. CASE i = 1
      BY <3>1
    <3>2. CASE i # 1
      <4>1. i - 1 \in 1 .. m - 1
        BY <3>2
      <4>2. g[i - 1] = f[i - 1]
        BY <2>2, <4>1 DEF Flattens
      <4>3. g[i] = f[i - 1] \o seqs[i]
        <5>1. CASE i = m
          BY <3>2, <5>1
        <5>2. CASE i # m
          <6>1. i \in 1 .. m - 1
            BY <5>2
          <6>2. f[i] = f[i - 1] \o seqs[i]
            BY <2>2, <3>2, <6>1 DEF Flattens
          <6>3. QED
            BY <3>2, <5>2, <6>2
        <5>3. QED
          BY <5>1, <5>2
      <4>4. QED
        BY <3>2, <4>2, <4>3
    <3>3. QED
      BY <3>1, <3>2
  <2>4. Flattens(g, seqs, m)
    BY <2>3 DEF Flattens
  <2>5. QED
    BY <2>4
<1>5. QED
  BY <1>3, <1>4

LEMMA FlattenIs ==
  ASSUME NEW seqs, Len(seqs) \in Nat \ {0}
  PROVE  \E f : Flattens(f, seqs, Len(seqs)) /\ FlattenSeq(seqs) = f[Len(seqs)]
<1> DEFINE n == Len(seqs)
           h == CHOOSE f : Flattens(f, seqs, n)
<1>1. Flattens(h, seqs, n)
  BY FlattenExists
<1>2. FlattenSeq(seqs) = h[n]
  BY DEF FlattenSeq, Flattens
<1>3. QED
  BY <1>1, <1>2

-----------------------------------------------------------------------------
LEMMA ListIs ==
  ASSUME NEW list, IsList(list)
  PROVE  /\ Len(list) \in Nat
         /\ DOMAIN list = 1 .. Len(list)
         /\ ToSet(list) = {list[k] : k \in 1 .. Len(list)}
         /\ list \in [1 .. Len(list) -> ToSet(list)]
BY LenProperties DEF IsList, ToSet

(* What it takes to be a list. *)
LEMMA IsListIf ==
  ASSUME NEW S, NEW list \in Seq(S)
  PROVE  IsList(list)
<1>1. Len(list) \in Nat /\ DOMAIN list = 1 .. Len(list) /\ list \in [1 .. Len(list) -> S]
  BY LenProperties
<1>2. list \in [1 .. Len(list) -> ToSet(list)]
  BY <1>1 DEF ToSet
<1>3. list \in Seq(ToSet(list))
  BY <1>1, <1>2, SeqDef
<1>4. QED
  BY <1>3 DEF IsList

LEMMA MadeIs ==
  ASSUME NEW set, IsList(set)
  PROVE  IsList(Made(set)) /\ Len(Made(set)) = Len(set)
<1>1. Len(set) \in Nat /\ DOMAIN set = 1 .. Len(set)
  BY ListIs
<1> DEFINE f == Made(set)
<1>2. f = [k \in 1 .. Len(set) |-> make_route(set[k].http_method, set[k].path)]
  BY <1>1 DEF Made
<1> HIDE DEF f
<1>3. DOMAIN f = 1 .. Len(set) /\ f \in [1 .. Len(set) -> ToSet(f)]
  BY <1>2 DEF ToSet
<1>4. f \in Seq(ToSet(f))
  BY <1>1, <1>3, SeqDef
<1>5. Len(f) = Len(set)
  BY <1>1, <1>3, <1>4, LenProperties
<1>6. QED
  BY <1>4, <1>5 DEF IsList, f

LEMMA RouteListsAre ==
  /\ IsList(CoreRoutes) /\ Len(CoreRoutes) = Len(Core)
  /\ \A p \in Plugins : IsList(RouteSet(p))
BY RoutesAssumption, MadeIs DEF CoreRoutes, RouteSet

LEMMA AppendIs ==
  ASSUME NEW list, IsList(list), NEW e
  PROVE  /\ IsList(Append(list, e))
         /\ Len(Append(list, e)) = Len(list) + 1
         /\ \A k \in 1 .. Len(list) : Append(list, e)[k] = list[k]
         /\ Append(list, e)[Len(list) + 1] = e
         /\ ToSet(Append(list, e)) = ToSet(list) \cup {e}
<1> DEFINE S == ToSet(list) \cup {e}
           new == Append(list, e)
<1>1. list \in Seq(S)
  BY SeqMonotonic DEF IsList
<1>2. /\ new \in Seq(S)
      /\ Len(new) = Len(list) + 1
      /\ \A k \in 1 .. Len(list) : new[k] = list[k]
      /\ new[Len(list) + 1] = e
  BY <1>1, AppendProperties
<1>3. IsList(new)
  BY <1>2, IsListIf
<1>4. Len(list) \in Nat /\ ToSet(list) = {list[k] : k \in 1 .. Len(list)}
      /\ ToSet(new) = {new[k] : k \in 1 .. Len(list) + 1}
  BY <1>2, <1>3, ListIs
<1>5. ToSet(new) = ToSet(list) \cup {e}
  BY <1>2, <1>4
<1>6. QED
  BY <1>2, <1>3, <1>5

LEMMA ConcatIs ==
  ASSUME NEW list, IsList(list), NEW other, IsList(other)
  PROVE  /\ IsList(list \o other)
         /\ Len(list \o other) = Len(list) + Len(other)
         /\ \A k \in 1 .. Len(list) + Len(other) :
               (list \o other)[k] = IF k <= Len(list) THEN list[k] ELSE other[k - Len(list)]
         /\ ToSet(list \o other) = ToSet(list) \cup ToSet(other)
<1> DEFINE S == ToSet(list) \cup ToSet(other)
           new == list \o other
<1>1. list \in Seq(S) /\ other \in Seq(S)
  BY SeqMonotonic DEF IsList
<1>2. /\ new \in Seq(S)
      /\ Len(new) = Len(list) + Len(other)
      /\ \A k \in 1 .. Len(list) + Len(other) :
            new[k] = IF k <= Len(list) THEN list[k] ELSE other[k - Len(list)]
  BY <1>1, ConcatProperties
<1>3. IsList(new)
  BY <1>2, IsListIf
<1> HIDE DEF new
<1>4. /\ Len(list) \in Nat /\ ToSet(list) = {list[k] : k \in 1 .. Len(list)}
      /\ Len(other) \in Nat /\ ToSet(other) = {other[k] : k \in 1 .. Len(other)}
      /\ ToSet(new) = {new[k] : k \in 1 .. Len(list) + Len(other)}
  BY <1>2, <1>3, ListIs
<1>5. ASSUME NEW k \in 1 .. Len(list) PROVE list[k] \in ToSet(new)
  <2>1. k \in 1 .. Len(list) + Len(other) /\ k <= Len(list)
    BY <1>4
  <2>2. QED
    BY <1>2, <1>4, <2>1
<1>6. ASSUME NEW k \in 1 .. Len(other) PROVE other[k] \in ToSet(new)
  <2>1. Len(list) + k \in 1 .. Len(list) + Len(other) /\ ~(Len(list) + k <= Len(list))
        /\ Len(list) + k - Len(list) = k
    BY <1>4
  <2>2. new[Len(list) + k] = other[k]
    BY <1>2, <2>1
  <2>3. QED
    BY <1>4, <2>1, <2>2
<1>7. ASSUME NEW k \in 1 .. Len(list) + Len(other) PROVE new[k] \in ToSet(list) \cup ToSet(other)
  <2>1. CASE k <= Len(list)
    BY <1>2, <1>4, <2>1
  <2>2. CASE ~(k <= Len(list))
    <3>1. k - Len(list) \in 1 .. Len(other)
      BY <1>4, <2>2
    <3>2. QED
      BY <1>2, <1>4, <2>2, <3>1
  <2>3. QED
    BY <2>1, <2>2
<1>8. ToSet(new) = ToSet(list) \cup ToSet(other)
  BY <1>4, <1>5, <1>6, <1>7
<1>9. QED
  BY <1>2, <1>3, <1>8 DEF new

LEMMA ConcatAgain ==
  ASSUME NEW a, IsList(a), NEW b, IsList(b), NEW c, IsList(c)
  PROVE  (a \o b) \o c = a \o (b \o c)
<1>1. PICK S : S = ToSet(a) \cup ToSet(b) \cup ToSet(c)
  OBVIOUS
<1>2. a \in Seq(S) /\ b \in Seq(S) /\ c \in Seq(S)
  BY <1>1, SeqMonotonic DEF IsList
<1>3. QED
  BY <1>2, ConcatAssociative

(* What is left of a list without duplicates when one element has gone.    *)
LEMMA RemovedIs ==
  ASSUME NEW list, IsList(list), Distinct(list), NEW at \in 1 .. Len(list)
  PROVE  LET left == RemoveFirst(list, list[at]) IN
         /\ IsList(left)
         /\ Len(left) = Len(list) - 1
         /\ \A k \in 1 .. Len(list) - 1 : left[k] = IF k < at THEN list[k] ELSE list[k + 1]
         /\ ToSet(left) = ToSet(list) \ {list[at]}
<1> DEFINE e == list[at]
           n == Len(list)
           left == RemoveFirst(list, e)
           front == SubSeq(list, 1, at - 1)
           back == SubSeq(list, at + 1, n)
<1>1. n \in Nat /\ DOMAIN list = 1 .. n /\ ToSet(list) = {list[k] : k \in 1 .. n}
  BY ListIs
<1>2. left = front \o back
  <2>1. {k \in 1 .. n : list[k] = e} = {at}
    BY <1>1 DEF Distinct
  <2>2. SelectInSeq(list, LAMBDA v : v = e) = at
    BY <1>1, <2>1 DEF SelectInSeq, Min
  <2>3. QED
    BY <2>2 DEF RemoveFirst, RemoveAt
<1>3. /\ front \in Seq(ToSet(list)) /\ Len(front) = at - 1
      /\ \A k \in 1 .. at - 1 : front[k] = list[k]
  <2>1. \A k \in 1 .. at - 1 : list[k] \in ToSet(list)
    BY <1>1
  <2>2. QED
    BY <1>1, <2>1, SubSeqProperties
<1>4. /\ back \in Seq(ToSet(list)) /\ Len(back) = n - at
      /\ \A k \in 1 .. n - at : back[k] = list[at + k]
  <2>1. at + 1 \in Int /\ n \in Int /\ \A k \in at + 1 .. n : list[k] \in ToSet(list)
    BY <1>1
  <2>2. /\ back \in Seq(ToSet(list))
        /\ Len(back) = IF at + 1 <= n THEN n - (at + 1) + 1 ELSE 0
        /\ \A k \in 1 .. n - (at + 1) + 1 : back[k] = list[at + 1 + k - 1]
    BY <2>1, SubSeqProperties
  <2> HIDE DEF back
  <2>3. n - (at + 1) + 1 = n - at
    BY <1>1
  <2>4. Len(back) = n - at
    <3>1. CASE at = n
      <4>1. ~(at + 1 <= n) /\ n - at = 0
        BY <1>1, <3>1
      <4>2. QED
        BY <2>2, <4>1
    <3>2. CASE at # n
      <4>1. at + 1 <= n
        BY <1>1, <3>2
      <4>2. QED
        BY <2>2, <2>3, <4>1
    <3>3. QED
      BY <3>1, <3>2
  <2>5. ASSUME NEW k \in 1 .. n - at PROVE back[k] = list[at + k]
    <3>1. at + 1 + k - 1 = at + k
      BY <1>1
    <3>2. QED
      BY <2>2, <2>3, <3>1
  <2>6. QED
    BY <2>2, <2>4, <2>5
<1> HIDE DEF front, back, left
<1>5. /\ left \in Seq(ToSet(list)) /\ Len(left) = n - 1
      /\ \A k \in 1 .. n - 1 : left[k] = IF k <= at - 1 THEN front[k] ELSE back[k - (at - 1)]
  <2>1. /\ left \in Seq(ToSet(list)) /\ Len(left) = Len(front) + Len(back)
        /\ \A k \in 1 .. Len(front) + Len(back) :
              left[k] = IF k <= Len(front) THEN front[k] ELSE back[k - Len(front)]
    BY <1>2, <1>3, <1>4, ConcatProperties
  <2>2. Len(front) + Len(back) = n - 1
    BY <1>1, <1>3, <1>4
  <2>3. QED
    BY <1>3, <2>1, <2>2
<1>6. ASSUME NEW k \in 1 .. n - 1
      PROVE  left[k] = IF k < at THEN list[k] ELSE list[k + 1]
  <2>1. CASE k < at
    BY <1>3, <1>5, <2>1
  <2>2. CASE ~(k < at)
    <3>1. k - (at - 1) \in 1 .. n - at /\ at + (k - (at - 1)) = k + 1 /\ ~(k <= at - 1)
      BY <1>1, <2>2
    <3>2. QED
      BY <1>4, <1>5, <2>2, <3>1
  <2>3. QED
    BY <2>1, <2>2
<1>7. IsList(left)
  BY <1>5, IsListIf
<1>8. ToSet(left) = ToSet(list) \ {e}
  <2>1. ToSet(left) = {left[k] : k \in 1 .. n - 1}
    BY <1>5, <1>7, ListIs
  <2>2. ASSUME NEW k \in 1 .. n - 1 PROVE left[k] \in ToSet(list) \ {e}
    <3>1. PICK j \in 1 .. n : left[k] = list[j] /\ j # at
      BY <1>1, <1>6
    <3>2. QED
      BY <1>1, <3>1 DEF Distinct
  <2>3. ASSUME NEW j \in 1 .. n, j # at PROVE \E k \in 1 .. n - 1 : left[k] = list[j]
    <3>1. CASE j < at
      <4>1. j \in 1 .. n - 1
        BY <1>1, <3>1
      <4>2. QED
        BY <1>6, <3>1, <4>1
    <3>2. CASE ~(j < at)
      <4>1. j - 1 \in 1 .. n - 1 /\ ~(j - 1 < at) /\ j - 1 + 1 = j
        BY <1>1, <2>3, <3>2
      <4>2. QED
        BY <1>6, <4>1
    <3>3. QED
      BY <3>1, <3>2
  <2>4. QED
    BY <1>1, <2>1, <2>2, <2>3
<1>9. QED
  BY <1>5, <1>6, <1>7, <1>8 DEF left

-----------------------------------------------------------------------------
(* A list of routes as it always is: the routes of the core first, none    *)
(* twice, those of a plugin in their order.                                *)
Begins(list) ==
    /\ Len(list) >= Len(Core)
    /\ \A k \in 1 .. Len(Core) : list[k] = CoreRoutes[k]

Sound(list) ==
    /\ IsList(list) /\ Distinct(list) /\ Begins(list)
    /\ \A p \in Plugins : InOrder(list, RouteSet(p))

LEMMA CoreSound == Sound(CoreRoutes)
<1>1. IsList(CoreRoutes) /\ Len(CoreRoutes) = Len(Core) /\ Len(CoreRoutes) \in Nat
  BY RouteListsAre, ListIs
<1>2. Distinct(CoreRoutes) /\ Begins(CoreRoutes)
  BY <1>1, DistinctAssumption DEF Begins
<1>3. ASSUME NEW p \in Plugins PROVE InOrder(CoreRoutes, RouteSet(p))
  <2>1. Apart(RouteSet(p), CoreRoutes)
    BY DistinctAssumption
  <2>2. QED
    BY <2>1 DEF InOrder, Apart, ToSet
<1>4. QED
  BY <1>1, <1>2, <1>3 DEF Sound

(* A route of a plugin goes to the end, after those before it and before   *)
(* those that are not there yet.                                           *)
LEMMA SoundAppend ==
  ASSUME NEW list, Sound(list), NEW p \in Plugins, NEW at \in 1 .. Len(RouteSet(p)),
         \A j \in at .. Len(RouteSet(p)) : RouteSet(p)[j] \notin ToSet(list)
  PROVE  Sound(Append(list, RouteSet(p)[at]))
<1> DEFINE r == RouteSet(p)[at]
           new == Append(list, r)
           n == Len(list)
<1>1. /\ IsList(list) /\ n \in Nat /\ DOMAIN list = 1 .. n
      /\ ToSet(list) = {list[k] : k \in 1 .. n}
  BY ListIs DEF Sound
<1>2. /\ IsList(new) /\ Len(new) = n + 1 /\ new[n + 1] = r
      /\ \A k \in 1 .. n : new[k] = list[k]
  BY <1>1, AppendIs
<1>3. DOMAIN new = 1 .. n + 1
  BY <1>2, ListIs
<1>4. \A q \in Plugins : /\ Len(RouteSet(q)) \in Nat
                         /\ DOMAIN RouteSet(q) = 1 .. Len(RouteSet(q))
                         /\ ToSet(RouteSet(q)) = {RouteSet(q)[k] : k \in 1 .. Len(RouteSet(q))}
  BY RouteListsAre, ListIs
<1>5. r \notin ToSet(list) /\ r \in ToSet(RouteSet(p))
  BY <1>4
<1> HIDE DEF new, r, n
<1>6. Distinct(new)
  <2>1. Distinct(list)
    BY DEF Sound
  <2>2. ASSUME NEW k \in 1 .. n + 1, NEW l \in 1 .. n + 1, new[k] = new[l], k # l PROVE FALSE
    <3>1. CASE k \in 1 .. n /\ l \in 1 .. n
      BY <1>1, <1>2, <2>1, <2>2, <3>1 DEF Distinct
    <3>2. CASE k = n + 1 /\ l \in 1 .. n
      BY <1>1, <1>2, <1>5, <2>2, <3>2
    <3>3. CASE l = n + 1 /\ k \in 1 .. n
      BY <1>1, <1>2, <1>5, <2>2, <3>3
    <3>4. QED
      BY <1>1, <2>2, <3>1, <3>2, <3>3
  <2>3. QED
    BY <1>3, <2>2 DEF Distinct
<1>7. Begins(new)
  <2>1. Len(Core) \in Nat
    BY RouteListsAre, ListIs
  <2>2. Begins(list)
    BY DEF Sound
  <2>3. QED
    BY <1>1, <1>2, <2>1, <2>2 DEF Begins, n
<1>8. ASSUME NEW q \in Plugins, NEW k \in 1 .. n + 1, NEW l \in 1 .. n + 1,
             NEW i \in 1 .. Len(RouteSet(q)), NEW j \in 1 .. Len(RouteSet(q)),
             new[k] = RouteSet(q)[i], new[l] = RouteSet(q)[j], i < j
      PROVE  k < l
  <2>1. InOrder(list, RouteSet(q)) /\ Distinct(RouteSet(q))
    BY DistinctAssumption DEF Sound
  <2>2. i # j /\ RouteSet(q)[i] # RouteSet(q)[j]
    BY <1>4, <1>8, <2>1 DEF Distinct
  <2>3. CASE k \in 1 .. n /\ l \in 1 .. n
    BY <1>1, <1>2, <1>4, <1>8, <2>1, <2>3 DEF InOrder
  <2>4. CASE k \in 1 .. n /\ l = n + 1
    BY <1>1, <2>4
  <2>5. CASE k = n + 1 /\ l \in 1 .. n
    <3>1. r = RouteSet(q)[i] /\ r \in ToSet(RouteSet(q))
      BY <1>2, <1>4, <1>8, <2>5
    <3>2. p = q
      BY <1>5, <3>1, DistinctAssumption DEF Apart
    <3>3. i = at
      BY <1>4, <2>1, <3>1, <3>2 DEF Distinct, r
    <3>4. list[l] = RouteSet(p)[j] /\ j \in at .. Len(RouteSet(p))
      BY <1>2, <1>8, <2>5, <3>2, <3>3
    <3>5. QED
      BY <1>1, <2>5, <3>4
  <2>6. CASE k = n + 1 /\ l = n + 1
    BY <1>8, <2>2, <2>6
  <2>7. QED
    BY <1>1, <2>3, <2>4, <2>5, <2>6
<1>9. ASSUME NEW q \in Plugins PROVE InOrder(new, RouteSet(q))
  BY <1>3, <1>4, <1>8 DEF InOrder
<1>10. QED
  BY <1>2, <1>6, <1>7, <1>9 DEF Sound, new, r

(* A route of a plugin goes: nothing of the core, and no order, with it.   *)
LEMMA SoundRemove ==
  ASSUME NEW list, Sound(list), NEW p \in Plugins,
         NEW r \in ToSet(list), r \in ToSet(RouteSet(p))
  PROVE  Sound(RemoveFirst(list, r)) /\ ToSet(RemoveFirst(list, r)) = ToSet(list) \ {r}
<1> DEFINE n == Len(list)
<1>1. /\ IsList(list) /\ n \in Nat /\ DOMAIN list = 1 .. n /\ Distinct(list)
      /\ ToSet(list) = {list[k] : k \in 1 .. n}
  BY ListIs DEF Sound
<1>2. PICK at \in 1 .. n : r = list[at]
  BY <1>1
<1>3. PICK left : left = RemoveFirst(list, r)
  OBVIOUS
<1>4. /\ IsList(left) /\ Len(left) = n - 1
      /\ \A k \in 1 .. n - 1 : left[k] = IF k < at THEN list[k] ELSE list[k + 1]
      /\ ToSet(left) = ToSet(list) \ {r}
  BY <1>1, <1>2, <1>3, RemovedIs
<1>5. DOMAIN left = 1 .. n - 1
  BY <1>4, ListIs
<1> DEFINE from(k) == IF k < at THEN k ELSE k + 1
<1>6. ASSUME NEW k \in 1 .. n - 1 PROVE from(k) \in 1 .. n /\ left[k] = list[from(k)]
  BY <1>1, <1>4
<1>7. ASSUME NEW k \in 1 .. n - 1, NEW l \in 1 .. n - 1
      PROVE  (from(k) = from(l) => k = l) /\ (from(k) < from(l) => k < l)
  BY <1>1
<1> HIDE DEF from
<1>8. Distinct(left)
  BY <1>1, <1>5, <1>6, <1>7 DEF Distinct
<1>9. Begins(left)
  <2>1. Len(Core) \in Nat /\ n >= Len(Core) /\ \A k \in 1 .. Len(Core) : list[k] = CoreRoutes[k]
    BY RouteListsAre, ListIs DEF Sound, Begins
  <2>2. at > Len(Core)
    <3>1. SUFFICES ASSUME at \in 1 .. Len(Core) PROVE FALSE
      BY <1>1, <2>1
    <3>2. r \in ToSet(CoreRoutes)
      BY <1>2, <2>1, <3>1, RouteListsAre, ListIs
    <3>3. Apart(RouteSet(p), CoreRoutes)
      BY DistinctAssumption
    <3>4. QED
      BY <3>2, <3>3 DEF Apart
  <2>3. Len(left) >= Len(Core)
    BY <1>1, <1>4, <2>1, <2>2
  <2>4. ASSUME NEW k \in 1 .. Len(Core) PROVE left[k] = CoreRoutes[k]
    <3>1. k \in 1 .. n - 1 /\ k < at
      BY <1>1, <2>1, <2>2
    <3>2. QED
      BY <1>4, <2>1, <3>1
  <2>5. QED
    BY <2>3, <2>4 DEF Begins
<1>10. ASSUME NEW q \in Plugins PROVE InOrder(left, RouteSet(q))
  <2>1. InOrder(list, RouteSet(q))
    BY DEF Sound
  <2>2. ASSUME NEW k \in 1 .. n - 1, NEW l \in 1 .. n - 1,
               NEW i \in DOMAIN RouteSet(q), NEW j \in DOMAIN RouteSet(q),
               left[k] = RouteSet(q)[i], left[l] = RouteSet(q)[j], i < j
        PROVE  k < l
    <3>1. from(k) < from(l)
      BY <1>1, <1>6, <2>1, <2>2 DEF InOrder
    <3>2. QED
      BY <1>7, <3>1
  <2>3. QED
    BY <1>5, <2>2 DEF InOrder
<1>11. QED
  BY <1>3, <1>4, <1>8, <1>9, <1>10 DEF Sound

(* The routes of a plugin that is not there come after the others.         *)
LEMMA SoundConcat ==
  ASSUME NEW list, Sound(list), NEW p \in Plugins, Apart(RouteSet(p), list)
  PROVE  Sound(list \o RouteSet(p))
<1> DEFINE n == Len(list)
           m == Len(RouteSet(p))
           new == list \o RouteSet(p)
<1>1. /\ IsList(list) /\ n \in Nat /\ DOMAIN list = 1 .. n /\ Distinct(list) /\ Begins(list)
      /\ ToSet(list) = {list[k] : k \in 1 .. n}
  BY ListIs DEF Sound
<1>2. \A q \in Plugins : /\ IsList(RouteSet(q)) /\ Len(RouteSet(q)) \in Nat
                         /\ DOMAIN RouteSet(q) = 1 .. Len(RouteSet(q))
                         /\ ToSet(RouteSet(q)) = {RouteSet(q)[k] : k \in 1 .. Len(RouteSet(q))}
  BY RouteListsAre, ListIs
<1>3. /\ IsList(new) /\ Len(new) = n + m
      /\ \A k \in 1 .. n + m : new[k] = IF k <= n THEN list[k] ELSE RouteSet(p)[k - n]
  BY <1>1, <1>2, ConcatIs
<1>4. DOMAIN new = 1 .. n + m /\ m \in Nat
  BY <1>2, <1>3, ListIs
<1> HIDE DEF new, n, m
<1>5. ASSUME NEW k \in 1 .. n + m, k > n PROVE k - n \in 1 .. m /\ new[k] = RouteSet(p)[k - n]
  BY <1>1, <1>3, <1>4, <1>5
<1>6. ASSUME NEW k \in 1 .. n + m, ~(k > n) PROVE k \in 1 .. n /\ new[k] = list[k]
  BY <1>1, <1>3, <1>4, <1>6
<1>7. ASSUME NEW k \in 1 .. n, NEW j \in 1 .. m PROVE list[k] # RouteSet(p)[j]
  <2>1. RouteSet(p)[j] \in ToSet(RouteSet(p)) /\ list[k] \in ToSet(list)
    BY <1>1, <1>2 DEF m
  <2>2. QED
    BY <2>1 DEF Apart
<1>8. Distinct(new)
  <2>1. Distinct(RouteSet(p))
    BY DistinctAssumption
  <2>2. ASSUME NEW k \in 1 .. n + m, NEW l \in 1 .. n + m, new[k] = new[l] PROVE k = l
    <3>1. CASE k > n /\ l > n
      <4>1. k - n = l - n
        BY <1>2, <1>5, <2>1, <2>2, <3>1 DEF Distinct, m
      <4>2. QED
        BY <1>1, <1>4, <4>1
    <3>2. CASE ~(k > n) /\ ~(l > n)
      BY <1>1, <1>6, <2>2, <3>2 DEF Distinct
    <3>3. QED
      BY <1>5, <1>6, <1>7, <2>2, <3>1, <3>2
  <2>3. QED
    BY <1>4, <2>2 DEF Distinct
<1>9. Begins(new)
  <2>1. Len(Core) \in Nat
    BY RouteListsAre, ListIs
  <2>2. n >= Len(Core) /\ \A k \in 1 .. Len(Core) : list[k] = CoreRoutes[k]
    BY <1>1 DEF Begins, n
  <2>3. ASSUME NEW k \in 1 .. Len(Core) PROVE new[k] = CoreRoutes[k]
    <3>1. k \in 1 .. n + m /\ ~(k > n)
      BY <1>1, <1>4, <2>1, <2>2
    <3>2. QED
      BY <1>6, <2>2, <3>1
  <2>4. n + m >= Len(Core)
    BY <1>1, <1>4, <2>1, <2>2
  <2>5. QED
    BY <1>3, <2>3, <2>4 DEF Begins
<1>10. ASSUME NEW q \in Plugins, NEW k \in 1 .. n + m, NEW l \in 1 .. n + m,
              NEW i \in 1 .. Len(RouteSet(q)), NEW j \in 1 .. Len(RouteSet(q)),
              new[k] = RouteSet(q)[i], new[l] = RouteSet(q)[j], i < j
       PROVE  k < l
  <2>1. CASE k > n /\ l > n
    <3>1. new[k] \in ToSet(RouteSet(p)) /\ new[k] \in ToSet(RouteSet(q))
      BY <1>2, <1>5, <1>10, <2>1 DEF m
    <3>2. p = q
      BY <3>1, DistinctAssumption DEF Apart
    <3>3. Distinct(RouteSet(p))
      BY DistinctAssumption
    <3>4. k - n = i /\ l - n = j
      BY <1>2, <1>5, <1>10, <2>1, <3>2, <3>3 DEF Distinct, m
    <3>5. QED
      BY <1>1, <1>4, <1>10, <3>4
  <2>2. CASE ~(k > n) /\ ~(l > n)
    <3>1. InOrder(list, RouteSet(q))
      BY DEF Sound
    <3>2. QED
      BY <1>1, <1>2, <1>6, <1>10, <2>2, <3>1 DEF InOrder
  <2>3. CASE ~(k > n) /\ l > n
    BY <1>1, <1>4, <2>3
  <2>4. CASE k > n /\ ~(l > n)
    <3>1. new[k] \in ToSet(RouteSet(p)) /\ new[k] \in ToSet(RouteSet(q))
      BY <1>2, <1>5, <1>10, <2>4 DEF m
    <3>2. p = q
      BY <3>1, DistinctAssumption DEF Apart
    <3>3. j \in 1 .. m /\ list[l] = RouteSet(p)[j]
      BY <1>6, <1>10, <2>4, <3>2 DEF m
    <3>4. QED
      BY <1>6, <1>7, <2>4, <3>3
  <2>5. QED
    BY <2>1, <2>2, <2>3, <2>4
<1>11. ASSUME NEW q \in Plugins PROVE InOrder(new, RouteSet(q))
  BY <1>2, <1>4, <1>10 DEF InOrder
<1>12. QED
  BY <1>3, <1>8, <1>9, <1>11 DEF Sound, new

RoutesFor(set) == UNION {ToSet(RouteSet(p)) : p \in set}

(* The list after a start: by induction over the plugins that are loaded.  *)
LEMMA LoadedIs ==
  ASSUME NEW order \in Seq(Plugins), Distinct(order)
  PROVE  /\ Sound(Loaded(order))
         /\ ToSet(Loaded(order)) = ToSet(CoreRoutes) \cup RoutesFor(ToSet(order))
<1> DEFINE n == Len(order)
<1>1. n \in Nat /\ DOMAIN order = 1 .. n /\ ToSet(order) = {order[k] : k \in 1 .. n}
      /\ order \in [1 .. n -> Plugins]
  BY LenProperties DEF ToSet
<1>2. PICK seqs : seqs = [k \in 1 .. n |-> RouteSet(order[k])]
  OBVIOUS
<1>3. Loaded(order) = CoreRoutes \o FlattenSeq(seqs)
  BY <1>1, <1>2 DEF Loaded
<1>4. Len(seqs) = n
  <2>1. seqs \in [1 .. n -> {RouteSet(p) : p \in Plugins}]
    BY <1>1, <1>2
  <2>2. seqs \in Seq({RouteSet(p) : p \in Plugins})
    BY <1>1, <2>1, SeqDef
  <2>3. DOMAIN seqs = 1 .. n /\ DOMAIN seqs = 1 .. Len(seqs) /\ Len(seqs) \in Nat
    BY <1>2, <2>2, LenProperties
  <2>4. QED
    BY <1>1, <2>3
<1> DEFINE Named(i) == {order[k] : k \in 1 .. i}
           Right(part, i) ==
               /\ IsList(part)
               /\ Sound(CoreRoutes \o part)
               /\ ToSet(part) = RoutesFor(Named(i))
<1>5. CASE n = 0
  <2>1. seqs = <<>>
    BY <1>2, <1>5
  <2>2. FlattenSeq(seqs) = <<>>
    BY <1>4, <1>5, <2>1 DEF FlattenSeq
  <2>3. Loaded(order) = CoreRoutes
    BY <1>3, <2>2, ConcatEmptySeq, RouteListsAre DEF IsList
  <2>4. RoutesFor(ToSet(order)) = {}
    BY <1>1, <1>5 DEF RoutesFor
  <2>5. QED
    BY <2>3, <2>4, CoreSound
<1>6. CASE n # 0
  <2>1. PICK f : Flattens(f, seqs, n) /\ FlattenSeq(seqs) = f[n]
    BY <1>1, <1>4, <1>6, FlattenIs
  <2>2. ASSUME NEW i \in 1 .. n
        PROVE  f[i] = IF i = 1 THEN seqs[i] ELSE f[i - 1] \o seqs[i]
    BY <2>1 DEF Flattens
  <2>3. ASSUME NEW i \in 1 .. n
        PROVE  /\ order[i] \in Plugins /\ seqs[i] = RouteSet(order[i])
               /\ IsList(seqs[i]) /\ Apart(seqs[i], CoreRoutes)
    BY <1>1, <1>2, RouteListsAre, DistinctAssumption
  <2>4. Right(f[1], 1)
    <3>1. f[1] = RouteSet(order[1]) /\ order[1] \in Plugins
          /\ IsList(f[1]) /\ Apart(f[1], CoreRoutes)
      BY <1>1, <1>6, <2>2, <2>3
    <3>2. Sound(CoreRoutes \o f[1])
      BY <3>1, CoreSound, SoundConcat
    <3>3. Named(1) = {order[1]}
      OBVIOUS
    <3>4. QED
      BY <3>1, <3>2, <3>3 DEF RoutesFor
  <2>5. ASSUME NEW i \in 2 .. n, Right(f[i - 1], i - 1) PROVE Right(f[i], i)
    <3>1. i \in 1 .. n /\ i - 1 \in 1 .. n /\ i # 1
      BY <1>1
    <3> DEFINE before == f[i - 1]
               p == order[i]
    <3>2. p \in Plugins /\ IsList(RouteSet(p)) /\ Apart(RouteSet(p), CoreRoutes)
          /\ f[i] = before \o RouteSet(p)
      BY <2>2, <2>3, <3>1
    <3>3. ASSUME NEW q \in Named(i - 1) PROVE Apart(RouteSet(p), RouteSet(q))
      <4>1. PICK k \in 1 .. i - 1 : q = order[k]
        OBVIOUS
      <4>2. k \in 1 .. n /\ k # i
        BY <1>1, <3>1
      <4>3. q # p /\ q \in Plugins
        BY <1>1, <3>1, <4>1, <4>2 DEF Distinct
      <4>4. QED
        BY <3>2, <4>3, DistinctAssumption
    <3>4. Apart(RouteSet(p), before)
      BY <2>5, <3>3 DEF Apart, RoutesFor
    <3>5. IsList(CoreRoutes) /\ IsList(before)
      BY <2>5, RouteListsAre
    <3>6. ToSet(CoreRoutes \o before) = ToSet(CoreRoutes) \cup ToSet(before)
      BY <3>5, ConcatIs
    <3>7. Apart(RouteSet(p), CoreRoutes \o before)
      BY <3>2, <3>4, <3>6 DEF Apart
    <3>8. Sound((CoreRoutes \o before) \o RouteSet(p))
      BY <2>5, <3>2, <3>7, SoundConcat
    <3>9. (CoreRoutes \o before) \o RouteSet(p) = CoreRoutes \o f[i]
      <4>1. (CoreRoutes \o before) \o RouteSet(p) = CoreRoutes \o (before \o RouteSet(p))
        <5>1. IsList(CoreRoutes) /\ IsList(before) /\ IsList(RouteSet(p))
          BY <3>2, <3>5
        <5> HIDE DEF before, p
        <5>2. QED
          BY <5>1, ConcatAgain
      <4>2. QED
        BY <3>2, <4>1
    <3>10. IsList(f[i]) /\ ToSet(f[i]) = ToSet(before) \cup ToSet(RouteSet(p))
      BY <3>2, <3>5, ConcatIs
    <3>11. Named(i) = Named(i - 1) \cup {p}
      BY <3>1
    <3>12. QED
      BY <2>5, <3>8, <3>9, <3>10, <3>11 DEF RoutesFor
  <2> DEFINE T == {i \in 1 .. n : ~Right(f[i], i)}
  <2> HIDE DEF Right
  <2>6. T = {}
    <3>1. SUFFICES ASSUME T # {} PROVE FALSE
      OBVIOUS
    <3>2. T \in SUBSET Nat
      BY <1>1
    <3> HIDE DEF T
    <3>3. PICK i \in T : \A k \in T : i <= k
      BY <3>1, <3>2, LeastExists
    <3> USE DEF T
    <3>4. i # 1 /\ i \in 2 .. n /\ i - 1 \in 1 .. n /\ ~(i <= i - 1)
      BY <1>1, <2>4, <3>3
    <3>5. Right(f[i - 1], i - 1)
      BY <3>3, <3>4
    <3>6. QED
      BY <2>5, <3>3, <3>4, <3>5
  <2>7. Right(f[n], n)
    BY <1>1, <1>6, <2>6
  <2>8. Named(n) = ToSet(order)
    BY <1>1
  <2>9. IsList(f[n]) /\ Sound(CoreRoutes \o f[n]) /\ ToSet(f[n]) = RoutesFor(ToSet(order))
    BY <2>7, <2>8 DEF Right
  <2>10. ToSet(CoreRoutes \o f[n]) = ToSet(CoreRoutes) \cup ToSet(f[n])
    BY <2>9, RouteListsAre, ConcatIs
  <2>11. QED
    BY <1>3, <2>1, <2>9, <2>10
<1>7. QED
  BY <1>5, <1>6

-----------------------------------------------------------------------------
(* The invariant.  The main thread is at a route of a plugin it loads or   *)
(* unloads; the routes of a plugin that are present are then those before, *)
(* or from, the place it is at.                                            *)
MainOK ==
    /\ main \in [does : {"idle", "add", "remove"}, plugin : Plugins \cup {NoPlugin}, at : Nat]
    /\ main.does # "idle" =>
          main.plugin \in Plugins /\ main.at \in 1 .. Len(RouteSet(main.plugin)) + 1
    /\ main.does = "add" => main.plugin \notin plugins
    /\ main.does = "remove" => main.plugin \in plugins
    /\ plugins \subseteq Plugins /\ wanted \subseteq Plugins

Present(p) ==
    IF main.does # "idle" /\ main.plugin = p
    THEN {RouteSet(p)[j] : j \in IF main.does = "add" THEN 1 .. main.at - 1
                                                     ELSE main.at .. Len(RouteSet(p))}
    ELSE IF p \in plugins THEN ToSet(RouteSet(p)) ELSE {}

ListOK ==
    /\ Sound(routes)
    /\ ToSet(routes) = ToSet(CoreRoutes) \cup UNION {Present(p) : p \in Plugins}

(* A request that looks has passed over no route that matches, unless      *)
(* routes were removed, and over none of the core in any case; what it has *)
(* found is still present, unless routes were removed.                     *)
Shaped(s) ==
    /\ s = [pc |-> s.pc, request |-> s.request, at |-> s.at, route |-> s.route,
            here |-> s.here, removal |-> s.removal]
    /\ s.pc \in {"idle", "scan", "found", "missed"}
    /\ s.at \in Nat /\ (s.pc = "scan" => s.at >= 1)

Looked(s, list) ==
    /\ s.pc # "idle" /\ s.here => InList(s.request, list)
    /\ s.pc = "scan" =>
          \A k \in 1 .. Len(Core) : k < s.at => ~matches(CoreRoutes[k], s.request)
    /\ s.pc = "scan" /\ ~s.removal =>
          s.at <= Len(list) + 1 /\ \A k \in 1 .. s.at - 1 : ~matches(list[k], s.request)
    /\ s.pc = "missed" => (s.here => s.removal) /\ ~InList(s.request, CoreRoutes)

Found(s) ==
    s.pc = "found" /\ ~s.removal =>
        \A p \in Plugins : s.route \in ToSet(RouteSet(p)) => s.route \in Present(p)

ScansOK ==
    /\ scan = [t \in Requesters |-> scan[t]]
    /\ \A t \in Requesters : Shaped(scan[t]) /\ Looked(scan[t], routes) /\ Found(scan[t])

RoutingInv == MainOK /\ ListOK /\ ScansOK

LEMMA NoScanOK ==
  ASSUME NEW list
  PROVE  Shaped(NoScan) /\ Looked(NoScan, list) /\ Found(NoScan)
BY DEF NoScan, Shaped, Looked, Found

(* As an agent begins to serve, and as it ends. *)
LEMMA NoOrder == <<>> \in Seq(Plugins) /\ Distinct(<<>>) /\ ToSet(<<>>) = {}
BY DEF Distinct, ToSet

LEMMA RoutingInitHolds == RoutingInit => RoutingInv
<1> SUFFICES ASSUME RoutingInit PROVE RoutingInv
  OBVIOUS
<1>2. MainOK
  BY DEF RoutingInit, MainOK, NothingToDo
<1>3. ListOK
  <2>1. \A p \in Plugins : Present(p) = {}
    BY DEF RoutingInit, Present, NothingToDo
  <2>2. UNION {Present(p) : p \in Plugins} = {} /\ RoutesFor({}) = {}
    BY <2>1 DEF RoutesFor
  <2>3. Sound(Loaded(<<>>)) /\ ToSet(Loaded(<<>>)) = ToSet(CoreRoutes) \cup RoutesFor({})
    BY NoOrder, LoadedIs
  <2>4. QED
    BY <2>2, <2>3 DEF RoutingInit, ListOK
<1>4. ScansOK
  BY NoScanOK DEF RoutingInit, ScansOK
<1>5. QED
  BY <1>2, <1>3, <1>4 DEF RoutingInv

LEMMA RoutingStartsHolds ==
  ASSUME NEW order \in Seq(Plugins), Distinct(order), RoutingStarts(order)
  PROVE  RoutingInv'
<1>1. ToSet(order) \subseteq Plugins
  BY LenProperties DEF ToSet
<1>2. MainOK'
  BY <1>1 DEF RoutingStarts, MainOK, NothingToDo
<1>3. ListOK'
  <2>1. \A p \in Plugins : Present(p)' = IF p \in ToSet(order) THEN ToSet(RouteSet(p)) ELSE {}
    BY DEF RoutingStarts, Present, NothingToDo
  <2>2. UNION {Present(p)' : p \in Plugins} = RoutesFor(ToSet(order))
    BY <1>1, <2>1 DEF RoutesFor
  <2>3. Sound(routes') /\ ToSet(routes') = ToSet(CoreRoutes) \cup RoutesFor(ToSet(order))
    BY LoadedIs DEF RoutingStarts
  <2>4. QED
    BY <2>2, <2>3 DEF ListOK
<1>4. ScansOK'
  <2>1. scan' = [t \in Requesters |-> NoScan]
    BY DEF RoutingStarts
  <2>2. Shaped(NoScan) /\ Looked(NoScan, routes') /\ Found(NoScan)'
    BY DEF NoScan, Shaped, Looked, Found
  <2>3. QED
    BY <2>1, <2>2 DEF ScansOK, Found, NoScan
<1>5. QED
  BY <1>2, <1>3, <1>4 DEF RoutingInv

LEMMA RoutingEndsHolds == RoutingEnds => RoutingInv'
BY NoOrder, RoutingStartsHolds DEF RoutingEnds

-----------------------------------------------------------------------------
LEMMA RouteSetIs ==
  ASSUME NEW p \in Plugins
  PROVE  /\ Len(RouteSet(p)) \in Nat /\ DOMAIN RouteSet(p) = 1 .. Len(RouteSet(p))
         /\ ToSet(RouteSet(p)) = {RouteSet(p)[j] : j \in 1 .. Len(RouteSet(p))}
BY RouteListsAre, ListIs

(* The main thread takes up or puts down a plugin, or hears of a new       *)
(* configuration: the list, and what is present, stay.                     *)
LEMMA QuietSteps ==
  ASSUME RoutingInv,
         \/ \E p \in Plugins : load(p) \/ unload(p)
         \/ applied
         \/ \E new \in SUBSET Plugins : reload(new)
  PROVE  RoutingInv'
<1>0. MainOK /\ ListOK /\ ScansOK /\ routes' = routes /\ scan' = scan
  BY DEF RoutingInv, load, unload, applied, reload
<1>1. MainOK' /\ \A q \in Plugins : Present(q)' = Present(q)
  <2>1. ASSUME NEW new \in SUBSET Plugins, reload(new)
        PROVE  MainOK' /\ \A q \in Plugins : Present(q)' = Present(q)
    BY <1>0, <2>1 DEF reload, MainOK, Present
  <2>2. ASSUME NEW p \in Plugins, load(p)
        PROVE  MainOK' /\ \A q \in Plugins : Present(q)' = Present(q)
    <3>1. MainOK'
      BY <1>0, <2>2, RouteSetIs DEF load, MainOK
    <3>2. Present(p)' = {} /\ Present(p) = {}
      BY <1>0, <2>2 DEF load, Present
    <3>3. \A q \in Plugins : q # p => Present(q)' = Present(q)
      BY <1>0, <2>2 DEF load, Present
    <3>4. QED
      BY <3>1, <3>2, <3>3
  <2>3. ASSUME NEW p \in Plugins, unload(p)
        PROVE  MainOK' /\ \A q \in Plugins : Present(q)' = Present(q)
    <3>1. MainOK'
      BY <1>0, <2>3, RouteSetIs DEF unload, MainOK
    <3>2. Present(p)' = ToSet(RouteSet(p)) /\ Present(p) = ToSet(RouteSet(p))
      BY <1>0, <2>3, RouteSetIs DEF unload, Present
    <3>3. \A q \in Plugins : q # p => Present(q)' = Present(q)
      BY <1>0, <2>3 DEF unload, Present
    <3>4. QED
      BY <3>1, <3>2, <3>3
  <2>4. CASE applied
    <3>1. PICK p : p = main.plugin
      OBVIOUS
    <3>2. /\ p \in Plugins /\ main.does \in {"add", "remove"}
          /\ main.at = Len(RouteSet(p)) + 1
          /\ plugins' = (IF main.does = "add" THEN plugins \cup {p} ELSE plugins \ {p})
          /\ main' = NothingToDo /\ wanted' = wanted
      BY <1>0, <2>4, <3>1, RouteSetIs DEF applied, MainOK
    <3>3. MainOK'
      BY <1>0, <3>2 DEF MainOK, NothingToDo
    <3>4. Present(p)' = Present(p)
      <4>1. CASE main.does = "add"
        BY <3>1, <3>2, <4>1, RouteSetIs DEF Present, NothingToDo
      <4>2. CASE main.does = "remove"
        BY <3>1, <3>2, <4>2, RouteSetIs DEF Present, NothingToDo
      <4>3. QED
        BY <3>2, <4>1, <4>2
    <3>5. \A q \in Plugins : q # p => Present(q)' = Present(q)
      BY <3>1, <3>2 DEF Present, NothingToDo
    <3>6. QED
      BY <3>3, <3>4, <3>5
  <2>5. QED
    BY <2>1, <2>2, <2>3, <2>4
<1>2. ListOK'
  BY <1>0, <1>1 DEF ListOK
<1>3. ASSUME NEW t \in Requesters
      PROVE  (Shaped(scan[t]) /\ Looked(scan[t], routes) /\ Found(scan[t]))'
  <2>1. Shaped(scan[t]) /\ Looked(scan[t], routes) /\ Found(scan[t])
    BY <1>0 DEF ScansOK
  <2>2. Shaped(scan[t])' /\ Looked(scan[t], routes)'
    BY <1>0, <2>1
  <2>3. Found(scan[t])'
    BY <1>0, <1>1, <2>1 DEF Found
  <2>4. QED
    BY <2>2, <2>3
<1>4. ScansOK'
  <2>1. scan' = [t \in Requesters |-> scan'[t]]
    BY <1>0, Zenon DEF ScansOK
  <2>2. QED
    BY <1>3, <2>1, Zenon DEF ScansOK
<1>5. QED
  BY <1>1, <1>2, <1>4 DEF RoutingInv

-----------------------------------------------------------------------------
(* What a change of the list leaves of a request that is on, and adds.     *)
Notices(s, now, list, removal) ==
    /\ s.pc = "idle" => now = s
    /\ s.pc # "idle" =>
          /\ now.pc = s.pc /\ now.request = s.request /\ now.at = s.at /\ now.route = s.route
          /\ now.here => s.here /\ InList(s.request, list)
          /\ s.removal => now.removal
          /\ removal => now.removal
          /\ now.removal => s.removal \/ removal

LEMMA NoticedIs ==
  ASSUME ScansOK, NEW list, NEW removal, Noticed(list, removal)
  PROVE  /\ scan' = [t \in Requesters |-> scan'[t]]
         /\ \A t \in Requesters :
               Shaped(scan'[t]) /\ Notices(scan[t], scan'[t], list, removal)
<1>1. \A t \in Requesters :
         scan'[t] = IF scan[t].pc = "idle" THEN scan[t]
                    ELSE [scan[t] EXCEPT !.here = @ /\ InList(scan[t].request, list),
                                         !.removal = @ \/ removal]
  BY DEF Noticed
<1>2. ASSUME NEW t \in Requesters
      PROVE  Shaped(scan'[t]) /\ Notices(scan[t], scan'[t], list, removal)
  <2>1. Shaped(scan[t])
    BY DEF ScansOK
  <2>2. PICK s : s = scan[t]
    OBVIOUS
  <2>3. PICK here : here = (s.here /\ InList(s.request, list))
    OBVIOUS
  <2>4. PICK gone : gone = (s.removal \/ removal)
    OBVIOUS
  <2>5. CASE s.pc = "idle"
    BY <1>1, <2>1, <2>2, <2>5 DEF Notices
  <2>6. CASE s.pc # "idle"
    <3>1. scan'[t] = [s EXCEPT !.here = here, !.removal = gone]
      BY <1>1, <2>2, <2>3, <2>4, <2>6
    <3>2. scan'[t] = [pc |-> s.pc, request |-> s.request, at |-> s.at, route |-> s.route,
                      here |-> here, removal |-> gone]
      BY <2>1, <2>2, <3>1 DEF Shaped
    <3>3. PICK now : now = scan'[t]
      OBVIOUS
    <3>4. /\ now.pc = s.pc /\ now.request = s.request /\ now.at = s.at /\ now.route = s.route
          /\ now.here = here /\ now.removal = gone
          /\ Shaped(now)
      BY <2>1, <2>2, <3>2, <3>3 DEF Shaped
    <3>5. Notices(s, now, list, removal)
      BY <2>3, <2>4, <2>6, <3>4, Zenon DEF Notices
    <3>6. QED
      BY <2>2, <3>3, <3>4, <3>5
  <2>7. QED
    BY <2>5, <2>6
<1>3. scan' = [t \in Requesters |-> scan'[t]]
  BY DEF Noticed
<1>4. QED
  BY <1>2, <1>3

(* The places of the plugin the main thread is at, and where the routes    *)
(* there stand.                                                            *)
LEMMA AtRoute ==
  ASSUME MainOK, main.does # "idle", main.at <= Len(RouteSet(main.plugin))
  PROVE  /\ main.plugin \in Plugins
         /\ Len(RouteSet(main.plugin)) \in Nat
         /\ main.at \in 1 .. Len(RouteSet(main.plugin))
         /\ Distinct(RouteSet(main.plugin))
         /\ DOMAIN RouteSet(main.plugin) = 1 .. Len(RouteSet(main.plugin))
         /\ \A q \in Plugins : q # main.plugin =>
               \A j \in 1 .. Len(RouteSet(main.plugin)) :
                  RouteSet(main.plugin)[j] \notin Present(q)
         /\ \A j \in 1 .. Len(RouteSet(main.plugin)) :
               RouteSet(main.plugin)[j] \notin ToSet(CoreRoutes)
<1> DEFINE p == main.plugin
<1>1. p \in Plugins /\ main.at \in 1 .. Len(RouteSet(p)) + 1 /\ main.at \in Nat
  BY DEF MainOK
<1>2. /\ Len(RouteSet(p)) \in Nat /\ DOMAIN RouteSet(p) = 1 .. Len(RouteSet(p))
      /\ ToSet(RouteSet(p)) = {RouteSet(p)[j] : j \in 1 .. Len(RouteSet(p))}
  BY <1>1, RouteSetIs
<1>3. main.at \in 1 .. Len(RouteSet(p))
  BY <1>1, <1>2
<1>4. Distinct(RouteSet(p)) /\ Apart(RouteSet(p), CoreRoutes)
  BY <1>1, DistinctAssumption
<1>5. ASSUME NEW q \in Plugins, q # p, NEW j \in 1 .. Len(RouteSet(p))
      PROVE  RouteSet(p)[j] \notin Present(q)
  <2>1. Apart(RouteSet(p), RouteSet(q))
    BY <1>1, <1>5, DistinctAssumption
  <2>2. Present(q) \subseteq ToSet(RouteSet(q))
    BY <1>5 DEF Present
  <2>3. QED
    BY <1>2, <2>1, <2>2 DEF Apart
<1>6. QED
  BY <1>1, <1>2, <1>3, <1>4, <1>5 DEF Apart

LEMMA AddStep ==
  ASSUME RoutingInv, add
  PROVE  RoutingInv'
<1>0. /\ MainOK /\ ListOK /\ ScansOK
      /\ main.does = "add" /\ main.at <= Len(RouteSet(main.plugin))
      /\ routes' = Appended(RouteSet(main.plugin)[main.at])
      /\ main' = [main EXCEPT !.at = @ + 1]
      /\ Noticed(routes', FALSE)
      /\ plugins' = plugins /\ wanted' = wanted
  BY DEF RoutingInv, add
<1>1. PICK p, at, r : p = main.plugin /\ at = main.at /\ r = RouteSet(p)[at]
  OBVIOUS
<1>2. /\ p \in Plugins /\ Len(RouteSet(p)) \in Nat /\ at \in 1 .. Len(RouteSet(p))
      /\ Distinct(RouteSet(p)) /\ DOMAIN RouteSet(p) = 1 .. Len(RouteSet(p))
      /\ \A q \in Plugins : q # p =>
            \A j \in 1 .. Len(RouteSet(p)) : RouteSet(p)[j] \notin Present(q)
      /\ \A j \in 1 .. Len(RouteSet(p)) : RouteSet(p)[j] \notin ToSet(CoreRoutes)
  BY <1>0, <1>1, AtRoute
<1>3. Present(p) = {RouteSet(p)[j] : j \in 1 .. at - 1}
  BY <1>0, <1>1 DEF Present
<1>4. ToSet(routes) = ToSet(CoreRoutes) \cup UNION {Present(q) : q \in Plugins} /\ Sound(routes)
  BY <1>0 DEF ListOK
<1>5. ASSUME NEW j \in at .. Len(RouteSet(p)) PROVE RouteSet(p)[j] \notin ToSet(routes)
  <2>1. j \in 1 .. Len(RouteSet(p))
    BY <1>2
  <2>2. RouteSet(p)[j] \notin Present(p)
    <3>1. ASSUME NEW i \in 1 .. at - 1, RouteSet(p)[i] = RouteSet(p)[j] PROVE FALSE
      <4>1. i \in 1 .. Len(RouteSet(p)) /\ i # j
        BY <1>2
      <4>2. QED
        BY <1>2, <2>1, <3>1, <4>1 DEF Distinct
    <3>2. QED
      BY <1>3, <3>1
  <2>3. QED
    BY <1>2, <1>4, <2>1, <2>2
<1>6. routes' = Append(routes, r)
  <2>1. at \in at .. Len(RouteSet(p))
    BY <1>2
  <2>2. r \notin ToSet(routes)
    BY <1>1, <1>5, <2>1
  <2>3. QED
    BY <1>0, <1>1, <2>2 DEF Appended
<1>7. Sound(routes')
  BY <1>1, <1>2, <1>4, <1>5, <1>6, SoundAppend
<1>8. /\ Len(routes) \in Nat /\ Len(routes') = Len(routes) + 1
      /\ \A k \in 1 .. Len(routes) : routes'[k] = routes[k]
      /\ ToSet(routes') = ToSet(routes) \cup {r}
      /\ DOMAIN routes = 1 .. Len(routes) /\ DOMAIN routes' = 1 .. Len(routes')
  <2>1. IsList(routes) /\ IsList(routes')
    BY <1>4, <1>7 DEF Sound
  <2>2. QED
    BY <1>6, <2>1, AppendIs, ListIs
<1>9. /\ main'.does = "add" /\ main'.plugin = p /\ main'.at = at + 1
      /\ main' \in [does : {"idle", "add", "remove"}, plugin : Plugins \cup {NoPlugin}, at : Nat]
  BY <1>0, <1>1 DEF MainOK
<1>10. MainOK'
  BY <1>0, <1>1, <1>2, <1>9 DEF MainOK
<1>11. Present(p)' = Present(p) \cup {r}
  <2>1. PICK m : m = main'
    OBVIOUS
  <2>2. m.does = "add" /\ m.plugin = p /\ m.at = at + 1
    BY <1>9, <2>1
  <2>3. Present(p)' = {RouteSet(p)[j] : j \in 1 .. m.at - 1}
    BY <2>1, <2>2 DEF Present
  <2>4. 1 .. m.at - 1 = (1 .. at - 1) \cup {at}
    BY <1>2, <2>2
  <2>5. QED
    BY <1>1, <1>3, <2>3, <2>4
<1>12. ASSUME NEW q \in Plugins, q # p PROVE Present(q)' = Present(q)
  BY <1>0, <1>1, <1>9, <1>12 DEF Present
<1>13. ListOK'
  <2>1. UNION {Present(q)' : q \in Plugins} = (UNION {Present(q) : q \in Plugins}) \cup {r}
    BY <1>2, <1>11, <1>12
  <2>2. QED
    BY <1>4, <1>7, <1>8, <2>1 DEF ListOK
<1>14. ASSUME NEW t \in Requesters
       PROVE  Shaped(scan[t])' /\ Looked(scan[t], routes)' /\ Found(scan[t])'
  <2>1. Shaped(scan[t]) /\ Looked(scan[t], routes) /\ Found(scan[t])
    BY <1>0 DEF ScansOK
  <2>2. PICK s : s = scan[t]
    OBVIOUS
  <2>3. PICK now : now = scan'[t]
    OBVIOUS
  <2>4. PICK list : list = routes'
    OBVIOUS
  <2>5. Shaped(now) /\ Notices(s, now, list, FALSE)
    BY <1>0, <2>2, <2>3, <2>4, NoticedIs
  <2>6. Looked(now, list)
    <3>1. CASE s.pc = "idle"
      BY <2>5, <3>1 DEF Notices, Looked
    <3>2. CASE s.pc # "idle"
      <4>1. /\ now.pc = s.pc /\ now.request = s.request /\ now.at = s.at /\ now.route = s.route
            /\ now.here => s.here /\ InList(s.request, list)
            /\ s.removal <=> now.removal
        BY <2>5, <3>2 DEF Notices
      <4>2. Shaped(s) /\ Looked(s, routes)
        BY <2>1, <2>2
      <4>3. now.here => InList(now.request, list)
        BY <4>1
      <4>4. now.pc = "scan" =>
               \A k \in 1 .. Len(Core) : k < now.at => ~matches(CoreRoutes[k], now.request)
        BY <4>1, <4>2 DEF Looked
      <4>5. ASSUME now.pc = "scan", ~now.removal
            PROVE  now.at <= Len(list) + 1
                   /\ \A k \in 1 .. now.at - 1 : ~matches(list[k], now.request)
        <5>1. /\ s.at \in Nat /\ s.at <= Len(routes) + 1
              /\ \A k \in 1 .. s.at - 1 : ~matches(routes[k], s.request)
          BY <4>1, <4>2, <4>5 DEF Looked, Shaped
        <5>2. \A k \in 1 .. s.at - 1 : k \in 1 .. Len(routes)
          BY <1>8, <5>1
        <5>3. \A k \in 1 .. s.at - 1 : ~matches(list[k], now.request)
          BY <1>8, <2>4, <4>1, <5>1, <5>2
        <5>4. now.at <= Len(list) + 1
          BY <1>8, <2>4, <4>1, <5>1
        <5>5. QED
          BY <4>1, <5>3, <5>4
      <4>6. now.pc = "missed" =>
               (now.here => now.removal) /\ ~InList(now.request, CoreRoutes)
        BY <4>1, <4>2, Zenon DEF Looked
      <4>7. QED
        BY <4>3, <4>4, <4>5, <4>6 DEF Looked
    <3>3. QED
      BY <3>1, <3>2
  <2>7. Found(scan[t])'
    <3>1. SUFFICES ASSUME now.pc = "found", ~now.removal, NEW q \in Plugins,
                          now.route \in ToSet(RouteSet(q))
                   PROVE  now.route \in Present(q)'
      BY <2>3 DEF Found
    <3>2. s.pc = "found" /\ ~s.removal /\ s.route = now.route
      BY <2>5, <3>1 DEF Notices
    <3>3. now.route \in Present(q)
      BY <2>1, <2>2, <3>1, <3>2 DEF Found
    <3>4. QED
      BY <1>11, <1>12, <3>3
  <2>8. QED
    BY <2>3, <2>4, <2>5, <2>6, <2>7
<1>15. ScansOK'
  <2>1. scan' = [t \in Requesters |-> scan'[t]]
    BY <1>0, NoticedIs
  <2>2. QED
    BY <1>14, <2>1, Zenon DEF ScansOK
<1>16. QED
  BY <1>10, <1>13, <1>15 DEF RoutingInv

LEMMA RemoveStep ==
  ASSUME RoutingInv, remove
  PROVE  RoutingInv'
<1>0. /\ MainOK /\ ListOK /\ ScansOK
      /\ main.does = "remove" /\ main.at <= Len(RouteSet(main.plugin))
      /\ routes' = Removed(RouteSet(main.plugin)[main.at])
      /\ main' = [main EXCEPT !.at = @ + 1]
      /\ Noticed(routes', TRUE)
      /\ plugins' = plugins /\ wanted' = wanted
  BY DEF RoutingInv, remove
<1>1. PICK p, at, r : p = main.plugin /\ at = main.at /\ r = RouteSet(p)[at]
  OBVIOUS
<1>2. /\ p \in Plugins /\ Len(RouteSet(p)) \in Nat /\ at \in 1 .. Len(RouteSet(p))
      /\ Distinct(RouteSet(p)) /\ DOMAIN RouteSet(p) = 1 .. Len(RouteSet(p))
      /\ \A q \in Plugins : q # p =>
            \A j \in 1 .. Len(RouteSet(p)) : RouteSet(p)[j] \notin Present(q)
      /\ \A j \in 1 .. Len(RouteSet(p)) : RouteSet(p)[j] \notin ToSet(CoreRoutes)
  BY <1>0, <1>1, AtRoute
<1>3. Present(p) = {RouteSet(p)[j] : j \in at .. Len(RouteSet(p))}
  BY <1>0, <1>1 DEF Present
<1>4. ToSet(routes) = ToSet(CoreRoutes) \cup UNION {Present(q) : q \in Plugins} /\ Sound(routes)
  BY <1>0 DEF ListOK
<1>5. r \in Present(p) /\ r \in ToSet(routes) /\ r \in ToSet(RouteSet(p))
  <2>1. at \in at .. Len(RouteSet(p))
    BY <1>2
  <2>2. r \in Present(p) /\ r \in ToSet(RouteSet(p))
    BY <1>1, <1>2, <1>3, <2>1, RouteSetIs
  <2>3. QED
    BY <1>2, <1>4, <2>2
<1>6. routes' = RemoveFirst(routes, r)
  BY <1>0, <1>1, <1>5 DEF Removed
<1>7. Sound(routes') /\ ToSet(routes') = ToSet(routes) \ {r}
  BY <1>2, <1>4, <1>5, <1>6, SoundRemove
<1>8. /\ main'.does = "remove" /\ main'.plugin = p /\ main'.at = at + 1
      /\ main' \in [does : {"idle", "add", "remove"}, plugin : Plugins \cup {NoPlugin}, at : Nat]
  BY <1>0, <1>1 DEF MainOK
<1>9. MainOK'
  BY <1>0, <1>1, <1>2, <1>8 DEF MainOK
<1>10. Present(p)' = Present(p) \ {r}
  <2>1. PICK m : m = main'
    OBVIOUS
  <2>2. m.does = "remove" /\ m.plugin = p /\ m.at = at + 1
    BY <1>8, <2>1
  <2>3. Present(p)' = {RouteSet(p)[j] : j \in m.at .. Len(RouteSet(p))}
    BY <2>1, <2>2 DEF Present
  <2>4. at .. Len(RouteSet(p)) = (m.at .. Len(RouteSet(p))) \cup {at}
        /\ at \notin m.at .. Len(RouteSet(p))
    BY <1>2, <2>2
  <2>5. ASSUME NEW j \in m.at .. Len(RouteSet(p)) PROVE RouteSet(p)[j] # r
    <3>1. j \in 1 .. Len(RouteSet(p)) /\ j # at
      BY <1>2, <2>2
    <3>2. QED
      BY <1>1, <1>2, <3>1 DEF Distinct
  <2>6. QED
    BY <1>1, <1>3, <2>3, <2>4, <2>5
<1>11. ASSUME NEW q \in Plugins, q # p PROVE Present(q)' = Present(q) /\ r \notin Present(q)
  BY <1>0, <1>1, <1>2, <1>8, <1>11 DEF Present
<1>12. ListOK'
  <2>1. UNION {Present(q)' : q \in Plugins} = (UNION {Present(q) : q \in Plugins}) \ {r}
    BY <1>2, <1>10, <1>11
  <2>2. r \notin ToSet(CoreRoutes)
    BY <1>1, <1>2
  <2>3. QED
    BY <1>4, <1>7, <2>1, <2>2 DEF ListOK
<1>13. ASSUME NEW t \in Requesters
       PROVE  Shaped(scan[t])' /\ Looked(scan[t], routes)' /\ Found(scan[t])'
  <2>1. Shaped(scan[t]) /\ Looked(scan[t], routes) /\ Found(scan[t])
    BY <1>0 DEF ScansOK
  <2>2. PICK s : s = scan[t]
    OBVIOUS
  <2>3. PICK now : now = scan'[t]
    OBVIOUS
  <2>4. PICK list : list = routes'
    OBVIOUS
  <2>5. Shaped(now) /\ Notices(s, now, list, TRUE)
    BY <1>0, <2>2, <2>3, <2>4, NoticedIs
  <2>6. Looked(now, list)
    BY <2>1, <2>2, <2>5, Zenon DEF Notices, Looked
  <2>7. Found(scan[t])'
    <3>1. SUFFICES ASSUME now.pc = "found", ~now.removal
                   PROVE  FALSE
      BY <2>3 DEF Found
    <3>2. QED
      BY <2>5, <3>1 DEF Notices
  <2>8. QED
    BY <2>3, <2>4, <2>5, <2>6, <2>7
<1>14. ScansOK'
  <2>1. scan' = [t \in Requesters |-> scan'[t]]
    BY <1>0, NoticedIs
  <2>2. QED
    BY <1>13, <2>1, Zenon DEF ScansOK
<1>15. QED
  BY <1>9, <1>12, <1>14 DEF RoutingInv

-----------------------------------------------------------------------------
(* A step of one request leaves the list and the others alone.             *)
LEMMA OneScan ==
  ASSUME RoutingInv, UNCHANGED <<routes, plugins, wanted, main>>,
         NEW t \in Requesters, NEW now,
         scan' = [scan EXCEPT ![t] = now],
         Shaped(now), Looked(now, routes), Found(now)
  PROVE  RoutingInv'
<1>0. MainOK /\ ListOK /\ ScansOK
  BY DEF RoutingInv
<1>1. MainOK' /\ ListOK' /\ \A q \in Plugins : Present(q)' = Present(q)
  BY <1>0 DEF MainOK, ListOK, Present
<1>2. scan' = [u \in Requesters |-> scan'[u]]
  BY <1>0 DEF ScansOK
<1>3. ASSUME NEW u \in Requesters
      PROVE  Shaped(scan[u])' /\ Looked(scan[u], routes)' /\ Found(scan[u])'
  <2>1. scan'[u] = IF u = t THEN now ELSE scan[u]
    BY <1>0 DEF ScansOK
  <2>2. PICK s : s = scan'[u]
    OBVIOUS
  <2>3. Shaped(s) /\ Looked(s, routes) /\ Found(s)
    BY <1>0, <2>1, <2>2 DEF ScansOK
  <2>4. Found(scan[u])'
    BY <1>1, <2>2, <2>3 DEF Found
  <2>5. QED
    BY <2>2, <2>3, <2>4
<1>4. ScansOK'
  BY <1>2, <1>3, Zenon DEF ScansOK
<1>5. QED
  BY <1>1, <1>4 DEF RoutingInv

LEMMA GetRouteStep ==
  ASSUME RoutingInv, NEW t \in Requesters, NEW request, get_route(t, request)
  PROVE  RoutingInv'
<1>1. PICK now : now = [NoScan EXCEPT !.pc = "scan", !.request = request, !.at = 1,
                                      !.here = InList(request, routes)]
  OBVIOUS
<1>2. scan' = [scan EXCEPT ![t] = now] /\ UNCHANGED <<routes, plugins, wanted, main>>
  BY <1>1 DEF get_route
<1>3. PICK here : here = InList(request, routes)
  OBVIOUS
<1>4. now = [pc |-> "scan", request |-> request, at |-> 1, route |-> <<>>,
             here |-> here, removal |-> FALSE]
  BY <1>1, <1>3 DEF NoScan
<1>5. Shaped(now)
  BY <1>4 DEF Shaped
<1>6. Looked(now, routes)
  <2>1. now.pc = "scan" /\ now.at = 1 /\ now.request = request /\ now.here = here
    BY <1>4
  <2>2. now.here => InList(now.request, routes)
    BY <1>3, <2>1
  <2>3. Len(routes) \in Nat /\ Len(Core) \in Nat
    BY RouteListsAre, ListIs DEF RoutingInv, ListOK, Sound
  <2>4. QED
    BY <2>1, <2>2, <2>3 DEF Looked
<1>7. Found(now)
  BY <1>4 DEF Found
<1>8. QED
  BY <1>2, <1>5, <1>6, <1>7, OneScan

LEMMA AnswerStep ==
  ASSUME RoutingInv, NEW t \in Requesters, answer(t)
  PROVE  RoutingInv'
BY NoScanOK, OneScan DEF answer

(* The end of the list is past the routes of the core; a route that is     *)
(* found is in the list, and so present.                                   *)
LEMMA LookStep ==
  ASSUME RoutingInv, NEW t \in Requesters, look(t)
  PROVE  RoutingInv'
<1>0. /\ ListOK /\ ScansOK /\ scan[t].pc = "scan"
      /\ UNCHANGED <<routes, plugins, wanted, main>>
  BY DEF RoutingInv, look
<1>1. PICK s : s = scan[t]
  OBVIOUS
<1>2. Shaped(s) /\ Looked(s, routes) /\ s.pc = "scan" /\ s.at \in Nat /\ s.at >= 1
  BY <1>0, <1>1 DEF ScansOK, Shaped
<1>3. /\ Len(routes) \in Nat /\ DOMAIN routes = 1 .. Len(routes)
      /\ ToSet(routes) = {routes[k] : k \in 1 .. Len(routes)}
      /\ Len(Core) \in Nat /\ Len(Core) <= Len(routes)
      /\ \A k \in 1 .. Len(Core) : routes[k] = CoreRoutes[k]
      /\ DOMAIN CoreRoutes = 1 .. Len(Core)
  BY <1>0, RouteListsAre, ListIs DEF ListOK, Sound, Begins
<1>4. CASE s.at > Len(routes)
  <2>1. PICK now : now = [s EXCEPT !.pc = "missed"]
    OBVIOUS
  <2>2. scan' = [scan EXCEPT ![t] = now]
    BY <1>0, <1>1, <1>4, <2>1 DEF look, ScansOK
  <2>3. /\ Shaped(now) /\ now.pc = "missed" /\ now.request = s.request
        /\ now.here = s.here /\ now.removal = s.removal
    BY <1>2, <2>1 DEF Shaped
  <2>4. ~InList(s.request, CoreRoutes)
    <3>1. \A k \in 1 .. Len(Core) : k < s.at
      BY <1>2, <1>3, <1>4
    <3>2. QED
      BY <1>2, <1>3, <3>1 DEF Looked, InList
  <2>5. s.here => s.removal
    <3>1. SUFFICES ASSUME s.here, ~s.removal PROVE FALSE
      OBVIOUS
    <3>2. InList(s.request, routes) /\ s.at <= Len(routes) + 1
          /\ \A k \in 1 .. s.at - 1 : ~matches(routes[k], s.request)
      BY <1>2, <3>1 DEF Looked
    <3>3. 1 .. s.at - 1 = 1 .. Len(routes)
      BY <1>2, <1>3, <1>4, <3>2
    <3>4. QED
      BY <1>3, <3>2, <3>3 DEF InList
  <2>6. Looked(now, routes)
    BY <1>2, <2>3, <2>4, <2>5, Zenon DEF Looked
  <2>7. Found(now)
    BY <2>3 DEF Found
  <2>8. QED
    BY <1>0, <2>2, <2>3, <2>6, <2>7, OneScan
<1>5. CASE ~(s.at > Len(routes)) /\ matches(routes[s.at], s.request)
  <2>1. PICK now : now = [s EXCEPT !.pc = "found", !.route = routes[s.at]]
    OBVIOUS
  <2>2. scan' = [scan EXCEPT ![t] = now]
    BY <1>0, <1>1, <1>5, <2>1 DEF look, ScansOK
  <2>3. /\ Shaped(now) /\ now.pc = "found" /\ now.request = s.request
        /\ now.here = s.here /\ now.removal = s.removal /\ now.route = routes[s.at]
    BY <1>2, <2>1 DEF Shaped
  <2>4. Looked(now, routes)
    BY <1>2, <2>3, Zenon DEF Looked
  <2>5. routes[s.at] \in ToSet(routes)
    BY <1>2, <1>3, <1>5
  <2>6. ASSUME NEW p \in Plugins, now.route \in ToSet(RouteSet(p))
        PROVE  now.route \in Present(p)
    <3>1. Apart(RouteSet(p), CoreRoutes)
      BY DistinctAssumption
    <3>2. PICK q \in Plugins : now.route \in Present(q)
      BY <1>0, <2>3, <2>5, <2>6, <3>1 DEF ListOK, Apart
    <3>3. Present(q) \subseteq ToSet(RouteSet(q))
      <4>1. MainOK
        BY DEF RoutingInv
      <4>2. QED
        BY <4>1, RouteSetIs DEF Present, MainOK
    <3>4. p = q
      BY <2>6, <3>2, <3>3, DistinctAssumption DEF Apart
    <3>5. QED
      BY <3>2, <3>4
  <2>7. Found(now)
    BY <2>6 DEF Found
  <2>8. QED
    BY <1>0, <2>2, <2>3, <2>4, <2>7, OneScan
<1>6. CASE ~(s.at > Len(routes)) /\ ~matches(routes[s.at], s.request)
  <2>1. PICK now : now = [s EXCEPT !.at = @ + 1]
    OBVIOUS
  <2>2. scan' = [scan EXCEPT ![t] = now]
    BY <1>0, <1>1, <1>6, <2>1 DEF look, ScansOK
  <2>3. /\ Shaped(now) /\ now.pc = "scan" /\ now.request = s.request /\ now.at = s.at + 1
        /\ now.here = s.here /\ now.removal = s.removal
    BY <1>2, <2>1 DEF Shaped
  <2>4. Looked(now, routes)
    <3>1. now.here => InList(now.request, routes)
      BY <1>2, <2>3, Zenon DEF Looked
    <3>2. ASSUME NEW k \in 1 .. Len(Core), k < now.at
          PROVE  ~matches(CoreRoutes[k], now.request)
      <4>1. k < s.at \/ k = s.at
        BY <1>2, <1>3, <2>3, <3>2
      <4>2. QED
        BY <1>2, <1>3, <1>6, <2>3, <4>1 DEF Looked
    <3>3. ASSUME ~now.removal
          PROVE  now.at <= Len(routes) + 1
                 /\ \A k \in 1 .. now.at - 1 : ~matches(routes[k], now.request)
      <4>1. \A k \in 1 .. s.at - 1 : ~matches(routes[k], s.request)
        BY <1>2, <2>3, <3>3 DEF Looked
      <4>2. \A k \in 1 .. now.at - 1 : k \in 1 .. s.at - 1 \/ k = s.at
        BY <1>2, <2>3
      <4>3. now.at <= Len(routes) + 1
        BY <1>2, <1>3, <1>6, <2>3
      <4>4. QED
        BY <1>6, <2>3, <4>1, <4>2, <4>3
    <3>4. QED
      BY <2>3, <3>1, <3>2, <3>3 DEF Looked
  <2>5. Found(now)
    BY <2>3 DEF Found
  <2>6. QED
    BY <1>0, <2>2, <2>3, <2>4, <2>5, OneScan
<1>7. QED
  BY <1>4, <1>5, <1>6

-----------------------------------------------------------------------------
(* Whatever the main thread and the requests do keeps the invariant, and   *)
(* so does a step that is none of theirs.                                  *)
LEMMA RoutingStep ==
  ASSUME RoutingInv,
         \/ Apply
         \/ \E t \in Requesters : Serve(t)
         \/ \E new \in SUBSET Plugins \ {plugins} : reload(new)
         \/ \E t \in Requesters, request \in Requests : get_route(t, request)
  PROVE  RoutingInv'
<1>1. CASE Apply
  BY <1>1, AddStep, RemoveStep, QuietSteps DEF Apply
<1>2. CASE \E t \in Requesters : Serve(t)
  BY <1>2, LookStep, AnswerStep DEF Serve
<1>3. CASE \E new \in SUBSET Plugins \ {plugins} : reload(new)
  BY <1>3, QuietSteps
<1>4. CASE \E t \in Requesters, request \in Requests : get_route(t, request)
  BY <1>4, GetRouteStep
<1>5. QED
  BY <1>1, <1>2, <1>3, <1>4

LEMMA RoutingStutter ==
  ASSUME RoutingInv, UNCHANGED routingVars
  PROVE  RoutingInv'
<1>0. MainOK /\ ListOK /\ ScansOK /\ UNCHANGED <<routes, plugins, wanted, main, scan>>
  BY DEF RoutingInv, routingVars
<1>1. MainOK' /\ ListOK' /\ \A q \in Plugins : Present(q)' = Present(q)
  BY <1>0 DEF MainOK, ListOK, Present
<1>2. ASSUME NEW u \in Requesters
      PROVE  Shaped(scan[u])' /\ Looked(scan[u], routes)' /\ Found(scan[u])'
  <2>1. PICK s : s = scan[u]
    OBVIOUS
  <2>2. Shaped(s) /\ Looked(s, routes) /\ Found(s) /\ s = scan'[u]
    BY <1>0, <2>1 DEF ScansOK
  <2>3. Found(scan[u])'
    BY <1>1, <2>2 DEF Found
  <2>4. QED
    BY <1>0, <2>2, <2>3
<1>3. scan' = [u \in Requesters |-> scan'[u]]
  BY <1>0 DEF ScansOK
<1>4. ScansOK'
  BY <1>2, <1>3, Zenon DEF ScansOK
<1>5. QED
  BY <1>1, <1>4 DEF RoutingInv

-----------------------------------------------------------------------------
LEMMA TypedOfInv == RoutingInv => RoutingTyped
BY DEF RoutingInv, RoutingTyped, MainOK, ScansOK, Shaped

LEMMA MissedOfInv == RoutingInv => MissedOnlyByRemoval
BY Zenon DEF RoutingInv, MissedOnlyByRemoval, ScansOK, Looked

LEMMA FoundOfInv == RoutingInv => FoundIsLoaded
<1> SUFFICES ASSUME RoutingInv, NEW t \in Requesters, NEW p \in Plugins,
                    scan[t].pc = "found", scan[t].route \in ToSet(RouteSet(p)),
                    p \notin plugins, ~scan[t].removal
             PROVE  main.plugin = p
  BY DEF FoundIsLoaded
<1>1. scan[t].route \in Present(p)
  BY DEF RoutingInv, ScansOK, Found
<1>2. QED
  BY <1>1 DEF Present

(* A list without duplicates has as many places as elements. *)
LEMMA DistinctLength ==
  ASSUME NEW list, IsList(list), Distinct(list)
  PROVE  Len(list) = Cardinality(ToSet(list))
<1>1. /\ Len(list) \in Nat /\ DOMAIN list = 1 .. Len(list)
      /\ ToSet(list) = {list[k] : k \in 1 .. Len(list)}
      /\ list \in [1 .. Len(list) -> ToSet(list)]
  BY ListIs
<1>2. list \in Bijection(1 .. Len(list), ToSet(list))
  BY <1>1 DEF Bijection, Injection, Surjection, IsInjective, Distinct
<1>3. ExistsBijection(1 .. Len(list), ToSet(list))
  BY <1>2 DEF ExistsBijection
<1>4. QED
  BY <1>1, <1>3, FS_CountingElements

LEMMA RoutesOfInv == RoutingInv => RoutesOfPlugins
<1> SUFFICES ASSUME RoutingInv, main.does = "idle" PROVE
        /\ SubSeq(routes, 1, Len(Core)) = CoreRoutes
        /\ ToSet(routes) = ToSet(CoreRoutes) \cup UNION {ToSet(RouteSet(p)) : p \in plugins}
        /\ Len(routes) = Cardinality(ToSet(routes))
        /\ \A p \in plugins : InOrder(routes, RouteSet(p))
  BY DEF RoutesOfPlugins
<1>1. Sound(routes) /\ plugins \subseteq Plugins
      /\ ToSet(routes) = ToSet(CoreRoutes) \cup UNION {Present(p) : p \in Plugins}
  BY DEF RoutingInv, ListOK, MainOK
<1>2. SubSeq(routes, 1, Len(Core)) = CoreRoutes
  <2>1. /\ IsList(CoreRoutes) /\ Len(CoreRoutes) = Len(Core) /\ Len(Core) \in Nat
        /\ ToSet(CoreRoutes) = {CoreRoutes[k] : k \in 1 .. Len(Core)}
        /\ \A k \in 1 .. Len(Core) : routes[k] = CoreRoutes[k]
    BY <1>1, RouteListsAre, ListIs DEF Sound, Begins
  <2>2. PICK S : S = ToSet(CoreRoutes)
    OBVIOUS
  <2>3. PICK part : part = SubSeq(routes, 1, Len(Core))
    OBVIOUS
  <2>4. \A k \in 1 .. Len(Core) : routes[k] \in S
    BY <2>1, <2>2
  <2>5. /\ part \in Seq(S)
        /\ Len(part) = IF 1 <= Len(Core) THEN Len(Core) - 1 + 1 ELSE 0
        /\ \A k \in 1 .. Len(Core) - 1 + 1 : part[k] = routes[1 + k - 1]
    BY <2>1, <2>3, <2>4, SubSeqProperties
  <2>6. Len(part) = Len(Core) /\ Len(Core) - 1 + 1 = Len(Core)
    BY <2>1, <2>5
  <2>7. ASSUME NEW k \in 1 .. Len(Core) PROVE part[k] = CoreRoutes[k]
    <3>1. 1 + k - 1 = k
      BY <2>1
    <3>2. QED
      BY <2>1, <2>5, <2>6, <3>1
  <2>8. CoreRoutes \in Seq(S)
    BY <2>1, <2>2 DEF IsList
  <2>9. part = CoreRoutes
    BY <2>1, <2>5, <2>6, <2>7, <2>8, SeqEqual
  <2>10. QED
    BY <2>3, <2>9
<1>3. ToSet(routes) = ToSet(CoreRoutes) \cup UNION {ToSet(RouteSet(p)) : p \in plugins}
  <2>1. \A p \in Plugins : Present(p) = IF p \in plugins THEN ToSet(RouteSet(p)) ELSE {}
    BY DEF Present
  <2>2. UNION {Present(p) : p \in Plugins} = UNION {ToSet(RouteSet(p)) : p \in plugins}
    BY <1>1, <2>1
  <2>3. QED
    BY <1>1, <2>2
<1>4. Len(routes) = Cardinality(ToSet(routes))
  BY <1>1, DistinctLength DEF Sound
<1>5. \A p \in plugins : InOrder(routes, RouteSet(p))
  BY <1>1 DEF Sound
<1>6. QED
  BY <1>2, <1>3, <1>4, <1>5
================================================================================
