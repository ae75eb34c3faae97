-------------------------- MODULE FuelEntriesProofs --------------------------
(***************************************************************************)
(* Proofs about FuelEntries, and the alerts of FuelAlerts, for any number  *)
(* of phones and vehicles, logs of any length and faults of any number.    *)
(***************************************************************************)
EXTENDS FuelEntries, FiniteSetTheorems, SequenceTheorems, WellFoundedInduction, TLAPS

----------------------------------------------------------------------------
(* The first and the last of some positions. *)

LEMMA SmallestThere ==
    ASSUME NEW S \in SUBSET Nat, S # {} PROVE \E x \in S : \A y \in S : x <= y
  <1> DEFINE R == OpToRel(<, Nat)
  <1>1. IsWellFoundedOn(R, Nat)
    BY NatLessThanWellFounded
  <1>2. \A x, y \in Nat : x < y => <<x, y>> \in R
    BY DEF OpToRel
  <1> HIDE DEF R
  <1>3. PICK x \in S : \A y \in S : ~(<<y, x>> \in R)
    BY <1>1, WFMin
  <1>4. \A y \in S : ~(y < x)
    BY <1>2, <1>3, Zenon
  <1> QED
    BY <1>4

LEMMA LargestThere ==
    ASSUME NEW n \in Nat, NEW S \in SUBSET (1..n), S # {} PROVE \E x \in S : \A y \in S : x >= y
  <1> DEFINE T == {k \in Nat : \E i \in S : k = n - i}
  <1>1. T # {}
    <2>1. PICK i \in S : TRUE
      OBVIOUS
    <2>2. n - i \in T
      BY <2>1
    <2> QED
      BY <2>2
  <1>2. PICK x \in T : \A y \in T : x <= y
    <2> HIDE DEF T
    <2>1. T \in SUBSET Nat
      BY DEF T
    <2> QED
      BY <1>1, <2>1, SmallestThere
  <1>3. PICK i \in S : x = n - i
    BY <1>2
  <1>4. \A j \in S : n - j \in T
    OBVIOUS
  <1>5. \A j \in S : i >= j
    BY <1>2, <1>3, <1>4
  <1> QED
    BY <1>5

LEMMA MinFacts ==
    ASSUME NEW S \in SUBSET Nat, S # {} PROVE Min(S) \in S /\ \A y \in S : Min(S) <= y
  BY SmallestThere DEF Min

LEMMA MaxFacts ==
    ASSUME NEW n \in Nat, NEW S \in SUBSET (1..n), S # {}
    PROVE  Max(S) \in S /\ \A y \in S : Max(S) >= y
  BY LargestThere DEF Max

\* Finitely many dates have a latest one.
LEMMA LatestThere ==
    ASSUME NEW n \in Nat, NEW date, \A k \in 1..n : date[k] \in Int,
           NEW S \in SUBSET (1..n), S # {}
    PROVE  \E k \in S : \A l \in S : date[l] <= date[k]
  <1> DEFINE Bounded(m) == \E b \in Int : \A k \in 1..m : date[k] <= b
             Unbounded == {m \in 0..n : ~Bounded(m)}
  <1>1. Bounded(0)
    <2>1. \A k \in 1..0 : date[k] <= 0
      OBVIOUS
    <2> QED
      BY <2>1
  <1>2. ASSUME NEW m \in 1..n, Bounded(m - 1) PROVE Bounded(m)
    <2>1. PICK b \in Int : \A k \in 1..m-1 : date[k] <= b
      BY <1>2
    <2>2. CASE date[m] <= b
      <3>1. \A k \in 1..m : date[k] <= b
        BY <2>1, <2>2
      <3> QED
        BY <3>1
    <2>3. CASE ~(date[m] <= b)
      <3>1. \A k \in 1..m : date[k] <= date[m]
        BY <2>1, <2>3
      <3> QED
        BY <3>1
    <2> QED
      BY <2>2, <2>3
  <1> HIDE DEF Bounded
  <1>3. Bounded(n)
    <2> SUFFICES ASSUME ~Bounded(n) PROVE FALSE
      OBVIOUS
    <2>1. Unbounded \in SUBSET Nat /\ n \in Unbounded
      OBVIOUS
    <2> HIDE DEF Unbounded
    <2>2. PICK m \in Unbounded : \A k \in Unbounded : m <= k
      BY <2>1, SmallestThere
    <2>3. m \in 0..n /\ ~Bounded(m)
      BY <2>2 DEF Unbounded
    <2>4. m \in 1..n
      BY <1>1, <2>3
    <2>5. m - 1 \in 0..n /\ ~(m <= m - 1)
      BY <2>4
    <2>6. Bounded(m - 1)
      BY <2>2, <2>5 DEF Unbounded
    <2> QED
      BY <1>2, <2>3, <2>4, <2>6
  <1>4. PICK b \in Int : \A k \in 1..n : date[k] <= b
    BY <1>3 DEF Bounded
  <1> DEFINE Gaps == {g \in Nat : \E k \in S : g = b - date[k]}
  <1>5. \A k \in S : b - date[k] \in Gaps
    BY <1>4
  <1>6. Gaps # {} /\ Gaps \in SUBSET Nat
    BY <1>5
  <1> HIDE DEF Gaps
  <1>7. PICK g \in Gaps : \A h \in Gaps : g <= h
    BY <1>6, SmallestThere
  <1>8. PICK k \in S : g = b - date[k]
    BY <1>7 DEF Gaps
  <1>9. \A l \in S : date[l] <= date[k]
    BY <1>4, <1>5, <1>7, <1>8
  <1> QED
    BY <1>9

----------------------------------------------------------------------------
(* The alerts of an entry are made of the entries up to it only. Let f be  *)
(* a log and g what it was when its entry n was the last one.              *)

Liters(es, S) == MapThenSumSet(LAMBDA k : es[k].liters, S)
Distance(es, series, S) == MapThenSumSet(LAMBDA k : Driven(es[Before(k, series)], es[k]), S)

LEMMA LitersSettle ==
    ASSUME NEW f, NEW g, NEW S, \A k \in S : f[k] = g[k]
    PROVE  Liters(f, S) = Liters(g, S)
  <1> DEFINE c(s) == CHOOSE x \in s : TRUE
             F(sum) == [s \in SUBSET S |-> IF s = {} THEN 0 ELSE f[c(s)].liters + sum[s \ {c(s)}]]
             G(sum) == [s \in SUBSET S |-> IF s = {} THEN 0 ELSE g[c(s)].liters + sum[s \ {c(s)}]]
  <1>1. ASSUME NEW sum PROVE F(sum) = G(sum)
    <2>1. ASSUME NEW s \in SUBSET S, s # {} PROVE f[c(s)].liters = g[c(s)].liters
      <3>1. c(s) \in s
        BY <2>1
      <3> QED
        BY <2>1, <3>1
    <2> HIDE DEF c
    <2> QED
      BY <2>1
  <1>2. Liters(f, S) = (CHOOSE sum : sum = F(sum))[S]
    BY DEF Liters, MapThenSumSet, MapThenFoldSet
  <1>3. Liters(g, S) = (CHOOSE sum : sum = G(sum))[S]
    BY DEF Liters, MapThenSumSet, MapThenFoldSet
  <1> HIDE DEF F, G
  <1>4. (CHOOSE sum : sum = F(sum)) = (CHOOSE sum : sum = G(sum))
    BY <1>1, Zenon
  <1> QED
    BY <1>2, <1>3, <1>4

LEMMA DistanceSettles ==
    ASSUME NEW f, NEW g, NEW series, NEW S,
           \A k \in S : f[k] = g[k] /\ f[Before(k, series)] = g[Before(k, series)]
    PROVE  Distance(f, series, S) = Distance(g, series, S)
  <1> DEFINE c(s) == CHOOSE x \in s : TRUE
             df(k) == Driven(f[Before(k, series)], f[k])
             dg(k) == Driven(g[Before(k, series)], g[k])
             F(sum) == [s \in SUBSET S |-> IF s = {} THEN 0 ELSE df(c(s)) + sum[s \ {c(s)}]]
             G(sum) == [s \in SUBSET S |-> IF s = {} THEN 0 ELSE dg(c(s)) + sum[s \ {c(s)}]]
  <1>1. ASSUME NEW sum PROVE F(sum) = G(sum)
    <2>1. ASSUME NEW s \in SUBSET S, s # {} PROVE df(c(s)) = dg(c(s))
      <3>1. c(s) \in S
        BY <2>1
      <3> QED
        BY <3>1
    <2> HIDE DEF c, df, dg
    <2> QED
      BY <2>1
  <1>2. Distance(f, series, S) = (CHOOSE sum : sum = F(sum))[S]
    BY DEF Distance, MapThenSumSet, MapThenFoldSet
  <1>3. Distance(g, series, S) = (CHOOSE sum : sum = G(sum))[S]
    BY DEF Distance, MapThenSumSet, MapThenFoldSet
  <1> HIDE DEF F, G
  <1>4. (CHOOSE sum : sum = F(sum)) = (CHOOSE sum : sum = G(sum))
    BY <1>1, Zenon
  <1> QED
    BY <1>2, <1>3, <1>4

\* The entry before one that is not the first is there.
LEMMA BeforeThere ==
    ASSUME NEW n \in Nat, NEW series \in SUBSET (1..n), NEW k \in 1..n, k # Min(series),
           NEW first \in series, first <= k
    PROVE  Before(k, series) \in series /\ Before(k, series) < k
                   /\ \A j \in series : j < k => j <= Before(k, series)
  <1> DEFINE S == {j \in series : j < k}
  <1>1. Min(series) \in series /\ Min(series) <= first
    BY MinFacts
  <1>2. Min(series) \in S
    <2> HIDE DEF S
    <2>0. series \subseteq Nat /\ k \in Nat
      OBVIOUS
    <2>1. Min(series) \in Nat /\ k \in Nat /\ first \in Nat
      BY <1>1, <2>0
    <2>2. Min(series) < k
      BY <1>1, <2>1
    <2> QED
      BY <1>1, <2>2 DEF S
  <1>a. S \in SUBSET (1..n)
    OBVIOUS
  <1> HIDE DEF S
  <1>3. Max(S) \in S /\ \A j \in S : Max(S) >= j
    BY <1>2, <1>a, MaxFacts
  <1>4. Max(S) = Before(k, series)
    BY DEF S, Before
  <1> QED
    BY <1>3, <1>4 DEF S

LEMMA BaselineSettles ==
    ASSUME NEW n \in Nat, NEW f, NEW g, \A k \in 1..n : f[k] = g[k], NEW series \in SUBSET (1..n)
    PROVE  Baseline(f, series) = Baseline(g, series)
  <1>1. ASSUME NEW k \in series, k # Min(series)
        PROVE  f[k] = g[k] /\ f[Before(k, series)] = g[Before(k, series)]
    <2>1. k \in 1..n /\ k <= k
      BY <1>1
    <2>2. Before(k, series) \in series
      BY <1>1, <2>1, BeforeThere
    <2> QED
      BY <2>1, <2>2
  <1>2. Stretches(f, series) = Stretches(g, series)
    <2> DEFINE Long(es) == {k \in {j \in series : j # Min(series)} :
                               /\ Known(es[Before(k, series)], es[k])
                               /\ Driven(es[Before(k, series)], es[k]) >= 25}
    <2>1. Long(f) = Long(g)
      BY <1>1
    <2>2. /\ Stretches(f, series) = {k \in Long(f) : Cardinality({l \in Long(f) : l >= k}) <= 5}
          /\ Stretches(g, series) = {k \in Long(g) : Cardinality({l \in Long(g) : l >= k}) <= 5}
      BY DEF Stretches
    <2> HIDE DEF Long
    <2> QED
      BY <2>1, <2>2
  <1>3. \A k \in Stretches(f, series) : k \in series /\ k # Min(series)
    BY DEF Stretches
  <1> DEFINE S == Stretches(f, series)
  <1> HIDE DEF S
  <1>4. \A k \in S : f[k] = g[k] /\ f[Before(k, series)] = g[Before(k, series)]
    BY <1>1, <1>3 DEF S
  <1>5. Liters(f, S) = Liters(g, S)
    BY <1>4, LitersSettle
  <1>6. Distance(f, series, S) = Distance(g, series, S)
    BY <1>4, DistanceSettles
  <1>7. \A es \in {f, g} :
           Baseline(es, series) = [count |-> Cardinality(Stretches(es, series)),
                                    liters |-> Liters(es, Stretches(es, series)),
                                    km |-> Distance(es, series, Stretches(es, series))]
    BY DEF Baseline, Liters, Distance
  <1> QED
    BY <1>2, <1>5, <1>6, <1>7 DEF S

LEMMA AlertsSettleAt ==
    ASSUME NEW n \in Nat, n # 0, NEW f, NEW g, \A k \in 1..n : f[k] = g[k],
           f[n].date \in Int, FuelConstantsFit
    PROVE  EntryAlerts(f, n, Everything) = EntryAlerts(g, n, Everything)
  <1>0. \A series \in SUBSET (1..n) : Baseline(f, series) = Baseline(g, series)
    BY BaselineSettles, Zenon
  <1> DEFINE S == Series(f, n, Everything)
             T == S \ {n}
  <1>1. n \in 1..n /\ f[n] = g[n]
    OBVIOUS
  <1>2. S = Series(g, n, Everything)
    BY <1>1 DEF Series, InScope
  <1>3. S \in SUBSET (1..n) /\ T \in SUBSET (1..n)
    BY DEF Series
  <1>4. Baseline(f, T) = Baseline(g, T)
    <2> HIDE DEF S, T
    <2> QED
      BY <1>0, <1>3
  <1>5. SeriesAlerts(f, n, Everything) = SeriesAlerts(g, n, Everything)
    <2>1. CASE n = Min(S)
      BY <1>2, <2>1 DEF SeriesAlerts
    <2>2. CASE n # Min(S)
      <3>1. n \in S
        BY <1>1 DEF Series, InScope, Everything, FuelConstantsFit
      <3>2. Before(n, S) \in 1..n
        <4> HIDE DEF S
        <4>1. n <= n
          OBVIOUS
        <4> QED
          BY <1>1, <1>3, <2>2, <3>1, <4>1, BeforeThere
      <3>3. f[Before(n, S)] = g[Before(n, S)]
        BY <3>2
      <3> QED
        BY <1>1, <1>2, <1>4, <3>3, Zenon DEF SeriesAlerts
    <2> QED
      BY <2>1, <2>2
  <1> QED
    BY <1>1, <1>5 DEF EntryAlerts

----------------------------------------------------------------------------
(* Types. *)

LEMMA LogType ==
    ASSUME FuelTypeOK
    PROVE  /\ log \in Seq(FuelEntry) /\ Len(log) \in Nat /\ DOMAIN log = 1..Len(log)
           /\ \A k \in 1..Len(log) : log[k] \in FuelEntry
           /\ DOMAIN origin = 1..Len(log)
           /\ \A k \in 1..Len(log) : origin[k] \in Draft \cup {None}
           /\ origin \in Seq(Draft \cup {None}) /\ Len(origin) = Len(log)
           /\ \A k \in 1..Len(log) : seen[k] \in Nat
           /\ seen \in Seq(Nat) /\ Len(seen) = Len(log)
  <1>1. log \in Seq(FuelEntry) /\ Len(log) \in Nat /\ DOMAIN log = 1..Len(log)
    BY LenProperties DEF FuelTypeOK
  <1>2. origin \in [1..Len(log) -> Draft \cup {None}]
    BY <1>1 DEF FuelTypeOK
  <1>3. origin \in Seq(Draft \cup {None}) /\ Len(origin) = Len(log)
    BY <1>1, <1>2, SeqDef, LenProperties
  <1>4. seen \in [1..Len(log) -> Nat]
    BY <1>1 DEF FuelTypeOK
  <1>5. seen \in Seq(Nat) /\ Len(seen) = Len(log)
    BY <1>1, <1>4, SeqDef, LenProperties
  <1> QED
    BY <1>1, <1>2, <1>3, <1>4, <1>5, ElementOfSeq

\* Readings filled in are readings, or none.
LEMMA PreviousType ==
    ASSUME FuelTypeOK, NEW v \in Vehicles PROVE Previous(v) \in Nat \cup {None}
  <1> DEFINE with == {k \in DOMAIN log : log[k].vehicle = v /\ log[k].reading # None}
  <1>1. with \in SUBSET (1..Len(log)) /\ Len(log) \in Nat
    BY LogType
  <1>2. \A k \in with : log[k].reading \in Nat
    BY LogType DEF FuelEntry
  <1>3. with # {} => log[Max(with)].reading \in Nat
    <2> HIDE DEF with
    <2> QED
      BY <1>1, <1>2, MaxFacts
  <1>4. checked[v] # None => checked[v].reading \in Nat
    BY DEF FuelTypeOK
  <1> QED
    BY <1>3, <1>4, Zenon DEF Previous

\* The entry with the latest date, of some.
LEMMA LatestFacts ==
    ASSUME FuelTypeOK, NEW with \in SUBSET (1..Len(log)), with # {}
    PROVE  LET last == {k \in with : \A l \in with : log[l].date <= log[k].date}
           IN  Max(last) \in with /\ \A l \in with : /\ log[l].date <= log[Max(last)].date
                                                     /\ l > Max(last) => log[l].date < log[Max(last)].date
  <1> DEFINE last == {k \in with : \A l \in with : log[l].date <= log[k].date}
  <1>1. Len(log) \in Nat /\ \A k \in 1..Len(log) : log[k].date \in Int
    BY LogType DEF FuelEntry
  <1>2. last # {}
    <2> DEFINE date == [k \in 1..Len(log) |-> log[k].date]
    <2>1. \A k \in 1..Len(log) : date[k] \in Int /\ date[k] = log[k].date
      BY <1>1
    <2> HIDE DEF date
    <2>2. PICK k \in with : \A l \in with : date[l] <= date[k]
      BY <1>1, <2>1, LatestThere
    <2>3. k \in last
      BY <2>1, <2>2
    <2> QED
      BY <2>3
  <1>3. last \in SUBSET (1..Len(log))
    OBVIOUS
  <1>4. Max(last) \in last /\ \A l \in last : Max(last) >= l
    <2> HIDE DEF last
    <2> QED
      BY <1>1, <1>2, <1>3, MaxFacts
  <1>5. ASSUME NEW l \in with, l > Max(last) PROVE log[l].date < log[Max(last)].date
    <2>1. l \notin last
      <3> HIDE DEF last
      <3>1. l \in 1..Len(log) /\ Max(last) \in 1..Len(log)
        BY <1>3, <1>4
      <3> QED
        BY <1>1, <1>4, <1>5, <3>1
    <2>2. PICK m \in with : ~(log[m].date <= log[l].date)
      BY <2>1
    <2>3. log[m].date <= log[Max(last)].date
      BY <1>4
    <2>4. log[m].date \in Int /\ log[l].date \in Int /\ log[Max(last)].date \in Int
      BY <1>1, <1>3, <1>4
    <2> QED
      BY <2>2, <2>3, <2>4
  <1> QED
    BY <1>4, <1>5

LEMMA FallbackType ==
    ASSUME FuelTypeOK, NEW v \in Vehicles PROVE FallbackReading(v) \in Nat \cup {None}
  <1> DEFINE with == {k \in DOMAIN log : log[k].vehicle = v /\ log[k].reading # None}
             last == {k \in with : \A l \in with : log[l].date <= log[k].date}
  <1>1. with \in SUBSET (1..Len(log))
    BY LogType
  <1>2. \A k \in with : log[k].reading \in Nat
    BY LogType DEF FuelEntry
  <1>3. with # {} => Max(last) \in with
    <2> HIDE DEF with
    <2> QED
      BY <1>1, LatestFacts
  <1>4. FallbackReading(v) = IF with = {} THEN None ELSE log[Max(last)].reading
    BY DEF FallbackReading
  <1> HIDE DEF with, last
  <1> QED
    BY <1>2, <1>3, <1>4

LEMMA AddType ==
    ASSUME FuelConstantsFit, FuelTypeOK, NEW e \in FuelEntry, NEW d \in Draft \cup {None},
           NEW before \in Nat, Add(e, d, before)
    PROVE  /\ log' \in Seq(FuelEntry) /\ origin' \in [DOMAIN log' -> Draft \cup {None}]
           /\ seen' \in [DOMAIN log' -> Nat] /\ clock' \in 0..MaxClock
           /\ DOMAIN log' = 1..Len(log)+1 /\ Len(log') = Len(log) + 1
           /\ \A k \in 1..Len(log) : log'[k] = log[k] /\ origin'[k] = origin[k] /\ seen'[k] = seen[k]
           /\ log'[Len(log)+1] = e /\ origin'[Len(log)+1] = d /\ seen'[Len(log)+1] = before
  <1>1. /\ log' \in Seq(FuelEntry) /\ Len(log') = Len(log) + 1 /\ Len(log) \in Nat
        /\ \A k \in 1..Len(log) : log'[k] = log[k]
        /\ log'[Len(log)+1] = e
    BY LogType, AppendProperties DEF Add
  <1>2. /\ origin' \in Seq(Draft \cup {None}) /\ Len(origin') = Len(log) + 1
        /\ \A k \in 1..Len(log) : origin'[k] = origin[k]
        /\ origin'[Len(log)+1] = d
    BY LogType, AppendProperties DEF Add
  <1>3. /\ seen' \in Seq(Nat) /\ Len(seen') = Len(log) + 1
        /\ \A k \in 1..Len(log) : seen'[k] = seen[k]
        /\ seen'[Len(log)+1] = before
    BY LogType, AppendProperties DEF Add
  <1>4. DOMAIN log' = 1..Len(log)+1 /\ DOMAIN origin' = 1..Len(log)+1 /\ DOMAIN seen' = 1..Len(log)+1
    BY <1>1, <1>2, <1>3, LenProperties
  <1>5. origin' \in [DOMAIN log' -> Draft \cup {None}] /\ seen' \in [DOMAIN log' -> Nat]
    BY <1>1, <1>2, <1>3, <1>4, SeqDef
  <1>6. clock' \in 0..MaxClock
    BY DEF Add, FuelTypeOK, FuelConstantsFit
  <1> QED
    BY <1>1, <1>2, <1>3, <1>4, <1>5, <1>6

\* What a page holds: a draft while it is open, and that is what is stored, if anything is.
Held ==
    \A p \in Phones : /\ phone[p].step = "closed" <=> phone[p].draft = None
                     /\ phone[p].stored \in {None, phone[p].draft}

\* What a page waits for: a request of its own, and made of the draft it still has.
Waiting ==
    /\ \A p \in Phones : phone[p].step \in {"sending", "refreshing"} <=> phone[p].call # None
    /\ \A p \in Phones : phone[p].call # None => request[phone[p].call] # None
    /\ \A p, q \in Phones : phone[p].call = phone[q].call /\ phone[p].call # None => p = q
    /\ \A p \in Phones : phone[p].step = "sending" =>
          request[phone[p].call].draft.form = phone[p].draft.form
    /\ \A p \in Phones : phone[p].step = "refreshing" => request[phone[p].call].stage = "kept"

LEMMA FuelTypeInit == FuelConstantsFit /\ FuelInit => FuelTypeOK
  <1> SUFFICES ASSUME FuelConstantsFit, FuelInit PROVE FuelTypeOK
    OBVIOUS
  <1>1. log \in Seq(FuelEntry)
    BY DEF FuelConstantsFit, FuelInit
  <1>2. origin \in [DOMAIN log -> Draft \cup {None}]
    BY DEF FuelInit
  <1>3. Closed \in Phone
    BY DEF Closed, Phone
  <1> QED
    BY <1>1, <1>2, <1>3 DEF FuelConstantsFit, FuelInit, FuelTypeOK

LEMMA ThisDayType == ASSUME FuelConstantsFit, FuelTypeOK PROVE ThisDay \in Int
  BY DEF FuelConstantsFit, FuelTypeOK, ThisDay

\* Calls and phones are what they should be.
LEMMA SidesType ==
    ASSUME FuelConstantsFit, FuelTypeOK
    PROVE  /\ phone \in [Phones -> Phone] /\ request \in [Calls -> Request \cup {None}]
           /\ forms \in Nat /\ faults \in Int /\ clock \in Int /\ None \notin Request \cup Draft
           /\ None \notin Calls
           /\ \A c \in Calls : request[c] # None =>
                 request[c] \in Request /\ request[c].draft \in Draft /\ request[c].draft.form \in Nat
           /\ \A p \in Phones : phone[p].draft # None =>
                 phone[p].draft \in Draft /\ phone[p].draft.form \in Nat
           /\ \A p \in Phones : phone[p].call \in Calls \cup {None}
  <1>1. /\ phone \in [Phones -> Phone] /\ request \in [Calls -> Request \cup {None}]
        /\ forms \in Nat /\ faults \in Int /\ clock \in Int /\ None \notin Request \cup Draft
        /\ None \notin Calls
    BY DEF FuelTypeOK, FuelConstantsFit
  <1>2. \A d \in Draft : d.form \in Nat
    BY DEF Draft
  <1>3. \A c \in Calls : request[c] # None => request[c] \in Request /\ request[c].draft \in Draft
    BY <1>1 DEF Request
  <1>4. \A p \in Phones : phone[p].draft \in Draft \cup {None} /\ phone[p].call \in Calls \cup {None}
    BY <1>1 DEF Phone
  <1> QED
    BY <1>1, <1>2, <1>3, <1>4

LEMMA KeepAdds ==
    ASSUME FuelConstantsFit, FuelTypeOK, NEW c \in Calls, Keep(c)
    PROVE  LET d == request[c].draft
           IN  \E e \in FuelEntry :
                  /\ Add(e, d, request[c].seen) /\ e.vehicle = d.vehicle /\ e.date = d.date
                  /\ e.reading = request[c].reading
  <1> DEFINE d == request[c].draft
             content == d.content
             reading == request[c].reading
  <1>1. d \in Draft /\ reading \in Nat \cup {None}
    BY SidesType DEF Keep, Request
  <1>2. d.vehicle \in Vehicles /\ content \in Content /\ d.date \in Int
    BY <1>1 DEF Draft
  <1> DEFINE Made(s) == [vehicle |-> d.vehicle, site |-> s, date |-> d.date, reading |-> reading,
                         fallback |-> content.fallback, source |-> content.source, receipt |-> FALSE,
                         liters |-> content.liters, createdAt |-> clock]
  <1>3. PICK site \in Sites \cup {None} : Add(Made(site), d, request[c].seen)
    BY DEF Keep
  <1>4. clock \in Int
    BY SidesType
  <1> HIDE DEF d, reading
  <1>5. Made(site) \in FuelEntry
    BY <1>1, <1>2, <1>4 DEF FuelEntry, Content, Sources
  <1>6. Made(site).vehicle = d.vehicle /\ Made(site).date = d.date /\ Made(site).reading = reading
    OBVIOUS
  <1> HIDE DEF Made
  <1> QED
    BY <1>3, <1>5, <1>6, Zenon DEF reading, d

LEMMA StaffAdds ==
    ASSUME FuelConstantsFit, FuelTypeOK, NEW v \in Vehicles, NEW content \in Contents,
           NEW date \in {ThisDay - 1, ThisDay}, CreateByStaff(v, date, content)
    PROVE  \E e \in FuelEntry : Add(e, None, Len(log))
  <1>1. content \in Content /\ date \in Int /\ clock \in Int
    BY ThisDayType DEF FuelConstantsFit, FuelTypeOK
  <1> DEFINE Entered(receipt, site) ==
                [vehicle |-> v, site |-> site, date |-> date, reading |-> content.reading,
                 fallback |-> FALSE, source |-> "CARD", receipt |-> receipt, liters |-> content.liters,
                 createdAt |-> clock]
  <1>2. PICK receipt \in BOOLEAN, site \in Sites \cup {None} : Add(Entered(receipt, site), None, Len(log))
    BY DEF CreateByStaff
  <1>3. Entered(receipt, site) \in FuelEntry
    BY <1>1 DEF FuelEntry, Content, Sources
  <1> QED
    BY <1>2, <1>3

LEMMA FreshType ==
    ASSUME NEW v \in Vehicles, NEW date \in Int, NEW form \in Nat PROVE FreshDraft(v, date, form) \in Draft
  BY DEF FreshDraft, Draft, Blank, Content

\* A page with another step, or another draft, is one; and so is a request.
LEMMA ChangeType ==
    ASSUME FuelConstantsFit
    PROVE  /\ \A h \in Phone, step \in {"closed", "form", "sending", "refreshing"},
                 call \in Calls \cup {None} :
                 [h EXCEPT !.step = step, !.call = call] \in Phone /\ [h EXCEPT !.step = step] \in Phone
           /\ \A h \in Phone, d \in Draft : [h EXCEPT !.draft = d, !.stored = d] \in Phone
           /\ \A h \in Phone : [h EXCEPT !.stored = None] \in Phone
           /\ \A r \in Request : /\ \A stage \in {"kept", "refused"} : [r EXCEPT !.stage = stage] \in Request
                                 /\ [r EXCEPT !.sender = None] \in Request
           /\ \A p \in Phones, d \in Draft :
                 [sender |-> p, draft |-> d, stage |-> "sent", reading |-> None, seen |-> 0] \in Request
  BY DEF Phone, Request

LEMMA ReadType ==
    ASSUME NEW r \in Request, NEW n \in Nat, NEW reading \in Nat \cup {None}
    PROVE  [r EXCEPT !.stage = "read", !.seen = n, !.reading = reading] \in Request
  BY DEF Request

LEMMA StageType ==
    ASSUME NEW r \in Request, NEW stage \in {"kept", "refused"}
    PROVE  [r EXCEPT !.stage = stage] \in Request /\ [r EXCEPT !.stage = stage].draft = r.draft
  BY DEF Request

LEMMA FuelTypeStep ==
    FuelConstantsFit /\ FuelTypeOK /\ Held /\ Waiting /\ [FuelNext]_fuelVars => FuelTypeOK'
  <1> SUFFICES ASSUME FuelConstantsFit, FuelTypeOK, Held, Waiting, [FuelNext]_fuelVars PROVE FuelTypeOK'
    OBVIOUS
  <1>0. ThisDay \in Int /\ (clock < MaxClock => clock + 1 \in 0..MaxClock)
        /\ (faults < MaxFaults => faults + 1 \in 0..MaxFaults)
    BY ThisDayType DEF FuelTypeOK, FuelConstantsFit
  <1>a. [w \in Vehicles |-> Previous(w)] \in [Vehicles -> Nat \cup {None}]
    BY PreviousType
  <1>b. /\ phone \in [Phones -> Phone] /\ request \in [Calls -> Request \cup {None}]
        /\ \A p \in Phones : phone[p].call # None => phone[p].call \in Calls /\ request[phone[p].call] \in Request
        /\ \A p \in Phones : phone[p].step \in {"sending", "refreshing"} => phone[p].call # None
        /\ \A c \in Calls : request[c] # None => request[c] \in Request
    BY SidesType DEF Waiting
  <1>1. ASSUME NEW c \in Calls, LookUp(c) PROVE FuelTypeOK'
    <2> DEFINE draft == request[c].draft
               reading == IF draft.content.reading = None THEN FallbackReading(draft.vehicle)
                          ELSE draft.content.reading
    <2>1. draft \in Draft /\ Len(log) \in Nat
      BY <1>1, SidesType, LogType DEF LookUp
    <2>2. reading \in Nat \cup {None}
      <3>1. draft.vehicle \in Vehicles /\ draft.content.reading \in Nat \cup {None}
        BY <2>1 DEF Draft, Content
      <3> QED
        BY <3>1, FallbackType
    <2>3. request' = [request EXCEPT ![c] =
                        [request[c] EXCEPT !.stage = "read", !.seen = Len(log), !.reading = reading]]
      BY <1>1, <1>b DEF LookUp
    <2> HIDE DEF reading
    <2>4. request' \in [Calls -> Request \cup {None}]
      <3>1. request[c] \in Request
        BY <1>1, <1>b DEF LookUp
      <3>2. PICK n \in Nat : n = Len(log)
        BY <2>1
      <3>3. [request[c] EXCEPT !.stage = "read", !.seen = n, !.reading = reading] \in Request
        BY <2>2, <3>1, ReadType
      <3> QED
        BY <1>b, <2>3, <3>2, <3>3
    <2> QED
      BY <1>1, <2>4 DEF LookUp, FuelTypeOK
  <1>2. ASSUME NEW c \in Calls, Keep(c) PROVE FuelTypeOK'
    <2>1. request[c].draft \in Draft /\ request[c].seen \in Nat
      BY <1>2, SidesType DEF Keep, Request
    <2>2. /\ log' \in Seq(FuelEntry) /\ origin' \in [DOMAIN log' -> Draft \cup {None}]
          /\ seen' \in [DOMAIN log' -> Nat] /\ clock' \in 0..MaxClock
      BY <1>2, <2>1, KeepAdds, AddType
    <2>3. request' = [request EXCEPT ![c] = [request[c] EXCEPT !.stage = "kept"]] /\ request[c] \in Request
      BY <1>2, <1>b DEF Keep
    <2>4. request' \in [Calls -> Request \cup {None}]
      BY <1>b, <2>3, ChangeType
    <2> QED
      BY <1>2, <2>2, <2>4 DEF Keep, FuelTypeOK
  <1>3. ASSUME NEW c \in Calls, Refuse(c) PROVE FuelTypeOK'
    <2>1. request' = [request EXCEPT ![c] = [request[c] EXCEPT !.stage = "refused"]] /\ request[c] \in Request
      BY <1>3, <1>b DEF Refuse
    <2>2. request' \in [Calls -> Request \cup {None}]
      BY <1>b, <2>1, ChangeType
    <2> QED
      BY <1>3, <2>2 DEF Refuse, FuelTypeOK
  <1>4. ASSUME NEW c \in Calls, Finish(c) PROVE FuelTypeOK'
    <2>1. request' \in [Calls -> Request \cup {None}]
      BY <1>4, <1>b DEF Finish
    <2>2. phone' \in [Phones -> Phone]
      <3>1. CASE phone' = phone
        BY <1>b, <3>1
      <3>2. CASE phone' # phone
        <4>1. PICK p \in Phones : phone' = [phone EXCEPT ![p].stored = None]
          <5>1. request[c].sender \in Phones \cup {None}
            BY <1>4, <1>b DEF Finish, Request
          <5>2. request[c].sender # None /\ phone' = [phone EXCEPT ![request[c].sender].stored = None]
            BY <1>4, <3>2 DEF Finish
          <5> QED
            BY <5>1, <5>2
        <4>2. phone' = [phone EXCEPT ![p] = [phone[p] EXCEPT !.stored = None]]
          BY <4>1
        <4> QED
          BY <1>b, <4>2, ChangeType
      <3> QED
        BY <3>1, <3>2
    <2> QED
      BY <1>4, <2>1, <2>2 DEF Finish, FuelTypeOK
  <1>5. ASSUME NEW p \in Phones, NEW v \in Vehicles, OpenForm(p, v) PROVE FuelTypeOK'
    <2> DEFINE draft == IF phone[p].stored = None THEN FreshDraft(v, ThisDay, forms + 1) ELSE phone[p].stored
    <2>1. draft \in Draft
      <3>1. FreshDraft(v, ThisDay, forms + 1) \in Draft
        BY <1>0, FreshType DEF FuelTypeOK
      <3> QED
        BY <3>1 DEF FuelTypeOK, Phone
    <2> HIDE DEF draft
    <2>2. phone' = [phone EXCEPT ![p] = [step |-> "form", draft |-> draft, stored |-> draft,
                                         previous |-> [w \in Vehicles |-> Previous(w)], call |-> None]]
      BY <1>5 DEF OpenForm, draft
    <2>3. phone' \in [Phones -> Phone]
      BY <1>a, <1>b, <2>1, <2>2 DEF Phone
    <2>4. forms' \in Nat /\ faults' \in 0..MaxFaults
      BY <1>0, <1>5 DEF OpenForm, FuelTypeOK
    <2> QED
      BY <1>5, <2>3, <2>4 DEF OpenForm, FuelTypeOK
  <1>6. ASSUME NEW p \in Phones, NEW v \in Vehicles, NEW date \in {ThisDay - 1, ThisDay},
               NEW content \in Contents, Edit(p, v, date, content)
        PROVE  FuelTypeOK'
    <2> DEFINE draft == [phone[p].draft EXCEPT !.vehicle = v, !.date = date, !.content = content]
    <2>0. phone[p].draft # None
      BY <1>6 DEF Edit, Held
    <2>1. draft \in Draft
      <3>1. phone[p].draft \in Draft /\ date \in Int /\ content \in Content
        BY <1>0, <2>0, SidesType DEF FuelConstantsFit
      <3> QED
        BY <3>1 DEF Draft
    <2>2. phone' = [phone EXCEPT ![p] = [phone[p] EXCEPT !.draft = draft, !.stored = draft]]
      BY <1>6, <1>b DEF Edit
    <2> HIDE DEF draft
    <2>3. phone' \in [Phones -> Phone]
      BY <1>b, <2>1, <2>2, ChangeType
    <2> QED
      BY <1>6, <2>3 DEF Edit, FuelTypeOK
  <1>7. ASSUME NEW p \in Phones, NEW c \in Calls, Submit(p, c) PROVE FuelTypeOK'
    <2>1. phone[p].draft \in Draft
      BY <1>7, SidesType DEF Submit, Held
    <2>2. request' = [request EXCEPT ![c] = [sender |-> p, draft |-> phone[p].draft, stage |-> "sent",
                                             reading |-> None, seen |-> 0]]
      BY <1>7 DEF Submit
    <2>3. request' \in [Calls -> Request \cup {None}]
      BY <1>b, <2>1, <2>2, ChangeType
    <2>4. phone' = [phone EXCEPT ![p] = [phone[p] EXCEPT !.step = "sending", !.call = c]]
      BY <1>7, <1>b DEF Submit
    <2>5. phone' \in [Phones -> Phone]
      BY <1>b, <2>4, ChangeType
    <2> QED
      BY <1>7, <2>3, <2>5 DEF Submit, FuelTypeOK
  <1>8. ASSUME NEW p \in Phones, Answer(p) PROVE FuelTypeOK'
    <2>1. \/ request' = request /\ phone' = [phone EXCEPT ![p] = [phone[p] EXCEPT !.step = "refreshing"]]
          \/ /\ request' = [request EXCEPT ![phone[p].call] = None]
             /\ phone' = [phone EXCEPT ![p] = [phone[p] EXCEPT !.step = "form", !.call = None]]
      BY <1>8, <1>b DEF Answer
    <2>2. phone' \in [Phones -> Phone]
      <3>1. phone[p] \in Phone
        BY <1>b
      <3>2. /\ [phone[p] EXCEPT !.step = "refreshing"] \in Phone
            /\ [phone[p] EXCEPT !.step = "form", !.call = None] \in Phone
        BY <3>1 DEF Phone
      <3> QED
        BY <1>b, <2>1, <3>2
    <2>3. request' \in [Calls -> Request \cup {None}]
      BY <1>b, <2>1
    <2> QED
      BY <1>8, <2>2, <2>3 DEF Answer, FuelTypeOK
  <1>9. ASSUME NEW p \in Phones, Lose(p) PROVE FuelTypeOK'
    <2>1. phone' = [phone EXCEPT ![p] = [phone[p] EXCEPT !.step = "form", !.call = None]]
      BY <1>9, <1>b DEF Lose
    <2>2. phone' \in [Phones -> Phone]
      BY <1>b, <2>1, ChangeType
    <2>3. phone[p].call \in Calls /\ request[phone[p].call] \in Request
      BY <1>9, <1>b DEF Lose
    <2>4. \/ request' = [request EXCEPT ![phone[p].call] = None]
          \/ request' = [request EXCEPT ![phone[p].call] = [request[phone[p].call] EXCEPT !.sender = None]]
      BY <1>9, <1>b, <2>3 DEF Lose
    <2>5. request' \in [Calls -> Request \cup {None}]
      BY <1>b, <2>3, <2>4, ChangeType
    <2> QED
      BY <1>0, <1>9, <2>2, <2>5 DEF Lose, FuelTypeOK
  <1>10. ASSUME NEW p \in Phones, Refresh(p) PROVE FuelTypeOK'
    <2> DEFINE draft == FreshDraft(phone[p].draft.vehicle, phone[p].draft.date, forms + 1)
    <2>1. phone[p].draft \in Draft
      BY <1>10, SidesType DEF Refresh, Held
    <2>2. draft \in Draft
      <3>1. phone[p].draft.vehicle \in Vehicles /\ phone[p].draft.date \in Int
        BY <2>1 DEF Draft
      <3>2. forms + 1 \in Nat
        BY SidesType
      <3> QED
        BY <3>1, <3>2, FreshType
    <2> HIDE DEF draft
    <2>3. phone' = [phone EXCEPT ![p] = [step |-> "form", stored |-> None, draft |-> draft,
                                         previous |-> [w \in Vehicles |-> Previous(w)], call |-> None]]
      BY <1>10 DEF Refresh, draft
    <2>4. phone' \in [Phones -> Phone]
      BY <1>a, <1>b, <2>2, <2>3 DEF Phone
    <2>5. forms' \in Nat /\ request' \in [Calls -> Request \cup {None}]
      BY <1>10, <1>b DEF Refresh, FuelTypeOK
    <2> QED
      BY <1>10, <2>4, <2>5 DEF Refresh, FuelTypeOK
  <1>11. ASSUME NEW p \in Phones, FailRefresh(p) PROVE FuelTypeOK'
    <2>1. phone' = [phone EXCEPT ![p] = [phone[p] EXCEPT !.step = "form", !.call = None]]
      BY <1>11, <1>b DEF FailRefresh
    <2>2. phone' \in [Phones -> Phone]
      BY <1>b, <2>1, ChangeType
    <2>3. request' \in [Calls -> Request \cup {None}]
      BY <1>11, <1>b DEF FailRefresh
    <2> QED
      BY <1>0, <1>11, <2>2, <2>3 DEF FailRefresh, FuelTypeOK
  <1>12. ASSUME NEW v \in Vehicles, NEW content \in Contents, NEW date \in {ThisDay - 1, ThisDay},
                CreateByStaff(v, date, content)
         PROVE  FuelTypeOK'
    <2>1. Len(log) \in Nat
      BY LogType
    <2>2. /\ log' \in Seq(FuelEntry) /\ origin' \in [DOMAIN log' -> Draft \cup {None}]
          /\ seen' \in [DOMAIN log' -> Nat] /\ clock' \in 0..MaxClock
      BY <1>12, <2>1, StaffAdds, AddType
    <2> QED
      BY <1>12, <2>2 DEF CreateByStaff, FuelTypeOK
  <1>13. ASSUME NEW v \in Vehicles, NEW content \in Contents, content.reading # None,
                CheckReading(v, content.reading)
         PROVE  FuelTypeOK'
    <2>1. content.reading \in Nat /\ clock \in Int
      BY <1>13 DEF FuelConstantsFit, Content, FuelTypeOK
    <2>2. checked' \in [Vehicles -> [reading: Nat, createdAt: Int] \cup {None}]
      BY <1>13, <2>1 DEF CheckReading, FuelTypeOK
    <2> QED
      BY <1>0, <1>13, <2>2 DEF CheckReading, FuelTypeOK
  <1>14. ASSUME NEW v \in Vehicles, NEW site \in Sites \cup {None}, Move(v, site) PROVE FuelTypeOK'
    BY <1>14 DEF Move, FuelTypeOK
  <1>15. CASE FuelTick
    BY <1>0, <1>15 DEF FuelTick, FuelTypeOK
  <1>16. CASE UNCHANGED fuelVars
    BY <1>16 DEF fuelVars, FuelTypeOK
  <1> QED
    BY <1>1, <1>2, <1>3, <1>4, <1>5, <1>6, <1>7, <1>8, <1>9, <1>10, <1>11, <1>12, <1>13, <1>14, <1>15, <1>16
       DEF FuelNext, Staff, Serve, Drive

----------------------------------------------------------------------------
(* What each step does to the pages and the requests. *)

\* A step of the server leaves the pages alone, but for what they have stored.
LEMMA ServeSides ==
    ASSUME FuelConstantsFit, FuelTypeOK, NEW c \in Calls, Serve(c)
    PROVE  /\ forms' = forms /\ faults' = faults
           /\ \A q \in Phones : /\ phone'[q].step = phone[q].step /\ phone'[q].draft = phone[q].draft
                                /\ phone'[q].call = phone[q].call
                                /\ phone'[q].stored \in {None, phone[q].stored}
           /\ \A b \in Calls \ {c} : request'[b] = request[b]
           /\ request[c] # None
           /\ LookUp(c) \/ Keep(c) \/ Refuse(c) => request'[c] # None /\ request'[c].draft = request[c].draft
           /\ LookUp(c) => request[c].stage = "sent" /\ request'[c].stage = "read"
           /\ Keep(c) => request[c].stage = "read" /\ request'[c].stage = "kept"
           /\ Refuse(c) => request[c].stage \in {"sent", "read"} /\ request'[c].stage = "refused"
           /\ Finish(c) => /\ request'[c] = None /\ request[c].stage \in {"kept", "refused"}
                           /\ \A p \in Phones : phone[p].call # c
  <1>0. /\ phone \in [Phones -> Phone] /\ request \in [Calls -> Request \cup {None}]
        /\ None \notin Request
    BY SidesType
  <1>1. request[c] # None /\ request[c] \in Request
    BY <1>0 DEF Serve, LookUp, Keep, Refuse, Finish
  <1>2. forms' = forms /\ faults' = faults /\ (Finish(c) \/ phone' = phone)
    BY DEF Serve, LookUp, Keep, Refuse, Finish
  <1>3. \A q \in Phones : /\ phone'[q].step = phone[q].step /\ phone'[q].draft = phone[q].draft
                          /\ phone'[q].call = phone[q].call /\ phone'[q].stored \in {None, phone[q].stored}
    <2>1. phone' = phone \/ phone' = [phone EXCEPT ![request[c].sender].stored = None]
      BY <1>2 DEF Finish
    <2> QED
      BY <1>0, <2>1 DEF Phone
  <1>4. \A b \in Calls \ {c} : request'[b] = request[b]
    BY <1>0 DEF Serve, LookUp, Keep, Refuse, Finish
  <1>5. ASSUME LookUp(c)
        PROVE  /\ request'[c].draft = request[c].draft /\ request'[c] \in Request
               /\ request[c].stage = "sent" /\ request'[c].stage = "read"
    <2>1. PICK n, reading : request' = [request EXCEPT ![c].stage = "read", ![c].seen = n, ![c].reading = reading]
      BY <1>5 DEF LookUp
    <2>2. request'[c].draft = request[c].draft /\ request'[c].stage = "read" /\ request'[c].seen = n
          /\ request'[c].reading = reading /\ request'[c].sender = request[c].sender
      BY <1>0, <1>1, <2>1 DEF Request
    <2>3. request'[c] = [request[c] EXCEPT !.stage = "read", !.seen = n, !.reading = reading]
      BY <1>0, <1>1, <2>1
    <2>4. n \in Nat /\ reading \in Nat \cup {None}
      <3> DEFINE draft == request[c].draft
                 filled == IF draft.content.reading = None THEN FallbackReading(draft.vehicle)
                           ELSE draft.content.reading
      <3>1. draft \in Draft /\ Len(log) \in Nat
        BY <1>1, LogType DEF Request
      <3>2. filled \in Nat \cup {None}
        <4>1. draft.vehicle \in Vehicles /\ draft.content.reading \in Nat \cup {None}
          BY <3>1 DEF Draft, Content
        <4> QED
          BY <4>1, FallbackType
      <3>3. request' = [request EXCEPT ![c].stage = "read", ![c].seen = Len(log), ![c].reading = filled]
        BY <1>5 DEF LookUp
      <3> HIDE DEF filled, draft
      <3>4. request'[c].seen = Len(log) /\ request'[c].reading = filled
        BY <1>0, <1>1, <3>3 DEF Request
      <3> QED
        BY <2>2, <3>1, <3>2, <3>4
    <2> QED
      <3>1. [request[c] EXCEPT !.stage = "read", !.seen = n, !.reading = reading] \in Request
        BY <1>1, <2>4, ReadType
      <3>2. request'[c] \in Request
        BY <2>3, <3>1
      <3> QED
        BY <1>5, <2>2, <3>2 DEF LookUp
  <1>6. ASSUME Keep(c) \/ Refuse(c)
        PROVE  /\ request'[c].draft = request[c].draft /\ request'[c] \in Request
               /\ Keep(c) => request[c].stage = "read" /\ request'[c].stage = "kept"
               /\ Refuse(c) => request[c].stage \in {"sent", "read"} /\ request'[c].stage = "refused"
    <2>1. PICK stage \in {"kept", "refused"} : request'[c] = [request[c] EXCEPT !.stage = stage]
      BY <1>0, <1>1, <1>6 DEF Keep, Refuse
    <2>2. request'[c] \in Request /\ request'[c].draft = request[c].draft
      BY <1>1, <2>1, StageType
    <2>3. /\ Keep(c) => request[c].stage = "read" /\ request'[c].stage = "kept"
          /\ Refuse(c) => request[c].stage \in {"sent", "read"} /\ request'[c].stage = "refused"
      BY <1>0, <1>1 DEF Keep, Refuse, Request
    <2> QED
      BY <2>2, <2>3
  <1>7. Finish(c) => /\ request'[c] = None /\ request[c].stage \in {"kept", "refused"}
                     /\ \A p \in Phones : phone[p].call # c
    BY <1>0 DEF Finish
  <1> QED
    BY <1>0, <1>1, <1>2, <1>3, <1>4, <1>5, <1>6, <1>7

\* What the lemmas below start from
LEMMA PagesType ==
    ASSUME FuelConstantsFit, FuelTypeOK, Waiting
    PROVE  /\ phone \in [Phones -> Phone] /\ request \in [Calls -> Request \cup {None}]
           /\ None \notin Request \cup Draft /\ forms \in Nat /\ None \notin Calls
           /\ \A q \in Phones : phone[q].draft # None => phone[q].draft \in Draft
           /\ \A q \in Phones : phone[q].call # None =>
                 phone[q].call \in Calls /\ request[phone[q].call] \in Request
           /\ \A q \in Phones : phone[q].step \in {"sending", "refreshing"} => phone[q].call # None
  BY SidesType DEF Waiting

\* A step of a phone leaves the others alone, and the requests but the one it is about.
OthersAlone(p, c) ==
    /\ \A q \in Phones \ {p} : phone'[q] = phone[q]
    /\ \A b \in Calls \ {c} : request'[b] = request[b]

\* A page opened has the draft it had, or a new one.
LEMMA OpenSides ==
    ASSUME FuelConstantsFit, FuelTypeOK, Held, Waiting, NEW p \in Phones, NEW v \in Vehicles, OpenForm(p, v)
    PROVE  /\ OthersAlone(p, None) /\ request' = request
           /\ phone'[p].step = "form" /\ phone'[p].call = None
           /\ phone'[p].draft # None /\ phone'[p].stored = phone'[p].draft
           /\ \/ forms' = forms /\ phone'[p].draft = phone[p].draft
              \/ forms' = forms + 1 /\ phone'[p].draft.form = forms + 1
           /\ \/ phone[p].step \in {"sending", "refreshing"} /\ faults' = faults + 1
              \/ phone[p].step \in {"closed", "form"} /\ faults' = faults
  <1> DEFINE draft == IF phone[p].stored = None THEN FreshDraft(v, ThisDay, forms + 1) ELSE phone[p].stored
  <1>0. phone \in [Phones -> Phone] /\ None \notin Draft /\ forms \in Nat
    BY PagesType
  <1>1. phone' = [phone EXCEPT ![p] = [step |-> "form", draft |-> draft, stored |-> draft,
                                       previous |-> [w \in Vehicles |-> Previous(w)], call |-> None]]
        /\ request' = request
    BY DEF OpenForm
  <1>2. draft # None
    <2>1. ThisDay \in Int /\ forms + 1 \in Nat
      BY <1>0, ThisDayType
    <2>2. FreshDraft(v, ThisDay, forms + 1) \in Draft
      BY <2>1, FreshType
    <2> QED
      BY <1>0, <2>2
  <1>3. \/ forms' = forms /\ draft = phone[p].draft
        \/ forms' = forms + 1 /\ draft.form = forms + 1
    BY DEF OpenForm, Held, FreshDraft
  <1> HIDE DEF draft
  <1>4. /\ phone'[p].step = "form" /\ phone'[p].call = None
        /\ phone'[p].draft = draft /\ phone'[p].stored = draft
        /\ \A q \in Phones \ {p} : phone'[q] = phone[q]
    BY <1>0, <1>1
  <1>5. \/ phone[p].step \in {"sending", "refreshing"} /\ faults' = faults + 1
        \/ phone[p].step \in {"closed", "form"} /\ faults' = faults
    BY <1>0 DEF OpenForm, Phone
  <1> QED
    BY <1>1, <1>2, <1>3, <1>4, <1>5 DEF OthersAlone

\* Editing leaves a draft its form.
LEMMA EditSides ==
    ASSUME FuelConstantsFit, FuelTypeOK, Held, Waiting, NEW p \in Phones, NEW v \in Vehicles,
           NEW date \in {ThisDay - 1, ThisDay}, NEW content \in Contents, Edit(p, v, date, content)
    PROVE  /\ OthersAlone(p, None) /\ request' = request /\ forms' = forms /\ faults' = faults
           /\ phone'[p].step = phone[p].step /\ phone'[p].call = phone[p].call /\ phone[p].step # "closed"
           /\ phone[p].draft # None /\ phone'[p].draft # None /\ phone'[p].stored = phone'[p].draft
           /\ phone'[p].draft.form = phone[p].draft.form
  <1> DEFINE draft == [phone[p].draft EXCEPT !.vehicle = v, !.date = date, !.content = content]
  <1>0. phone \in [Phones -> Phone] /\ None \notin Draft
    BY PagesType
  <1>1. phone[p].step # "closed" /\ phone[p].draft # None /\ phone[p].draft \in Draft
    BY PagesType DEF Edit, Held
  <1>2. draft \in Draft /\ draft.form = phone[p].draft.form
    <2>1. date \in Int /\ content \in Content
      BY ThisDayType DEF FuelConstantsFit
    <2> QED
      BY <1>1, <2>1 DEF Draft
  <1>3. phone' = [phone EXCEPT ![p].draft = draft, ![p].stored = draft]
    BY DEF Edit
  <1> HIDE DEF draft
  <1>4. /\ phone'[p].step = phone[p].step /\ phone'[p].call = phone[p].call
        /\ phone'[p].draft = draft /\ phone'[p].stored = draft
        /\ \A q \in Phones \ {p} : phone'[q] = phone[q]
    BY <1>0, <1>3 DEF Phone
  <1>5. request' = request /\ forms' = forms /\ faults' = faults
    BY DEF Edit
  <1> QED
    BY <1>0, <1>1, <1>2, <1>4, <1>5 DEF OthersAlone

\* What is submitted is the draft as it is, in a request of its own.
LEMMA SubmitSides ==
    ASSUME FuelConstantsFit, FuelTypeOK, Held, Waiting, NEW p \in Phones, NEW c \in Calls, Submit(p, c)
    PROVE  /\ OthersAlone(p, c) /\ forms' = forms /\ faults' = faults
           /\ request[c] = None /\ request'[c] # None /\ request'[c].stage = "sent"
           /\ request'[c].draft = phone[p].draft /\ phone[p].draft # None
           /\ phone[p].step = "form" /\ phone'[p].step = "sending" /\ phone'[p].call = c
           /\ phone'[p].draft = phone[p].draft /\ phone'[p].stored = phone[p].stored
  <1> DEFINE new == [sender |-> p, draft |-> phone[p].draft, stage |-> "sent", reading |-> None, seen |-> 0]
  <1>0. /\ phone \in [Phones -> Phone] /\ request \in [Calls -> Request \cup {None}]
        /\ None \notin Request
    BY PagesType
  <1>1. phone[p].step = "form" /\ phone[p].draft # None /\ phone[p].draft \in Draft
    BY PagesType DEF Submit, Held
  <1>2. new \in Request /\ new.stage = "sent" /\ new.draft = phone[p].draft
    BY <1>1, ChangeType
  <1>3. request' = [request EXCEPT ![c] = new] /\ request[c] = None /\ forms' = forms /\ faults' = faults
    BY DEF Submit
  <1> HIDE DEF new
  <1>4. request'[c] = new /\ \A b \in Calls \ {c} : request'[b] = request[b]
    BY <1>0, <1>3
  <1>5. /\ phone'[p].step = "sending" /\ phone'[p].call = c /\ phone'[p].draft = phone[p].draft
        /\ phone'[p].stored = phone[p].stored /\ \A q \in Phones \ {p} : phone'[q] = phone[q]
    BY <1>0 DEF Submit, Phone
  <1> QED
    BY <1>0, <1>1, <1>2, <1>3, <1>4, <1>5 DEF OthersAlone

\* A page that is told of its entry, and one that gives its request up: it was refused,
\* or there is a fault.
Informed(p) == Answer(p) /\ request[phone[p].call].stage = "kept"
Refused(p) == Answer(p) /\ request[phone[p].call].stage = "refused"
GivesUp(p) == Refused(p) \/ Lose(p) \/ FailRefresh(p)

LEMMA AnswerIs == ASSUME NEW p, Answer(p) PROVE Informed(p) \/ Refused(p)
  BY DEF Answer, Informed, Refused

LEMMA ToldSides ==
    ASSUME FuelConstantsFit, FuelTypeOK, Held, Waiting, NEW p \in Phones, Informed(p)
    PROVE  /\ OthersAlone(p, None) /\ request' = request /\ forms' = forms /\ faults' = faults
           /\ phone[p].step = "sending" /\ phone'[p].step = "refreshing"
           /\ phone'[p].call = phone[p].call /\ request[phone[p].call].stage = "kept"
           /\ phone'[p].draft = phone[p].draft /\ phone'[p].stored = phone[p].stored
  <1>0. phone \in [Phones -> Phone]
    BY PagesType
  <1>1. phone' = [phone EXCEPT ![p].step = "refreshing"] /\ request' = request
        /\ phone[p].step = "sending" /\ forms' = forms /\ faults' = faults
        /\ request[phone[p].call].stage = "kept"
    BY DEF Informed, Answer
  <1> QED
    BY <1>0, <1>1 DEF Phone, OthersAlone

LEMMA GiveUpSides ==
    ASSUME FuelConstantsFit, FuelTypeOK, Held, Waiting, NEW p \in Phones, GivesUp(p)
    PROVE  LET c == phone[p].call
           IN  /\ OthersAlone(p, c) /\ forms' = forms
               /\ c \in Calls /\ phone[p].step \in {"sending", "refreshing"}
               /\ phone'[p].step = "form" /\ phone'[p].call = None
               /\ phone'[p].draft = phone[p].draft /\ phone'[p].stored = phone[p].stored
               /\ \/ request'[c] = None
                  \/ /\ request'[c] # None /\ request'[c].stage = request[c].stage
                     /\ request'[c].draft = request[c].draft
                     /\ request'[c].seen = request[c].seen /\ request'[c].reading = request[c].reading
               /\ \/ /\ phone[p].step = "sending" /\ request[c].stage = "refused"
                     /\ request'[c] = None /\ faults' = faults
                  \/ faults' = faults + 1
  <1> DEFINE c == phone[p].call
  <1>0. /\ phone \in [Phones -> Phone] /\ request \in [Calls -> Request \cup {None}]
        /\ None \notin Request
    BY PagesType
  <1>1. phone' = [phone EXCEPT ![p].step = "form", ![p].call = None] /\ forms' = forms
        /\ phone[p].step \in {"sending", "refreshing"}
    BY DEF GivesUp, Refused, Answer, Lose, FailRefresh
  <1>2. /\ \A q \in Phones \ {p} : phone'[q] = phone[q]
        /\ phone'[p].step = "form" /\ phone'[p].call = None /\ phone'[p].draft = phone[p].draft
        /\ phone'[p].stored = phone[p].stored
    BY <1>0, <1>1 DEF Phone
  <1>3. c \in Calls /\ request[c] \in Request
    BY <1>1, PagesType
  <1>4. request' \in {[request EXCEPT ![c] = None], [request EXCEPT ![c].sender = None]}
    BY DEF GivesUp, Refused, Answer, Lose, FailRefresh
  <1>5. \A b \in Calls \ {c} : request'[b] = request[b]
    BY <1>0, <1>4
  <1>6. \/ request'[c] = None
        \/ /\ request'[c] # None /\ request'[c].stage = request[c].stage
           /\ request'[c].draft = request[c].draft
           /\ request'[c].seen = request[c].seen /\ request'[c].reading = request[c].reading
    <2>1. CASE request' = [request EXCEPT ![c] = None]
      BY <1>0, <1>3, <2>1
    <2>2. CASE request' = [request EXCEPT ![c].sender = None]
      <3>1. request'[c] = [request[c] EXCEPT !.sender = None]
        BY <1>0, <1>3, <2>2
      <3>2. request'[c] \in Request
        BY <1>3, <3>1, ChangeType
      <3> QED
        BY <1>0, <1>3, <3>1, <3>2 DEF Request
    <2> QED
      BY <1>4, <2>1, <2>2
  <1>7. \/ /\ phone[p].step = "sending" /\ request[c].stage = "refused"
           /\ request'[c] = None /\ faults' = faults
        \/ faults' = faults + 1
    <2>1. CASE Refused(p)
      <3>1. /\ faults' = faults /\ phone[p].step = "sending" /\ request[c].stage = "refused"
            /\ request' = [request EXCEPT ![c] = None]
        BY <2>1 DEF Refused, Answer
      <3> QED
        BY <1>0, <1>3, <3>1
    <2>2. CASE Lose(p) \/ FailRefresh(p)
      BY <2>2 DEF Lose, FailRefresh
    <2> QED
      BY <2>1, <2>2 DEF GivesUp
  <1> QED
    BY <1>1, <1>2, <1>3, <1>5, <1>6, <1>7 DEF OthersAlone

\* A draft that is done with gives way to one of a new form.
LEMMA RefreshSides ==
    ASSUME FuelConstantsFit, FuelTypeOK, Held, Waiting, NEW p \in Phones, Refresh(p)
    PROVE  LET c == phone[p].call
           IN  /\ OthersAlone(p, c) /\ forms' = forms + 1 /\ faults' = faults
               /\ c \in Calls /\ phone[p].step = "refreshing" /\ request'[c] = None
               /\ phone'[p].step = "form" /\ phone'[p].call = None /\ phone'[p].stored = None
               /\ phone'[p].draft # None /\ phone'[p].draft.form = forms + 1
  <1> DEFINE draft == FreshDraft(phone[p].draft.vehicle, phone[p].draft.date, forms + 1)
  <1>0. /\ phone \in [Phones -> Phone] /\ request \in [Calls -> Request \cup {None}]
        /\ None \notin Draft /\ forms \in Nat
    BY PagesType
  <1>1. phone[p].step = "refreshing" /\ phone[p].draft \in Draft /\ phone[p].call \in Calls
    BY PagesType DEF Refresh, Held
  <1>2. draft \in Draft /\ draft.form = forms + 1
    <2>1. phone[p].draft.vehicle \in Vehicles /\ phone[p].draft.date \in Int /\ forms + 1 \in Nat
      BY <1>0, <1>1 DEF Draft
    <2> QED
      BY <2>1, FreshType DEF FreshDraft
  <1>3. phone' = [phone EXCEPT ![p] = [step |-> "form", stored |-> None,
                     previous |-> [w \in Vehicles |-> Previous(w)], draft |-> draft, call |-> None]]
    BY DEF Refresh
  <1> HIDE DEF draft
  <1>4. /\ \A q \in Phones \ {p} : phone'[q] = phone[q]
        /\ phone'[p].step = "form" /\ phone'[p].call = None /\ phone'[p].draft = draft
        /\ phone'[p].stored = None
    BY <1>0, <1>3
  <1>5. request' = [request EXCEPT ![phone[p].call] = None] /\ forms' = forms + 1 /\ faults' = faults
    BY DEF Refresh
  <1> QED
    BY <1>0, <1>1, <1>2, <1>4, <1>5 DEF OthersAlone

\* Nobody else touches pages or requests.
LEMMA StaffSides ==
    ASSUME Staff \/ FuelTick \/ UNCHANGED fuelVars
    PROVE  UNCHANGED <<phone, request, forms, faults>>
  BY DEF Staff, CreateByStaff, CheckReading, Move, FuelTick, fuelVars

\* The steps, by what they do to the pages and the requests.
LEMMA StepIs ==
    ASSUME [FuelNext]_fuelVars
    PROVE  \/ \E c \in Calls : Serve(c)
           \/ \E p \in Phones, v \in Vehicles : OpenForm(p, v)
           \/ \E p \in Phones, v \in Vehicles, date \in {ThisDay - 1, ThisDay}, content \in Contents :
                 Edit(p, v, date, content)
           \/ \E p \in Phones, c \in Calls : Submit(p, c)
           \/ \E p \in Phones : Informed(p) \/ GivesUp(p) \/ Refresh(p)
           \/ Staff \/ FuelTick \/ UNCHANGED fuelVars
  BY AnswerIs DEF FuelNext, Drive, GivesUp

\* The draft of a page goes with its step, and no step opens a page but Open.
LEMMA HeldStep ==
    ASSUME FuelConstantsFit, FuelTypeOK, Held, Waiting, [FuelNext]_fuelVars PROVE Held'
  <1> DEFINE H(h) == (h.step = "closed" <=> h.draft = None) /\ h.stored \in {None, h.draft}
  <1>0. \A q \in Phones : H(phone[q])
    BY DEF Held
  <1>1. ASSUME NEW c \in Calls, Serve(c) PROVE Held'
    <2>1. \A q \in Phones : /\ phone'[q].step = phone[q].step /\ phone'[q].draft = phone[q].draft
                            /\ phone'[q].stored \in {None, phone[q].stored}
      BY <1>1, ServeSides
    <2> QED
      BY <1>0, <2>1 DEF Held
  <1>2. ASSUME NEW p \in Phones, H(phone'[p]), \A q \in Phones \ {p} : phone'[q] = phone[q] PROVE Held'
    <2>1. \A q \in Phones : H(phone'[q])
      BY <1>0, <1>2
    <2> QED
      BY <2>1 DEF Held
  <1>3. ASSUME NEW p \in Phones, NEW v \in Vehicles, OpenForm(p, v) PROVE Held'
    BY <1>2, <1>3, OpenSides DEF OthersAlone
  <1>4. ASSUME NEW p \in Phones, NEW v \in Vehicles, NEW date \in {ThisDay - 1, ThisDay},
               NEW content \in Contents, Edit(p, v, date, content)
        PROVE  Held'
    BY <1>2, <1>4, EditSides DEF OthersAlone
  <1>5. ASSUME NEW p \in Phones, NEW c \in Calls, Submit(p, c) PROVE Held'
    BY <1>0, <1>2, <1>5, SubmitSides DEF OthersAlone
  <1>6. ASSUME NEW p \in Phones, Informed(p) PROVE Held'
    BY <1>0, <1>2, <1>6, ToldSides DEF OthersAlone
  <1>7. ASSUME NEW p \in Phones, GivesUp(p) PROVE Held'
    BY <1>0, <1>2, <1>7, GiveUpSides DEF OthersAlone
  <1>8. ASSUME NEW p \in Phones, Refresh(p) PROVE Held'
    BY <1>2, <1>8, RefreshSides DEF OthersAlone
  <1>9. CASE UNCHANGED phone
    BY <1>9 DEF Held
  <1> HIDE DEF H
  <1> QED
    BY <1>1, <1>3, <1>4, <1>5, <1>6, <1>7, <1>8, <1>9, StepIs, StaffSides

\* A page waits for its own request only, and only while it does.
LEMMA WaitingStep ==
    ASSUME FuelConstantsFit, FuelTypeOK, Held, Waiting, [FuelNext]_fuelVars PROVE Waiting'
  <1>0. /\ \A p \in Phones : phone[p].step \in {"sending", "refreshing"} <=> phone[p].call # None
        /\ \A p \in Phones : phone[p].call # None => request[phone[p].call] # None
        /\ \A p, q \in Phones : phone[p].call = phone[q].call /\ phone[p].call # None => p = q
        /\ \A p \in Phones : phone[p].step = "sending" =>
              request[phone[p].call].draft.form = phone[p].draft.form
        /\ \A p \in Phones : phone[p].step = "refreshing" => request[phone[p].call].stage = "kept"
    BY DEF Waiting
  <1>a. /\ None \notin Calls
        /\ \A q \in Phones : phone[q].call # None => phone[q].call \in Calls
    BY PagesType
  <1>1. ASSUME NEW c \in Calls, Serve(c) PROVE Waiting'
    <2>1. /\ \A q \in Phones : /\ phone'[q].step = phone[q].step /\ phone'[q].draft = phone[q].draft
                               /\ phone'[q].call = phone[q].call
          /\ \A b \in Calls \ {c} : request'[b] = request[b]
          /\ request[c].stage # "kept" \/ \A p \in Phones : phone[p].call # c
          /\ \/ request'[c] # None /\ request'[c].draft = request[c].draft
             \/ \A p \in Phones : phone[p].call # c
      BY <1>1, ServeSides DEF Serve
    <2>2. \A q \in Phones : phone[q].call # None =>
             /\ request'[phone[q].call] # None
             /\ request'[phone[q].call].draft = request[phone[q].call].draft
             /\ phone[q].step = "refreshing" => request'[phone[q].call] = request[phone[q].call]
      BY <1>0, <1>a, <2>1
    <2> QED
      BY <1>0, <2>1, <2>2 DEF Waiting
  <1>2. ASSUME NEW p \in Phones, NEW c \in Calls \cup {None}, OthersAlone(p, c),
               phone[p].call = c \/ c = None \/ request[c] = None,
               phone'[p].step \in {"sending", "refreshing"} <=> phone'[p].call # None,
               phone'[p].call # None =>
                 /\ phone'[p].call \in Calls /\ request'[phone'[p].call] # None
                 /\ phone'[p].call = phone[p].call \/ request[phone'[p].call] = None
                 /\ phone'[p].step = "sending" =>
                      request'[phone'[p].call].draft.form = phone'[p].draft.form
                 /\ phone'[p].step = "refreshing" => request'[phone'[p].call].stage = "kept"
        PROVE  Waiting'
    <2>1. \A q \in Phones \ {p} : /\ phone'[q] = phone[q]
                                  /\ phone[q].call # None => request'[phone[q].call] = request[phone[q].call]
      BY <1>0, <1>a, <1>2 DEF OthersAlone
    <2>2. \A q \in Phones \ {p} : phone'[p].call # None => phone'[q].call # phone'[p].call
      BY <1>0, <1>2, <2>1
    <2> QED
      BY <1>0, <1>2, <2>1, <2>2 DEF Waiting
  <1>3. ASSUME NEW p \in Phones, NEW v \in Vehicles, OpenForm(p, v) PROVE Waiting'
    BY <1>2, <1>3, OpenSides
  <1>4. ASSUME NEW p \in Phones, NEW v \in Vehicles, NEW date \in {ThisDay - 1, ThisDay},
               NEW content \in Contents, Edit(p, v, date, content)
        PROVE  Waiting'
    BY <1>0, <1>a, <1>2, <1>4, EditSides
  <1>5. ASSUME NEW p \in Phones, NEW c \in Calls, Submit(p, c) PROVE Waiting'
    BY <1>a, <1>2, <1>5, SubmitSides
  <1>6. ASSUME NEW p \in Phones, Informed(p) PROVE Waiting'
    BY <1>0, <1>a, <1>2, <1>6, ToldSides
  <1>7. ASSUME NEW p \in Phones, GivesUp(p) PROVE Waiting'
    BY <1>a, <1>2, <1>7, GiveUpSides
  <1>8. ASSUME NEW p \in Phones, Refresh(p) PROVE Waiting'
    BY <1>a, <1>2, <1>8, RefreshSides
  <1>9. CASE UNCHANGED <<phone, request>>
    BY <1>9 DEF Waiting
  <1> QED
    BY <1>1, <1>3, <1>4, <1>5, <1>6, <1>7, <1>8, <1>9, StepIs, StaffSides

----------------------------------------------------------------------------
(* No repeat without a fault. The entries there are and may come without    *)
(* another request, and the phones that may send a draft of theirs again,   *)
(* are no more than the forms they are of and the faults.                   *)

Kept == {k \in DOMAIN log : origin[k] # None}
Made == {origin[k].form : k \in Kept}

\* Requests that the server may still add an entry for,
Pending == {c \in Calls : request[c] # None /\ request[c].stage \in {"sent", "read"}}

\* the forms there are entries of, or may be without another request,
Outstanding == Made \cup {request[c].draft.form : c \in Pending}

\* and the phones that may send one of these again, now or when they are told that
\* their request is refused.
Repeatable ==
    {p \in Phones :
        /\ phone[p].draft # None /\ phone[p].draft.form \in Outstanding
        /\ \/ phone[p].step = "form"
           \/ phone[p].step = "sending" /\ request[phone[p].call].stage = "refused"}

\* No two phones have drafts of one form, and no form is ahead of the count.
FormsApart ==
    /\ \A p \in Phones : phone[p].draft # None => phone[p].draft.form <= forms
    /\ \A p, q \in Phones :
          /\ phone[p].draft # None /\ phone[q].draft # None
          /\ phone[p].draft.form = phone[q].draft.form
          => p = q
    /\ \A c \in Calls : request[c] # None => request[c].draft.form <= forms
    /\ \A g \in Made : g <= forms

Budget ==
    Cardinality(Kept) + Cardinality(Pending) + Cardinality(Repeatable)
      <= Cardinality(Outstanding) + faults

\* What is counted can be.
LEMMA CountsFinite ==
    ASSUME FuelConstantsFit, FuelTypeOK, FormsApart
    PROVE  /\ IsFiniteSet(Kept) /\ Kept \subseteq 1..Len(log)
           /\ IsFiniteSet(Made) /\ Made \in SUBSET Nat
           /\ IsFiniteSet(Pending) /\ IsFiniteSet(Repeatable)
           /\ IsFiniteSet(Outstanding) /\ Outstanding \in SUBSET Nat
           /\ \A g \in Outstanding : g <= forms
  <1>1. IsFiniteSet(Kept) /\ Kept \subseteq 1..Len(log)
    <2>1. Kept \subseteq 1..Len(log) /\ Len(log) \in Nat
      BY LogType DEF Kept
    <2>2. IsFiniteSet(1..Len(log))
      BY <2>1, FS_Interval
    <2> QED
      BY <2>1, <2>2, FS_Subset
  <1>2. Made \in SUBSET Nat /\ \A g \in Made : g <= forms
    <2>1. \A k \in Kept : origin[k].form \in Nat
      BY <1>1, LogType DEF Kept, Draft
    <2> QED
      BY <2>1 DEF Made, FormsApart
  <1>3. Outstanding \in SUBSET Nat /\ \A g \in Outstanding : g <= forms
    <2>1. \A c \in Pending : request[c].draft.form \in Nat /\ request[c].draft.form <= forms
      BY SidesType DEF Pending, FormsApart
    <2> QED
      BY <1>2, <2>1 DEF Outstanding
  <1>4. IsFiniteSet(Made) /\ IsFiniteSet(Outstanding)
    BY <1>2, <1>3, SidesType, FS_BoundedSetOfNaturals
  <1>5. /\ Pending \subseteq Calls /\ Repeatable \subseteq Phones
        /\ IsFiniteSet(Calls) /\ IsFiniteSet(Phones)
    BY DEF Pending, Repeatable, FuelConstantsFit
  <1> QED
    BY <1>1, <1>2, <1>3, <1>4, <1>5, FS_Subset

\* What a request that is kept adds.
LEMMA KeptByKeep ==
    ASSUME FuelConstantsFit, FuelTypeOK, NEW c \in Calls, Keep(c)
    PROVE  /\ Kept' = Kept \cup {Len(log) + 1} /\ Len(log) + 1 \notin Kept
           /\ Made' = Made \cup {request[c].draft.form}
  <1> DEFINE d == request[c].draft
  <1>1. d \in Draft /\ d # None /\ request[c].seen \in Nat
    BY SidesType DEF Keep, FuelConstantsFit, Request
  <1>2. /\ DOMAIN log' = 1..Len(log)+1
        /\ \A k \in 1..Len(log) : origin'[k] = origin[k]
        /\ origin'[Len(log)+1] = d
    BY <1>1, KeepAdds, AddType
  <1>3. DOMAIN log = 1..Len(log) /\ Len(log) \in Nat
    BY LogType
  <1> HIDE DEF d
  <1>4. Kept' = Kept \cup {Len(log) + 1} /\ Len(log) + 1 \notin Kept
    BY <1>1, <1>2, <1>3 DEF Kept
  <1>5. \A k \in Kept : origin'[k] = origin[k]
    BY <1>2, <1>3 DEF Kept
  <1>6. Made' = Made \cup {d.form}
    BY <1>2, <1>4, <1>5 DEF Made
  <1> QED
    BY <1>4, <1>6 DEF d

\* Nobody else adds to it.
LEMMA KeptByOthers ==
    ASSUME FuelConstantsFit, FuelTypeOK, [FuelNext]_fuelVars, \A c \in Calls : ~Keep(c)
    PROVE  Kept' = Kept /\ Made' = Made
  <1>1. CASE UNCHANGED <<log, origin>>
    BY <1>1 DEF Kept, Made
  <1>2. ASSUME NEW v \in Vehicles, NEW content \in Contents, NEW date \in {ThisDay - 1, ThisDay},
               CreateByStaff(v, date, content)
        PROVE  Kept' = Kept /\ Made' = Made
    <2>1. /\ DOMAIN log' = 1..Len(log)+1
          /\ \A k \in 1..Len(log) : origin'[k] = origin[k]
          /\ origin'[Len(log)+1] = None
      BY <1>2, LogType, StaffAdds, AddType
    <2>2. DOMAIN log = 1..Len(log) /\ Len(log) \in Nat
      BY LogType
    <2>3. Kept' = Kept
      BY <2>1, <2>2 DEF Kept
    <2>4. \A k \in Kept : origin'[k] = origin[k]
      BY <2>1, <2>2 DEF Kept
    <2> QED
      BY <2>3, <2>4 DEF Made
  <1> QED
    BY <1>1, <1>2
       DEF FuelNext, Staff, Serve, Drive, LookUp, Refuse, Finish, Answer, Lose, OpenForm, Edit, Submit,
           Refresh, FailRefresh, CheckReading, Move, FuelTick, fuelVars

LEMMA FormsApartStep ==
    ASSUME FuelConstantsFit, FuelTypeOK, Held, Waiting, FormsApart, [FuelNext]_fuelVars PROVE FormsApart'
  <1>0. /\ forms \in Nat /\ \A p \in Phones : phone[p].draft # None => phone[p].draft.form \in Nat
        /\ \A c \in Calls : request[c] # None => request[c].draft.form \in Nat
    BY SidesType
  <1>a. /\ \A p \in Phones : phone[p].draft # None => phone[p].draft.form <= forms
        /\ \A p, q \in Phones :
              /\ phone[p].draft # None /\ phone[q].draft # None
              /\ phone[p].draft.form = phone[q].draft.form
              => p = q
        /\ \A c \in Calls : request[c] # None => request[c].draft.form <= forms
        /\ \A g \in Made : g <= forms
    BY DEF FormsApart
  <1>1. /\ forms' = forms \/ forms' = forms + 1
        /\ \A g \in Made' : g <= forms
    <2>1. forms' = forms \/ forms' = forms + 1
      BY StepIs, ServeSides, OpenSides, EditSides, SubmitSides, ToldSides, GiveUpSides, RefreshSides, StaffSides
    <2>2. CASE \E c \in Calls : Keep(c)
      <3>1. PICK c \in Calls : Keep(c)
        BY <2>2
      <3>2. Made' = Made \cup {request[c].draft.form} /\ request[c] # None
        BY <3>1, KeptByKeep DEF Keep
      <3> QED
        BY <1>a, <2>1, <3>2
    <2>3. CASE \A c \in Calls : ~Keep(c)
      BY <1>a, <2>1, <2>3, KeptByOthers
    <2> QED
      BY <2>1, <2>2, <2>3
  <1>2. ASSUME \A q \in Phones : phone'[q].draft = phone[q].draft,
               \A c \in Calls : request'[c] # None =>
                  (request[c] # None /\ request'[c].draft = request[c].draft)
                  \/ (\E q \in Phones : phone[q].draft # None /\ request'[c].draft = phone[q].draft)
        PROVE  FormsApart'
    <2>1. \A c \in Calls : request'[c] # None => request'[c].draft.form <= forms'
      BY <1>0, <1>a, <1>1, <1>2
    <2>2. \A q \in Phones : phone'[q].draft # None => phone'[q].draft.form <= forms'
      BY <1>0, <1>a, <1>1, <1>2
    <2>3. \A g \in Made' : g <= forms'
      <3>1. Made' \subseteq Nat
        <4>1. FuelTypeOK'
          BY FuelTypeStep
        <4>2. \A k \in DOMAIN log' : origin'[k] # None => origin'[k].form \in Nat
          BY <4>1 DEF FuelTypeOK, Draft
        <4> QED
          BY <4>2 DEF Made, Kept
      <3> QED
        BY <1>0, <1>1, <3>1
    <2> QED
      BY <1>a, <1>2, <2>1, <2>2, <2>3 DEF FormsApart
  <1>3. ASSUME NEW p \in Phones, \A q \in Phones \ {p} : phone'[q] = phone[q], Made' = Made,
               \A c \in Calls : request'[c] # None => request[c] # None /\ request'[c].draft = request[c].draft,
               \/ phone'[p].draft # None /\ phone'[p].draft.form = forms + 1 /\ forms' = forms + 1
               \/ phone[p].draft # None /\ phone'[p].draft.form = phone[p].draft.form /\ forms' = forms
        PROVE  FormsApart'
    <2>1. \A c \in Calls : request'[c] # None => request'[c].draft.form <= forms'
      BY <1>0, <1>a, <1>3
    <2>2. \A q \in Phones : phone'[q].draft # None => phone'[q].draft.form <= forms'
      BY <1>0, <1>a, <1>3
    <2>3. \A g \in Made' : g <= forms'
      BY <1>0, <1>a, <1>3, CountsFinite
    <2>4. \A q, r \in Phones :
              /\ phone'[q].draft # None /\ phone'[r].draft # None
              /\ phone'[q].draft.form = phone'[r].draft.form
              => q = r
      BY <1>0, <1>a, <1>3
    <2> QED
      BY <2>1, <2>2, <2>3, <2>4 DEF FormsApart
  <1>4. ASSUME NEW c \in Calls, Serve(c) PROVE FormsApart'
    BY <1>2, <1>4, ServeSides DEF Serve
  <1>5. ASSUME NEW p \in Phones, NEW c \in Calls, Submit(p, c) PROVE FormsApart'
    BY <1>2, <1>5, SubmitSides DEF OthersAlone
  <1>6. ASSUME NEW p \in Phones, Informed(p) \/ GivesUp(p) PROVE FormsApart'
    <2>1. CASE Informed(p)
      <3>1. request' = request /\ \A q \in Phones : phone'[q].draft = phone[q].draft
        BY <2>1, ToldSides DEF OthersAlone
      <3> QED
        BY <1>2, <3>1
    <2>2. CASE GivesUp(p)
      <3>1. PICK c \in Calls : c = phone[p].call
        BY <2>2, GiveUpSides
      <3>2. /\ \A q \in Phones : phone'[q].draft = phone[q].draft
            /\ \A b \in Calls \ {c} : request'[b] = request[b]
            /\ request'[c] = None \/ request'[c].draft = request[c].draft
            /\ request[c] # None
        BY <2>2, <3>1, GiveUpSides, PagesType DEF OthersAlone
      <3>3. \A b \in Calls : request'[b] # None => request[b] # None /\ request'[b].draft = request[b].draft
        BY <3>2
      <3> QED
        BY <1>2, <3>2, <3>3
    <2> QED
      BY <1>6, <2>1, <2>2
  <1>7. ASSUME NEW p \in Phones, NEW v \in Vehicles, OpenForm(p, v) PROVE FormsApart'
    <2>1. Made' = Made
      BY <1>7 DEF OpenForm, Made, Kept
    <2> QED
      BY <1>3, <1>7, <2>1, OpenSides DEF OthersAlone
  <1>8. ASSUME NEW p \in Phones, NEW v \in Vehicles, NEW date \in {ThisDay - 1, ThisDay},
               NEW content \in Contents, Edit(p, v, date, content)
        PROVE  FormsApart'
    <2>1. Made' = Made
      BY <1>8 DEF Edit, Made, Kept
    <2> QED
      BY <1>3, <1>8, <2>1, EditSides DEF OthersAlone
  <1>9. ASSUME NEW p \in Phones, Refresh(p) PROVE FormsApart'
    <2>1. Made' = Made
      BY <1>9 DEF Refresh, Made, Kept
    <2> QED
      BY <1>3, <1>9, <2>1, RefreshSides DEF OthersAlone
  <1>10. CASE UNCHANGED <<phone, request, forms, faults>>
    BY <1>2, <1>10
  <1> QED
    BY <1>4, <1>5, <1>6, <1>7, <1>8, <1>9, <1>10, StepIs, StaffSides

LEMMA OneOrFewer ==
    ASSUME NEW S, IsFiniteSet(S), NEW T, NEW x
    PROVE  /\ Cardinality(S) \in Nat
           /\ T \subseteq S => Cardinality(T) \in Nat /\ Cardinality(T) <= Cardinality(S)
           /\ T \subseteq S \cup {x} => Cardinality(T) \in Nat /\ Cardinality(T) <= Cardinality(S) + 1
           /\ x \in S /\ T \subseteq S \ {x} => Cardinality(T) \in Nat /\ Cardinality(T) <= Cardinality(S) - 1
  <1>1. Cardinality(S) \in Nat
    BY FS_CardinalityType
  <1>2. \A U : IsFiniteSet(U) /\ T \subseteq U => Cardinality(T) \in Nat /\ Cardinality(T) <= Cardinality(U)
    BY FS_Subset, FS_CardinalityType
  <1>3. IsFiniteSet(S \cup {x}) /\ Cardinality(S \cup {x}) <= Cardinality(S) + 1
    BY <1>1, FS_AddElement
  <1>4. IsFiniteSet(S \ {x}) /\ (x \in S => Cardinality(S \ {x}) = Cardinality(S) - 1)
    BY FS_RemoveElement
  <1>5. Cardinality(S \cup {x}) \in Nat /\ Cardinality(S \ {x}) \in Nat
    BY <1>3, <1>4, FS_CardinalityType
  <1> QED
    BY <1>1, <1>2, <1>3, <1>4, <1>5

\* The same, of what may only shrink by one.
LEMMA OneOrMore ==
    ASSUME NEW S, IsFiniteSet(S), NEW T, NEW x, T \subseteq S \cup {x}
    PROVE  /\ Cardinality(S) \in Nat /\ Cardinality(T) \in Nat
           /\ S \subseteq T => Cardinality(S) <= Cardinality(T)
           /\ S \subseteq T \cup {x} => Cardinality(S) - 1 <= Cardinality(T)
           /\ x \notin S /\ S \cup {x} \subseteq T => Cardinality(S) + 1 <= Cardinality(T)
  <1>1. IsFiniteSet(T) /\ Cardinality(T) \in Nat
    <2>1. IsFiniteSet(S \cup {x})
      BY FS_AddElement
    <2> QED
      BY <2>1, FS_Subset, FS_CardinalityType
  <1>2. S \subseteq T => Cardinality(S) <= Cardinality(T)
    BY <1>1, FS_Subset
  <1>3. S \subseteq T \cup {x} => Cardinality(S) <= Cardinality(T) + 1
    BY <1>1, OneOrFewer
  <1>4. x \notin S /\ S \cup {x} \subseteq T => Cardinality(S) + 1 <= Cardinality(T)
    BY <1>1, FS_AddElement, FS_Subset
  <1> QED
    BY <1>1, <1>2, <1>3, <1>4, FS_CardinalityType

\* What a step may do to the budget when it adds no entry: change nothing that counts,
\* or give a phone a chance for a fault; end a request, with its form or leaving a phone
\* the chance of another, or for a fault both; send one, of a new form or for a chance.
LEMMA BudgetBalances ==
    ASSUME FuelConstantsFit, FuelTypeOK, FormsApart, Budget, Kept' = Kept,
           NEW p, NEW c, NEW g, Outstanding' \subseteq Outstanding \cup {g},
           \/ /\ Pending' \subseteq Pending /\ Outstanding \subseteq Outstanding'
              /\ \/ Repeatable' \subseteq Repeatable /\ faults' = faults
                 \/ Repeatable' \subseteq Repeatable \cup {p} /\ faults' = faults + 1
           \/ /\ c \in Pending /\ Pending' \subseteq Pending \ {c}
              /\ \/ /\ Outstanding \subseteq Outstanding' \cup {g}
                    /\ Repeatable' \subseteq Repeatable /\ faults' = faults
                 \/ /\ Outstanding \subseteq Outstanding'
                    /\ Repeatable' \subseteq Repeatable \cup {p} /\ faults' = faults
                 \/ /\ Outstanding \subseteq Outstanding' \cup {g}
                    /\ Repeatable' \subseteq Repeatable \cup {p} /\ faults' = faults + 1
           \/ /\ Pending' \subseteq Pending \cup {c} /\ faults' = faults
              /\ \/ /\ Outstanding \subseteq Outstanding'
                    /\ p \in Repeatable /\ Repeatable' \subseteq Repeatable \ {p}
                 \/ /\ g \notin Outstanding /\ Outstanding \cup {g} \subseteq Outstanding'
                    /\ Repeatable' \subseteq Repeatable
    PROVE  Budget'
  <1>1. /\ IsFiniteSet(Pending) /\ IsFiniteSet(Repeatable) /\ IsFiniteSet(Outstanding)
        /\ Cardinality(Kept) \in Nat
    BY CountsFinite, FS_CardinalityType
  <1>2. faults \in Int
    BY SidesType
  <1>3. /\ Cardinality(Pending) \in Nat
        /\ Pending' \subseteq Pending =>
             Cardinality(Pending') \in Nat /\ Cardinality(Pending') <= Cardinality(Pending)
        /\ Pending' \subseteq Pending \cup {c} =>
             Cardinality(Pending') \in Nat /\ Cardinality(Pending') <= Cardinality(Pending) + 1
        /\ c \in Pending /\ Pending' \subseteq Pending \ {c} =>
             Cardinality(Pending') \in Nat /\ Cardinality(Pending') <= Cardinality(Pending) - 1
    BY <1>1, OneOrFewer
  <1>4. /\ Cardinality(Repeatable) \in Nat
        /\ Repeatable' \subseteq Repeatable =>
             Cardinality(Repeatable') \in Nat /\ Cardinality(Repeatable') <= Cardinality(Repeatable)
        /\ Repeatable' \subseteq Repeatable \cup {p} =>
             Cardinality(Repeatable') \in Nat /\ Cardinality(Repeatable') <= Cardinality(Repeatable) + 1
        /\ p \in Repeatable /\ Repeatable' \subseteq Repeatable \ {p} =>
             Cardinality(Repeatable') \in Nat /\ Cardinality(Repeatable') <= Cardinality(Repeatable) - 1
    BY <1>1, OneOrFewer
  <1>5. /\ Cardinality(Outstanding) \in Nat /\ Cardinality(Outstanding') \in Nat
        /\ Outstanding \subseteq Outstanding' => Cardinality(Outstanding) <= Cardinality(Outstanding')
        /\ Outstanding \subseteq Outstanding' \cup {g} =>
             Cardinality(Outstanding) - 1 <= Cardinality(Outstanding')
        /\ g \notin Outstanding /\ Outstanding \cup {g} \subseteq Outstanding' =>
             Cardinality(Outstanding) + 1 <= Cardinality(Outstanding')
    BY <1>1, OneOrMore
  <1>6. Cardinality(Kept) + Cardinality(Pending) + Cardinality(Repeatable)
          <= Cardinality(Outstanding) + faults
    BY DEF Budget
  <1>7. Cardinality(Kept) + Cardinality(Pending') + Cardinality(Repeatable')
          <= Cardinality(Outstanding') + faults'
    BY <1>1, <1>2, <1>3, <1>4, <1>5, <1>6
  <1> QED
    BY <1>7 DEF Budget

\* Phones that a step leaves alone, and their requests, keep their chances.
LEMMA ChancesStay ==
    ASSUME FuelConstantsFit, FuelTypeOK, Waiting, NEW p \in Phones, NEW c \in Calls \cup {None}, OthersAlone(p, c),
           c = phone[p].call \/ c = None \/ request[c] = None
    PROVE  \A q \in Phones \ {p} : q \in Repeatable' =>
              phone[q].draft.form \in Outstanding' /\ (phone[q].draft.form \in Outstanding => q \in Repeatable)
  <1>1. \A q \in Phones \ {p} : /\ phone'[q] = phone[q]
                                /\ phone[q].step = "sending" => request'[phone[q].call] = request[phone[q].call]
    BY PagesType DEF OthersAlone, Waiting
  <1> QED
    BY <1>1 DEF Repeatable

LEMMA ChancesAre == Repeatable \subseteq Phones /\ Repeatable' \subseteq Phones
  BY DEF Repeatable

\* A fueling kept was outstanding before.
LEMMA BudgetKeep ==
    ASSUME FuelConstantsFit, FuelTypeOK, Held, Waiting, FormsApart, Budget, NEW c \in Calls, Keep(c)
    PROVE  Budget'
  <1> DEFINE g == request[c].draft.form
  <1>0. Serve(c) /\ faults \in Int
    BY SidesType DEF Serve
  <1>1. /\ Kept' = Kept \cup {Len(log) + 1} /\ Len(log) + 1 \notin Kept
        /\ Made' = Made \cup {g}
    BY KeptByKeep
  <1>2. /\ \A q \in Phones : /\ phone'[q].step = phone[q].step /\ phone'[q].draft = phone[q].draft
                             /\ phone'[q].call = phone[q].call
        /\ \A b \in Calls \ {c} : request'[b] = request[b]
        /\ request[c] # None /\ request[c].stage = "read" /\ request'[c].stage = "kept"
        /\ faults' = faults
    BY <1>0, ServeSides
  <1>3. c \in Pending /\ Pending' = Pending \ {c}
    BY <1>2 DEF Pending
  <1>4. Outstanding' = Outstanding
    <2>1. \A b \in Pending' : request'[b].draft = request[b].draft
      BY <1>2, <1>3 DEF Pending
    <2> QED
      BY <1>1, <1>3, <2>1 DEF Outstanding
  <1>5. Repeatable' \subseteq Repeatable
    <2>1. \A q \in Phones : phone[q].step = "sending" /\ request'[phone[q].call].stage = "refused" =>
             request[phone[q].call].stage = "refused"
      BY <1>2, PagesType
    <2> QED
      BY <1>2, <1>4, <2>1 DEF Repeatable
  <1>6. IsFiniteSet(Kept) /\ IsFiniteSet(Pending) /\ IsFiniteSet(Repeatable) /\ IsFiniteSet(Outstanding)
    BY CountsFinite
  <1>7. Cardinality(Kept') = Cardinality(Kept) + 1 /\ Cardinality(Kept) \in Nat
    BY <1>1, <1>6, FS_AddElement, FS_CardinalityType
  <1>8. /\ Cardinality(Pending) \in Nat /\ Cardinality(Pending') \in Nat
        /\ Cardinality(Pending') <= Cardinality(Pending) - 1
    BY <1>3, <1>6, OneOrFewer
  <1>9. /\ Cardinality(Repeatable) \in Nat /\ Cardinality(Repeatable') \in Nat
        /\ Cardinality(Repeatable') <= Cardinality(Repeatable)
    BY <1>5, <1>6, OneOrFewer
  <1>10. Cardinality(Outstanding) \in Nat
    BY <1>6, FS_CardinalityType
  <1>11. Cardinality(Kept) + Cardinality(Pending) + Cardinality(Repeatable)
           <= Cardinality(Outstanding) + faults
    BY DEF Budget
  <1>12. Cardinality(Kept') + Cardinality(Pending') + Cardinality(Repeatable')
           <= Cardinality(Outstanding') + faults'
    BY <1>0, <1>2, <1>4, <1>7, <1>8, <1>9, <1>10, <1>11
  <1> QED
    BY <1>12 DEF Budget

\* A lookup changes nothing that counts, and nor does the end of a request that no page
\* waits for.
LEMMA BudgetServe ==
    ASSUME FuelConstantsFit, FuelTypeOK, Held, Waiting, FormsApart, Budget, NEW c \in Calls,
           LookUp(c) \/ Finish(c), Kept' = Kept, Made' = Made
    PROVE  Budget'
  <1>0. Serve(c)
    BY DEF Serve
  <1>1. /\ \A q \in Phones : /\ phone'[q].step = phone[q].step /\ phone'[q].draft = phone[q].draft
                             /\ phone'[q].call = phone[q].call
        /\ \A b \in Calls \ {c} : request'[b] = request[b]
        /\ request[c] # None /\ faults' = faults
        /\ \/ /\ request'[c] # None /\ request'[c].draft = request[c].draft
              /\ request[c].stage = "sent" /\ request'[c].stage = "read"
           \/ /\ request'[c] = None /\ request[c].stage \in {"kept", "refused"}
              /\ \A q \in Phones : phone[q].call # c
    BY <1>0, ServeSides
  <1>2. Pending' = Pending /\ \A b \in Pending : request'[b].draft = request[b].draft
    BY <1>1 DEF Pending
  <1>3. Outstanding' = Outstanding
    BY <1>2 DEF Outstanding
  <1>4. Repeatable' \subseteq Repeatable
    <2>1. \A q \in Phones : phone[q].step = "sending" /\ request'[phone[q].call].stage = "refused" =>
             request[phone[q].call].stage = "refused"
      BY <1>1, PagesType
    <2> QED
      BY <1>1, <1>3, <2>1 DEF Repeatable
  <1> QED
    BY <1>1, <1>2, <1>3, <1>4, BudgetBalances

\* A refusal ends a request. If its form stays outstanding, the page that waits for it has
\* a chance instead.
LEMMA BudgetRefuse ==
    ASSUME FuelConstantsFit, FuelTypeOK, Held, Waiting, FormsApart, Budget, NEW c \in Calls, Refuse(c),
           Kept' = Kept, Made' = Made
    PROVE  Budget'
  <1> DEFINE g == request[c].draft.form
  <1>0. Serve(c)
    BY DEF Serve
  <1>1. /\ \A q \in Phones : /\ phone'[q].step = phone[q].step /\ phone'[q].draft = phone[q].draft
                             /\ phone'[q].call = phone[q].call
        /\ \A b \in Calls \ {c} : request'[b] = request[b]
        /\ request[c] # None /\ faults' = faults
        /\ request[c].stage \in {"sent", "read"} /\ request'[c].stage = "refused"
    BY <1>0, ServeSides
  <1>2. c \in Pending /\ Pending' = Pending \ {c}
    BY <1>1 DEF Pending
  <1>3. Outstanding' \subseteq Outstanding /\ Outstanding \subseteq Outstanding' \cup {g}
    <2>1. \A b \in Pending' : request'[b].draft = request[b].draft
      BY <1>1, <1>2 DEF Pending
    <2> QED
      BY <1>2, <2>1 DEF Outstanding
  <1>4. \A q \in Repeatable' : q \in Repeatable \/ (phone[q].call = c /\ phone[q].step = "sending")
    <2>1. \A q \in Phones : phone[q].step = "sending" /\ phone[q].call # c =>
             request'[phone[q].call] = request[phone[q].call]
      BY <1>1, PagesType
    <2> QED
      BY <1>1, <1>3, <2>1 DEF Repeatable
  <1>5. CASE g \in Outstanding'
    <2>1. PICK p : Repeatable' \subseteq Repeatable \cup {p}
      BY <1>4, ChancesAre, PagesType DEF Waiting
    <2>2. Outstanding \subseteq Outstanding'
      BY <1>3, <1>5
    <2>3. Outstanding' \subseteq Outstanding \cup {g}
      BY <1>3
    <2> HIDE DEF g
    <2> QED
      BY <1>1, <1>2, <2>1, <2>2, <2>3, BudgetBalances
  <1>6. CASE g \notin Outstanding'
    <2>1. \A q \in Repeatable' : phone[q].draft.form \in Outstanding'
      BY <1>1 DEF Repeatable
    <2>2. \A q \in Phones : phone[q].step = "sending" /\ phone[q].call = c => phone[q].draft.form = g
      BY DEF Waiting
    <2>3. Repeatable' \subseteq Repeatable
      BY <1>4, <1>6, <2>1, <2>2, ChancesAre
    <2>4. Outstanding' \subseteq Outstanding \cup {g}
      BY <1>3
    <2> HIDE DEF g
    <2> QED
      BY <1>1, <1>2, <1>3, <2>3, <2>4, BudgetBalances
  <1> QED
    BY <1>5, <1>6

\* What is sent is of a new form, or uses up a chance.
LEMMA BudgetSubmit ==
    ASSUME FuelConstantsFit, FuelTypeOK, Held, Waiting, FormsApart, Budget, NEW p \in Phones, NEW c \in Calls,
           Submit(p, c), Kept' = Kept, Made' = Made
    PROVE  Budget'
  <1> DEFINE g == phone[p].draft.form
  <1>1. /\ OthersAlone(p, c) /\ faults' = faults
        /\ request[c] = None /\ request'[c] # None /\ request'[c].stage = "sent"
        /\ request'[c].draft = phone[p].draft /\ phone[p].draft # None
        /\ phone[p].step = "form" /\ phone'[p].step = "sending" /\ phone'[p].call = c
    BY SubmitSides
  <1>2. c \notin Pending /\ Pending' = Pending \cup {c} /\ \A b \in Pending : request'[b] = request[b]
    BY <1>1 DEF Pending, OthersAlone
  <1>3. Outstanding' = Outstanding \cup {g}
    BY <1>1, <1>2 DEF Outstanding
  <1>4. p \notin Repeatable'
    BY <1>1 DEF Repeatable
  <1>5. \A q \in Phones \ {p} : q \in Repeatable' =>
           phone[q].draft.form \in Outstanding' /\ (phone[q].draft.form \in Outstanding => q \in Repeatable)
    BY <1>1, ChancesStay
  <1>6. \A q \in Repeatable' : q # p /\ q \in Phones /\ phone[q].draft # None
    BY <1>1, <1>4, ChancesAre DEF Repeatable, OthersAlone
  <1>7. \A q \in Repeatable' : phone[q].draft.form # g
    BY <1>1, <1>6 DEF FormsApart
  <1>8. Repeatable' \subseteq Repeatable \ {p}
    BY <1>3, <1>5, <1>6, <1>7
  <1>9. CASE g \in Outstanding
    <2>1. p \in Repeatable /\ Outstanding \subseteq Outstanding' /\ Outstanding' \subseteq Outstanding \cup {g}
      BY <1>1, <1>3, <1>9 DEF Repeatable
    <2> HIDE DEF g
    <2> QED
      BY <1>1, <1>2, <1>8, <2>1, BudgetBalances
  <1>10. CASE g \notin Outstanding
    <2>1. Repeatable' \subseteq Repeatable
      BY <1>8
    <2> HIDE DEF g
    <2> QED
      BY <1>1, <1>2, <1>3, <1>10, <2>1, BudgetBalances
  <1> QED
    BY <1>9, <1>10

\* A page that gives up after a refusal had its chance; for a fault it may get one.
LEMMA BudgetGiveUp ==
    ASSUME FuelConstantsFit, FuelTypeOK, Held, Waiting, FormsApart, Budget, NEW p \in Phones, GivesUp(p),
           Kept' = Kept, Made' = Made
    PROVE  Budget'
  <1>0. PICK c \in Calls : c = phone[p].call
    BY GiveUpSides
  <1>1. /\ OthersAlone(p, c) /\ request[c] # None
        /\ phone[p].step \in {"sending", "refreshing"}
        /\ phone'[p].step = "form" /\ phone'[p].draft = phone[p].draft
        /\ \/ request'[c] = None
           \/ request'[c] # None /\ request'[c].stage = request[c].stage /\ request'[c].draft = request[c].draft
        /\ \/ /\ phone[p].step = "sending" /\ request[c].stage = "refused"
              /\ request'[c] = None /\ faults' = faults
           \/ faults' = faults + 1
    BY <1>0, GiveUpSides, PagesType
  <1> DEFINE g == request[c].draft.form
  <1>2. /\ Pending \ {c} \subseteq Pending' /\ Pending' \subseteq Pending
        /\ request'[c] # None \/ c \notin Pending => Pending' = Pending
        /\ request'[c] = None => c \notin Pending'
        /\ \A b \in Pending' : request'[b].draft = request[b].draft
    BY <1>1 DEF Pending, OthersAlone
  <1>3. /\ Outstanding' \subseteq Outstanding /\ Outstanding \subseteq Outstanding' \cup {g}
        /\ Pending' = Pending => Outstanding' = Outstanding
    BY <1>2 DEF Outstanding
  <1>4. \A q \in Phones \ {p} : q \in Repeatable' => q \in Repeatable
    BY <1>0, <1>1, <1>3, ChancesStay
  <1>5. Repeatable' \subseteq Repeatable \cup {p}
    BY <1>4, ChancesAre
  <1>6. Outstanding' \subseteq Outstanding \cup {g}
    BY <1>3
  <1>7. CASE faults' = faults + 1
    <2>1. CASE Pending' = Pending
      <3> HIDE DEF g
      <3> QED
        BY <1>3, <1>5, <1>6, <1>7, <2>1, BudgetBalances
    <2>2. CASE Pending' # Pending
      <3>1. c \in Pending /\ Pending' \subseteq Pending \ {c}
        BY <1>1, <1>2, <2>2
      <3> HIDE DEF g
      <3> QED
        BY <1>3, <1>5, <1>6, <1>7, <3>1, BudgetBalances
    <2> QED
      BY <2>1, <2>2
  <1>8. CASE phone[p].step = "sending" /\ request[c].stage = "refused" /\ faults' = faults
    <2>1. Pending' = Pending
      BY <1>2, <1>8 DEF Pending
    <2>2. p \in Repeatable' => p \in Repeatable
      BY <1>0, <1>1, <1>3, <1>8 DEF Repeatable
    <2>3. Repeatable' \subseteq Repeatable
      BY <1>5, <2>2
    <2> HIDE DEF g
    <2> QED
      BY <1>3, <1>6, <1>8, <2>1, <2>3, BudgetBalances
  <1> QED
    BY <1>1, <1>7, <1>8

\* A page that is opened, edited, told of its entry or done with it sends nothing: it has a
\* chance that it had, or gets one for a fault.
LEMMA BudgetPage ==
    ASSUME FuelConstantsFit, FuelTypeOK, Held, Waiting, FormsApart, Budget, NEW p \in Phones,
           \/ \E v \in Vehicles : OpenForm(p, v)
           \/ \E v \in Vehicles, date \in {ThisDay - 1, ThisDay}, content \in Contents :
                Edit(p, v, date, content)
           \/ Informed(p) \/ Refresh(p),
           Kept' = Kept, Made' = Made
    PROVE  Budget'
  <1>0. forms \in Nat /\ \A g \in Outstanding : g <= forms
    BY SidesType, CountsFinite
  <1>1. PICK c \in Calls \cup {None} :
           /\ OthersAlone(p, c) /\ (c = phone[p].call \/ c = None)
           /\ c # None => c \in Calls /\ request[c].stage = "kept" /\ request'[c] = None
           /\ c = None => request' = request
    <2>1. CASE Refresh(p)
      <3>1. PICK c \in Calls : c = phone[p].call
        BY <2>1, RefreshSides
      <3>2. request[c].stage = "kept" /\ request'[c] = None /\ OthersAlone(p, c)
        BY <2>1, <3>1, RefreshSides DEF Waiting
      <3>3. c # None
        BY SidesType
      <3> QED
        BY <3>1, <3>2, <3>3
    <2>2. CASE ~Refresh(p)
      <3>1. OthersAlone(p, None) /\ request' = request
        BY <2>2, OpenSides, EditSides, ToldSides
      <3> QED
        BY <3>1
    <2> QED
      BY <2>1, <2>2
  <1>2. Pending' = Pending /\ \A b \in Pending : request'[b] = request[b]
    BY <1>1 DEF Pending, OthersAlone
  <1>3. Outstanding' = Outstanding
    BY <1>2 DEF Outstanding
  <1>4. \A q \in Phones \ {p} : q \in Repeatable' => q \in Repeatable
    BY <1>1, <1>3, ChancesStay
  <1>5. Repeatable' \subseteq Repeatable \cup {p}
    BY <1>4, ChancesAre
  <1>6. faults' = faults + 1 \/ (faults' = faults /\ (p \in Repeatable' => p \in Repeatable))
    <2> DEFINE Fair == faults' = faults + 1 \/ (faults' = faults /\ (p \in Repeatable' => p \in Repeatable))
    <2>1. ASSUME NEW v \in Vehicles, OpenForm(p, v) PROVE Fair
      <3>1. CASE faults' = faults + 1
        BY <3>1
      <3>2. CASE faults' = faults /\ forms' = forms + 1 /\ phone'[p].draft.form = forms + 1
        <4>1. ~(forms + 1 <= forms)
          BY <1>0
        <4>2. phone'[p].draft.form \notin Outstanding'
          BY <1>0, <1>3, <3>2, <4>1
        <4> QED
          BY <3>2, <4>2 DEF Repeatable
      <3>3. CASE faults' = faults /\ phone[p].step \in {"closed", "form"} /\ phone'[p].draft = phone[p].draft
        <4>1. phone'[p].draft # None
          BY <2>1, OpenSides
        <4>2. phone[p].step = "form"
          BY <3>3, <4>1 DEF Held
        <4> QED
          BY <1>3, <3>3, <4>1, <4>2 DEF Repeatable
      <3> QED
        BY <2>1, <3>1, <3>2, <3>3, OpenSides
    <2>2. ASSUME NEW v \in Vehicles, NEW date \in {ThisDay - 1, ThisDay}, NEW content \in Contents,
                 Edit(p, v, date, content)
          PROVE  Fair
      <3>1. /\ request' = request /\ faults' = faults /\ phone'[p].step = phone[p].step
            /\ phone'[p].call = phone[p].call /\ phone[p].draft # None
            /\ phone'[p].draft.form = phone[p].draft.form
        BY <2>2, EditSides
      <3>2. p \in Repeatable' => p \in Repeatable
        BY <1>3, <3>1 DEF Repeatable
      <3> QED
        BY <3>1, <3>2
    <2>3. CASE Informed(p)
      <3>1. faults' = faults /\ phone'[p].step = "refreshing"
        BY <2>3, ToldSides
      <3>2. p \notin Repeatable'
        BY <3>1 DEF Repeatable
      <3> QED
        BY <3>1, <3>2
    <2>4. CASE Refresh(p)
      <3>1. faults' = faults /\ phone'[p].draft.form = forms + 1
        BY <2>4, RefreshSides
      <3>2. ~(forms + 1 <= forms)
        BY <1>0
      <3>3. phone'[p].draft.form \notin Outstanding'
        BY <1>0, <1>3, <3>1, <3>2
      <3> QED
        BY <3>1, <3>3 DEF Repeatable
    <2> HIDE DEF Fair
    <2>5. (Informed(p) => Fair) /\ (Refresh(p) => Fair)
      BY <2>3, <2>4 DEF Fair
    <2>6. Fair
      BY <2>1, <2>2, <2>5
    <2> QED
      BY <2>6 DEF Fair
  <1> QED
    BY <1>2, <1>3, <1>4, <1>5, <1>6, BudgetBalances

LEMMA BudgetStep ==
    ASSUME FuelConstantsFit, FuelTypeOK, Held, Waiting, FormsApart, Budget, [FuelNext]_fuelVars PROVE Budget'
  <1>1. ASSUME NEW c \in Calls, Keep(c) PROVE Budget'
    BY <1>1, BudgetKeep
  <1>2. CASE \A c \in Calls : ~Keep(c)
    <2>0. Kept' = Kept /\ Made' = Made
      BY <1>2, KeptByOthers
    <2>1. ASSUME NEW c \in Calls, Serve(c) PROVE Budget'
      BY <1>2, <2>0, <2>1, BudgetServe, BudgetRefuse DEF Serve
    <2>2. ASSUME NEW p \in Phones, NEW c \in Calls, Submit(p, c) PROVE Budget'
      BY <2>0, <2>2, BudgetSubmit
    <2>3. ASSUME NEW p \in Phones, GivesUp(p) PROVE Budget'
      BY <2>0, <2>3, BudgetGiveUp
    <2>4. ASSUME NEW p \in Phones,
                 \/ \E v \in Vehicles : OpenForm(p, v)
                 \/ \E v \in Vehicles, date \in {ThisDay - 1, ThisDay}, content \in Contents :
                      Edit(p, v, date, content)
                 \/ Informed(p) \/ Refresh(p)
          PROVE  Budget'
      BY <2>0, <2>4, BudgetPage
    <2>5. CASE UNCHANGED <<phone, request, forms, faults>>
      <3>1. Pending' = Pending
        BY <2>5 DEF Pending
      <3>2. Outstanding' = Outstanding
        BY <2>0, <2>5, <3>1 DEF Outstanding
      <3>3. Repeatable' = Repeatable
        BY <2>5, <3>2 DEF Repeatable
      <3> QED
        BY <2>0, <2>5, <3>1, <3>2, <3>3 DEF Budget
    <2> QED
      BY <2>1, <2>2, <2>3, <2>4, <2>5, StepIs, StaffSides
  <1> QED
    BY <1>1, <1>2

LEMMA BudgetInit == FuelInit => FormsApart /\ Budget
  <1> SUFFICES ASSUME FuelInit PROVE FormsApart /\ Budget
    OBVIOUS
  <1>1. \A k \in DOMAIN log : origin[k] = None
    BY DEF FuelInit
  <1>2. /\ \A p \in Phones : phone[p].step = "closed" /\ phone[p].draft = None
        /\ \A c \in Calls : request[c] = None
    BY DEF FuelInit, Closed
  <1>3. Kept = {} /\ Made = {} /\ Pending = {}
    BY <1>1, <1>2 DEF Kept, Made, Pending
  <1>4. Outstanding = {} /\ Repeatable = {}
    BY <1>2, <1>3 DEF Outstanding, Repeatable
  <1>5. FormsApart
    BY <1>2, <1>3 DEF FormsApart
  <1>6. Cardinality({}) = 0 /\ faults = 0
    BY FS_EmptySet DEF FuelInit
  <1>7. Budget
    BY <1>3, <1>4, <1>6 DEF Budget
  <1> QED
    BY <1>5, <1>7

\* There are no more forms to come than requests for them.
LEMMA BudgetBounds ==
    ASSUME FuelConstantsFit, FuelTypeOK, FormsApart, Budget
    PROVE  Cardinality(Kept) <= Cardinality(Made) + faults
  <1> DEFINE Coming == {request[c].draft.form : c \in Pending}
             form == [c \in Pending |-> request[c].draft.form]
  <1>1. IsFiniteSet(Pending) /\ IsFiniteSet(Made) /\ IsFiniteSet(Kept) /\ IsFiniteSet(Repeatable)
    BY CountsFinite
  <1>2. form \in Surjection(Pending, Coming)
    BY DEF Surjection
  <1> HIDE DEF form, Coming
  <1>3. IsFiniteSet(Coming) /\ Cardinality(Coming) <= Cardinality(Pending)
    BY <1>1, <1>2, FS_Surjection
  <1>4. Cardinality(Made \cup Coming) = Cardinality(Made) + Cardinality(Coming) - Cardinality(Made \cap Coming)
        /\ IsFiniteSet(Made \cap Coming)
    BY <1>1, <1>3, FS_Union, FS_Intersection
  <1>5. Outstanding = Made \cup Coming
    BY DEF Outstanding, Coming
  <1>6. /\ Cardinality(Made) \in Nat /\ Cardinality(Coming) \in Nat /\ Cardinality(Made \cap Coming) \in Nat
        /\ Cardinality(Kept) \in Nat /\ Cardinality(Pending) \in Nat /\ Cardinality(Repeatable) \in Nat
    BY <1>1, <1>3, <1>4, FS_CardinalityType
  <1>7. Cardinality(Kept) + Cardinality(Pending) + Cardinality(Repeatable)
          <= Cardinality(Outstanding) + faults
    BY DEF Budget
  <1> QED
    BY <1>3, <1>4, <1>5, <1>6, <1>7, SidesType

----------------------------------------------------------------------------
(* A repeat is flagged: it has the reading of the entry that it repeats, or *)
(* one filled in that comes to the same.                                    *)

\* The entries of a vehicle, of the first n, that a reading could be filled in from
Earlier(v, n) == {l \in 1..n : log[l].vehicle = v /\ log[l].reading # None}

\* The one of them with the latest date, and the last of those
IsLatest(m, v, n) ==
    /\ m \in Earlier(v, n)
    /\ \A l \in Earlier(v, n) : log[l].date <= log[m].date /\ (l > m => log[l].date < log[m].date)

FilledIn(v, n, reading) ==
    IF Earlier(v, n) = {} THEN reading = None
    ELSE \E m \in Earlier(v, n) : IsLatest(m, v, n) /\ reading = log[m].reading

\* The reading that a draft gives when it is looked up after n entries
Reads(d, n, reading) ==
    IF d.content.reading = None THEN FilledIn(d.vehicle, n, reading) ELSE reading = d.content.reading

\* What an entry, or a request whose lookup is done, has of its draft
EntryFits(k) ==
    origin[k] # None =>
        /\ log[k].vehicle = origin[k].vehicle /\ log[k].date = origin[k].date
        /\ seen[k] < k /\ Reads(origin[k], seen[k], log[k].reading)

CallFits(c) ==
    request[c] # None /\ request[c].stage = "read" =>
        request[c].seen <= Len(log) /\ Reads(request[c].draft, request[c].seen, request[c].reading)

EntriesFit == (\A k \in DOMAIN log : EntryFits(k)) /\ (\A c \in Calls : CallFits(c))

\* Entries are only added, so what was read from those there were is what it was.
LEMMA ReadsStay ==
    ASSUME NEW n \in Nat, NEW more \in Nat, n <= more, \A l \in 1..more : log'[l] = log[l],
           NEW d, NEW reading, Reads(d, n, reading)
    PROVE  Reads(d, n, reading)'
  <1>1. \A l \in 1..n : log'[l] = log[l]
    OBVIOUS
  <1> DEFINE v == d.vehicle
  <1>2. Earlier(v, n)' = Earlier(v, n) /\ \A l \in Earlier(v, n) : log'[l] = log[l]
    BY <1>1 DEF Earlier
  <1>3. \A m \in Earlier(v, n) : IsLatest(m, v, n)' <=> IsLatest(m, v, n)
    BY <1>2 DEF IsLatest
  <1>4. FilledIn(v, n, reading)' <=> FilledIn(v, n, reading)
    BY <1>2, <1>3 DEF FilledIn
  <1> QED
    BY <1>4 DEF Reads

\* What is filled in is the reading of the latest entry.
LEMMA FallbackFillsIn ==
    ASSUME FuelTypeOK, NEW v \in Vehicles PROVE FilledIn(v, Len(log), FallbackReading(v))
  <1> DEFINE with == {k \in DOMAIN log : log[k].vehicle = v /\ log[k].reading # None}
             last == {k \in with : \A l \in with : log[l].date <= log[k].date}
  <1>1. FallbackReading(v) = IF with = {} THEN None ELSE log[Max(last)].reading
    BY DEF FallbackReading
  <1>2. with = Earlier(v, Len(log)) /\ with \in SUBSET (1..Len(log))
    BY LogType DEF Earlier
  <1>3. with # {} => /\ Max(last) \in with
                     /\ \A l \in with : /\ log[l].date <= log[Max(last)].date
                                        /\ l > Max(last) => log[l].date < log[Max(last)].date
    <2> HIDE DEF with
    <2> QED
      BY <1>2, LatestFacts
  <1> HIDE DEF with, last
  <1>4. CASE with = {}
    BY <1>1, <1>2, <1>4 DEF FilledIn
  <1>5. CASE with # {}
    <2>1. IsLatest(Max(last), v, Len(log))
      BY <1>2, <1>3, <1>5 DEF IsLatest
    <2> QED
      BY <1>1, <1>2, <1>3, <1>5, <2>1 DEF FilledIn
  <1> QED
    BY <1>4, <1>5

\* An entry that is added, for a draft or by staff, leaves the others what they have.
LEMMA FitsAfterAdd ==
    ASSUME FuelConstantsFit, FuelTypeOK, EntriesFit, NEW e \in FuelEntry, NEW d \in Draft \cup {None},
           NEW before \in Nat, Add(e, d, before),
           d # None => /\ e.vehicle = d.vehicle /\ e.date = d.date /\ before <= Len(log)
                       /\ Reads(d, before, e.reading)
    PROVE  \A k \in DOMAIN log' : EntryFits(k)'
  <1>0. /\ Len(log) \in Nat /\ DOMAIN log = 1..Len(log) /\ DOMAIN log' = 1..Len(log)+1
        /\ \A k \in 1..Len(log) : log'[k] = log[k] /\ origin'[k] = origin[k] /\ seen'[k] = seen[k]
        /\ log'[Len(log)+1] = e /\ origin'[Len(log)+1] = d /\ seen'[Len(log)+1] = before
        /\ \A k \in 1..Len(log) : EntryFits(k) /\ seen[k] \in Nat
    BY LogType, AddType DEF EntriesFit
  <1>a. PICK n \in Nat : n = Len(log)
    BY <1>0
  <1>1. ASSUME NEW k \in 1..n PROVE EntryFits(k)'
    <2>1. log'[k] = log[k] /\ origin'[k] = origin[k] /\ seen'[k] = seen[k] /\ EntryFits(k) /\ seen[k] \in Nat
      BY <1>0, <1>a
    <2>2. CASE origin[k] = None
      BY <2>1, <2>2 DEF EntryFits
    <2>3. CASE origin[k] # None
      <3>1. seen[k] < k /\ Reads(origin[k], seen[k], log[k].reading)
        BY <2>1, <2>3 DEF EntryFits
      <3>2. seen[k] <= n /\ \A l \in 1..n : log'[l] = log[l]
        BY <1>0, <1>a, <2>1, <3>1
      <3>3. PICK s \in Nat : s = seen[k]
        BY <2>1
      <3>5. PICK o, r : o = origin[k] /\ r = log[k].reading
        OBVIOUS
      <3>4. Reads(o, s, r)'
        BY <3>1, <3>2, <3>3, <3>5, ReadsStay
      <3> QED
        BY <2>1, <2>3, <3>1, <3>3, <3>5, <3>4 DEF EntryFits
    <2> QED
      BY <2>2, <2>3
  <1>2. EntryFits(n+1)'
    <2>1. CASE d = None
      BY <1>0, <1>a, <2>1 DEF EntryFits
    <2>2. CASE d # None
      <3>1. PICK r : r = e.reading
        OBVIOUS
      <3>2. before <= n /\ Reads(d, before, r) /\ \A l \in 1..n : log'[l] = log[l]
        BY <1>0, <1>a, <2>2, <3>1
      <3>3. Reads(d, before, r)'
        BY <3>2, ReadsStay
      <3> QED
        BY <1>0, <1>a, <2>2, <3>1, <3>2, <3>3 DEF EntryFits
    <2> QED
      BY <2>1, <2>2
  <1> QED
    BY <1>0, <1>a, <1>1, <1>2

\* A request goes on with what it has read.
LEMMA CallFitsStays ==
    ASSUME FuelConstantsFit, FuelTypeOK, EntriesFit, NEW c \in Calls,
           Len(log) <= Len(log'), Len(log') \in Nat, \A l \in 1..Len(log) : log'[l] = log[l],
           request'[c] # None /\ request'[c].stage = "read" =>
             /\ request[c] # None /\ request[c].stage = "read" /\ request'[c].draft = request[c].draft
             /\ request'[c].seen = request[c].seen /\ request'[c].reading = request[c].reading
    PROVE  CallFits(c)'
  <1> SUFFICES ASSUME request'[c] # None, request'[c].stage = "read" PROVE CallFits(c)'
    BY DEF CallFits
  <1>1. /\ request[c] \in Request /\ Len(log) \in Nat /\ CallFits(c) /\ request[c] # None
        /\ request[c].stage = "read"
    BY SidesType, LogType DEF EntriesFit
  <1>2. PICK n \in Nat : n = request[c].seen
    BY <1>1 DEF Request
  <1>3. PICK d, r : d = request[c].draft /\ r = request[c].reading
    OBVIOUS
  <1>4. n <= Len(log) /\ Reads(d, n, r)
    BY <1>1, <1>2, <1>3 DEF CallFits
  <1>5. Reads(d, n, r)'
    BY <1>1, <1>4, ReadsStay
  <1> QED
    BY <1>1, <1>2, <1>3, <1>4, <1>5 DEF CallFits

\* Nothing but a lookup makes a request one that has read.
LEMMA ReadBefore ==
    ASSUME FuelConstantsFit, FuelTypeOK, Held, Waiting, [FuelNext]_fuelVars, NEW c \in Calls, ~LookUp(c),
           request'[c] # None, request'[c].stage = "read"
    PROVE  /\ request[c] # None /\ request[c].stage = "read" /\ request'[c].draft = request[c].draft
           /\ request'[c].seen = request[c].seen /\ request'[c].reading = request[c].reading
  <1>1. CASE request'[c] = request[c]
    BY <1>1
  <1>2. ASSUME NEW b \in Calls, Serve(b), request'[c] # request[c] PROVE FALSE
    BY <1>2, ServeSides DEF Serve
  <1>3. ASSUME NEW p \in Phones, NEW b \in Calls, Submit(p, b), request'[c] # request[c] PROVE FALSE
    BY <1>3, SubmitSides DEF OthersAlone
  <1>4. ASSUME NEW p \in Phones, GivesUp(p), request'[c] # request[c]
        PROVE  /\ request[c] # None /\ request[c].stage = "read" /\ request'[c].draft = request[c].draft
               /\ request'[c].seen = request[c].seen /\ request'[c].reading = request[c].reading
    <2>1. phone[p].call = c /\ request[c] # None
      BY <1>4, GiveUpSides, PagesType DEF OthersAlone
    <2> QED
      BY <1>4, <2>1, GiveUpSides
  <1>5. ASSUME NEW p \in Phones, Refresh(p), request'[c] # request[c] PROVE FALSE
    BY <1>5, RefreshSides DEF OthersAlone
  <1> QED
    BY <1>1, <1>2, <1>3, <1>4, <1>5, StepIs, StaffSides, OpenSides, EditSides, ToldSides

\* The log only grows, and what it has fits.
LogFits ==
    /\ \A k \in DOMAIN log' : EntryFits(k)'
    /\ Len(log) <= Len(log') /\ Len(log') \in Nat /\ Len(log) \in Nat
    /\ \A l \in 1..Len(log) : log'[l] = log[l]

LEMMA EntriesFitStep ==
    ASSUME FuelConstantsFit, FuelTypeOK, Held, Waiting, EntriesFit, [FuelNext]_fuelVars PROVE EntriesFit'
  <1>0. Len(log) \in Nat
    BY LogType
  <1>1. LogFits
    <2>1. ASSUME NEW c \in Calls, Keep(c) PROVE LogFits
      <3> DEFINE d == request[c].draft
      <3>1. d \in Draft /\ request[c].seen \in Nat /\ CallFits(c)
        BY <2>1, SidesType DEF Keep, Request, EntriesFit
      <3>2. PICK e \in FuelEntry :
               /\ Add(e, d, request[c].seen) /\ e.vehicle = d.vehicle /\ e.date = d.date
               /\ e.reading = request[c].reading
        BY <2>1, KeepAdds
      <3>3. request[c].seen <= Len(log) /\ Reads(d, request[c].seen, e.reading)
        BY <2>1, <3>1, <3>2 DEF Keep, CallFits
      <3> HIDE DEF d
      <3>4. \A k \in DOMAIN log' : EntryFits(k)'
        BY <3>1, <3>2, <3>3, FitsAfterAdd
      <3> QED
        BY <3>1, <3>2, <3>4, AddType, LogType DEF LogFits
    <2>2. ASSUME NEW v \in Vehicles, NEW content \in Contents, NEW date \in {ThisDay - 1, ThisDay},
                 CreateByStaff(v, date, content)
          PROVE  LogFits
      <3>1. PICK e \in FuelEntry : Add(e, None, Len(log))
        BY <2>2, StaffAdds
      <3>2. \A k \in DOMAIN log' : EntryFits(k)'
        BY <1>0, <3>1, FitsAfterAdd
      <3> QED
        <4>1. PICK before \in Nat : before = Len(log)
          BY <1>0
        <4>2. Add(e, None, before)
          BY <3>1, <4>1
        <4>3. Len(log') = Len(log) + 1 /\ \A k \in 1..Len(log) : log'[k] = log[k]
          BY <4>2, AddType
        <4> QED
          BY <1>0, <3>2, <4>3 DEF LogFits
    <2>3. CASE UNCHANGED <<log, origin, seen>>
      <3>1. \A k \in DOMAIN log : EntryFits(k)' <=> EntryFits(k)
        BY <2>3 DEF EntryFits, Reads, FilledIn, IsLatest, Earlier
      <3> QED
        BY <2>3, <3>1, LogType DEF EntriesFit, LogFits
    <2> QED
      BY <2>1, <2>2, <2>3
         DEF FuelNext, Staff, Serve, Drive, LookUp, Refuse, Finish, Answer, Lose, OpenForm, Edit, Submit,
             Refresh, FailRefresh, CheckReading, Move, FuelTick, fuelVars
  <1>2. ASSUME NEW c \in Calls PROVE CallFits(c)'
    <2>1. CASE LookUp(c)
      <3>1. PICK d \in Draft : d = request[c].draft /\ d.vehicle \in Vehicles
        BY <2>1, SidesType DEF LookUp, Draft
      <3>2. PICK r : r = IF d.content.reading = None THEN FallbackReading(d.vehicle) ELSE d.content.reading
        OBVIOUS
      <3>3. Reads(d, Len(log), r)
        BY <3>1, <3>2, FallbackFillsIn DEF Reads
      <3>4. log' = log /\ request' = [request EXCEPT ![c].stage = "read", ![c].seen = Len(log), ![c].reading = r]
        BY <2>1, <3>1, <3>2 DEF LookUp
      <3>5. request'[c].draft = d /\ request'[c].seen = Len(log) /\ request'[c].reading = r
        <4>1. request[c] \in Request /\ request \in [Calls -> Request \cup {None}]
          BY <2>1, SidesType DEF LookUp
        <4> QED
          BY <3>1, <3>4, <4>1 DEF Request
      <3>6. PICK n \in Nat : n = Len(log)
        BY <1>1 DEF LogFits
      <3>7. Reads(d, n, r)'
        <4>1. \A l \in 1..n : log'[l] = log[l]
          BY <3>4
        <4> QED
          BY <3>3, <3>6, <4>1, ReadsStay
      <3> QED
        BY <3>4, <3>5, <3>6, <3>7 DEF CallFits
    <2>2. CASE ~LookUp(c)
      <3>1. request'[c] # None /\ request'[c].stage = "read" =>
              /\ request[c] # None /\ request[c].stage = "read" /\ request'[c].draft = request[c].draft
              /\ request'[c].seen = request[c].seen /\ request'[c].reading = request[c].reading
        BY <2>2, ReadBefore
      <3> QED
        BY <1>1, <3>1, CallFitsStays DEF LogFits
    <2> QED
      BY <2>1, <2>2
  <1> QED
    BY <1>1, <1>2 DEF EntriesFit, LogFits

\* Two entries of one draft that have their readings from the same entries, with nothing of
\* the vehicle between them, have the same one.
LEMMA SameReading ==
    ASSUME FuelTypeOK, EntriesFit, NEW i \in DOMAIN log, NEW k \in DOMAIN log, i < k,
           origin[k] # None, origin[i] = origin[k], SameBasis(i, k),
           \A l \in i+1..k-1 : log[l].vehicle # log[k].vehicle, log[k].reading # None
    PROVE  log[i].reading = log[k].reading
  <1> DEFINE d == origin[k]
             v == d.vehicle
  <1>1. /\ Len(log) \in Nat /\ i \in 1..Len(log) /\ k \in 1..Len(log)
        /\ \A l \in 1..Len(log) : log[l].date \in Int
        /\ seen[i] \in Nat /\ seen[k] \in Nat
    BY LogType DEF FuelEntry
  <1>2. /\ log[i].vehicle = v /\ log[k].vehicle = v /\ seen[i] < i /\ seen[k] < k
        /\ Reads(d, seen[i], log[i].reading) /\ Reads(d, seen[k], log[k].reading)
    BY DEF EntriesFit, EntryFits
  <1>3. CASE d.content.reading # None
    BY <1>2, <1>3 DEF Reads
  <1>4. CASE d.content.reading = None
    <2> DEFINE n == Min({seen[i], seen[k]})
    <2>1. FilledIn(v, seen[i], log[i].reading) /\ FilledIn(v, seen[k], log[k].reading)
      BY <1>2, <1>4 DEF Reads
    <2>2. n \in {seen[i], seen[k]} /\ n <= seen[i] /\ n <= seen[k]
      <3>1. {seen[i], seen[k]} \in SUBSET Nat /\ {seen[i], seen[k]} # {}
        BY <1>1
      <3> QED
        BY <3>1, MinFacts
    <2>3. \A l \in n+1..i-1 : log[l].vehicle = v => log[l].reading = None
      BY <1>2, <1>4 DEF SameBasis
    <2> HIDE DEF n
    <2>4. Earlier(v, seen[i]) = Earlier(v, n)
      <3>1. \A l \in 1..seen[i] : l \in 1..n \/ l \in n+1..i-1
        BY <1>1, <1>2, <2>2
      <3>2. 1..n \subseteq 1..seen[i]
        BY <1>1, <2>2
      <3> QED
        BY <2>3, <3>1, <3>2 DEF Earlier
    <2>5. Earlier(v, seen[k]) = Earlier(v, n)
          \/ (Earlier(v, seen[k]) = Earlier(v, n) \cup {i} /\ \A l \in Earlier(v, n) : l < i)
      <3>1. \A l \in 1..seen[k] : l \in 1..n \/ l \in n+1..i-1 \/ l = i \/ l \in i+1..k-1
        BY <1>1, <1>2, <2>2
      <3>2. 1..n \subseteq 1..seen[k]
        BY <1>1, <2>2
      <3>3. Earlier(v, n) \subseteq Earlier(v, seen[k]) /\ Earlier(v, seen[k]) \subseteq Earlier(v, n) \cup {i}
        BY <1>2, <2>3, <3>1, <3>2 DEF Earlier
      <3>4. \A l \in Earlier(v, n) : l < i
        BY <1>1, <1>2, <2>2 DEF Earlier
      <3> QED
        BY <3>3, <3>4
    <2>6. \A m \in {seen[i], seen[k]} : Earlier(v, m) \subseteq 1..Len(log)
                                        /\ \A l \in Earlier(v, m) : log[l].reading # None
      BY <1>1, <1>2 DEF Earlier
    <2>7. PICK m \in Earlier(v, seen[k]) : IsLatest(m, v, seen[k]) /\ log[k].reading = log[m].reading
      BY <2>1 DEF FilledIn
    <2>8. CASE m \in Earlier(v, n)
      <3>1. PICK o \in Earlier(v, n) : IsLatest(o, v, seen[i]) /\ log[i].reading = log[o].reading
        BY <2>1, <2>4, <2>8 DEF FilledIn
      <3>2. m \in 1..Len(log) /\ o \in 1..Len(log) /\ o \in Earlier(v, seen[k]) /\ m \in Earlier(v, seen[i])
        BY <2>4, <2>5, <2>6, <2>8, <3>1
      <3>3. m = o
        BY <1>1, <2>7, <3>1, <3>2 DEF IsLatest
      <3> QED
        BY <2>7, <3>1, <3>3
    <2>9. CASE m \notin Earlier(v, n)
      <3>1. m = i
        BY <2>5, <2>7, <2>9
      <3> QED
        BY <2>7, <3>1
    <2> QED
      BY <2>8, <2>9
  <1> QED
    BY <1>3, <1>4

\* The entry that one repeats is the one before it, for the alerts too.
LEMMA RepeatComesNext ==
    ASSUME FuelConstantsFit, FuelTypeOK, EntriesFit, NEW i \in DOMAIN log, NEW k \in DOMAIN log, i < k,
           origin[k] # None, origin[i] = origin[k],
           \A l \in i+1..k-1 : log[l].vehicle # log[k].vehicle
    PROVE  LET series == Series(log, k, Everything)
           IN  k # Min(series) /\ Before(k, series) = i
  <1> DEFINE series == Series(log, k, Everything)
             before == {j \in series : j < k}
  <1>1. /\ Len(log) \in Nat /\ i \in 1..Len(log) /\ k \in 1..Len(log) /\ log[k].date \in Int
        /\ Lookback \in Nat
    BY LogType DEF FuelEntry, FuelConstantsFit
  <1>2. log[i].vehicle = log[k].vehicle /\ log[i].date = log[k].date
    BY DEF EntriesFit, EntryFits
  <1>3. i \in series
    BY <1>1, <1>2 DEF Series, InScope, Everything
  <1>4. series \in SUBSET (1..k) /\ \A l \in series : log[l].vehicle = log[k].vehicle
    BY DEF Series
  <1> HIDE DEF series
  <1>5. k # Min(series)
    <2>1. series \in SUBSET Nat /\ series # {}
      BY <1>1, <1>3, <1>4
    <2>2. Min(series) <= i
      BY <1>3, <2>1, MinFacts
    <2> QED
      BY <1>1, <2>2
  <1>6. Max(before) = i
    <2>1. i \in before /\ before \in SUBSET (1..k) /\ k \in Nat
      BY <1>1, <1>3, <1>4
    <2>2. Max(before) \in before /\ Max(before) >= i
      <3> HIDE DEF before
      <3> QED
        BY <2>1, MaxFacts
    <2>3. \A l \in before : l \in 1..k-1 /\ log[l].vehicle = log[k].vehicle
      BY <1>1, <1>4
    <2> HIDE DEF before
    <2> QED
      BY <1>1, <2>2, <2>3
  <1> QED
    BY <1>5, <1>6, Zenon DEF Before, series

\* So it comes too soon after it.
LEMMA RepeatFlagged ==
    ASSUME FuelConstantsFit, FuelTypeOK, EntriesFit PROVE RepeatIsFlagged
  <1> SUFFICES ASSUME NEW i \in DOMAIN log, NEW k \in DOMAIN log, i < k,
                      origin[k] # None, origin[i] = origin[k],
                      \A l \in i+1..k-1 : log[l].vehicle # log[k].vehicle,
                      \/ log[k].createdAt - log[i].createdAt <= RepeatWindow
                      \/ log[k].reading # None /\ SameBasis(i, k)
               PROVE  <<"fueling_too_soon_after_previous_fill", "HIGH">>
                        \in EntryAlerts(log, k, Everything)
    BY DEF RepeatIsFlagged
  <1> DEFINE series == Series(log, k, Everything)
             base == Baseline(log, series \ {k})
  <1>1. k # Min(series) /\ Before(k, series) = i
    BY RepeatComesNext
  <1>2. TooSoon(log[i], log[k])
    <2>1. CASE log[k].createdAt - log[i].createdAt <= RepeatWindow
      BY <2>1 DEF TooSoon
    <2>2. CASE log[k].reading # None /\ SameBasis(i, k)
      <3>1. log[i].reading = log[k].reading
        BY <2>2, SameReading
      <3>2. log[k].reading \in Nat
        BY <2>2, LogType DEF FuelEntry
      <3>3. log[k].reading - log[i].reading = 0
        BY <3>1, <3>2
      <3>4. Driven(log[i], log[k]) = 0
        BY <3>3 DEF Driven, Max
      <3>5. Known(log[i], log[k])
        BY <2>2, <3>1 DEF Known
      <3> QED
        BY <3>4, <3>5 DEF TooSoon
    <2> QED
      BY <2>1, <2>2
  <1>3. SeriesAlerts(log, k, Everything) = AlertsAfter(log[i], log[k], base)
    <2> HIDE DEF base
    <2>1. base = Baseline(log, series \ {k})
      BY DEF base
    <2> QED
      BY <1>1, <2>1, Zenon DEF SeriesAlerts
  <1> HIDE DEF base
  <1>4. <<"fueling_too_soon_after_previous_fill", "HIGH">> \in AlertsAfter(log[i], log[k], base)
    BY <1>2, Zenon DEF AlertsAfter
  <1> QED
    BY <1>3, <1>4, Zenon DEF EntryAlerts

----------------------------------------------------------------------------
(* The theorems. *)

FuelInv == FuelTypeOK /\ Held /\ Waiting /\ FormsApart /\ Budget /\ EntriesFit

\* The invariant the others follow from: pages hold drafts and wait for their own requests,
\* drafts are of forms apart, the budget holds, and entries have what their drafts gave.
THEOREM FuelInvariant == ASSUME FuelConstantsFit PROVE FuelSpec => []FuelInv
  <1>1. FuelInit => FuelInv
    <2> SUFFICES ASSUME FuelInit PROVE FuelInv
      OBVIOUS
    <2>1. FuelTypeOK
      BY FuelTypeInit
    <2>2. Held /\ Waiting /\ EntriesFit
      BY DEF FuelInit, Held, Waiting, Closed, EntriesFit, EntryFits, CallFits
    <2> QED
      BY <2>1, <2>2, BudgetInit DEF FuelInv
  <1>2. FuelInv /\ [FuelNext]_fuelVars => FuelInv'
    BY FuelTypeStep, HeldStep, WaitingStep, FormsApartStep, BudgetStep, EntriesFitStep DEF FuelInv
  <1> QED
    BY <1>1, <1>2, PTL DEF FuelSpec

\* Every state of the entries and the phones is of its type, whatever is sent, lost or
\* moved (createFuelEntry, createDriverFuelEntry, FuelEntryPage).
THEOREM FuelTypeCorrect == ASSUME FuelConstantsFit PROVE FuelSpec => []FuelTypeOK
  <1>1. FuelInv => FuelTypeOK
    BY DEF FuelInv
  <1> QED
    BY <1>1, FuelInvariant, PTL

\* The alerts of an entry, for who sees the whole company, stay those it had when it was
\* created: no entry created later, for whichever date, and no move changes them
\* (buildFuelAlerts, historyUntilCurrent).
THEOREM AlertsStaySettled == ASSUME FuelConstantsFit PROVE FuelSpec => []AlertsSettle
  <1>1. FuelTypeOK => AlertsSettle
    <2> SUFFICES ASSUME FuelTypeOK, NEW k \in DOMAIN log
                 PROVE  EntryAlerts(log, k, Everything)
                          = EntryAlerts(SubSeq(log, 1, k), k, Everything)
      BY DEF AlertsSettle
    <2>1. /\ log \in Seq(FuelEntry) /\ Len(log) \in Nat /\ k \in 1..Len(log)
          /\ log[k].date \in Int
      BY LogType DEF FuelEntry
    <2>2. \A j \in 1..k : log[j] = SubSeq(log, 1, k)[j]
      BY <2>1, SubSeqProperties
    <2>3. k \in Nat /\ k # 0
      BY <2>1
    <2> QED
      BY <2>1, <2>2, <2>3, AlertsSettleAt, Zenon
  <1> QED
    BY <1>1, FuelTypeCorrect, PTL

\* Whatever a driver does, a fueling is in the log more often than once only for answers
\* that were lost, refreshes that failed and pages that were left while sending
\* (onSubmit; createDriverFuelEntry, which tells no repeated request from a new one).
THEOREM RepeatsTakeFaults == ASSUME FuelConstantsFit PROVE FuelSpec => []RepeatsNeedFaults
  <1>1. FuelInv => RepeatsNeedFaults
    <2> SUFFICES ASSUME FuelInv PROVE RepeatsNeedFaults
      OBVIOUS
    <2>1. Cardinality(Kept) <= Cardinality(Made) + faults
      BY BudgetBounds DEF FuelInv
    <2> QED
      BY <2>1, Zenon DEF RepeatsNeedFaults, Kept, Made
  <1> QED
    BY <1>1, FuelInvariant, PTL

\* An entry that is in the log again, from the same draft and with nothing between the
\* two, is reported to whoever sees the whole company, if it comes soon, or has a reading
\* and no other entry came between a lookup and what it was for
\* (resolveFallbackOdometer, tooSoon).
THEOREM RepeatsAreFlagged == ASSUME FuelConstantsFit PROVE FuelSpec => []RepeatIsFlagged
  <1>1. FuelInv => RepeatIsFlagged
    BY RepeatFlagged DEF FuelInv
  <1> QED
    BY <1>1, FuelInvariant, PTL
=============================================================================
