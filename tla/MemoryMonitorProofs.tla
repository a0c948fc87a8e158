------------------------- MODULE MemoryMonitorProofs -------------------------
(***************************************************************************)
(* Proofs about the memory monitor, for words of any width and any         *)
(* samples, and about the translation of any metrics to datapoints.        *)
(***************************************************************************)
EXTENDS MetricPipeline, TLAPS, FiniteSetTheorems, WellFoundedInduction

-----------------------------------------------------------------------------
(* The monitor *)

\* The types, and what the two differences need: whatever was emitted on Linux are the
\* gauges of the sample.
EmittedOfSample == emitted = <<>> \/ (sample \in Sample /\ emitted = Metrics(sample))
IInv == TypeOK /\ EmittedOfSample

\* monitor.go:158: converting the unsigned difference of two counters below 2^63 to int64
\* gives their difference, also when the second is larger.
LEMMA DifferenceExact ==
  ASSUME NEW a \in 0..(HalfWord - 1), NEW b \in 0..(HalfWord - 1)
  PROVE  Int64(Minus(a, b)) = a - b
BY SamplesAreCounters DEF Int64, Minus

LEMMA Initially == Init => IInv
BY DEF Init, IInv, TypeOK, EmittedOfSample

LEMMA Inductive == IInv /\ [Next]_vars => IInv'
<1> SUFFICES ASSUME IInv, [Next]_vars PROVE IInv'
  OBVIOUS
<1> USE DEF IInv, TypeOK, EmittedOfSample
<1>1. CASE Start
  BY <1>1 DEF Start, Metrics, WindowsMetrics, NonWindowsMetrics, DarwinMetrics, LinuxMetrics
<1>2. CASE Shutdown
  BY <1>2 DEF Shutdown, Metrics
<1>3. CASE Tick
  BY <1>3 DEF Tick, Metrics, once
<1>4. CASE TakeTick
  BY <1>4 DEF TakeTick, Metrics, once
<1>5. CASE TakeStop
  BY <1>5 DEF TakeStop, Metrics, once
<1>6. CASE ScrapeAndEmit
  BY <1>6 DEF ScrapeAndEmit, Metrics, once
<1>7. CASE UNCHANGED vars
  BY <1>7 DEF vars, once, Metrics
<1> QED
  BY <1>1, <1>2, <1>3, <1>4, <1>5, <1>6, <1>7 DEF Next, Loop

\* The variables of the monitor keep their types: a monitor that was made has its
\* goroutine, and only Shutdown closes its channel (receiver.go:53, receiver.go:76).
THEOREM Typing == Spec => []TypeOK
<1>1. IInv => TypeOK
  BY DEF IInv
<1> QED
  BY Initially, Inductive, <1>1, PTL DEF Spec

\* On Linux the two differences are what was sampled, for words of any width: the wrap
\* around of the unsigned subtraction never shows (monitor.go:149).
THEOREM DifferencesExact == Spec => []GaugesExact
<1>1. IInv => GaugesExact
  <2> SUFFICES ASSUME IInv, emitted # <<>>, os = "linux" PROVE GaugesExact
    BY DEF GaugesExact
  <2>1. sample \in [Counter -> 0..(HalfWord - 1)] /\ emitted = Metrics(sample)
    BY SamplesAreCounters DEF IInv, EmittedOfSample
  <2>2. /\ emitted[5] = Bytes("memory.cached", Minus(sample["Cached"], sample["SReclaimable"]))
        /\ emitted[7] = Bytes("memory.slab_unreclaimable",
                              Minus(sample["Slab"], sample["SReclaimable"]))
    BY <2>1 DEF Metrics, NonWindowsMetrics, LinuxMetrics
  <2>3. /\ emitted[5].timeseries[1][1].n = Int64(Minus(sample["Cached"], sample["SReclaimable"]))
        /\ emitted[7].timeseries[1][1].n = Int64(Minus(sample["Slab"], sample["SReclaimable"]))
    BY <2>2 DEF Bytes, Gauge
  <2>4. {sample["Cached"], sample["SReclaimable"], sample["Slab"]} \subseteq 0..(HalfWord - 1)
    BY <2>1 DEF Counter
  <2> QED
    BY <2>3, <2>4, DifferenceExact DEF GaugesExact
<1> QED
  BY Initially, Inductive, <1>1, PTL DEF Spec
-----------------------------------------------------------------------------
(* The recursion of FlattenSeq.  What holds of every part of a sequence of sequences is   *)
(* shown by a least counterexample.                                                       *)

LEMMA LeastOfNat ==
  ASSUME NEW T \in SUBSET Nat, T # {}
  PROVE  \E m \in T : \A k \in T : m <= k
<1>1. IsWellFoundedOn(OpToRel(<, Nat), Nat)
  BY NatLessThanWellFounded
<1>2. PICK m \in T : \A k \in T : ~(<<k, m>> \in OpToRel(<, Nat))
  BY <1>1, WFMin
<1>3. \A k \in T : ~(k < m)
  BY <1>2 DEF OpToRel
<1> QED BY <1>3

Flattening(f, seqs, n) ==
  f = [i \in 1..n |-> IF i = 1 THEN seqs[i] ELSE f[i - 1] \o seqs[i]]

LEMMA FlatteningExists ==
  ASSUME NEW n \in Nat, NEW seqs
  PROVE  \E f : Flattening(f, seqs, n)
<1> DEFINE Missing == {k \in Nat : ~\E f : Flattening(f, seqs, k)}
<1>1. Missing = {}
  <2> SUFFICES ASSUME Missing # {} PROVE FALSE
    OBVIOUS
  <2>1. PICK k \in Missing : \A j \in Missing : k <= j
    BY LeastOfNat
  <2>2. k # 0
    <3>1. Flattening(<<>>, seqs, 0)
      BY DEF Flattening
    <3> QED BY <3>1
  <2>3. k - 1 \in Nat /\ k - 1 \notin Missing
    BY <2>1, <2>2
  <2>4. PICK g : Flattening(g, seqs, k - 1)
    BY <2>3
  <2>4a. \A i \in 1..(k - 1) : g[i] = IF i = 1 THEN seqs[i] ELSE g[i - 1] \o seqs[i]
    BY <2>4 DEF Flattening
  <2> DEFINE f == [i \in 1..k |-> IF i = 1 THEN seqs[i] ELSE g[i - 1] \o seqs[i]]
  <2>5. \A i \in 1..(k - 1) : f[i] = g[i]
    BY <2>3, <2>4a
  <2>6. f = [i \in 1..k |-> IF i = 1 THEN seqs[i] ELSE f[i - 1] \o seqs[i]]
    <3>1. \A i \in 1..k : i # 1 => i - 1 \in 1..(k - 1)
      OBVIOUS
    <3> QED BY <2>5, <3>1
  <2>7. Flattening(f, seqs, k)
    BY <2>6 DEF Flattening
  <2> QED BY <2>1, <2>7
<1> QED BY <1>1

LEMMA FlattenUnfold ==
  ASSUME NEW n \in Nat \ {0}, NEW seqs, Len(seqs) = n
  PROVE  \E f : FlattenSeq(seqs) = f[n] /\ Flattening(f, seqs, n)
<1> DEFINE f == CHOOSE g : Flattening(g, seqs, n)
<1>1. Flattening(f, seqs, n)
  BY FlatteningExists
<1>2. FlattenSeq(seqs) = f[n]
  BY DEF FlattenSeq, Flattening
<1> QED BY <1>1, <1>2

-----------------------------------------------------------------------------
(* A sequence lists a finite set of places when it has one element for each of them, in   *)
(* their order: as many elements come before that of p as there are places before p.      *)

Triples == Nat \X Nat \X Nat
Earlier(P, p) == {q \in P : Before(q, p)}

Lists(s, P, f, S) ==
  /\ s \in Seq(S) /\ P \subseteq Triples /\ IsFiniteSet(P)
  /\ Len(s) = Cardinality(P)
  /\ \A p \in P : s[Cardinality(Earlier(P, p)) + 1] = f[p]

LEMMA EarlierAreFewer ==
  ASSUME NEW P \in SUBSET Triples, IsFiniteSet(P), NEW p \in P
  PROVE  /\ IsFiniteSet(Earlier(P, p)) /\ Cardinality(P) \in Nat
         /\ Cardinality(Earlier(P, p)) \in 0..(Cardinality(P) - 1)
<1>1. ~Before(p, p)
  BY DEF Before, Triples
<1>2. Earlier(P, p) \in SUBSET P /\ Earlier(P, p) # P
  BY <1>1 DEF Earlier
<1>3. /\ IsFiniteSet(Earlier(P, p))
      /\ Cardinality(Earlier(P, p)) <= Cardinality(P)
      /\ Cardinality(P) = Cardinality(Earlier(P, p)) => Earlier(P, p) = P
  BY <1>2, FS_Subset
<1>4. Cardinality(P) \in Nat /\ Cardinality(Earlier(P, p)) \in Nat
  BY <1>3, FS_CardinalityType
<1> QED BY <1>2, <1>3, <1>4

LEMMA DisjointUnion ==
  ASSUME NEW P, NEW Q, IsFiniteSet(P), IsFiniteSet(Q), P \cap Q = {}
  PROVE  IsFiniteSet(P \cup Q) /\ Cardinality(P \cup Q) = Cardinality(P) + Cardinality(Q)
<1>1. Cardinality(P) \in Nat /\ Cardinality(Q) \in Nat /\ Cardinality(P \cap Q) = 0
  BY FS_CardinalityType, FS_EmptySet
<1>2. /\ IsFiniteSet(P \cup Q)
      /\ Cardinality(P \cup Q) = Cardinality(P) + Cardinality(Q) - Cardinality(P \cap Q)
  BY FS_Union
<1> QED BY <1>1, <1>2

\* Two lists one after the other list both sets, if every place of the one is before every
\* place of the other.
LEMMA Concatenation ==
  ASSUME NEW s, NEW t, NEW P, NEW Q, NEW f, NEW S, Lists(s, P, f, S), Lists(t, Q, f, S),
         \A p \in P, q \in Q : Before(p, q) /\ ~Before(q, p)
  PROVE  Lists(s \o t, P \cup Q, f, S)
<1>1. /\ s \in Seq(S) /\ P \in SUBSET Triples /\ IsFiniteSet(P) /\ Len(s) = Cardinality(P)
      /\ t \in Seq(S) /\ Q \in SUBSET Triples /\ IsFiniteSet(Q) /\ Len(t) = Cardinality(Q)
  BY DEF Lists
<1>2. P \cap Q = {}
  OBVIOUS
<1>3. IsFiniteSet(P \cup Q) /\ Cardinality(P \cup Q) = Len(s) + Len(t)
  BY <1>1, <1>2, DisjointUnion
<1>4. ASSUME NEW p \in P
      PROVE  (s \o t)[Cardinality(Earlier(P \cup Q, p)) + 1] = f[p]
  <2>1. Earlier(P \cup Q, p) = Earlier(P, p)
    BY DEF Earlier
  <2>2. Cardinality(Earlier(P, p)) \in 0..(Len(s) - 1)
    BY <1>1, EarlierAreFewer
  <2>3. s[Cardinality(Earlier(P, p)) + 1] = f[p]
    BY DEF Lists
  <2> QED BY <1>1, <2>1, <2>2, <2>3
<1>5. ASSUME NEW q \in Q
      PROVE  (s \o t)[Cardinality(Earlier(P \cup Q, q)) + 1] = f[q]
  <2>1. Earlier(P \cup Q, q) = P \cup Earlier(Q, q) /\ P \cap Earlier(Q, q) = {}
    BY <1>2 DEF Earlier
  <2>2. IsFiniteSet(Earlier(Q, q)) /\ Cardinality(Earlier(Q, q)) \in 0..(Len(t) - 1)
    BY <1>1, EarlierAreFewer
  <2>3. Cardinality(Earlier(P \cup Q, q)) = Len(s) + Cardinality(Earlier(Q, q))
    BY <1>1, <2>1, <2>2, DisjointUnion
  <2>4. t[Cardinality(Earlier(Q, q)) + 1] = f[q]
    BY DEF Lists
  <2> QED BY <1>1, <2>2, <2>3, <2>4
<1>6. s \o t \in Seq(S) /\ Len(s \o t) = Len(s) + Len(t)
  BY <1>1
<1> QED BY <1>1, <1>3, <1>4, <1>5, <1>6 DEF Lists

LEMMA NothingListed == ASSUME NEW f, NEW S PROVE Lists(<<>>, {}, f, S)
<1>1. IsFiniteSet({}) /\ Cardinality({}) = 0
  BY FS_EmptySet
<1>2. <<>> \in Seq(S) /\ Len(<<>>) = 0
  OBVIOUS
<1> QED BY <1>1, <1>2 DEF Lists

LEMMA FlattenLists ==
  ASSUME NEW S, NEW seqs \in Seq(Seq(S)), NEW PP, NEW f,
         \A i \in DOMAIN seqs : Lists(seqs[i], PP[i], f, S),
         \A i, j \in DOMAIN seqs : i < j =>
           \A p \in PP[i], q \in PP[j] : Before(p, q) /\ ~Before(q, p)
  PROVE  Lists(FlattenSeq(seqs), UNION {PP[i] : i \in DOMAIN seqs}, f, S)
<1> DEFINE n == Len(seqs)
           Upto(k) == UNION {PP[i] : i \in 1..k}
<1>1. n \in Nat /\ DOMAIN seqs = 1..n
  OBVIOUS
<1>2. CASE n = 0
  <2>1. FlattenSeq(seqs) = <<>>
    BY <1>2 DEF FlattenSeq
  <2>2. UNION {PP[i] : i \in DOMAIN seqs} = {}
    BY <1>1, <1>2
  <2>3. Lists(<<>>, {}, f, S)
    BY NothingListed
  <2> QED BY <2>1, <2>2, <2>3
<1>3. CASE n # 0
  <2>1. PICK g : FlattenSeq(seqs) = g[n] /\ Flattening(g, seqs, n)
    BY <1>1, <1>3, FlattenUnfold
  <2>2. \A k \in 1..n : g[k] = IF k = 1 THEN seqs[k] ELSE g[k - 1] \o seqs[k]
    BY <2>1 DEF Flattening
  <2> DEFINE Wrong == {k \in Nat : k \in 1..n /\ ~Lists(g[k], Upto(k), f, S)}
  <2>3. Wrong = {}
    <3> SUFFICES ASSUME Wrong # {} PROVE FALSE
      OBVIOUS
    <3>1. PICK k \in Wrong : \A j \in Wrong : k <= j
      BY LeastOfNat
    <3>2. k # 1
      <4>1. Upto(1) = PP[1] /\ g[1] = seqs[1]
        <5>1. 1 \in 1..n /\ 1..1 = {1}
          BY <1>1, <1>3
        <5> QED BY <2>2, <5>1
      <4>2. 1 \in DOMAIN seqs
        BY <1>1, <1>3
      <4>3. Lists(g[1], Upto(1), f, S)
        BY <4>1, <4>2
      <4> QED BY <3>1, <4>3
    <3>3. k - 1 \in 1..n /\ k \in 1..n /\ ~(k - 1 \in Wrong)
      <4>1. k \in 1..n
        BY <3>1
      <4>2. k - 1 \in 1..n /\ ~(k <= k - 1)
        BY <1>1, <3>2, <4>1
      <4> HIDE DEF Wrong
      <4> QED BY <3>1, <4>1, <4>2
    <3>4. Lists(g[k - 1], Upto(k - 1), f, S)
      BY <3>3
    <3>5. Lists(seqs[k], PP[k], f, S)
      BY <1>1, <3>3
    <3>6. Upto(k) = Upto(k - 1) \cup PP[k]
      <4>1. 1..k = 1..(k - 1) \cup {k}
        BY <3>3
      <4> QED BY <4>1
    <3>7. \A p \in Upto(k - 1), q \in PP[k] : Before(p, q) /\ ~Before(q, p)
      <4>1. \A i \in 1..(k - 1) : i < k /\ i \in DOMAIN seqs
        BY <1>1, <3>3
      <4>2. k \in DOMAIN seqs
        BY <1>1, <3>3
      <4> SUFFICES ASSUME NEW p \in Upto(k - 1), NEW q \in PP[k]
                   PROVE  Before(p, q) /\ ~Before(q, p)
        OBVIOUS
      <4>3. PICK i \in 1..(k - 1) : p \in PP[i]
        OBVIOUS
      <4> QED BY <4>1, <4>2, <4>3
    <3>8. g[k] = g[k - 1] \o seqs[k]
      BY <2>2, <3>2, <3>3
    <3> HIDE DEF Upto
    <3>9. Lists(g[k], Upto(k), f, S)
      <4>1. Lists(g[k - 1] \o seqs[k], Upto(k - 1) \cup PP[k], f, S)
        BY <3>4, <3>5, <3>7, Concatenation
      <4> QED BY <3>6, <3>8, <4>1
    <3> QED BY <3>1, <3>9
  <2>4. Lists(g[n], Upto(n), f, S)
    <3>1. n \in 1..n /\ n \in Nat
      BY <1>1, <1>3
    <3> HIDE DEF n
    <3> QED BY <2>3, <3>1
  <2> QED BY <1>1, <2>1, <2>4
<1> QED BY <1>2, <1>3

-----------------------------------------------------------------------------
(* The translation: a time series lists its points, a metric those of its time series, a  *)
(* batch those of its metrics that have a descriptor.                                     *)

RowUpto(i, j, n) == {<<i, j, k>> : k \in 1..n}

LEMMA RowSize ==
  ASSUME NEW i, NEW j, NEW n \in Nat
  PROVE  IsFiniteSet(RowUpto(i, j, n)) /\ Cardinality(RowUpto(i, j, n)) = n
<1> DEFINE Row == RowUpto(i, j, n)
           f   == [k \in 1..n |-> <<i, j, k>>]
<1>1. f \in [1..n -> Row] /\ \A k \in 1..n : f[k] = <<i, j, k>>
  BY DEF RowUpto
<1>2. \A k, l \in 1..n : f[k] = f[l] => k = l
  BY <1>1
<1>3. \A p \in Row : \E k \in 1..n : f[k] = p
  BY <1>1 DEF RowUpto
<1> HIDE DEF f
<1>4. f \in Bijection(1..n, Row)
  BY <1>1, <1>2, <1>3 DEF Bijection, Injection, IsInjective, Surjection
<1>5. IsFiniteSet(1..n) /\ Cardinality(1..n) = n
  BY FS_Interval
<1>6. ExistsBijection(1..n, Row)
  BY <1>4 DEF ExistsBijection
<1> HIDE DEF Row
<1>7. IsFiniteSet(Row) /\ Cardinality(Row) = n
  BY <1>5, <1>6, FS_Bijection
<1> QED BY <1>7 DEF Row

LEMMA RowLists ==
  ASSUME NEW S, NEW row \in Seq(S), NEW i \in Nat, NEW j \in Nat, NEW f,
         \A k \in DOMAIN row : f[<<i, j, k>>] = row[k]
  PROVE  Lists(row, {<<i, j, k>> : k \in DOMAIN row}, f, S)
<1> DEFINE Row == {<<i, j, k>> : k \in DOMAIN row}
<1>1. DOMAIN row = 1..Len(row) /\ Len(row) \in Nat
  OBVIOUS
<1>2. IsFiniteSet(Row) /\ Cardinality(Row) = Len(row)
  <2>1. Row = RowUpto(i, j, Len(row))
    BY <1>1 DEF RowUpto
  <2> HIDE DEF Row
  <2> QED BY <1>1, <2>1, RowSize
<1>3. Row \subseteq Triples
  BY <1>1 DEF Triples
<1>4. ASSUME NEW k \in 1..Len(row)
      PROVE  row[Cardinality(Earlier(Row, <<i, j, k>>)) + 1] = f[<<i, j, k>>]
  <2>1. Earlier(Row, <<i, j, k>>) = RowUpto(i, j, k - 1)
    <3>1. 1..(k - 1) = {l \in 1..Len(row) : l < k}
      BY <1>1
    <3>2. \A l \in 1..Len(row) : Before(<<i, j, l>>, <<i, j, k>>) <=> l < k
      BY DEF Before
    <3> QED BY <1>1, <3>1, <3>2 DEF Earlier, RowUpto
  <2>2. Cardinality(Earlier(Row, <<i, j, k>>)) = k - 1
    <3>1. k - 1 \in Nat
      BY <1>1
    <3> HIDE DEF Row
    <3> QED BY <2>1, <3>1, RowSize
  <2> QED BY <1>1, <2>2
<1>5. \A p \in Row : row[Cardinality(Earlier(Row, p)) + 1] = f[p]
  BY <1>1, <1>4
<1> HIDE DEF Row
<1>6. Lists(row, Row, f, S)
  BY <1>2, <1>3, <1>5 DEF Lists
<1> QED BY <1>6 DEF Row

PlacesOf(metrics, i) ==
  UNION {{<<i, j, k>> : k \in DOMAIN metrics[i].timeseries[j]} : j \in DOMAIN metrics[i].timeseries}

LEMMA PointsListed ==
  ASSUME NEW metrics \in Seq(Metric), NEW i \in DOMAIN metrics
  PROVE  Lists(FlattenSeq(metrics[i].timeseries), PlacesOf(metrics, i),
               [p \in Triples |-> Point(metrics, p)], PointValue)
<1> DEFINE f     == [p \in Triples |-> Point(metrics, p)]
           ts    == metrics[i].timeseries
           PP    == [j \in DOMAIN ts |-> {<<i, j, k>> : k \in DOMAIN ts[j]}]
<1>1. metrics[i] \in Metric /\ i \in Nat
  OBVIOUS
<1>2. ts \in Seq(Seq(PointValue))
  BY <1>1 DEF Metric
<1>3. \A j \in DOMAIN ts : j \in Nat /\ ts[j] \in Seq(PointValue)
  BY <1>2
<1>4. ASSUME NEW j \in DOMAIN ts
      PROVE  Lists(ts[j], {<<i, j, k>> : k \in DOMAIN ts[j]}, f, PointValue)
  <2>1. \A k \in DOMAIN ts[j] : <<i, j, k>> \in Triples
    BY <1>1, <1>3 DEF Triples
  <2>2. \A k \in DOMAIN ts[j] : f[<<i, j, k>>] = ts[j][k]
    BY <2>1 DEF Point
  <2> HIDE DEF f, ts
  <2> QED BY <1>1, <1>3, <2>2, RowLists
<1>5. \A j, l \in DOMAIN ts : j < l =>
        \A p \in PP[j], q \in PP[l] : Before(p, q) /\ ~Before(q, p)
  BY <1>1, <1>3 DEF Before
<1>6. \A j \in DOMAIN ts : Lists(ts[j], PP[j], f, PointValue)
  BY <1>4
<1>7. PlacesOf(metrics, i) = UNION {PP[j] : j \in DOMAIN ts}
  BY DEF PlacesOf
<1> HIDE DEF f, ts, PP
<1>8. Lists(FlattenSeq(ts), UNION {PP[j] : j \in DOMAIN ts}, f, PointValue)
  BY <1>2, <1>5, <1>6, FlattenLists
<1> QED BY <1>7, <1>8 DEF f, ts

DatapointsOf(metrics) ==
  {Datapoint(metrics[i].descriptor, pt) : i \in DOMAIN metrics, pt \in PointValue}

Described(metrics) == {i \in DOMAIN metrics : metrics[i].descriptor # NoDescriptor}
DatapointAt(metrics) ==
  [p \in Triples |-> Datapoint(metrics[p[1]].descriptor, Point(metrics, p))]

LEMMA MetricListed ==
  ASSUME NEW metrics \in Seq(Metric), NEW i \in Described(metrics)
  PROVE  Lists(translate(metrics[i]), PlacesOf(metrics, i), DatapointAt(metrics),
               DatapointsOf(metrics))
<1> DEFINE points == FlattenSeq(metrics[i].timeseries)
           P      == PlacesOf(metrics, i)
           f      == [p \in Triples |-> Point(metrics, p)]
<1>1. i \in DOMAIN metrics /\ i \in Nat
  BY DEF Described
<1>2. Lists(points, P, f, PointValue)
  BY <1>1, PointsListed
<1>3. /\ points \in Seq(PointValue) /\ P \in SUBSET Triples /\ IsFiniteSet(P)
      /\ Len(points) = Cardinality(P)
  BY <1>2 DEF Lists
<1>4. translate(metrics[i]) = [x \in 1..Len(points) |-> Datapoint(metrics[i].descriptor, points[x])]
  BY <1>3 DEF translate, Described
<1> HIDE DEF points
<1>5. translate(metrics[i]) \in Seq(DatapointsOf(metrics)) /\ Len(translate(metrics[i])) = Len(points)
  <2>1. \A x \in 1..Len(points) :
          Datapoint(metrics[i].descriptor, points[x]) \in DatapointsOf(metrics)
    BY <1>1, <1>3 DEF DatapointsOf
  <2> QED BY <1>3, <1>4, <2>1
<1>6. ASSUME NEW p \in P
      PROVE  translate(metrics[i])[Cardinality(Earlier(P, p)) + 1] = DatapointAt(metrics)[p]
  <2>1. points[Cardinality(Earlier(P, p)) + 1] = Point(metrics, p)
    BY <1>2, <1>3 DEF Lists
  <2>2. Cardinality(Earlier(P, p)) + 1 \in 1..Len(points)
    BY <1>3, EarlierAreFewer
  <2>3. p[1] = i
    BY <1>1 DEF PlacesOf
  <2>4. DatapointAt(metrics)[p] = Datapoint(metrics[i].descriptor, Point(metrics, p))
    BY <1>3, <2>3 DEF DatapointAt
  <2> HIDE DEF P
  <2> QED BY <1>4, <2>1, <2>2, <2>4
<1> HIDE DEF P
<1>7. Lists(translate(metrics[i]), P, DatapointAt(metrics), DatapointsOf(metrics))
  BY <1>3, <1>5, <1>6 DEF Lists
<1> QED BY <1>7 DEF P

LEMMA TranslationLists ==
  ASSUME NEW metrics \in Seq(Metric)
  PROVE  Lists(OCProtoToSignalFx(metrics), Places(metrics), DatapointAt(metrics),
               DatapointsOf(metrics))
<1> DEFINE f    == DatapointAt(metrics)
           D    == DatapointsOf(metrics)
           seqs == [i \in DOMAIN metrics |-> translate(metrics[i])]
           PP   == [i \in DOMAIN metrics |-> IF i \in Described(metrics) THEN PlacesOf(metrics, i)
                                                                      ELSE {}]
<1>1. DOMAIN metrics = 1..Len(metrics) /\ Len(metrics) \in Nat /\ DOMAIN seqs = DOMAIN metrics
  OBVIOUS
<1>2. ASSUME NEW i \in DOMAIN metrics
      PROVE  Lists(seqs[i], PP[i], f, D)
  <2>1. CASE i \in Described(metrics)
    BY <2>1, MetricListed
  <2>2. CASE i \notin Described(metrics)
    <3>1. seqs[i] = <<>> /\ PP[i] = {}
      BY <2>2 DEF Described, translate
    <3>2. Lists(<<>>, {}, f, D)
      BY NothingListed
    <3> QED BY <3>1, <3>2
  <2> QED BY <2>1, <2>2
<1>3. seqs \in Seq(Seq(D))
  <2>1. \A i \in 1..Len(metrics) : translate(metrics[i]) \in Seq(D)
    BY <1>1, <1>2 DEF Lists
  <2> HIDE DEF D
  <2> QED BY <1>1, <2>1
<1>4. \A i \in DOMAIN metrics : \A p \in PP[i] : p[1] = i
  BY DEF PlacesOf
<1>5. \A i, j \in DOMAIN seqs : i < j =>
        \A p \in PP[i], q \in PP[j] : Before(p, q) /\ ~Before(q, p)
  <2> HIDE DEF PP
  <2> QED BY <1>1, <1>4 DEF Before
<1>6. Places(metrics) = UNION {PP[i] : i \in DOMAIN seqs}
  BY <1>1 DEF Places, PlacesOf, Described
<1>7. OCProtoToSignalFx(metrics) = FlattenSeq(seqs)
  BY DEF OCProtoToSignalFx
<1>8. \A i \in DOMAIN seqs : Lists(seqs[i], PP[i], f, D)
  BY <1>1, <1>2
<1> HIDE DEF f, D, seqs, PP
<1>9. Lists(FlattenSeq(seqs), UNION {PP[i] : i \in DOMAIN seqs}, f, D)
  BY <1>3, <1>5, <1>8, FlattenLists
<1> QED BY <1>6, <1>7, <1>9 DEF f, D

LEMMA TranslationFaithful ==
  ASSUME received \in Seq(Metric)
  PROVE  PointsTranslated
<1> DEFINE dps    == OCProtoToSignalFx(received)
           places == Places(received)
<1>1. /\ places \in SUBSET Triples /\ Len(dps) = Cardinality(places)
      /\ \A p \in places : dps[Cardinality(Earlier(places, p)) + 1] = DatapointAt(received)[p]
  BY TranslationLists DEF Lists
<1>2. ASSUME NEW p \in places
      PROVE  dps[Cardinality({q \in places : Before(q, p)}) + 1]
               = Datapoint(received[p[1]].descriptor, Point(received, p))
  BY <1>1 DEF Earlier, DatapointAt
<1>3. ASSUME NEW p \in places
      PROVE Point(received, p) \in PointValue
  <2>1. PICK i \in DOMAIN received : \E j \in DOMAIN received[i].timeseries :
          \E k \in DOMAIN received[i].timeseries[j] : p = <<i, j, k>>
    BY DEF Places
  <2>2. received[i] \in Metric
    OBVIOUS
  <2>3. received[i].timeseries \in Seq(Seq(PointValue))
    BY <2>2 DEF Metric
  <2>4. \A j \in DOMAIN received[i].timeseries :
          received[i].timeseries[j] \in Seq(PointValue)
    BY <2>3
  <2> QED BY <2>1, <2>4 DEF Point
<1> HIDE DEF dps, places
<1>4. ASSUME NEW p \in places, NEW d, NEW pt \in PointValue
      PROVE  LET dp == Datapoint(d, pt)
                 promised == IF d.type \in Doubles THEN "double"
                             ELSE IF d.type \in Int64s THEN "int64" ELSE "none"
             IN /\ dp.Metric = d.name /\ dp.Value.kind = promised
                /\ dp.Value.n = IF pt.kind = promised THEN pt.n ELSE 0
                /\ dp.MetricType = "counter" <=> d.type \in Cumulatives
                /\ dp.Timestamp = pt.timestamp \/ dp.Timestamp = "zero"
  BY DEF Datapoint, Value, MetricType, Timestamp, PointValue
<1> QED BY <1>1, <1>2, <1>3, <1>4 DEF PointsTranslated, dps, places
\* What the monitor emits are metrics as the protocol has them, and so is what the
\* translator is given.
PipelineInv == os \in OS /\ emitted \in Seq(Metric) /\ received \in Seq(Metric)

LEMMA MonitorEmitsMetrics ==
  ASSUME os \in OS, NEW m \in Sample
  PROVE  Metrics(m) \in Seq(Metric)
<1>1. \A c \in Counter : m[c] \in Int
  BY SamplesAreCounters
<1>2. \A a, b \in Int : Minus(a, b) \in Int /\ Int64(a) \in Int
  BY SamplesAreCounters DEF Minus, Int64
<1>3. ASSUME NEW name \in MetricName, NEW n \in Int
      PROVE  /\ Gauge(name, "GAUGE_INT64", "int64", n) \in Metric
             /\ Gauge(name, "GAUGE_DOUBLE", "double", n) \in Metric
  <2>1. ASSUME NEW kind \in {"int64", "double"}
        PROVE  <<<<[kind |-> kind, n |-> n, timestamp |-> "now"]>>>> \in Seq(Seq(PointValue))
    <3>1. [kind |-> kind, n |-> n, timestamp |-> "now"] \in PointValue
      BY ForeignAreMetrics DEF PointValue
    <3> QED BY <3>1
  <2>2. ASSUME NEW type \in {"GAUGE_INT64", "GAUGE_DOUBLE"}
        PROVE  [name |-> name, type |-> type] \in [name : MetricName, type : DescriptorTypes]
    BY DEF DescriptorTypes, Doubles, Int64s
  <2> QED BY <2>1, <2>2 DEF Gauge, Metric
<1>4. \A name \in MetricName, n \in Int : Bytes(name, n) \in Metric
  BY <1>2, <1>3 DEF Bytes
<1>5. /\ WindowsMetrics(m) \in Seq(Metric) /\ NonWindowsMetrics(m) \in Seq(Metric)
      /\ DarwinMetrics(m) \in Seq(Metric)
  BY <1>1, <1>4, ForeignAreMetrics
     DEF WindowsMetrics, NonWindowsMetrics, DarwinMetrics, Counter, MonitorNames
<1>6. LinuxMetrics(m) \in Seq(Metric)
  <2>1. /\ m["Cached"] \in Int /\ m["SReclaimable"] \in Int
        /\ m["Slab"] \in Int /\ m["Buffers"] \in Int
    BY <1>1 DEF Counter
  <2>2. /\ Minus(m["Cached"], m["SReclaimable"]) \in Int
        /\ Minus(m["Slab"], m["SReclaimable"]) \in Int
    BY <1>2, <2>1
  <2>3. /\ Bytes("memory.buffered", m["Buffers"]) \in Metric
        /\ Bytes("memory.cached", Minus(m["Cached"], m["SReclaimable"])) \in Metric
        /\ Bytes("memory.slab_reclaimable", m["SReclaimable"]) \in Metric
        /\ Bytes("memory.slab_unreclaimable", Minus(m["Slab"], m["SReclaimable"])) \in Metric
    BY <1>4, <2>1, <2>2, ForeignAreMetrics DEF MonitorNames
  <2> QED BY <2>3 DEF LinuxMetrics
<1>7. <<Gauge("memory.utilization", "GAUGE_DOUBLE", "double", m["UsedPercent"]),
        Bytes("memory.used", m["Used"])>> \in Seq(Metric)
  BY <1>1, <1>3, <1>4, ForeignAreMetrics DEF Counter, MonitorNames
<1> QED BY <1>5, <1>6, <1>7 DEF Metrics

\* Every point of every metric the translator is given, from the monitor or from any other
\* receiver, becomes one datapoint in its place, with the number its descriptor's type
\* promises (opencensus_to_signalfx.go:42).
THEOREM EveryPointTranslated == PipelineSpec => []PointsTranslated
<1>1. PipelineInit => PipelineInv
  <2>1. <<>> \in Seq(Metric)
    OBVIOUS
  <2> QED BY <2>1, ForeignAreMetrics DEF PipelineInit, Init, PipelineInv
<1>2. PipelineInv /\ [PipelineNext]_<<vars, received, foreign>> => PipelineInv'
  <2> SUFFICES ASSUME PipelineInv, [PipelineNext]_<<vars, received, foreign>>
               PROVE  PipelineInv'
    OBVIOUS
  <2>1. CASE PipelineNext
    <3>1. os' = os /\ emitted' \in Seq(Metric)
      BY <2>1, MonitorEmitsMetrics
         DEF PipelineInv, PipelineNext, Next, Loop, Start, Shutdown, Tick, TakeTick, TakeStop,
             ScrapeAndEmit
    <3> QED BY <2>1, <3>1 DEF PipelineInv, PipelineNext
  <2>2. CASE UNCHANGED <<vars, received, foreign>>
    BY <2>2 DEF PipelineInv, vars
  <2> QED BY <2>1, <2>2
<1>3. PipelineInv => PointsTranslated
  BY TranslationFaithful DEF PipelineInv
<1> QED
  BY <1>1, <1>2, <1>3, PTL DEF PipelineSpec
=============================================================================
