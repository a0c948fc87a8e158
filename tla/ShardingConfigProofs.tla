------------------------ MODULE ShardingConfigProofs ------------------------
(***************************************************************************)
(* Comparing neighbours is enough: in a sorted sequence whose neighbours   *)
(* are disjoint every two shards are, so a key has one shard at most.      *)
(***************************************************************************)
EXTENDS ShardingConfig, WellFoundedInduction, TLAPS

\* A sequence of shards, sorted and with disjoint neighbours.
Accepted(ss) ==
  /\ ss \in Seq(Shard)
  /\ SortedByStart(ss)
  /\ NextStartsLater(ss)

LEMMA KeysOfShard ==
  ASSUME NEW ss, Accepted(ss), NEW i \in DOMAIN ss
  PROVE  /\ i \in 1..Len(ss) /\ Len(ss) \in Nat /\ DOMAIN ss = 1..Len(ss)
         /\ ss[i].startingHashKey \in Nat /\ ss[i].endingHashKey \in Nat
<1>1. ss \in Seq(Shard)
  BY DEF Accepted
<1>2. ss[i] \in Shard /\ i \in 1..Len(ss) /\ Len(ss) \in Nat /\ DOMAIN ss = 1..Len(ss)
  BY <1>1
<1> QED BY <1>2, HashKeysAreNumbers DEF Shard

LEMMA EarlierEndsFirst ==
  ASSUME NEW ss, Accepted(ss),
         NEW i \in DOMAIN ss, NEW j \in DOMAIN ss, i < j
  PROVE  ss[i].endingHashKey < ss[j].startingHashKey
<1> DEFINE next == i + 1
<1>1. next \in DOMAIN ss /\ next # 1 /\ next <= j /\ next - 1 = i
  BY KeysOfShard
<1>2. next \in Int /\ j \in Int
  BY KeysOfShard
<1> HIDE DEF next
<1>3. ss[i].endingHashKey < ss[next].startingHashKey
  BY <1>1 DEF Accepted, NextStartsLater
<1>4. ss[next].startingHashKey <= ss[j].startingHashKey
  <2>1. CASE next = j
    BY <2>1, KeysOfShard
  <2>2. CASE next < j
    BY <1>1, <2>2 DEF Accepted, SortedByStart
  <2> QED BY <1>1, <1>2, <2>1, <2>2
<1>5. /\ ss[i].endingHashKey \in Nat /\ ss[next].startingHashKey \in Nat
      /\ ss[j].startingHashKey \in Nat
  BY <1>1, KeysOfShard
<1> QED BY <1>3, <1>4, <1>5

LEMMA OneShardPerKey ==
  ASSUME NEW ss, Accepted(ss), NEW key \in HashKey,
         NEW i \in DOMAIN ss, NEW j \in DOMAIN ss,
         BelongsToShard(ss[i], key), BelongsToShard(ss[j], key)
  PROVE  i = j
<1>1. /\ i \in Int /\ j \in Int /\ key \in Nat
      /\ ss[i].startingHashKey \in Nat /\ ss[i].endingHashKey \in Nat
      /\ ss[j].startingHashKey \in Nat /\ ss[j].endingHashKey \in Nat
  BY KeysOfShard, HashKeysAreNumbers
<1>2. ~(i < j)
  <2> SUFFICES ASSUME i < j PROVE FALSE
    OBVIOUS
  <2>1. ss[i].endingHashKey < ss[j].startingHashKey
    BY EarlierEndsFirst
  <2> QED BY <1>1, <2>1 DEF BelongsToShard
<1>3. ~(j < i)
  <2> SUFFICES ASSUME j < i PROVE FALSE
    OBVIOUS
  <2>1. ss[j].endingHashKey < ss[i].startingHashKey
    BY EarlierEndsFirst
  <2> QED BY <1>1, <2>1 DEF BelongsToShard
<1> QED BY <1>1, <1>2, <1>3

\* Sorting permutes: the result is again a sequence of shards.
LEMMA SortingIsSequence ==
  ASSUME NEW ds \in Seq(Shard), NEW ss \in Sortings(ds)
  PROVE  ss \in Seq(Shard) /\ SortedByStart(ss)
<1>1. PICK p \in Bijection(DOMAIN ds, DOMAIN ds) : ss = [i \in DOMAIN ds |-> ds[p[i]]]
  BY DEF Sortings
<1>2. p \in [DOMAIN ds -> DOMAIN ds]
  BY DEF Bijection, Injection, Surjection, IsInjective
<1>3. ss \in [1..Len(ds) -> Shard] /\ Len(ds) \in Nat
  BY <1>1, <1>2
<1> QED BY <1>3 DEF Sortings

ConfigInv == definitions \in Seq(Shard) /\ Accepted(shards)

LEMMA ConfigStep == ConfigInv /\ [Next]_vars => ConfigInv'
<1> SUFFICES ASSUME ConfigInv, [Next]_vars PROVE ConfigInv'
  OBVIOUS
<1>1. ASSUME NEW d \in Shard, AddDefinition(d) PROVE ConfigInv'
  BY <1>1 DEF AddDefinition, ConfigInv
<1>2. CASE RejectKeys
  BY <1>2 DEF RejectKeys, ConfigInv
<1>3. ASSUME NEW sorted \in Sortings(definitions), Build(sorted) PROVE ConfigInv'
  <2>1. sorted \in Seq(Shard) /\ SortedByStart(sorted)
    BY SortingIsSequence DEF ConfigInv
  <2> QED BY <1>3, <2>1 DEF Build, ConfigInv, Accepted
<1>4. CASE UNCHANGED vars
  BY <1>4 DEF vars, ConfigInv
<1> QED BY <1>1, <1>2, <1>3, <1>4 DEF Next

\* In every configuration newShardingInMemConfig accepts, of any length and over any keys,
\* a key belongs to one shard at most.
THEOREM EveryKeyHasOneShard == Spec => []RoutesUnique
<1>1. Init => ConfigInv
  BY DEF Init, ConfigInv, Accepted, SortedByStart, NextStartsLater
<1>2. ConfigInv => RoutesUnique
  BY OneShardPerKey DEF ConfigInv, RoutesUnique
<1> QED BY <1>1, <1>2, ConfigStep, PTL DEF Spec
-----------------------------------------------------------------------------
LEMMA KeysAreNumbers ==
  ASSUME NEW s \in Shard
  PROVE  s.startingHashKey \in Nat /\ s.endingHashKey \in Nat
BY HashKeysAreNumbers DEF Shard

\* No two ranges of a sorted sequence with disjoint neighbours meet.
LEMMA AcceptedApart ==
  ASSUME NEW ss, Accepted(ss), NEW i \in DOMAIN ss, NEW j \in DOMAIN ss, i # j
  PROVE  ~Overlap(ss[i], ss[j])
<1>1. /\ i \in Int /\ j \in Int
      /\ ss[i].startingHashKey \in Nat /\ ss[i].endingHashKey \in Nat
      /\ ss[j].startingHashKey \in Nat /\ ss[j].endingHashKey \in Nat
  BY KeysOfShard
<1>2. CASE i < j
  <2>1. ss[i].endingHashKey < ss[j].startingHashKey
    BY <1>2, EarlierEndsFirst
  <2> QED BY <1>1, <2>1 DEF Overlap
<1>3. CASE j < i
  <2>1. ss[j].endingHashKey < ss[i].startingHashKey
    BY <1>3, EarlierEndsFirst
  <2> QED BY <1>1, <2>1 DEF Overlap
<1> QED BY <1>1, <1>2, <1>3

\* What the sort moves apart was apart before it, and the other way round.
LEMMA SortingKeepsApart ==
  ASSUME NEW ds \in Seq(Shard), NEW ss \in Sortings(ds)
  PROVE  (\E i, j \in DOMAIN ds : i # j /\ Overlap(ds[i], ds[j]))
           <=> (\E i, j \in DOMAIN ss : i # j /\ Overlap(ss[i], ss[j]))
<1>1. PICK p \in Bijection(DOMAIN ds, DOMAIN ds) : ss = [i \in DOMAIN ds |-> ds[p[i]]]
  BY DEF Sortings
<1>2. /\ p \in [DOMAIN ds -> DOMAIN ds]
      /\ \A i, j \in DOMAIN ds : p[i] = p[j] => i = j
      /\ \A i \in DOMAIN ds : \E k \in DOMAIN ds : p[k] = i
  BY DEF Bijection, Injection, Surjection, IsInjective
<1>3. DOMAIN ss = DOMAIN ds /\ \A i \in DOMAIN ds : ss[i] = ds[p[i]]
  BY <1>1
<1>4. ASSUME NEW i \in DOMAIN ds, NEW j \in DOMAIN ds, i # j, Overlap(ds[i], ds[j])
      PROVE  \E k, l \in DOMAIN ss : k # l /\ Overlap(ss[k], ss[l])
  <2>1. PICK k \in DOMAIN ds, l \in DOMAIN ds : p[k] = i /\ p[l] = j
    BY <1>2
  <2>2. k # l /\ Overlap(ss[k], ss[l])
    BY <1>3, <1>4, <2>1
  <2> QED BY <1>3, <2>2
<1>5. ASSUME NEW i \in DOMAIN ss, NEW j \in DOMAIN ss, i # j, Overlap(ss[i], ss[j])
      PROVE  \E k, l \in DOMAIN ds : k # l /\ Overlap(ds[k], ds[l])
  <2>1. p[i] \in DOMAIN ds /\ p[j] \in DOMAIN ds /\ p[i] # p[j]
    BY <1>2, <1>3, <1>5
  <2> QED BY <1>3, <1>5, <2>1
<1> QED BY <1>4, <1>5

\* Neighbours that do not start one after the other's end meet, their keys being in order.
LEMMA NeighboursMeet ==
  ASSUME NEW ss \in Seq(Shard), SortedByStart(ss), KeysInOrder(ss),
         ~NextStartsLater(ss)
  PROVE  \E i, j \in DOMAIN ss : i # j /\ Overlap(ss[i], ss[j])
<1>1. PICK i \in DOMAIN ss \ {1} : ~(ss[i - 1].endingHashKey < ss[i].startingHashKey)
  BY DEF NextStartsLater
<1> DEFINE before == i - 1
<1>2. before \in DOMAIN ss /\ before < i /\ before # i
  BY <1>1
<1>3. ~(ss[before].endingHashKey < ss[i].startingHashKey)
  BY <1>1
<1> HIDE DEF before
<1>4. ss[before] \in Shard /\ ss[i] \in Shard
  BY <1>2
<1>5. /\ ss[before].startingHashKey \in Nat /\ ss[before].endingHashKey \in Nat
      /\ ss[i].startingHashKey \in Nat /\ ss[i].endingHashKey \in Nat
  BY <1>4, KeysAreNumbers
<1>6. ss[before].startingHashKey <= ss[i].startingHashKey
  BY <1>2 DEF SortedByStart
<1>7. ss[i].startingHashKey <= ss[i].endingHashKey
  BY DEF KeysInOrder
<1>8. Overlap(ss[before], ss[i])
  BY <1>3, <1>5, <1>6, <1>7 DEF Overlap
<1> QED BY <1>2, <1>8

LEMMA SortingKeepsOrder ==
  ASSUME NEW ds \in Seq(Shard), KeysInOrder(ds), NEW ss \in Sortings(ds)
  PROVE  KeysInOrder(ss)
<1>1. PICK p \in Bijection(DOMAIN ds, DOMAIN ds) : ss = [i \in DOMAIN ds |-> ds[p[i]]]
  BY DEF Sortings
<1>2. p \in [DOMAIN ds -> DOMAIN ds]
  BY DEF Bijection, Injection, Surjection, IsInjective
<1> QED BY <1>1, <1>2 DEF KeysInOrder

VerdictInv == definitions \in Seq(Shard) /\ RefusedIffRangesMeet

LEMMA VerdictStep == VerdictInv /\ [Next]_vars => VerdictInv'
<1> SUFFICES ASSUME VerdictInv, [Next]_vars PROVE VerdictInv'
  OBVIOUS
<1>1. ASSUME NEW d \in Shard, AddDefinition(d) PROVE VerdictInv'
  BY <1>1 DEF AddDefinition, VerdictInv, RefusedIffRangesMeet
<1>2. CASE RejectKeys
  BY <1>2 DEF RejectKeys, VerdictInv, RefusedIffRangesMeet
<1>3. ASSUME NEW sorted \in Sortings(definitions), Build(sorted) PROVE VerdictInv'
  <2>1. /\ sorted \in Seq(Shard) /\ SortedByStart(sorted) /\ KeysInOrder(sorted)
        /\ definitions \in Seq(Shard) /\ KeysInOrder(definitions)
        /\ definitions' = definitions
    BY <1>3, SortingIsSequence, SortingKeepsOrder DEF VerdictInv, Build
  <2>2. (\E i, j \in DOMAIN definitions : i # j /\ Overlap(definitions[i], definitions[j]))
          <=> (\E i, j \in DOMAIN sorted : i # j /\ Overlap(sorted[i], sorted[j]))
    BY <2>1, SortingKeepsApart
  <2>3. CASE NextStartsLater(sorted)
    <3>1. ~(\E i, j \in DOMAIN sorted : i # j /\ Overlap(sorted[i], sorted[j]))
      BY <2>1, <2>3, AcceptedApart DEF Accepted
    <3>2. verdict' = "accepted"
      BY <1>3, <2>3 DEF Build
    <3> QED BY <2>1, <2>2, <3>1, <3>2 DEF VerdictInv, RefusedIffRangesMeet
  <2>4. CASE ~NextStartsLater(sorted)
    <3>1. \E i, j \in DOMAIN sorted : i # j /\ Overlap(sorted[i], sorted[j])
      BY <2>1, <2>4, NeighboursMeet
    <3>2. verdict' = "endingHashKey overlaps with next startingHashKey"
      BY <1>3, <2>4 DEF Build
    <3> QED BY <2>1, <2>2, <3>1, <3>2 DEF VerdictInv, RefusedIffRangesMeet
  <2> QED BY <2>3, <2>4
<1>4. CASE UNCHANGED vars
  BY <1>4 DEF vars, VerdictInv, RefusedIffRangesMeet
<1> QED BY <1>1, <1>2, <1>3, <1>4 DEF Next

\* newShardingInMemConfig refuses a configuration exactly when a range is reversed or two
\* ranges meet, for any number of definitions and whichever way its sort orders equal starts.
THEOREM NeighboursAreEnough == Spec => []RefusedIffRangesMeet
<1>1. Init => VerdictInv
  BY DEF Init, VerdictInv, RefusedIffRangesMeet
<1>2. VerdictInv => RefusedIffRangesMeet
  BY DEF VerdictInv
<1> QED BY <1>1, <1>2, VerdictStep, PTL DEF Spec
-----------------------------------------------------------------------------
LEMMA LeastOfNat ==
  ASSUME NEW T \in SUBSET Nat, T # {}
  PROVE  \E m \in T : \A k \in T : m <= k
<1>1. IsWellFoundedOn(OpToRel(<, Nat), Nat)
  BY NatLessThanWellFounded
<1>2. PICK m \in T : \A k \in T : ~(<<k, m>> \in OpToRel(<, Nat))
  BY <1>1, WFMin
<1>3. \A k \in T : ~(k < m)
  BY <1>2 DEF OpToRel
<1> QED BY <1>3

\* The first n places of the order p hold what starts first of all that follows.
PlacedUpTo(ds, n, p) ==
  /\ p \in Bijection(DOMAIN ds, DOMAIN ds)
  /\ \A i, j \in DOMAIN ds :
       i <= n /\ i < j => ds[p[i]].startingHashKey <= ds[p[j]].startingHashKey

LEMMA BijectionIs ==
  ASSUME NEW D, NEW p
  PROVE  p \in Bijection(D, D) <=>
           /\ p \in [D -> D]
           /\ \A i, j \in D : p[i] = p[j] => i = j
           /\ \A i \in D : \E k \in D : p[k] = i
BY DEF Bijection, Injection, Surjection, IsInjective

\* A step of a selection sort.
LEMMA OnePlaceMore ==
  ASSUME NEW ds \in Seq(Shard), NEW m \in 1..Len(ds),
         NEW p, PlacedUpTo(ds, m - 1, p)
  PROVE  \E q : PlacedUpTo(ds, m, q)
<1> DEFINE D == DOMAIN ds
           start(i) == ds[p[i]].startingHashKey
           Starts == {start(i) : i \in m..Len(ds)}
<1>1. D = 1..Len(ds) /\ Len(ds) \in Nat
  OBVIOUS
<1>2. /\ p \in [D -> D]
      /\ \A i, j \in D : p[i] = p[j] => i = j
      /\ \A i \in D : \E k \in D : p[k] = i
  BY BijectionIs DEF PlacedUpTo
<1>3. \A i \in D : start(i) \in Nat
  <2> SUFFICES ASSUME NEW i \in D PROVE start(i) \in Nat
    OBVIOUS
  <2>1. ds[p[i]] \in Shard
    BY <1>1, <1>2
  <2> QED BY <2>1, KeysAreNumbers
<1>4. Starts \in SUBSET Nat /\ Starts # {}
  BY <1>1, <1>3
<1>5. PICK k \in m..Len(ds) : \A j \in m..Len(ds) : start(k) <= start(j)
  <2>1. PICK s \in Starts : \A t \in Starts : s <= t
    <3> HIDE DEF Starts
    <3> QED BY <1>4, LeastOfNat
  <2> HIDE DEF start
  <2> QED BY <2>1
<1>6. k \in D /\ m \in D
  BY <1>1
<1> DEFINE q == [p EXCEPT ![m] = p[k], ![k] = p[m]]
<1>7. /\ q \in [D -> D]
      /\ \A i \in D : q[i] = IF i = k THEN p[m] ELSE IF i = m THEN p[k] ELSE p[i]
  BY <1>2, <1>6
<1>8. q \in Bijection(D, D)
  <2>1. \A i, j \in D : q[i] = q[j] => i = j
    BY <1>2, <1>6, <1>7
  <2>2. \A i \in D : \E l \in D : q[l] = i
    <3> SUFFICES ASSUME NEW i \in D PROVE \E l \in D : q[l] = i
      OBVIOUS
    <3>1. PICK l \in D : p[l] = i
      BY <1>2
    <3>2. CASE l = k
      BY <1>6, <1>7, <3>1, <3>2
    <3>3. CASE l = m
      BY <1>6, <1>7, <3>1, <3>3
    <3>4. CASE l # k /\ l # m
      BY <1>7, <3>1, <3>4
    <3> QED BY <3>2, <3>3, <3>4
  <2> QED BY <1>7, <2>1, <2>2, BijectionIs
<1>9. ASSUME NEW i \in D, NEW j \in D, i <= m, i < j
      PROVE  ds[q[i]].startingHashKey <= ds[q[j]].startingHashKey
  <2>1. CASE i < m
    <3>1. q[i] = p[i]
      BY <1>1, <1>7, <2>1
    <3>2. PICK l \in D : i < l /\ q[j] = p[l]
      BY <1>1, <1>6, <1>7, <1>9, <2>1
    <3>3. i <= m - 1
      BY <1>1, <2>1
    <3> QED BY <3>1, <3>2, <3>3 DEF PlacedUpTo
  <2>2. CASE i = m
    <3>1. q[i] = p[k]
      BY <1>6, <1>7, <2>2
    <3>2. PICK l \in m..Len(ds) : q[j] = p[l]
      BY <1>1, <1>6, <1>7, <1>9, <2>2
    <3>3. start(k) <= start(l)
      BY <1>5
    <3> QED BY <3>1, <3>2, <3>3
  <2> QED BY <1>1, <1>9, <2>1, <2>2
<1>10. PlacedUpTo(ds, m, q)
  BY <1>8, <1>9 DEF PlacedUpTo
<1> QED BY <1>10

\* Whatever the definitions are there is an order sort.Sort may leave them in: building a
\* configuration is never held up, and a verdict is reached about every one.
THEOREM EveryConfigurationSorts ==
  ASSUME NEW ds \in Seq(Shard)
  PROVE  Sortings(ds) # {}
<1> DEFINE Stuck == {n \in 0..Len(ds) : ~ \E p : PlacedUpTo(ds, n, p)}
<1>1. Stuck = {}
  <2> SUFFICES ASSUME Stuck # {} PROVE FALSE
    OBVIOUS
  <2>1. PICK m \in Stuck : \A k \in Stuck : m <= k
    <3>1. Stuck \in SUBSET Nat
      OBVIOUS
    <3> QED BY <3>1, LeastOfNat
  <2>2. m # 0
    <3>1. PlacedUpTo(ds, 0, [i \in DOMAIN ds |-> i])
      <4>1. [i \in DOMAIN ds |-> i] \in Bijection(DOMAIN ds, DOMAIN ds)
        BY BijectionIs
      <4>2. ~ \E i \in DOMAIN ds : i <= 0
        OBVIOUS
      <4> QED BY <4>1, <4>2 DEF PlacedUpTo
    <3> QED BY <2>1, <3>1
  <2>3. m \in 1..Len(ds) /\ m - 1 \in 0..Len(ds) /\ ~(m <= m - 1)
    BY <2>1, <2>2
  <2>4. PICK p : PlacedUpTo(ds, m - 1, p)
    BY <2>1, <2>3
  <2>5. \E q : PlacedUpTo(ds, m, q)
    BY <2>3, <2>4, OnePlaceMore
  <2> QED BY <2>1, <2>5
<1>2. PICK p : PlacedUpTo(ds, Len(ds), p)
  BY <1>1
<1> DEFINE ss == [i \in DOMAIN ds |-> ds[p[i]]]
<1>3. SortedByStart(ss)
  BY <1>2 DEF PlacedUpTo, SortedByStart
<1>4. ss \in Sortings(ds)
  BY <1>2, <1>3 DEF PlacedUpTo, Sortings
<1> QED BY <1>4
=============================================================================
