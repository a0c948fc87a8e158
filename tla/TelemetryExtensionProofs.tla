---------------------- MODULE TelemetryExtensionProofs ----------------------
(***************************************************************************)
(* The two time bounds of TelemetryExtension, for any intervals and any    *)
(* timeout.  For the scrapes the invariant relates the time since the last *)
(* one to the progress of the round and of the ticker; for the             *)
(* configuration it bounds, in every state, the time that is left until    *)
(* the backend has it, if it stays up.  Then its flags, for any command    *)
(* line the collector starts with.                                         *)
(***************************************************************************)
EXTENDS TelemetryExtension, TLAPS, WellFoundedInduction

\* The configuration is posted only when it is due, and a backend that is down is not
\* waited for.
Control ==
  /\ loop \in {"goenv", "config"} => age = MinInterval + 1
  /\ backend = "down" => stale = 0

\* A round begins with the scrape and each of its requests ends by its timeout; while no
\* tick waits, the next one comes within the interval after the last scrape was begun.
ScrapeProgress ==
  /\ loop = "scrape" => unscraped <= elapsed
  /\ loop = "metrics" => unscraped <= RequestTimeout + elapsed
  /\ loop = "goenv" => unscraped <= 2 * RequestTimeout + elapsed
  /\ loop = "config" => unscraped <= 3 * RequestTimeout + elapsed
  /\ loop = "select" => unscraped <= UnscrapedBound
  /\ ~tick => unscraped + countdown <= ScrapeInterval

\* The time until the configuration is delivered, once the interval of the configuration is
\* over, is left when the round is still to come.
NextRound == MinInterval + ScrapeInterval + 4 * RequestTimeout

\* The time that has passed and the time that is left stay within the bound.
Left(n) == (backend = "up" => stale + n <= StaleBound) /\ n <= StaleBound

ConfigProgress ==
  /\ loop \in {"scrape", "metrics", "select"} /\ age <= MinInterval => Left(NextRound - age)
  /\ loop = "select" /\ age > MinInterval /\ tick => Left(4 * RequestTimeout)
  /\ loop = "select" /\ age > MinInterval /\ ~tick => Left(countdown + 4 * RequestTimeout)
  /\ loop = "scrape" /\ age > MinInterval => Left(4 * RequestTimeout - elapsed)
  /\ loop = "metrics" /\ age > MinInterval => Left(3 * RequestTimeout - elapsed)
  /\ loop = "goenv" => Left(2 * RequestTimeout - elapsed)
  /\ loop = "config" /\ ~broken => Left(RequestTimeout - elapsed)
  /\ loop = "config" /\ broken => Left(RequestTimeout - elapsed + NextRound)
  /\ loop \in {"new", "made"} => /\ Left(ScrapeInterval + 4 * RequestTimeout)
                                 /\ age = MinInterval + 1 /\ ~tick /\ unscraped = 0

Progress == Control /\ ScrapeProgress /\ ConfigProgress
IInv == TypeOK /\ Progress

LEMMA Constants == /\ ScrapeInterval \in Nat \ {0} /\ MinInterval \in Nat \ {0}
                   /\ RequestTimeout \in Nat \ {0}
                   /\ UnscrapedBound \in Nat /\ StaleBound \in Nat
                   /\ UnscrapedBound >= ScrapeInterval
                   /\ UnscrapedBound >= 4 * RequestTimeout
BY IntervalsArePositive DEF UnscrapedBound, StaleBound

\* A request begins: the backend may be down already.
LEMMA Begun == ASSUME NEW what, Begin(what)
               PROVE  /\ loop' = what /\ elapsed' = 0 /\ broken' \in BOOLEAN
                      /\ backend = "up" => ~broken'
BY Zenon DEF Begin

\* The metrics are dealt with: the configuration follows if it is due.
LEMMA Continued == ASSUME Continue, TypeOK
                   PROVE  /\ elapsed' \in 0..RequestTimeout /\ broken' \in BOOLEAN
                          /\ \/ age > MinInterval /\ loop' = "goenv" /\ elapsed' = 0
                             \/ ~(age > MinInterval) /\ loop' = "select" /\ elapsed' = elapsed
<1>1. CASE age > MinInterval
  <2>1. Begin("goenv")
    BY <1>1 DEF Continue
  <2> QED
    BY <1>1, <2>1, Begun, Constants
<1>2. CASE ~(age > MinInterval)
  BY <1>2 DEF Continue, request, TypeOK
<1> QED
  BY <1>1, <1>2

\* One unit of time passes, while a tick is awaited or a request has not timed out.
LEMMA Elapsed ==
  ASSUME TypeOK, Elapse
  PROVE  /\ loop \in Requests \cup {"select"} /\ loop' = loop
         /\ broken' = broken /\ backend' = backend
         /\ loop = "select" => ~tick /\ elapsed' = elapsed
         /\ loop # "select" => elapsed' = elapsed + 1
         /\ ~tick' => ~tick /\ countdown # 1
         /\ tick' => tick \/ countdown = 1
         /\ countdown' = IF countdown = 1 THEN ScrapeInterval ELSE countdown - 1
         /\ age' = IF age > MinInterval THEN age ELSE age + 1
         /\ unscraped' \in Nat /\ unscraped' <= unscraped + 1
         /\ stale' \in Nat /\ (backend = "up" => stale' <= stale + 1)
         /\ (backend # "up" => stale' = 0)
<1>1. (~tick' => ~tick /\ countdown # 1) /\ (tick' => tick \/ countdown = 1)
  BY Zenon DEF Elapse
<1>2. loop \in Requests \cup {"select"} /\ (loop = "select" => ~tick)
  <2>1. MayWait
    BY Zenon DEF Elapse, Pass
  <2> QED
    BY <2>1 DEF MayWait, Requests
<1>3. loop' = loop /\ broken' = broken /\ backend' = backend
  BY Zenon DEF Elapse, Pass
<1>4. /\ loop = "select" => elapsed' = elapsed
      /\ loop # "select" => elapsed' = elapsed + 1
  BY <1>2 DEF Elapse, Pass, Requests
<1>5. countdown' = IF countdown = 1 THEN ScrapeInterval ELSE countdown - 1
  BY Zenon DEF Elapse
<1>6. age' = IF age > MinInterval THEN age ELSE age + 1
  BY Constants DEF Elapse, Pass, AtMost, TypeOK
<1>7. unscraped' \in Nat /\ unscraped' <= unscraped + 1
  BY Constants DEF Elapse, Pass, AtMost, TypeOK
<1>8. /\ stale' \in Nat /\ (backend = "up" => stale' <= stale + 1)
      /\ backend # "up" => stale' = 0
  BY Constants DEF Elapse, Pass, AtMost, TypeOK
<1> QED
  BY <1>1, <1>2, <1>3, <1>4, <1>5, <1>6, <1>7, <1>8

LEMMA Initially == Init => IInv
<1> SUFFICES ASSUME Init PROVE IInv
  OBVIOUS
<1> USE Constants DEF Init
<1>1. TypeOK
  <2>1. tick \in BOOLEAN /\ broken \in BOOLEAN
    BY Zenon
  <2>2. elapsed \in 0..RequestTimeout /\ age \in 0..(MinInterval + 1)
    OBVIOUS
  <2>3. countdown \in 1..ScrapeInterval
    OBVIOUS
  <2>4. stale \in 0..(StaleBound + 1) /\ unscraped \in 0..(UnscrapedBound + 1)
    OBVIOUS
  <2>5. loop = "new" /\ done = "open" /\ backend \in {"up", "down"}
    OBVIOUS
  <2> QED
    BY <2>1, <2>2, <2>3, <2>4, <2>5, Zenon DEF TypeOK
<1>2. Control /\ ScrapeProgress
  BY DEF Control, ScrapeProgress
<1>3. ConfigProgress
  BY DEF ConfigProgress, Left, StaleBound
<1> QED
  BY <1>1, <1>2, <1>3 DEF IInv, Progress

LEMMA TypeStep == TypeOK /\ [Next]_vars => TypeOK'
<1> SUFFICES ASSUME TypeOK, [Next]_vars PROVE TypeOK'
  OBVIOUS
<1> USE Constants, Begun, Continued DEF TypeOK, Requests, request, clocks
<1>1. CASE New BY <1>1 DEF New
<1>2. CASE Start BY <1>2 DEF Start
<1>3. CASE TakeTick
  <2>1. loop' = "scrape" /\ elapsed' = 0 /\ broken' \in BOOLEAN
    BY <1>3, Begun, Zenon DEF TakeTick
  <2>2. tick' \in BOOLEAN
    BY <1>3, Zenon DEF TakeTick
  <2>3. elapsed' \in 0..RequestTimeout /\ unscraped' \in 0..(UnscrapedBound + 1)
    BY <1>3, <2>1 DEF TakeTick
  <2>4. /\ age' \in 0..(MinInterval + 1) /\ countdown' \in 1..ScrapeInterval
        /\ stale' \in 0..(StaleBound + 1)
        /\ done' \in {"open", "closed"} /\ backend' \in {"up", "down"}
    BY <1>3 DEF TakeTick
  <2> QED
    BY <2>1, <2>2, <2>3, <2>4
<1>4. CASE TakeDone BY <1>4 DEF TakeDone
<1>5. CASE ScrapeEnds BY <1>5 DEF ScrapeEnds
<1>6. CASE MetricsEnds BY <1>6 DEF MetricsEnds
<1>7. CASE GoenvEnds BY <1>7 DEF GoenvEnds
<1>8. CASE ConfigEnds BY <1>8 DEF ConfigEnds
<1>9. CASE Shutdown BY <1>9 DEF Shutdown
<1>10. CASE BackendFails BY <1>10 DEF BackendFails
<1>11. CASE BackendRecovers BY <1>11 DEF BackendRecovers
<1>12. CASE Elapse BY <1>12 DEF Elapse, Pass, MayWait, AtMost
<1>13. CASE UNCHANGED vars BY <1>13 DEF vars
<1> QED
  BY <1>1, <1>2, <1>3, <1>4, <1>5, <1>6, <1>7, <1>8, <1>9, <1>10, <1>11, <1>12, <1>13
  DEF Next, RequestEnds

LEMMA ProgressStep == IInv /\ [Next]_vars => Progress'
<1> SUFFICES ASSUME IInv, [Next]_vars PROVE Progress'
  OBVIOUS
<1> USE Constants, Begun, Continued DEF IInv, TypeOK, Progress, Control, ScrapeProgress, ConfigProgress, Left,
    Requests, request, clocks, NextRound
<1>1. CASE New BY <1>1 DEF New
<1>2. CASE Start BY <1>2 DEF Start
<1>3. CASE TakeTick BY <1>3 DEF TakeTick
<1>4. CASE TakeDone BY <1>4 DEF TakeDone
<1>5. CASE ScrapeEnds BY <1>5 DEF ScrapeEnds
<1>6. CASE MetricsEnds BY <1>6 DEF MetricsEnds
<1>7. CASE GoenvEnds BY <1>7 DEF GoenvEnds, StaleBound
<1>8. CASE ConfigEnds BY <1>8 DEF ConfigEnds, StaleBound, Succeeds, Fails
<1>9. CASE Shutdown BY <1>9 DEF Shutdown
<1>10. CASE BackendFails BY <1>10 DEF BackendFails, StaleBound
<1>11. CASE BackendRecovers BY <1>11 DEF BackendRecovers
<1>12. CASE Elapse
  <2> USE <1>12, Elapsed
  <2>1. Control'
    OBVIOUS
  <2>2. ScrapeProgress'
    OBVIOUS
  <2>3. CASE loop = "select" /\ age > MinInterval
    BY <2>1, <2>2, <2>3
  <2>4. CASE loop = "select" /\ ~(age > MinInterval)
    BY <2>1, <2>2, <2>4
  <2>5. CASE loop \in Requests
    BY <2>1, <2>2, <2>5
  <2> QED
    BY <2>3, <2>4, <2>5
<1>13. CASE UNCHANGED vars BY <1>13 DEF vars
<1> QED
  BY <1>1, <1>2, <1>3, <1>4, <1>5, <1>6, <1>7, <1>8, <1>9, <1>10, <1>11, <1>12, <1>13
  DEF Next, RequestEnds

LEMMA Invariance == Spec => []IInv
<1>1. IInv /\ [Next]_vars => IInv'
  BY TypeStep, ProgressStep DEF IInv
<1> QED
  BY Initially, <1>1, PTL DEF Spec

\* The extension's variables keep their types; in particular no request outlives the
\* timeout of its client (telemetry.go:133, telemetry.go:137).
THEOREM Typing == Spec => []TypeOK
<1>1. IInv => TypeOK
  BY DEF IInv
<1> QED
  BY Invariance, <1>1, PTL

\* Whatever the intervals and the timeout are, a scrape is begun within the interval or the
\* four timeouts of a round after the one before (telemetry.go:194).
THEOREM ScrapesTimely == Spec => []ScrapesOnTime
<1>1. IInv => ScrapesOnTime
  BY Constants DEF IInv, TypeOK, Progress, ScrapeProgress, ScrapesOnTime, Running, Requests
<1> QED
  BY Invariance, <1>1, PTL

\* Whatever the intervals and the timeout are, a backend that stays up has the
\* configuration within StaleBound, through any failures before (telemetry.go:232).
THEOREM ConfigDelivered == Spec => []ConfigArrives
<1>1. IInv => ConfigArrives
  BY Constants DEF IInv, TypeOK, Progress, Control, ConfigProgress, Left, ConfigArrives, Running,
     Requests, NextRound
<1> QED
  BY Invariance, <1>1, PTL
-----------------------------------------------------------------------------
(* The command line.  Values is defined by recursion from the end of the command line, so  *)
(* what holds of it is shown by the least counterexample from there.                       *)

LEMMA LeastOfNat ==
  ASSUME NEW T \in SUBSET Nat, T # {}
  PROVE  \E m \in T : \A k \in T : m <= k
<1>1. IsWellFoundedOn(OpToRel(<, Nat), Nat)
  BY NatLessThanWellFounded
<1>2. PICK m \in T : \A k \in T : ~(<<k, m>> \in OpToRel(<, Nat))
  BY <1>1, WFMin
<1>3. \A k \in T : ~(k < m)
  BY <1>2 DEF OpToRel
<1> QED BY <1>3

LEMMA GreatestPlace ==
  ASSUME NEW n \in Nat, NEW T \in SUBSET (1..n), T # {}
  PROVE  \E m \in T : \A k \in T : m >= k
<1> DEFINE D == {n - k : k \in T}
<1>1. \A k \in T : k \in Nat /\ n - k \in Nat
  OBVIOUS
<1>2. D \in SUBSET Nat /\ D # {}
  BY <1>1
<1>3. PICK d \in D : \A e \in D : d <= e
  BY <1>2, LeastOfNat
<1>4. PICK m \in T : d = n - m
  OBVIOUS
<1>5. \A k \in T : n - k \in D
  OBVIOUS
<1>6. d \in D /\ \A k \in T : d <= n - k
  BY <1>3, <1>5
<1> HIDE DEF D
<1> QED BY <1>1, <1>4, <1>6

\* What the i-th argument contributes to the values of a flag, and where reading goes on.
Own(flag, argv, i) ==
  IF argv[i][1] # flag THEN <<>>
  ELSE IF Len(argv[i]) = 1 THEN <<argv[i + 1]>> ELSE <<Tail(argv[i])>>
After(argv, i) == IF Len(argv[i]) = 1 THEN i + 2 ELSE i + 1
ValuesFrom(v, flag, argv, i) == IF i > Len(argv) THEN <<>> ELSE Own(flag, argv, i) \o v[After(argv, i)]
Reading(v, flag, argv) == v = [i \in 1..(Len(argv) + 2) |-> ValuesFrom(v, flag, argv, i)]

LEMMA AfterIsLater ==
  ASSUME NEW argv, NEW n \in Nat, NEW i \in 1..n
  PROVE  After(argv, i) \in (i + 1)..(n + 2)
<1>1. i + 1 \in (i + 1)..(n + 2) /\ i + 2 \in (i + 1)..(n + 2)
  OBVIOUS
<1>2. After(argv, i) = i + 1 \/ After(argv, i) = i + 2
  BY DEF After
<1> QED BY <1>1, <1>2

\* The recursion has a solution, so Values is what its equation says.
LEMMA ReadingExists ==
  ASSUME NEW argv, Len(argv) \in Nat, NEW flag
  PROVE  \E v : Reading(v, flag, argv)
<1> DEFINE n == Len(argv)
           Part(v, k) == \A i \in (n + 2 - k)..(n + 2) : v[i] = ValuesFrom(v, flag, argv, i)
           Missing == {k \in Nat : k <= n + 1 /\ ~\E v : Part(v, k)}
<1>1. n \in Nat
  OBVIOUS
<1> HIDE DEF n
<1>2. Missing = {}
  <2> SUFFICES ASSUME Missing # {} PROVE FALSE
    OBVIOUS
  <2>1. PICK k \in Missing : \A j \in Missing : k <= j
    BY LeastOfNat
  <2>2. k \in Nat /\ k <= n + 1 /\ ~\E v : Part(v, k)
    BY <2>1
  <2> HIDE DEF Missing
  <2>3. k # 0 /\ k # 1
    <3> DEFINE none == [i \in 1..(n + 2) |-> <<>>]
    <3>1. \A i \in (n + 1)..(n + 2) : none[i] = <<>> /\ i > n
      BY <1>1
    <3>2. \A i \in (n + 1)..(n + 2) : ValuesFrom(none, flag, argv, i) = <<>>
      BY <1>1, <3>1 DEF ValuesFrom, n
    <3> HIDE DEF none
    <3>3. Part(none, 0) /\ Part(none, 1)
      <4>1. n + 2 - 0 = n + 2 /\ n + 2 - 1 = n + 1 /\ n + 2 \in (n + 1)..(n + 2)
        BY <1>1
      <4>2. \A i \in (n + 1)..(n + 2) : none[i] = ValuesFrom(none, flag, argv, i)
        BY <3>1, <3>2
      <4>3. \A i \in (n + 2)..(n + 2) : none[i] = ValuesFrom(none, flag, argv, i)
        <5>1. (n + 2)..(n + 2) \subseteq (n + 1)..(n + 2)
          BY <1>1
        <5> QED BY <4>2, <5>1
      <4> QED BY <4>1, <4>2, <4>3
    <3> HIDE DEF Part
    <3> QED BY <2>2, <3>3
  <2>4. k - 1 \in Nat /\ k - 1 <= n + 1 /\ ~(k <= k - 1)
    BY <1>1, <2>2, <2>3
  <2>5. PICK w : Part(w, k - 1)
    BY <2>1, <2>4 DEF Missing
  <2> DEFINE p == n + 2 - k
             x == ValuesFrom(w, flag, argv, p)
             v == [i \in p..(n + 2) |-> IF i = p THEN x ELSE w[i]]
  <2>6. p \in 1..n
    BY <1>1, <2>2, <2>3
  <2>7. n + 2 - (k - 1) = p + 1
    BY <1>1, <2>2
  <2>8. \A i \in (p + 1)..(n + 2) : w[i] = ValuesFrom(w, flag, argv, i)
    BY <2>5, <2>7
  <2> HIDE DEF p, x
  <2>9. \A i \in (p + 1)..(n + 2) : v[i] = w[i]
    BY <1>1, <2>6
  <2>10. v[p] = x
    BY <1>1, <2>6
  <2> HIDE DEF v
  <2>11. ASSUME NEW i \in p..(n + 2)
         PROVE  ValuesFrom(v, flag, argv, i) = ValuesFrom(w, flag, argv, i)
    <3>1. i \in 1..n => After(argv, i) \in (i + 1)..(n + 2)
      BY <1>1, AfterIsLater
    <3>2. i \in Int /\ p <= i /\ i <= n + 2 /\ i \in 1..(n + 2)
      BY <1>1, <2>6
    <3>3. i <= n => After(argv, i) \in (p + 1)..(n + 2)
      <4>1. i <= n => i \in 1..n
        BY <1>1, <3>2
      <4>2. (i + 1)..(n + 2) \subseteq (p + 1)..(n + 2)
        BY <1>1, <2>6, <3>2
      <4> QED BY <3>1, <4>1, <4>2
    <3>4. i <= n => v[After(argv, i)] = w[After(argv, i)]
      BY <2>9, <3>3
    <3>5. CASE i > n
      BY <3>5 DEF ValuesFrom, n
    <3>6. CASE i <= n
      BY <1>1, <3>2, <3>4, <3>6 DEF ValuesFrom, n
    <3>7. i > n \/ i <= n
      BY <1>1, <3>2
    <3> QED BY <3>5, <3>6, <3>7
  <2>12. \A i \in p..(n + 2) : v[i] = ValuesFrom(v, flag, argv, i)
    <3>1. p..(n + 2) = {p} \cup ((p + 1)..(n + 2))
      BY <1>1, <2>6
    <3>2. \A i \in p..(n + 2) : v[i] = ValuesFrom(w, flag, argv, i)
      BY <2>8, <2>9, <2>10, <3>1 DEF x
    <3> QED BY <2>11, <3>2
  <2>13. Part(v, k)
    BY <2>12 DEF p
  <2> HIDE DEF Part
  <2> QED BY <2>2, <2>13
<1>3. PICK v : Part(v, n + 1)
  <2>1. n + 1 \in Nat /\ n + 1 <= n + 1
    BY <1>1
  <2> HIDE DEF Part
  <2>2. n + 1 \notin Missing
    BY <1>2
  <2> QED BY <2>1, <2>2
<1>4. \A i \in 1..(n + 2) : v[i] = ValuesFrom(v, flag, argv, i)
  <2>1. n + 2 - (n + 1) = 1
    BY <1>1
  <2> QED BY <1>3, <2>1
<1> DEFINE u == [i \in 1..(n + 2) |-> v[i]]
<1>5. ASSUME NEW i \in 1..(n + 2) PROVE u[i] = ValuesFrom(u, flag, argv, i)
  <2>1. i <= n => After(argv, i) \in 1..(n + 2)
    <3>1. i <= n => i \in 1..n /\ (i + 1)..(n + 2) \subseteq 1..(n + 2)
      BY <1>1
    <3> QED BY <1>1, <3>1, AfterIsLater
  <2>2. \A j \in 1..(n + 2) : u[j] = v[j]
    OBVIOUS
  <2> HIDE DEF u
  <2>3. i <= n => u[After(argv, i)] = v[After(argv, i)]
    BY <2>1, <2>2
  <2>4. u[i] = ValuesFrom(v, flag, argv, i)
    BY <1>4, <2>2
  <2>5. CASE i > n
    BY <2>4, <2>5 DEF ValuesFrom, n
  <2>6. CASE i <= n
    BY <1>1, <2>3, <2>4, <2>6 DEF ValuesFrom, n
  <2>7. i > n \/ i <= n
    BY <1>1
  <2> QED BY <2>5, <2>6, <2>7
<1>6. u = [i \in 1..(n + 2) |-> u[i]]
  OBVIOUS
<1> HIDE DEF u
<1> QED BY <1>5, <1>6 DEF Reading, n

LEMMA ValuesAreRead ==
  ASSUME NEW argv, Len(argv) \in Nat, NEW flag
  PROVE  \E v : Values(flag, argv) = v[1] /\ Reading(v, flag, argv)
<1> DEFINE Entry(u, i) ==
             IF i > Len(argv) THEN <<>>
             ELSE IF Len(argv[i]) = 1
                  THEN (IF argv[i][1] = flag THEN <<argv[i + 1]>> ELSE <<>>) \o u[i + 2]
             ELSE (IF argv[i][1] = flag THEN <<Tail(argv[i])>> ELSE <<>>) \o u[i + 1]
           Entries(u) == u = [i \in 1..(Len(argv) + 2) |-> Entry(u, i)]
           v == CHOOSE u : Entries(u)
<1>1. ASSUME NEW u, NEW i
      PROVE  Entry(u, i) = ValuesFrom(u, flag, argv, i)
  <2>1. CASE i > Len(argv)
    BY <2>1 DEF ValuesFrom
  <2>2. CASE ~(i > Len(argv)) /\ Len(argv[i]) = 1
    BY <2>2 DEF ValuesFrom, Own, After
  <2>3. CASE ~(i > Len(argv)) /\ Len(argv[i]) # 1
    BY <2>3 DEF ValuesFrom, Own, After
  <2> QED BY <2>1, <2>2, <2>3
<1>2. Values(flag, argv) = v[1]
  BY DEF Values
<1> HIDE DEF Entry
<1>3. ASSUME NEW u PROVE Entries(u) <=> Reading(u, flag, argv)
  <2>1. [i \in 1..(Len(argv) + 2) |-> Entry(u, i)]
        = [i \in 1..(Len(argv) + 2) |-> ValuesFrom(u, flag, argv, i)]
    BY <1>1
  <2> QED BY <2>1 DEF Reading
<1> HIDE DEF Entries
<1>4. Entries(v)
  BY <1>3, ReadingExists
<1> QED BY <1>2, <1>3, <1>4

\* The places from the i-th on where the flag is, and what the flag is worth at one of them.
PlacesFrom(flag, argv, i) == {j \in DOMAIN argv : j >= i /\ argv[j][1] = flag}
Worth(argv, m) == IF Len(argv[m]) = 1 THEN argv[m + 1] ELSE <<argv[m][2]>>

LastCounts(v, flag, argv, i) ==
  /\ v[i] \in Seq(Seq(Text))
  /\ v[i] = <<>> <=> PlacesFrom(flag, argv, i) = {}
  /\ \A m \in PlacesFrom(flag, argv, i) :
       (\A j \in PlacesFrom(flag, argv, i) : m >= j) => v[i][Len(v[i])] = Worth(argv, m)

\* The claim holds past the last argument, and at a flag if it holds where reading goes on;
\* these are the places that are reached, as a value is never taken for a flag.
LEMMA ReadRightly ==
  ASSUME NEW argv \in Seq(Seq(Text)), CommandLine(argv), NEW flag \in OwnFlags,
         NEW v, Reading(v, flag, argv)
  PROVE  LastCounts(v, flag, argv, 1)
<1> DEFINE n == Len(argv)
<1>1. n \in Nat /\ DOMAIN argv = 1..n /\ (argv # <<>> <=> n # 0)
  OBVIOUS
<1>2. \A i \in 1..n : argv[i] \in Seq(Text)
  OBVIOUS
<1>3. PICK flags \in SUBSET DOMAIN argv :
        /\ argv # <<>> => 1 \in flags
        /\ \A i \in DOMAIN argv \ flags : argv[i][1] \notin OwnFlags
        /\ \A i \in flags :
             \/ Len(argv[i]) = 1 /\ i + 1 \in DOMAIN argv \ flags /\ (i + 2 \in flags \/ i + 1 = n)
             \/ Len(argv[i]) = 2 /\ (i + 1 \in flags \/ i = n)
  BY <1>1 DEF CommandLine
<1> HIDE DEF n
<1>4. /\ \A i \in 1..n : i \notin flags => argv[i][1] # flag
      /\ \A i \in flags : i \in 1..n /\ (Len(argv[i]) = 1 \/ Len(argv[i]) = 2)
  BY <1>1, <1>3
<1>5. \A i \in flags : Len(argv[i]) = 1 =>
         i + 1 \in 1..n /\ i + 1 \notin flags /\ (i + 2 \in flags \/ i + 1 = n)
  <2> SUFFICES ASSUME NEW i \in flags, Len(argv[i]) = 1
               PROVE  i + 1 \in 1..n /\ i + 1 \notin flags /\ (i + 2 \in flags \/ i + 1 = n)
    OBVIOUS
  <2>1. Len(argv[i]) # 2
    OBVIOUS
  <2>2. i + 1 \in DOMAIN argv \ flags /\ (i + 2 \in flags \/ i + 1 = n)
    BY <1>3, <2>1, Zenon
  <2> QED BY <1>1, <2>2
<1>6. \A i \in flags : Len(argv[i]) = 2 => i + 1 \in flags \/ i = n
  <2> SUFFICES ASSUME NEW i \in flags, Len(argv[i]) = 2
               PROVE  i + 1 \in flags \/ i = n
    OBVIOUS
  <2>1. Len(argv[i]) # 1
    OBVIOUS
  <2> QED BY <1>3, <2>1, Zenon
<1>7. \A i \in 1..(n + 2) : v[i] = ValuesFrom(v, flag, argv, i)
  BY DEF Reading, n
<1>8. ASSUME NEW i, i = n + 1
      PROVE  LastCounts(v, flag, argv, i)
  <2>1. i \in 1..(n + 2) /\ i > n
    BY <1>1, <1>8
  <2>2. v[i] = <<>>
    BY <1>7, <2>1 DEF ValuesFrom, n
  <2>3. PlacesFrom(flag, argv, i) = {}
    BY <1>1, <1>8 DEF PlacesFrom
  <2> QED BY <2>2, <2>3 DEF LastCounts
<1>9. ASSUME NEW i \in flags, LastCounts(v, flag, argv, After(argv, i))
      PROVE  LastCounts(v, flag, argv, i)
  <2> DEFINE k  == After(argv, i)
             P  == PlacesFrom(flag, argv, i)
             Q  == PlacesFrom(flag, argv, k)
             h  == Own(flag, argv, i)
  <2>1. i \in 1..n /\ i \in Nat
    BY <1>1
  <2>2. k \in Nat /\ k > i
    BY <2>1 DEF After
  <2>3. ASSUME NEW j \in 1..n, j > i, j < k
        PROVE  argv[j][1] # flag
    <3>1. Len(argv[i]) = 1 /\ k = i + 2
      BY <1>1, <2>1, <2>3 DEF After
    <3>2. j = i + 1
      BY <2>1, <2>3, <3>1
    <3>3. i + 1 \in 1..n /\ i + 1 \notin flags
      BY <1>5, <3>1
    <3> QED BY <1>4, <3>2, <3>3
  <2>4. P = IF argv[i][1] = flag THEN {i} \cup Q ELSE Q
    BY <1>1, <2>1, <2>2, <2>3 DEF PlacesFrom
  <2>5. v[i] = h \o v[k]
    <3>1. i \in 1..(n + 2) /\ ~(i > n)
      BY <1>1, <2>1
    <3> QED BY <1>7, <3>1 DEF ValuesFrom, n
  <2>6. /\ v[k] \in Seq(Seq(Text)) /\ (v[k] = <<>> <=> Q = {})
        /\ \A m \in Q : (\A j \in Q : m >= j) => v[k][Len(v[k])] = Worth(argv, m)
    BY <1>9 DEF LastCounts
  <2>7. CASE argv[i][1] # flag
    <3>1. h = <<>> /\ P = Q
      BY <2>4, <2>7 DEF Own
    <3>2. v[i] = v[k]
      BY <2>5, <2>6, <3>1
    <3> QED BY <1>9, <3>1, <3>2 DEF LastCounts
  <2>8. CASE argv[i][1] = flag
    <3>1. h = <<Worth(argv, i)>> /\ Worth(argv, i) \in Seq(Text)
      <4>1. argv[i] \in Seq(Text) /\ (Len(argv[i]) = 1 \/ Len(argv[i]) = 2)
        BY <1>2, <1>4, <2>1
      <4>2. CASE Len(argv[i]) = 1
        <5>1. argv[i + 1] \in Seq(Text)
          BY <1>2, <1>5, <4>2
        <5> QED BY <2>8, <4>2, <5>1 DEF Own, Worth
      <4>3. CASE Len(argv[i]) = 2
        <5>1. /\ Tail(argv[i]) \in Seq(Text) /\ Len(Tail(argv[i])) = 1
              /\ Tail(argv[i])[1] = argv[i][2] /\ argv[i][2] \in Text
          BY <4>1, <4>3
        <5>2. \A s \in Seq(Text) : Len(s) = 1 => s = <<s[1]>>
          OBVIOUS
        <5>3. Tail(argv[i]) = <<argv[i][2]>>
          BY <5>1, <5>2
        <5> QED BY <2>8, <4>3, <5>1, <5>3 DEF Own, Worth
      <4> QED BY <4>1, <4>2, <4>3
    <3>2. P = {i} \cup Q
      BY <2>4, <2>8
    <3>3. v[i] \in Seq(Seq(Text)) /\ v[i] # <<>> /\ Len(v[i]) = 1 + Len(v[k])
      BY <2>5, <2>6, <3>1
    <3>4. ASSUME NEW m \in P, \A j \in P : m >= j
          PROVE  v[i][Len(v[i])] = Worth(argv, m)
      <4>1. CASE Q = {}
        <5>1. m = i /\ v[k] = <<>>
          BY <2>6, <3>2, <4>1
        <5>2. v[i] = <<Worth(argv, i)>>
          BY <2>5, <3>1, <5>1
        <5> QED BY <5>1, <5>2
      <4>2. CASE Q # {}
        <5>1. \A j \in Q : j \in Nat /\ j > i
          BY <1>1, <2>1, <2>2 DEF PlacesFrom
        <5>2. m \in Q
          BY <3>2, <3>4, <4>2, <5>1, <2>1
        <5>3. v[k][Len(v[k])] = Worth(argv, m)
          BY <2>6, <3>2, <3>4, <5>2
        <5>4. Len(v[k]) \in Nat /\ Len(v[k]) > 0
          BY <2>6, <4>2
        <5> QED BY <2>5, <2>6, <3>1, <3>3, <5>3, <5>4
      <4> QED BY <4>1, <4>2
    <3> QED BY <3>2, <3>3, <3>4 DEF LastCounts
  <2> QED BY <2>7, <2>8
<1> DEFINE Reached == flags \cup {n + 1}
           Wrong   == {d \in Nat : \E i \in Reached : d = n + 1 - i /\ ~LastCounts(v, flag, argv, i)}
<1>10. \A i \in Reached : i \in Nat /\ i <= n + 1 /\ n + 1 - i \in Nat
  BY <1>1
<1>11. \A i \in flags : After(argv, i) \in Reached /\ After(argv, i) > i
  <2> SUFFICES ASSUME NEW i \in flags
               PROVE  After(argv, i) \in Reached /\ After(argv, i) > i
    OBVIOUS
  <2>1. i \in Nat
    BY <1>1, <1>4
  <2>2. CASE Len(argv[i]) = 1
    <3>1. After(argv, i) = i + 2
      BY <2>2 DEF After
    <3>2. i + 2 \in flags \/ i + 2 = n + 1
      <4>1. i + 2 \in flags \/ i + 1 = n
        BY <1>5, <2>2
      <4> QED BY <1>1, <2>1, <4>1
    <3> QED BY <2>1, <3>1, <3>2
  <2>3. CASE Len(argv[i]) = 2
    <3>1. After(argv, i) = i + 1
      BY <2>3 DEF After
    <3> QED BY <1>6, <2>1, <2>3, <3>1
  <2> QED BY <1>4, <2>2, <2>3
<1>12. Wrong = {}
  <2> SUFFICES ASSUME Wrong # {} PROVE FALSE
    OBVIOUS
  <2>1. PICK d \in Wrong : \A e \in Wrong : d <= e
    BY LeastOfNat
  <2>2. PICK i \in Reached : d = n + 1 - i /\ ~LastCounts(v, flag, argv, i)
    BY <2>1
  <2>3. i \in flags
    BY <1>8, <2>2
  <2>4. ~LastCounts(v, flag, argv, After(argv, i))
    BY <1>9, <2>2, <2>3
  <2> DEFINE k == After(argv, i)
  <2>5. k \in Reached /\ k > i
    BY <1>11, <2>3
  <2> HIDE DEF k, Reached
  <2>6. n + 1 - k \in Wrong
    BY <1>10, <2>4, <2>5 DEF k
  <2>7. n + 1 - k < n + 1 - i /\ n + 1 - k \in Nat /\ n + 1 - i \in Nat
    BY <1>1, <1>10, <2>5
  <2> QED BY <2>1, <2>2, <2>6, <2>7
<1>13. 1 \in Reached
  BY <1>1, <1>3
<1>14. n + 1 - 1 \in Nat /\ n + 1 - 1 \notin Wrong
  BY <1>10, <1>12, <1>13
<1> HIDE DEF Reached
<1> QED BY <1>13, <1>14

LEMMA FlagsParsed ==
  ASSUME NEW argv \in Arguments, NEW flag \in OwnFlags
  PROVE  LET values == Values(flag, argv)
         IN parseFlag(flag, argv) = IF values = <<>> THEN <<>> ELSE values[Len(values)]
<1> DEFINE at   == {i \in DOMAIN argv : argv[i][1] = flag}
           last == CHOOSE i \in at : \A j \in at : i >= j
<1>1. argv \in Seq(Seq(Text)) /\ CommandLine(argv) /\ Len(argv) \in Nat
  BY ArgumentsAreCommandLines
<1>2. PICK v : Values(flag, argv) = v[1] /\ Reading(v, flag, argv)
  BY <1>1, ValuesAreRead
<1>3. LastCounts(v, flag, argv, 1)
  BY <1>1, <1>2, ReadRightly
<1>4. PlacesFrom(flag, argv, 1) = at
  BY <1>1 DEF PlacesFrom
<1>5. CASE at = {}
  BY <1>2, <1>3, <1>4, <1>5 DEF LastCounts, parseFlag
<1>6. CASE at # {}
  <2>1. \E m \in at : \A k \in at : m >= k
    <3>1. at \in SUBSET (1..Len(argv))
      BY <1>1
    <3> HIDE DEF at
    <3> QED BY <1>1, <1>6, <3>1, GreatestPlace
  <2>2. last \in at /\ \A j \in at : last >= j
    BY <2>1
  <2>3. parseFlag(flag, argv) = Worth(argv, last)
    BY <1>6 DEF parseFlag, Worth
  <2> HIDE DEF last, at
  <2>4. v[1] # <<>> /\ v[1][Len(v[1])] = Worth(argv, last)
    BY <1>3, <1>4, <1>6, <2>2 DEF LastCounts
  <2> QED BY <1>2, <2>3, <2>4
<1> QED BY <1>5, <1>6

\* The arguments are read once, before anything else happens.
Unread == loop = "new" => args \in Arguments

\* For a command line of any length, parseArgs finds the value the collector uses: of the
\* last occurrence of the flag, in whichever of its two forms (telemetry.go:154).
THEOREM FlagsAreRead == Spec => []ArgumentsParsed
<1>1. Init => Unread
  BY DEF Init, Unread
<1>2. Unread /\ [Next]_vars => Unread'
  BY DEF Unread, Next, New, Start, TakeTick, TakeDone, RequestEnds, ScrapeEnds, MetricsEnds,
         GoenvEnds, ConfigEnds, Continue, Begin, Shutdown, BackendFails, BackendRecovers,
         Elapse, Pass, vars, clocks, request
<1>3. Unread => ArgumentsParsed
  BY FlagsParsed DEF Unread, ArgumentsParsed
<1> QED
  BY <1>1, <1>2, <1>3, PTL DEF Spec
=============================================================================
