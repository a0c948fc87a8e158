------------------------- MODULE TelemetryExtension -------------------------
(***************************************************************************)
(* The telemetry extension (extension/telemetryextension/telemetry.go): at *)
(* every tick a goroutine scrapes the collector's own metrics and posts    *)
(* them, and now and then also the Go environment and the configuration.   *)
(* All four are HTTP requests with a timeout, made one after the other.    *)
(* Time passes while a request is under way or a tick is awaited; the      *)
(* steps of the goroutine take none.                                       *)
(***************************************************************************)
EXTENDS Integers, Sequences, FiniteSets

CONSTANTS
  Arguments,        \* command lines the collector starts with; an argument is the
                    \* sequence of its parts between the equal signs,
  Text,             \* which are these
  ScrapeInterval,
  MinInterval,      \* defaultMinIntervalToPostConfig
  RequestTimeout    \* defaultRequestTimeout

ASSUME IntervalsArePositive == {ScrapeInterval, MinInterval, RequestTimeout} \subseteq Nat \ {0}

OwnFlags == {"--config", "--metrics-port"}

\* A flag has its value behind an equal sign, without another one in it, or in the next
\* argument, and no value looks like one of the two flags the extension looks for.
CommandLine(argv) ==
  \E flags \in SUBSET DOMAIN argv :   \* their places
    /\ argv # <<>> => 1 \in flags
    /\ \A i \in DOMAIN argv \ flags : argv[i][1] \notin OwnFlags
    /\ \A i \in flags :
         \/ /\ Len(argv[i]) = 1 /\ i + 1 \in DOMAIN argv \ flags
            /\ i + 2 \in flags \/ i + 1 = Len(argv)
         \/ Len(argv[i]) = 2 /\ (i + 1 \in flags \/ i = Len(argv))

ASSUME ArgumentsAreCommandLines ==
  Arguments \subseteq Seq(Seq(Text)) /\ \A argv \in Arguments : CommandLine(argv)

VARIABLES
  args,      \* the command line; it is read once
  loop,      \* where the goroutine is
  elapsed,   \* of the request under way
  age,       \* since lastCfgPostTime, up to what makes a difference
  countdown, \* to the next tick of the ticker
  tick,      \* a tick is waiting in the ticker's channel
  done,      \* the channel: "open" or "closed"
  backend,   \* "up" or "down"
  broken,    \* the backend was down at some time of the request under way
  stale,     \* history: since the backend is up and has not got the configuration
  unscraped  \* history: since the last scrape was begun

request == <<elapsed, broken>>
clocks  == <<age, countdown, tick, stale, unscraped>>
vars    == <<args, loop, request, clocks, done, backend>>

Requests == {"scrape", "metrics", "goenv", "config"}
AtMost(bound, n) == IF n < bound THEN n ELSE bound

\* How long the configuration may be missing, and the metrics not be scraped.
StaleBound     == MinInterval + ScrapeInterval + 5 * RequestTimeout
UnscrapedBound == IF ScrapeInterval > 4 * RequestTimeout THEN ScrapeInterval
                  ELSE 4 * RequestTimeout

Init ==
  /\ args \in Arguments /\ loop = "new"
  /\ elapsed = 0 /\ broken = FALSE /\ age = MinInterval + 1   \* the zero time is long ago
  /\ countdown = ScrapeInterval /\ tick = FALSE /\ done = "open"
  /\ backend \in {"up", "down"} /\ stale = 0 /\ unscraped = 0

-----------------------------------------------------------------------------
(* Creation *)

\* MUTANT of parseFlag: the first one counts.
parseFlagFirst(flag, argv) ==
  LET at    == {i \in DOMAIN argv : argv[i][1] = flag}
      first == CHOOSE i \in at : \A j \in at : i <= j
  IN IF at = {} THEN <<>> ELSE IF Len(argv[first]) = 1 THEN argv[first + 1] ELSE <<argv[first][2]>>

\* What parseArgs finds for a flag, nothing being the empty string: the last one counts, its
\* value is what follows its first equal sign, up to the next one, or the next argument.
\* (No flag of the collector begins with the name of one of the two.)
parseFlag(flag, argv) ==
  LET at   == {i \in DOMAIN argv : argv[i][1] = flag}
      last == CHOOSE i \in at : \A j \in at : i >= j
  IN IF at = {} THEN <<>> ELSE IF Len(argv[last]) = 1 THEN argv[last + 1] ELSE <<argv[last][2]>>

\* newTelemetryExtension reads the configuration file; without one it fails.
New ==
  /\ loop = "new"
  /\ \/ loop' = "failed"
     \/ parseFlag("--config", args) # <<>> /\ loop' = "made"
  /\ args' = <<>>
  /\ UNCHANGED <<request, clocks, done, backend>>

-----------------------------------------------------------------------------
(* The goroutine *)

Begin(what) == loop' = what /\ elapsed' = 0 /\ broken' = (backend = "down" /\ what # "scrape")

Start ==
  /\ loop = "made" /\ loop' = "select"
  /\ UNCHANGED <<args, request, clocks, done, backend>>

TakeTick ==
  /\ loop = "select" /\ tick
  /\ tick' = FALSE /\ unscraped' = 0 /\ Begin("scrape")
  /\ UNCHANGED <<args, age, countdown, stale, done, backend>>

\* MUTANT of TakeDone: the channel is only looked at when no tick is waiting.
TakeDoneIdle ==
  /\ loop = "select" /\ done = "closed" /\ ~tick
  /\ loop' = "gone"
  /\ UNCHANGED <<args, request, clocks, done, backend>>

TakeDone ==
  /\ loop = "select" /\ done = "closed"
  /\ loop' = "gone"
  /\ UNCHANGED <<args, request, clocks, done, backend>>

\* The metrics are dealt with: is it time for the configuration?
Continue == IF age > MinInterval THEN Begin("goenv") ELSE loop' = "select" /\ UNCHANGED request

\* MUTANT of ScrapeEnds: a scrape that fails ends the round.
ScrapeEndsRound ==
  /\ loop = "scrape"
  /\ Begin("metrics") \/ (loop' = "select" /\ UNCHANGED request)
  /\ UNCHANGED <<args, clocks, done, backend>>

\* getAndPostMetrics; nothing is posted when the scrape fails.
ScrapeEnds ==
  /\ loop = "scrape"
  /\ Begin("metrics") \/ Continue
  /\ UNCHANGED <<args, clocks, done, backend>>

\* A post succeeds when the backend is up, and fails only if it was not all the time.
Succeeds == backend = "up"
Fails    == broken

MetricsEnds ==
  /\ loop = "metrics" /\ (Succeeds \/ Fails)
  /\ Continue
  /\ UNCHANGED <<args, clocks, done, backend>>

GoenvEnds ==
  /\ loop = "goenv" /\ (Succeeds \/ Fails)
  /\ Begin("config")
  /\ UNCHANGED <<args, clocks, done, backend>>

\* lastCfgPostTime is set whatever became of the posts.
ConfigEnds ==
  /\ loop = "config" /\ loop' = "select"
  /\ \/ Succeeds /\ stale' = 0
     \/ Fails /\ UNCHANGED stale
  /\ age' = 0
  /\ UNCHANGED <<args, request, countdown, tick, unscraped, done, backend>>

RequestEnds == ScrapeEnds \/ MetricsEnds \/ GoenvEnds \/ ConfigEnds

\* A second Shutdown would panic; the collector calls it once.
Shutdown ==
  /\ done = "open" /\ loop \notin {"new", "failed", "made"}
  /\ done' = "closed"
  /\ UNCHANGED <<args, loop, request, clocks, backend>>

-----------------------------------------------------------------------------
(* The surroundings *)

BackendFails ==
  /\ backend = "up" /\ backend' = "down" /\ stale' = 0
  /\ broken' = (loop \in {"metrics", "goenv", "config"})
  /\ UNCHANGED <<args, loop, elapsed, age, countdown, tick, unscraped, done>>

BackendRecovers ==
  /\ backend = "down" /\ backend' = "up"
  /\ UNCHANGED <<args, loop, request, clocks, done>>

Running == loop \in Requests \cup {"select"}

\* A tick is awaited, or the answer to a request.
MayWait == \/ loop = "select" /\ ~tick /\ done = "open"
           \/ loop \in Requests /\ elapsed < RequestTimeout

Pass ==
  /\ MayWait
  /\ elapsed' = IF loop \in Requests THEN elapsed + 1 ELSE elapsed
  /\ age' = AtMost(MinInterval + 1, age + 1)
  /\ stale' = IF backend = "up" THEN AtMost(StaleBound + 1, stale + 1) ELSE 0
  /\ unscraped' = AtMost(UnscrapedBound + 1, unscraped + 1)
  /\ UNCHANGED <<args, loop, done, backend, broken>>

\* MUTANT of Elapse: a timer that is set after the work, in place of the ticker.
ElapseSleeping ==
  /\ Pass
  /\ countdown' = IF loop # "select" THEN ScrapeInterval
                  ELSE IF countdown = 1 THEN ScrapeInterval ELSE countdown - 1
  /\ tick' = (tick \/ (loop = "select" /\ countdown = 1))

\* One unit of time.  The ticker drops a tick while one is waiting.
Elapse ==
  /\ Pass
  /\ countdown' = IF countdown = 1 THEN ScrapeInterval ELSE countdown - 1
  /\ tick' = (tick \/ countdown = 1)

Next ==
  \/ New \/ Start \/ TakeTick \/ TakeDone \/ RequestEnds \/ Shutdown
  \/ BackendFails \/ BackendRecovers \/ Elapse

\* Requests end, by their timeout if not before; select is fair to a channel that stays
\* ready.
Fairness == WF_vars(RequestEnds) /\ WF_vars(TakeTick) /\ SF_vars(TakeDone)
Spec == Init /\ [][Next]_vars /\ Fairness

-----------------------------------------------------------------------------
\* The types; no request outlives its timeout.
TypeOK ==
  /\ loop \in Requests \cup {"new", "failed", "made", "select", "gone"}
  /\ elapsed \in 0..RequestTimeout /\ age \in 0..(MinInterval + 1)
  /\ countdown \in 1..ScrapeInterval /\ tick \in BOOLEAN /\ broken \in BOOLEAN
  /\ done \in {"open", "closed"} /\ backend \in {"up", "down"}
  /\ stale \in 0..(StaleBound + 1) /\ unscraped \in 0..(UnscrapedBound + 1)

\* What a flag of a command line is worth to the collector: arguments are read from the
\* left, and the argument after a flag without equal sign is its value.
Values(flag, argv) ==
  LET ValueAt[i \in 1..(Len(argv) + 2)] ==   \* those from the i-th argument on
        IF i > Len(argv) THEN <<>>
        ELSE IF Len(argv[i]) = 1 THEN (IF argv[i][1] = flag THEN <<argv[i + 1]>> ELSE <<>>) \o ValueAt[i + 2]
        ELSE (IF argv[i][1] = flag THEN <<Tail(argv[i])>> ELSE <<>>) \o ValueAt[i + 1]
  IN ValueAt[1]

\* The extension takes its configuration and its port from the flags the collector uses,
\* in whichever of the two forms they are given (telemetry.go:163); the last one counts.
ArgumentsParsed ==
  loop = "new" => \A flag \in OwnFlags :
    LET values == Values(flag, args)
    IN parseFlag(flag, args) = IF values = <<>> THEN <<>> ELSE values[Len(values)]

\* "makes this independent of failures on the backend" (telemetry.go:236): a backend that
\* stays up gets the configuration within a fixed time, also when the last post failed and
\* still counted as one.
ConfigArrives == Running /\ done = "open" => stale <= StaleBound

\* However slow or dead the backend is, scrapes are never further apart than the interval
\* or the four requests of a round, whichever is longer.
ScrapesOnTime == Running /\ done = "open" => unscraped <= UnscrapedBound

\* After Shutdown the goroutine ends, although ticks go on arriving.
LoopQuits == done = "closed" ~> loop = "gone"
=============================================================================
