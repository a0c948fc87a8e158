---------------------------- MODULE MemoryMonitor ----------------------------
(***************************************************************************)
(* The memory monitor (receiver/memorymonitor): a goroutine that reads the *)
(* host's memory counters at every tick and passes gauges on to the next   *)
(* consumer.  The counters are uint64 and the gauges int64; two gauges are *)
(* differences of counters the kernel does not read at the same instant.   *)
(***************************************************************************)
EXTENDS Integers, Sequences

CONSTANTS
  Sample,      \* what VirtualMemory may return
  HalfWord     \* stands for 2^63

OS == {"windows", "darwin", "linux"}
Counter == {"UsedPercent", "Used", "Available", "Free", "Active", "Inactive", "Wired", "Buffers",
            "Cached", "SReclaimable", "Slab"}

\* No counter of bytes reaches 2^63.
ASSUME SamplesAreCounters ==
  HalfWord \in Nat \ {0} /\ Sample \subseteq [Counter -> 0..(HalfWord - 1)]

VARIABLES
  os,                    \* runtime.GOOS
  startOnce, stopOnce,   \* used or not
  monitor,               \* "nil" or "made"
  goroutine,             \* "none", "select", "scraping", "gone"
  stopCh, tick,          \* closed or not; a tick is waiting
  panicked,              \* the process has ended in a nil dereference
  emitted,               \* what the consumer was given last
  sample                 \* history: the counters it was made of

once == <<startOnce, stopOnce>>
vars == <<os, once, monitor, goroutine, stopCh, tick, panicked, emitted, sample>>

Init ==
  /\ os \in OS
  /\ startOnce = FALSE /\ stopOnce = FALSE /\ monitor = "nil" /\ goroutine = "none"
  /\ stopCh = "open" /\ tick = FALSE /\ panicked = FALSE
  /\ emitted = <<>> /\ sample = <<>>

-----------------------------------------------------------------------------
(* The gauges *)

\* Unsigned subtraction, and the conversion to int64.
Minus(a, b) == IF a >= b THEN a - b ELSE a - b + 2 * HalfWord
Int64(n)    == IF n < HalfWord THEN n ELSE n - 2 * HalfWord

Gauge(name, type, kind, n) ==
  [descriptor |-> [name |-> name, type |-> type],
   timeseries |-> << << [kind |-> kind, n |-> n, timestamp |-> "now"] >> >>]

Bytes(name, n) == Gauge(name, "GAUGE_INT64", "int64", Int64(n))

WindowsMetrics(m)    == <<Bytes("memory.available", m["Available"])>>
NonWindowsMetrics(m) == <<Bytes("memory.free", m["Free"])>>
DarwinMetrics(m) == <<Bytes("memory.active", m["Active"]), Bytes("memory.inactive", m["Inactive"]),
                      Bytes("memory.wired", m["Wired"])>>

\* MUTANT of LinuxMetrics: the difference is not allowed to be negative.
LinuxMetricsClamped(m) ==
  LET Less(a, b) == IF a >= b THEN a - b ELSE 0 IN
  <<Bytes("memory.buffered", m["Buffers"]),
    Bytes("memory.cached", Less(m["Cached"], m["SReclaimable"])),
    Bytes("memory.slab_reclaimable", m["SReclaimable"]),
    Bytes("memory.slab_unreclaimable", Less(m["Slab"], m["SReclaimable"]))>>

LinuxMetrics(m) ==
  <<Bytes("memory.buffered", m["Buffers"]),
    Bytes("memory.cached", Minus(m["Cached"], m["SReclaimable"])),
    Bytes("memory.slab_reclaimable", m["SReclaimable"]),
    Bytes("memory.slab_unreclaimable", Minus(m["Slab"], m["SReclaimable"]))>>

\* The metrics of scrapeAndEmit
Metrics(m) ==
  <<Gauge("memory.utilization", "GAUGE_DOUBLE", "double", m["UsedPercent"]),
    Bytes("memory.used", m["Used"])>>
  \o (IF os = "windows" THEN WindowsMetrics(m) ELSE NonWindowsMetrics(m))
  \o (IF os = "darwin" THEN DarwinMetrics(m) ELSE <<>>)
  \o (IF os = "linux" THEN LinuxMetrics(m) ELSE <<>>)

-----------------------------------------------------------------------------
(* Start and Shutdown, each under the mutex; a second call does nothing. *)

\* When no resource can be detected, Start fails and is spent.
Start ==
  /\ ~panicked /\ ~startOnce /\ startOnce' = TRUE
  /\ \/ UNCHANGED <<monitor, goroutine>>
     \/ monitor' = "made" /\ goroutine' = "select"
  /\ UNCHANGED <<os, stopOnce, stopCh, tick, panicked, emitted, sample>>

\* stop dereferences the monitor.
Shutdown ==
  /\ ~panicked /\ ~stopOnce /\ stopOnce' = TRUE
  /\ \/ monitor = "nil" /\ panicked' = TRUE /\ UNCHANGED stopCh
     \/ monitor = "made" /\ stopCh' = "closed" /\ UNCHANGED panicked
  /\ UNCHANGED <<os, startOnce, monitor, goroutine, tick, emitted, sample>>

\* The ticker; a tick is dropped while one is waiting.  Nobody stops it.
Tick ==
  /\ monitor = "made" /\ ~panicked /\ ~tick
  /\ tick' = TRUE
  /\ UNCHANGED <<os, once, monitor, goroutine, stopCh, panicked, emitted, sample>>

-----------------------------------------------------------------------------
(* The goroutine.  When both cases are ready select takes either. *)

TakeTick ==
  /\ goroutine = "select" /\ tick
  /\ goroutine' = "scraping" /\ tick' = FALSE
  /\ UNCHANGED <<os, once, monitor, stopCh, panicked, emitted, sample>>

\* MUTANT of TakeStop: the channel is only looked at when no tick is waiting.
TakeStopQuiet ==
  /\ goroutine = "select" /\ stopCh = "closed" /\ ~tick
  /\ goroutine' = "gone"
  /\ UNCHANGED <<os, once, monitor, stopCh, tick, panicked, emitted, sample>>

TakeStop ==
  /\ goroutine = "select" /\ stopCh = "closed"
  /\ goroutine' = "gone"
  /\ UNCHANGED <<os, once, monitor, stopCh, tick, panicked, emitted, sample>>

\* scrapeAndEmit: nothing is passed on when the counters cannot be read, and what the
\* consumer answers is not looked at.
ScrapeAndEmit ==
  /\ goroutine = "scraping" /\ goroutine' = "select"
  /\ \/ UNCHANGED <<emitted, sample>>
     \/ \E m \in Sample : emitted' = Metrics(m) /\ sample' = m
  /\ UNCHANGED <<os, once, monitor, stopCh, tick, panicked>>

Loop == TakeTick \/ TakeStop \/ ScrapeAndEmit
Next == Start \/ Shutdown \/ Tick \/ Loop

\* The goroutine is scheduled, and select is fair to the channel that stays ready.
Fairness == WF_vars(Loop) /\ SF_vars(TakeStop)
Spec == Init /\ [][Next]_vars /\ Fairness

-----------------------------------------------------------------------------
\* The types; the goroutine runs for a monitor, and the channel is closed by Shutdown.
TypeOK ==
  /\ os \in OS /\ {startOnce, stopOnce, tick, panicked} \subseteq BOOLEAN
  /\ monitor \in {"nil", "made"} /\ goroutine \in {"none", "select", "scraping", "gone"}
  /\ stopCh \in {"open", "closed"}
  /\ emitted = <<>> \/ sample \in Sample
  /\ goroutine = "none" <=> monitor = "nil"
  /\ stopCh = "closed" => stopOnce /\ monitor = "made"

\* On Linux the cached and the unreclaimable bytes are the true differences of what was
\* sampled, negative when the counters were sampled around a change: the wrap around of the
\* unsigned subtraction is undone by the conversion (monitor.go:158, monitor.go:166).
GaugesExact ==
  emitted # <<>> /\ os = "linux" =>
    /\ emitted[5].timeseries[1][1].n = sample["Cached"] - sample["SReclaimable"]
    /\ emitted[7].timeseries[1][1].n = sample["Slab"] - sample["SReclaimable"]

\* After a Shutdown of a monitor that runs, the goroutine ends, whatever tick is waiting.
MonitorQuits == stopCh = "closed" ~> goroutine = "gone"
=============================================================================
