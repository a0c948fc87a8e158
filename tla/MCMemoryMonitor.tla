--------------------------- MODULE MCMemoryMonitor ---------------------------
(***************************************************************************)
(* The memory monitor with words of three bits, and the translation to     *)
(* datapoints of what it emits and of what other receivers may emit.       *)
(***************************************************************************)
EXTENDS MetricPipeline

\* The counters of the two differences vary; each of the others has a value of its own.
MCSample ==
  LET fixed == [UsedPercent |-> 3, Used |-> 2, Available |-> 1, Free |-> 0, Active |-> 3,
                Inactive |-> 2, Wired |-> 1, Buffers |-> 3]
  IN {[c \in Counter |-> IF c \in DOMAIN fixed THEN fixed[c] ELSE v[c]] :
        v \in [{"Cached", "SReclaimable", "Slab"} -> 0..3]}

MCMetricName == MonitorNames \cup {"m"}
MCTime == {"now", "then"}

\* Metrics of other receivers: of each type, without descriptor, with points of another
\* type than the descriptor's or without a time, with several time series and points.
MCForeign ==
  LET pt(kind, n, t) == [kind |-> kind, n |-> n, timestamp |-> t]
      series == {<<>>,
                 << <<pt("int64", 1, "now"), pt("double", 2, "nil")>>, <<>>,
                    <<pt("distribution", 0, "now"), pt("none", 0, "now")>> >>,
                 << <<pt("double", 3, "invalid")>>, <<pt("int64", 2, "then")>> >>}
      metric(d, ts) == [descriptor |-> d, timeseries |-> ts]
      described == {[name |-> "m", type |-> t] :
                      t \in Doubles \cup Int64s \cup {"GAUGE_DISTRIBUTION"}}
      metrics == {metric(d, ts) : d \in described \cup {NoDescriptor}, ts \in series}
  IN {<<a, b>> : a, b \in metrics} \cup {<<>>}
=============================================================================
