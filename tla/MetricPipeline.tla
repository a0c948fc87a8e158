--------------------------- MODULE MetricPipeline ---------------------------
(***************************************************************************)
(* Metrics on their way to SignalFx: what the memory monitor emits, or     *)
(* what another receiver does, is given to the translator.                 *)
(***************************************************************************)
EXTENDS MemoryMonitor, SignalFxTranslator, FiniteSets

CONSTANTS
  MetricName, Time,
  Foreign            \* batches of metrics of other receivers

MonitorNames == {"memory.utilization", "memory.used", "memory.available", "memory.free",
                 "memory.active", "memory.inactive", "memory.wired", "memory.buffered",
                 "memory.cached", "memory.slab_reclaimable", "memory.slab_unreclaimable"}

\* What the protocol lets a receiver emit.  A point may lack its value.
DescriptorTypes == Doubles \cup Int64s
                   \cup {"UNSPECIFIED", "GAUGE_DISTRIBUTION", "CUMULATIVE_DISTRIBUTION", "SUMMARY"}
PointValue == {pt \in [kind : {"int64", "double", "distribution", "summary", "none"}, n : Int,
                       timestamp : Time \cup {"nil", "invalid"}] : pt.kind = "none" => pt.n = 0}
Metric == [descriptor : [name : MetricName, type : DescriptorTypes] \cup {NoDescriptor},
           timeseries : Seq(Seq(PointValue))]

ASSUME ForeignAreMetrics ==
  MonitorNames \subseteq MetricName /\ "now" \in Time /\ Foreign \subseteq Seq(Metric)

VARIABLES received,   \* what the translator is given
          foreign     \* by another receiver

PipelineInit ==
  /\ Init
  /\ \/ foreign = FALSE /\ received = <<>>
     \/ foreign = TRUE /\ received \in Foreign
PipelineNext == Next /\ ~foreign /\ UNCHANGED foreign /\ received' = emitted'
PipelineSpec == PipelineInit /\ [][PipelineNext]_<<vars, received, foreign>> /\ Fairness

\* Every point of a metric with a descriptor becomes one datapoint, in the order of the
\* metrics, their time series and their points, and carries the point's number if the point
\* has the type its metric promises.
PointsTranslated ==
  LET dps    == OCProtoToSignalFx(received)
      places == Places(received)
      Index(p) == Cardinality({q \in places : Before(q, p)}) + 1
      Promised(d) == IF d.type \in Doubles THEN "double"
                     ELSE IF d.type \in Int64s THEN "int64" ELSE "none"
  IN /\ Len(dps) = Cardinality(places)
     /\ \A p \in places :
          LET dp == dps[Index(p)]
              d  == received[p[1]].descriptor
              pt == Point(received, p)
          IN /\ dp.Metric = d.name /\ dp.Value.kind = Promised(d)
             /\ dp.Value.n = IF pt.kind = Promised(d) THEN pt.n ELSE 0
             /\ dp.MetricType = "counter" <=> d.type \in Cumulatives
             /\ dp.Timestamp = pt.timestamp \/ dp.Timestamp = "zero"
=============================================================================
