------------------------- MODULE SignalFxTranslator -------------------------
(***************************************************************************)
(* The translation of OpenCensus metrics to SignalFx datapoints            *)
(* (translator/metric/signalfx).  A metric is a descriptor and its time    *)
(* series, a time series is its points.  Labels, node and resource of a    *)
(* metric do not reach the datapoints.                                     *)
(***************************************************************************)
EXTENDS Integers, Sequences, SequencesExt

NoDescriptor == [name |-> "none", type |-> "none"]
Doubles     == {"CUMULATIVE_DOUBLE", "GAUGE_DOUBLE"}
Int64s      == {"CUMULATIVE_INT64", "GAUGE_INT64"}
Cumulatives == {"CUMULATIVE_DOUBLE", "CUMULATIVE_INT64"}

\* MUTANT of Value: the kind of the value decides, not the type of the descriptor.
ValueOfPoint(descriptor, pt) == [kind |-> pt.kind, n |-> pt.n]

\* The getter of the descriptor's type, which returns zero for a point of another type.
\* A distribution or a summary gives no value.
Value(descriptor, pt) ==
  LET Get(kind) == [kind |-> kind, n |-> IF pt.kind = kind THEN pt.n ELSE 0] IN
  IF descriptor.type \in Doubles THEN Get("double")
  ELSE IF descriptor.type \in Int64s THEN Get("int64")
  ELSE [kind |-> "none", n |-> 0]

\* A type that is not set is a gauge, the first of the types.
MetricType(descriptor) == IF descriptor.type \in Cumulatives THEN "counter" ELSE "gauge"

\* A missing or invalid timestamp leaves the zero time.
Timestamp(pt) == IF pt.timestamp \in {"nil", "invalid"} THEN "zero" ELSE pt.timestamp

\* One datapoint of translateAndAppend
Datapoint(descriptor, pt) ==
  [Metric |-> descriptor.name, Timestamp |-> Timestamp(pt), Value |-> Value(descriptor, pt),
   MetricType |-> MetricType(descriptor)]

\* The points of all the time series become datapoints, unless there is no descriptor.
translate(metric) ==
  IF metric.descriptor = NoDescriptor THEN <<>>
  ELSE LET points == FlattenSeq(metric.timeseries)
       IN [i \in DOMAIN points |-> Datapoint(metric.descriptor, points[i])]

OCProtoToSignalFx(metrics) == FlattenSeq([i \in DOMAIN metrics |-> translate(metrics[i])])

-----------------------------------------------------------------------------
(* The reference: where the points of the metrics are, and in which order. *)

Places(metrics) ==
  UNION {UNION {{<<i, j, k>> : k \in DOMAIN metrics[i].timeseries[j]}
                : j \in DOMAIN metrics[i].timeseries}
         : i \in {m \in DOMAIN metrics : metrics[m].descriptor # NoDescriptor}}

Before(p, q) == \/ p[1] < q[1]
                \/ p[1] = q[1] /\ p[2] < q[2]
                \/ p[1] = q[1] /\ p[2] = q[2] /\ p[3] < q[3]

Point(metrics, p) == metrics[p[1]].timeseries[p[2]][p[3]]
=============================================================================
