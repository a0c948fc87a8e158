---------------------------- MODULE ShardEncoder ----------------------------
(***************************************************************************)
(* One shardEncoder of the Omnishard exporter                              *)
(* (exporter/omnishard/shard_encoder.go): the batch of spans of one shard, *)
(* filled by the encoder's workers, flushed when it is full, periodically, *)
(* and when the encoder drains or stops.                                   *)
(*                                                                         *)
(* Processes: the workers call Encode; the flusher is the goroutine of     *)
(* flushPeriodically; a drainer is the goroutine flushShardEncoders starts *)
(* to call Flush; a stopper is a caller of Stop (processConfigChanges and  *)
(* encoder.Stop both call it).  A span is one call of Encode.  A callback  *)
(* is a step of its own, taken after the mutex was released, because any   *)
(* other process may run between the two.                                  *)
(***************************************************************************)
EXTENDS Integers, FiniteSetsExt

CONSTANTS
  Span,                   \* the spans submitted to this shard
  Worker, Drainer,        \* goroutines that call Encode and Flush
  Stopper,                \* goroutines that call Stop
  Flusher,                \* the goroutine of flushPeriodically
  NoProc,                 \* "the mutex is free"
  MaxRecordSize,          \* se.maxRecordSize
  MaxAllowedSizePerSpan,  \* se.maxAllowedSizePerSpan
  Size,                   \* encoded size of a span as submitted
  CutSize,                \* ... and once its tags and logs are replaced
  Unmarshalable           \* spans that proto.Marshal refuses

Proc == Worker \cup Drainer \cup Stopper \cup {Flusher}

\* Processes that call Flush.
FlushCaller == Worker \cup Drainer \cup {Flusher}

ASSUME ProcessesAreDistinct ==
  /\ Worker \cap Drainer = {} /\ Worker \cap Stopper = {} /\ Drainer \cap Stopper = {}
  /\ Flusher \notin Worker \cup Drainer \cup Stopper
  /\ NoProc \notin Proc
  /\ IsFiniteSet(Worker)

\* newEncoder replaces a zero option by its default, so both limits are positive.
ASSUME SizesAreSane ==
  /\ MaxRecordSize \in Nat \ {0}
  /\ MaxAllowedSizePerSpan \in Nat \ {0}
  /\ Size \in [Span -> Nat]
  /\ CutSize \in [Span -> Nat]
  /\ Unmarshalable \subseteq Span

VARIABLES
  stopped,          \* se.stopped
  done,             \* se.done is closed
  spans,            \* se.spans: accumulated, not yet flushed
  accumulatedSize,  \* se.accumulatedSize
  lock,             \* holder of the embedded mutex
  pc,               \* where each goroutine is
  taken,            \* what a goroutine holds in its locals: spans and their bytes
  exiting,          \* the flusher took the done branch of its select
  offered,          \* history: spans passed to Encode
  records,          \* history: batches passed to onRecordReady
  returned,         \* history: spans passed to onSpanProcessFail(ErrEncoderStopped)
  failed            \* history: spans passed to onSpanProcessFail(ErrEncodingFailed)

batchVars == <<spans, accumulatedSize>>
stopVars  == <<stopped, done>>
outcomes  == <<records, returned, failed>>
vars == <<stopVars, batchVars, lock, pc, taken, exiting, offered, outcomes>>

Batch(S, n) == [spans |-> S, bytes |-> n]
Nothing     == Batch({}, 0)

Goto(p, label) == pc' = [pc EXCEPT ![p] = label]

-----------------------------------------------------------------------------
\* tryEncodeSpan: an oversized span is cut once; it is accepted if it then fits.
EncodedSize(s) == IF Size[s] > MaxAllowedSizePerSpan THEN CutSize[s] ELSE Size[s]

Encodable(s) == s \notin Unmarshalable /\ EncodedSize(s) <= MaxAllowedSizePerSpan

\* newShardEncoder and Start.
Init ==
  /\ stopped = FALSE /\ done = FALSE
  /\ spans = {} /\ accumulatedSize = 0
  /\ lock = NoProc
  /\ pc = [p \in Proc |-> IF p = Flusher THEN "select"
                          ELSE IF p \in Worker THEN "idle" ELSE "ready"]
  /\ taken = [p \in Proc |-> Nothing]
  /\ exiting = FALSE
  /\ offered = {} /\ records = {} /\ returned = {} /\ failed = {}

\* MUTANT of ClearAccumulated: the size is lowered by one record, not reset.
ClearAccumulatedKeepsExcess ==
  /\ spans' = {}
  /\ accumulatedSize' = accumulatedSize - MaxRecordSize

ClearAccumulated == spans' = {} /\ accumulatedSize' = 0

\* MUTANT of TakeAccumulated: the batch is handed out but not cleared.
TakeAccumulatedNoClear(p) ==
  /\ taken' = [taken EXCEPT ![p] = Batch(spans, accumulatedSize)]
  /\ UNCHANGED batchVars

\* The batch moves to a local of p (`spans := se.spans.Spans; se.clearAccumulated()`).
TakeAccumulated(p) ==
  /\ taken' = [taken EXCEPT ![p] = Batch(spans, accumulatedSize)]
  /\ ClearAccumulated

-----------------------------------------------------------------------------
(* Encode, called by a worker *)

\* MUTANT of Encode: the size counted is the one before the span was cut.
EncodeOriginalSize(w, s) ==
  /\ pc[w] = "idle"
  /\ s \notin offered
  /\ offered' = offered \cup {s}
  /\ taken' = [taken EXCEPT ![w] = Batch({s}, Size[s])]
  /\ Goto(w, IF Encodable(s) THEN "accumulate" ELSE "fail")
  /\ UNCHANGED <<stopVars, batchVars, lock, exiting, outcomes>>

\* tryEncodeSpan has run: the span goes on to the batch or to the failure callback.
Encode(w, s) ==
  /\ pc[w] = "idle"
  /\ s \notin offered
  /\ offered' = offered \cup {s}
  /\ taken' = [taken EXCEPT ![w] = Batch({s}, EncodedSize(s))]
  /\ Goto(w, IF Encodable(s) THEN "accumulate" ELSE "fail")
  /\ UNCHANGED <<stopVars, batchVars, lock, exiting, outcomes>>

\* MUTANT of AccumulateBegin: the stopped flag is not looked at again under the mutex.
AccumulateBeginUnchecked(w) ==
  /\ pc[w] = "accumulate" /\ lock = NoProc
  /\ lock' = w
  /\ Goto(w, "append")
  /\ UNCHANGED <<stopVars, batchVars, taken, exiting, offered, outcomes>>

\* accumulateEncodedSpan takes the mutex and looks at the stopped flag.
AccumulateBegin(w) ==
  /\ pc[w] = "accumulate" /\ lock = NoProc
  /\ \/ stopped /\ Goto(w, "return") /\ UNCHANGED lock
     \/ ~stopped /\ Goto(w, "append") /\ lock' = w
  /\ UNCHANGED <<stopVars, batchVars, taken, exiting, offered, outcomes>>

\* MUTANT of Append: a batch of exactly MaxRecordSize is not flushed.
AppendFlushAbove(w) ==
  /\ pc[w] = "append"
  /\ spans' = spans \cup taken[w].spans
  /\ accumulatedSize' = accumulatedSize + taken[w].bytes
  /\ taken' = [taken EXCEPT ![w] = Nothing]
  /\ lock' = NoProc
  /\ Goto(w, IF accumulatedSize' > MaxRecordSize THEN "flush" ELSE "idle")
  /\ UNCHANGED <<stopVars, exiting, offered, outcomes>>

\* ... appends the span, decides needFlush and releases the mutex.
Append(w) ==
  /\ pc[w] = "append"
  /\ spans' = spans \cup taken[w].spans
  /\ accumulatedSize' = accumulatedSize + taken[w].bytes
  /\ taken' = [taken EXCEPT ![w] = Nothing]
  /\ lock' = NoProc
  /\ Goto(w, IF accumulatedSize' >= MaxRecordSize THEN "flush" ELSE "idle")
  /\ UNCHANGED <<stopVars, exiting, offered, outcomes>>

-----------------------------------------------------------------------------
(* The flusher goroutine and flushShardEncoders *)

\* case <-ticker.C
Tick ==
  /\ pc[Flusher] = "select"
  /\ Goto(Flusher, "flush")
  /\ UNCHANGED <<stopVars, batchVars, lock, taken, exiting, offered, outcomes>>

\* MUTANT of SeeDone: the flusher leaves without the last Flush.
SeeDoneNoFlush ==
  /\ pc[Flusher] = "select" /\ done
  /\ exiting' = TRUE
  /\ Goto(Flusher, "finished")
  /\ UNCHANGED <<stopVars, batchVars, lock, taken, offered, outcomes>>

\* case <-se.done
SeeDone ==
  /\ pc[Flusher] = "select" /\ done
  /\ exiting' = TRUE
  /\ Goto(Flusher, "flush")
  /\ UNCHANGED <<stopVars, batchVars, lock, taken, offered, outcomes>>

\* A goroutine of flushShardEncoders starts.
Drain(d) ==
  /\ pc[d] = "ready"
  /\ Goto(d, "flush")
  /\ UNCHANGED <<stopVars, batchVars, lock, taken, exiting, offered, outcomes>>

-----------------------------------------------------------------------------
(* Flush, called by a worker, the flusher or a drainer *)

\* Where the caller of Flush continues.
AfterFlush(p) ==
  IF p \in Worker THEN "idle"
  ELSE IF p = Flusher /\ ~exiting THEN "select"
  ELSE "finished"

\* Under the mutex: nothing to do, or stopped, or go on to marshal.
FlushBegin(p) ==
  /\ pc[p] = "flush" /\ lock = NoProc
  /\ \/ /\ spans = {}
        /\ Goto(p, AfterFlush(p))
        /\ UNCHANGED <<lock, batchVars, taken>>
     \/ /\ spans # {} /\ stopped
        /\ TakeAccumulated(p)
        /\ Goto(p, "return")
        /\ UNCHANGED lock
     \/ /\ spans # {} /\ ~stopped
        /\ lock' = p
        /\ Goto(p, "marshal")
        /\ UNCHANGED <<batchVars, taken>>
  /\ UNCHANGED <<stopVars, exiting, offered, outcomes>>

\* Marshal and compress succeed, or one of them fails; the mutex is released.
FlushSeal(p) ==
  /\ pc[p] = "marshal"
  /\ TakeAccumulated(p)
  /\ lock' = NoProc
  /\ Goto(p, "emit") \/ Goto(p, "fail")
  /\ UNCHANGED <<stopVars, exiting, offered, outcomes>>

\* se.onRecordReady(record, originalSpans, &se.shard)
EmitRecord(p) ==
  /\ pc[p] = "emit"
  /\ records' = records \cup {taken[p]}
  /\ taken' = [taken EXCEPT ![p] = Nothing]
  /\ Goto(p, AfterFlush(p))
  /\ UNCHANGED <<stopVars, batchVars, lock, exiting, offered, returned, failed>>

\* se.onSpanProcessFail(spans, ErrEncoderStopped)
GiveBack(p) ==
  /\ pc[p] = "return"
  /\ returned' = returned \cup taken[p].spans
  /\ taken' = [taken EXCEPT ![p] = Nothing]
  /\ Goto(p, AfterFlush(p))
  /\ UNCHANGED <<stopVars, batchVars, lock, exiting, offered, records, failed>>

\* se.onSpanProcessFail(spans, ErrEncodingFailed)
Fail(p) ==
  /\ pc[p] = "fail"
  /\ failed' = failed \cup taken[p].spans
  /\ taken' = [taken EXCEPT ![p] = Nothing]
  /\ Goto(p, AfterFlush(p))
  /\ UNCHANGED <<stopVars, batchVars, lock, exiting, offered, records, returned>>

-----------------------------------------------------------------------------
(* Stop *)

\* MUTANT of SignalStop: an unconditional store in place of compare-and-swap.
SignalStopStore(k) ==
  /\ pc[k] = "ready"
  /\ stopped' = TRUE
  /\ Goto(k, "close")
  /\ UNCHANGED <<done, batchVars, lock, taken, exiting, offered, outcomes>>

\* atomic.CompareAndSwapUint32(&se.stopped, 0, 1)
SignalStop(k) ==
  /\ pc[k] = "ready"
  /\ stopped' = TRUE
  /\ Goto(k, IF stopped THEN "finished" ELSE "close")
  /\ UNCHANGED <<done, batchVars, lock, taken, exiting, offered, outcomes>>

\* close(se.done): a second close would panic.
CloseDone(k) ==
  /\ pc[k] = "close"
  /\ done' = TRUE
  /\ Goto(k, "finished")
  /\ UNCHANGED <<stopped, batchVars, lock, taken, exiting, offered, outcomes>>

-----------------------------------------------------------------------------
EncodeStep(w) == AccumulateBegin(w) \/ Append(w)

FlushStep(p) == FlushBegin(p) \/ FlushSeal(p) \/ EmitRecord(p) \/ GiveBack(p) \/ Fail(p)

Next ==
  \/ \E w \in Worker : EncodeStep(w) \/ \E s \in Span : Encode(w, s)
  \/ \E p \in FlushCaller : FlushStep(p)
  \/ Tick
  \/ SeeDone
  \/ \E d \in Drainer : Drain(d)
  \/ \E k \in Stopper : SignalStop(k) \/ CloseDone(k)

Spec == Init /\ [][Next]_vars

(***************************************************************************)
(* A started call runs on: its own steps are weakly fair, and acquiring    *)
(* the mutex is strongly fair, Go's mutex being starvation free.  The      *)
(* ticker keeps ticking, and a select with two ready cases picks among     *)
(* them at random, so a closed done channel is not ignored for ever        *)
(* (strong fairness of SeeDone).  Nobody is obliged to call Encode or      *)
(* Stop.                                                                   *)
(***************************************************************************)
Fairness ==
  /\ \A p \in Worker : SF_vars(EncodeStep(p) \/ FlushStep(p))
  /\ \A p \in Drainer \cup {Flusher} : SF_vars(FlushStep(p))
  /\ WF_vars(Tick)
  /\ SF_vars(SeeDone)
  /\ WF_vars(\E k \in Stopper : CloseDone(k))

FairSpec == Spec /\ Fairness

-----------------------------------------------------------------------------
Emitted == UNION {r.spans : r \in records}
InHand  == UNION {taken[p].spans : p \in Proc}
Settled == Emitted \cup returned \cup failed

\* Every variable keeps its type; in particular accumulatedSize, a uint in the
\* code, is never driven below zero.
TypeOK ==
  /\ stopped \in BOOLEAN /\ done \in BOOLEAN /\ exiting \in BOOLEAN
  /\ spans \subseteq Span
  /\ accumulatedSize \in Nat
  /\ lock \in FlushCaller \cup {NoProc}
  /\ pc \in [Proc -> {"idle", "accumulate", "append", "select", "ready", "flush",
                      "marshal", "emit", "return", "fail", "close", "finished"}]
  /\ taken \in [Proc -> [spans : SUBSET Span, bytes : Nat]]
  /\ offered \subseteq Span
  /\ records \subseteq [spans : SUBSET Span, bytes : Nat]
  /\ returned \subseteq Span /\ failed \subseteq Span

\* "No spans will be lost even during stopping" (comment of Stop), and none is
\* delivered twice: a span passed to Encode is in exactly one place, the batch, the
\* locals of one goroutine, one emitted record, or one of the failure callbacks.
SpanAccounting ==
  /\ offered = spans \cup InHand \cup Settled
  /\ spans \cap (InHand \cup Settled) = {}
  /\ InHand \cap Settled = {}
  /\ \A p, q \in Proc : p # q => taken[p].spans \cap taken[q].spans = {}
  /\ \A r1, r2 \in records : r1 # r2 => r1.spans \cap r2.spans = {}
  /\ Emitted \cap (returned \cup failed) = {}
  /\ returned \cap failed = {}

\* Once the goroutine of flushPeriodically has gone nobody would ever flush the batch
\* again: it is empty, and no worker is past the stopped check and about to append.
NothingStranded ==
  pc[Flusher] = "finished" => /\ spans = {}
                              /\ \A w \in Worker : pc[w] # "append"

\* Workers between "the batch is full" and the end of the flush they owe.
Overdue == {w \in Worker : pc[w] \in {"flush", "marshal"}}

\* The mutex is released between the append that fills the batch and the Flush that
\* empties it, so a record exceeds MaxRecordSize, but by less than one span of the
\* largest size per worker.
RecordSizeBound ==
  /\ accumulatedSize < MaxRecordSize + Cardinality(Overdue) * MaxAllowedSizePerSpan
  /\ \A r \in records :
       r.bytes < MaxRecordSize + Cardinality(Worker) * MaxAllowedSizePerSpan

\* The size kept beside the batch is the sum of the encoded sizes of its spans, in the
\* batch and in whatever was taken from it (append and clearAccumulated move in step).
SizeMatchesBatch ==
  LET Total(S) == MapThenSumSet(EncodedSize, S) IN
  /\ lock = NoProc => accumulatedSize = Total(spans)
  /\ \A p \in Proc : taken[p].bytes = Total(taken[p].spans)
  /\ \A r \in records : r.bytes = Total(r.spans)

\* close(se.done) is never reached with the channel already closed (it would panic).
CloseOnce == \A k \in Stopper : pc[k] = "close" => ~done

\* The promise of SpanLedger, with the two failure callbacks taken as one.
Ledger == INSTANCE SpanLedger WITH
  pending <- offered \ Settled, emitted <- Emitted, returned <- returned \cup failed

\* A span passed to Encode leaves in exactly one way and never comes back.
LedgerSafety == Ledger!Safety

\* Every span passed to Encode is eventually emitted or given back, whether the
\* encoder is stopped or not and whoever stops it when.
LedgerSettles == Ledger!Settles
=============================================================================
