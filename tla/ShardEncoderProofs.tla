------------------------- MODULE ShardEncoderProofs -------------------------
(***************************************************************************)
(* Proofs about ShardEncoder for any number of workers, drainers, stoppers *)
(* and spans and any sizes.  The inductive invariant has three layers:     *)
(* the types, the control state (who holds the mutex, who holds spans,     *)
(* what is left to do once the encoder is stopped), and on top of them the *)
(* accounting of spans and of bytes.                                       *)
(***************************************************************************)
EXTENDS ShardEncoder, FiniteSetTheorems, WellFoundedInduction, TLAPS

-----------------------------------------------------------------------------
(* Types *)

LEMMA EncodedSizeType == ASSUME NEW s \in Span PROVE EncodedSize(s) \in Nat
BY SizesAreSane DEF EncodedSize

LEMMA TypeInit == Init => TypeOK
<1> SUFFICES ASSUME Init PROVE TypeOK
  OBVIOUS
<1>1. taken \in [Proc -> [spans : SUBSET Span, bytes : Nat]]
  <2>1. Nothing \in [spans : SUBSET Span, bytes : Nat]
    BY DEF Nothing, Batch
  <2> QED BY <2>1 DEF Init
<1>2. pc \in [Proc -> {"idle", "select", "ready"}]
  BY DEF Init
<1> QED BY <1>1, <1>2 DEF Init, TypeOK

LEMMA TypeStep == TypeOK /\ [Next]_vars => TypeOK'
<1> SUFFICES ASSUME TypeOK, [Next]_vars PROVE TypeOK'
  OBVIOUS
<1> USE DEF TypeOK, Goto, Nothing, Batch, vars, stopVars, batchVars, outcomes
<1>1. ASSUME NEW w \in Worker, NEW s \in Span, Encode(w, s) PROVE TypeOK'
  BY <1>1, EncodedSizeType DEF Encode, Proc
<1>2. ASSUME NEW w \in Worker, AccumulateBegin(w) PROVE TypeOK'
  BY <1>2 DEF AccumulateBegin, FlushCaller, Proc
<1>3. ASSUME NEW w \in Worker, Append(w) PROVE TypeOK'
  BY <1>3 DEF Append, Proc
<1>4. ASSUME NEW p \in FlushCaller, FlushBegin(p) PROVE TypeOK'
  BY <1>4 DEF FlushBegin, TakeAccumulated, ClearAccumulated, AfterFlush, FlushCaller, Proc
<1>5. ASSUME NEW p \in FlushCaller, FlushSeal(p) PROVE TypeOK'
  BY <1>5 DEF FlushSeal, TakeAccumulated, ClearAccumulated, FlushCaller, Proc
<1>6. ASSUME NEW p \in FlushCaller, EmitRecord(p) PROVE TypeOK'
  BY <1>6 DEF EmitRecord, AfterFlush, FlushCaller, Proc
<1>7. ASSUME NEW p \in FlushCaller, GiveBack(p) PROVE TypeOK'
  BY <1>7 DEF GiveBack, AfterFlush, FlushCaller, Proc
<1>8. ASSUME NEW p \in FlushCaller, Fail(p) PROVE TypeOK'
  BY <1>8 DEF Fail, AfterFlush, FlushCaller, Proc
<1>9. CASE Tick BY <1>9 DEF Tick, Proc
<1>10. CASE SeeDone BY <1>10 DEF SeeDone, Proc
<1>11. ASSUME NEW d \in Drainer, Drain(d) PROVE TypeOK'
  BY <1>11 DEF Drain, Proc
<1>12. ASSUME NEW k \in Stopper, SignalStop(k) PROVE TypeOK'
  BY <1>12 DEF SignalStop, Proc
<1>13. ASSUME NEW k \in Stopper, CloseDone(k) PROVE TypeOK'
  BY <1>13 DEF CloseDone, Proc
<1>14. CASE UNCHANGED vars BY <1>14
<1> QED
  BY <1>1, <1>2, <1>3, <1>4, <1>5, <1>6, <1>7, <1>8, <1>9, <1>10, <1>11, <1>12, <1>13, <1>14
  DEF Next, EncodeStep, FlushStep

\* Every variable keeps its type; accumulatedSize never underflows.
THEOREM Typing == Spec => []TypeOK
BY TypeInit, TypeStep, PTL DEF Spec
-----------------------------------------------------------------------------
(* Control: the mutex, the roles, who holds spans, and stopping *)

\* The mutex is held exactly by the goroutine that is appending or marshalling.
LockInv == \A p \in Proc : pc[p] \in {"append", "marshal"} <=> lock = p

\* Each kind of goroutine stays in its own code.
RolesInv ==
  /\ \A w \in Worker : pc[w] \in {"idle", "accumulate", "append", "flush", "marshal",
                                  "emit", "return", "fail"}
  /\ \A d \in Drainer : pc[d] \in {"ready", "flush", "marshal", "emit", "return",
                                   "fail", "finished"}
  /\ pc[Flusher] \in {"select", "flush", "marshal", "emit", "return", "fail", "finished"}
  /\ \A k \in Stopper : pc[k] \in {"ready", "close", "finished"}

\* Only these labels hold spans.
Holding == {"accumulate", "append", "emit", "return", "fail"}
HandsInv == \A p \in Proc : pc[p] \notin Holding => taken[p] = Nothing

\* The flag is raised before the channel is closed, by one stopper only.
StopInv ==
  /\ exiting => done
  /\ done => stopped
  /\ \A k \in Stopper : pc[k] = "close" => stopped /\ ~done
  /\ \A j, k \in Stopper : pc[j] = "close" /\ pc[k] = "close" => j = k

\* The last Flush of the flusher finds the encoder stopped, takes what is there, and
\* from then on no worker can get past the stopped check.
ExitInv ==
  /\ exiting => pc[Flusher] \in {"flush", "return", "finished"}
  /\ pc[Flusher] = "finished" => exiting
  /\ exiting /\ pc[Flusher] # "flush" =>
       spans = {} /\ \A w \in Worker : pc[w] # "append"

ControlInv == LockInv /\ RolesInv /\ HandsInv /\ StopInv /\ ExitInv

LEMMA ControlInit == Init => ControlInv
BY ProcessesAreDistinct
DEF Init, ControlInv, LockInv, RolesInv, HandsInv, Holding, StopInv, ExitInv, Proc

LEMMA ControlStep == TypeOK /\ ControlInv /\ [Next]_vars => ControlInv'
<1> SUFFICES ASSUME TypeOK, ControlInv, [Next]_vars PROVE ControlInv'
  OBVIOUS
<1> USE ProcessesAreDistinct DEF TypeOK, Goto, ControlInv, LockInv, RolesInv, HandsInv,
        Holding, StopInv, ExitInv, Proc, FlushCaller, stopVars, batchVars, outcomes
<1>1. ASSUME NEW w \in Worker, NEW s \in Span, Encode(w, s) PROVE ControlInv'
  BY <1>1 DEF Encode
<1>2. ASSUME NEW w \in Worker, AccumulateBegin(w) PROVE ControlInv'
  BY <1>2 DEF AccumulateBegin
<1>3. ASSUME NEW w \in Worker, Append(w) PROVE ControlInv'
  BY <1>3 DEF Append
<1>4. ASSUME NEW p \in FlushCaller, FlushBegin(p) PROVE ControlInv'
  BY <1>4 DEF FlushBegin, TakeAccumulated, ClearAccumulated, AfterFlush
<1>5. ASSUME NEW p \in FlushCaller, FlushSeal(p) PROVE ControlInv'
  BY <1>5 DEF FlushSeal, TakeAccumulated, ClearAccumulated
<1>6. ASSUME NEW p \in FlushCaller, EmitRecord(p) PROVE ControlInv'
  BY <1>6 DEF EmitRecord, AfterFlush
<1>7. ASSUME NEW p \in FlushCaller, GiveBack(p) PROVE ControlInv'
  BY <1>7 DEF GiveBack, AfterFlush
<1>8. ASSUME NEW p \in FlushCaller, Fail(p) PROVE ControlInv'
  BY <1>8 DEF Fail, AfterFlush
<1>9. CASE Tick BY <1>9 DEF Tick
<1>10. CASE SeeDone BY <1>10 DEF SeeDone
<1>11. ASSUME NEW d \in Drainer, Drain(d) PROVE ControlInv'
  BY <1>11 DEF Drain
<1>12. ASSUME NEW k \in Stopper, SignalStop(k) PROVE ControlInv'
  BY <1>12 DEF SignalStop
<1>13. ASSUME NEW k \in Stopper, CloseDone(k) PROVE ControlInv'
  BY <1>13 DEF CloseDone
<1>14. CASE UNCHANGED vars BY <1>14 DEF vars
<1> QED
  BY <1>1, <1>2, <1>3, <1>4, <1>5, <1>6, <1>7, <1>8, <1>9, <1>10, <1>11, <1>12, <1>13, <1>14
  DEF Next, EncodeStep, FlushStep

LEMMA Control == Spec => []ControlInv
BY ControlInit, ControlStep, Typing, PTL DEF Spec

\* Nothing is left in the batch, nor on its way to it, once the flusher has gone.
THEOREM NoSpanStranded == Spec => []NothingStranded
<1>1. ControlInv => NothingStranded
  BY DEF ControlInv, ExitInv, NothingStranded
<1> QED BY <1>1, Control, PTL

\* The done channel is closed at most once, however many goroutines call Stop.
THEOREM ClosedOnce == Spec => []CloseOnce
<1>1. ControlInv => CloseOnce
  BY DEF ControlInv, StopInv, CloseOnce
<1> QED BY <1>1, Control, PTL
-----------------------------------------------------------------------------
(* Accounting of spans *)

\* What every goroutine but p holds.
HeldByOthers(p) == UNION {taken[q].spans : q \in Proc \ {p}}

\* Spans move in and out of one goroutine's hands at a time.
LEMMA HandsSplit ==
  ASSUME NEW p \in Proc
  PROVE  /\ InHand = HeldByOthers(p) \cup taken[p].spans
         /\ (\A q, r \in Proc : q # r => taken[q].spans \cap taken[r].spans = {})
               => HeldByOthers(p) \cap taken[p].spans = {}
BY DEF InHand, HeldByOthers

LEMMA HandsUpdate ==
  ASSUME TypeOK, SpanAccounting, NEW p \in Proc, NEW b,
         taken' = [taken EXCEPT ![p] = b],
         b.spans \cap HeldByOthers(p) = {}
  PROVE  /\ InHand' = HeldByOthers(p) \cup b.spans
         /\ \A q, r \in Proc : q # r => taken'[q].spans \cap taken'[r].spans = {}
<1>1. taken'[p] = b /\ \A q \in Proc \ {p} : taken'[q] = taken[q]
  BY DEF TypeOK
<1>2. InHand' = HeldByOthers(p) \cup b.spans
  BY <1>1 DEF InHand, HeldByOthers
<1>3. \A q \in Proc \ {p} : taken[q].spans \subseteq HeldByOthers(p)
  BY DEF HeldByOthers
<1>4. \A q, r \in Proc : q # r => taken'[q].spans \cap taken'[r].spans = {}
  BY <1>1, <1>3 DEF SpanAccounting
<1> QED BY <1>2, <1>4

\* A record adds its spans to what was emitted.
LEMMA EmittedUpdate ==
  ASSUME NEW b, records' = records \cup {b}
  PROVE  Emitted' = Emitted \cup b.spans
BY DEF Emitted

LEMMA AccountingInit == Init => SpanAccounting
BY DEF Init, SpanAccounting, InHand, Settled, Emitted, Nothing, Batch

\* The batch is moved into the empty hands of p.
LEMMA AccountingTake ==
  ASSUME TypeOK, ControlInv, SpanAccounting, NEW p \in Proc, TakeAccumulated(p),
         pc[p] \notin Holding, UNCHANGED <<offered, outcomes>>
  PROVE  SpanAccounting'
<1> DEFINE b == Batch(spans, accumulatedSize)
<1>1. taken' = [taken EXCEPT ![p] = b] /\ spans' = {} /\ b.spans = spans
  BY DEF TakeAccumulated, ClearAccumulated, Batch
<1>2. taken[p].spans = {}
  BY DEF ControlInv, HandsInv, Nothing, Batch
<1>3. InHand = HeldByOthers(p)
  BY <1>2, HandsSplit
<1> HIDE DEF b
<1>4. /\ InHand' = HeldByOthers(p) \cup spans
      /\ \A q, r \in Proc : q # r => taken'[q].spans \cap taken'[r].spans = {}
  BY <1>1, <1>3, HandsUpdate DEF SpanAccounting
<1>5. Emitted' = Emitted /\ Settled' = Settled /\ records' = records
      /\ returned' = returned /\ failed' = failed /\ offered' = offered
  BY DEF outcomes, Emitted, Settled
<1> QED BY <1>1, <1>3, <1>4, <1>5 DEF SpanAccounting

\* What p held has left its hands.
LEMMA AccountingRelease ==
  ASSUME TypeOK, SpanAccounting, NEW p \in Proc,
         taken' = [taken EXCEPT ![p] = Nothing]
  PROVE  /\ InHand = InHand' \cup taken[p].spans
         /\ InHand' \cap taken[p].spans = {}
         /\ \A q, r \in Proc : q # r => taken'[q].spans \cap taken'[r].spans = {}
<1>1. Nothing.spans = {}
  BY DEF Nothing, Batch
<1>2. /\ InHand' = HeldByOthers(p)
      /\ \A q, r \in Proc : q # r => taken'[q].spans \cap taken'[r].spans = {}
  BY <1>1, HandsUpdate
<1> QED BY <1>2, HandsSplit DEF SpanAccounting

LEMMA AccountingStep ==
  TypeOK /\ ControlInv /\ SpanAccounting /\ [Next]_vars => SpanAccounting'
<1> SUFFICES ASSUME TypeOK, ControlInv, SpanAccounting, [Next]_vars PROVE SpanAccounting'
  OBVIOUS
<1>0. ASSUME UNCHANGED <<spans, taken, offered, outcomes>> PROVE SpanAccounting'
  BY <1>0 DEF SpanAccounting, InHand, Settled, Emitted, outcomes
<1>1. ASSUME NEW w \in Worker, NEW s \in Span, Encode(w, s) PROVE SpanAccounting'
  <2> DEFINE b == Batch({s}, EncodedSize(s))
  <2>1. /\ taken' = [taken EXCEPT ![w] = b] /\ b.spans = {s} /\ w \in Proc
        /\ offered' = offered \cup {s} /\ s \notin offered /\ spans' = spans
        /\ pc[w] \notin Holding
    BY <1>1 DEF Encode, Batch, Proc, batchVars, Holding
  <2>2. taken[w].spans = {}
    BY <2>1 DEF ControlInv, HandsInv, Nothing, Batch
  <2>3. InHand = HeldByOthers(w)
    BY <2>1, <2>2, HandsSplit
  <2> HIDE DEF b
  <2>4. b.spans \cap HeldByOthers(w) = {}
    BY <2>1, <2>3 DEF SpanAccounting
  <2>5. /\ InHand' = HeldByOthers(w) \cup {s}
        /\ \A q, r \in Proc : q # r => taken'[q].spans \cap taken'[r].spans = {}
    BY <2>1, <2>4, HandsUpdate
  <2>6. Emitted' = Emitted /\ Settled' = Settled /\ records' = records
        /\ returned' = returned /\ failed' = failed
    BY <1>1 DEF Encode, outcomes, Emitted, Settled
  <2> QED BY <2>1, <2>3, <2>5, <2>6 DEF SpanAccounting
<1>2. ASSUME NEW w \in Worker, AccumulateBegin(w) PROVE SpanAccounting'
  BY <1>0, <1>2 DEF AccumulateBegin, batchVars
<1>3. ASSUME NEW w \in Worker, Append(w) PROVE SpanAccounting'
  <2>1. /\ taken' = [taken EXCEPT ![w] = Nothing] /\ w \in Proc
        /\ spans' = spans \cup taken[w].spans /\ offered' = offered
    BY <1>3 DEF Append, Proc
  <2>2. Emitted' = Emitted /\ Settled' = Settled /\ records' = records
        /\ returned' = returned /\ failed' = failed
    BY <1>3 DEF Append, outcomes, Emitted, Settled
  <2> QED BY <2>1, <2>2, AccountingRelease DEF SpanAccounting
<1>4. ASSUME NEW p \in FlushCaller, FlushBegin(p) PROVE SpanAccounting'
  <2>1. p \in Proc /\ pc[p] \notin Holding /\ UNCHANGED <<offered, outcomes>>
    BY <1>4 DEF FlushBegin, FlushCaller, Proc, Holding
  <2>2. CASE TakeAccumulated(p)
    BY <2>1, <2>2, AccountingTake
  <2>3. CASE UNCHANGED <<batchVars, taken>>
    BY <1>0, <2>1, <2>3 DEF batchVars
  <2> QED BY <1>4, <2>2, <2>3 DEF FlushBegin
<1>5. ASSUME NEW p \in FlushCaller, FlushSeal(p) PROVE SpanAccounting'
  <2>1. /\ p \in Proc /\ pc[p] \notin Holding /\ UNCHANGED <<offered, outcomes>>
        /\ TakeAccumulated(p)
    BY <1>5 DEF FlushSeal, FlushCaller, Proc, Holding
  <2> QED BY <2>1, AccountingTake
<1>6. ASSUME NEW p \in FlushCaller, EmitRecord(p) PROVE SpanAccounting'
  <2>1. /\ taken' = [taken EXCEPT ![p] = Nothing] /\ p \in Proc
        /\ records' = records \cup {taken[p]} /\ spans' = spans /\ offered' = offered
        /\ returned' = returned /\ failed' = failed
    BY <1>6 DEF EmitRecord, FlushCaller, Proc, batchVars
  <2>2. Emitted' = Emitted \cup taken[p].spans
    BY <2>1, EmittedUpdate
  <2>3. Settled' = Settled \cup taken[p].spans
    BY <2>1, <2>2 DEF Settled
  <2>4. taken[p].spans \cap Settled = {}
    BY <2>1, AccountingRelease DEF SpanAccounting
  <2>5. \A r \in records : r.spans \cap taken[p].spans = {}
    BY <2>4 DEF Settled, Emitted
  <2>6. \A r1, r2 \in records' : r1 # r2 => r1.spans \cap r2.spans = {}
    BY <2>1, <2>5 DEF SpanAccounting
  <2>7. taken[p].spans \cap (returned \cup failed) = {}
    BY <2>4 DEF Settled
  <2> QED BY <2>1, <2>2, <2>3, <2>4, <2>6, <2>7, AccountingRelease DEF SpanAccounting
<1>7. ASSUME NEW p \in FlushCaller, GiveBack(p) PROVE SpanAccounting'
  <2>1. /\ taken' = [taken EXCEPT ![p] = Nothing] /\ p \in Proc
        /\ records' = records /\ spans' = spans /\ offered' = offered
        /\ returned' = returned \cup taken[p].spans /\ failed' = failed
    BY <1>7 DEF GiveBack, FlushCaller, Proc, batchVars
  <2>2. Emitted' = Emitted /\ Settled' = Settled \cup taken[p].spans
    BY <2>1 DEF Settled, Emitted
  <2>3. taken[p].spans \cap Settled = {}
    BY <2>1, AccountingRelease DEF SpanAccounting
  <2>4. taken[p].spans \cap (Emitted \cup failed) = {}
    BY <2>3 DEF Settled
  <2> QED BY <2>1, <2>2, <2>3, <2>4, AccountingRelease DEF SpanAccounting
<1>8. ASSUME NEW p \in FlushCaller, Fail(p) PROVE SpanAccounting'
  <2>1. /\ taken' = [taken EXCEPT ![p] = Nothing] /\ p \in Proc
        /\ records' = records /\ spans' = spans /\ offered' = offered
        /\ returned' = returned /\ failed' = failed \cup taken[p].spans
    BY <1>8 DEF Fail, FlushCaller, Proc, batchVars
  <2>2. Emitted' = Emitted /\ Settled' = Settled \cup taken[p].spans
    BY <2>1 DEF Settled, Emitted
  <2>3. taken[p].spans \cap Settled = {}
    BY <2>1, AccountingRelease DEF SpanAccounting
  <2>4. taken[p].spans \cap (Emitted \cup returned) = {}
    BY <2>3 DEF Settled
  <2> QED BY <2>1, <2>2, <2>3, <2>4, AccountingRelease DEF SpanAccounting
<1>9. CASE Tick \/ SeeDone
  BY <1>0, <1>9 DEF Tick, SeeDone, batchVars
<1>10. ASSUME NEW d \in Drainer, Drain(d) PROVE SpanAccounting'
  BY <1>0, <1>10 DEF Drain, batchVars
<1>11. ASSUME NEW k \in Stopper, SignalStop(k) \/ CloseDone(k) PROVE SpanAccounting'
  BY <1>0, <1>11 DEF SignalStop, CloseDone, batchVars
<1>12. CASE UNCHANGED vars
  BY <1>0, <1>12 DEF vars, batchVars
<1> QED
  BY <1>1, <1>2, <1>3, <1>4, <1>5, <1>6, <1>7, <1>8, <1>9, <1>10, <1>11, <1>12
  DEF Next, EncodeStep, FlushStep

\* No span is lost and none is delivered twice, with any number of goroutines and in
\* whatever order they run, stopped or not.
THEOREM EverySpanAccounted == Spec => []SpanAccounting
BY AccountingInit, AccountingStep, Typing, Control, PTL DEF Spec
-----------------------------------------------------------------------------
(* Accounting of bytes *)

LEMMA SpanTimes ==
  ASSUME NEW m \in Nat, NEW n \in Nat
  PROVE  /\ m * MaxAllowedSizePerSpan \in Nat
         /\ (m + 1) * MaxAllowedSizePerSpan = m * MaxAllowedSizePerSpan + MaxAllowedSizePerSpan
         /\ m <= n => m * MaxAllowedSizePerSpan <= n * MaxAllowedSizePerSpan
BY SizesAreSane

LEMMA OverdueCount ==
  /\ IsFiniteSet(Overdue)
  /\ Cardinality(Overdue) \in Nat /\ Cardinality(Worker) \in Nat
  /\ Cardinality(Overdue) <= Cardinality(Worker)
<1>1. Overdue \subseteq Worker /\ IsFiniteSet(Worker)
  BY ProcessesAreDistinct DEF Overdue
<1> QED BY <1>1, FS_Subset, FS_CardinalityType

\* The bytes that are in flight: a worker adds one span at most, what is about to be
\* emitted already obeys the bound, and an empty batch counts no byte.
BytesInv ==
  /\ \A w \in Worker : pc[w] \in {"accumulate", "append"} =>
       taken[w].spans # {} /\ taken[w].bytes <= MaxAllowedSizePerSpan
  /\ \A p \in Proc : pc[p] = "emit" =>
       taken[p].bytes < MaxRecordSize + Cardinality(Worker) * MaxAllowedSizePerSpan
  /\ spans = {} => accumulatedSize = 0

SizeInv == RecordSizeBound /\ BytesInv

LEMMA SizeInit == Init => SizeInv
<1> SUFFICES ASSUME Init PROVE SizeInv
  OBVIOUS
<1>1. accumulatedSize < MaxRecordSize + Cardinality(Overdue) * MaxAllowedSizePerSpan
  BY OverdueCount, SpanTimes, SizesAreSane DEF Init
<1> QED BY <1>1, ProcessesAreDistinct DEF Init, SizeInv, RecordSizeBound, BytesInv, Proc

\* A step that empties the batch, or leaves it alone and lets nobody stop being overdue,
\* keeps the bound on the batch.
LEMMA BatchBoundKept ==
  ASSUME TypeOK, RecordSizeBound,
         accumulatedSize' = 0 \/ (accumulatedSize' = accumulatedSize /\ Overdue' = Overdue)
  PROVE  accumulatedSize' < MaxRecordSize + Cardinality(Overdue') * MaxAllowedSizePerSpan
<1>1. CASE accumulatedSize' = accumulatedSize /\ Overdue' = Overdue
  BY <1>1 DEF RecordSizeBound
<1>2. CASE accumulatedSize' = 0
  <2>1. Overdue' \subseteq Worker /\ IsFiniteSet(Worker)
    BY ProcessesAreDistinct DEF Overdue
  <2>2. Cardinality(Overdue') \in Nat
    BY <2>1, FS_Subset, FS_CardinalityType
  <2>3. Cardinality(Overdue') * MaxAllowedSizePerSpan \in Nat
    BY <2>2, SpanTimes
  <2> QED BY <1>2, <2>3, SizesAreSane
<1> QED BY <1>1, <1>2

\* The batch that is taken obeys the bound that holds for records.
LEMMA TakenBound ==
  ASSUME TypeOK, RecordSizeBound
  PROVE  accumulatedSize < MaxRecordSize + Cardinality(Worker) * MaxAllowedSizePerSpan
<1> DEFINE a == Cardinality(Overdue) * MaxAllowedSizePerSpan
           b == Cardinality(Worker) * MaxAllowedSizePerSpan
<1>1. a \in Nat /\ b \in Nat /\ a <= b
  BY OverdueCount, SpanTimes
<1>2. accumulatedSize < MaxRecordSize + a /\ accumulatedSize \in Nat
  BY DEF RecordSizeBound, TypeOK
<1> HIDE DEF a, b
<1>3. accumulatedSize < MaxRecordSize + b
  BY <1>1, <1>2, SizesAreSane
<1> QED BY <1>3 DEF b

\* Appending one span may break the limit, but only by making the worker overdue.
LEMMA AppendBound ==
  ASSUME TypeOK, ControlInv, SizeInv, NEW w \in Worker, Append(w)
  PROVE  accumulatedSize' < MaxRecordSize + Cardinality(Overdue') * MaxAllowedSizePerSpan
<1> DEFINE a == Cardinality(Overdue) * MaxAllowedSizePerSpan
<1>1. a \in Nat
  BY OverdueCount, SpanTimes
<1>2. /\ accumulatedSize < MaxRecordSize + a
      /\ accumulatedSize' = accumulatedSize + taken[w].bytes
      /\ taken[w].bytes <= MaxAllowedSizePerSpan
      /\ accumulatedSize \in Nat /\ taken[w].bytes \in Nat
  BY DEF Append, SizeInv, RecordSizeBound, BytesInv, TypeOK, Proc
<1>3. CASE accumulatedSize' >= MaxRecordSize
  <2>1. w \notin Overdue /\ Overdue' = Overdue \cup {w}
    BY <1>3 DEF Append, Goto, Overdue, TypeOK, Proc
  <2>2. Cardinality(Overdue') = Cardinality(Overdue) + 1
    BY <2>1, OverdueCount, FS_AddElement
  <2>3. Cardinality(Overdue') * MaxAllowedSizePerSpan = a + MaxAllowedSizePerSpan
    BY <2>2, OverdueCount, SpanTimes
  <2> HIDE DEF a
  <2> QED BY <1>1, <1>2, <2>3, SizesAreSane
<1>4. CASE ~(accumulatedSize' >= MaxRecordSize)
  <2>1. Overdue' = Overdue
    BY <1>4 DEF Append, Goto, Overdue, TypeOK, Proc
  <2>2. Cardinality(Overdue') * MaxAllowedSizePerSpan = a
    BY <2>1
  <2> HIDE DEF a
  <2> QED BY <1>1, <1>2, <1>4, <2>2, SizesAreSane
<1> QED BY <1>3, <1>4

LEMMA SizeStep == TypeOK /\ ControlInv /\ SizeInv /\ [Next]_vars => SizeInv'
<1> SUFFICES ASSUME TypeOK, ControlInv, SizeInv, [Next]_vars PROVE SizeInv'
  OBVIOUS
<1> DEFINE bound == MaxRecordSize + Cardinality(Worker) * MaxAllowedSizePerSpan
           overdue == Cardinality(Overdue') * MaxAllowedSizePerSpan
<1> USE ProcessesAreDistinct DEF Goto, Proc, FlushCaller, Nothing, Batch, stopVars,
        batchVars, outcomes
<1>0. ASSUME BytesInv', accumulatedSize' < MaxRecordSize + overdue,
             \A r \in records' : r \in records \/ r.bytes < bound
      PROVE  SizeInv'
  BY <1>0 DEF SizeInv, RecordSizeBound
<1> HIDE DEF overdue
<1>1. ASSUME NEW w \in Worker, NEW s \in Span, Encode(w, s) PROVE SizeInv'
  <2>1. BytesInv'
    BY <1>1, EncodedSizeType DEF Encode, Encodable, SizeInv, BytesInv, TypeOK
  <2>2. Overdue' = Overdue
    BY <1>1 DEF Encode, Overdue, TypeOK
  <2> QED BY <1>0, <1>1, <2>1, <2>2, BatchBoundKept DEF Encode, overdue, SizeInv
<1>2. ASSUME NEW w \in Worker, AccumulateBegin(w) PROVE SizeInv'
  <2>1. BytesInv'
    BY <1>2 DEF AccumulateBegin, SizeInv, BytesInv, TypeOK
  <2>2. Overdue' = Overdue
    BY <1>2 DEF AccumulateBegin, Overdue, TypeOK
  <2> QED BY <1>0, <1>2, <2>1, <2>2, BatchBoundKept DEF AccumulateBegin, overdue, SizeInv
<1>3. ASSUME NEW w \in Worker, Append(w) PROVE SizeInv'
  <2>1. BytesInv'
    BY <1>3 DEF Append, SizeInv, BytesInv, TypeOK
  <2> QED BY <1>0, <1>3, <2>1, AppendBound DEF Append, overdue
<1>4. ASSUME NEW p \in FlushCaller, FlushBegin(p) PROVE SizeInv'
  <2>1. BytesInv'
    BY <1>4 DEF FlushBegin, AfterFlush, TakeAccumulated, ClearAccumulated, SizeInv,
       BytesInv, TypeOK
  <2>2. accumulatedSize' = 0 \/ (accumulatedSize' = accumulatedSize /\ Overdue' = Overdue)
    BY <1>4 DEF FlushBegin, TakeAccumulated, ClearAccumulated, Overdue, TypeOK, SizeInv,
       BytesInv
  <2> QED BY <1>0, <1>4, <2>1, <2>2, BatchBoundKept DEF FlushBegin, overdue, SizeInv
<1>5. ASSUME NEW p \in FlushCaller, FlushSeal(p) PROVE SizeInv'
  <2>1. accumulatedSize < bound
    BY TakenBound DEF SizeInv
  <2> HIDE DEF bound
  <2>2. BytesInv'
    <3>1. \A q \in Proc : pc'[q] = "emit" => taken'[q].bytes < bound
      BY <1>5, <2>1 DEF FlushSeal, TakeAccumulated, SizeInv, BytesInv, TypeOK, bound
    <3>2. \A w \in Worker : pc'[w] \in {"accumulate", "append"} =>
             taken'[w].spans # {} /\ taken'[w].bytes <= MaxAllowedSizePerSpan
      BY <1>5 DEF FlushSeal, TakeAccumulated, SizeInv, BytesInv, TypeOK
    <3>3. accumulatedSize' = 0
      BY <1>5 DEF FlushSeal, TakeAccumulated, ClearAccumulated
    <3> QED BY <3>1, <3>2, <3>3 DEF BytesInv, bound
  <2>3. accumulatedSize' = 0
    BY <1>5 DEF FlushSeal, TakeAccumulated, ClearAccumulated
  <2> QED BY <1>0, <1>5, <2>2, <2>3, BatchBoundKept DEF FlushSeal, overdue, SizeInv, bound
<1>6. ASSUME NEW p \in FlushCaller, EmitRecord(p) PROVE SizeInv'
  <2>1. BytesInv'
    BY <1>6 DEF EmitRecord, AfterFlush, SizeInv, BytesInv, TypeOK
  <2>2. Overdue' = Overdue
    BY <1>6 DEF EmitRecord, AfterFlush, Overdue, TypeOK
  <2>3. taken[p].bytes < bound
    BY <1>6 DEF EmitRecord, SizeInv, BytesInv
  <2>4. \A r \in records' : r \in records \/ r.bytes < bound
    BY <1>6, <2>3 DEF EmitRecord
  <2> QED BY <1>0, <1>6, <2>1, <2>2, <2>4, BatchBoundKept DEF EmitRecord, overdue, SizeInv
<1>7. ASSUME NEW p \in FlushCaller, GiveBack(p) \/ Fail(p) PROVE SizeInv'
  <2>1. BytesInv'
    BY <1>7 DEF GiveBack, Fail, AfterFlush, SizeInv, BytesInv, TypeOK
  <2>2. Overdue' = Overdue
    BY <1>7 DEF GiveBack, Fail, AfterFlush, Overdue, TypeOK
  <2> QED BY <1>0, <1>7, <2>1, <2>2, BatchBoundKept DEF GiveBack, Fail, overdue, SizeInv
<1>8. CASE Tick \/ SeeDone
  <2>1. BytesInv'
    BY <1>8 DEF Tick, SeeDone, SizeInv, BytesInv, TypeOK
  <2>2. Overdue' = Overdue
    BY <1>8 DEF Tick, SeeDone, Overdue, TypeOK
  <2> QED BY <1>0, <1>8, <2>1, <2>2, BatchBoundKept DEF Tick, SeeDone, overdue, SizeInv
<1>9. ASSUME NEW d \in Drainer, Drain(d) PROVE SizeInv'
  <2>1. BytesInv'
    BY <1>9 DEF Drain, SizeInv, BytesInv, TypeOK
  <2>2. Overdue' = Overdue
    BY <1>9 DEF Drain, Overdue, TypeOK
  <2> QED BY <1>0, <1>9, <2>1, <2>2, BatchBoundKept DEF Drain, overdue, SizeInv
<1>10. ASSUME NEW k \in Stopper, SignalStop(k) \/ CloseDone(k) PROVE SizeInv'
  <2>1. BytesInv'
    BY <1>10 DEF SignalStop, CloseDone, SizeInv, BytesInv, TypeOK
  <2>2. Overdue' = Overdue
    BY <1>10 DEF SignalStop, CloseDone, Overdue, TypeOK
  <2> QED BY <1>0, <1>10, <2>1, <2>2, BatchBoundKept DEF SignalStop, CloseDone, overdue,
             SizeInv
<1>11. CASE UNCHANGED vars
  BY <1>11 DEF vars, SizeInv, RecordSizeBound, BytesInv, Overdue
<1> QED
  BY <1>1, <1>2, <1>3, <1>4, <1>5, <1>6, <1>7, <1>8, <1>9, <1>10, <1>11
  DEF Next, EncodeStep, FlushStep

\* A record exceeds MaxRecordSize by less than one span of the largest size per worker.
THEOREM RecordsBounded == Spec => []RecordSizeBound
<1>1. SizeInv => RecordSizeBound
  BY DEF SizeInv
<1> QED BY <1>1, SizeInit, SizeStep, Typing, Control, PTL DEF Spec
-----------------------------------------------------------------------------
(* Sums of encoded sizes: a sum over a set, which is defined by recursion, is the number of *)
(* units of the set, so that what is known of finite sets says all about it.               *)

Units(S) == {u \in S \X Nat : u[2] \in 1..EncodedSize(u[1])}

LEMMA UnitsOfSpan ==
  ASSUME NEW s \in Span
  PROVE  IsFiniteSet(Units({s})) /\ Cardinality(Units({s})) = EncodedSize(s)
<1> DEFINE n == EncodedSize(s)
           f == [i \in 1..n |-> <<s, i>>]
<1>1. n \in Nat
  BY EncodedSizeType
<1> HIDE DEF n
<1>2. Units({s}) = {<<s, i>> : i \in 1..n}
  BY <1>1 DEF Units, n
<1>3. f \in Bijection(1..n, Units({s}))
  <2>1. f \in [1..n -> Units({s})] /\ \A i \in 1..n : f[i] = <<s, i>>
    BY <1>2
  <2>2. \A i, j \in 1..n : f[i] = f[j] => i = j
    BY <2>1
  <2>3. \A u \in Units({s}) : \E i \in 1..n : f[i] = u
    BY <1>2, <2>1
  <2> HIDE DEF f
  <2>4. f \in Injection(1..n, Units({s})) /\ f \in Surjection(1..n, Units({s}))
    BY <2>1, <2>2, <2>3 DEF Injection, IsInjective, Surjection
  <2> QED BY <2>4 DEF Bijection
<1>4. IsFiniteSet(1..n) /\ Cardinality(1..n) = n
  BY <1>1, FS_Interval
<1>5. ExistsBijection(1..n, Units({s}))
  BY <1>3 DEF ExistsBijection
<1> QED BY <1>4, <1>5, FS_Bijection DEF n

LEMMA UnitsOfUnion ==
  ASSUME NEW S, NEW T, S \cap T = {}, IsFiniteSet(Units(S)), IsFiniteSet(Units(T))
  PROVE  /\ IsFiniteSet(Units(S \cup T))
         /\ Cardinality(Units(S \cup T)) = Cardinality(Units(S)) + Cardinality(Units(T))
<1>1. Units(S \cup T) = Units(S) \cup Units(T) /\ Units(S) \cap Units(T) = {}
  BY DEF Units
<1> DEFINE A == Units(S)
           B == Units(T)
<1>2. Cardinality(A) \in Nat /\ Cardinality(B) \in Nat
  BY FS_CardinalityType
<1>3. A \cap B = {} /\ Cardinality({}) = 0
  BY <1>1, FS_EmptySet
<1> HIDE DEF A, B
<1>4. /\ IsFiniteSet(A \cup B)
      /\ Cardinality(A \cup B) = Cardinality(A) + Cardinality(B) - Cardinality(A \cap B)
  <2>1. IsFiniteSet(A) /\ IsFiniteSet(B) BY DEF A, B
  <2> QED BY <2>1, FS_Union
<1>5. Cardinality(A \cap B) = 0
  BY <1>3
<1>6. Cardinality(A \cup B) = Cardinality(A) + Cardinality(B)
  BY <1>2, <1>4, <1>5
<1> QED BY <1>1, <1>4, <1>6 DEF A, B

LEMMA UnitsAreFinite ==
  ASSUME NEW S \in SUBSET Span, IsFiniteSet(S)
  PROVE  IsFiniteSet(Units(S))
<1> DEFINE Parts == {Units({s}) : s \in S}
           f == [s \in S |-> Units({s})]
<1>1. IsFiniteSet(Parts)
  <2>1. f \in Surjection(S, Parts)
    BY DEF Surjection
  <2> QED BY <2>1, FS_Surjection
<1>2. \A T \in Parts : IsFiniteSet(T)
  BY UnitsOfSpan
<1>3. Units(S) = UNION Parts
  BY DEF Units
<1> QED BY <1>1, <1>2, <1>3, FS_UNION

LEMMA LeastOfNat ==
  ASSUME NEW T \in SUBSET Nat, T # {}
  PROVE  \E m \in T : \A k \in T : m <= k
<1>1. IsWellFoundedOn(OpToRel(<, Nat), Nat)
  BY NatLessThanWellFounded
<1>2. PICK m \in T : \A k \in T : ~(<<k, m>> \in OpToRel(<, Nat))
  BY <1>1, WFMin
<1>3. \A k \in T : ~(k < m)
  BY <1>2 DEF OpToRel
<1> QED BY <1>3

\* MapThenSumSet chooses the elements of a set one after the other; the sum is the number of
\* units whatever it chooses.
LEMMA SumIsUnits ==
  ASSUME NEW S \in SUBSET Span, IsFiniteSet(S)
  PROVE  MapThenSumSet(EncodedSize, S) = Cardinality(Units(S))
<1> DEFINE Pick(s)  == CHOOSE x \in s : TRUE
           Sum(g)   == [s \in SUBSET S |-> IF s = {} THEN 0
                                           ELSE EncodedSize(Pick(s)) + g[s \ {Pick(s)}]]
           iter     == CHOOSE g : g = Sum(g)
           count    == [s \in SUBSET S |-> Cardinality(Units(s))]
<1>1. MapThenSumSet(EncodedSize, S) = iter[S]
  BY DEF MapThenSumSet, MapThenFoldSet
<1>2. ASSUME NEW s \in SUBSET S, s # {}
      PROVE  /\ Pick(s) \in s /\ s \ {Pick(s)} \in SUBSET S
             /\ IsFiniteSet(s) /\ Cardinality(s) \in Nat
             /\ Cardinality(s \ {Pick(s)}) = Cardinality(s) - 1
             /\ count[s] = EncodedSize(Pick(s)) + count[s \ {Pick(s)}]
  <2> DEFINE x == Pick(s)
             r == s \ {x}
  <2>1. x \in s /\ r \in SUBSET S /\ s = r \cup {x} /\ r \cap {x} = {} /\ x \in Span
    BY <1>2
  <2> HIDE DEF x, r
  <2>2. IsFiniteSet(s) /\ IsFiniteSet(r)
    BY <2>1, FS_Subset
  <2>3. Cardinality(r) = Cardinality(s) - 1 /\ Cardinality(s) \in Nat
    BY <2>1, <2>2, FS_RemoveElement, FS_CardinalityType DEF r
  <2>4. IsFiniteSet(Units(r)) /\ Cardinality(Units(r)) \in Nat
    BY <2>1, <2>2, UnitsAreFinite, FS_CardinalityType
  <2>5. IsFiniteSet(Units({x})) /\ Cardinality(Units({x})) = EncodedSize(x)
    BY <2>1, UnitsOfSpan
  <2>6. Cardinality(Units(s)) = Cardinality(Units(r)) + Cardinality(Units({x}))
    BY <2>1, <2>4, <2>5, UnitsOfUnion
  <2>7. EncodedSize(x) \in Nat
    BY <2>1, EncodedSizeType
  <2> QED BY <2>1, <2>2, <2>3, <2>4, <2>5, <2>6, <2>7 DEF x, r
<1>3. count[{}] = 0
  <2>1. Units({}) = {} BY DEF Units
  <2> QED BY <2>1, FS_EmptySet
<1> HIDE DEF Pick, count
<1>4. count = Sum(count)
  <2>1. \A s \in SUBSET S : count[s] = IF s = {} THEN 0
                                       ELSE EncodedSize(Pick(s)) + count[s \ {Pick(s)}]
    BY <1>2, <1>3
  <2>2. count = [s \in SUBSET S |-> count[s]]
    BY DEF count
  <2> QED BY <2>1, <2>2
<1>5. iter = Sum(iter)
  BY <1>4
<1> HIDE DEF iter
<1>6. \A s \in SUBSET S : iter[s] = IF s = {} THEN 0
                                    ELSE EncodedSize(Pick(s)) + iter[s \ {Pick(s)}]
  BY <1>5
<1> DEFINE Wrong == {n \in Nat : \E s \in SUBSET S : Cardinality(s) = n /\ iter[s] # count[s]}
<1>7. Wrong = {}
  <2> SUFFICES ASSUME Wrong # {} PROVE FALSE
    OBVIOUS
  <2>1. PICK m \in Wrong : \A k \in Wrong : m <= k
    BY LeastOfNat
  <2>2. PICK s \in SUBSET S : Cardinality(s) = m /\ iter[s] # count[s]
    BY <2>1
  <2>3. s # {}
    BY <1>3, <1>6, <2>2
  <2>4. /\ iter[s] = EncodedSize(Pick(s)) + iter[s \ {Pick(s)}]
        /\ count[s] = EncodedSize(Pick(s)) + count[s \ {Pick(s)}]
    BY <1>2, <1>6, <2>3
  <2>5. iter[s \ {Pick(s)}] # count[s \ {Pick(s)}]
    BY <2>2, <2>4
  <2>6. Cardinality(s \ {Pick(s)}) = m - 1 /\ m - 1 \in Nat
    <3>1. IsFiniteSet(s) BY FS_Subset
    <3>2. m # 0 BY <2>2, <2>3, <3>1, FS_EmptySet
    <3>3. m \in Nat /\ m - 1 \in Nat BY <2>1, <3>2
    <3>4. Cardinality(s \ {Pick(s)}) = Cardinality(s) - 1 BY <1>2, <2>3
    <3> QED BY <2>2, <3>3, <3>4
  <2>7. m - 1 \in Wrong
    BY <1>2, <2>3, <2>5, <2>6
  <2> QED BY <2>1, <2>7
<1>8. Cardinality(S) \in Nat
  BY FS_CardinalityType
<1>9. iter[S] = count[S]
  BY <1>7, <1>8
<1> QED BY <1>1, <1>9 DEF count

Total(S) == MapThenSumSet(EncodedSize, S)

LEMMA Totals ==
  /\ Total({}) = 0
  /\ \A s \in Span : Total({s}) = EncodedSize(s)
  /\ \A S, T \in SUBSET Span : IsFiniteSet(S) /\ IsFiniteSet(T) /\ S \cap T = {}
       => IsFiniteSet(S \cup T) /\ Total(S \cup T) = Total(S) + Total(T)
<1>1. Total({}) = 0
  <2>1. Units({}) = {} BY DEF Units
  <2> QED BY <2>1, SumIsUnits, FS_EmptySet DEF Total
<1>2. ASSUME NEW s \in Span PROVE Total({s}) = EncodedSize(s)
  <2>1. {s} \in SUBSET Span /\ IsFiniteSet({s}) BY FS_Singleton
  <2> QED BY <2>1, SumIsUnits, UnitsOfSpan DEF Total
<1>3. ASSUME NEW S \in SUBSET Span, NEW T \in SUBSET Span,
             IsFiniteSet(S), IsFiniteSet(T), S \cap T = {}
      PROVE  IsFiniteSet(S \cup T) /\ Total(S \cup T) = Total(S) + Total(T)
  <2>1. IsFiniteSet(S \cup T) /\ S \cup T \in SUBSET Span
    BY <1>3, FS_Union
  <2>2. /\ Total(S) = Cardinality(Units(S)) /\ Total(T) = Cardinality(Units(T))
        /\ Total(S \cup T) = Cardinality(Units(S \cup T))
    BY <1>3, <2>1, SumIsUnits DEF Total
  <2>3. Cardinality(Units(S \cup T)) = Cardinality(Units(S)) + Cardinality(Units(T))
    BY <1>3, UnitsAreFinite, UnitsOfUnion
  <2> QED BY <2>1, <2>2, <2>3
<1> QED BY <1>1, <1>2, <1>3

\* A finite batch whose size is the sum of the sizes of its spans.
Weighed(b) == IsFiniteSet(b.spans) /\ b.bytes = Total(b.spans)

WeighedInv ==
  /\ Weighed(Batch(spans, accumulatedSize))
  /\ \A p \in Proc : Weighed(taken[p])
  /\ \A r \in records : Weighed(r)

LEMMA NothingWeighed == Weighed(Nothing)
BY Totals, FS_EmptySet DEF Weighed, Nothing, Batch

LEMMA WeighedInit == Init => WeighedInv
BY NothingWeighed DEF Init, WeighedInv, Nothing

LEMMA WeighedStep == TypeOK /\ SpanAccounting /\ WeighedInv /\ [Next]_vars => WeighedInv'
<1> SUFFICES ASSUME TypeOK, SpanAccounting, WeighedInv, [Next]_vars PROVE WeighedInv'
  OBVIOUS
<1>1. ASSUME UNCHANGED <<batchVars, taken, records>> PROVE WeighedInv'
  BY <1>1 DEF WeighedInv, batchVars
<1>2. ASSUME NEW p \in Proc, NEW b, Weighed(b), taken' = [taken EXCEPT ![p] = b]
      PROVE  \A q \in Proc : Weighed(taken'[q])
  <2>1. \A q \in Proc : taken'[q] = b \/ taken'[q] = taken[q]
    BY <1>2 DEF TypeOK
  <2> QED BY <1>2, <2>1 DEF WeighedInv
<1>3. ASSUME NEW w \in Worker, NEW s \in Span, Encode(w, s) PROVE WeighedInv'
  <2>1. Weighed(Batch({s}, EncodedSize(s)))
    BY Totals, FS_Singleton DEF Weighed, Batch
  <2>2. /\ taken' = [taken EXCEPT ![w] = Batch({s}, EncodedSize(s))]
        /\ UNCHANGED <<batchVars, records>> /\ w \in Proc
    BY <1>3 DEF Encode, outcomes, Proc
  <2> HIDE DEF Weighed
  <2>3. \A q \in Proc : Weighed(taken'[q])
    BY <1>2, <2>1, <2>2
  <2> QED BY <2>2, <2>3 DEF WeighedInv, batchVars
<1>4. ASSUME NEW w \in Worker, Append(w) PROVE WeighedInv'
  <2>1. /\ spans' = spans \cup taken[w].spans
        /\ accumulatedSize' = accumulatedSize + taken[w].bytes
        /\ taken' = [taken EXCEPT ![w] = Nothing] /\ records' = records /\ w \in Proc
    BY <1>4 DEF Append, outcomes, Proc
  <2>2. /\ spans \in SUBSET Span /\ taken[w].spans \in SUBSET Span
        /\ spans \cap taken[w].spans = {}
    BY <2>1 DEF TypeOK, SpanAccounting, InHand
  <2>3. /\ IsFiniteSet(spans) /\ accumulatedSize = Total(spans)
        /\ IsFiniteSet(taken[w].spans) /\ taken[w].bytes = Total(taken[w].spans)
    BY <2>1 DEF WeighedInv, Weighed, Batch
  <2>4. IsFiniteSet(spans') /\ accumulatedSize' = Total(spans')
    BY <2>1, <2>2, <2>3, Totals
  <2>5. Weighed(Batch(spans', accumulatedSize'))
    BY <2>4 DEF Weighed, Batch
  <2>6. \A q \in Proc : Weighed(taken'[q])
    BY <1>2, <2>1, NothingWeighed
  <2> QED BY <2>1, <2>5, <2>6 DEF WeighedInv
<1>5. ASSUME NEW p \in FlushCaller, TakeAccumulated(p), UNCHANGED outcomes PROVE WeighedInv'
  <2>1. /\ taken' = [taken EXCEPT ![p] = Batch(spans, accumulatedSize)] /\ p \in Proc
        /\ Batch(spans', accumulatedSize') = Nothing /\ records' = records
    BY <1>5 DEF TakeAccumulated, ClearAccumulated, Nothing, outcomes, FlushCaller, Proc
  <2>2. \A q \in Proc : Weighed(taken'[q])
    BY <1>2, <2>1 DEF WeighedInv
  <2> QED BY <2>1, <2>2, NothingWeighed DEF WeighedInv
<1>6. ASSUME NEW p \in FlushCaller, EmitRecord(p) \/ GiveBack(p) \/ Fail(p) PROVE WeighedInv'
  <2>1. /\ taken' = [taken EXCEPT ![p] = Nothing] /\ p \in Proc /\ UNCHANGED batchVars
        /\ records' \subseteq records \cup {taken[p]}
    BY <1>6 DEF EmitRecord, GiveBack, Fail, FlushCaller, Proc
  <2>2. \A q \in Proc : Weighed(taken'[q])
    BY <1>2, <2>1, NothingWeighed
  <2> QED BY <2>1, <2>2 DEF WeighedInv, batchVars
<1>7. ASSUME NEW p \in FlushCaller, FlushStep(p) PROVE WeighedInv'
  <2>1. CASE FlushBegin(p) /\ TakeAccumulated(p)
    BY <1>5, <2>1 DEF FlushBegin
  <2>2. CASE FlushBegin(p) /\ UNCHANGED <<batchVars, taken>>
    BY <1>1, <2>2 DEF FlushBegin, outcomes
  <2>3. CASE FlushSeal(p)
    BY <1>5, <2>3 DEF FlushSeal
  <2> QED BY <1>6, <1>7, <2>1, <2>2, <2>3 DEF FlushStep, FlushBegin
<1>8. CASE \/ \E w \in Worker : AccumulateBegin(w)
           \/ Tick \/ SeeDone
           \/ \E d \in Drainer : Drain(d)
           \/ \E k \in Stopper : SignalStop(k) \/ CloseDone(k)
           \/ UNCHANGED vars
  BY <1>1, <1>8 DEF AccumulateBegin, Tick, SeeDone, Drain, SignalStop, CloseDone, vars, outcomes
<1> QED BY <1>3, <1>4, <1>7, <1>8 DEF Next, EncodeStep

\* What the encoder compares with the maximum size is the true size of the batch, and a record
\* is as large as it says, for any sizes, cut or not, and any number of goroutines
\* (shard_encoder.go:240, 285).
THEOREM SizesAdd == Spec => []SizeMatchesBatch
<1>1. WeighedInv => SizeMatchesBatch
  BY DEF WeighedInv, Weighed, Batch, SizeMatchesBatch, Total
<1>2. TypeOK /\ TypeOK' /\ SpanAccounting /\ WeighedInv /\ [Next]_vars => WeighedInv'
  BY WeighedStep
<1> QED BY <1>1, <1>2, WeighedInit, Typing, EverySpanAccounted, PTL DEF Spec
-----------------------------------------------------------------------------
(* Refinement *)

LEMMA LedgerInit == Init => Ledger!Init
BY DEF Init, Ledger!Init, Settled, Emitted

\* The steps that change neither the offered spans nor their outcomes are invisible.
LEMMA LedgerStutter ==
  ASSUME UNCHANGED <<offered, outcomes>>
  PROVE  UNCHANGED Ledger!ledgerVars
BY DEF outcomes, Ledger!ledgerVars, Settled, Emitted

\* What a goroutine holds was offered and is not settled.
LEMMA HeldIsPending ==
  ASSUME SpanAccounting, NEW p \in Proc
  PROVE  taken[p].spans \subseteq offered \ Settled
BY DEF SpanAccounting, InHand

LEMMA LedgerStep ==
  TypeOK /\ SpanAccounting /\ [Next]_vars => [Ledger!Next]_(Ledger!ledgerVars)
<1> SUFFICES ASSUME TypeOK, SpanAccounting, [Next]_vars
             PROVE  Ledger!Next \/ UNCHANGED Ledger!ledgerVars
  OBVIOUS
<1>1. ASSUME NEW w \in Worker, NEW s \in Span, Encode(w, s) PROVE Ledger!Next
  <2>1. s \notin offered /\ offered' = offered \cup {s}
        /\ Settled' = Settled /\ Emitted' = Emitted
        /\ returned' = returned /\ failed' = failed
    BY <1>1 DEF Encode, outcomes, Settled, Emitted
  <2>2. Settled \subseteq offered
    BY DEF SpanAccounting
  <2>3. Ledger!Accept({s})
    BY <2>1, <2>2 DEF Ledger!Accept, Settled
  <2> QED BY <2>3 DEF Ledger!Next
<1>2. ASSUME NEW p \in FlushCaller, EmitRecord(p)
      PROVE  Ledger!Next \/ UNCHANGED Ledger!ledgerVars
  <2> DEFINE batch == taken[p].spans
  <2>1. batch \subseteq offered \ Settled
    BY HeldIsPending DEF FlushCaller, Proc
  <2>2. /\ Emitted' = Emitted \cup batch /\ offered' = offered
        /\ returned' = returned /\ failed' = failed
    BY <1>2, EmittedUpdate DEF EmitRecord
  <2>3. (offered \ Settled)' = (offered \ Settled) \ batch
    BY <2>2 DEF Settled
  <2>4. CASE batch = {}
    BY <2>2, <2>3, <2>4 DEF Ledger!ledgerVars
  <2>5. CASE batch # {}
    <3>1. Ledger!Emit(batch)
      BY <2>2, <2>3, <2>5 DEF Ledger!Emit
    <3> QED BY <2>1, <3>1 DEF Ledger!Next
  <2> QED BY <2>4, <2>5
<1>3. ASSUME NEW p \in FlushCaller, GiveBack(p) \/ Fail(p)
      PROVE  Ledger!Next \/ UNCHANGED Ledger!ledgerVars
  <2> DEFINE batch == taken[p].spans
  <2>1. batch \subseteq offered \ Settled
    BY HeldIsPending DEF FlushCaller, Proc
  <2>2. /\ Emitted' = Emitted /\ offered' = offered
        /\ (returned \cup failed)' = (returned \cup failed) \cup batch
    BY <1>3 DEF GiveBack, Fail, Emitted
  <2>3. (offered \ Settled)' = (offered \ Settled) \ batch
    BY <2>2 DEF Settled
  <2>4. CASE batch = {}
    BY <2>2, <2>3, <2>4 DEF Ledger!ledgerVars
  <2>5. CASE batch # {}
    <3>1. Ledger!GiveBack(batch)
      BY <2>2, <2>3, <2>5 DEF Ledger!GiveBack
    <3> QED BY <2>1, <3>1 DEF Ledger!Next
  <2> QED BY <2>4, <2>5
<1>4. ASSUME UNCHANGED <<offered, outcomes>> PROVE UNCHANGED Ledger!ledgerVars
  BY <1>4, LedgerStutter
<1>5. ASSUME NEW w \in Worker, EncodeStep(w) PROVE UNCHANGED <<offered, outcomes>>
  BY <1>5 DEF EncodeStep, AccumulateBegin, Append
<1>6. ASSUME NEW p \in FlushCaller, FlushBegin(p) \/ FlushSeal(p)
      PROVE  UNCHANGED <<offered, outcomes>>
  BY <1>6 DEF FlushBegin, FlushSeal
<1>7. ASSUME Tick \/ SeeDone \/ \E d \in Drainer : Drain(d)
      PROVE  UNCHANGED <<offered, outcomes>>
  BY <1>7 DEF Tick, SeeDone, Drain
<1>8. ASSUME NEW k \in Stopper, SignalStop(k) \/ CloseDone(k)
      PROVE  UNCHANGED <<offered, outcomes>>
  BY <1>8 DEF SignalStop, CloseDone
<1>9. CASE UNCHANGED vars
  BY <1>4, <1>9 DEF vars
<1> QED
  BY <1>1, <1>2, <1>3, <1>4, <1>5, <1>6, <1>7, <1>8, <1>9 DEF Next, FlushStep

\* The shard encoder keeps the promise its comment makes: it implements SpanLedger.
THEOREM ImplementsLedger == Spec => LedgerSafety
BY LedgerInit, LedgerStep, Typing, EverySpanAccounted, PTL
DEF Spec, LedgerSafety, Ledger!Safety
=============================================================================
