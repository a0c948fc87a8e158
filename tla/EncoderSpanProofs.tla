------------------------- MODULE EncoderSpanProofs --------------------------
(***************************************************************************)
(* Where the spans that Encoder accepted are, for any batches and any      *)
(* number of replacements: on the control that EncoderProofs establishes   *)
(* rests who may hold spans (Hands), and on that, for each span, that one  *)
(* stage has it, once (Located), and for each shard encoder with spans     *)
(* that a goroutine will come for them (Tended).                           *)
(***************************************************************************)
EXTENDS EncoderProofs, SequenceTheorems

\* Who holds spans is at a label that disposes of them, who is between batches has nothing
\* left of one, and goroutines of a list that is not in use yet, or of a Stop that has not
\* come to its flush, have not started.
Hands ==
  /\ \A p \in Proc : held[p] # {} => pc[p] \in {"encode", "emit", "return", "fail"}
  /\ \A w \in Worker : pc[w] \in Idle => rest[w] = <<>>
  /\ \A f \in Flusher : f[2][1] > generation => pc[f] = "absent"
  /\ stop.at \in {"idle", "draining"} => \A d \in Drainer : pc[d] = "absent"

\* A batch has the span, and once.
InBatch(batch, s)     == \E i \in DOMAIN batch : batch[i] = s
OnceInBatch(batch, s) == \A i, j \in DOMAIN batch : batch[i] = s /\ batch[j] = s => i = j

\* The stages a span may be in.
InQueue(s) == \E i \in DOMAIN spanBatchesToProcess : InBatch(spanBatchesToProcess[i], s)
InRest(s)  == \E w \in Worker : InBatch(rest[w], s)
InHands(s) == \E p \in Proc : s \in held[p]
InShard(s) == \E se \in SE : s \in spans[se]
Settled(s) == s \in emitted \/ s \in returned \/ s \in failed

\* A stage has it once.
OneQueue(s) ==
  /\ \A i, j \in DOMAIN spanBatchesToProcess :
       InBatch(spanBatchesToProcess[i], s) /\ InBatch(spanBatchesToProcess[j], s) => i = j
  /\ \A i \in DOMAIN spanBatchesToProcess : OnceInBatch(spanBatchesToProcess[i], s)
OneRest(s) ==
  /\ \A v, w \in Worker : InBatch(rest[v], s) /\ InBatch(rest[w], s) => v = w
  /\ \A w \in Worker : OnceInBatch(rest[w], s)
OneHand(s)    == \A p, q \in Proc : s \in held[p] /\ s \in held[q] => p = q
OneShard(s)   == \A d, e \in SE : s \in spans[d] /\ s \in spans[e] => d = e
OneOutcome(s) == /\ ~(s \in emitted /\ s \in returned)
                 /\ ~(s \in emitted /\ s \in failed)
                 /\ ~(s \in returned /\ s \in failed)

Once(s) == OneQueue(s) /\ OneRest(s) /\ OneHand(s) /\ OneShard(s) /\ OneOutcome(s)

\* No two stages have it.
Apart(s) ==
  /\ InQueue(s) => ~(InRest(s) \/ InHands(s) \/ InShard(s) \/ Settled(s))
  /\ InRest(s) => ~(InHands(s) \/ InShard(s) \/ Settled(s))
  /\ InHands(s) => ~(InShard(s) \/ Settled(s))
  /\ InShard(s) => ~Settled(s)

Somewhere(s) == InQueue(s) \/ InRest(s) \/ InHands(s) \/ InShard(s) \/ Settled(s)

Located(s) == Once(s) /\ Apart(s) /\ (Somewhere(s) <=> s \in Accepted)
Placed     == \A s \in Span : Located(s)

-----------------------------------------------------------------------------
(* Who holds spans *)

LEMMA HandsInit == Init => Hands
BY ProcParts DEF Init, Hands, Idle

\* A goroutine takes a step of its own.
LEMMA OneGoes ==
  ASSUME Control, Hands, NEW p \in Proc, NEW l \in Label, pc[p] # "absent",
         pc' = [pc EXCEPT ![p] = l], UNCHANGED <<generation, stop>>,
         \A q \in Proc \ {p} : held'[q] = held[q],
         held'[p] # {} => l \in {"encode", "emit", "return", "fail"},
         \A w \in Worker \ {p} : rest'[w] = rest[w],
         p \in Worker /\ l \in Idle => rest'[p] = <<>>
  PROVE  Hands'
<1>1. pc \in [Proc -> Label] BY DEF Control, SpanTypes
<1>2. /\ \A q \in Proc : pc'[q] = IF q = p THEN l ELSE pc[q]
      /\ Worker \subseteq Proc /\ Flusher \subseteq Proc /\ Drainer \subseteq Proc
  BY <1>1, ProcParts
<1> QED BY <1>2 DEF Hands

LEMMA HandsCaller == ASSUME Hands, NEW c \in Caller, CallerStep(c) PROVE Hands'
BY DEF Hands, CallerStep, CallerCheck, CallerAdd, CallerSend, listVars, procVars, stopVars

LEMMA HandsGoroutine ==
  ASSUME Control, Hands,
         \/ \E w \in Worker : WorkerStep(w)
         \/ \E f \in Flusher : FlusherStep(f)
         \/ \E d \in Drainer : DrainerStep(d)
  PROVE  Hands'
<1> USE DEF Goto, listVars, queueVars, seVars, stopVars
<1>1. held \in [Proc -> SUBSET Span] /\ rest \in [Worker -> Seq(Span)] BY DEF Control, SpanTypes
<1>2. ASSUME NEW w \in Worker, Dequeue(w) PROVE Hands'
  <2>1. w \in Proc BY ProcParts
  <2> QED BY <1>1, <1>2, <2>1, OneGoes DEF Dequeue, Label, Idle, Hands
<1>3. ASSUME NEW w \in Worker, HardStop(w) PROVE Hands'
  <2>1. w \in Proc BY ProcParts
  <2> QED BY <1>1, <1>3, <2>1, OneGoes DEF HardStop, Label, Idle, Hands
<1>4. ASSUME NEW w \in Worker, Route(w) PROVE Hands'
  <2>1. w \in Proc BY ProcParts
  <2>2. PICK l \in {"fail", "encode"} : pc' = [pc EXCEPT ![w] = l] BY <1>4 DEF Route
  <2>3. /\ pc[w] = "batch" /\ \A q \in Proc \ {w} : held'[q] = held[q]
        /\ \A v \in Worker \ {w} : rest'[v] = rest[v]
        /\ UNCHANGED <<generation, stop>>
    BY <1>1, <1>4 DEF Route
  <2> QED BY <2>1, <2>2, <2>3, OneGoes DEF Label, Idle
<1>5. ASSUME NEW w \in Worker, Encode(w) PROVE Hands'
  <2>1. w \in Proc BY ProcParts
  <2>2. PICK l \in {"fail", "return", "flush", "batch"} :
          pc' = [pc EXCEPT ![w] = l] /\ (held'[w] # {} => l \in {"fail", "return"})
    BY <1>1, <1>5, <2>1 DEF Encode
  <2>3. /\ pc[w] = "encode" /\ \A q \in Proc \ {w} : held'[q] = held[q]
        /\ UNCHANGED <<generation, stop, rest>>
    BY <1>1, <1>5 DEF Encode
  <2> QED BY <2>1, <2>2, <2>3, OneGoes DEF Label, Idle
<1>6. ASSUME NEW w \in Worker, BatchDone(w) PROVE Hands'
  <2>1. w \in Proc BY ProcParts
  <2> QED BY <1>1, <1>6, <2>1, OneGoes DEF BatchDone, Label, Idle, Hands
<1>7. ASSUME NEW p \in Proc, NEW next \in {"batch", "select", "finished"}, Flush(p, next),
             pc[p] \in {"flush", "select"}, p \in Worker => next = "batch"
      PROVE  Hands'
  <2>1. held[p] = {} BY <1>7 DEF Hands
  <2>2. PICK l \in {"batch", "select", "finished", "return", "emit"} :
          /\ pc' = [pc EXCEPT ![p] = l] /\ (held'[p] # {} => l \in {"return", "emit"})
          /\ (l = next \/ l \in {"return", "emit"})
    BY <1>1, <1>7, <2>1 DEF Flush
  <2>3. /\ \A q \in Proc \ {p} : held'[q] = held[q]
        /\ UNCHANGED <<generation, stop, rest>>
    BY <1>1, <1>7 DEF Flush
  <2> QED BY <1>7, <2>2, <2>3, OneGoes DEF Label, Idle
<1>8. ASSUME NEW p \in Proc, EmitRecord(p) \/ GiveBack(p) \/ (p \in Worker /\ Fail(p)) PROVE Hands'
  <2>1. PICK l \in {"batch", "select", "finished"} :
          pc' = [pc EXCEPT ![p] = l] /\ (p \in Worker => l = "batch")
    BY <1>8 DEF EmitRecord, GiveBack, Fail, AfterFlush
  <2>2. /\ \A q \in Proc \ {p} : held'[q] = held[q]
        /\ UNCHANGED <<generation, stop, rest>> /\ held'[p] = {} /\ pc[p] # "absent"
    BY <1>1, <1>8 DEF EmitRecord, GiveBack, Fail
  <2> QED BY <2>1, <2>2, OneGoes DEF Label, Idle
<1> QED
  BY <1>2, <1>3, <1>4, <1>5, <1>6, <1>7, <1>8, ProcParts
  DEF WorkerStep, FlusherStep, DrainerStep, WorkerFlush, Tick, SeeDone, DrainerFlush

LEMMA HandsOthers ==
  ASSUME Control, Hands,
         \/ \E c \in Config \cup {NoConfig} : SetConfig(c)
         \/ ConfigLoopStep \/ BeginStop \/ StopStep \/ WaiterCheck \/ WaiterReturn
  PROVE  Hands'
<1> USE DEF procVars, listVars, stopVars
<1>1. CASE ConfigLoopApply
  <2> DEFINE started == {"flusher"} \X ({generation + 1} \X ShardsOf[loop.config])
  <2>1. generation \in Nat /\ generation + 1 \in Generation /\ ShardsOf[loop.config] \subseteq Shard
    BY <1>1, BatchesAndBounds, ConfigsRouteToTheirShards
    DEF ConfigLoopApply, Control, ControlTypes, Numbered, Generation
  <2>2. started \subseteq Flusher /\ \A f \in started : f[2][1] = generation + 1
    BY <2>1 DEF Flusher, SE
  <2>3. \A f \in started : pc[f] = "absent" /\ held[f] = {}
    BY <2>1, <2>2, ProcParts DEF Hands
  <2>4. /\ \A p \in Proc : pc'[p] = IF p \in started THEN "select" ELSE pc[p]
        /\ UNCHANGED <<held, rest, stop>> /\ generation' = generation + 1
    BY <1>1 DEF ConfigLoopApply
  <2> HIDE DEF started
  <2>5. \A p \in Proc : held'[p] # {} => pc'[p] \in {"encode", "emit", "return", "fail"}
    BY <2>3, <2>4 DEF Hands
  <2>6. \A w \in Worker : pc'[w] \in Idle => rest'[w] = <<>>
    BY <2>2, <2>4, ProcParts DEF Hands
  <2>7. \A f \in Flusher : f[2][1] > generation' => pc'[f] = "absent"
    <3> SUFFICES ASSUME NEW f \in Flusher, f[2][1] > generation + 1 PROVE pc'[f] = "absent"
      BY <2>4
    <3>1. f[2][1] \in Int BY DEF Flusher, SE, Generation
    <3>2. f[2][1] > generation /\ f \notin started BY <2>1, <2>2, <3>1
    <3> QED BY <2>4, <3>2, ProcParts DEF Hands
  <2>8. stop'.at \in {"idle", "draining"} => \A d \in Drainer : pc'[d] = "absent"
    BY <2>2, <2>4, ProcParts DEF Hands
  <2> QED BY <2>5, <2>6, <2>7, <2>8 DEF Hands
<1>2. CASE ConfigLoopStartWorkers
  <2>1. /\ \A p \in Proc : pc'[p] = IF p \in Worker /\ generation = 1 THEN "select" ELSE pc[p]
        /\ UNCHANGED <<held, rest, stop, generation>> /\ loop.at = "workers"
    BY <1>2 DEF ConfigLoopStartWorkers
  <2>2. generation = 1 => \A w \in Worker : pc[w] = "absent"
    BY <2>1 DEF Control, WorkersWait
  <2> QED BY <2>1, <2>2, ProcParts DEF Hands, Idle
<1>3. CASE StopFlush
  <2> DEFINE started == {"drainer"} \X EncodersOf(generation)
  <2>1. started \subseteq Drainer BY EncodersAreSE DEF Drainer
  <2>2. /\ \A p \in Proc : pc'[p] = IF p \in started THEN "flush" ELSE pc[p]
        /\ UNCHANGED <<held, rest, generation>> /\ stop.at = "draining" /\ stop'.at = "flushing"
    BY <1>3 DEF StopFlush, Control, ControlTypes, StopState
  <2> HIDE DEF started
  <2>3. \A d \in started : held[d] = {}
    BY <2>1, <2>2, ProcParts DEF Hands
  <2>4. \A p \in Proc : held'[p] # {} => pc'[p] \in {"encode", "emit", "return", "fail"}
    BY <2>2, <2>3 DEF Hands
  <2> QED BY <2>1, <2>2, <2>4, ProcParts DEF Hands
<1>4. CASE UNCHANGED <<held, rest, pc, generation>> /\
           (stop'.at \in {"idle", "draining"} => stop.at \in {"idle", "draining"})
  BY <1>4 DEF Hands
<1> USE DEF Control, ControlTypes, StopState
<1>5. CASE \E c \in Config \cup {NoConfig} : SetConfig(c)
  BY <1>4, <1>5 DEF SetConfig
<1>6. CASE ConfigLoopCheck \/ ConfigLoopReject \/ \E se \in SE : ConfigLoopStop(se)
  BY <1>4, <1>6 DEF ConfigLoopCheck, ConfigLoopReject, ConfigLoopStop
<1>7. CASE BeginStop \/ WaiterCheck \/ WaiterReturn
  BY <1>4, <1>7 DEF BeginStop, WaiterCheck, WaiterReturn
<1>8. CASE StopFlushed \/ StopConfigChanges \/ SignalConfigChanges \/ FinishStop
           \/ \E se \in SE : StopEncoder(se)
  BY <1>4, <1>8 DEF StopFlushed, StopConfigChanges, SignalConfigChanges, FinishStop, StopEncoder
<1> QED BY <1>1, <1>2, <1>3, <1>5, <1>6, <1>7, <1>8 DEF ConfigLoopStep, StopStep

LEMMA HandsStep == Control /\ Hands /\ [Next]_vars => Hands'
<1> SUFFICES ASSUME Control, Hands, [Next]_vars PROVE Hands'
  OBVIOUS
<1>1. CASE UNCHANGED vars BY <1>1 DEF Hands, vars, procVars, listVars, stopVars
<1> QED BY <1>1, HandsCaller, HandsGoroutine, HandsOthers DEF Next
-----------------------------------------------------------------------------
(* Batches *)

LEMMA TailOfBatch ==
  ASSUME NEW b \in Seq(Span), b # <<>>, NEW s
  PROVE  /\ InBatch(b, s) <=> s = Head(b) \/ InBatch(Tail(b), s)
         /\ OnceInBatch(b, s) => /\ OnceInBatch(Tail(b), s)
                                /\ ~(s = Head(b) /\ InBatch(Tail(b), s))
<1> DEFINE r == Tail(b)
<1>1. /\ DOMAIN b = 1..Len(b) /\ Len(b) \in Nat \ {0} /\ DOMAIN r = 1..Len(b) - 1
      /\ \A i \in 1..Len(b) - 1 : r[i] = b[i + 1]
      /\ Head(b) = b[1]
  BY HeadTailProperties, LenProperties, EmptySeq
<1> HIDE DEF r
<1>2. \A i \in DOMAIN b : i = 1 \/ (i - 1 \in DOMAIN r /\ b[i] = r[i - 1])
  BY <1>1
<1>3. 1 \in DOMAIN b /\ \A i \in DOMAIN r : i + 1 \in DOMAIN b /\ i + 1 # 1 /\ r[i] = b[i + 1]
  BY <1>1
<1>4. InBatch(b, s) <=> s = Head(b) \/ InBatch(r, s)
  BY <1>1, <1>2, <1>3 DEF InBatch
<1>5. OnceInBatch(b, s) => OnceInBatch(r, s)
  <2> SUFFICES ASSUME OnceInBatch(b, s), NEW i \in DOMAIN r, NEW j \in DOMAIN r, r[i] = s, r[j] = s
               PROVE  i = j
    BY DEF OnceInBatch
  <2>1. i + 1 = j + 1 BY <1>3 DEF OnceInBatch
  <2> QED BY <1>1, <2>1
<1>6. OnceInBatch(b, s) => ~(s = Head(b) /\ InBatch(r, s))
  BY <1>1, <1>3 DEF InBatch, OnceInBatch
<1> QED BY <1>4, <1>5, <1>6 DEF r

LEMMA QueueGrows ==
  ASSUME SpanTypes, NEW b \in Seq(Span), spanBatchesToProcess' = Append(spanBatchesToProcess, b),
         NEW s, OneQueue(s), OnceInBatch(b, s), ~(InQueue(s) /\ InBatch(b, s))
  PROVE  OneQueue(s)' /\ (InQueue(s)' <=> InQueue(s) \/ InBatch(b, s))
<1> DEFINE q == spanBatchesToProcess
           n == Len(q)
           r == Append(q, b)
<1>1. /\ DOMAIN q = 1..n /\ n \in Nat /\ DOMAIN r = 1..n + 1
      /\ \A i \in 1..n : r[i] = q[i]
      /\ r[n + 1] = b
  BY DEF SpanTypes
<1>2. spanBatchesToProcess' = r OBVIOUS
<1> HIDE DEF q, r, n
<1>3. \A i \in DOMAIN r : (i \in DOMAIN q /\ r[i] = q[i]) \/ (i = n + 1 /\ r[i] = b)
  BY <1>1
<1>4. n + 1 \in DOMAIN r /\ \A i \in DOMAIN q : i \in DOMAIN r /\ r[i] = q[i]
  BY <1>1
<1>5. InQueue(s)' <=> InQueue(s) \/ InBatch(b, s)
  BY <1>1, <1>2, <1>3, <1>4 DEF InQueue, q
<1>6. OneQueue(s)'
  BY <1>2, <1>3 DEF OneQueue, InQueue, q
<1> QED BY <1>5, <1>6

LEMMA QueueShrinks ==
  ASSUME SpanTypes, spanBatchesToProcess # <<>>,
         spanBatchesToProcess' = Tail(spanBatchesToProcess), NEW s, OneQueue(s)
  PROVE  /\ OneQueue(s)' /\ ~(InBatch(Head(spanBatchesToProcess), s) /\ InQueue(s)')
         /\ InQueue(s) <=> InBatch(Head(spanBatchesToProcess), s) \/ InQueue(s)'
         /\ OnceInBatch(Head(spanBatchesToProcess), s)
<1> DEFINE q == spanBatchesToProcess
           r == Tail(q)
<1>1. /\ DOMAIN q = 1..Len(q) /\ Len(q) \in Nat \ {0} /\ DOMAIN r = 1..Len(q) - 1
      /\ \A i \in 1..Len(q) - 1 : r[i] = q[i + 1]
      /\ Head(q) = q[1]
  BY HeadTailProperties, LenProperties, EmptySeq DEF SpanTypes
<1>2. spanBatchesToProcess' = r OBVIOUS
<1> HIDE DEF r, q
<1>3. \A i \in DOMAIN q : i = 1 \/ (i - 1 \in DOMAIN r /\ q[i] = r[i - 1])
  BY <1>1
<1>4. 1 \in DOMAIN q /\ \A i \in DOMAIN r : i + 1 \in DOMAIN q /\ i + 1 # 1 /\ r[i] = q[i + 1]
  BY <1>1
<1>5. InQueue(s) <=> InBatch(Head(q), s) \/ InQueue(s)'
  BY <1>1, <1>2, <1>3, <1>4 DEF InQueue, q
<1>6. ~(InBatch(Head(q), s) /\ InQueue(s)')
  BY <1>1, <1>2, <1>4 DEF InQueue, OneQueue, q
<1>7. OneQueue(s)'
  <2>1. ASSUME NEW i \in DOMAIN r, NEW j \in DOMAIN r, InBatch(r[i], s), InBatch(r[j], s)
        PROVE  i = j
    <3>1. i + 1 = j + 1 BY <1>4, <2>1 DEF OneQueue, q
    <3> QED BY <1>1, <3>1
  <2>2. \A i \in DOMAIN r : OnceInBatch(r[i], s) BY <1>4 DEF OneQueue, q
  <2> QED BY <1>2, <2>1, <2>2 DEF OneQueue
<1>8. OnceInBatch(Head(q), s) BY <1>1, <1>4 DEF OneQueue, q
<1> QED BY <1>5, <1>6, <1>7, <1>8 DEF q

-----------------------------------------------------------------------------
(* Where a span is *)

LEMMA PlacedInit == Init => Placed
<1> SUFFICES ASSUME Init, NEW s \in Span PROVE Located(s)
  BY DEF Placed
<1>1. ~InQueue(s) /\ OneQueue(s) BY DEF Init, InQueue, OneQueue
<1>2. ~InRest(s) /\ OneRest(s) BY DEF Init, InRest, OneRest, InBatch, OnceInBatch
<1>3. ~InHands(s) /\ OneHand(s) /\ ~InShard(s) /\ OneShard(s)
  BY DEF Init, InHands, OneHand, InShard, OneShard
<1>4. ~Settled(s) /\ OneOutcome(s) BY DEF Init, Settled, OneOutcome
<1>5. s \notin Accepted BY DEF Init, Accepted
<1> QED BY <1>1, <1>2, <1>3, <1>4, <1>5 DEF Located, Once, Apart, Somewhere

\* What a step leaves alone holds the spans it held.
LEMMA Frame ==
  ASSUME NEW s
  PROVE  /\ UNCHANGED spanBatchesToProcess =>
              (InQueue(s)' <=> InQueue(s)) /\ (OneQueue(s)' <=> OneQueue(s))
         /\ UNCHANGED rest => (InRest(s)' <=> InRest(s)) /\ (OneRest(s)' <=> OneRest(s))
         /\ UNCHANGED held => (InHands(s)' <=> InHands(s)) /\ (OneHand(s)' <=> OneHand(s))
         /\ UNCHANGED spans => (InShard(s)' <=> InShard(s)) /\ (OneShard(s)' <=> OneShard(s))
         /\ UNCHANGED outcomes => (Settled(s)' <=> Settled(s)) /\ (OneOutcome(s)' <=> OneOutcome(s))
         /\ UNCHANGED caller => (s \in Accepted' <=> s \in Accepted)
BY DEF InQueue, OneQueue, InRest, OneRest, InHands, OneHand, InShard, OneShard, Settled, OneOutcome,
       outcomes, Accepted

\* A batch is accepted with the spans it has, none of which was accepted before.
LEMMA CallerPlaced == ASSUME Control, Placed, NEW c \in Caller, CallerStep(c) PROVE Placed'
<1> SUFFICES ASSUME NEW s \in Span PROVE Located(s)'
  BY DEF Placed
<1>1. Located(s) BY DEF Placed
<1>2. UNCHANGED <<rest, held, spans, outcomes>>
  BY DEF CallerStep, CallerCheck, CallerAdd, CallerSend, procVars, seVars
<1>3. caller \in [Caller -> {"calling", "refused", "add", "send", "accepted"}]
  BY DEF Control, ControlTypes
<1>4. CASE CallerCheck(c) \/ CallerAdd(c)
  <2>1. UNCHANGED spanBatchesToProcess BY <1>4 DEF CallerCheck, CallerAdd
  <2>2. \A d \in Caller : caller'[d] = "accepted" <=> caller[d] = "accepted"
    BY <1>3, <1>4 DEF CallerCheck, CallerAdd
  <2>3. Accepted' = Accepted BY <2>2 DEF Accepted
  <2> QED BY <1>1, <1>2, <2>1, <2>3, Frame DEF Located, Once, Apart, Somewhere
<1>5. CASE CallerSend(c)
  <2>1. /\ SpansOf[c] \in Seq(Span) /\ caller[c] = "send" /\ caller'[c] = "accepted"
        /\ \A d \in Caller \ {c} : caller'[d] = caller[d]
        /\ spanBatchesToProcess' = Append(spanBatchesToProcess, SpansOf[c])
    BY <1>3, <1>5, BatchesAndBounds DEF CallerSend
  <2>2. s \in Accepted <=> \E d \in Caller : caller[d] = "accepted" /\ InBatch(SpansOf[d], s)
    BY DEF Accepted, ToSet, InBatch
  <2>3. s \in Accepted' <=> \E d \in Caller : caller'[d] = "accepted" /\ InBatch(SpansOf[d], s)
    BY DEF Accepted, ToSet, InBatch
  <2>4. s \in Accepted' <=> s \in Accepted \/ InBatch(SpansOf[c], s)
    BY <2>1, <2>2, <2>3
  <2>5. ~(s \in Accepted /\ InBatch(SpansOf[c], s))
    <3>1. \A d \in Caller : InBatch(SpansOf[d], s) <=> s \in ToSet(SpansOf[d])
      BY DEF InBatch, ToSet
    <3>2. \A d \in Caller \ {c} : ~(InBatch(SpansOf[d], s) /\ InBatch(SpansOf[c], s))
      BY <3>1, SpansAreDistinct
    <3> QED BY <2>1, <2>2, <3>2
  <2>6. OnceInBatch(SpansOf[c], s)
    BY SpansAreDistinct DEF IsInjective, OnceInBatch
  <2>7. ~(InQueue(s) /\ InBatch(SpansOf[c], s))
    BY <1>1, <2>5 DEF Located, Somewhere
  <2>8. OneQueue(s)' /\ (InQueue(s)' <=> InQueue(s) \/ InBatch(SpansOf[c], s))
    BY <1>1, <2>1, <2>6, <2>7, QueueGrows DEF Located, Once, Control
  <2> QED BY <1>1, <1>2, <2>4, <2>5, <2>8, Frame DEF Located, Once, Apart, Somewhere
<1> QED BY <1>4, <1>5 DEF CallerStep

LEMMA DequeuePlaced == ASSUME Control, Hands, Placed, NEW w \in Worker, Dequeue(w) PROVE Placed'
<1> SUFFICES ASSUME NEW s \in Span PROVE Located(s)'
  BY DEF Placed
<1> DEFINE batch == Head(spanBatchesToProcess)
<1>1. Located(s) BY DEF Placed
<1>2. UNCHANGED <<held, spans, outcomes, caller>> BY DEF Dequeue, seVars
<1>3. /\ OneQueue(s)' /\ ~(InBatch(batch, s) /\ InQueue(s)') /\ OnceInBatch(batch, s)
      /\ InQueue(s) <=> InBatch(batch, s) \/ InQueue(s)'
  BY <1>1, QueueShrinks DEF Dequeue, Control, Located, Once
<1>4. rest[w] = <<>> /\ rest' = [rest EXCEPT ![w] = batch] BY DEF Dequeue, Hands, Idle
<1>5. rest \in [Worker -> Seq(Span)] BY DEF Control, SpanTypes
<1>6. \A v \in Worker : rest'[v] = IF v = w THEN batch ELSE rest[v] BY <1>4, <1>5
<1>7. ~InBatch(rest[w], s) BY <1>4 DEF InBatch
<1> HIDE DEF batch
<1>8. InRest(s)' <=> InRest(s) \/ InBatch(batch, s)
  BY <1>6, <1>7 DEF InRest
<1>9. OneRest(s)'
  BY <1>1, <1>3, <1>6 DEF Located, Once, Apart, OneRest, InRest
<1> QED BY <1>1, <1>2, <1>3, <1>8, <1>9, Frame DEF Located, Once, Apart, Somewhere

LEMMA RoutePlaced == ASSUME Control, Hands, Placed, NEW w \in Worker, Route(w) PROVE Placed'
<1> SUFFICES ASSUME NEW s \in Span PROVE Located(s)'
  BY DEF Placed
<1>1. Located(s) BY DEF Placed
<1>2. UNCHANGED <<spanBatchesToProcess, spans, outcomes, caller>> BY DEF Route, seVars, queueVars
<1>3. /\ rest \in [Worker -> Seq(Span)] /\ held \in [Proc -> SUBSET Span] /\ w \in Proc
  BY ProcParts DEF Control, SpanTypes
<1>4. /\ rest[w] \in Seq(Span) /\ rest[w] # <<>> /\ held[w] = {}
      /\ \A v \in Worker : rest'[v] = IF v = w THEN Tail(rest[w]) ELSE rest[v]
      /\ \A p \in Proc : held'[p] = IF p = w THEN {Head(rest[w])} ELSE held[p]
  BY <1>3 DEF Route, Hands
<1>5. OnceInBatch(rest[w], s) BY <1>1 DEF Located, Once, OneRest
<1>6. /\ InBatch(rest[w], s) <=> s = Head(rest[w]) \/ InBatch(Tail(rest[w]), s)
      /\ OnceInBatch(Tail(rest[w]), s) /\ ~(s = Head(rest[w]) /\ InBatch(Tail(rest[w]), s))
  BY <1>4, <1>5, TailOfBatch
<1>7. OneRest(s)' /\ (InRest(s) <=> InRest(s)' \/ s = Head(rest[w]))
      /\ ~(InRest(s)' /\ s = Head(rest[w]))
  BY <1>1, <1>4, <1>6 DEF Located, Once, OneRest, InRest
<1>8. OneHand(s)' /\ (InHands(s)' <=> InHands(s) \/ s = Head(rest[w]))
  <2>1. InHands(s)' <=> InHands(s) \/ s = Head(rest[w])
    BY <1>3, <1>4 DEF InHands
  <2>2. ~(InHands(s) /\ s = Head(rest[w])) BY <1>1, <1>7 DEF Located, Apart
  <2> QED BY <1>1, <1>3, <1>4, <2>1, <2>2 DEF Located, Once, OneHand, InHands
<1> QED BY <1>1, <1>2, <1>7, <1>8, Frame DEF Located, Once, Apart, Somewhere

LEMMA EncodePlaced == ASSUME Control, Hands, Placed, NEW w \in Worker, Encode(w) PROVE Placed'
<1> SUFFICES ASSUME NEW s \in Span PROVE Located(s)'
  BY DEF Placed
<1>1. Located(s) BY DEF Placed
<1>2. UNCHANGED <<spanBatchesToProcess, rest, outcomes, caller>> BY DEF Encode, queueVars
<1>3. CASE UNCHANGED <<spans, held>>
  BY <1>1, <1>2, <1>3, Frame DEF Located, Once, Apart, Somewhere
<1>4. CASE /\ spans' = [spans EXCEPT ![target[w]] = @ \cup held[w]]
           /\ held' = [held EXCEPT ![w] = {}]
  <2>1. target[w] \in SE /\ w \in Proc BY ProcParts DEF Encode, Control, Targeted
  <2>2. /\ \A e \in SE : spans'[e] = IF e = target[w] THEN spans[e] \cup held[w] ELSE spans[e]
        /\ \A p \in Proc : held'[p] = IF p = w THEN {} ELSE held[p]
    BY <1>4 DEF Control, SpanTypes
  <2>3. OneHand(s)' /\ (InHands(s) <=> InHands(s)' \/ s \in held[w])
        /\ ~(InHands(s)' /\ s \in held[w])
    BY <1>1, <2>1, <2>2 DEF Located, Once, OneHand, InHands
  <2>4. InShard(s)' <=> InShard(s) \/ s \in held[w]
    BY <2>1, <2>2 DEF InShard
  <2>5. ~(InShard(s) /\ s \in held[w]) BY <1>1, <2>3 DEF Located, Apart
  <2>6. OneShard(s)'
    BY <1>1, <2>2, <2>5 DEF Located, Once, OneShard, InShard
  <2> QED BY <1>1, <1>2, <2>3, <2>4, <2>6, Frame DEF Located, Once, Apart, Somewhere
<1> QED BY <1>3, <1>4 DEF Encode

LEMMA FlushPlaced ==
  ASSUME Control, Hands, Placed, NEW p \in Proc, NEW next, Flush(p, next), SEof(p) \in SE,
         pc[p] \in {"flush", "select"}
  PROVE  Placed'
<1> SUFFICES ASSUME NEW s \in Span PROVE Located(s)'
  BY DEF Placed
<1> DEFINE se == SEof(p)
<1>1. Located(s) BY DEF Placed
<1>2. UNCHANGED <<spanBatchesToProcess, rest, outcomes, caller>> BY DEF Flush, queueVars
<1>3. CASE UNCHANGED <<spans, held>>
  BY <1>1, <1>2, <1>3, Frame DEF Located, Once, Apart, Somewhere
<1>4. CASE held' = [held EXCEPT ![p] = spans[se]] /\ spans' = [spans EXCEPT ![se] = {}]
  <2>1. held[p] = {} BY DEF Hands
  <2>2. /\ \A e \in SE : spans'[e] = IF e = se THEN {} ELSE spans[e]
        /\ \A q \in Proc : held'[q] = IF q = p THEN spans[se] ELSE held[q]
    BY <1>4 DEF Control, SpanTypes
  <2> HIDE DEF se
  <2>3. se \in SE BY DEF se
  <2>4. OneShard(s)' /\ (InShard(s) <=> InShard(s)' \/ s \in spans[se])
        /\ ~(InShard(s)' /\ s \in spans[se])
    BY <1>1, <2>2, <2>3 DEF Located, Once, OneShard, InShard
  <2>5. InHands(s)' <=> InHands(s) \/ s \in spans[se]
    BY <2>1, <2>2 DEF InHands
  <2>6. ~(InHands(s) /\ s \in spans[se]) BY <1>1, <2>4 DEF Located, Apart
  <2>7. OneHand(s)'
    BY <1>1, <2>2, <2>6 DEF Located, Once, OneHand, InHands
  <2> QED BY <1>1, <1>2, <2>4, <2>5, <2>7, Frame DEF Located, Once, Apart, Somewhere
<1> QED BY <1>3, <1>4 DEF Flush

LEMMA CallbackPlaced ==
  ASSUME Control, Hands, Placed, NEW p \in Proc,
         EmitRecord(p) \/ GiveBack(p) \/ (p \in Worker /\ Fail(p))
  PROVE  Placed'
<1> SUFFICES ASSUME NEW s \in Span PROVE Located(s)'
  BY DEF Placed
<1>1. Located(s) BY DEF Placed
<1>2. UNCHANGED <<spanBatchesToProcess, rest, spans, caller>> /\ held' = [held EXCEPT ![p] = {}]
  BY DEF EmitRecord, GiveBack, Fail, queueVars, seVars
<1>3. \A q \in Proc : held'[q] = IF q = p THEN {} ELSE held[q]
  BY <1>2 DEF Control, SpanTypes
<1>4. OneHand(s)' /\ (InHands(s) <=> InHands(s)' \/ s \in held[p])
      /\ ~(InHands(s)' /\ s \in held[p])
  BY <1>1, <1>3 DEF Located, Once, OneHand, InHands
<1>5. ~(Settled(s) /\ s \in held[p]) BY <1>1, <1>4 DEF Located, Apart
<1>6. OneOutcome(s)' /\ (Settled(s)' <=> Settled(s) \/ s \in held[p])
  BY <1>1, <1>5 DEF Located, Once, OneOutcome, Settled, EmitRecord, GiveBack, Fail
<1> QED BY <1>1, <1>2, <1>4, <1>6, Frame DEF Located, Once, Apart, Somewhere

LEMMA NobodyMoves ==
  ASSUME Placed, UNCHANGED <<spanBatchesToProcess, rest, held, spans, outcomes, caller>>
  PROVE  Placed'
<1> SUFFICES ASSUME NEW s \in Span PROVE Located(s)'
  BY DEF Placed
<1>1. Located(s) BY DEF Placed
<1> QED BY <1>1, Frame DEF Located, Once, Apart, Somewhere

LEMMA PlacedStep == Control /\ Hands /\ Placed /\ [Next]_vars => Placed'
<1> SUFFICES ASSUME Control, Hands, Placed, [Next]_vars PROVE Placed'
  OBVIOUS
<1>1. CASE \E c \in Caller : CallerStep(c) BY <1>1, CallerPlaced
<1>2. ASSUME NEW w \in Worker, WorkerStep(w) PROVE Placed'
  <2>1. w \in Proc BY ProcParts
  <2>2. CASE WorkerFlush(w)
    <3>1. SEof(w) \in SE BY <2>2 DEF WorkerFlush, SEof, Control, Targeted
    <3> QED BY <2>1, <2>2, <3>1, FlushPlaced DEF WorkerFlush
  <2>3. CASE HardStop(w) \/ BatchDone(w)
    BY <2>3, NobodyMoves DEF HardStop, BatchDone, queueVars, seVars
  <2> QED
    BY <1>2, <2>1, <2>2, <2>3, DequeuePlaced, RoutePlaced, EncodePlaced, CallbackPlaced DEF WorkerStep
<1>3. ASSUME NEW f \in Flusher, FlusherStep(f) PROVE Placed'
  <2>1. f \in Proc /\ SEof(f) \in SE BY ProcParts DEF SEof
  <2> QED BY <1>3, <2>1, FlushPlaced, CallbackPlaced DEF FlusherStep, Tick, SeeDone
<1>4. ASSUME NEW d \in Drainer, DrainerStep(d) PROVE Placed'
  <2>1. d \in Proc /\ SEof(d) \in SE BY ProcParts DEF SEof
  <2> QED BY <1>4, <2>1, FlushPlaced, CallbackPlaced DEF DrainerStep, DrainerFlush
<1>5. CASE \/ \E c \in Config \cup {NoConfig} : SetConfig(c)
           \/ ConfigLoopStep \/ BeginStop \/ StopStep \/ WaiterCheck \/ WaiterReturn
           \/ UNCHANGED vars
  <2>1. UNCHANGED <<spanBatchesToProcess, rest, held, spans, outcomes, caller>>
    BY <1>5
    DEF vars, queueVars, procVars, seVars, SetConfig, ConfigLoopStep, ConfigLoopCheck, ConfigLoopStop,
        ConfigLoopReject, ConfigLoopApply, ConfigLoopStartWorkers, BeginStop, WaiterCheck, WaiterReturn,
        StopStep, StopFlush, StopFlushed, StopEncoder, StopConfigChanges, SignalConfigChanges, FinishStop
  <2> QED BY <2>1, NobodyMoves
<1> QED BY <1>1, <1>2, <1>3, <1>4, <1>5 DEF Next

LEMMA PlacedImplies == Placed => SpanAccounting
<1> SUFFICES ASSUME Placed, NEW s \in Span
             PROVE  /\ \A p, q \in Places(s) : p = q
                    /\ Places(s) # {} <=> s \in Accepted
  BY DEF SpanAccounting
<1> DEFINE AtQueue(p)    == \E i \in DOMAIN spanBatchesToProcess :
                              \E j \in DOMAIN spanBatchesToProcess[i] :
                                p = <<"queue", <<i, j>>>> /\ spanBatchesToProcess[i][j] = s
           AtRest(p)     == \E w \in Worker : \E j \in DOMAIN rest[w] :
                              p = <<"rest", <<w, j>>>> /\ rest[w][j] = s
           AtHand(p)     == \E h \in Proc : p = <<"held", h>> /\ s \in held[h]
           AtShard(p)    == \E se \in SE : p = <<"spans", se>> /\ s \in spans[se]
           AtEmitted(p)  == p = <<"emitted", s>> /\ s \in emitted
           AtReturned(p) == p = <<"returned", s>> /\ s \in returned
           AtFailed(p)   == p = <<"failed", s>> /\ s \in failed
<1>1. Located(s) BY DEF Placed
<1>2. \A p : p \in Places(s) <=>
        AtQueue(p) \/ AtRest(p) \/ AtHand(p) \/ AtShard(p) \/ AtEmitted(p) \/ AtReturned(p) \/ AtFailed(p)
  BY DEF Places, PositionsOf
<1>3. /\ InQueue(s) <=> \E p : AtQueue(p)
      /\ InRest(s) <=> \E p : AtRest(p)
  BY DEF InQueue, InRest, InBatch
<1>4. /\ InHands(s) <=> \E p : AtHand(p)
      /\ InShard(s) <=> \E p : AtShard(p)
      /\ Settled(s) <=> \E p : AtEmitted(p) \/ AtReturned(p) \/ AtFailed(p)
  BY DEF InHands, InShard, Settled
<1>5. \A p, q : AtQueue(p) /\ AtQueue(q) => p = q
  BY <1>1 DEF Located, Once, OneQueue, InBatch, OnceInBatch
<1>6. \A p, q : AtRest(p) /\ AtRest(q) => p = q
  BY <1>1 DEF Located, Once, OneRest, InBatch, OnceInBatch
<1>7. \A p, q : /\ AtHand(p) /\ AtHand(q) => p = q
                /\ AtShard(p) /\ AtShard(q) => p = q
  BY <1>1 DEF Located, Once, OneHand, OneShard
<1> DEFINE AtOutcome(p) == AtEmitted(p) \/ AtReturned(p) \/ AtFailed(p)
<1>8. \A p, q : AtOutcome(p) /\ AtOutcome(q) => p = q
  BY <1>1 DEF Located, Once, OneOutcome
<1>9. \A p : /\ p \in Places(s) <=>
                  AtQueue(p) \/ AtRest(p) \/ AtHand(p) \/ AtShard(p) \/ AtOutcome(p)
             /\ (AtQueue(p) => InQueue(s)) /\ (AtRest(p) => InRest(s)) /\ (AtHand(p) => InHands(s))
             /\ (AtShard(p) => InShard(s)) /\ (AtOutcome(p) => Settled(s))
  BY <1>2, <1>3, <1>4
<1>10. Places(s) # {} <=> Somewhere(s)
  BY <1>3, <1>4, <1>9 DEF Somewhere
<1> HIDE DEF AtQueue, AtRest, AtHand, AtShard, AtOutcome
<1>11. \A p, q \in Places(s) : p = q
  BY <1>1, <1>5, <1>6, <1>7, <1>8, <1>9 DEF Located, Apart
<1> QED BY <1>1, <1>10, <1>11 DEF Located

\* Every span that EncodeSpans accepted is in exactly one place, the callbacks included,
\* however callers, workers, flushes, reconfigurations and Stop interleave: none is encoded
\* twice or given back after it was encoded, and none disappears (encoder.go:231, 419, 454).
THEOREM EverySpanInOnePlace == Spec => []SpanAccounting
<1>1. Control /\ Hands /\ Placed /\ [Next]_vars => Control' /\ Hands' /\ Placed'
  BY ControlStep, HandsStep, PlacedStep
<1> QED BY ControlInit, HandsInit, PlacedInit, <1>1, PlacedImplies, PTL DEF Spec
-----------------------------------------------------------------------------
(* The promise of SpanLedger *)

Pending == Accepted \ (emitted \cup returned \cup failed)

LEMMA AcceptedIsSpans == Accepted \subseteq Span
<1> SUFFICES ASSUME NEW c \in Caller, NEW s \in ToSet(SpansOf[c]) PROVE s \in Span
  BY DEF Accepted
<1>1. SpansOf[c] \in Seq(Span)
  BY BatchesAndBounds
<1> QED BY <1>1 DEF ToSet

LEMMA LedgerInit == Init => Ledger!Init
BY DEF Init, Ledger!Init, Accepted

\* What was settled had been accepted, and what a goroutine holds is pending.
LEMMA HeldIsPending ==
  ASSUME Control, Placed
  PROVE  /\ emitted \cup returned \cup failed \subseteq Accepted
         /\ \A p \in Proc : held[p] \subseteq Pending
<1>1. /\ emitted \subseteq Span /\ returned \subseteq Span /\ failed \subseteq Span
      /\ held \in [Proc -> SUBSET Span]
  BY DEF Control, SpanTypes
<1>2. \A s \in Span : Settled(s) => s \in Accepted
  BY DEF Placed, Located, Somewhere
<1>3. \A s \in Span : InHands(s) => s \in Accepted /\ ~Settled(s)
  BY DEF Placed, Located, Somewhere, Apart
<1> QED BY <1>1, <1>2, <1>3 DEF Settled, InHands, Pending

\* A batch that is queued is accepted as a whole, and none of it was before.
LEMMA SendAccepts ==
  ASSUME Control, Placed, NEW c \in Caller, CallerSend(c)
  PROVE  Ledger!Accept(ToSet(SpansOf[c])) /\ ToSet(SpansOf[c]) \in SUBSET Span
<1>1. caller \in [Caller -> {"calling", "refused", "add", "send", "accepted"}]
  BY DEF Control, ControlTypes
<1>2. /\ caller[c] = "send" /\ caller'[c] = "accepted"
      /\ \A d \in Caller \ {c} : caller'[d] = caller[d]
      /\ UNCHANGED outcomes
  BY <1>1 DEF CallerSend
<1>3. Accepted' = Accepted \cup ToSet(SpansOf[c])
  BY <1>2 DEF Accepted
<1>4. Accepted \cap ToSet(SpansOf[c]) = {}
  BY <1>2, SpansAreDistinct DEF Accepted
<1>5. emitted \cup returned \cup failed \subseteq Accepted
  BY HeldIsPending
<1>6. ToSet(SpansOf[c]) \in SUBSET Span
  <2>1. SpansOf[c] \in Seq(Span)
    BY BatchesAndBounds
  <2> QED BY <2>1 DEF ToSet
<1> QED BY <1>2, <1>3, <1>4, <1>5, <1>6 DEF Ledger!Accept, outcomes

LEMMA CallbackSettles ==
  ASSUME Control, Placed, NEW p \in Proc,
         EmitRecord(p) \/ GiveBack(p) \/ (p \in Worker /\ Fail(p))
  PROVE  Ledger!Next \/ UNCHANGED Ledger!ledgerVars
<1>1. held[p] \in SUBSET Pending /\ Accepted' = Accepted
  BY HeldIsPending DEF Accepted, EmitRecord, GiveBack, Fail, queueVars
<1>2. CASE held[p] = {}
  <2>1. emitted' = emitted /\ returned' = returned /\ failed' = failed
    BY <1>2 DEF EmitRecord, GiveBack, Fail
  <2> QED BY <1>1, <2>1 DEF Ledger!ledgerVars
<1>3. CASE held[p] # {} /\ EmitRecord(p)
  <2>1. emitted' = emitted \cup held[p] /\ UNCHANGED <<returned, failed>>
    BY <1>3 DEF EmitRecord
  <2>2. Ledger!Emit(held[p])
    BY <1>1, <1>3, <2>1 DEF Ledger!Emit, Pending
  <2> QED BY <1>1, <2>2 DEF Ledger!Next, Pending
<1>4. CASE held[p] # {} /\ (GiveBack(p) \/ Fail(p))
  <2>1. /\ returned' \cup failed' = returned \cup failed \cup held[p]
        /\ UNCHANGED emitted
    BY <1>4 DEF GiveBack, Fail
  <2>2. Ledger!GiveBack(held[p])
    BY <1>1, <1>4, <2>1 DEF Ledger!GiveBack, Pending
  <2> QED BY <1>1, <2>2 DEF Ledger!Next, Pending
<1> QED BY <1>2, <1>3, <1>4

LEMMA LedgerStep ==
  Control /\ Placed /\ [Next]_vars => [Ledger!Next]_(Ledger!ledgerVars)
<1> SUFFICES ASSUME Control, Placed, [Next]_vars
             PROVE  Ledger!Next \/ UNCHANGED Ledger!ledgerVars
  OBVIOUS
<1>1. ASSUME UNCHANGED <<caller, outcomes>> PROVE UNCHANGED Ledger!ledgerVars
  BY <1>1 DEF outcomes, Accepted, Ledger!ledgerVars
<1>2. ASSUME NEW c \in Caller, CallerStep(c) PROVE Ledger!Next \/ UNCHANGED Ledger!ledgerVars
  <2>1. CASE CallerSend(c)
    BY <2>1, SendAccepts DEF Ledger!Next
  <2>2. CASE CallerCheck(c) \/ CallerAdd(c)
    <3>1. caller \in [Caller -> {"calling", "refused", "add", "send", "accepted"}]
      BY DEF Control, ControlTypes
    <3>2. {d \in Caller : caller'[d] = "accepted"} = {d \in Caller : caller[d] = "accepted"}
      BY <2>2, <3>1 DEF CallerCheck, CallerAdd
    <3>3. UNCHANGED outcomes
      BY <2>2 DEF CallerCheck, CallerAdd
    <3> QED BY <3>2, <3>3 DEF outcomes, Accepted, Ledger!ledgerVars
  <2> QED BY <1>2, <2>1, <2>2 DEF CallerStep
<1>3. ASSUME NEW w \in Worker, WorkerStep(w) PROVE Ledger!Next \/ UNCHANGED Ledger!ledgerVars
  <2>1. w \in Proc BY ProcParts
  <2>2. CASE EmitRecord(w) \/ GiveBack(w) \/ Fail(w)
    BY <2>1, <2>2, CallbackSettles
  <2>3. CASE Dequeue(w) \/ HardStop(w) \/ Route(w) \/ Encode(w) \/ BatchDone(w) \/ WorkerFlush(w)
    <3>1. UNCHANGED <<caller, outcomes>>
      BY <2>3 DEF Dequeue, HardStop, Route, Encode, BatchDone, WorkerFlush, Flush, queueVars
    <3> QED BY <1>1, <3>1
  <2> QED BY <1>3, <2>2, <2>3 DEF WorkerStep
<1>4. ASSUME NEW p \in Flusher \cup Drainer,
             FlusherStep(p) \/ DrainerStep(p)
      PROVE  Ledger!Next \/ UNCHANGED Ledger!ledgerVars
  <2>1. p \in Proc BY ProcParts
  <2>2. CASE EmitRecord(p) \/ GiveBack(p)
    BY <2>1, <2>2, CallbackSettles
  <2>3. CASE Tick(p) \/ SeeDone(p) \/ DrainerFlush(p)
    <3>1. UNCHANGED <<caller, outcomes>>
      BY <2>3 DEF Tick, SeeDone, DrainerFlush, Flush, queueVars
    <3> QED BY <1>1, <3>1
  <2> QED BY <1>4, <2>2, <2>3 DEF FlusherStep, DrainerStep
<1>5. CASE \/ \E c \in Config \cup {NoConfig} : SetConfig(c)
           \/ ConfigLoopStep \/ BeginStop \/ StopStep \/ WaiterCheck \/ WaiterReturn
           \/ UNCHANGED vars
  <2>1. UNCHANGED <<caller, outcomes>>
    BY <1>5
    DEF vars, queueVars, SetConfig, ConfigLoopStep, ConfigLoopCheck, ConfigLoopStop,
        ConfigLoopReject, ConfigLoopApply, ConfigLoopStartWorkers, BeginStop, WaiterCheck, WaiterReturn,
        StopStep, StopFlush, StopFlushed, StopEncoder, StopConfigChanges, SignalConfigChanges, FinishStop
  <2> QED BY <1>1, <2>1
<1> QED BY <1>2, <1>3, <1>4, <1>5 DEF Next

\* The encoder keeps the promise of a shard encoder for all of them together, through any
\* number of replacements, invalid configurations and a Stop at any time: it implements
\* SpanLedger (encoder.go:216, shard_encoder.go:128).
THEOREM ImplementsLedger == Spec => LedgerSafety
<1>1. Control /\ Hands /\ Placed /\ [Next]_vars => Control' /\ Hands' /\ Placed'
  BY ControlStep, HandsStep, PlacedStep
<1> QED
  BY ControlInit, HandsInit, PlacedInit, LedgerInit, <1>1, LedgerStep, PTL
  DEF Spec, LedgerSafety, Ledger!Safety
-----------------------------------------------------------------------------
(* Who comes for accumulated spans *)

FlusherOf(se) == <<"flusher", se>>

\* Accumulated spans have a goroutine of flushPeriodically that has not left its loop.
Attended == \A se \in SE : spans[se] # {} => pc[FlusherOf(se)] \in {"select", "emit", "return"}

\* Every shard encoder that ever was in a list has been started, a worker only uses such a
\* one, nothing is in one before, and a goroutine leaves only what is stopped and empty.
Tended ==
  /\ \A g \in 1..generation : \A se \in EncodersOf(g) : pc[FlusherOf(se)] # "absent"
  /\ \A w \in Worker : pc[w] \in {"encode", "flush"} => pc[FlusherOf(target[w])] # "absent"
  /\ \A f \in Flusher : pc[f] \in {"absent", "select", "emit", "return", "finished"}
  /\ \A f \in Flusher : pc[f] = "absent" => spans[f[2]] = {}
  /\ \A f \in Flusher : pc[f] = "finished" => stopped[f[2]] /\ spans[f[2]] = {}

LEMMA FlusherParts == /\ \A se \in SE : FlusherOf(se) \in Flusher /\ FlusherOf(se)[2] = se
                      /\ \A f \in Flusher : f[2] \in SE /\ f = FlusherOf(f[2])
BY DEF Flusher, FlusherOf

LEMMA TendedInit == Init => Tended
BY ProcParts, FlusherParts, BatchesAndBounds DEF Init, Tended

\* The encoders of the generations so far are shard encoders.
LEMMA StartedAreSE == Control => \A g \in 1..generation : g \in Generation /\ EncodersOf(g) \subseteq SE
<1> SUFFICES ASSUME Control, NEW g \in 1..generation PROVE g \in Generation /\ EncodersOf(g) \subseteq SE
  OBVIOUS
<1>1. g \in Generation /\ configOf[g] \in Valid
  BY BatchesAndBounds DEF Control, ControlTypes, Numbered, Generation
<1> QED BY <1>1, ConfigsRouteToTheirShards DEF EncodersOf, SE

\* A goroutine takes a step of its own.
LEMMA OneTends ==
  ASSUME Control, Tended, NEW p \in Proc, NEW l \in Label, pc[p] # "absent", l # "absent",
         pc' = [pc EXCEPT ![p] = l], UNCHANGED <<generation, configOf, stopped>>,
         \A w \in Worker \ {p} : target'[w] = target[w],
         p \in Worker /\ l \in {"encode", "flush"} =>
           target'[p] \in SE /\ pc[FlusherOf(target'[p])] # "absent",
         p \in Flusher => l \in {"select", "emit", "return", "finished"},
         p \in Flusher /\ l = "finished" => stopped[p[2]] /\ spans'[p[2]] = {},
         \A se \in SE : spans'[se] \subseteq spans[se]
                        \/ (~stopped[se] /\ pc[FlusherOf(se)] # "absent")
  PROVE  Tended'
<1>1. \A q \in Proc : pc'[q] = IF q = p THEN l ELSE pc[q]
  BY DEF Control, SpanTypes
<1>2. \A se \in SE : FlusherOf(se) \in Proc /\ (pc[FlusherOf(se)] # "absent" => pc'[FlusherOf(se)] # "absent")
  BY <1>1, ProcParts, FlusherParts
<1>3. \A g \in 1..generation' : \A se \in EncodersOf(g)' : pc'[FlusherOf(se)] # "absent"
  BY <1>2, StartedAreSE DEF Tended, EncodersOf
<1>4. \A w \in Worker : pc'[w] \in {"encode", "flush"} => pc'[FlusherOf(target'[w])] # "absent"
  <2> SUFFICES ASSUME NEW w \in Worker, pc'[w] \in {"encode", "flush"}
               PROVE  pc'[FlusherOf(target'[w])] # "absent"
    OBVIOUS
  <2>1. w # p => target'[w] \in SE /\ pc[FlusherOf(target'[w])] # "absent"
    BY <1>1, ProcParts DEF Tended, Control, Targeted
  <2> QED BY <1>1, <1>2, <2>1, ProcParts
<1>5. \A f \in Flusher : pc'[f] \in {"absent", "select", "emit", "return", "finished"}
  BY <1>1, ProcParts DEF Tended
<1>6. ASSUME NEW f \in Flusher, pc'[f] = "absent" PROVE spans'[f[2]] = {}
  <2>1. pc[f] = "absent" /\ spans[f[2]] = {} BY <1>1, <1>6, ProcParts DEF Tended
  <2> QED BY <2>1, FlusherParts
<1>7. ASSUME NEW f \in Flusher, pc'[f] = "finished" PROVE stopped'[f[2]] /\ spans'[f[2]] = {}
  <2>1. CASE f = p BY <1>1, <1>7, <2>1
  <2>2. CASE f # p
    <3>1. stopped[f[2]] /\ spans[f[2]] = {} BY <1>1, <1>7, <2>2, ProcParts DEF Tended
    <3> QED BY <3>1, FlusherParts
  <2> QED BY <2>1, <2>2
<1> QED BY <1>3, <1>4, <1>5, <1>6, <1>7 DEF Tended
\* The goroutines that handle spans.
LEMMA TendedGoroutine ==
  ASSUME Control, Hands, Tended,
         \/ \E w \in Worker : WorkerStep(w)
         \/ \E f \in Flusher : FlusherStep(f)
         \/ \E d \in Drainer : DrainerStep(d)
  PROVE  Tended'
<1> USE DEF Goto, listVars, seVars
<1>1. ASSUME NEW w \in Worker, Dequeue(w) \/ HardStop(w) \/ BatchDone(w) PROVE Tended'
  <2>1. PICK l \in {"batch", "finished", "select"} : pc' = [pc EXCEPT ![w] = l]
    BY <1>1 DEF Dequeue, HardStop, BatchDone
  <2>2. pc[w] # "absent" /\ UNCHANGED <<generation, configOf, spans, stopped, target>>
    BY <1>1 DEF Dequeue, HardStop, BatchDone
  <2> QED BY <2>1, <2>2, ProcParts, OneTends DEF Label
<1>2. ASSUME NEW w \in Worker, Route(w) PROVE Tended'
  <2> DEFINE s     == Head(rest[w])
             shard == ShardOf[configOf[generation]][s]
             l     == IF shard = NoShard THEN "fail" ELSE "encode"
  <2>1. /\ pc[w] = "batch" /\ pc' = [pc EXCEPT ![w] = l]
        /\ UNCHANGED <<generation, configOf, spans, stopped>>
        /\ \A v \in Worker \ {w} : target'[v] = target[v]
        /\ target'[w] = IF shard = NoShard THEN <<>> ELSE <<generation, shard>>
    BY <1>2 DEF Route, Control, SpanTypes
  <2>2. generation \in 1..generation
    BY <2>1, ProcParts DEF Control, WorkersWait, ControlTypes
  <2>3. configOf[generation] \in Valid /\ s \in Span
    BY <1>2, <2>2 DEF Control, Numbered, SpanTypes, Route
  <2>4. shard # NoShard => <<generation, shard>> \in EncodersOf(generation)
    BY <2>2, <2>3, ConfigsRouteToTheirShards DEF EncodersOf
  <2>5. l = "encode" => target'[w] \in SE /\ pc[FlusherOf(target'[w])] # "absent"
    BY <2>1, <2>2, <2>4, StartedAreSE DEF Tended
  <2>6. l \in {"fail", "encode"} OBVIOUS
  <2> HIDE DEF l
  <2> QED BY <2>1, <2>5, <2>6, ProcParts, OneTends DEF Label
<1>3. ASSUME NEW w \in Worker, Encode(w) PROVE Tended'
  <2>1. PICK l \in {"fail", "return", "flush", "batch"} : pc' = [pc EXCEPT ![w] = l]
    BY <1>3 DEF Encode
  <2>2. /\ pc[w] = "encode" /\ UNCHANGED <<generation, configOf, stopped, target>>
        /\ \A se \in SE : spans'[se] = spans[se] \/ (se = target[w] /\ ~stopped[se])
    BY <1>3 DEF Encode, Control, SpanTypes
  <2>3. target[w] \in SE /\ pc[FlusherOf(target[w])] # "absent"
    BY <2>2 DEF Tended, Control, Targeted
  <2> QED BY <2>1, <2>2, <2>3, ProcParts, OneTends DEF Label
<1>4. ASSUME NEW p \in Proc, NEW next \in {"batch", "select", "finished"}, Flush(p, next),
             SEof(p) \in SE, pc[p] # "absent", p \in Flusher => next # "batch",
             p \in Flusher /\ next = "finished" => stopped[p[2]]
      PROVE  Tended'
  <2>1. PICK l \in {"batch", "select", "finished", "return", "emit"} :
          /\ pc' = [pc EXCEPT ![p] = l]
          /\ (l = next /\ spans[SEof(p)] = {} /\ UNCHANGED spans) \/ l \in {"return", "emit"}
    BY <1>4 DEF Flush
  <2>2. /\ UNCHANGED <<generation, configOf, stopped, target>>
        /\ \A se \in SE : spans'[se] \subseteq spans[se]
    BY <1>4 DEF Flush, Control, SpanTypes
  <2>3. p \in Flusher => SEof(p) = p[2]
    BY ProcParts DEF SEof
  <2> QED BY <1>4, <2>1, <2>2, <2>3, OneTends DEF Label
<1>5. ASSUME NEW p \in Proc, EmitRecord(p) \/ GiveBack(p) \/ (p \in Worker /\ Fail(p)) PROVE Tended'
  <2>1. PICK l \in {"batch", "select", "finished"} :
          /\ pc' = [pc EXCEPT ![p] = l] /\ (p \in Flusher => l = "select")
    BY <1>5, ProcParts DEF EmitRecord, GiveBack, Fail, AfterFlush
  <2>2. pc[p] # "absent" /\ UNCHANGED <<generation, configOf, spans, stopped, target>>
    BY <1>5 DEF EmitRecord, GiveBack, Fail
  <2> QED BY <2>1, <2>2, OneTends DEF Label
<1>6. ASSUME NEW w \in Worker, WorkerFlush(w) PROVE Tended'
  <2>1. w \in Proc /\ w \notin Flusher /\ SEof(w) \in SE
    BY <1>6, ProcParts DEF WorkerFlush, SEof, Control, Targeted
  <2> QED BY <1>4, <1>6, <2>1 DEF WorkerFlush
<1>7. ASSUME NEW f \in Flusher, Tick(f) \/ SeeDone(f) PROVE Tended'
  <2>1. f \in Proc /\ SEof(f) \in SE BY ProcParts DEF SEof
  <2> QED BY <1>4, <1>7, <2>1 DEF Tick, SeeDone
<1>8. ASSUME NEW d \in Drainer, DrainerFlush(d) PROVE Tended'
  <2>1. d \in Proc /\ d \notin Flusher /\ SEof(d) \in SE BY ProcParts DEF SEof
  <2> QED BY <1>4, <1>8, <2>1 DEF DrainerFlush
<1> QED
  BY <1>1, <1>2, <1>3, <1>5, <1>6, <1>7, <1>8, ProcParts DEF WorkerStep, FlusherStep, DrainerStep

\* Who starts goroutines starts what is absent; the others move nobody and no spans.
LEMMA TendedOthers ==
  ASSUME Control, Hands, Tended,
         \/ \E c \in Config \cup {NoConfig} : SetConfig(c)
         \/ ConfigLoopStep \/ \E c \in Caller : CallerStep(c)
         \/ BeginStop \/ StopStep \/ WaiterCheck \/ WaiterReturn \/ UNCHANGED vars,
         \A se \in SE : stopped[se] => stopped'[se]
  PROVE  Tended'
<1> USE DEF seVars, procVars, listVars
<1>1. CASE ConfigLoopApply
  <2> DEFINE started == {"flusher"} \X ({generation + 1} \X ShardsOf[loop.config])
  <2>1. /\ generation \in Nat /\ generation + 1 \in Generation /\ loop.config \in Valid
        /\ ShardsOf[loop.config] \subseteq Shard
    BY <1>1, BatchesAndBounds, ConfigsRouteToTheirShards
    DEF ConfigLoopApply, Control, ControlTypes, Numbered, Generation
  <2>2. /\ \A p \in Proc : pc'[p] = IF p \in started THEN "select" ELSE pc[p]
        /\ UNCHANGED <<target, spans, stopped>> /\ generation' = generation + 1
        /\ \A g \in Generation : configOf'[g] = IF g = generation + 1 THEN loop.config ELSE configOf[g]
    BY <1>1, <2>1 DEF ConfigLoopApply, Control, ControlTypes
  <2>3. started \subseteq Flusher BY <2>1 DEF Flusher, SE
  <2>4. ASSUME NEW g \in 1..(generation + 1), NEW se \in EncodersOf(g)' PROVE pc'[FlusherOf(se)] # "absent"
    <3>1. CASE g = generation + 1
      <4>1. se \in SE /\ FlusherOf(se) \in started
        BY <2>1, <2>2, <2>4, <3>1 DEF EncodersOf, FlusherOf, SE
      <4> QED BY <2>2, <4>1, FlusherParts, ProcParts
    <3>2. CASE g # generation + 1
      <4>1. g \in 1..generation BY <2>1, <3>2
      <4>2. se \in EncodersOf(g) /\ se \in SE
        BY <2>2, <2>4, <3>2, <4>1, StartedAreSE DEF EncodersOf
      <4>3. pc[FlusherOf(se)] # "absent" BY <4>1, <4>2 DEF Tended
      <4> QED BY <2>2, <4>2, <4>3, FlusherParts, ProcParts
    <3> QED BY <3>1, <3>2
  <2> HIDE DEF started
  <2>5. \A w \in Worker : pc'[w] \in {"encode", "flush"} => pc'[FlusherOf(target'[w])] # "absent"
    <3> SUFFICES ASSUME NEW w \in Worker, pc'[w] \in {"encode", "flush"}
                 PROVE  pc'[FlusherOf(target[w])] # "absent"
      BY <2>2
    <3>1. target[w] \in SE /\ pc[FlusherOf(target[w])] # "absent"
      BY <2>2, <2>3, ProcParts DEF Tended, Control, Targeted
    <3> QED BY <2>2, <3>1, FlusherParts, ProcParts
  <2>6. \A f \in Flusher : /\ pc'[f] \in {"absent", "select", "emit", "return", "finished"}
                           /\ pc'[f] = "absent" => spans'[f[2]] = {}
                           /\ pc'[f] = "finished" => stopped'[f[2]] /\ spans'[f[2]] = {}
    BY <2>2, ProcParts DEF Tended
  <2> QED BY <2>2, <2>4, <2>5, <2>6 DEF Tended
<1>2. CASE ConfigLoopStartWorkers \/ StopFlush
  <2>1. /\ \A p \in Proc : pc'[p] = pc[p] \/ (p \notin Flusher /\ pc'[p] = "select")
                           \/ (p \in Drainer /\ pc'[p] = "flush")
        /\ UNCHANGED <<generation, configOf, spans, stopped, target>>
    BY <1>2, ProcParts, EncodersAreSE DEF ConfigLoopStartWorkers, StopFlush, Drainer
  <2>2. \A f \in Flusher : pc'[f] = pc[f]
    BY <2>1, ProcParts
  <2>3. \A w \in Worker : pc'[w] \in {"encode", "flush"} =>
          target[w] \in SE /\ pc[FlusherOf(target[w])] # "absent"
    BY <2>1, ProcParts DEF Tended, Control, Targeted
  <2>4. \A g \in 1..generation : \A se \in EncodersOf(g) : se \in SE
    BY StartedAreSE
  <2> QED BY <2>1, <2>2, <2>3, <2>4, FlusherParts DEF Tended, EncodersOf
<1>3. CASE UNCHANGED <<generation, configOf, spans, pc, target>>
  BY <1>3, FlusherParts DEF Tended, EncodersOf
<1> QED
  BY <1>1, <1>2, <1>3
  DEF vars, SetConfig, ConfigLoopStep, ConfigLoopCheck, ConfigLoopStop, ConfigLoopReject, CallerStep,
      CallerCheck, CallerAdd, CallerSend, BeginStop, WaiterCheck, WaiterReturn, StopStep,
      StopFlushed, StopEncoder, StopConfigChanges, SignalConfigChanges, FinishStop

\* Spans that a shard encoder has accumulated are never left behind: until they are gone its
\* goroutine of flushPeriodically runs, and comes at a tick or when it sees that the encoder
\* was stopped, even if the list was replaced while a worker was about to add them, or Stop
\* had drained the encoder before (encoder.go:419).  That it does come is liveness.
THEOREM SpansAttended == Spec => []Attended
<1>1. Control /\ Hands /\ Tended /\ [Next]_vars => Control' /\ Hands' /\ Tended'
  <2> SUFFICES ASSUME Control, Hands, Tended, [Next]_vars PROVE Tended'
    BY ControlStep, HandsStep
  <2>1. \A se \in SE : stopped[se] => stopped'[se] BY StoppedStays
  <2> QED BY <2>1, TendedGoroutine, TendedOthers DEF Next
<1>2. Tended => Attended
  BY FlusherParts DEF Tended, Attended
<1> QED BY ControlInit, HandsInit, TendedInit, <1>1, <1>2, PTL DEF Spec
=============================================================================
