--------------------------- MODULE EncoderProofs ----------------------------
(***************************************************************************)
(* Proofs about Encoder, for any finite sets of callers and workers, any   *)
(* spans, shards and configurations, and any number of replacements.  The  *)
(* inductive invariant has three layers: the types with what ties them to  *)
(* the configurations, the stopping of replaced shard encoders, and the    *)
(* count of the WaitGroup.                                                 *)
(***************************************************************************)
EXTENDS Encoder, FiniteSetTheorems, TLAPS

LoopState == [at : {"check", "asleep", "stopping", "workers", "exited"},
              config : Config \cup {NoConfig}, toStop : SUBSET SE]
StopState == [at : {"idle", "draining", "flushing", "stopping", "signalling", "closing",
                    "stopped"}, toStop : SUBSET SE]
Label     == {"absent", "select", "batch", "encode", "flush", "emit", "return", "fail",
              "finished"}

\* Types of what controls the encoder; a count may be negative as far as this goes.
ControlTypes ==
  /\ configChangeRequest \in Config \cup {NoConfig} /\ configChangeStopped \in BOOLEAN
  /\ loop \in LoopState /\ stop \in StopState
  /\ setCalls \in 0..MaxConfigs /\ generation \in Nat
  /\ configOf \in [Generation -> Valid \cup {NoConfig}] /\ stopped \in [SE -> BOOLEAN]
  /\ spansToProcessWg \in Int
  /\ caller \in [Caller -> {"calling", "refused", "add", "send", "accepted"}]
  /\ isStopping \in BOOLEAN /\ workerHardStop \in BOOLEAN
  /\ waiter \in {"absent", "started", "asleep", "woken", "returned", "panicked"}

\* Types of what holds spans and of the goroutines that handle them.
SpanTypes ==
  /\ spans \in [SE -> SUBSET Span] /\ spanBatchesToProcess \in Seq(Seq(Span))
  /\ pc \in [Proc -> Label] /\ held \in [Proc -> SUBSET Span]
  /\ rest \in [Worker -> Seq(Span)] /\ target \in [Worker -> SE \cup {<<>>}]
  /\ emitted \subseteq Span /\ returned \subseteq Span /\ failed \subseteq Span

\* A generation takes one call of SetConfig, and what is requested or under way may yet
\* become one; each was started with a valid configuration.
Numbered ==
  /\ generation + (IF configChangeRequest # NoConfig THEN 1 ELSE 0)
                + (IF loop.at = "stopping" THEN 1 ELSE 0) <= setCalls
  /\ \A g \in 1..generation : configOf[g] \in Valid

\* No worker runs before there is a shard encoder to feed.
WorkersWait ==
  generation = 0 \/ (generation = 1 /\ loop.at = "workers") =>
    \A w \in Worker : pc[w] = "absent"

\* A worker at a shard encoder has found one.
Targeted == \A w \in Worker : pc[w] \in {"encode", "flush"} => target[w] \in SE

Control == ControlTypes /\ SpanTypes /\ Numbered /\ WorkersWait /\ Targeted

-----------------------------------------------------------------------------
(* Types *)

LEMMA ProcParts == /\ Worker \subseteq Proc /\ Flusher \subseteq Proc /\ Drainer \subseteq Proc
                   /\ \A f \in Flusher : f \notin Worker /\ f[2] \in SE
                   /\ \A d \in Drainer : d \notin Worker /\ d \notin Flusher /\ d[2] \in SE
BY WorkersAreDistinct DEF Proc, Flusher, Drainer

LEMMA ControlInit == Init => Control
<1> SUFFICES ASSUME Init PROVE Control
  OBVIOUS
<1> USE BatchesAndBounds, ConfigsRouteToTheirShards
<1>1. ControlTypes
  <2>1. stopped \in [SE -> BOOLEAN]
    BY Zenon DEF Init
  <2>2. loop \in LoopState /\ stop \in StopState
    BY DEF Init, LoopState, StopState
  <2>3. configOf \in [Generation -> Valid \cup {NoConfig}]
    BY DEF Init
  <2>4. setCalls \in 0..MaxConfigs /\ generation \in Nat /\ spansToProcessWg \in Int
    BY DEF Init
  <2>5. /\ configChangeStopped \in BOOLEAN /\ isStopping \in BOOLEAN /\ workerHardStop \in BOOLEAN
        /\ configChangeRequest \in Config \cup {NoConfig}
        /\ waiter \in {"absent", "started", "asleep", "woken", "returned", "panicked"}
        /\ caller \in [Caller -> {"calling", "refused", "add", "send", "accepted"}]
    BY DEF Init
  <2> QED BY <2>1, <2>2, <2>3, <2>4, <2>5 DEF ControlTypes
<1>2. SpanTypes BY DEF Init, SpanTypes, Label
<1>3. Numbered BY DEF Init, Numbered
<1>4. WorkersWait /\ Targeted BY ProcParts DEF Init, WorkersWait, Targeted
<1> QED BY <1>1, <1>2, <1>3, <1>4 DEF Control

\* The list of shard encoders in use is a set of them.
LEMMA EncodersAreSE == Control => EncodersOf(generation) \subseteq SE
<1> SUFFICES ASSUME Control, generation # 0 PROVE EncodersOf(generation) \subseteq SE
  BY DEF EncodersOf
<1>1. generation \in Generation /\ configOf[generation] \in Valid
  BY BatchesAndBounds DEF Control, ControlTypes, Numbered, Generation
<1>2. ShardsOf[configOf[generation]] \subseteq Shard
  BY <1>1, ConfigsRouteToTheirShards
<1> QED BY <1>1, <1>2 DEF EncodersOf, SE

LEMMA SetConfigTypes ==
  ASSUME Control, NEW c \in Config \cup {NoConfig}, SetConfig(c) PROVE Control'
<1> USE BatchesAndBounds DEF Control, SetConfig, listVars, seVars, queueVars, procVars, stopVars, outcomes
<1>1. loop' \in LoopState BY DEF Signalled, LoopState, ControlTypes
<1>2. ControlTypes' BY <1>1 DEF ControlTypes
<1>3. SpanTypes' BY DEF SpanTypes
<1>4. Numbered' BY DEF Numbered, ControlTypes, Signalled, LoopState
<1>5. WorkersWait' /\ Targeted' BY DEF WorkersWait, Targeted, Signalled, ControlTypes, LoopState
<1> QED BY <1>2, <1>3, <1>4, <1>5

LEMMA LoopTypes == ASSUME Control, ConfigLoopStep PROVE Control'
<1> USE BatchesAndBounds, ConfigsRouteToTheirShards
    DEF Control, configVars, listVars, seVars, queueVars, procVars, stopVars, outcomes
<1>1. CASE ConfigLoopCheck
  <2> USE <1>1 DEF ConfigLoopCheck
  <2>1. loop' \in LoopState BY EncodersAreSE DEF LoopState, ControlTypes
  <2>2. ControlTypes' BY <2>1 DEF ControlTypes
  <2>3. SpanTypes' BY DEF SpanTypes
  <2>4. Numbered' BY DEF Numbered, ControlTypes, LoopState
  <2>5. WorkersWait' /\ Targeted' BY DEF WorkersWait, Targeted, ControlTypes, LoopState
  <2> QED BY <2>2, <2>3, <2>4, <2>5
<1>2. ASSUME NEW se \in SE, ConfigLoopStop(se) PROVE Control'
  <2> USE <1>2 DEF ConfigLoopStop
  <2>1. ControlTypes'
    <3>1. stopped' \in [SE -> BOOLEAN] BY DEF ControlTypes
    <3>2. loop' \in LoopState BY DEF ControlTypes, LoopState
    <3> QED BY <3>1, <3>2 DEF ControlTypes
  <2>2. SpanTypes' BY DEF SpanTypes
  <2>3. Numbered' BY DEF Numbered, ControlTypes, LoopState
  <2>4. WorkersWait' /\ Targeted' BY DEF WorkersWait, Targeted, ControlTypes, LoopState
  <2> QED BY <2>1, <2>2, <2>3, <2>4
<1>3. CASE ConfigLoopReject
  <2> USE <1>3 DEF ConfigLoopReject
  <2>1. ControlTypes'
    <3>1. loop' \in LoopState BY DEF ControlTypes, LoopState
    <3> QED BY <3>1 DEF ControlTypes
  <2>2. SpanTypes' BY DEF SpanTypes
  <2>3. Numbered' BY DEF Numbered, ControlTypes, LoopState
  <2>4. WorkersWait' /\ Targeted' BY DEF WorkersWait, Targeted, ControlTypes, LoopState
  <2> QED BY <2>1, <2>2, <2>3, <2>4
<1>4. CASE ConfigLoopApply
  <2> USE <1>4 DEF ConfigLoopApply
  <2>1. ControlTypes'
    <3>1. loop' \in LoopState BY DEF ControlTypes, LoopState
    <3>2. configOf' \in [Generation -> Valid \cup {NoConfig}] BY DEF ControlTypes
    <3>3. generation' \in Nat BY DEF ControlTypes
    <3> QED BY <3>1, <3>2, <3>3 DEF ControlTypes
  <2>2. SpanTypes' BY DEF SpanTypes, Label
  <2>3. Numbered'
    <3>1. generation + 1 <= setCalls /\ generation + 1 \in Generation
      BY DEF Numbered, ControlTypes, Generation
    <3>2. \A g \in 1..generation + 1 : configOf'[g] \in Valid
      BY <3>1 DEF Numbered, ControlTypes, Generation
    <3>3. loop'.at = "workers" /\ configChangeRequest' = configChangeRequest
      BY DEF ControlTypes, LoopState
    <3> QED BY <3>2, <3>3 DEF Numbered, ControlTypes
  <2>4. \A w \in Worker : pc'[w] = pc[w]
    <3>1. \A w \in Worker : w \in Proc /\ w \notin Flusher BY ProcParts
    <3>2. {"flusher"} \X ({generation + 1} \X ShardsOf[loop.config]) \cap Worker = {}
      <4>1. generation + 1 \in Generation BY DEF Numbered, ControlTypes, Generation
      <4>2. {generation + 1} \X ShardsOf[loop.config] \subseteq SE BY <4>1 DEF SE
      <4> QED BY <4>2, <3>1 DEF Flusher
    <3> QED BY <3>1, <3>2
  <2>5. WorkersWait'
    <3>1. generation' = generation + 1 /\ generation \in Nat BY DEF ControlTypes
    <3>2. generation = 0 => \A w \in Worker : pc[w] = "absent" BY DEF WorkersWait
    <3> HIDE <1>4 DEF ConfigLoopApply
    <3> QED BY <2>4, <3>1, <3>2 DEF WorkersWait
  <2>6. Targeted' BY <2>4 DEF Targeted
  <2> QED BY <2>1, <2>2, <2>3, <2>5, <2>6
<1>5. CASE ConfigLoopStartWorkers
  <2> USE <1>5 DEF ConfigLoopStartWorkers
  <2>1. ControlTypes' BY DEF ControlTypes, LoopState
  <2>2. SpanTypes' BY DEF SpanTypes, Label
  <2>3. Numbered' BY DEF Numbered, ControlTypes, LoopState
  <2>4. WorkersWait' BY ProcParts DEF WorkersWait, ControlTypes, LoopState
  <2>5. Targeted' BY ProcParts DEF Targeted
  <2> QED BY <2>1, <2>2, <2>3, <2>4, <2>5
<1> QED BY <1>1, <1>2, <1>3, <1>4, <1>5 DEF ConfigLoopStep

LEMMA CallerTypes == ASSUME Control, NEW c \in Caller, CallerStep(c) PROVE Control'
<1> USE BatchesAndBounds
    DEF Control, configVars, listVars, seVars, procVars, stopVars, outcomes
<1>1. Numbered' /\ WorkersWait' /\ Targeted'
  BY DEF CallerStep, CallerCheck, CallerAdd, CallerSend, Numbered, WorkersWait, Targeted
<1>2. ControlTypes'
  BY DEF CallerStep, CallerCheck, CallerAdd, CallerSend, ControlTypes
<1>3. SpanTypes'
  <2>1. SpansOf[c] \in Seq(Span)
    OBVIOUS
  <2>2. spanBatchesToProcess' \in Seq(Seq(Span))
    <3>1. CASE CallerSend(c)
      <4>1. spanBatchesToProcess' = Append(spanBatchesToProcess, SpansOf[c])
        BY <3>1 DEF CallerSend
      <4>2. spanBatchesToProcess \in Seq(Seq(Span)) BY DEF SpanTypes
      <4> QED BY <2>1, <4>1, <4>2
    <3>2. CASE CallerCheck(c) \/ CallerAdd(c)
      BY <3>2 DEF CallerCheck, CallerAdd, SpanTypes
    <3> QED BY <3>1, <3>2 DEF CallerStep
  <2> QED BY <2>2 DEF CallerStep, CallerCheck, CallerAdd, CallerSend, SpanTypes
<1> QED BY <1>1, <1>2, <1>3

LEMMA StopTypes ==
  ASSUME Control, BeginStop \/ StopStep \/ WaiterCheck \/ WaiterReturn PROVE Control'
<1> USE DEF Control, configVars, listVars, seVars, queueVars, procVars, stopVars, outcomes
<1>1. CASE BeginStop \/ WaiterCheck \/ WaiterReturn
  BY <1>1 DEF BeginStop, WaiterCheck, WaiterReturn, ControlTypes, SpanTypes, Numbered, WorkersWait,
              Targeted, StopState
<1>2. CASE StopFlush
  <2> USE <1>2 DEF StopFlush
  <2>1. \A w \in Worker : pc'[w] = pc[w]
    BY EncodersAreSE, ProcParts DEF Drainer
  <2>2. SpanTypes' BY DEF SpanTypes, Label
  <2>3. ControlTypes' BY DEF ControlTypes, StopState
  <2>4. WorkersWait' /\ Targeted' BY <2>1 DEF WorkersWait, Targeted
  <2> QED BY <2>2, <2>3, <2>4 DEF Numbered
<1>3. CASE StopFlushed
  BY <1>3, EncodersAreSE DEF StopFlushed, ControlTypes, SpanTypes, Numbered, WorkersWait, Targeted, StopState
<1>4. ASSUME NEW se \in SE, StopEncoder(se) PROVE Control'
  BY <1>4 DEF StopEncoder, ControlTypes, SpanTypes, Numbered, WorkersWait, Targeted, StopState
<1>5. CASE StopConfigChanges \/ FinishStop
  BY <1>5 DEF StopConfigChanges, FinishStop, ControlTypes, SpanTypes, Numbered, WorkersWait, Targeted, StopState
<1>6. CASE SignalConfigChanges
  <2>1. loop' \in LoopState BY <1>6 DEF SignalConfigChanges, Signalled, LoopState, ControlTypes
  <2>2. ControlTypes' BY <1>6, <2>1 DEF SignalConfigChanges, ControlTypes, StopState
  <2>3. Numbered' /\ WorkersWait'
    BY <1>6 DEF SignalConfigChanges, Numbered, WorkersWait, Signalled, LoopState, ControlTypes
  <2> QED BY <1>6, <2>2, <2>3 DEF SignalConfigChanges, SpanTypes, Targeted
<1> QED BY <1>1, <1>2, <1>3, <1>4, <1>5, <1>6 DEF StopStep

\* What the steps of goroutines that encode and flush leave alone.
LEMMA ControlTypesKept ==
  ASSUME ControlTypes, UNCHANGED <<configVars, listVars, stopped, stopVars, caller>>,
         spansToProcessWg' \in Int,
         waiter' \in {"absent", "started", "asleep", "woken", "returned", "panicked"}
  PROVE  ControlTypes'
BY DEF ControlTypes, configVars, listVars, stopVars

LEMMA DequeueTypes == ASSUME Control, NEW w \in Worker, Dequeue(w) PROVE Control'
<1> USE DEF Control, Dequeue, Goto, seVars
<1>1. ControlTypes' BY ControlTypesKept DEF ControlTypes
<1>2. /\ Head(spanBatchesToProcess) \in Seq(Span)
      /\ Tail(spanBatchesToProcess) \in Seq(Seq(Span))
  BY DEF SpanTypes
<1>3. SpanTypes' BY <1>2, ProcParts DEF SpanTypes, Label, outcomes
<1>4. Numbered' BY DEF Numbered, configVars, listVars
<1>5. WorkersWait' /\ Targeted'
  BY ProcParts DEF WorkersWait, Targeted, SpanTypes, configVars, listVars
<1> QED BY <1>1, <1>3, <1>4, <1>5

LEMMA RouteTypes == ASSUME Control, NEW w \in Worker, Route(w) PROVE Control'
<1> USE DEF Control, Route, Goto, seVars, queueVars
<1>1. ControlTypes' BY ControlTypesKept DEF ControlTypes
<1>2. Head(rest[w]) \in Span /\ Tail(rest[w]) \in Seq(Span) /\ w \in Proc
  BY ProcParts DEF SpanTypes
<1>3. generation \in Generation /\ configOf[generation] \in Valid
  BY BatchesAndBounds DEF Numbered, WorkersWait, ControlTypes, Generation
<1> DEFINE shard == ShardOf[configOf[generation]][Head(rest[w])]
<1>4. shard = NoShard \/ <<generation, shard>> \in SE
  BY <1>2, <1>3, ConfigsRouteToTheirShards DEF SE
<1>5. /\ pc' = [pc EXCEPT ![w] = IF shard = NoShard THEN "fail" ELSE "encode"]
      /\ target' = [target EXCEPT ![w] = IF shard = NoShard THEN <<>> ELSE <<generation, shard>>]
      /\ held' = [held EXCEPT ![w] = {Head(rest[w])}]
      /\ rest' = [rest EXCEPT ![w] = Tail(@)]
  OBVIOUS
<1> HIDE DEF shard
<1>6. SpanTypes'
  <2>1. pc' \in [Proc -> Label] BY <1>2, <1>5 DEF SpanTypes, Label
  <2>2. target' \in [Worker -> SE \cup {<<>>}] BY <1>4, <1>5 DEF SpanTypes
  <2>3. held' \in [Proc -> SUBSET Span] BY <1>2, <1>5 DEF SpanTypes
  <2>4. rest' \in [Worker -> Seq(Span)] BY <1>2, <1>5 DEF SpanTypes
  <2> QED BY <2>1, <2>2, <2>3, <2>4 DEF SpanTypes, outcomes
<1>7. Numbered' BY DEF Numbered, configVars, listVars
<1>8. WorkersWait' BY <1>5 DEF WorkersWait, SpanTypes, configVars, listVars
<1>9. Targeted' BY <1>2, <1>4, <1>5, ProcParts DEF Targeted, SpanTypes
<1> QED BY <1>1, <1>6, <1>7, <1>8, <1>9

LEMMA EncodeTypes == ASSUME Control, NEW w \in Worker, Encode(w) PROVE Control'
<1> USE DEF Control, Encode, Goto, queueVars
<1>1. ControlTypes' BY ControlTypesKept DEF ControlTypes
<1>2. PICK l \in {"fail", "return", "flush", "batch"} : pc' = [pc EXCEPT ![w] = l]
  OBVIOUS
<1>3. w \in Proc /\ target[w] \in SE
  BY ProcParts DEF Targeted
<1>4. spans' \in [SE -> SUBSET Span] /\ held' \in [Proc -> SUBSET Span]
  BY <1>3 DEF SpanTypes
<1>5. SpanTypes' BY <1>2, <1>4 DEF SpanTypes, Label, outcomes
<1>6. Numbered' BY DEF Numbered, configVars, listVars
<1>7. WorkersWait' /\ Targeted'
  BY <1>2, <1>3, ProcParts DEF WorkersWait, Targeted, SpanTypes, configVars, listVars
<1> QED BY <1>1, <1>5, <1>6, <1>7

LEMMA FlushTypes ==
  ASSUME Control, NEW p \in Proc, NEW next \in {"batch", "select", "finished"}, Flush(p, next),
         pc[p] # "absent", SEof(p) \in SE
  PROVE  Control'
<1> USE DEF Control, Flush, Goto, queueVars
<1>1. ControlTypes' BY ControlTypesKept DEF ControlTypes
<1>2. PICK l \in {"batch", "select", "finished", "return", "emit"} : pc' = [pc EXCEPT ![p] = l]
  OBVIOUS
<1>3. spans' \in [SE -> SUBSET Span] /\ held' \in [Proc -> SUBSET Span]
  BY DEF SpanTypes
<1>4. SpanTypes' BY <1>2, <1>3 DEF SpanTypes, Label, outcomes
<1>5. Numbered' BY DEF Numbered, configVars, listVars
<1>6. WorkersWait' /\ Targeted'
  BY <1>2, ProcParts DEF WorkersWait, Targeted, SpanTypes, configVars, listVars
<1> QED BY <1>1, <1>4, <1>5, <1>6

LEMMA CallbackTypes ==
  ASSUME Control, NEW p \in Proc, EmitRecord(p) \/ GiveBack(p) \/ (p \in Worker /\ Fail(p))
  PROVE  Control'
<1> USE DEF Control, EmitRecord, GiveBack, Fail, Goto, AfterFlush, queueVars, seVars
<1>1. ControlTypes' BY ControlTypesKept DEF ControlTypes
<1>2. PICK l \in {"batch", "select", "finished"} : pc' = [pc EXCEPT ![p] = l]
  OBVIOUS
<1>3. SpanTypes' BY <1>2 DEF SpanTypes, Label
<1>4. Numbered' BY DEF Numbered, configVars, listVars
<1>5. WorkersWait' /\ Targeted'
  BY <1>2, ProcParts DEF WorkersWait, Targeted, SpanTypes, configVars, listVars
<1> QED BY <1>1, <1>3, <1>4, <1>5

LEMMA WorkerEndTypes == ASSUME Control, NEW w \in Worker, HardStop(w) \/ BatchDone(w) PROVE Control'
<1> USE DEF Control, HardStop, BatchDone, Goto, queueVars, seVars
<1>1. ControlTypes' BY ControlTypesKept DEF ControlTypes
<1>2. PICK l \in {"select", "finished"} : pc' = [pc EXCEPT ![w] = l]
  OBVIOUS
<1>3. SpanTypes' BY <1>2 DEF SpanTypes, Label, outcomes
<1>4. Numbered' BY DEF Numbered, configVars, listVars
<1>5. WorkersWait' /\ Targeted'
  BY <1>2, ProcParts DEF WorkersWait, Targeted, SpanTypes, configVars, listVars
<1> QED BY <1>1, <1>3, <1>4, <1>5

\* The invariant of the types is inductive.
LEMMA ControlStep == Control /\ [Next]_vars => Control'
<1> SUFFICES ASSUME Control, [Next]_vars PROVE Control'
  OBVIOUS
<1>1. ASSUME NEW c \in Config \cup {NoConfig}, SetConfig(c) PROVE Control'
  BY <1>1, SetConfigTypes
<1>2. CASE ConfigLoopStep BY <1>2, LoopTypes
<1>3. ASSUME NEW c \in Caller, CallerStep(c) PROVE Control'
  BY <1>3, CallerTypes
<1>4. ASSUME NEW w \in Worker, WorkerStep(w) PROVE Control'
  <2>1. CASE WorkerFlush(w)
    <3>1. w \in Proc /\ SEof(w) \in SE /\ pc[w] # "absent"
      BY <2>1, ProcParts DEF WorkerFlush, SEof, Control, Targeted
    <3> QED BY <2>1, <3>1, FlushTypes DEF WorkerFlush
  <2> QED
    BY <1>4, <2>1, ProcParts, DequeueTypes, RouteTypes, EncodeTypes, CallbackTypes, WorkerEndTypes
    DEF WorkerStep
<1>5. ASSUME NEW f \in Flusher, FlusherStep(f) PROVE Control'
  <2>1. f \in Proc /\ SEof(f) \in SE
    BY ProcParts DEF SEof
  <2> QED BY <1>5, <2>1, FlushTypes, CallbackTypes DEF FlusherStep, Tick, SeeDone
<1>6. ASSUME NEW d \in Drainer, DrainerStep(d) PROVE Control'
  <2>1. d \in Proc /\ SEof(d) \in SE
    BY ProcParts DEF SEof
  <2> QED BY <1>6, <2>1, FlushTypes, CallbackTypes DEF DrainerStep, DrainerFlush
<1>7. CASE BeginStop \/ StopStep \/ WaiterCheck \/ WaiterReturn
  BY <1>7, StopTypes
<1>8. CASE UNCHANGED vars
  BY <1>8 DEF vars, Control, ControlTypes, SpanTypes, Numbered, WorkersWait, Targeted, configVars,
              listVars, seVars, queueVars, procVars, stopVars, outcomes
<1> QED BY <1>1, <1>2, <1>3, <1>4, <1>5, <1>6, <1>7, <1>8 DEF Next

-----------------------------------------------------------------------------
(* Wake-ups *)

\* No wake-up of processConfigChanges is lost, although SetConfig signals under the mutex
\* and Stop after it: the flag of Stop is never up while the loop sleeps and the signal is
\* behind (encoder.go:256).
THEOREM WakeupsKept == Spec => []NoLostWakeup
<1> DEFINE Inv == Control /\ NoLostWakeup
<1>1. Init => Inv
  BY ControlInit DEF Init, NoLostWakeup
<1>2. Inv /\ [Next]_vars => Inv'
  <2> SUFFICES ASSUME Control, NoLostWakeup, [Next]_vars PROVE NoLostWakeup'
    BY ControlStep
  <2> USE DEF NoLostWakeup, configVars, stopVars
  <2>1. ASSUME NEW c \in Config \cup {NoConfig}, SetConfig(c) PROVE NoLostWakeup'
    BY <2>1 DEF SetConfig, Signalled, Control, ControlTypes, LoopState
  <2>2. CASE ConfigLoopStep
    BY <2>2 DEF ConfigLoopStep, ConfigLoopCheck, ConfigLoopStop, ConfigLoopReject, ConfigLoopApply,
                ConfigLoopStartWorkers, Control, ControlTypes, LoopState
  <2>3. CASE BeginStop \/ WaiterCheck \/ WaiterReturn
    BY <2>3 DEF BeginStop, WaiterCheck, WaiterReturn
  <2>4. CASE StopStep
    <3>1. CASE SignalConfigChanges
      BY <3>1 DEF SignalConfigChanges, Signalled, Control, ControlTypes, LoopState
    <3>2. CASE StopFlush \/ StopFlushed \/ StopConfigChanges \/ FinishStop
      BY <3>2 DEF StopFlush, StopFlushed, StopConfigChanges, FinishStop, Control, ControlTypes, StopState
    <3>3. ASSUME NEW se \in SE, StopEncoder(se) PROVE NoLostWakeup'
      BY <3>3 DEF StopEncoder, Control, ControlTypes, StopState
    <3> QED BY <2>4, <3>1, <3>2, <3>3 DEF StopStep
  <2>5. CASE \/ \E c \in Caller : CallerStep(c)
             \/ \E w \in Worker : WorkerStep(w)
             \/ \E f \in Flusher : FlusherStep(f)
             \/ \E d \in Drainer : DrainerStep(d)
             \/ UNCHANGED vars
    BY <2>5 DEF CallerStep, CallerCheck, CallerAdd, CallerSend, WorkerStep, Dequeue, HardStop, Route,
                Encode, BatchDone, WorkerFlush, Flush, EmitRecord, GiveBack, Fail, FlusherStep, Tick,
                SeeDone, DrainerStep, DrainerFlush, vars
  <2> QED BY <2>1, <2>2, <2>3, <2>4, <2>5 DEF Next
<1>3. Inv => NoLostWakeup
  OBVIOUS
<1> QED BY <1>1, <1>2, <1>3, PTL DEF Spec

-----------------------------------------------------------------------------
(* Replaced shard encoders *)

\* The loop has stopped what it does not still have to stop of the list in use.
StoppingAll ==
  loop.at = "stopping" => \A se \in SE : se \in EncodersOf(generation) => stopped[se] \/ se \in loop.toStop

LEMMA StoppedStays == Control /\ [Next]_vars => \A se \in SE : stopped[se] => stopped'[se]
<1> SUFFICES ASSUME Control, [Next]_vars, NEW se \in SE, stopped[se] PROVE stopped'[se]
  OBVIOUS
<1> USE DEF vars, seVars
<1>1. CASE \E t \in SE : ConfigLoopStop(t) \/ StopEncoder(t)
  BY <1>1 DEF ConfigLoopStop, StopEncoder, Control, ControlTypes
<1>2. CASE UNCHANGED stopped
  BY <1>2
<1> QED
  BY <1>1, <1>2 DEF Next, SetConfig, ConfigLoopStep, ConfigLoopCheck, ConfigLoopReject, ConfigLoopApply,
     ConfigLoopStartWorkers, CallerStep, CallerCheck, CallerAdd, CallerSend, WorkerStep, Dequeue,
     HardStop, Route, Encode, BatchDone, WorkerFlush, Flush, EmitRecord, GiveBack, Fail, FlusherStep,
     Tick, SeeDone, DrainerStep, DrainerFlush, BeginStop, WaiterCheck, WaiterReturn, StopStep,
     StopFlush, StopFlushed, StopConfigChanges, SignalConfigChanges, FinishStop

\* The list in use and what the loop has still to stop change only in steps of the loop.
LEMMA ListKept ==
  [Next]_vars => ConfigLoopStep \/ (UNCHANGED <<listVars, loop>>)
                 \/ (UNCHANGED listVars /\ loop' = Signalled(loop))
BY DEF vars, configVars, Next, SetConfig, CallerStep, CallerCheck, CallerAdd, CallerSend, WorkerStep, Dequeue,
   HardStop, Route, Encode, BatchDone, WorkerFlush, Flush, EmitRecord, GiveBack, Fail, FlusherStep,
   Tick, SeeDone, DrainerStep, DrainerFlush, BeginStop, WaiterCheck, WaiterReturn, StopStep,
   StopFlush, StopFlushed, StopEncoder, StopConfigChanges, SignalConfigChanges, FinishStop

\* When a list of shard encoders is replaced each of the old ones has been told to stop,
\* whoever else stops encoders at the time (encoder.go:312).
THEOREM ReplacedAreStopped == Spec => []OldGenerationsStopped
<1> DEFINE Inv == Control /\ StoppingAll /\ OldGenerationsStopped
<1>1. Init => Inv
  BY ControlInit DEF Init, StoppingAll, OldGenerationsStopped, SE, Generation
<1>2. Inv /\ [Next]_vars => Inv'
  <2> SUFFICES ASSUME Control, StoppingAll, OldGenerationsStopped, [Next]_vars
               PROVE  StoppingAll' /\ OldGenerationsStopped'
    BY ControlStep
  <2>1. \A se \in SE : stopped[se] => stopped'[se]
    BY StoppedStays
  <2>2. CASE UNCHANGED <<listVars, loop>>
    BY <2>1, <2>2 DEF StoppingAll, OldGenerationsStopped, EncodersOf, listVars
  <2>3. CASE UNCHANGED listVars /\ loop' = Signalled(loop)
    <3>1. loop'.at = "stopping" => loop' = loop
      BY <2>3 DEF Signalled, Control, ControlTypes, LoopState
    <3> QED BY <2>1, <2>3, <3>1 DEF StoppingAll, OldGenerationsStopped, EncodersOf, listVars
  <2>4. CASE ConfigLoopCheck
    BY <2>1, <2>4 DEF ConfigLoopCheck, StoppingAll, OldGenerationsStopped, EncodersOf, listVars, Control,
                      ControlTypes, LoopState
  <2>5. ASSUME NEW t \in SE, ConfigLoopStop(t) PROVE StoppingAll' /\ OldGenerationsStopped'
    <3>1. /\ stopped'[t]
          /\ loop'.toStop = loop.toStop \ {t}
          /\ loop.at = "stopping" /\ UNCHANGED <<generation, configOf>>
      BY <2>5 DEF ConfigLoopStop, listVars, Control, ControlTypes, LoopState
    <3> QED BY <2>1, <3>1 DEF StoppingAll, OldGenerationsStopped, EncodersOf
  <2>6. CASE ConfigLoopReject \/ ConfigLoopStartWorkers
    <3>1. loop'.at = "check" /\ UNCHANGED <<generation, configOf>>
      BY <2>6 DEF ConfigLoopReject, ConfigLoopStartWorkers, listVars, Control, ControlTypes, LoopState
    <3> QED BY <2>1, <3>1 DEF StoppingAll, OldGenerationsStopped, EncodersOf
  <2>7. CASE ConfigLoopApply
    <3>1. /\ loop.at = "stopping" /\ loop.toStop = {} /\ loop'.at = "workers"
          /\ generation' = generation + 1 /\ generation \in Nat /\ UNCHANGED stopped
      BY <2>7 DEF ConfigLoopApply, seVars, Control, ControlTypes, LoopState
    <3>2. \A g \in Generation : g # generation + 1 => configOf'[g] = configOf[g]
      BY <2>7 DEF ConfigLoopApply, Control, ControlTypes
    <3>3. \A se \in SE : se[1] \in Generation /\ se[1] \in Int /\ se[1] # 0
      BY BatchesAndBounds DEF SE, Generation
    <3>4. ASSUME NEW se \in SE, se[1] < generation + 1, se \in EncodersOf(se[1])' PROVE stopped[se]
      <4>1. se \in EncodersOf(se[1])
        BY <3>1, <3>2, <3>3, <3>4 DEF EncodersOf
      <4>2. CASE se[1] = generation
        BY <3>1, <4>1, <4>2 DEF StoppingAll
      <4>3. CASE se[1] < generation
        BY <4>1, <4>3 DEF OldGenerationsStopped
      <4> QED BY <3>1, <3>3, <3>4, <4>2, <4>3
    <3> QED BY <3>1, <3>4 DEF StoppingAll, OldGenerationsStopped
  <2> QED BY <2>2, <2>3, <2>4, <2>5, <2>6, <2>7, ListKept DEF ConfigLoopStep
<1>3. Inv => OldGenerationsStopped
  OBVIOUS
<1> QED BY <1>1, <1>2, <1>3, PTL DEF Spec

-----------------------------------------------------------------------------
(* The count of the WaitGroup *)

Idle == {"absent", "select", "finished"}
Announced == {c \in Caller : caller[c] = "send"}
Busy      == {w \in Worker : pc[w] \notin Idle}

Counted == spansToProcessWg = Cardinality(Announced) + Len(spanBatchesToProcess) + Cardinality(Busy)

LEMMA CountsAreFinite ==
  /\ IsFiniteSet(Announced) /\ Cardinality(Announced) \in Nat
  /\ IsFiniteSet(Busy) /\ Cardinality(Busy) \in Nat
<1>1. IsFiniteSet(Announced) BY BatchesAndBounds, FS_Subset DEF Announced
<1>2. IsFiniteSet(Busy) BY BatchesAndBounds, FS_Subset DEF Busy
<1> QED BY <1>1, <1>2, FS_CardinalityType

\* A worker that stays busy, or idle, does not change who is busy.
LEMMA BusyKept ==
  ASSUME Control, NEW p \in Proc, NEW l \in Label, pc' = [pc EXCEPT ![p] = l],
         p \in Worker => (pc[p] \in Idle <=> l \in Idle)
  PROVE  Busy' = Busy
BY ProcParts DEF Busy, Control, SpanTypes

LEMMA CountInit == Init => Counted
<1> SUFFICES ASSUME Init PROVE Counted
  OBVIOUS
<1>1. Announced = {} BY DEF Init, Announced
<1>2. Busy = {} BY ProcParts DEF Init, Busy, Idle
<1> QED BY <1>1, <1>2, FS_EmptySet DEF Init, Counted

LEMMA CountCaller == ASSUME Control, Counted, NEW c \in Caller, CallerStep(c) PROVE Counted'
<1> USE DEF CallerStep, Control, ControlTypes
<1>1. Busy' = Busy
  BY DEF CallerCheck, CallerAdd, CallerSend, procVars, Busy
<1>2. CASE CallerCheck(c)
  <2>1. Announced' = Announced BY <1>2 DEF CallerCheck, Announced
  <2> QED BY <1>1, <1>2, <2>1 DEF CallerCheck, Counted
<1>3. CASE CallerAdd(c)
  <2>1. Announced' = Announced \cup {c} /\ c \notin Announced
    BY <1>3 DEF CallerAdd, Announced
  <2>2. Cardinality(Announced') = Cardinality(Announced) + 1
    BY <2>1, CountsAreFinite, FS_AddElement
  <2> QED BY <1>1, <1>3, <2>2, CountsAreFinite DEF CallerAdd, Counted, SpanTypes
<1>4. CASE CallerSend(c)
  <2>1. Announced' = Announced \ {c} /\ c \in Announced
    BY <1>4 DEF CallerSend, Announced
  <2>2. Cardinality(Announced') = Cardinality(Announced) - 1
    BY <2>1, CountsAreFinite, FS_RemoveElement
  <2>3. Len(spanBatchesToProcess') = Len(spanBatchesToProcess) + 1
    <3>1. spanBatchesToProcess \in Seq(Seq(Span)) /\ SpansOf[c] \in Seq(Span)
      BY BatchesAndBounds DEF SpanTypes
    <3> QED BY <1>4, <3>1 DEF CallerSend
  <2>4. Len(spanBatchesToProcess) \in Nat BY DEF SpanTypes
  <2> QED BY <1>1, <1>4, <2>2, <2>3, <2>4, CountsAreFinite DEF CallerSend, Counted
<1> QED BY <1>2, <1>3, <1>4

LEMMA CountWorker == ASSUME Control, Counted, NEW w \in Worker, WorkerStep(w) PROVE Counted'
<1>1. w \in Proc /\ Announced' = Announced
  BY ProcParts DEF WorkerStep, Dequeue, HardStop, Route, Encode, BatchDone, WorkerFlush, Flush,
     EmitRecord, GiveBack, Fail, queueVars, Announced
<1>2. Len(spanBatchesToProcess) \in Nat /\ spansToProcessWg \in Int
  BY DEF Control, ControlTypes, SpanTypes
<1>3. CASE Dequeue(w)
  <2>1. Busy' = Busy \cup {w} /\ w \notin Busy
    BY <1>1, <1>3 DEF Dequeue, Goto, Busy, Idle, Control, SpanTypes
  <2>2. Cardinality(Busy') = Cardinality(Busy) + 1
    BY <2>1, CountsAreFinite, FS_AddElement
  <2>3. Len(spanBatchesToProcess') = Len(spanBatchesToProcess) - 1
    BY <1>3 DEF Dequeue, Control, SpanTypes
  <2> QED BY <1>1, <1>2, <1>3, <2>2, <2>3, CountsAreFinite DEF Dequeue, Counted
<1>4. CASE BatchDone(w)
  <2>1. Busy' = Busy \ {w} /\ w \in Busy
    BY <1>1, <1>4 DEF BatchDone, Goto, Busy, Idle, Control, SpanTypes
  <2>2. Cardinality(Busy') = Cardinality(Busy) - 1
    BY <2>1, CountsAreFinite, FS_RemoveElement
  <2> QED BY <1>1, <1>2, <1>4, <2>2, CountsAreFinite DEF BatchDone, Counted
<1>5. CASE HardStop(w) \/ Route(w) \/ Encode(w) \/ WorkerFlush(w) \/ EmitRecord(w) \/ GiveBack(w) \/ Fail(w)
  <2>1. PICK l \in Label : pc' = [pc EXCEPT ![w] = l] /\ (pc[w] \in Idle <=> l \in Idle)
    BY <1>5 DEF HardStop, Route, Encode, WorkerFlush, Flush, EmitRecord, GiveBack, Fail, Goto, AfterFlush,
                Label, Idle
  <2>2. Busy' = Busy BY <1>1, <2>1, BusyKept
  <2>3. UNCHANGED <<spanBatchesToProcess, spansToProcessWg>>
    BY <1>5 DEF HardStop, Route, Encode, WorkerFlush, Flush, EmitRecord, GiveBack, Fail, queueVars
  <2> QED BY <1>1, <2>2, <2>3 DEF Counted
<1> QED BY <1>3, <1>4, <1>5 DEF WorkerStep

LEMMA CountOthers ==
  ASSUME Control, Counted, [Next]_vars,
         ~\E c \in Caller : CallerStep(c), ~\E w \in Worker : WorkerStep(w)
  PROVE  Counted'
<1>1. UNCHANGED queueVars
  BY DEF vars, Next, SetConfig, ConfigLoopStep, ConfigLoopCheck, ConfigLoopStop, ConfigLoopReject,
     ConfigLoopApply, ConfigLoopStartWorkers, Flush, EmitRecord, GiveBack, FlusherStep,
     Tick, SeeDone, DrainerStep, DrainerFlush, BeginStop, WaiterCheck, WaiterReturn, StopStep,
     StopFlush, StopFlushed, StopEncoder, StopConfigChanges, SignalConfigChanges, FinishStop
<1>2. Busy' = Busy
  <2>1. ASSUME NEW f \in Flusher \cup Drainer, FlusherStep(f) \/ DrainerStep(f) PROVE Busy' = Busy
    <3>1. \A w \in Worker : pc'[w] = pc[w]
      BY <2>1, ProcParts DEF FlusherStep, DrainerStep, Tick, SeeDone, DrainerFlush, Flush, EmitRecord,
                             GiveBack, Goto, Control, SpanTypes
    <3> QED BY <3>1 DEF Busy
  <2>2. CASE ConfigLoopApply
    <3>1. generation + 1 \in Generation /\ loop.config \in Valid
      BY <2>2, BatchesAndBounds DEF ConfigLoopApply, Control, Numbered, ControlTypes, Generation
    <3>2. {"flusher"} \X ({generation + 1} \X ShardsOf[loop.config]) \subseteq Flusher
      BY <3>1, ConfigsRouteToTheirShards DEF Flusher, SE
    <3>3. \A w \in Worker : pc'[w] = pc[w]
      BY <2>2, <3>2, ProcParts DEF ConfigLoopApply
    <3> QED BY <3>3 DEF Busy
  <2>3. CASE StopFlush
    <3>1. {"drainer"} \X EncodersOf(generation) \subseteq Drainer
      BY EncodersAreSE DEF Drainer
    <3>2. \A w \in Worker : pc'[w] = pc[w]
      BY <2>3, <3>1, ProcParts DEF StopFlush
    <3> QED BY <3>2 DEF Busy
  <2>4. CASE ConfigLoopStartWorkers
    <3>1. \A w \in Worker : pc'[w] \in Idle <=> pc[w] \in Idle
      BY <2>4, ProcParts DEF ConfigLoopStartWorkers, Control, WorkersWait, Idle
    <3> QED BY <3>1 DEF Busy
  <2>5. CASE UNCHANGED pc
    BY <2>5 DEF Busy
  <2> QED
    BY <2>1, <2>2, <2>3, <2>4, <2>5
    DEF vars, procVars, Next, SetConfig, ConfigLoopStep, ConfigLoopCheck, ConfigLoopStop, ConfigLoopReject,
        BeginStop, WaiterCheck, WaiterReturn, StopStep, StopFlushed, StopEncoder, StopConfigChanges,
        SignalConfigChanges, FinishStop
<1> QED BY <1>1, <1>2 DEF queueVars, Counted, Announced

\* The WaitGroup counts exactly the batches announced, queued and in work, whatever callers,
\* workers, reconfigurations and Stop do at the same time (encoder.go:216, 447).
THEOREM BatchesCounted == Spec => []WgCountsBatches
<1>1. Control /\ Counted /\ [Next]_vars => Control' /\ Counted'
  BY ControlStep, CountCaller, CountWorker, CountOthers
<1>2. Counted => WgCountsBatches
  BY DEF Counted, WgCountsBatches, Announced, Busy, Idle
<1> QED BY ControlInit, CountInit, <1>1, <1>2, PTL DEF Spec

\* Every variable keeps its type: no goroutine looks for a shard in a configuration that
\* is not there, and the WaitGroup is never below zero, which would panic.
THEOREM Typing == Spec => []TypeOK
<1>1. Control /\ Counted /\ [Next]_vars => Control' /\ Counted'
  BY ControlStep, CountCaller, CountWorker, CountOthers
<1>2. Control /\ Counted => TypeOK
  <2> SUFFICES ASSUME Control, Counted PROVE TypeOK
    OBVIOUS
  <2>1. spansToProcessWg \in Nat
    <3>1. Len(spanBatchesToProcess) \in Nat BY DEF Control, SpanTypes
    <3> QED BY <3>1, CountsAreFinite DEF Counted
  <2>2. generation \in 0..MaxConfigs
    BY BatchesAndBounds DEF Control, ControlTypes, Numbered
  <2> QED BY <2>1, <2>2 DEF Control, ControlTypes, SpanTypes, LoopState, StopState, Label, TypeOK
<1> QED BY ControlInit, CountInit, <1>1, <1>2, PTL DEF Spec
=============================================================================
