------------------------------ MODULE Encoder -------------------------------
(***************************************************************************)
(* The encoder of the Omnishard exporter (exporter/omnishard/encoder.go):  *)
(* callers of EncodeSpans put batches of spans on a bounded queue, workers *)
(* take them and feed the shard encoders, one goroutine applies sharding   *)
(* configurations by replacing the list of shard encoders, and Stop winds  *)
(* it all down.                                                            *)
(*                                                                         *)
(* Every list of shard encoders that was ever started is a generation; an  *)
(* encoder is a pair <<generation, shard>>.  Inside a shard encoder one    *)
(* step is one critical section of its mutex (module ShardEncoder takes    *)
(* those apart, with the bytes and the marshalling errors); a callback is  *)
(* a step of its own, as is every access to a flag, a counter, a channel   *)
(* or the list of shard encoders.                                          *)
(***************************************************************************)
EXTENDS Integers, Sequences, FiniteSets, SequencesExt

CONSTANTS
  Span, Shard,
  Caller,       \* calls of EncodeSpans
  SpansOf,      \* the batch each of them passes, a sequence of spans
  Worker,       \* goroutines of processQueuedSpans (options.NumWorkers)
  Config,       \* configurations SetConfig may be given
  Valid,        \* those newShardingInMemConfig accepts
  ShardsOf,     \* the shards of a valid configuration
  ShardOf,      \* the shard of each span in it, or NoShard when no range covers it
  NoShard,
  NoConfig,     \* nil
  Unencodable,  \* spans tryEncodeSpan refuses
  MayTimeOut,   \* whether the drain of Stop may time out
  MaxBatch,     \* spans that fill a record, standing for options.MaxRecordSize
  MaxConfigs    \* bound: calls of SetConfig

\* A span, a message in memory, is in one batch, once.
ASSUME SpansAreDistinct ==
  /\ \A c, d \in Caller : c # d => ToSet(SpansOf[c]) \cap ToSet(SpansOf[d]) = {}
  /\ \A c \in Caller : IsInjective(SpansOf[c])

ASSUME ConfigsRouteToTheirShards ==
  /\ Valid \subseteq Config /\ NoConfig \notin Config
  /\ \A c \in Valid : /\ ShardsOf[c] \subseteq Shard
                      /\ ShardOf[c] \in [Span -> ShardsOf[c] \cup {NoShard}]

ASSUME BatchesAndBounds ==
  /\ \A c \in Caller : SpansOf[c] \in Seq(Span)
  /\ IsFiniteSet(Caller) /\ IsFiniteSet(Worker)
  /\ MaxConfigs \in Nat

Generation == 1..MaxConfigs
SE         == Generation \X Shard
Flusher    == {"flusher"} \X SE    \* goroutines of flushPeriodically
Drainer    == {"drainer"} \X SE    \* goroutines of flushShardEncoders
Proc       == Worker \cup Flusher \cup Drainer

ASSUME WorkersAreDistinct == Worker \cap (Flusher \cup Drainer) = {}

VARIABLES
  configChangeRequest, configChangeStopped,
  loop,            \* processConfigChanges: where it is, its newConfig, its iteration
  setCalls,        \* calls of SetConfig so far
  generation,      \* e.shardEncoders: 0 is the empty list of newEncoder
  configOf,        \* the configuration each generation was started with
  spans, stopped,  \* per shard encoder: accumulated spans, the stopped flag
  spanBatchesToProcess, spansToProcessWg,
  caller,          \* where each call of EncodeSpans is
  pc, held,        \* goroutines that encode and flush, and the spans they hold
  rest, target,    \* a worker's remaining batch and the shard encoder it found
  isStopping, workerHardStop,
  stop,            \* Stop: where it is, what it still has to stop, whose flush it awaits
  waiter,          \* the goroutine of waitGroupTimeout; its panic ends the process
  emitted, returned, failed   \* history: what the callbacks were given

configVars == <<configChangeRequest, configChangeStopped, loop, setCalls>>
listVars   == <<generation, configOf>>
seVars     == <<spans, stopped>>
queueVars  == <<spanBatchesToProcess, spansToProcessWg, caller>>
procVars   == <<pc, held, rest, target>>
stopVars   == <<isStopping, workerHardStop, stop>>
outcomes   == <<emitted, returned, failed>>
vars == <<configVars, listVars, seVars, queueVars, procVars, stopVars, waiter, outcomes>>

EncodersOf(g) == IF g = 0 THEN {} ELSE {g} \X ShardsOf[configOf[g]]
NumWorkers    == Cardinality(Worker)   \* capacity of the queue

Init ==
  /\ configChangeRequest = NoConfig /\ configChangeStopped = FALSE
  /\ loop = [at |-> "check", config |-> NoConfig, toStop |-> {}]
  /\ setCalls = 0
  /\ generation = 0 /\ configOf = [g \in Generation |-> NoConfig]
  /\ spans = [se \in SE |-> {}] /\ stopped = [se \in SE |-> FALSE]
  /\ spanBatchesToProcess = <<>> /\ spansToProcessWg = 0
  /\ caller = [c \in Caller |-> "calling"]
  /\ pc = [p \in Proc |-> "absent"] /\ held = [p \in Proc |-> {}]
  /\ rest = [w \in Worker |-> <<>>] /\ target = [w \in Worker |-> <<>>]
  /\ isStopping = FALSE /\ workerHardStop = FALSE
  /\ stop = [at |-> "idle", toStop |-> {}]
  /\ waiter = "absent"
  /\ emitted = {} /\ returned = {} /\ failed = {}

Goto(p, label) == pc' = [pc EXCEPT ![p] = label]

-----------------------------------------------------------------------------
(* SetConfig, and the goroutine of processConfigChanges *)

\* Signal wakes the loop if it sleeps in Wait; otherwise it is lost.
Signalled(l) == IF l.at = "asleep" THEN [l EXCEPT !.at = "check"] ELSE l

\* MUTANT of SetConfig: the condition is not signalled.
SetConfigNoSignal(c) ==
  /\ setCalls < MaxConfigs /\ setCalls' = setCalls + 1
  /\ configChangeRequest' = c
  /\ UNCHANGED <<loop, configChangeStopped, listVars, seVars, queueVars, procVars,
                 stopVars, waiter, outcomes>>

\* The last request wins; a nil one cancels it.
SetConfig(c) ==
  /\ setCalls < MaxConfigs /\ setCalls' = setCalls + 1
  /\ configChangeRequest' = c
  /\ loop' = Signalled(loop)
  /\ UNCHANGED <<configChangeStopped, listVars, seVars, queueVars, procVars, stopVars,
                 waiter, outcomes>>

\* Under the mutex: sleep, leave, or take the request and load the list to stop.
ConfigLoopCheck ==
  /\ loop.at = "check"
  /\ \/ /\ configChangeRequest = NoConfig /\ ~configChangeStopped
        /\ loop' = [loop EXCEPT !.at = "asleep"]
        /\ UNCHANGED configChangeRequest
     \/ /\ configChangeStopped
        /\ loop' = [loop EXCEPT !.at = "exited"]
        /\ UNCHANGED configChangeRequest
     \/ /\ configChangeRequest # NoConfig /\ ~configChangeStopped
        /\ loop' = [at |-> "stopping", config |-> configChangeRequest,
                    toStop |-> EncodersOf(generation)]
        /\ configChangeRequest' = NoConfig
  /\ UNCHANGED <<configChangeStopped, setCalls, listVars, seVars, queueVars, procVars,
                 stopVars, waiter, outcomes>>

\* One se.Stop() of stopShardEncoders.
ConfigLoopStop(se) ==
  /\ loop.at = "stopping" /\ se \in loop.toStop
  /\ stopped' = [stopped EXCEPT ![se] = TRUE]
  /\ loop' = [loop EXCEPT !.toStop = @ \ {se}]
  /\ UNCHANGED <<configChangeRequest, configChangeStopped, setCalls, listVars, spans,
                 queueVars, procVars, stopVars, waiter, outcomes>>

\* An invalid configuration is logged and the loop goes on.
ConfigLoopReject ==
  /\ loop.at = "stopping" /\ loop.toStop = {}
  /\ loop.config \notin Valid
  /\ loop' = [loop EXCEPT !.at = "check", !.config = NoConfig]
  /\ UNCHANGED <<configChangeRequest, configChangeStopped, setCalls, listVars, seVars,
                 queueVars, procVars, stopVars, waiter, outcomes>>

\* MUTANT of ConfigLoopApply: the new list is swapped in before the old one was stopped.
ConfigLoopApplyEarly ==
  /\ loop.at = "stopping"
  /\ loop.config \in Valid
  /\ generation' = generation + 1
  /\ configOf' = [configOf EXCEPT ![generation + 1] = loop.config]
  /\ LET started == {"flusher"} \X ({generation + 1} \X ShardsOf[loop.config]) IN
       pc' = [p \in Proc |-> IF p \in started THEN "select" ELSE pc[p]]
  /\ loop' = [loop EXCEPT !.at = "workers", !.config = NoConfig, !.toStop = {}]
  /\ UNCHANGED <<configChangeRequest, configChangeStopped, setCalls, seVars, queueVars,
                 held, rest, target, stopVars, waiter, outcomes>>

\* startShardEncoders: the new generation runs, then it replaces the old list.
ConfigLoopApply ==
  /\ loop.at = "stopping" /\ loop.toStop = {}
  /\ loop.config \in Valid
  /\ generation' = generation + 1
  /\ configOf' = [configOf EXCEPT ![generation + 1] = loop.config]
  /\ LET started == {"flusher"} \X ({generation + 1} \X ShardsOf[loop.config]) IN
       pc' = [p \in Proc |-> IF p \in started THEN "select" ELSE pc[p]]
  /\ loop' = [loop EXCEPT !.at = "workers", !.config = NoConfig]
  /\ UNCHANGED <<configChangeRequest, configChangeStopped, setCalls, seVars, queueVars,
                 held, rest, target, stopVars, waiter, outcomes>>

\* MUTANT of ConfigLoopStartWorkers: the first request counts, valid or not.
ConfigLoopStartWorkersFirst ==
  /\ loop.at = "workers"
  /\ pc' = [p \in Proc |-> IF p \in Worker /\ setCalls = 1 THEN "select" ELSE pc[p]]
  /\ loop' = [loop EXCEPT !.at = "check"]
  /\ UNCHANGED <<configChangeRequest, configChangeStopped, setCalls, listVars, seVars,
                 queueVars, held, rest, target, stopVars, waiter, outcomes>>

\* startWorkers, the first time only.
ConfigLoopStartWorkers ==
  /\ loop.at = "workers"
  /\ pc' = [p \in Proc |-> IF p \in Worker /\ generation = 1 THEN "select" ELSE pc[p]]
  /\ loop' = [loop EXCEPT !.at = "check"]
  /\ UNCHANGED <<configChangeRequest, configChangeStopped, setCalls, listVars, seVars,
                 queueVars, held, rest, target, stopVars, waiter, outcomes>>

-----------------------------------------------------------------------------
(* EncodeSpans *)

CallerCheck(c) ==
  /\ caller[c] = "calling"
  /\ caller' = [caller EXCEPT ![c] = IF isStopping THEN "refused" ELSE "add"]
  /\ UNCHANGED <<configVars, listVars, seVars, spanBatchesToProcess, spansToProcessWg,
                 procVars, stopVars, waiter, outcomes>>

\* MUTANT of CallerAdd: the batch is not counted.
CallerAddNothing(c) ==
  /\ caller[c] = "add"
  /\ caller' = [caller EXCEPT ![c] = "send"]
  /\ UNCHANGED <<configVars, listVars, seVars, spanBatchesToProcess, spansToProcessWg,
                 procVars, stopVars, waiter, outcomes>>

\* e.spansToProcessWg.Add(1)
CallerAdd(c) ==
  /\ caller[c] = "add"
  /\ spansToProcessWg' = spansToProcessWg + 1
  /\ caller' = [caller EXCEPT ![c] = "send"]
  /\ UNCHANGED <<configVars, listVars, seVars, spanBatchesToProcess, procVars, stopVars,
                 waiter, outcomes>>

\* e.spanBatchesToProcess <- spans: blocks while the queue is full.
CallerSend(c) ==
  /\ caller[c] = "send"
  /\ Len(spanBatchesToProcess) < NumWorkers
  /\ spanBatchesToProcess' = Append(spanBatchesToProcess, SpansOf[c])
  /\ caller' = [caller EXCEPT ![c] = "accepted"]
  /\ UNCHANGED <<configVars, listVars, seVars, spansToProcessWg, procVars, stopVars,
                 waiter, outcomes>>

-----------------------------------------------------------------------------
(* The workers: processQueuedSpans and processSpanBatch *)

Dequeue(w) ==
  /\ pc[w] = "select" /\ spanBatchesToProcess # <<>>
  /\ rest' = [rest EXCEPT ![w] = Head(spanBatchesToProcess)]
  /\ spanBatchesToProcess' = Tail(spanBatchesToProcess)
  /\ Goto(w, "batch")
  /\ UNCHANGED <<configVars, listVars, seVars, spansToProcessWg, caller, held, target,
                 stopVars, waiter, outcomes>>

\* case <-e.workerHardStopSignal
HardStop(w) ==
  /\ pc[w] = "select" /\ workerHardStop
  /\ Goto(w, "finished")
  /\ UNCHANGED <<configVars, listVars, seVars, queueVars, held, rest, target, stopVars,
                 waiter, outcomes>>

\* getShardEncoder: load the list and find the shard of the span, or fail.
Route(w) ==
  /\ pc[w] = "batch" /\ rest[w] # <<>>
  /\ LET s     == Head(rest[w])
         shard == ShardOf[configOf[generation]][s]
     IN /\ held' = [held EXCEPT ![w] = {s}]
        /\ target' = [target EXCEPT ![w] = IF shard = NoShard THEN <<>>
                                           ELSE <<generation, shard>>]
        /\ Goto(w, IF shard = NoShard THEN "fail" ELSE "encode")
  /\ rest' = [rest EXCEPT ![w] = Tail(@)]
  /\ UNCHANGED <<configVars, listVars, seVars, queueVars, stopVars, waiter, outcomes>>

\* MUTANT of Encode: a stopped shard encoder still accumulates.
EncodeStopped(w) ==
  /\ pc[w] = "encode"
  /\ LET se == target[w] IN
     /\ spans' = [spans EXCEPT ![se] = @ \cup held[w]]
     /\ held' = [held EXCEPT ![w] = {}]
     /\ Goto(w, IF Cardinality(spans'[se]) >= MaxBatch THEN "flush" ELSE "batch")
  /\ UNCHANGED <<configVars, listVars, stopped, queueVars, rest, target, stopVars,
                 waiter, outcomes>>

\* se.Encode: refused, given back by a stopped encoder, or accumulated.
Encode(w) ==
  /\ pc[w] = "encode"
  /\ LET se == target[w] IN
     \/ /\ held[w] \subseteq Unencodable
        /\ Goto(w, "fail")
        /\ UNCHANGED <<spans, held>>
     \/ /\ ~(held[w] \subseteq Unencodable) /\ stopped[se]
        /\ Goto(w, "return")
        /\ UNCHANGED <<spans, held>>
     \/ /\ ~(held[w] \subseteq Unencodable) /\ ~stopped[se]
        /\ spans' = [spans EXCEPT ![se] = @ \cup held[w]]
        /\ held' = [held EXCEPT ![w] = {}]
        /\ Goto(w, IF Cardinality(spans'[se]) >= MaxBatch THEN "flush" ELSE "batch")
  /\ UNCHANGED <<configVars, listVars, stopped, queueVars, rest, target, stopVars,
                 waiter, outcomes>>

\* MUTANT of BatchDone: the waiter of a drained queue is not woken.
BatchDoneNoWake(w) ==
  /\ pc[w] = "batch" /\ rest[w] = <<>>
  /\ spansToProcessWg' = spansToProcessWg - 1
  /\ Goto(w, "select")
  /\ UNCHANGED <<configVars, listVars, seVars, spanBatchesToProcess, caller, held, rest,
                 target, stopVars, waiter, outcomes>>

\* e.spansToProcessWg.Done(): the last one wakes the waiter.
BatchDone(w) ==
  /\ pc[w] = "batch" /\ rest[w] = <<>>
  /\ spansToProcessWg' = spansToProcessWg - 1
  /\ waiter' = IF spansToProcessWg = 1 /\ waiter = "asleep" THEN "woken" ELSE waiter
  /\ Goto(w, "select")
  /\ UNCHANGED <<configVars, listVars, seVars, spanBatchesToProcess, caller, held, rest,
                 target, stopVars, outcomes>>

-----------------------------------------------------------------------------
(* Flush: by a worker that filled the batch, by the flusher, by a drainer *)

SEof(p) == IF p \in Worker THEN target[p] ELSE p[2]

\* Where p continues after a flush; the flusher leaves when it saw the done channel.
AfterFlush(p) == IF p \in Worker THEN "batch"
                 ELSE IF p \in Flusher THEN "select" ELSE "finished"

\* MUTANT of Flush: clearAccumulated is forgotten.
FlushNoClear(p, next) ==
  LET se == SEof(p) IN
  /\ \/ /\ spans[se] = {}
        /\ Goto(p, next)
        /\ UNCHANGED held
     \/ /\ spans[se] # {}
        /\ held' = [held EXCEPT ![p] = spans[se]]
        /\ Goto(p, IF stopped[se] THEN "return" ELSE "emit")
  /\ UNCHANGED <<configVars, listVars, seVars, queueVars, rest, target, stopVars, waiter,
                 outcomes>>

\* The critical section of Flush, by p, which continues at next.
Flush(p, next) ==
  LET se == SEof(p) IN
  /\ \/ /\ spans[se] = {}
        /\ Goto(p, next)
        /\ UNCHANGED <<spans, held>>
     \/ /\ spans[se] # {}
        /\ held' = [held EXCEPT ![p] = spans[se]]
        /\ spans' = [spans EXCEPT ![se] = {}]
        /\ Goto(p, IF stopped[se] THEN "return" ELSE "emit")
  /\ UNCHANGED <<configVars, listVars, stopped, queueVars, rest, target, stopVars, waiter,
                 outcomes>>

WorkerFlush(w) == pc[w] = "flush" /\ Flush(w, "batch")

\* case <-ticker.C
Tick(f) == pc[f] = "select" /\ spans[f[2]] # {} /\ Flush(f, "select")

\* case <-se.done: the last Flush, after which the goroutine leaves (when it had spans to
\* give back it is found here once more, with nothing left).
SeeDone(f) == pc[f] = "select" /\ stopped[f[2]] /\ Flush(f, "finished")

DrainerFlush(d) == pc[d] = "flush" /\ Flush(d, "finished")

\* onRecordReady(record, originalSpans, shard)
EmitRecord(p) ==
  /\ pc[p] = "emit"
  /\ emitted' = emitted \cup held[p]
  /\ held' = [held EXCEPT ![p] = {}]
  /\ Goto(p, AfterFlush(p))
  /\ UNCHANGED <<configVars, listVars, seVars, queueVars, rest, target, stopVars, waiter,
                 returned, failed>>

\* onSpanProcessFail(spans, ErrEncoderStopped)
GiveBack(p) ==
  /\ pc[p] = "return"
  /\ returned' = returned \cup held[p]
  /\ held' = [held EXCEPT ![p] = {}]
  /\ Goto(p, AfterFlush(p))
  /\ UNCHANGED <<configVars, listVars, seVars, queueVars, rest, target, stopVars, waiter,
                 emitted, failed>>

\* onSpanProcessFail(span, ErrEncodingFailed)
Fail(w) ==
  /\ pc[w] = "fail"
  /\ failed' = failed \cup held[w]
  /\ held' = [held EXCEPT ![w] = {}]
  /\ Goto(w, "batch")
  /\ UNCHANGED <<configVars, listVars, seVars, queueVars, rest, target, stopVars, waiter,
                 emitted, returned>>

-----------------------------------------------------------------------------
(* Stop *)

\* The stopping flag; waitGroupTimeout starts the waiting goroutine.
BeginStop ==
  /\ stop.at = "idle"
  /\ isStopping' = TRUE
  /\ stop' = [stop EXCEPT !.at = "draining"]
  /\ waiter' = "started"
  /\ UNCHANGED <<configVars, listVars, seVars, queueVars, procVars, workerHardStop,
                 outcomes>>

\* wg.Wait()
WaiterCheck ==
  /\ waiter = "started"
  /\ waiter' = IF spansToProcessWg = 0 THEN "returned" ELSE "asleep"
  /\ UNCHANGED <<configVars, listVars, seVars, queueVars, procVars, stopVars, outcomes>>

\* The woken goroutine leaves Wait.  Go panics ("WaitGroup is reused before previous Wait
\* has returned") when the counter has left zero in the meantime.
WaiterReturn ==
  /\ waiter = "woken"
  /\ waiter' = IF spansToProcessWg = 0 THEN "returned" ELSE "panicked"
  /\ UNCHANGED <<configVars, listVars, seVars, queueVars, procVars, stopVars, outcomes>>

\* Drained or timed out: flushShardEncoders loads the list and starts its goroutines.
StopFlush ==
  /\ stop.at = "draining"
  /\ waiter = "returned" \/ MayTimeOut
  /\ LET started == {"drainer"} \X EncodersOf(generation) IN
       pc' = [p \in Proc |-> IF p \in started THEN "flush" ELSE pc[p]]
  /\ stop' = [stop EXCEPT !.at = "flushing"]
  /\ UNCHANGED <<configVars, listVars, seVars, queueVars, held, rest, target, isStopping,
                 workerHardStop, waiter, outcomes>>

\* All goroutines of flushShardEncoders are done; stopShardEncoders loads the list.
StopFlushed ==
  /\ stop.at = "flushing"
  /\ \A d \in Drainer : pc[d] \in {"absent", "finished"}
  /\ stop' = [at |-> "stopping", toStop |-> EncodersOf(generation)]
  /\ UNCHANGED <<configVars, listVars, seVars, queueVars, procVars, isStopping,
                 workerHardStop, waiter, outcomes>>

StopEncoder(se) ==
  /\ stop.at = "stopping" /\ se \in stop.toStop
  /\ stopped' = [stopped EXCEPT ![se] = TRUE]
  /\ stop' = [stop EXCEPT !.toStop = @ \ {se}]
  /\ UNCHANGED <<configVars, listVars, spans, queueVars, procVars, isStopping,
                 workerHardStop, waiter, outcomes>>

\* configChangeStopped is set under the mutex, the signal follows its release.
StopConfigChanges ==
  /\ stop.at = "stopping" /\ stop.toStop = {}
  /\ configChangeStopped' = TRUE
  /\ stop' = [stop EXCEPT !.at = "signalling"]
  /\ UNCHANGED <<configChangeRequest, loop, setCalls, listVars, seVars, queueVars,
                 procVars, isStopping, workerHardStop, waiter, outcomes>>

SignalConfigChanges ==
  /\ stop.at = "signalling"
  /\ loop' = Signalled(loop)
  /\ stop' = [stop EXCEPT !.at = "closing"]
  /\ UNCHANGED <<configChangeRequest, configChangeStopped, setCalls, listVars, seVars,
                 queueVars, procVars, isStopping, workerHardStop, waiter, outcomes>>

\* close(e.workerHardStopSignal)
FinishStop ==
  /\ stop.at = "closing"
  /\ workerHardStop' = TRUE
  /\ stop' = [stop EXCEPT !.at = "stopped"]
  /\ UNCHANGED <<configVars, listVars, seVars, queueVars, procVars, isStopping, waiter,
                 outcomes>>

-----------------------------------------------------------------------------
ConfigLoopStep ==
  \/ ConfigLoopCheck \/ ConfigLoopReject \/ ConfigLoopApply \/ ConfigLoopStartWorkers
  \/ \E se \in SE : ConfigLoopStop(se)

CallerStep(c) == CallerCheck(c) \/ CallerAdd(c) \/ CallerSend(c)

WorkerStep(w) ==
  \/ Dequeue(w) \/ HardStop(w) \/ Route(w) \/ Encode(w) \/ BatchDone(w) \/ WorkerFlush(w)
  \/ EmitRecord(w) \/ GiveBack(w) \/ Fail(w)

FlusherStep(f) == Tick(f) \/ SeeDone(f) \/ EmitRecord(f) \/ GiveBack(f)

DrainerStep(d) == DrainerFlush(d) \/ EmitRecord(d) \/ GiveBack(d)

StopStep ==
  \/ StopFlush \/ StopFlushed \/ StopConfigChanges \/ SignalConfigChanges \/ FinishStop
  \/ \E se \in SE : StopEncoder(se)

Running == waiter # "panicked"

Next ==
  /\ Running
  /\ \/ \E c \in Config \cup {NoConfig} : SetConfig(c)
     \/ ConfigLoopStep
     \/ \E c \in Caller : CallerStep(c)
     \/ \E w \in Worker : WorkerStep(w)
     \/ \E f \in Flusher : FlusherStep(f)
     \/ \E d \in Drainer : DrainerStep(d)
     \/ BeginStop \/ StopStep \/ WaiterCheck \/ WaiterReturn

Spec == Init /\ [][Next]_vars

(***************************************************************************)
(* A goroutine that can run does, as long as the process lives, and the    *)
(* callbacks return.  A caller blocked on the full queue is served in turn *)
(* (Go's channels are FIFO): strong fairness for that.  Nobody has to call *)
(* EncodeSpans, SetConfig or Stop.                                         *)
(***************************************************************************)
Fairness ==
  /\ WF_vars(Running /\ ConfigLoopStep)
  /\ \A c \in Caller : /\ WF_vars(Running /\ CallerAdd(c))
                      /\ SF_vars(Running /\ CallerSend(c))
  /\ \A w \in Worker : WF_vars(Running /\ WorkerStep(w))
  /\ \A f \in Flusher : WF_vars(Running /\ FlusherStep(f))
  /\ \A d \in Drainer : WF_vars(Running /\ DrainerStep(d))
  /\ WF_vars(Running /\ StopStep)
  /\ WF_vars(Running /\ (WaiterCheck \/ WaiterReturn))

FairSpec == Spec /\ Fairness

-----------------------------------------------------------------------------
\* Every variable keeps its type; in particular the WaitGroup counter never goes below
\* zero, which would panic.
TypeOK ==
  /\ configChangeRequest \in Config \cup {NoConfig} /\ configChangeStopped \in BOOLEAN
  /\ loop \in [at : {"check", "asleep", "stopping", "workers", "exited"},
              config : Config \cup {NoConfig}, toStop : SUBSET SE]
  /\ setCalls \in 0..MaxConfigs /\ generation \in 0..MaxConfigs
  /\ configOf \in [Generation -> Valid \cup {NoConfig}]
  /\ spans \in [SE -> SUBSET Span] /\ stopped \in [SE -> BOOLEAN]
  /\ spanBatchesToProcess \in Seq(Seq(Span)) /\ spansToProcessWg \in Nat
  /\ caller \in [Caller -> {"calling", "refused", "add", "send", "accepted"}]
  /\ pc \in [Proc -> {"absent", "select", "batch", "encode", "flush", "emit", "return",
                      "fail", "finished"}]
  /\ held \in [Proc -> SUBSET Span]
  /\ rest \in [Worker -> Seq(Span)] /\ target \in [Worker -> SE \cup {<<>>}]
  /\ isStopping \in BOOLEAN /\ workerHardStop \in BOOLEAN
  /\ stop \in [at : {"idle", "draining", "flushing", "stopping", "signalling", "closing",
                     "stopped"}, toStop : SUBSET SE]
  /\ waiter \in {"absent", "started", "asleep", "woken", "returned", "panicked"}
  /\ emitted \subseteq Span /\ returned \subseteq Span /\ failed \subseteq Span

\* The WaitGroup counts the batches that a caller has announced and no worker finished, in
\* every state of callers, queue and workers; Stop waits for nothing else.
WgCountsBatches ==
  spansToProcessWg = Cardinality({c \in Caller : caller[c] = "send"})
                     + Len(spanBatchesToProcess)
                     + Cardinality({w \in Worker : pc[w] \notin {"absent", "select", "finished"}})

\* Two generations are never alive together: when a list of shard encoders is replaced all
\* of the old ones were told to stop, whoever else is stopping encoders at the time.
OldGenerationsStopped ==
  \A se \in SE : se[1] < generation /\ se \in EncodersOf(se[1]) => stopped[se]

\* No wake-up is lost: while processConfigChanges sleeps there is no request for it, and
\* if it was told to stop the signal is still to come.
NoLostWakeup ==
  loop.at = "asleep" => /\ configChangeRequest = NoConfig
                        /\ configChangeStopped => stop.at = "signalling"

Accepted == UNION {ToSet(SpansOf[c]) : c \in {d \in Caller : caller[d] = "accepted"}}

PositionsOf(batch, s) == {i \in DOMAIN batch : batch[i] = s}

\* Which position of the queue or of a worker's batch, which goroutine, shard encoder or
\* callback has a span.
Places(s) ==
  LET In(stage, indices) == {<<stage, i>> : i \in indices}
  IN In("queue", UNION {{i} \X PositionsOf(spanBatchesToProcess[i], s) :
                        i \in DOMAIN spanBatchesToProcess})
     \cup In("rest", UNION {{w} \X PositionsOf(rest[w], s) : w \in Worker})
     \cup In("held", {p \in Proc : s \in held[p]})
     \cup In("spans", {se \in SE : s \in spans[se]})
     \cup In("emitted", {s} \cap emitted)
     \cup In("returned", {s} \cap returned)
     \cup In("failed", {s} \cap failed)

\* A span that EncodeSpans accepted is in exactly one place, however often the list of
\* shard encoders is replaced: the queue, a worker's batch, a goroutine's hands, a shard
\* encoder, or given to one of the callbacks.
SpanAccounting ==
  \A s \in Span : /\ \A p, q \in Places(s) : p = q
                  /\ Places(s) # {} <=> s \in Accepted

\* The promise of SpanLedger for the whole encoder.
Ledger == INSTANCE SpanLedger WITH
  pending <- Accepted \ (emitted \cup returned \cup failed),
  emitted <- emitted, returned <- returned \cup failed

\* Whatever replaces or stops the shard encoders, a span that EncodeSpans accepted leaves the
\* encoder in exactly one way, encoded or given back, and nothing else ever leaves it.
LedgerSafety == Ledger!Safety

\* "Wait until all pending spans are processed" (encoder.go, Stop).  Without a timeout
\* whatever EncodeSpans had accepted when Stop was called reaches a callback, through any
\* number of configuration changes that run at the same time, invalid ones included.
AcceptedSpansSettle ==
  \A s \in Span :
    (s \in Accepted /\ generation > 0 /\ ~isStopping)
      ~> (s \in emitted \cup returned \cup failed \/ ~Running)

\* Once workers run, Stop drains the queue and returns without the help of its timeout.
StopReturns ==
  (generation > 0 /\ isStopping) ~> (stop.at = "stopped" \/ ~Running)

\* The configuration that was set last, if it is valid, is the one in use in the end.
LastConfigApplied ==
  \A c \in Valid, n \in 1..MaxConfigs :
    (configChangeRequest = c /\ setCalls = n)
      ~> (setCalls # n \/ isStopping \/ (generation > 0 /\ configOf[generation] = c))

\* Backpressure ends: a caller blocked on the full queue returns once workers run.
CallersReturn ==
  \A c \in Caller :
    (caller[c] = "send" /\ generation > 0) ~> (caller[c] = "accepted" \/ isStopping)

-----------------------------------------------------------------------------
(* What comments of the code say, and the code does not do *)

\* "Received invalid sharding config, ignoring.": an invalid configuration leaves the
\* shard encoders of the one in use running.
InvalidConfigIgnored ==
  loop.at = "asleep" /\ ~isStopping =>
    \A se \in EncodersOf(generation) : ~stopped[se]

\* exporter.Shutdown is "safe to call concurrently with other public functions":
\* EncodeSpans running at the same time as Stop does not make the process panic.
ConcurrentStopIsSafe == Running

\* configChangeStopped "indicates that the config change processing is stopped": no
\* configuration is applied after that.
NoReconfigAfterStop == [][configChangeStopped => UNCHANGED generation]_vars
=============================================================================
