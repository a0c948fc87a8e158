------------------------------ MODULE Exporter ------------------------------
(***************************************************************************)
(* The Omnishard exporter (exporter/omnishard/exporter.go): spans go       *)
(* through the encoder to the client, and whatever the encoder gives back  *)
(* or the server refuses for the moment goes through the retry queue into  *)
(* the encoder again.  It composes                                         *)
(*                                                                         *)
(*  - the client, as module ClientUnary;                                   *)
(*  - the encoder, as what module Encoder establishes of it: one list of   *)
(*    shard encoders is in use and live or stopped; stopping it leaves its *)
(*    accumulated spans to be given back by goroutines that run later;     *)
(*    a record that was sealed is sent later by the goroutine holding it;  *)
(*  - a server that owns a sharding configuration, changes it at any time, *)
(*    and refuses records that were made for another one.                  *)
(*                                                                         *)
(* A configuration is a version number of the server's; a record carries   *)
(* the version it was sharded with.                                        *)
(***************************************************************************)
EXTENDS Integers, Sequences, FiniteSets, SequencesExt

CONSTANTS
  Span,            \* each is passed to ConsumeTraceData once, in a batch of its own
  Worker,          \* goroutines of the encoder (cfg.NumWorkers)
  Sender,          \* goroutines of the client (cfg.SendConcurrency)
  Fatal,           \* spans that cannot be encoded
  NoConfig, NoRequest, NoAnswer,
  MaxBatch,        \* spans that fill a record
  RetryQueueSize,  \* retryQueueSize
  MaxVersion,      \* bound: configurations the server has in turn
  MaxFailures,     \* bound: retryable failures of the server
  MayTimeOut       \* whether the drain of encoder.Stop may time out

Config == 1..MaxVersion
Record == [spans : SUBSET Span, config : Config]
Answer == [kind : {"success", "not_retryable", "retryable", "mismatch", "throttled", "error"},
           config : Config \cup {NoConfig}]

ASSUME Sizes ==
  /\ IsFiniteSet(Span) /\ IsFiniteSet(Worker)
  /\ RetryQueueSize \in Nat /\ MaxVersion \in Nat \ {0}

ASSUME NothingIsNot == NoConfig \notin Config /\ NoRequest \notin Record /\ NoAnswer \notin Answer

VARIABLES
  start,           \* connectAndGetConfig
  shutdown,        \* Shutdown
  input,           \* per span: the call of ConsumeTraceData it came in
  spansToRetry, retry,                    \* the retry queue and processRetryQueue
  queue, worker,                          \* the encoder's batches and workers
  request, applying, inUse, live,         \* its configurations
  accumulated, retired, sealed,           \* spans in shard encoders, live and stopped,
                                          \* and records that no worker holds
  isStopping, configStopped,
  connection, clientDone, requestsToSend, sender,
  serverConfig, failures,
  delivered, dropped, lost                \* history: received by the server, reported as
                                          \* dropped, gone without a report

Client == INSTANCE ClientUnary WITH Request <- Record, done <- clientDone

inputVars   == <<input, spansToRetry, retry>>
workVars    == <<queue, worker>>
configVars  == <<request, applying, inUse, live>>
seVars      == <<accumulated, retired, sealed>>
stopVars    == <<shutdown, isStopping, configStopped>>
clientVars  == <<connection, clientDone, requestsToSend, sender>>
serverVars  == <<serverConfig, failures>>
outcomes    == <<delivered, dropped, lost>>
vars == <<start, stopVars, inputVars, workVars, configVars, seVars, clientVars, serverVars,
          outcomes>>

ExporterDone == shutdown # "running"
NoRecord     == [spans |-> {}, config |-> NoConfig]

Init ==
  /\ start = "idle" /\ shutdown = "running"
  /\ input = [s \in Span |-> "new"]
  /\ spansToRetry = <<>> /\ retry = [at |-> "off", spans |-> {}]
  /\ queue = <<>> /\ worker = [w \in Worker |-> [at |-> "off", record |-> NoRecord]]
  /\ request = NoConfig /\ applying = NoConfig /\ inUse = NoConfig /\ live = FALSE
  /\ accumulated = {} /\ retired = {} /\ sealed = {}
  /\ isStopping = FALSE /\ configStopped = FALSE
  /\ Client!ClientInit
  /\ serverConfig = 1 /\ failures = 0
  /\ delivered = {} /\ dropped = {} /\ lost = {}

-----------------------------------------------------------------------------
(* The retry queue *)

\* MUTANT of Resend: what finds room is counted as dropped, too.
ResendCountsAll(batches, bad) ==
  LET room == RetryQueueSize - Len(spansToRetry)
      kept == IF Len(batches) < room THEN Len(batches) ELSE room
  IN /\ spansToRetry' = spansToRetry \o SubSeq(batches, 1, kept)
     /\ dropped' = dropped \cup bad \cup UNION ToSet(batches)

\* resendSpans for each of the batches in turn: what finds no room is dropped, and so are
\* the bad spans.
Resend(batches, bad) ==
  LET room == RetryQueueSize - Len(spansToRetry)
      kept == IF Len(batches) < room THEN Len(batches) ELSE room
  IN /\ spansToRetry' = spansToRetry \o SubSeq(batches, 1, kept)
     /\ dropped' = dropped \cup bad \cup UNION ToSet(SubSeq(batches, kept + 1, Len(batches)))

\* processRetryQueue: case spans := <-e.spansToRetry, and the check of EncodeSpans, whose
\* error is ignored.
RetryTake ==
  /\ retry.at = "select" /\ spansToRetry # <<>>
  /\ spansToRetry' = Tail(spansToRetry)
  /\ \/ /\ ~isStopping
        /\ retry' = [at |-> "sending", spans |-> Head(spansToRetry)]
        /\ UNCHANGED lost
     \/ /\ isStopping
        /\ lost' = lost \cup Head(spansToRetry)
        /\ UNCHANGED retry
  /\ UNCHANGED <<start, stopVars, input, workVars, configVars, seVars, clientVars,
                 serverVars, delivered, dropped>>

RetryEnqueue ==
  /\ retry.at = "sending" /\ Len(queue) < Cardinality(Worker)
  /\ queue' = Append(queue, retry.spans)
  /\ retry' = [at |-> "select", spans |-> {}]
  /\ UNCHANGED <<start, stopVars, input, spansToRetry, worker, configVars, seVars,
                 clientVars, serverVars, outcomes>>

\* case <-e.done
RetryLeave ==
  /\ retry.at = "select" /\ ExporterDone
  /\ retry' = [at |-> "gone", spans |-> {}]
  /\ UNCHANGED <<start, stopVars, input, spansToRetry, workVars, configVars, seVars,
                 clientVars, serverVars, outcomes>>

-----------------------------------------------------------------------------
(* Start and ConsumeTraceData *)

\* go e.connectAndGetConfig()
Start ==
  /\ start = "idle" /\ start' = "connecting"
  /\ Client!BeginConnect
  /\ UNCHANGED <<stopVars, inputVars, workVars, configVars, seVars, serverVars, outcomes>>

\* MUTANT of ConnectReturns: the error is logged and the function goes on.
ConnectReturnsAnyway ==
  /\ start = "connecting" /\ start' = "getConfig"
  /\ Client!Connected \/ (ExporterDone /\ Client!ConnectFails)
  /\ UNCHANGED <<stopVars, inputVars, workVars, configVars, seVars, serverVars, outcomes>>

\* client.Connect returns; e.done cancels it.
ConnectReturns ==
  /\ start = "connecting"
  /\ \/ Client!Connected /\ start' = "getConfig"
     \/ ExporterDone /\ Client!ConnectFails /\ start' = "failed"
  /\ UNCHANGED <<stopVars, inputVars, workVars, configVars, seVars, serverVars, outcomes>>


\* GetShardingConfig returns; SetConfig; go e.processRetryQueue().
GotConfig ==
  /\ start = "getConfig"
  /\ \/ /\ start' = "done" /\ request' = serverConfig
        /\ retry' = [retry EXCEPT !.at = "select"]
     \/ /\ start' = "failed"
        /\ UNCHANGED <<request, retry>>
  /\ UNCHANGED <<stopVars, input, spansToRetry, workVars, applying, inUse, live, seVars,
                 clientVars, serverVars, outcomes>>

\* ConsumeTraceData: the check of EncodeSpans ...
Consume(s) ==
  /\ input[s] = "new"
  /\ input' = [input EXCEPT ![s] = IF isStopping THEN "refused" ELSE "sending"]
  /\ UNCHANGED <<start, stopVars, spansToRetry, retry, workVars, configVars, seVars,
                 clientVars, serverVars, outcomes>>

\* ... and its blocking send to the queue.
Accept(s) ==
  /\ input[s] = "sending" /\ Len(queue) < Cardinality(Worker)
  /\ queue' = Append(queue, {s})
  /\ input' = [input EXCEPT ![s] = "accepted"]
  /\ UNCHANGED <<start, stopVars, spansToRetry, retry, worker, configVars, seVars,
                 clientVars, serverVars, outcomes>>

-----------------------------------------------------------------------------
(* The encoder: workers, shard encoders, configurations *)

\* A worker processes a batch: spans that cannot be encoded are dropped (ErrEncodingFailed),
\* the others are accumulated, or given back one by one by stopped shard encoders
\* (ErrEncoderStopped).  A full batch is sealed into a record that the worker will send.
Process(w) ==
  /\ worker[w].at = "select" /\ queue # <<>>
  /\ queue' = Tail(queue)
  /\ LET batch == Head(queue) \ Fatal
         bad   == Head(queue) \cap Fatal
         whole == accumulated \cup batch
     IN \/ /\ ~live
           /\ \E order \in SetToSeqs({{s} : s \in batch}) : Resend(order, bad)
           /\ UNCHANGED <<worker, accumulated>>
        \/ /\ live /\ Cardinality(whole) < MaxBatch
           /\ accumulated' = whole
           /\ dropped' = dropped \cup bad
           /\ UNCHANGED <<worker, spansToRetry>>
        \/ /\ live /\ Cardinality(whole) >= MaxBatch
           /\ worker' = [worker EXCEPT ![w] = [at |-> "sealed",
                                              record |-> [spans |-> whole, config |-> inUse]]]
           /\ accumulated' = {}
           /\ dropped' = dropped \cup bad
           /\ UNCHANGED spansToRetry
  /\ UNCHANGED <<start, stopVars, input, retry, configVars, retired, sealed, clientVars,
                 serverVars, delivered, lost>>

\* The worker calls client.Send.
WorkerCallsSend(w) ==
  /\ worker[w].at = "sealed"
  /\ worker' = [worker EXCEPT ![w].at = "sending"]
  /\ UNCHANGED <<start, stopVars, inputVars, queue, configVars, seVars, clientVars,
                 serverVars, outcomes>>

WorkerSends(w) ==
  /\ worker[w].at = "sending"
  /\ Client!Enqueue(worker[w].record)
  /\ worker' = [worker EXCEPT ![w] = [at |-> "select", record |-> NoRecord]]
  /\ UNCHANGED <<start, stopVars, inputVars, queue, configVars, seVars, serverVars, outcomes>>

\* The hard stop.
WorkerLeaves(w) ==
  /\ worker[w].at = "select" /\ configStopped
  /\ worker' = [worker EXCEPT ![w].at = "finished"]
  /\ UNCHANGED <<start, stopVars, inputVars, queue, configVars, seVars, clientVars,
                 serverVars, outcomes>>

\* A goroutine that holds a record, and whether it is in client.Send already.
Held(spans, config, by, calling) ==
  [record |-> [spans |-> spans, config |-> config], by |-> by, calling |-> calling]

\* The periodic flush of the live shard encoders.
Tick ==
  /\ live /\ accumulated # {}
  /\ sealed' = sealed \cup {Held(accumulated, inUse, "flusher", FALSE)}
  /\ accumulated' = {}
  /\ UNCHANGED <<start, stopVars, inputVars, workVars, configVars, retired, clientVars,
                 serverVars, outcomes>>

CallSend(h) ==
  /\ h \in sealed /\ ~h.calling
  /\ sealed' = (sealed \ {h}) \cup {[h EXCEPT !.calling = TRUE]}
  /\ UNCHANGED <<start, stopVars, inputVars, workVars, configVars, accumulated, retired,
                 clientVars, serverVars, outcomes>>

\* client.Send returns once there is room in the client's queue.
SendReturns(h) ==
  /\ h \in sealed /\ h.calling
  /\ Client!Enqueue(h.record)
  /\ sealed' = sealed \ {h}
  /\ UNCHANGED <<start, stopVars, inputVars, workVars, configVars, accumulated, retired,
                 serverVars, outcomes>>

\* A stopped shard encoder gives its spans back (ErrEncoderStopped).
GiveBack(batch) ==
  /\ batch \in retired
  /\ retired' = retired \ {batch}
  /\ Resend(<<batch>>, {})
  /\ UNCHANGED <<start, stopVars, input, retry, workVars, configVars, accumulated, sealed,
                 clientVars, serverVars, delivered, lost>>

\* stopShardEncoders: what was accumulated is left to the goroutines of the encoders.
StopShardEncoders ==
  /\ live' = FALSE
  /\ retired' = IF accumulated = {} THEN retired ELSE retired \cup {accumulated}
  /\ accumulated' = {}

\* processConfigChanges takes the request and stops the shard encoders ...
TakeConfig ==
  /\ applying = NoConfig /\ request # NoConfig /\ ~configStopped
  /\ applying' = request /\ request' = NoConfig
  /\ StopShardEncoders
  /\ UNCHANGED <<start, stopVars, inputVars, workVars, inUse, sealed, clientVars,
                 serverVars, outcomes>>

\* ... and starts those of the new configuration, and the workers the first time.
ApplyConfig ==
  /\ applying # NoConfig
  /\ inUse' = applying /\ applying' = NoConfig /\ live' = TRUE
  /\ worker' = [w \in Worker |-> IF worker[w].at = "off"
                                 THEN [worker[w] EXCEPT !.at = "select"] ELSE worker[w]]
  /\ UNCHANGED <<start, stopVars, inputVars, queue, request, seVars, clientVars,
                 serverVars, outcomes>>

-----------------------------------------------------------------------------
(* The client and the server *)

ClientStep(s) ==
  /\ Client!SenderStep(s)
  /\ UNCHANGED <<start, stopVars, inputVars, workVars, configVars, seVars, serverVars, outcomes>>

ServerReconfigures ==
  /\ serverConfig < MaxVersion
  /\ serverConfig' = serverConfig + 1
  /\ UNCHANGED <<start, stopVars, inputVars, workVars, configVars, seVars, clientVars, failures,
                 outcomes>>

Plain(kind) == [kind |-> kind, config |-> NoConfig]

\* The Export call of sender s returns: a record whose shard is not one of the current
\* configuration (it may be, though the configuration has changed) is refused with that
\* configuration; others are taken, refused for good, or refused for the moment; or the call
\* fails, perhaps after the server took the record.
ServerAnswers(s) ==
  LET record == sender[s].request
      Taken  == delivered' = delivered \cup record.spans
  IN /\ sender[s].at = "exporting"
     /\ \/ /\ record.config # serverConfig
           /\ Client!ExportReturns(s, [kind |-> "mismatch", config |-> serverConfig])
           /\ UNCHANGED <<delivered, failures>>
        \/ /\ Client!ExportReturns(s, Plain("success"))
           /\ Taken
           /\ UNCHANGED failures
        \/ /\ Client!ExportReturns(s, Plain("not_retryable"))
           /\ UNCHANGED <<delivered, failures>>
        \/ /\ failures < MaxFailures /\ failures' = failures + 1
           /\ \E kind \in {"retryable", "throttled"} : Client!ExportReturns(s, Plain(kind))
           /\ UNCHANGED delivered
        \/ /\ Client!ExportReturns(s, Plain("error"))
           /\ Taken \/ UNCHANGED delivered
           /\ UNCHANGED failures
     /\ UNCHANGED <<start, stopVars, inputVars, workVars, configVars, seVars, serverConfig,
                    dropped, lost>>

\* MUTANT of Callback: spans whose configuration was out of date are not sent again.
CallbackNoResend(s) ==
  /\ Client!Report(s)
  /\ LET batch  == sender[s].request.spans
         answer == sender[s].answer
     IN \/ /\ answer.kind = "success"
           /\ UNCHANGED <<request, spansToRetry, dropped>>
        \/ /\ answer.kind \in {"not_retryable", "error"}
           /\ dropped' = dropped \cup batch
           /\ UNCHANGED <<request, spansToRetry>>
        \/ /\ answer.kind \in {"retryable", "throttled"}
           /\ Resend(<<batch>>, {})
           /\ UNCHANGED request
        \/ /\ answer.kind = "mismatch"
           /\ request' = answer.config
           /\ UNCHANGED <<spansToRetry, dropped>>
  /\ UNCHANGED <<start, stopVars, input, retry, workVars, applying, inUse, live, seVars,
                 serverVars, delivered, lost>>

\* MUTANT of Callback: a failed call is retried whatever the failure.
CallbackRetriesErrors(s) ==
  /\ Client!Report(s)
  /\ LET batch  == sender[s].request.spans
         answer == sender[s].answer
     IN \/ /\ answer.kind = "success"
           /\ UNCHANGED <<request, spansToRetry, dropped>>
        \/ /\ answer.kind = "not_retryable"
           /\ dropped' = dropped \cup batch
           /\ UNCHANGED <<request, spansToRetry>>
        \/ /\ answer.kind \in {"error", "retryable", "throttled"}
           /\ Resend(<<batch>>, {})
           /\ UNCHANGED request
        \/ /\ answer.kind = "mismatch"
           /\ request' = answer.config
           /\ Resend(<<batch>>, {})
  /\ UNCHANGED <<start, stopVars, input, retry, workVars, applying, inUse, live, seVars,
                 serverVars, delivered, lost>>

\* OnSendResponse, and OnSendFail for "throttled" and "error".
Callback(s) ==
  /\ Client!Report(s)
  /\ LET batch  == sender[s].request.spans
         answer == sender[s].answer
     IN \/ /\ answer.kind = "success"
           /\ UNCHANGED <<request, spansToRetry, dropped>>
        \/ /\ answer.kind \in {"not_retryable", "error"}
           /\ dropped' = dropped \cup batch
           /\ UNCHANGED <<request, spansToRetry>>
        \/ /\ answer.kind \in {"retryable", "throttled"}
           /\ Resend(<<batch>>, {})
           /\ UNCHANGED request
        \/ /\ answer.kind = "mismatch"
           /\ request' = answer.config   \* SetConfig
           /\ Resend(<<batch>>, {})
  /\ UNCHANGED <<start, stopVars, input, retry, workVars, applying, inUse, live, seVars,
                 serverVars, delivered, lost>>

-----------------------------------------------------------------------------
(* Shutdown *)

\* close(e.done)
CloseDone ==
  /\ shutdown = "running" /\ shutdown' = "closed"
  /\ UNCHANGED <<start, isStopping, configStopped, inputVars, workVars, configVars, seVars,
                 clientVars, serverVars, outcomes>>

\* encoder.Stop sets the stopping flag ...
BeginStop ==
  /\ shutdown = "closed" /\ shutdown' = "draining"
  /\ isStopping' = TRUE
  /\ UNCHANGED <<start, configStopped, inputVars, workVars, configVars, seVars, clientVars,
                 serverVars, outcomes>>

Drained ==
  /\ queue = <<>> /\ retry.at # "sending"
  /\ \A s \in Span : input[s] # "sending"
  /\ \A w \in Worker : worker[w].at \notin {"sealed", "sending"}

\* ... drains the queue or times out, and flushes the shard encoders ...
StopFlush ==
  /\ shutdown = "draining" /\ (Drained \/ MayTimeOut)
  /\ shutdown' = "flushing"
  /\ sealed' = IF accumulated = {} THEN sealed
               ELSE sealed \cup {Held(accumulated, inUse, "drainer", FALSE)}
  /\ accumulated' = {}
  /\ UNCHANGED <<start, isStopping, configStopped, inputVars, workVars, configVars, retired,
                 clientVars, serverVars, outcomes>>

\* ... waits for the goroutines that flush, whose Send may block, and stops the encoders.
StopEncoders ==
  /\ shutdown = "flushing" /\ \A h \in sealed : h.by # "drainer"
  /\ shutdown' = "stopping"
  /\ StopShardEncoders
  /\ UNCHANGED <<start, isStopping, configStopped, inputVars, workVars, request, applying,
                 inUse, sealed, clientVars, serverVars, outcomes>>

\* configChangeStopped and the hard stop.
EndStop ==
  /\ shutdown = "stopping" /\ shutdown' = "closing"
  /\ configStopped' = TRUE
  /\ UNCHANGED <<start, isStopping, inputVars, workVars, configVars, seVars, clientVars,
                 serverVars, outcomes>>

\* e.client.Shutdown()
ShutdownClient ==
  /\ shutdown = "closing" /\ shutdown' = "down"
  /\ Client!Shutdown
  /\ UNCHANGED <<start, isStopping, configStopped, inputVars, workVars, configVars, seVars,
                 serverVars, outcomes>>

-----------------------------------------------------------------------------
WorkerStep(w) == Process(w) \/ WorkerCallsSend(w) \/ WorkerLeaves(w)

ShutdownStep == BeginStop \/ StopFlush \/ StopEncoders \/ EndStop \/ ShutdownClient

Next ==
  \/ Start \/ ConnectReturns \/ GotConfig
  \/ RetryTake \/ RetryEnqueue \/ RetryLeave
  \/ \E s \in Span : Consume(s) \/ Accept(s)
  \/ \E w \in Worker : WorkerStep(w) \/ WorkerSends(w)
  \/ Tick \/ TakeConfig \/ ApplyConfig
  \/ \E h \in sealed : CallSend(h) \/ SendReturns(h)
  \/ \E batch \in retired : GiveBack(batch)
  \/ \E s \in Sender : ClientStep(s) \/ ServerAnswers(s) \/ Callback(s)
  \/ ServerReconfigures
  \/ CloseDone \/ ShutdownStep

Spec == Init /\ [][Next]_vars

(***************************************************************************)
(* Goroutines run and callbacks return; whoever is blocked on a channel is *)
(* served in turn, hence strong fairness of the blocking sends.  Nobody    *)
(* has to call Start, ConsumeTraceData or Shutdown, the dial need not      *)
(* succeed, and the server need not change its configuration.              *)
(***************************************************************************)
GoroutinesRun ==
  /\ WF_vars(GotConfig) /\ WF_vars(RetryTake) /\ SF_vars(RetryEnqueue)
  /\ \A s \in Span : SF_vars(Accept(s))
  /\ \A w \in Worker : WF_vars(WorkerStep(w)) /\ SF_vars(WorkerSends(w))
  /\ WF_vars(Tick) /\ WF_vars(TakeConfig) /\ WF_vars(ApplyConfig)
  /\ WF_vars(\E h \in sealed : CallSend(h))
  /\ SF_vars(\E h \in sealed : SendReturns(h))
  /\ WF_vars(\E batch \in retired : GiveBack(batch))
  /\ \A s \in Sender : WF_vars(ClientStep(s)) /\ WF_vars(Callback(s))
  /\ WF_vars(ShutdownStep)

\* The server, or the transport in its place, answers every call.
FairSpec == Spec /\ GoroutinesRun /\ \A s \in Sender : WF_vars(ServerAnswers(s))

-----------------------------------------------------------------------------
TypeOK ==
  /\ start \in {"idle", "connecting", "getConfig", "done", "failed"}
  /\ shutdown \in {"running", "closed", "draining", "flushing", "stopping", "closing", "down"}
  /\ input \in [Span -> {"new", "refused", "sending", "accepted"}]
  /\ spansToRetry \in Seq(SUBSET Span) /\ Len(spansToRetry) <= RetryQueueSize
  /\ retry \in [at : {"off", "select", "sending", "gone"}, spans : SUBSET Span]
  /\ queue \in Seq(SUBSET Span) /\ Len(queue) <= Cardinality(Worker)
  /\ worker \in [Worker -> [at : {"off", "select", "sealed", "sending", "finished"},
                            record : Record \cup {NoRecord}]]
  /\ request \in Config \cup {NoConfig} /\ applying \in Config \cup {NoConfig}
  /\ inUse \in Config \cup {NoConfig} /\ live \in BOOLEAN
  /\ accumulated \in SUBSET Span /\ retired \in SUBSET SUBSET Span
  /\ sealed \in SUBSET [record : Record, by : {"flusher", "drainer"}, calling : BOOLEAN]
  /\ isStopping \in BOOLEAN /\ configStopped \in BOOLEAN
  /\ Client!ClientTypeOK
  /\ serverConfig \in Config /\ failures \in Nat
  /\ {delivered, dropped, lost} \subseteq SUBSET Span

\* Which goroutine, queue entry or shard encoder of the exporter holds a span.
Places(s) ==
  LET In(stage, indices) == {<<stage, i>> : i \in indices}
  IN In("retry", {r \in {0} : s \in retry.spans})
     \cup In("spansToRetry", {i \in DOMAIN spansToRetry : s \in spansToRetry[i]})
     \cup In("queue", {i \in DOMAIN queue : s \in queue[i]})
     \cup In("worker", {w \in Worker : s \in worker[w].record.spans})
     \cup In("live", {a \in {0} : s \in accumulated})
     \cup In("retired", {batch \in retired : s \in batch})
     \cup In("sealed", {h \in sealed : s \in h.record.spans})
     \cup In("requestsToSend", {i \in DOMAIN requestsToSend : s \in requestsToSend[i].spans})
     \cup In("sender", {c \in Sender : /\ sender[c].request # NoRequest
                                      /\ s \in sender[c].request.spans})

\* A span that was accepted is in one place of the exporter, and only one, until its fate
\* is decided, through any number of retries and reconfigurations; it never disappears.
OneCopy ==
  \A s \in Span :
    /\ \A p, q \in Places(s) : p = q
    /\ Places(s) # {} => s \notin dropped \cup lost
    /\ input[s] = "accepted" /\ Places(s) = {} => s \in delivered \cup dropped \cup lost

\* What the server took is not sent again: the only copy left of a span is with the sender
\* that reports the answer.
DeliveredOnce ==
  \A s \in delivered : \A p \in Places(s) :
    /\ p[1] = "sender" /\ sender[p[2]].at = "reporting"
    /\ sender[p[2]].answer.kind \in {"success", "error"}

Accepted == {s \in Span : input[s] = "accepted"}
Settled  == delivered \cup dropped \cup lost

\* The promise of SpanLedger for the exporter.  A span that the server took but whose call
\* failed is reported as dropped although it was delivered: delivered is what counts.
Ledger == INSTANCE SpanLedger WITH
  pending  <- Accepted \ Settled,
  emitted  <- delivered,
  returned <- (dropped \cup lost) \ delivered

\* Through all retries, refusals and reconfigurations, and during Shutdown, a span leaves the
\* exporter once: what was dropped or lost is not delivered later, and nothing is dropped or
\* delivered that was not accepted and still undecided.
LedgerSafety == Ledger!Safety

\* Shard encoders run only over a connected client: before that Send would block on the
\* nil channel for ever, and Stop with it.
EncodersNeedClient ==
  live \/ sealed # {} \/ applying # NoConfig => connection = "connected"


\* Shutdown returns, connected or not, if the server answers the calls that are under way:
\* the drain has a timeout, the flush that follows it (encoder.go:246) has none.
ShutdownReturns == ExporterDone ~> shutdown = "down"

\* After the client was shut down its senders are gone in the end, whatever is still queued:
\* until then their select may still pick a request, and its answer is reported.
SendersLeave ==
  (clientDone /\ connection = "connected") ~> (\A s \in Sender : sender[s].at = "gone")
=============================================================================
