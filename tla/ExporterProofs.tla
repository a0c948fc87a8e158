--------------------------- MODULE ExporterProofs ---------------------------
(***************************************************************************)
(* Proofs about Exporter, for any finite sets of spans and workers, any    *)
(* senders, and any limits.  The inductive invariant has three layers:     *)
(* nothing that needs the client has begun before it is connected (IInv);  *)
(* types, with who holds spans in which state (Types); and for each span   *)
(* where it is (Located): in one stage, once in it, until its fate is      *)
(* decided, and nowhere but with a reporting sender once it was delivered. *)
(* Beside it, Serving says that who retries runs until the shutdown.       *)
(***************************************************************************)
EXTENDS Exporter, FiniteSetTheorems, SequenceTheorems, TLAPS

\* Without a connection nothing of what needs one has begun: no configuration has arrived,
\* no shard encoder runs, nobody holds a record and no sender exists.
Unconnected ==
  /\ start \notin {"getConfig", "done"}
  /\ request = NoConfig /\ applying = NoConfig /\ live = FALSE
  /\ accumulated = {} /\ sealed = {}
  /\ \A s \in Sender : sender[s].at = "absent"

IInv == connection = "connected" \/ Unconnected

LEMMA Initially == Init => IInv
BY DEF Init, IInv, Unconnected, Client!ClientInit, Client!Idle

\* A connection that was made stays.
LEMMA ConnectionStays == connection = "connected" /\ [Next]_vars => connection' = "connected"
<1> SUFFICES ASSUME connection = "connected", [Next]_vars PROVE connection' = "connected"
  OBVIOUS
<1> USE DEF clientVars
<1>1. CASE Start \/ ConnectReturns \/ GotConfig
  BY <1>1 DEF Start, ConnectReturns, GotConfig, Client!BeginConnect, Client!Connected, Client!ConnectFails
<1>2. CASE RetryTake \/ RetryEnqueue \/ RetryLeave
  BY <1>2 DEF RetryTake, RetryEnqueue, RetryLeave
<1>3. ASSUME NEW s \in Span, Consume(s) \/ Accept(s) PROVE connection' = "connected"
  BY <1>3 DEF Consume, Accept
<1>4. ASSUME NEW w \in Worker, WorkerStep(w) \/ WorkerSends(w) PROVE connection' = "connected"
  BY <1>4 DEF WorkerStep, Process, WorkerCallsSend, WorkerLeaves, WorkerSends, Client!Enqueue
<1>5. CASE Tick \/ TakeConfig \/ ApplyConfig \/ ServerReconfigures
  BY <1>5 DEF Tick, TakeConfig, ApplyConfig, ServerReconfigures
<1>6. ASSUME NEW h \in sealed, CallSend(h) \/ SendReturns(h) PROVE connection' = "connected"
  BY <1>6 DEF CallSend, SendReturns, Client!Enqueue
<1>7. ASSUME NEW batch \in retired, GiveBack(batch) PROVE connection' = "connected"
  BY <1>7 DEF GiveBack
<1>8. ASSUME NEW s \in Sender, ClientStep(s) \/ ServerAnswers(s) \/ Callback(s)
      PROVE  connection' = "connected"
  BY <1>8 DEF ClientStep, ServerAnswers, Callback, Client!SenderStep, Client!TakeRequest,
              Client!SeeDone, Client!ExportReturns, Client!Report
<1>9. CASE CloseDone \/ ShutdownStep
  BY <1>9 DEF CloseDone, ShutdownStep, BeginStop, StopFlush, StopEncoders, EndStop, ShutdownClient,
              Client!Shutdown
<1>10. CASE UNCHANGED vars
  BY <1>10 DEF vars
<1> QED
  BY <1>1, <1>2, <1>3, <1>4, <1>5, <1>6, <1>7, <1>8, <1>9, <1>10 DEF Next

\* Until there is one, no step begins what needs it.
LEMMA NothingBegins == Unconnected /\ [Next]_vars => IInv'
<1> SUFFICES ASSUME Unconnected, [Next]_vars PROVE IInv'
  OBVIOUS
<1> USE DEF IInv, Unconnected, clientVars, configVars, seVars
<1>1. CASE Start \/ ConnectReturns \/ GotConfig
  BY <1>1 DEF Start, ConnectReturns, GotConfig, Client!BeginConnect, Client!Connected, Client!ConnectFails
<1>2. CASE RetryTake \/ RetryEnqueue \/ RetryLeave
  BY <1>2 DEF RetryTake, RetryEnqueue, RetryLeave
<1>3. ASSUME NEW s \in Span, Consume(s) \/ Accept(s) PROVE IInv'
  BY <1>3 DEF Consume, Accept
<1>4. ASSUME NEW w \in Worker, WorkerStep(w) \/ WorkerSends(w) PROVE IInv'
  BY <1>4 DEF WorkerStep, Process, WorkerCallsSend, WorkerLeaves, WorkerSends, Client!Enqueue
<1>5. CASE Tick \/ TakeConfig \/ ApplyConfig \/ ServerReconfigures
  BY <1>5 DEF Tick, TakeConfig, ApplyConfig, ServerReconfigures
<1>6. ASSUME NEW h \in sealed, CallSend(h) \/ SendReturns(h) PROVE IInv'
  BY <1>6
<1>7. ASSUME NEW batch \in retired, GiveBack(batch) PROVE IInv'
  BY <1>7 DEF GiveBack
<1>8. ASSUME NEW s \in Sender, ClientStep(s) \/ ServerAnswers(s) \/ Callback(s) PROVE IInv'
  BY <1>8 DEF ClientStep, ServerAnswers, Callback, Client!SenderStep, Client!TakeRequest,
              Client!SeeDone, Client!ExportReturns, Client!Report
<1>9. CASE CloseDone \/ ShutdownStep
  BY <1>9 DEF CloseDone, ShutdownStep, BeginStop, StopFlush, StopEncoders, StopShardEncoders, EndStop,
              ShutdownClient, Client!Shutdown
<1>10. CASE UNCHANGED vars
  BY <1>10 DEF vars
<1> QED
  BY <1>1, <1>2, <1>3, <1>4, <1>5, <1>6, <1>7, <1>8, <1>9, <1>10 DEF Next

\* At no moment of the start sequence and of Shutdown, which may cancel it, does a shard
\* encoder run or a record exist without a connected client (exporter.go:148).
THEOREM ClientFirst == Spec => []EncodersNeedClient
<1>1. IInv /\ [Next]_vars => IInv'
  BY ConnectionStays, NothingBegins DEF IInv
<1>2. IInv => EncodersNeedClient
  BY DEF IInv, Unconnected, EncodersNeedClient
<1> QED
  BY Initially, <1>1, <1>2, PTL DEF Spec
-----------------------------------------------------------------------------
(* Types *)

\* Spans on their way in: the retry goroutine holds some only while it sends, and does not
\* run before the first configuration has arrived.
InputTypes ==
  /\ start \in {"idle", "connecting", "getConfig", "done", "failed"}
  /\ input \in [Span -> {"new", "refused", "sending", "accepted"}]
  /\ spansToRetry \in Seq(SUBSET Span) /\ Len(spansToRetry) <= RetryQueueSize
  /\ retry \in [at : {"off", "select", "sending", "gone"}, spans : SUBSET Span]
  /\ retry.at # "sending" => retry.spans = {}
  /\ start # "done" => retry.at = "off"

\* The encoder's queue, and its workers, which hold a record between sealing and sending it.
WorkTypes ==
  /\ queue \in Seq(SUBSET Span) /\ Len(queue) <= Cardinality(Worker)
  /\ worker \in [Worker -> [at : {"off", "select", "sealed", "sending", "finished"},
                            record : Record \cup {NoRecord}]]
  /\ \A w \in Worker : worker[w].at \in {"sealed", "sending"} <=> worker[w].record # NoRecord

\* Configurations, and the shard encoders: one that is live has a configuration, one that is
\* not holds nothing any more.
EncoderTypes ==
  /\ request \in Config \cup {NoConfig} /\ applying \in Config \cup {NoConfig}
  /\ inUse \in Config \cup {NoConfig} /\ live \in BOOLEAN
  /\ accumulated \in SUBSET Span /\ retired \in SUBSET SUBSET Span
  /\ sealed \in SUBSET [record : Record, by : {"flusher", "drainer"}, calling : BOOLEAN]
  /\ IF live THEN inUse # NoConfig ELSE accumulated = {}

\* The client: a sender has a request while it exports and reports, and what it reports
\* is an answer, with a configuration if the record was for another one.
ClientTypes ==
  /\ Client!ClientTypeOK
  /\ \A c \in Sender :
       /\ sender[c].at \in {"exporting", "reporting"} <=> sender[c].request # NoRequest
       /\ sender[c].at = "reporting" =>
            /\ sender[c].answer # NoAnswer
            /\ sender[c].answer.kind = "mismatch" => sender[c].answer.config # NoConfig

OtherTypes ==
  /\ shutdown \in {"running", "closed", "draining", "flushing", "stopping", "closing", "down"}
  /\ isStopping \in BOOLEAN /\ configStopped \in BOOLEAN
  /\ serverConfig \in Config /\ failures \in Nat
  /\ delivered \in SUBSET Span /\ dropped \in SUBSET Span /\ lost \in SUBSET Span

Types == InputTypes /\ WorkTypes /\ EncoderTypes /\ ClientTypes /\ OtherTypes

LEMMA TypesImplied == Types => TypeOK
BY DEF Types, InputTypes, WorkTypes, EncoderTypes, ClientTypes, OtherTypes, TypeOK

\* What a step leaves alone keeps its types.
LEMMA TypesFrame ==
  /\ InputTypes /\ UNCHANGED <<start, inputVars>> => InputTypes'
  /\ WorkTypes /\ UNCHANGED workVars => WorkTypes'
  /\ EncoderTypes /\ UNCHANGED <<configVars, seVars>> => EncoderTypes'
  /\ ClientTypes /\ UNCHANGED clientVars => ClientTypes'
  /\ OtherTypes /\ UNCHANGED <<stopVars, serverVars, outcomes>> => OtherTypes'
BY DEF InputTypes, WorkTypes, EncoderTypes, ClientTypes, OtherTypes, inputVars, workVars,
       configVars, seVars, clientVars, stopVars, serverVars, outcomes, Client!ClientTypeOK

LEMMA WorkersCounted == Cardinality(Worker) \in Nat
BY Sizes, FS_CardinalityType

LEMMA TypesInit == Init => Types
<1> SUFFICES ASSUME Init PROVE Types
  OBVIOUS
<1> USE Sizes, NothingIsNot DEF Init
<1>1. InputTypes BY DEF InputTypes
<1>2. WorkTypes BY WorkersCounted DEF WorkTypes
<1>3. EncoderTypes BY DEF EncoderTypes
<1>4. ClientTypes
  <2>1. /\ sender = [c \in Sender |-> [at |-> "absent", request |-> NoRequest, answer |-> NoAnswer]]
        /\ connection = "new" /\ clientDone = FALSE /\ requestsToSend = <<>>
    BY DEF Client!ClientInit, Client!Idle
  <2>2. Client!ClientTypeOK
    <3>1. requestsToSend \in Seq(Record) BY <2>1
    <3>2. sender \in [Sender -> [at : {"absent", "select", "exporting", "reporting", "gone"},
                                 request : Record \cup {NoRequest},
                                 answer : Answer \cup {NoAnswer}]]
      BY <2>1
    <3>3. clientDone \in BOOLEAN BY <2>1
    <3> QED BY <2>1, <3>1, <3>2, <3>3 DEF Client!ClientTypeOK
  <2>3. \A c \in Sender : sender[c].at = "absent" /\ sender[c].request = NoRequest
    BY <2>1
  <2> QED BY <2>2, <2>3 DEF ClientTypes
<1>5. OtherTypes
  <2>1. 1 \in Config BY DEF Config
  <2> QED BY <2>1 DEF OtherTypes
<1> QED BY <1>1, <1>2, <1>3, <1>4, <1>5 DEF Types

\* What Resend makes of the retry queue and of what is dropped.
LEMMA ResendTypes ==
  ASSUME InputTypes, OtherTypes, NEW batches \in Seq(SUBSET Span), NEW bad \in SUBSET Span,
         Resend(batches, bad)
  PROVE  /\ spansToRetry' \in Seq(SUBSET Span) /\ Len(spansToRetry') <= RetryQueueSize
         /\ dropped' \in SUBSET Span
<1> DEFINE room == RetryQueueSize - Len(spansToRetry)
           kept == IF Len(batches) < room THEN Len(batches) ELSE room
<1>1. kept \in 0..Len(batches) /\ kept <= room
  BY Sizes, LenProperties DEF InputTypes
<1>2. \A i \in 1..Len(batches) : batches[i] \in SUBSET Span
  BY ElementOfSeq
<1>3. /\ SubSeq(batches, 1, kept) \in Seq(SUBSET Span) /\ Len(SubSeq(batches, 1, kept)) = kept
      /\ SubSeq(batches, kept + 1, Len(batches)) \in Seq(SUBSET Span)
  <2> HIDE DEF kept
  <2>1. \A i \in 1..kept : batches[i] \in SUBSET Span
    BY <1>1, <1>2, LenProperties
  <2>2. \A i \in kept + 1..Len(batches) : batches[i] \in SUBSET Span
    BY <1>1, <1>2, LenProperties
  <2>3. kept \in Int /\ kept + 1 \in Int /\ Len(batches) \in Int
    BY <1>1, LenProperties
  <2>4. SubSeq(batches, 1, kept) \in Seq(SUBSET Span) /\ Len(SubSeq(batches, 1, kept)) = kept
    BY <1>1, <2>1, <2>3, SubSeqProperties
  <2> QED BY <2>2, <2>3, <2>4, SubSeqProperties
<1>4. ToSet(SubSeq(batches, kept + 1, Len(batches))) \subseteq SUBSET Span
  <2> DEFINE rest == SubSeq(batches, kept + 1, Len(batches))
  <2> HIDE DEF rest, kept
  <2>1. rest \in Seq(SUBSET Span) BY <1>3 DEF rest
  <2>2. \A i \in DOMAIN rest : rest[i] \in SUBSET Span
    BY <2>1, LenProperties, ElementOfSeq
  <2> QED BY <2>2 DEF ToSet, rest
<1>5. spansToRetry' = spansToRetry \o SubSeq(batches, 1, kept)
      /\ dropped' = dropped \cup bad \cup UNION ToSet(SubSeq(batches, kept + 1, Len(batches)))
  BY DEF Resend
<1> HIDE DEF kept
<1>6. spansToRetry' \in Seq(SUBSET Span)
      /\ Len(spansToRetry') = Len(spansToRetry) + kept
  BY <1>3, <1>5, ConcatProperties DEF InputTypes
<1> QED BY <1>1, <1>4, <1>5, <1>6, Sizes, LenProperties DEF InputTypes, OtherTypes

LEMMA RetryTypes == ASSUME Types, RetryTake \/ RetryEnqueue \/ RetryLeave PROVE Types'
<1> USE DEF Types
<1>1. CASE RetryTake
  <2> USE <1>1 DEF RetryTake
  <2>1. InputTypes'
    <3>1. /\ Head(spansToRetry) \in SUBSET Span /\ Tail(spansToRetry) \in Seq(SUBSET Span)
          /\ Len(Tail(spansToRetry)) = Len(spansToRetry) - 1 /\ Len(spansToRetry) \in Nat
      BY HeadTailProperties, LenProperties DEF InputTypes
    <3>2. /\ spansToRetry' \in Seq(SUBSET Span) /\ Len(spansToRetry') <= RetryQueueSize
      BY <3>1, Sizes DEF InputTypes
    <3> QED BY <3>1, <3>2 DEF InputTypes
  <2>2. OtherTypes'
    <3>1. Head(spansToRetry) \in SUBSET Span
      BY HeadTailProperties DEF InputTypes
    <3> QED BY <3>1 DEF OtherTypes, stopVars, serverVars
  <2> QED BY <2>1, <2>2, TypesFrame
<1>2. CASE RetryEnqueue
  <2> USE <1>2 DEF RetryEnqueue
  <2>1. InputTypes' BY DEF InputTypes
  <2>2. WorkTypes' BY WorkersCounted DEF WorkTypes, InputTypes
  <2> QED BY <2>1, <2>2, TypesFrame
<1>3. CASE RetryLeave
  <2> USE <1>3 DEF RetryLeave
  <2>1. InputTypes' BY DEF InputTypes
  <2> QED BY <2>1, TypesFrame
<1> QED BY <1>1, <1>2, <1>3

LEMMA StartTypes ==
  ASSUME IInv, Types, Start \/ ConnectReturns \/ GotConfig PROVE Types'
<1> USE DEF Types
<1>1. CASE Start
  <2> USE <1>1 DEF Start, Client!BeginConnect
  <2>1. InputTypes' BY DEF InputTypes, inputVars
  <2>2. ClientTypes' BY DEF ClientTypes, Client!ClientTypeOK
  <2> QED BY <2>1, <2>2, TypesFrame
<1>2. CASE ConnectReturns
  <2> USE <1>2 DEF ConnectReturns, Client!Connected, Client!ConnectFails
  <2>1. InputTypes' BY DEF InputTypes, inputVars
  <2>2. ClientTypes'
    <3>1. CASE sender' = sender /\ connection' = "failed"
      BY <3>1 DEF ClientTypes, Client!ClientTypeOK
    <3>2. CASE sender' = [c \in Sender |-> Client!Idle("select")] /\ connection' = "connected"
      <4>1. sender' = [c \in Sender |-> [at |-> "select", request |-> NoRequest, answer |-> NoAnswer]]
        BY <3>2 DEF Client!Idle
      <4>2. sender' \in [Sender -> [at : {"absent", "select", "exporting", "reporting", "gone"},
                                    request : Record \cup {NoRequest},
                                    answer : Answer \cup {NoAnswer}]]
        BY <4>1
      <4> QED BY <3>2, <4>1, <4>2 DEF ClientTypes, Client!ClientTypeOK
    <3> QED BY <3>1, <3>2
  <2> QED BY <2>1, <2>2, TypesFrame
<1>3. CASE GotConfig
  <2> USE <1>3 DEF GotConfig
  <2>1. InputTypes' BY DEF InputTypes
  <2>2. EncoderTypes' BY DEF EncoderTypes, OtherTypes, seVars
  <2> QED BY <2>1, <2>2, TypesFrame
<1> QED BY <1>1, <1>2, <1>3

LEMMA ConsumeTypes == ASSUME Types, NEW s \in Span, Consume(s) \/ Accept(s) PROVE Types'
<1> USE DEF Types
<1>1. CASE Consume(s)
  <2> USE <1>1 DEF Consume
  <2>1. InputTypes' BY DEF InputTypes
  <2> QED BY <2>1, TypesFrame
<1>2. CASE Accept(s)
  <2> USE <1>2 DEF Accept
  <2>1. InputTypes' BY DEF InputTypes
  <2>2. WorkTypes' BY WorkersCounted DEF WorkTypes
  <2> QED BY <2>1, <2>2, TypesFrame
<1> QED BY <1>1, <1>2

\* What is left of a batch comes back span by span, each of them once.
LEMMA GivenBackOnce ==
  ASSUME NEW batch \in SUBSET Span, NEW order \in SetToSeqs({{s} : s \in batch})
  PROVE  /\ order \in Seq(SUBSET Span)
         /\ \A i \in DOMAIN order : \E s \in batch : order[i] = {s}
         /\ \A i, j \in DOMAIN order : order[i] = order[j] => i = j
         /\ \A s \in batch : \E i \in DOMAIN order : order[i] = {s}
<1> DEFINE S == {{s} : s \in batch}
           D == 1..Cardinality(S)
           f == [s \in batch |-> {s}]
<1>1. IsFiniteSet(batch)
  BY Sizes, FS_Subset
<1>2. IsFiniteSet(S) /\ Cardinality(S) \in Nat
  <2>1. f \in Surjection(batch, S) BY DEF Surjection
  <2> QED BY <1>1, <2>1, FS_Surjection, FS_CardinalityType
<1>3. order \in [D -> S] /\ \A i, j \in D : i # j => order[i] # order[j]
  BY DEF SetToSeqs
<1>4. order \in Surjection(D, S)
  <2>1. order \in Injection(D, S) BY <1>3 DEF Injection, IsInjective
  <2>2. Cardinality(D) = Cardinality(S) BY <1>2, FS_Interval
  <2> QED BY <1>2, <2>1, <2>2, FS_Injection
<1>5. order \in Seq(SUBSET Span)
  <2>1. S \subseteq SUBSET Span OBVIOUS
  <2> HIDE DEF S
  <2>2. order \in [D -> SUBSET Span] BY <1>3, <2>1
  <2> QED BY <1>2, <2>2, SeqDef
<1>6. \A i \in D : \E s \in batch : order[i] = {s} BY <1>3
<1>7. \A s \in batch : \E i \in D : order[i] = {s} BY <1>4 DEF Surjection
<1> QED BY <1>3, <1>5, <1>6, <1>7

LEMMA ProcessTypes == ASSUME Types, NEW w \in Worker, Process(w) PROVE Types'
<1> DEFINE batch == Head(queue) \ Fatal
           bad   == Head(queue) \cap Fatal
           whole == accumulated \cup batch
<1> USE DEF Types
<1>1. /\ Head(queue) \in SUBSET Span
      /\ queue' \in Seq(SUBSET Span) /\ Len(queue') <= Cardinality(Worker)
  <2>1. queue # <<>> /\ queue' = Tail(queue) BY DEF Process
  <2>2. /\ Head(queue) \in SUBSET Span /\ Tail(queue) \in Seq(SUBSET Span)
        /\ Len(Tail(queue)) = Len(queue) - 1 /\ Len(queue) \in Nat
    BY <2>1, HeadTailProperties, LenProperties DEF WorkTypes
  <2> QED BY <2>1, <2>2, WorkersCounted DEF WorkTypes
<1>2. batch \in SUBSET Span /\ bad \in SUBSET Span /\ whole \in SUBSET Span
  BY <1>1 DEF EncoderTypes
<1>3. worker[w].at = "select" /\ UNCHANGED <<start, stopVars, input, retry, configVars, retired, sealed,
                                            clientVars, serverVars, delivered, lost>>
  BY DEF Process
<1>4. CASE /\ ~live
           /\ \E order \in SetToSeqs({{s} : s \in batch}) : Resend(order, bad)
           /\ UNCHANGED <<worker, accumulated>>
  <2>1. PICK order \in SetToSeqs({{s} : s \in batch}) : Resend(order, bad)
    BY <1>4
  <2>2. order \in Seq(SUBSET Span) BY <1>2, GivenBackOnce
  <2>3. /\ spansToRetry' \in Seq(SUBSET Span) /\ Len(spansToRetry') <= RetryQueueSize
        /\ dropped' \in SUBSET Span
    <3> HIDE DEF bad
    <3> QED BY <1>2, <2>1, <2>2, ResendTypes
  <2>4. InputTypes' BY <1>3, <2>3 DEF InputTypes
  <2>5. WorkTypes' BY <1>1, <1>4 DEF WorkTypes
  <2>6. OtherTypes' BY <1>3, <2>3 DEF OtherTypes, stopVars, serverVars
  <2> QED BY <1>3, <1>4, <2>4, <2>5, <2>6, TypesFrame DEF seVars
<1>5. CASE /\ live /\ Cardinality(whole) < MaxBatch
           /\ accumulated' = whole
           /\ dropped' = dropped \cup bad
           /\ UNCHANGED <<worker, spansToRetry>>
  <2>1. WorkTypes' BY <1>1, <1>5 DEF WorkTypes
  <2>2. EncoderTypes' BY <1>2, <1>3, <1>5 DEF EncoderTypes, configVars
  <2>3. OtherTypes' BY <1>2, <1>3, <1>5 DEF OtherTypes, stopVars, serverVars
  <2> QED BY <1>3, <1>5, <2>1, <2>2, <2>3, TypesFrame DEF inputVars
<1>6. CASE /\ live /\ Cardinality(whole) >= MaxBatch
           /\ worker' = [worker EXCEPT ![w] = [at |-> "sealed",
                                              record |-> [spans |-> whole, config |-> inUse]]]
           /\ accumulated' = {}
           /\ dropped' = dropped \cup bad
           /\ UNCHANGED spansToRetry
  <2>1. WorkTypes'
    <3>1. [spans |-> whole, config |-> inUse] \in Record
      BY <1>2, <1>6 DEF EncoderTypes, Record
    <3>2. NoRecord \notin Record BY NothingIsNot DEF NoRecord, Record
    <3> HIDE DEF whole
    <3> QED BY <1>1, <1>6, <3>1, <3>2 DEF WorkTypes
  <2>2. EncoderTypes' BY <1>3, <1>6 DEF EncoderTypes, configVars
  <2>3. OtherTypes' BY <1>2, <1>3, <1>6 DEF OtherTypes, stopVars, serverVars
  <2> QED BY <1>3, <1>6, <2>1, <2>2, <2>3, TypesFrame DEF inputVars
<1> QED BY <1>4, <1>5, <1>6 DEF Process

\* Room in the client's queue is filled by a record.
LEMMA EnqueueTypes ==
  ASSUME ClientTypes, NEW r \in Record, Client!Enqueue(r) PROVE ClientTypes'
<1>1. requestsToSend' \in Seq(Record)
  BY DEF Client!Enqueue, ClientTypes, Client!ClientTypeOK
<1> QED BY <1>1 DEF Client!Enqueue, ClientTypes, Client!ClientTypeOK

LEMMA WorkerTypes ==
  ASSUME Types, NEW w \in Worker, WorkerStep(w) \/ WorkerSends(w) PROVE Types'
<1> USE DEF Types
<1>1. CASE WorkerCallsSend(w)
  <2> USE <1>1 DEF WorkerCallsSend
  <2>1. WorkTypes' BY DEF WorkTypes
  <2> QED BY <2>1, TypesFrame
<1>2. CASE WorkerSends(w)
  <2> USE <1>2 DEF WorkerSends
  <2>1. worker[w].record \in Record BY DEF WorkTypes
  <2>2. WorkTypes' BY DEF WorkTypes, NoRecord
  <2> QED BY <2>1, <2>2, EnqueueTypes, TypesFrame
<1>3. CASE WorkerLeaves(w)
  <2> USE <1>3 DEF WorkerLeaves
  <2>1. WorkTypes' BY DEF WorkTypes
  <2> QED BY <2>1, TypesFrame
<1> QED BY <1>1, <1>2, <1>3, ProcessTypes DEF WorkerStep

LEMMA HeldType ==
  ASSUME NEW spans \in SUBSET Span, NEW config \in Config, NEW by \in {"flusher", "drainer"},
         NEW calling \in BOOLEAN
  PROVE  Held(spans, config, by, calling)
           \in [record : Record, by : {"flusher", "drainer"}, calling : BOOLEAN]
BY DEF Held, Record

\* Stopped shard encoders keep what they hold for those who give it back.
LEMMA StopTypes ==
  ASSUME EncoderTypes, StopShardEncoders
  PROVE  live' = FALSE /\ accumulated' = {} /\ retired' \in SUBSET SUBSET Span
BY DEF StopShardEncoders, EncoderTypes

LEMMA EncoderStepTypes == ASSUME Types, Tick \/ TakeConfig \/ ApplyConfig PROVE Types'
<1> USE DEF Types
<1>1. CASE Tick
  <2> USE <1>1 DEF Tick
  <2>1. Held(accumulated, inUse, "flusher", FALSE)
          \in [record : Record, by : {"flusher", "drainer"}, calling : BOOLEAN]
    BY HeldType DEF EncoderTypes
  <2>2. EncoderTypes' BY <2>1 DEF EncoderTypes, configVars
  <2> QED BY <2>2, TypesFrame
<1>2. CASE TakeConfig
  <2> USE <1>2 DEF TakeConfig
  <2>1. EncoderTypes' BY StopTypes DEF EncoderTypes
  <2> QED BY <2>1, TypesFrame
<1>3. CASE ApplyConfig
  <2> USE <1>3 DEF ApplyConfig
  <2>1. WorkTypes' BY DEF WorkTypes
  <2>2. EncoderTypes' BY DEF EncoderTypes, seVars
  <2> QED BY <2>1, <2>2, TypesFrame
<1> QED BY <1>1, <1>2, <1>3

LEMMA HolderTypes == ASSUME Types, NEW h \in sealed, CallSend(h) \/ SendReturns(h) PROVE Types'
<1> USE DEF Types
<1>1. h \in [record : Record, by : {"flusher", "drainer"}, calling : BOOLEAN]
  BY DEF EncoderTypes
<1>2. CASE CallSend(h)
  <2> USE <1>2 DEF CallSend
  <2>1. [h EXCEPT !.calling = TRUE]
          \in [record : Record, by : {"flusher", "drainer"}, calling : BOOLEAN]
    BY <1>1
  <2>2. EncoderTypes' BY <2>1 DEF EncoderTypes, configVars
  <2> QED BY <2>2, TypesFrame
<1>3. CASE SendReturns(h)
  <2> USE <1>3 DEF SendReturns
  <2>1. EncoderTypes' BY DEF EncoderTypes, configVars
  <2>2. ClientTypes' BY <1>1, EnqueueTypes
  <2> QED BY <2>1, <2>2, TypesFrame
<1> QED BY <1>2, <1>3

LEMMA GiveBackTypes == ASSUME Types, NEW batch \in retired, GiveBack(batch) PROVE Types'
<1> USE DEF Types, GiveBack
<1>1. batch \in SUBSET Span /\ <<batch>> \in Seq(SUBSET Span) BY DEF EncoderTypes
<1>2. /\ spansToRetry' \in Seq(SUBSET Span) /\ Len(spansToRetry') <= RetryQueueSize
      /\ dropped' \in SUBSET Span
  BY <1>1, ResendTypes
<1>3. InputTypes' BY <1>2 DEF InputTypes
<1>4. EncoderTypes' BY DEF EncoderTypes, configVars
<1>5. OtherTypes' BY <1>2 DEF OtherTypes, stopVars, serverVars
<1> QED BY <1>3, <1>4, <1>5, TypesFrame

LEMMA ClientStepTypes ==
  ASSUME Types, NEW c \in Sender, ClientStep(c) PROVE Types'
<1> USE DEF Types, ClientStep
<1>1. ClientTypes'
  <2>1. CASE Client!TakeRequest(c)
    <3>1. /\ Head(requestsToSend) \in Record
          /\ Tail(requestsToSend) \in Seq(Record)
      BY <2>1, HeadTailProperties DEF Client!TakeRequest, ClientTypes, Client!ClientTypeOK
    <3>2. sender' = [sender EXCEPT ![c] = [at |-> "exporting", request |-> Head(requestsToSend),
                                           answer |-> NoAnswer]]
      <4>1. [Client!Idle("exporting") EXCEPT !.request = Head(requestsToSend)]
              = [at |-> "exporting", request |-> Head(requestsToSend), answer |-> NoAnswer]
        BY DEF Client!Idle
      <4> QED BY <2>1, <4>1 DEF Client!TakeRequest
    <3> QED BY <2>1, <3>1, <3>2, NothingIsNot
            DEF Client!TakeRequest, ClientTypes, Client!ClientTypeOK
  <2>2. CASE Client!SeeDone(c)
    BY <2>2 DEF Client!SeeDone, Client!Idle, ClientTypes, Client!ClientTypeOK
  <2> QED BY <2>1, <2>2 DEF Client!SenderStep
<1> QED BY <1>1, TypesFrame

\* The server's answer is one, and brings a configuration if it refuses that of the record.
LEMMA AnswerTypes ==
  ASSUME Types, NEW c \in Sender, ServerAnswers(c) PROVE Types'
<1> USE DEF Types
<1>1. PICK a \in Answer : Client!ExportReturns(c, a) /\ (a.kind = "mismatch" => a.config # NoConfig)
  <2>1. serverConfig \in Config BY DEF OtherTypes
  <2>2. \A kind \in {"success", "not_retryable", "retryable", "throttled", "error"} :
          Plain(kind) \in Answer /\ Plain(kind).kind # "mismatch"
    BY DEF Plain, Answer
  <2>3. [kind |-> "mismatch", config |-> serverConfig] \in Answer BY <2>1 DEF Answer
  <2> QED BY <2>1, <2>2, <2>3, NothingIsNot DEF ServerAnswers
<1>2. sender[c].at = "exporting" /\ sender[c].request \in Record
  BY DEF ServerAnswers, ClientTypes, Client!ClientTypeOK
<1>3. ClientTypes'
  <2>1. sender' = [sender EXCEPT ![c].at = "reporting", ![c].answer = a]
    BY <1>1 DEF Client!ExportReturns
  <2>2. Client!ClientTypeOK'
    <3>1. sender' \in [Sender -> [at : {"absent", "select", "exporting", "reporting", "gone"},
                                  request : Record \cup {NoRequest},
                                  answer : Answer \cup {NoAnswer}]]
      BY <2>1 DEF ClientTypes, Client!ClientTypeOK
    <3> QED BY <1>1, <3>1 DEF Client!ExportReturns, ClientTypes, Client!ClientTypeOK
  <2>3. /\ sender'[c].at = "reporting" /\ sender'[c].request = sender[c].request
        /\ sender'[c].answer = a /\ \A d \in Sender \ {c} : sender'[d] = sender[d]
    BY <2>1 DEF ClientTypes, Client!ClientTypeOK
  <2> QED BY <1>1, <1>2, <2>2, <2>3, NothingIsNot DEF ClientTypes
<1>4. OtherTypes'
  <2>1. sender[c].request.spans \in SUBSET Span BY <1>2 DEF Record
  <2>2. delivered' \in SUBSET Span /\ failures' \in Nat
    BY <2>1 DEF ServerAnswers, OtherTypes
  <2> QED BY <2>2 DEF ServerAnswers, OtherTypes, stopVars
<1> QED BY <1>3, <1>4, TypesFrame DEF ServerAnswers

LEMMA CallbackTypes ==
  ASSUME Types, NEW c \in Sender, Callback(c) PROVE Types'
<1> DEFINE batch  == sender[c].request.spans
           answer == sender[c].answer
<1> USE DEF Types
<1>1. /\ sender[c].at = "reporting" /\ batch \in SUBSET Span
      /\ answer \in Answer /\ (answer.kind = "mismatch" => answer.config \in Config)
  <2>1. sender[c].at = "reporting" BY DEF Callback, Client!Report
  <2>2. sender[c].request \in Record /\ answer \in Answer
    BY <2>1 DEF ClientTypes, Client!ClientTypeOK
  <2> QED BY <2>1, <2>2 DEF ClientTypes, Record, Answer
<1>2. ClientTypes'
  BY <1>1 DEF Callback, Client!Report, Client!Idle, ClientTypes, Client!ClientTypeOK
<1>3. /\ request' \in Config \cup {NoConfig}
      /\ spansToRetry' \in Seq(SUBSET Span) /\ Len(spansToRetry') <= RetryQueueSize
      /\ dropped' \in SUBSET Span
  <2>1. <<batch>> \in Seq(SUBSET Span) BY <1>1
  <2>2. Resend(<<batch>>, {}) => /\ spansToRetry' \in Seq(SUBSET Span)
                                 /\ Len(spansToRetry') <= RetryQueueSize
                                 /\ dropped' \in SUBSET Span
    <3> HIDE DEF batch
    <3> QED BY <2>1, ResendTypes
  <2>3. \/ UNCHANGED <<request, spansToRetry, dropped>>
        \/ dropped' = dropped \cup batch /\ UNCHANGED <<request, spansToRetry>>
        \/ Resend(<<batch>>, {}) /\ UNCHANGED request
        \/ answer.kind = "mismatch" /\ request' = answer.config /\ Resend(<<batch>>, {})
    BY DEF Callback
  <2> QED BY <1>1, <2>2, <2>3 DEF InputTypes, EncoderTypes, OtherTypes
<1>4. UNCHANGED <<start, stopVars, input, retry, workVars, applying, inUse, live, seVars,
                  serverVars, delivered, lost>>
  BY DEF Callback
<1>5. InputTypes' BY <1>3, <1>4 DEF InputTypes
<1>6. EncoderTypes' BY <1>3, <1>4 DEF EncoderTypes, seVars
<1>7. OtherTypes' BY <1>3, <1>4 DEF OtherTypes, stopVars, serverVars
<1> QED BY <1>2, <1>4, <1>5, <1>6, <1>7, TypesFrame

LEMMA ShutdownTypes ==
  ASSUME Types, CloseDone \/ ShutdownStep \/ ServerReconfigures PROVE Types'
<1> USE DEF Types
<1>1. CASE CloseDone \/ BeginStop \/ EndStop
  <2>1. OtherTypes'
    BY <1>1 DEF CloseDone, BeginStop, EndStop, OtherTypes, serverVars, outcomes
  <2> QED BY <1>1, <2>1, TypesFrame DEF CloseDone, BeginStop, EndStop
<1>2. CASE StopFlush
  <2> USE <1>2 DEF StopFlush
  <2>1. OtherTypes' BY DEF OtherTypes, serverVars, outcomes
  <2>2. EncoderTypes'
    <3>1. accumulated # {} => Held(accumulated, inUse, "drainer", FALSE)
            \in [record : Record, by : {"flusher", "drainer"}, calling : BOOLEAN]
      BY HeldType DEF EncoderTypes
    <3> QED BY <3>1 DEF EncoderTypes, configVars
  <2> QED BY <2>1, <2>2, TypesFrame
<1>3. CASE StopEncoders
  <2> USE <1>3 DEF StopEncoders
  <2>1. OtherTypes' BY DEF OtherTypes, serverVars, outcomes
  <2>2. EncoderTypes' BY StopTypes DEF EncoderTypes
  <2> QED BY <2>1, <2>2, TypesFrame
<1>4. CASE ShutdownClient
  <2> USE <1>4 DEF ShutdownClient, Client!Shutdown
  <2>1. OtherTypes' BY DEF OtherTypes, serverVars, outcomes
  <2>2. ClientTypes' BY DEF ClientTypes, Client!ClientTypeOK
  <2> QED BY <2>1, <2>2, TypesFrame
<1>5. CASE ServerReconfigures
  <2> USE <1>5 DEF ServerReconfigures
  <2>1. OtherTypes' BY Sizes DEF OtherTypes, stopVars, outcomes, Config
  <2> QED BY <2>1, TypesFrame
<1> QED BY <1>1, <1>2, <1>3, <1>4, <1>5 DEF ShutdownStep

LEMMA TypesStep == IInv /\ Types /\ [Next]_vars => Types'
<1> SUFFICES ASSUME IInv, Types, [Next]_vars PROVE Types'
  OBVIOUS
<1>1. CASE Start \/ ConnectReturns \/ GotConfig BY <1>1, StartTypes
<1>2. CASE RetryTake \/ RetryEnqueue \/ RetryLeave BY <1>2, RetryTypes
<1>3. CASE \E s \in Span : Consume(s) \/ Accept(s) BY <1>3, ConsumeTypes
<1>4. CASE \E w \in Worker : WorkerStep(w) \/ WorkerSends(w) BY <1>4, WorkerTypes
<1>5. CASE Tick \/ TakeConfig \/ ApplyConfig BY <1>5, EncoderStepTypes
<1>6. CASE \E h \in sealed : CallSend(h) \/ SendReturns(h) BY <1>6, HolderTypes
<1>7. CASE \E batch \in retired : GiveBack(batch) BY <1>7, GiveBackTypes
<1>8. CASE \E c \in Sender : ClientStep(c) \/ ServerAnswers(c) \/ Callback(c)
  BY <1>8, ClientStepTypes, AnswerTypes, CallbackTypes
<1>9. CASE ServerReconfigures \/ CloseDone \/ ShutdownStep BY <1>9, ShutdownTypes
<1>10. CASE UNCHANGED vars
  BY <1>10, TypesFrame DEF vars, Types
<1> QED BY <1>1, <1>2, <1>3, <1>4, <1>5, <1>6, <1>7, <1>8, <1>9, <1>10 DEF Next

\* The variables keep their types, and neither the retry queue nor the encoder's queue ever
\* holds more than it has room for (exporter.go:213, encoder.go:128).
THEOREM Typing == Spec => []TypeOK
<1>1. Init => IInv /\ Types
  BY Initially, TypesInit
<1>2. IInv /\ Types /\ [Next]_vars => (IInv /\ Types)'
  BY ConnectionStays, NothingBegins, TypesStep DEF IInv
<1> QED
  BY <1>1, <1>2, TypesImplied, PTL DEF Spec

-----------------------------------------------------------------------------
(* Where a span is *)

InSeq(q, s) == \E i \in DOMAIN q : s \in q[i]
SpansOf(records) == [i \in DOMAIN records |-> records[i].spans]
OnceInSeq(q, s) == \A i, j \in DOMAIN q : s \in q[i] /\ s \in q[j] => i = j

LEMMA AppendOnce ==
  ASSUME NEW q \in Seq(SUBSET Span), NEW batch \in SUBSET Span, NEW s, OnceInSeq(q, s)
  PROVE  /\ InSeq(Append(q, batch), s) <=> InSeq(q, s) \/ s \in batch
         /\ ~(InSeq(q, s) /\ s \in batch) => OnceInSeq(Append(q, batch), s)
<1> DEFINE r == Append(q, batch)
<1>1. /\ DOMAIN q = 1..Len(q) /\ Len(q) \in Nat /\ DOMAIN r = 1..Len(q) + 1
      /\ \A i \in 1..Len(q) : r[i] = q[i]
      /\ r[Len(q) + 1] = batch
  OBVIOUS
<1> HIDE DEF r
<1>2. \A i \in DOMAIN r : i \in DOMAIN q \/ i = Len(q) + 1
  BY <1>1
<1>3. DOMAIN q \subseteq DOMAIN r /\ Len(q) + 1 \in DOMAIN r
  BY <1>1
<1>4. InSeq(r, s) <=> InSeq(q, s) \/ s \in batch
  BY <1>1, <1>2, <1>3 DEF InSeq
<1>5. ~(InSeq(q, s) /\ s \in batch) => OnceInSeq(r, s)
  BY <1>1, <1>2 DEF InSeq, OnceInSeq
<1> QED BY <1>4, <1>5 DEF r

LEMMA TailOnce ==
  ASSUME NEW q \in Seq(SUBSET Span), q # <<>>, NEW s, OnceInSeq(q, s)
  PROVE  /\ InSeq(q, s) <=> s \in Head(q) \/ InSeq(Tail(q), s)
         /\ ~(s \in Head(q) /\ InSeq(Tail(q), s))
         /\ OnceInSeq(Tail(q), s)
<1> DEFINE r == Tail(q)
<1>1. /\ DOMAIN q = 1..Len(q) /\ Len(q) \in Nat \ {0} /\ DOMAIN r = 1..Len(q) - 1
      /\ \A i \in 1..Len(q) - 1 : r[i] = q[i + 1]
      /\ Head(q) = q[1]
  BY HeadTailProperties, LenProperties, EmptySeq
<1> HIDE DEF r
<1>2. \A i \in DOMAIN q : i = 1 \/ (i - 1 \in DOMAIN r /\ q[i] = r[i - 1])
  BY <1>1
<1>3. 1 \in DOMAIN q /\ \A i \in DOMAIN r : i + 1 \in DOMAIN q /\ i + 1 # 1 /\ r[i] = q[i + 1]
  BY <1>1
<1>4. InSeq(q, s) <=> s \in Head(q) \/ InSeq(r, s)
  BY <1>1, <1>2, <1>3 DEF InSeq
<1>5. ~(s \in Head(q) /\ InSeq(r, s))
  BY <1>1, <1>3 DEF InSeq, OnceInSeq
<1>6. OnceInSeq(r, s)
  <2> SUFFICES ASSUME NEW i \in DOMAIN r, NEW j \in DOMAIN r, s \in r[i], s \in r[j] PROVE i = j
    BY DEF OnceInSeq
  <2>1. i + 1 = j + 1 BY <1>3 DEF OnceInSeq
  <2> QED BY <1>1, <2>1
<1> QED BY <1>4, <1>5, <1>6 DEF r

\* Resend puts a span on the retry queue or counts it as dropped, and does one of them.
LEMMA ResendOnce ==
  ASSUME InputTypes, NEW batches \in Seq(SUBSET Span), NEW bad \in SUBSET Span,
         Resend(batches, bad), NEW s, OnceInSeq(spansToRetry, s), OnceInSeq(batches, s),
         ~(InSeq(spansToRetry, s) /\ InSeq(batches, s))
  PROVE  /\ OnceInSeq(spansToRetry', s)
         /\ InSeq(spansToRetry', s) => InSeq(spansToRetry, s) \/ InSeq(batches, s)
         /\ InSeq(spansToRetry, s) => InSeq(spansToRetry', s)
         /\ s \in dropped' => s \in dropped \cup bad \/ InSeq(batches, s)
         /\ s \in dropped \cup bad => s \in dropped'
         /\ InSeq(batches, s) => s \in dropped' \/ InSeq(spansToRetry', s)
         /\ InSeq(batches, s) /\ s \notin dropped \cup bad =>
              ~(s \in dropped' /\ InSeq(spansToRetry', s))
<1> DEFINE q    == spansToRetry
           room == RetryQueueSize - Len(q)
           kept == IF Len(batches) < room THEN Len(batches) ELSE room
           in   == SubSeq(batches, 1, kept)
           out  == SubSeq(batches, kept + 1, Len(batches))
           r    == q \o in
<1>1. /\ kept \in 0..Len(batches) /\ Len(batches) \in Nat /\ DOMAIN batches = 1..Len(batches)
      /\ q \in Seq(SUBSET Span) /\ Len(q) \in Nat /\ DOMAIN q = 1..Len(q)
  BY Sizes, LenProperties DEF InputTypes
<1>2. spansToRetry' = r /\ dropped' = dropped \cup bad \cup UNION ToSet(out)
  BY DEF Resend
<1> HIDE DEF kept
<1>3. \A i \in 1..Len(batches) : batches[i] \in SUBSET Span
  BY ElementOfSeq
<1>4. /\ in \in Seq(SUBSET Span) /\ Len(in) = kept /\ DOMAIN in = 1..kept
      /\ \A i \in 1..kept : in[i] = batches[i]
  <2>1. \A i \in 1..kept : batches[i] \in SUBSET Span BY <1>1, <1>3
  <2>2. in \in Seq(SUBSET Span) /\ Len(in) = kept /\ \A i \in 1..kept : in[i] = batches[i]
    BY <1>1, <2>1, SubSeqProperties
  <2> QED BY <2>2, LenProperties
<1>5. /\ DOMAIN out = 1..Len(batches) - kept
      /\ \A i \in 1..Len(batches) - kept : out[i] = batches[kept + i]
  <2>1. \A i \in kept + 1..Len(batches) : batches[i] \in SUBSET Span BY <1>1, <1>3
  <2>2. /\ out \in Seq(SUBSET Span) /\ Len(out) = Len(batches) - kept
        /\ \A i \in 1..Len(batches) - kept : out[i] = batches[kept + i]
    <3> DEFINE m == kept + 1
    <3>1. m \in Int /\ Len(batches) \in Int /\ Len(batches) - m + 1 = Len(batches) - kept
      BY <1>1
    <3>2. \A i \in 1..Len(batches) - kept : m + i - 1 = kept + i
      BY <1>1
    <3>3. ~(m <= Len(batches)) => 0 = Len(batches) - kept
      <4>1. \A k, n \in Nat : k <= n /\ ~(k + 1 <= n) => 0 = n - k
        OBVIOUS
      <4>2. kept \in Nat /\ Len(batches) \in Nat /\ kept <= Len(batches)
        BY <1>1
      <4> QED BY <4>1, <4>2
    <3>4. \A i \in m..Len(batches) : batches[i] \in SUBSET Span BY <2>1
    <3> HIDE DEF m
    <3>5. /\ SubSeq(batches, m, Len(batches)) \in Seq(SUBSET Span)
          /\ Len(SubSeq(batches, m, Len(batches)))
               = IF m <= Len(batches) THEN Len(batches) - m + 1 ELSE 0
          /\ \A i \in 1..Len(batches) - m + 1 : SubSeq(batches, m, Len(batches))[i] = batches[m + i - 1]
      BY <3>1, <3>4, SubSeqProperties
    <3> QED BY <3>1, <3>2, <3>3, <3>5 DEF m
  <2> QED BY <2>2, LenProperties
<1> HIDE DEF in, out
<1>6. /\ DOMAIN r = 1..Len(q) + kept
      /\ \A i \in 1..Len(q) + kept : r[i] = IF i <= Len(q) THEN q[i] ELSE in[i - Len(q)]
  <2>1. r \in Seq(SUBSET Span) /\ Len(r) = Len(q) + kept
    BY <1>1, <1>4, ConcatProperties
  <2> QED BY <1>1, <1>4, <2>1, ConcatProperties, LenProperties
<1> HIDE DEF r, q
<1>7. \A i \in DOMAIN r : \/ i \in DOMAIN q /\ r[i] = q[i]
                          \/ /\ i - Len(q) \in 1..kept /\ i - Len(q) \in DOMAIN batches
                             /\ r[i] = batches[i - Len(q)]
  BY <1>1, <1>4, <1>6
<1>8. /\ \A i \in DOMAIN q : i \in DOMAIN r /\ r[i] = q[i]
      /\ \A i \in 1..kept : Len(q) + i \in DOMAIN r /\ r[Len(q) + i] = batches[i]
  BY <1>1, <1>4, <1>6
<1>9. s \in UNION ToSet(out) <=> \E i \in DOMAIN batches : i > kept /\ s \in batches[i]
  <2>1. s \in UNION ToSet(out) <=> \E i \in DOMAIN out : s \in out[i]
    BY DEF ToSet
  <2>2. \A i \in DOMAIN batches : i > kept => i - kept \in DOMAIN out /\ out[i - kept] = batches[i]
    <3> SUFFICES ASSUME NEW i \in DOMAIN batches, i > kept
                 PROVE  i - kept \in DOMAIN out /\ out[i - kept] = batches[i]
      OBVIOUS
    <3>1. i - kept \in 1..Len(batches) - kept /\ kept + (i - kept) = i BY <1>1
    <3> QED BY <1>5, <3>1
  <2>3. \A i \in DOMAIN out : kept + i \in DOMAIN batches /\ kept + i > kept /\ out[i] = batches[kept + i]
    <3> SUFFICES ASSUME NEW i \in DOMAIN out
                 PROVE  kept + i \in DOMAIN batches /\ kept + i > kept /\ out[i] = batches[kept + i]
      OBVIOUS
    <3>1. i \in 1..Len(batches) - kept BY <1>5
    <3>2. kept + i \in 1..Len(batches) /\ kept + i > kept BY <1>1, <3>1
    <3> QED BY <1>1, <1>5, <3>1, <3>2
  <2> QED BY <2>1, <2>2, <2>3
<1>10. InSeq(r, s) <=> InSeq(q, s) \/ \E i \in 1..kept : s \in batches[i]
  BY <1>7, <1>8 DEF InSeq
<1>11. OnceInSeq(r, s)
  <2> SUFFICES ASSUME NEW i \in DOMAIN r, NEW j \in DOMAIN r, s \in r[i], s \in r[j] PROVE i = j
    BY DEF OnceInSeq
  <2>1. CASE i \in DOMAIN q /\ j \in DOMAIN q BY <1>8, <2>1 DEF OnceInSeq, q
  <2>2. CASE i \notin DOMAIN q /\ j \notin DOMAIN q
    <3>1. i - Len(q) = j - Len(q) BY <1>7, <2>2 DEF OnceInSeq
    <3> QED BY <1>1, <1>6, <3>1
  <2>3. CASE i \in DOMAIN q /\ j \notin DOMAIN q BY <1>7, <1>8, <2>3 DEF InSeq, q
  <2>4. CASE i \notin DOMAIN q /\ j \in DOMAIN q BY <1>7, <1>8, <2>4 DEF InSeq, q
  <2> QED BY <2>1, <2>2, <2>3, <2>4
<1>12. InSeq(batches, s) <=> \/ \E i \in 1..kept : s \in batches[i]
                             \/ \E i \in DOMAIN batches : i > kept /\ s \in batches[i]
  BY <1>1 DEF InSeq
<1>13. ~(/\ \E i \in 1..kept : s \in batches[i]
         /\ \E i \in DOMAIN batches : i > kept /\ s \in batches[i])
  BY <1>1 DEF OnceInSeq
<1> QED BY <1>2, <1>9, <1>10, <1>11, <1>12, <1>13 DEF q

\* The stages a span may be in.
InRetry(s)    == s \in retry.spans
InBacklog(s)  == InSeq(spansToRetry, s)
InQueue(s)    == InSeq(queue, s)
InWorker(s)   == \E w \in Worker : s \in worker[w].record.spans
InLive(s)     == s \in accumulated
InRetired(s)  == \E batch \in retired : s \in batch
InSealed(s)   == \E h \in sealed : s \in h.record.spans
InRequests(s) == InSeq(SpansOf(requestsToSend), s)
Carries(c, s) == sender[c].request # NoRequest /\ s \in sender[c].request.spans
InSender(s)   == \E c \in Sender : Carries(c, s)

\* A stage has it once.
OneBacklog(s) == OnceInSeq(spansToRetry, s)
OneQueue(s)   == OnceInSeq(queue, s)
OneWorker(s)  == \A v, w \in Worker :
                   s \in worker[v].record.spans /\ s \in worker[w].record.spans => v = w
OneRetired(s) == \A a, b \in retired : s \in a /\ s \in b => a = b
OneSealed(s)  == \A g, h \in sealed : s \in g.record.spans /\ s \in h.record.spans => g = h
OneRequest(s) == OnceInSeq(SpansOf(requestsToSend), s)
OneSender(s)  == \A c, d \in Sender : Carries(c, s) /\ Carries(d, s) => c = d

\* A sender that has a span the server took is about to report it as taken, or as failed.
Reports(s) ==
  \A c \in Sender : Carries(c, s) => /\ sender[c].at = "reporting"
                                     /\ sender[c].answer.kind \in {"success", "error"}

\* A sender is about to report that the server took it.
Succeeds(s) ==
  \E c \in Sender : /\ Carries(c, s) /\ sender[c].at = "reporting"
                    /\ sender[c].answer.kind = "success"

\* No two stages have it.
Apart(s) ==
  /\ InRetry(s) => ~(InBacklog(s) \/ InQueue(s) \/ InWorker(s) \/ InLive(s) \/ InRetired(s)
                     \/ InSealed(s) \/ InRequests(s) \/ InSender(s))
  /\ InBacklog(s) => ~(InQueue(s) \/ InWorker(s) \/ InLive(s) \/ InRetired(s)
                       \/ InSealed(s) \/ InRequests(s) \/ InSender(s))
  /\ InQueue(s) => ~(InWorker(s) \/ InLive(s) \/ InRetired(s) \/ InSealed(s)
                     \/ InRequests(s) \/ InSender(s))
  /\ InWorker(s) => ~(InLive(s) \/ InRetired(s) \/ InSealed(s) \/ InRequests(s) \/ InSender(s))
  /\ InLive(s) => ~(InRetired(s) \/ InSealed(s) \/ InRequests(s) \/ InSender(s))
  /\ InRetired(s) => ~(InSealed(s) \/ InRequests(s) \/ InSender(s))
  /\ InSealed(s) => ~(InRequests(s) \/ InSender(s))
  /\ InRequests(s) => ~InSender(s)

Once(s) ==
  /\ OneBacklog(s) /\ OneQueue(s) /\ OneWorker(s) /\ OneRetired(s) /\ OneSealed(s)
  /\ OneRequest(s) /\ OneSender(s)

\* Before a sender has it, and at all.
Waits(s) == InRetry(s) \/ InBacklog(s) \/ InQueue(s) \/ InWorker(s) \/ InLive(s)
            \/ InRetired(s) \/ InSealed(s) \/ InRequests(s)
Kept(s)  == Waits(s) \/ InSender(s)

\* A span is somewhere from its acceptance until its fate is decided.
Decided(s) ==
  /\ Kept(s) => input[s] = "accepted" /\ s \notin dropped /\ s \notin lost
  /\ input[s] # "accepted" => s \notin delivered /\ s \notin dropped /\ s \notin lost
  /\ input[s] = "accepted" /\ ~Kept(s) => s \in delivered \/ s \in dropped \/ s \in lost

\* What the server took waits nowhere, and it did take what is reported as taken.
TakenOnce(s) == /\ s \in delivered => ~Waits(s) /\ Reports(s)
                /\ Succeeds(s) => s \in delivered

Located(s) == Once(s) /\ Apart(s) /\ Decided(s) /\ TakenOnce(s)
Copied     == \A s \in Span : Located(s)

LEMMA CopiedImplies == Types /\ Copied => OneCopy /\ DeliveredOnce
<1> SUFFICES ASSUME Types, Copied PROVE OneCopy /\ DeliveredOnce
  OBVIOUS
<1>1. ASSUME NEW s \in Span, Located(s)
      PROVE  /\ \A p, q \in Places(s) : p = q
             /\ Places(s) # {} <=> Kept(s)
             /\ s \in delivered => \A p \in Places(s) :
                  /\ p[1] = "sender" /\ sender[p[2]].at = "reporting"
                  /\ sender[p[2]].answer.kind \in {"success", "error"}
  <2> DEFINE AtRetry(p)    == p = <<"retry", 0>> /\ InRetry(s)
             AtBacklog(p)  == \E i \in DOMAIN spansToRetry :
                                p = <<"spansToRetry", i>> /\ s \in spansToRetry[i]
             AtQueue(p)    == \E i \in DOMAIN queue : p = <<"queue", i>> /\ s \in queue[i]
             AtWorker(p)   == \E w \in Worker : p = <<"worker", w>> /\ s \in worker[w].record.spans
             AtLive(p)     == p = <<"live", 0>> /\ InLive(s)
             AtRetired(p)  == \E batch \in retired : p = <<"retired", batch>> /\ s \in batch
             AtSealed(p)   == \E h \in sealed : p = <<"sealed", h>> /\ s \in h.record.spans
             AtRequests(p) == \E i \in DOMAIN requestsToSend :
                                p = <<"requestsToSend", i>> /\ s \in requestsToSend[i].spans
             AtSender(p)   == \E c \in Sender : p = <<"sender", c>> /\ Carries(c, s)
  <2>1. \A p : p \in Places(s) <=>
          \/ AtRetry(p) \/ AtBacklog(p) \/ AtQueue(p) \/ AtWorker(p) \/ AtLive(p)
          \/ AtRetired(p) \/ AtSealed(p) \/ AtRequests(p) \/ AtSender(p)
    BY DEF Places, InRetry, InLive, Carries
  <2>2. /\ InRetry(s) <=> \E p : AtRetry(p)
        /\ InBacklog(s) <=> \E p : AtBacklog(p)
        /\ InQueue(s) <=> \E p : AtQueue(p)
    BY DEF InBacklog, InQueue, InSeq
  <2>3. /\ InWorker(s) <=> \E p : AtWorker(p)
        /\ InLive(s) <=> \E p : AtLive(p)
        /\ InRetired(s) <=> \E p : AtRetired(p)
    BY DEF InWorker, InRetired
  <2>4. /\ InSealed(s) <=> \E p : AtSealed(p)
        /\ InRequests(s) <=> \E p : AtRequests(p)
        /\ InSender(s) <=> \E p : AtSender(p)
    BY DEF InSealed, InRequests, InSeq, SpansOf, InSender
  <2>5. \A p, q : /\ AtRetry(p) /\ AtRetry(q) => p = q
                  /\ AtBacklog(p) /\ AtBacklog(q) => p = q
                  /\ AtQueue(p) /\ AtQueue(q) => p = q
                  /\ AtWorker(p) /\ AtWorker(q) => p = q
                  /\ AtLive(p) /\ AtLive(q) => p = q
    BY <1>1 DEF Located, Once, OneBacklog, OneQueue, OnceInSeq, OneWorker
  <2>6. \A p, q : /\ AtRetired(p) /\ AtRetired(q) => p = q
                  /\ AtSealed(p) /\ AtSealed(q) => p = q
                  /\ AtRequests(p) /\ AtRequests(q) => p = q
                  /\ AtSender(p) /\ AtSender(q) => p = q
    BY <1>1 DEF Located, Once, OneRetired, OneSealed, OneRequest, OnceInSeq, SpansOf, OneSender
  <2>7. \A p : AtSender(p) /\ s \in delivered =>
          /\ p[1] = "sender" /\ sender[p[2]].at = "reporting"
          /\ sender[p[2]].answer.kind \in {"success", "error"}
    BY <1>1 DEF Located, TakenOnce, Reports
  <2> HIDE DEF AtRetry, AtBacklog, AtQueue, AtWorker, AtLive, AtRetired, AtSealed, AtRequests, AtSender
  <2>8. Places(s) # {} <=> Kept(s)
    BY <2>1, <2>2, <2>3, <2>4 DEF Kept, Waits
  <2>9. \A p, q \in Places(s) : p = q
    <3> SUFFICES ASSUME NEW p \in Places(s), NEW q \in Places(s) PROVE p = q
      OBVIOUS
    <3>1. \A r \in {p, q} :
            /\ (AtRetry(r) => InRetry(s)) /\ (AtBacklog(r) => InBacklog(s))
            /\ (AtQueue(r) => InQueue(s)) /\ (AtWorker(r) => InWorker(s))
            /\ (AtLive(r) => InLive(s)) /\ (AtRetired(r) => InRetired(s))
            /\ (AtSealed(r) => InSealed(s)) /\ (AtRequests(r) => InRequests(s))
            /\ (AtSender(r) => InSender(s))
      BY <2>2, <2>3, <2>4
    <3>2. \A r \in {p, q} :
            \/ AtRetry(r) \/ AtBacklog(r) \/ AtQueue(r) \/ AtWorker(r) \/ AtLive(r)
            \/ AtRetired(r) \/ AtSealed(r) \/ AtRequests(r) \/ AtSender(r)
      BY <2>1
    <3>3. CASE AtRetry(p) BY <1>1, <2>5, <3>1, <3>2, <3>3 DEF Located, Apart
    <3>4. CASE AtBacklog(p) BY <1>1, <2>5, <3>1, <3>2, <3>4 DEF Located, Apart
    <3>5. CASE AtQueue(p) BY <1>1, <2>5, <3>1, <3>2, <3>5 DEF Located, Apart
    <3>6. CASE AtWorker(p) BY <1>1, <2>5, <3>1, <3>2, <3>6 DEF Located, Apart
    <3>7. CASE AtLive(p) BY <1>1, <2>5, <3>1, <3>2, <3>7 DEF Located, Apart
    <3>8. CASE AtRetired(p) BY <1>1, <2>6, <3>1, <3>2, <3>8 DEF Located, Apart
    <3>9. CASE AtSealed(p) BY <1>1, <2>6, <3>1, <3>2, <3>9 DEF Located, Apart
    <3>10. CASE AtRequests(p) BY <1>1, <2>6, <3>1, <3>2, <3>10 DEF Located, Apart
    <3>11. CASE AtSender(p) BY <1>1, <2>6, <3>1, <3>2, <3>11 DEF Located, Apart
    <3> QED BY <3>2, <3>3, <3>4, <3>5, <3>6, <3>7, <3>8, <3>9, <3>10, <3>11
  <2>10. s \in delivered => \A p \in Places(s) : AtSender(p)
    BY <1>1, <2>1, <2>2, <2>3, <2>4 DEF Located, TakenOnce, Waits
  <2> QED BY <2>7, <2>8, <2>9, <2>10
<1>2. OneCopy BY <1>1 DEF OneCopy, Copied, Located, Decided
<1>3. delivered \subseteq Span BY DEF Types, OtherTypes
<1> QED BY <1>1, <1>2, <1>3 DEF DeliveredOnce, Copied
\* What a step leaves alone holds the spans it held.
LEMMA Frame ==
  ASSUME NEW s
  PROVE  /\ UNCHANGED retry => (InRetry(s)' <=> InRetry(s))
         /\ UNCHANGED spansToRetry =>
              (InBacklog(s)' <=> InBacklog(s)) /\ (OneBacklog(s)' <=> OneBacklog(s))
         /\ UNCHANGED queue => (InQueue(s)' <=> InQueue(s)) /\ (OneQueue(s)' <=> OneQueue(s))
         /\ UNCHANGED worker =>
              (InWorker(s)' <=> InWorker(s)) /\ (OneWorker(s)' <=> OneWorker(s))
         /\ UNCHANGED accumulated => (InLive(s)' <=> InLive(s))
         /\ UNCHANGED retired =>
              (InRetired(s)' <=> InRetired(s)) /\ (OneRetired(s)' <=> OneRetired(s))
         /\ UNCHANGED sealed =>
              (InSealed(s)' <=> InSealed(s)) /\ (OneSealed(s)' <=> OneSealed(s))
         /\ UNCHANGED requestsToSend =>
              (InRequests(s)' <=> InRequests(s)) /\ (OneRequest(s)' <=> OneRequest(s))
         /\ UNCHANGED sender =>
              /\ (InSender(s)' <=> InSender(s)) /\ (OneSender(s)' <=> OneSender(s))
              /\ (Reports(s)' <=> Reports(s)) /\ (Succeeds(s)' <=> Succeeds(s))
BY DEF InRetry, InBacklog, OneBacklog, InQueue, OneQueue, InWorker, OneWorker, InLive, InRetired,
       OneRetired, InSealed, OneSealed, InRequests, OneRequest, InSender, OneSender, Carries, Reports,
       Succeeds

\* The stages that are sequences, when one batch is added or the first is taken.
LEMMA QueueGrows ==
  ASSUME WorkTypes, NEW batch \in SUBSET Span, queue' = Append(queue, batch), NEW s,
         OneQueue(s), ~(InQueue(s) /\ s \in batch)
  PROVE  OneQueue(s)' /\ (InQueue(s)' <=> InQueue(s) \/ s \in batch)
BY AppendOnce DEF WorkTypes, OneQueue, InQueue

LEMMA QueueShrinks ==
  ASSUME WorkTypes, queue # <<>>, queue' = Tail(queue), NEW s, OneQueue(s)
  PROVE  /\ OneQueue(s)' /\ ~(s \in Head(queue) /\ InQueue(s)')
         /\ InQueue(s) <=> s \in Head(queue) \/ InQueue(s)'
BY TailOnce DEF WorkTypes, OneQueue, InQueue

LEMMA BacklogShrinks ==
  ASSUME InputTypes, spansToRetry # <<>>, spansToRetry' = Tail(spansToRetry), NEW s, OneBacklog(s)
  PROVE  /\ OneBacklog(s)' /\ ~(s \in Head(spansToRetry) /\ InBacklog(s)')
         /\ InBacklog(s) <=> s \in Head(spansToRetry) \/ InBacklog(s)'
BY TailOnce DEF InputTypes, OneBacklog, InBacklog

LEMMA SpansOfRecords ==
  ASSUME NEW records \in Seq(Record)
  PROVE  /\ SpansOf(records) \in Seq(SUBSET Span)
         /\ \A r \in Record : SpansOf(Append(records, r)) = Append(SpansOf(records), r.spans)
         /\ records # <<>> => /\ SpansOf(records) # <<>>
                             /\ Head(SpansOf(records)) = Head(records).spans
                             /\ SpansOf(Tail(records)) = Tail(SpansOf(records))
<1> DEFINE n == Len(records)
           spans == SpansOf(records)
<1>1. n \in Nat /\ DOMAIN records = 1..n /\ \A i \in 1..n : records[i] \in Record
  BY LenProperties, ElementOfSeq
<1>2. \A r \in Record : r.spans \in SUBSET Span
  BY DEF Record
<1>3. /\ spans \in Seq(SUBSET Span) /\ Len(spans) = n
      /\ \A i \in 1..n : spans[i] = records[i].spans
  <2>1. spans \in [1..n -> SUBSET Span] BY <1>1, <1>2 DEF SpansOf
  <2>2. spans \in Seq(SUBSET Span) BY <1>1, <2>1, SeqDef
  <2> QED BY <1>1, <2>1, <2>2, LenProperties DEF SpansOf
<1> HIDE DEF spans
<1>4. ASSUME NEW r \in Record PROVE SpansOf(Append(records, r)) = Append(spans, r.spans)
  <2>1. /\ DOMAIN Append(records, r) = 1..n + 1
        /\ \A i \in 1..n + 1 : Append(records, r)[i] = IF i <= n THEN records[i] ELSE r
    BY <1>1
  <2>2. Append(spans, r.spans) = [i \in 1..n + 1 |-> IF i <= n THEN spans[i] ELSE r.spans]
    BY <1>1, <1>2, <1>3
  <2> QED BY <1>1, <1>3, <2>1, <2>2 DEF SpansOf
<1>5. ASSUME records # <<>>
      PROVE  spans # <<>> /\ Head(spans) = Head(records).spans /\ SpansOf(Tail(records)) = Tail(spans)
  <2>1. n \in Nat \ {0} BY <1>5, EmptySeq
  <2>2. spans # <<>> /\ Head(spans) = Head(records).spans
    BY <1>3, <2>1
  <2>3. /\ DOMAIN Tail(records) = 1..n - 1
        /\ \A i \in 1..n - 1 : Tail(records)[i] = records[i + 1]
    BY <1>1, <1>5, <2>1, HeadTailProperties, LenProperties
  <2>4. /\ Tail(spans) \in [1..n - 1 -> SUBSET Span]
        /\ \A i \in 1..n - 1 : Tail(spans)[i] = spans[i + 1]
    BY <1>3, <2>1, <2>2, HeadTailProperties, LenProperties
  <2>5. \A i \in 1..n - 1 : i + 1 \in 1..n
    BY <2>1
  <2>6. SpansOf(Tail(records)) = [i \in 1..n - 1 |-> Tail(records)[i].spans]
    BY <2>3 DEF SpansOf
  <2>7. \A i \in 1..n - 1 : Tail(records)[i].spans = Tail(spans)[i]
    BY <1>3, <2>3, <2>4, <2>5
  <2>8. Tail(spans) = [i \in 1..n - 1 |-> Tail(spans)[i]]
    BY <2>4
  <2> QED BY <2>2, <2>6, <2>7, <2>8
<1> QED BY <1>3, <1>4, <1>5 DEF spans

LEMMA RequestsGrow ==
  ASSUME ClientTypes, NEW r \in Record, Client!Enqueue(r), NEW s,
         OneRequest(s), ~(InRequests(s) /\ s \in r.spans)
  PROVE  OneRequest(s)' /\ (InRequests(s)' <=> InRequests(s) \/ s \in r.spans)
<1>1. /\ requestsToSend \in Seq(Record) /\ requestsToSend' = Append(requestsToSend, r)
      /\ r.spans \in SUBSET Span
  BY DEF ClientTypes, Client!ClientTypeOK, Client!Enqueue, Record
<1> DEFINE q == SpansOf(requestsToSend)
<1>2. q \in Seq(SUBSET Span) /\ SpansOf(requestsToSend') = Append(q, r.spans)
  BY <1>1, SpansOfRecords
<1>3. OnceInSeq(q, s) /\ ~(InSeq(q, s) /\ s \in r.spans)
  BY DEF OneRequest, InRequests
<1> HIDE DEF q
<1>4. /\ InSeq(Append(q, r.spans), s) <=> InSeq(q, s) \/ s \in r.spans
      /\ OnceInSeq(Append(q, r.spans), s)
  BY <1>1, <1>2, <1>3, AppendOnce
<1> QED BY <1>2, <1>4 DEF OneRequest, InRequests, q

LEMMA RequestsShrink ==
  ASSUME ClientTypes, requestsToSend # <<>>, requestsToSend' = Tail(requestsToSend), NEW s,
         OneRequest(s)
  PROVE  /\ OneRequest(s)' /\ ~(s \in Head(requestsToSend).spans /\ InRequests(s)')
         /\ InRequests(s) <=> s \in Head(requestsToSend).spans \/ InRequests(s)'
<1>1. requestsToSend \in Seq(Record)
  BY DEF ClientTypes, Client!ClientTypeOK
<1> DEFINE q == SpansOf(requestsToSend)
<1>2. /\ q \in Seq(SUBSET Span) /\ q # <<>> /\ Head(q) = Head(requestsToSend).spans
      /\ SpansOf(requestsToSend') = Tail(q)
  BY <1>1, SpansOfRecords
<1>3. OnceInSeq(q, s)
  BY DEF OneRequest
<1> HIDE DEF q
<1>4. /\ OnceInSeq(Tail(q), s) /\ ~(s \in Head(q) /\ InSeq(Tail(q), s))
      /\ InSeq(q, s) <=> s \in Head(q) \/ InSeq(Tail(q), s)
  BY <1>2, <1>3, TailOnce
<1> QED BY <1>2, <1>4 DEF OneRequest, InRequests, q
-----------------------------------------------------------------------------
(* One place *)

\* Steps that leave every span where it is.
LEMMA QuietSteps ==
  ASSUME IInv, Types, NEW s \in Span, Located(s),
         \/ Start \/ ConnectReturns \/ GotConfig \/ RetryLeave \/ ApplyConfig \/ ServerReconfigures
         \/ CloseDone \/ BeginStop \/ EndStop \/ ShutdownClient \/ UNCHANGED vars
         \/ \E w \in Worker : WorkerCallsSend(w) \/ WorkerLeaves(w)
         \/ \E c \in Sender : Client!SeeDone(c) /\ ClientStep(c)
  PROVE  Located(s)'
<1> USE DEF inputVars, workVars, configVars, seVars, stopVars, clientVars, serverVars, outcomes
<1> DEFINE Still == UNCHANGED <<input, spansToRetry, queue, accumulated, retired, sealed,
                                requestsToSend, delivered, dropped, lost>>
           RetryStill  == InRetry(s)' <=> InRetry(s)
           WorkerStill == (InWorker(s)' <=> InWorker(s)) /\ (OneWorker(s)' <=> OneWorker(s))
           SenderStill == /\ (InSender(s)' <=> InSender(s)) /\ (OneSender(s)' <=> OneSender(s))
                          /\ (Reports(s)' <=> Reports(s)) /\ (Succeeds(s)' <=> Succeeds(s))
<1>1. ASSUME Still, RetryStill, WorkerStill, SenderStill PROVE Located(s)'
  BY <1>1, Frame DEF Located, Once, Apart, Decided, TakenOnce, Waits, Kept
<1>2. CASE \/ Start \/ ServerReconfigures \/ CloseDone \/ BeginStop \/ EndStop \/ ShutdownClient
           \/ UNCHANGED vars
  <2>1. Still /\ UNCHANGED <<retry, worker, sender>>
    BY <1>2 DEF Start, Client!BeginConnect, ServerReconfigures, CloseDone, BeginStop, EndStop,
                ShutdownClient, Client!Shutdown, vars
  <2> QED BY <1>1, <2>1, Frame
<1>3. CASE ConnectReturns
  <2>1. Still /\ UNCHANGED <<retry, worker>>
    BY <1>3 DEF ConnectReturns, Client!Connected, Client!ConnectFails
  <2>2. CASE UNCHANGED sender BY <1>1, <2>1, <2>2, Frame
  <2>3. CASE sender' = [c \in Sender |-> Client!Idle("select")] /\ connection = "connecting"
    <3>1. \A c \in Sender : ~Carries(c, s)
      BY <2>3 DEF IInv, Unconnected, Types, ClientTypes, Carries
    <3>2. \A c \in Sender : ~Carries(c, s)'
      BY <2>3 DEF Client!Idle, Carries
    <3> HIDE DEF Carries
    <3>3. SenderStill
      BY <3>1, <3>2 DEF InSender, OneSender, Reports, Succeeds
    <3> QED BY <1>1, <2>1, <3>3, Frame
  <2> QED BY <1>3, <2>2, <2>3 DEF ConnectReturns, Client!Connected, Client!ConnectFails
<1>4. CASE GotConfig \/ RetryLeave
  <2>1. Still /\ UNCHANGED <<worker, sender>>
    BY <1>4 DEF GotConfig, RetryLeave
  <2>2. retry'.spans = retry.spans
    <3>1. /\ retry \in [at : {"off", "select", "sending", "gone"}, spans : SUBSET Span]
          /\ retry.at # "sending" => retry.spans = {}
      BY DEF Types, InputTypes
    <3>2. CASE GotConfig BY <3>1, <3>2 DEF GotConfig
    <3>3. CASE RetryLeave BY <3>1, <3>3 DEF RetryLeave
    <3> QED BY <1>4, <3>2, <3>3
  <2>3. RetryStill BY <2>2 DEF InRetry
  <2> QED BY <1>1, <2>1, <2>3, Frame
<1>5. CASE ApplyConfig \/ \E w \in Worker : WorkerCallsSend(w) \/ WorkerLeaves(w)
  <2>1. /\ Still /\ UNCHANGED <<retry, sender>>
        /\ \A w \in Worker : worker'[w].record = worker[w].record
    BY <1>5 DEF ApplyConfig, WorkerCallsSend, WorkerLeaves, Types, WorkTypes
  <2>2. WorkerStill BY <2>1 DEF InWorker, OneWorker
  <2> QED BY <1>1, <2>1, <2>2, Frame
<1>6. ASSUME NEW c \in Sender, Client!SeeDone(c) /\ ClientStep(c) PROVE Located(s)'
  <2>1. Still /\ UNCHANGED <<retry, worker>>
    BY <1>6 DEF ClientStep, Client!SeeDone
  <2>2. \A d \in Sender : /\ Carries(d, s)' <=> Carries(d, s)
                          /\ Carries(d, s) => sender'[d] = sender[d]
    <3>1. sender' = [sender EXCEPT ![c] = [at |-> "gone", request |-> NoRequest, answer |-> NoAnswer]]
          /\ sender[c].at = "select"
      BY <1>6 DEF Client!SeeDone, Client!Idle
    <3> QED BY <3>1 DEF Types, ClientTypes, Client!ClientTypeOK, Carries
  <2>3. SenderStill
    BY <2>2 DEF InSender, OneSender, Reports, Succeeds
  <2> QED BY <1>1, <2>1, <2>3, Frame
<1> QED BY <1>2, <1>3, <1>4, <1>5, <1>6

\* Spans come in, and the retry goroutine sends them on.
LEMMA InputSteps ==
  ASSUME Types, NEW s \in Span, Located(s),
         \/ \E t \in Span : Consume(t) \/ Accept(t)
         \/ RetryTake \/ RetryEnqueue
  PROVE  Located(s)'
<1> USE DEF inputVars, workVars, configVars, seVars, stopVars, clientVars, serverVars, outcomes,
            Located, Once, Apart, Decided, TakenOnce, Waits, Kept
<1>1. ASSUME NEW t \in Span, Consume(t) PROVE Located(s)'
  BY <1>1, Frame DEF Consume, Types, InputTypes
<1>2. ASSUME NEW t \in Span, Accept(t) PROVE Located(s)'
  <2>1. input[t] = "sending" /\ input' = [input EXCEPT ![t] = "accepted"]
        /\ queue' = Append(queue, {t})
    BY <1>2 DEF Accept
  <2>2. OneQueue(s)' /\ (InQueue(s)' <=> InQueue(s) \/ s = t)
    <3>1. ~(InQueue(s) /\ s \in {t}) /\ {t} \in SUBSET Span BY <2>1
    <3> QED BY <2>1, <3>1, QueueGrows DEF Types
  <2>3. input'[s] = IF s = t THEN "accepted" ELSE input[s]
    BY <2>1 DEF Types, InputTypes
  <2> QED BY <1>2, <2>1, <2>2, <2>3, Frame DEF Accept
<1>3. CASE RetryTake
  <2> DEFINE batch == Head(spansToRetry)
  <2>1. /\ OneBacklog(s)' /\ ~(s \in batch /\ InBacklog(s)')
        /\ InBacklog(s) <=> s \in batch \/ InBacklog(s)'
    BY <1>3, BacklogShrinks DEF RetryTake, Types
  <2>2. ~InRetry(s) BY <1>3 DEF RetryTake, InRetry, Types, InputTypes
  <2>3. \/ (InRetry(s)' <=> s \in batch) /\ UNCHANGED lost
        \/ ~InRetry(s)' /\ lost' = lost \cup batch
    BY <1>3, <2>2 DEF RetryTake, InRetry
  <2> HIDE DEF batch
  <2> QED BY <1>3, <2>1, <2>2, <2>3, Frame DEF RetryTake
<1>4. CASE RetryEnqueue
  <2>1. OneQueue(s)' /\ (InQueue(s)' <=> InQueue(s) \/ InRetry(s))
    <3>1. retry.spans \in SUBSET Span BY DEF Types, InputTypes
    <3> QED BY <1>4, <3>1, QueueGrows DEF RetryEnqueue, Types, InRetry
  <2>2. ~InRetry(s)' BY <1>4 DEF RetryEnqueue, InRetry
  <2> QED BY <1>4, <2>1, <2>2, Frame DEF RetryEnqueue
<1> QED BY <1>1, <1>2, <1>3, <1>4

\* What Resend does to a span of the batches, which was in no other place.
LEMMA BacklogGrows ==
  ASSUME InputTypes, OtherTypes, NEW batches \in Seq(SUBSET Span), NEW bad \in SUBSET Span,
         Resend(batches, bad), NEW s, OneBacklog(s), OnceInSeq(batches, s),
         ~(InBacklog(s) /\ InSeq(batches, s))
  PROVE  /\ OneBacklog(s)'
         /\ InBacklog(s)' => InBacklog(s) \/ InSeq(batches, s)
         /\ InBacklog(s) => InBacklog(s)'
         /\ s \in dropped' => s \in dropped \cup bad \/ InSeq(batches, s)
         /\ s \in dropped \cup bad => s \in dropped'
         /\ InSeq(batches, s) => s \in dropped' \/ InBacklog(s)'
         /\ InSeq(batches, s) /\ s \notin dropped \cup bad => ~(s \in dropped' /\ InBacklog(s)')
BY ResendOnce DEF OneBacklog, InBacklog

LEMMA BacklogGrowsByOne ==
  ASSUME InputTypes, OtherTypes, NEW batch \in SUBSET Span, Resend(<<batch>>, {}), NEW s,
         OneBacklog(s), ~(InBacklog(s) /\ s \in batch)
  PROVE  /\ OneBacklog(s)'
         /\ InBacklog(s)' => InBacklog(s) \/ s \in batch
         /\ InBacklog(s) => InBacklog(s)'
         /\ s \in dropped' => s \in dropped \/ s \in batch
         /\ s \in dropped => s \in dropped'
         /\ s \in batch => s \in dropped' \/ InBacklog(s)'
         /\ s \in batch /\ s \notin dropped => ~(s \in dropped' /\ InBacklog(s)')
<1> DEFINE batches == <<batch>>
           none    == {}
<1>1. /\ batches \in Seq(SUBSET Span) /\ none \in SUBSET Span
      /\ InSeq(batches, s) <=> s \in batch
      /\ OnceInSeq(batches, s)
  BY DEF InSeq, OnceInSeq
<1>2. Resend(batches, none) /\ dropped \cup none = dropped
  OBVIOUS
<1> HIDE DEF batches, none
<1>3. ~(InBacklog(s) /\ InSeq(batches, s))
  BY <1>1
<1>4. /\ OneBacklog(s)'
      /\ InBacklog(s)' => InBacklog(s) \/ InSeq(batches, s)
      /\ InBacklog(s) => InBacklog(s)'
      /\ s \in dropped' => s \in dropped \cup none \/ InSeq(batches, s)
      /\ s \in dropped \cup none => s \in dropped'
      /\ InSeq(batches, s) => s \in dropped' \/ InBacklog(s)'
      /\ InSeq(batches, s) /\ s \notin dropped \cup none => ~(s \in dropped' /\ InBacklog(s)')
  BY <1>1, <1>2, <1>3, BacklogGrows
<1> QED BY <1>1, <1>2, <1>4

\* A worker without a record gets one, and gives it away.
LEMMA WorkerHolds ==
  ASSUME WorkTypes, NEW w \in Worker, worker[w].at = "select", NEW label, NEW r,
         worker' = [worker EXCEPT ![w] = [at |-> label, record |-> r]],
         NEW s, OneWorker(s), ~(InWorker(s) /\ s \in r.spans)
  PROVE  OneWorker(s)' /\ (InWorker(s)' <=> InWorker(s) \/ s \in r.spans)
<1>1. worker[w].record.spans = {} BY DEF WorkTypes, NoRecord
<1>2. /\ worker'[w].record = r
      /\ \A v \in Worker \ {w} : worker'[v] = worker[v]
  BY DEF WorkTypes
<1> QED BY <1>1, <1>2 DEF OneWorker, InWorker

LEMMA WorkerFrees ==
  ASSUME WorkTypes, NEW w \in Worker,
         worker' = [worker EXCEPT ![w] = [at |-> "select", record |-> NoRecord]],
         NEW s, OneWorker(s)
  PROVE  /\ OneWorker(s)' /\ ~(s \in worker[w].record.spans /\ InWorker(s)')
         /\ InWorker(s) <=> s \in worker[w].record.spans \/ InWorker(s)'
<1>1. /\ worker'[w].record.spans = {}
      /\ \A v \in Worker \ {w} : worker'[v] = worker[v]
  BY DEF WorkTypes, NoRecord
<1> QED BY <1>1 DEF OneWorker, InWorker

\* A goroutine gets what was accumulated, and gives its record away.
LEMMA SealedGrows ==
  ASSUME NEW by, sealed' = sealed \cup {Held(accumulated, inUse, by, FALSE)},
         NEW s, OneSealed(s), ~(InSealed(s) /\ InLive(s))
  PROVE  OneSealed(s)' /\ (InSealed(s)' <=> InSealed(s) \/ InLive(s))
<1> DEFINE h == Held(accumulated, inUse, by, FALSE)
<1>1. h.record.spans = accumulated BY DEF Held
<1> HIDE DEF h
<1> QED BY <1>1 DEF OneSealed, InSealed, InLive, h

LEMMA SealedShrinks ==
  ASSUME NEW h \in sealed, sealed' = sealed \ {h}, NEW s, OneSealed(s)
  PROVE  /\ OneSealed(s)' /\ ~(s \in h.record.spans /\ InSealed(s)')
         /\ InSealed(s) <=> s \in h.record.spans \/ InSealed(s)'
BY DEF OneSealed, InSealed

\* Stopped shard encoders keep what they had accumulated.
LEMMA StopOnce ==
  ASSUME StopShardEncoders, NEW s, OneRetired(s), ~(InRetired(s) /\ InLive(s))
  PROVE  /\ OneRetired(s)' /\ ~InLive(s)'
         /\ InRetired(s)' <=> InRetired(s) \/ InLive(s)
BY DEF StopShardEncoders, OneRetired, InRetired, InLive

LEMMA ProcessStep ==
  ASSUME Types, NEW s \in Span, Located(s), NEW w \in Worker, Process(w) PROVE Located(s)'
<1> DEFINE batch == Head(queue) \ Fatal
           bad   == Head(queue) \cap Fatal
           whole == accumulated \cup batch
<1> USE DEF Located, Once, Apart, Decided, TakenOnce, Waits, Kept
<1>1. /\ OneQueue(s)' /\ ~(s \in Head(queue) /\ InQueue(s)')
      /\ InQueue(s) <=> s \in Head(queue) \/ InQueue(s)'
      /\ Head(queue) \in SUBSET Span
  BY QueueShrinks, HeadTailProperties DEF Process, Types, WorkTypes
<1>2. /\ s \in Head(queue) <=> s \in batch \/ s \in bad
      /\ ~(s \in batch /\ s \in bad)
      /\ batch \in SUBSET Span /\ bad \in SUBSET Span
  BY <1>1
<1>3. UNCHANGED <<input, retry, retired, sealed, requestsToSend, sender, delivered, lost>>
  BY DEF Process, clientVars
<1>4. CASE /\ \E order \in SetToSeqs({{t} : t \in batch}) : Resend(order, bad)
           /\ UNCHANGED <<worker, accumulated>>
  <2>1. PICK order \in SetToSeqs({{t} : t \in batch}) : Resend(order, bad)
    BY <1>4
  <2> HIDE DEF batch, bad
  <2>2. /\ order \in Seq(SUBSET Span) /\ OnceInSeq(order, s)
        /\ InSeq(order, s) <=> s \in batch
    <3>1. /\ order \in Seq(SUBSET Span)
          /\ \A i \in DOMAIN order : \E t \in batch : order[i] = {t}
          /\ \A i, j \in DOMAIN order : order[i] = order[j] => i = j
          /\ \A t \in batch : \E i \in DOMAIN order : order[i] = {t}
      BY <1>2, GivenBackOnce
    <3>2. \A i \in DOMAIN order : s \in order[i] => order[i] = {s} /\ s \in batch
      BY <3>1
    <3> QED BY <3>1, <3>2 DEF InSeq, OnceInSeq
  <2>3. /\ OneBacklog(s)'
        /\ InBacklog(s)' => InBacklog(s) \/ s \in batch
        /\ InBacklog(s) => InBacklog(s)'
        /\ s \in dropped' => s \in dropped \cup bad \/ s \in batch
        /\ s \in dropped \cup bad => s \in dropped'
        /\ s \in batch => s \in dropped' \/ InBacklog(s)'
        /\ s \in batch /\ s \notin dropped \cup bad => ~(s \in dropped' /\ InBacklog(s)')
    <3>1. ~(InBacklog(s) /\ InSeq(order, s)) BY <1>1, <1>2, <2>2
    <3>2. InputTypes /\ OtherTypes BY DEF Types
    <3>3. OneBacklog(s) OBVIOUS
    <3> QED BY <1>2, <2>1, <2>2, <3>1, <3>2, <3>3, BacklogGrows
  <2> QED BY <1>1, <1>2, <1>3, <1>4, <2>3, Frame
<1>5. CASE /\ accumulated' = whole
           /\ dropped' = dropped \cup bad
           /\ UNCHANGED <<worker, spansToRetry>>
  <2>1. InLive(s)' <=> InLive(s) \/ s \in batch BY <1>5 DEF InLive
  <2>2. s \in dropped' <=> s \in dropped \/ s \in bad BY <1>5
  <2> HIDE DEF batch, bad
  <2> QED BY <1>1, <1>2, <1>3, <1>5, <2>1, <2>2, Frame
<1>6. CASE /\ worker' = [worker EXCEPT ![w] = [at |-> "sealed",
                                              record |-> [spans |-> whole, config |-> inUse]]]
           /\ accumulated' = {}
           /\ dropped' = dropped \cup bad
           /\ UNCHANGED spansToRetry
  <2>1. ~InLive(s)' BY <1>6 DEF InLive
  <2>2. s \in dropped' <=> s \in dropped \/ s \in bad BY <1>6
  <2>3. s \in whole <=> InLive(s) \/ s \in batch BY DEF InLive
  <2> HIDE DEF batch, bad, whole
  <2>4. OneWorker(s)' /\ (InWorker(s)' <=> InWorker(s) \/ s \in whole)
    <3>1. worker[w].at = "select" /\ WorkTypes BY DEF Process, Types
    <3>2. OneWorker(s) /\ ~(InWorker(s) /\ s \in whole) BY <1>1, <1>2, <2>3
    <3> DEFINE r == [spans |-> whole, config |-> inUse]
    <3>3. r.spans = whole OBVIOUS
    <3>4. worker' = [worker EXCEPT ![w] = [at |-> "sealed", record |-> r]] BY <1>6
    <3> HIDE DEF r
    <3> QED BY <3>1, <3>2, <3>3, <3>4, WorkerHolds
  <2> QED BY <1>1, <1>2, <1>3, <1>6, <2>1, <2>2, <2>3, <2>4, Frame
<1> QED BY <1>4, <1>5, <1>6 DEF Process

\* Records are sealed by the tick and by Stop, kept by stopped encoders, and sent.
LEMMA EncoderSteps ==
  ASSUME Types, NEW s \in Span, Located(s),
         Tick \/ TakeConfig \/ StopFlush \/ StopEncoders
  PROVE  Located(s)'
<1> USE DEF inputVars, workVars, configVars, seVars, stopVars, clientVars, serverVars, outcomes,
            Located, Once, Apart, Decided, TakenOnce, Waits, Kept
<1>1. CASE Tick
  <2>1. OneSealed(s)' /\ (InSealed(s)' <=> InSealed(s) \/ InLive(s))
    BY <1>1, SealedGrows DEF Tick
  <2>2. ~InLive(s)' BY <1>1 DEF Tick, InLive
  <2> QED BY <1>1, <2>1, <2>2, Frame DEF Tick
<1>2. CASE TakeConfig
  <2>1. OneRetired(s)' /\ ~InLive(s)' /\ (InRetired(s)' <=> InRetired(s) \/ InLive(s))
    BY <1>2, StopOnce DEF TakeConfig
  <2> QED BY <1>2, <2>1, Frame DEF TakeConfig
<1>3. CASE StopFlush
  <2>1. OneSealed(s)' /\ (InSealed(s)' <=> InSealed(s) \/ InLive(s))
    <3>1. CASE accumulated = {} BY <1>3, <3>1, Frame DEF StopFlush, InLive
    <3>2. CASE accumulated # {} BY <1>3, <3>2, SealedGrows DEF StopFlush
    <3> QED BY <3>1, <3>2
  <2>2. ~InLive(s)' BY <1>3 DEF StopFlush, InLive
  <2> QED BY <1>3, <2>1, <2>2, Frame DEF StopFlush
<1>4. CASE StopEncoders
  <2>1. OneRetired(s)' /\ ~InLive(s)' /\ (InRetired(s)' <=> InRetired(s) \/ InLive(s))
    BY <1>4, StopOnce DEF StopEncoders
  <2> QED BY <1>4, <2>1, Frame DEF StopEncoders
<1> QED BY <1>1, <1>2, <1>3, <1>4

LEMMA SendSteps ==
  ASSUME Types, NEW s \in Span, Located(s),
         \/ \E w \in Worker : WorkerSends(w)
         \/ \E h \in sealed : CallSend(h) \/ SendReturns(h)
  PROVE  Located(s)'
<1> USE DEF inputVars, workVars, configVars, seVars, stopVars, clientVars, serverVars, outcomes,
            Located, Once, Apart, Decided, TakenOnce, Waits, Kept
<1>1. ASSUME NEW w \in Worker, WorkerSends(w) PROVE Located(s)'
  <2>1. /\ OneWorker(s)' /\ ~(s \in worker[w].record.spans /\ InWorker(s)')
        /\ InWorker(s) <=> s \in worker[w].record.spans \/ InWorker(s)'
    BY <1>1, WorkerFrees DEF WorkerSends, Types
  <2>2. worker[w].record \in Record
    BY <1>1 DEF WorkerSends, Types, WorkTypes
  <2>3. OneRequest(s)' /\ (InRequests(s)' <=> InRequests(s) \/ s \in worker[w].record.spans)
    <3>1. ~(InRequests(s) /\ s \in worker[w].record.spans) /\ OneRequest(s) BY <2>1
    <3> QED BY <1>1, <2>2, <3>1, RequestsGrow DEF WorkerSends, Types
  <2>4. UNCHANGED sender BY <1>1 DEF WorkerSends, Client!Enqueue
  <2> QED BY <1>1, <2>1, <2>3, <2>4, Frame DEF WorkerSends
<1>2. ASSUME NEW h \in sealed, CallSend(h) PROVE Located(s)'
  <2>1. OneSealed(s)' /\ (InSealed(s)' <=> InSealed(s))
    <3> DEFINE g == [h EXCEPT !.calling = TRUE]
    <3>1. g.record = h.record BY DEF Types, EncoderTypes
    <3>2. sealed' = (sealed \ {h}) \cup {g} BY <1>2 DEF CallSend
    <3> HIDE DEF g
    <3> QED BY <3>1, <3>2 DEF OneSealed, InSealed
  <2> QED BY <1>2, <2>1, Frame DEF CallSend
<1>3. ASSUME NEW h \in sealed, SendReturns(h) PROVE Located(s)'
  <2>1. /\ OneSealed(s)' /\ ~(s \in h.record.spans /\ InSealed(s)')
        /\ InSealed(s) <=> s \in h.record.spans \/ InSealed(s)'
    BY <1>3, SealedShrinks DEF SendReturns
  <2>2. h.record \in Record
    BY DEF Types, EncoderTypes
  <2>3. OneRequest(s)' /\ (InRequests(s)' <=> InRequests(s) \/ s \in h.record.spans)
    <3>1. ~(InRequests(s) /\ s \in h.record.spans) /\ OneRequest(s) BY <2>1
    <3> QED BY <1>3, <2>2, <3>1, RequestsGrow DEF SendReturns, Types
  <2>4. UNCHANGED sender BY <1>3 DEF SendReturns, Client!Enqueue
  <2> QED BY <1>3, <2>1, <2>3, <2>4, Frame DEF SendReturns
<1> QED BY <1>1, <1>2, <1>3

LEMMA GiveBackStep ==
  ASSUME Types, NEW s \in Span, Located(s), NEW batch \in retired, GiveBack(batch)
  PROVE  Located(s)'
<1> USE DEF Located, Once, Apart, Decided, TakenOnce, Waits, Kept
<1>1. /\ OneRetired(s)' /\ ~(s \in batch /\ InRetired(s)')
      /\ InRetired(s) <=> s \in batch \/ InRetired(s)'
  BY DEF GiveBack, OneRetired, InRetired
<1>2. batch \in SUBSET Span /\ InputTypes /\ OtherTypes
  BY DEF Types, EncoderTypes
<1>3. /\ OneBacklog(s)'
      /\ InBacklog(s)' => InBacklog(s) \/ s \in batch
      /\ InBacklog(s) => InBacklog(s)'
      /\ s \in dropped' => s \in dropped \/ s \in batch
      /\ s \in dropped => s \in dropped'
      /\ s \in batch => s \in dropped' \/ InBacklog(s)'
      /\ s \in batch /\ s \notin dropped => ~(s \in dropped' /\ InBacklog(s)')
  <2>1. OneBacklog(s) /\ ~(InBacklog(s) /\ s \in batch) BY <1>1
  <2>2. Resend(<<batch>>, {}) BY DEF GiveBack
  <2> QED BY <1>2, <2>1, <2>2, BacklogGrowsByOne
<1>4. UNCHANGED <<input, retry, queue, worker, accumulated, sealed, requestsToSend, sender, delivered, lost>>
  BY DEF GiveBack, workVars, clientVars
<1> QED BY <1>1, <1>3, <1>4, Frame

\* A sender takes a request, gets its answer, and reports it.
LEMMA TakeRequestStep ==
  ASSUME Types, NEW s \in Span, Located(s), NEW c \in Sender, ClientStep(c), Client!TakeRequest(c)
  PROVE  Located(s)'
<1> USE DEF Located, Once, Apart, Decided, TakenOnce, Waits, Kept
<1> DEFINE r == Head(requestsToSend)
<1>1. /\ OneRequest(s)' /\ ~(s \in r.spans /\ InRequests(s)')
      /\ InRequests(s) <=> s \in r.spans \/ InRequests(s)'
  BY RequestsShrink DEF Client!TakeRequest, Types
<1>2. r \in Record
  BY HeadTailProperties DEF Client!TakeRequest, Types, ClientTypes, Client!ClientTypeOK
<1>3. /\ sender'[c].at = "exporting" /\ sender'[c].request = r
      /\ \A d \in Sender \ {c} : sender'[d] = sender[d]
  <2>1. sender' = [sender EXCEPT ![c] = [Client!Idle("exporting") EXCEPT !.request = r]]
    BY DEF Client!TakeRequest
  <2>2. [Client!Idle("exporting") EXCEPT !.request = r]
          = [at |-> "exporting", request |-> r, answer |-> NoAnswer]
    BY DEF Client!Idle
  <2> QED BY <2>1, <2>2 DEF Types, ClientTypes, Client!ClientTypeOK
<1>4. ~Carries(c, s)
  BY DEF Client!TakeRequest, Carries, Types, ClientTypes
<1> HIDE DEF r
<1>5. /\ Carries(c, s)' <=> s \in r.spans
      /\ \A d \in Sender \ {c} : Carries(d, s)' <=> Carries(d, s)
  BY <1>2, <1>3, NothingIsNot DEF Carries
<1>6. /\ InSender(s)' <=> InSender(s) \/ s \in r.spans
      /\ ~(InSender(s) /\ s \in r.spans) => OneSender(s)'
      /\ s \notin r.spans => (Reports(s)' <=> Reports(s))
      /\ Succeeds(s)' <=> Succeeds(s)
  BY <1>3, <1>4, <1>5 DEF InSender, OneSender, Reports, Succeeds
<1>7. UNCHANGED <<input, retry, spansToRetry, queue, worker, accumulated, retired, sealed, delivered,
                  dropped, lost>>
  BY DEF ClientStep, inputVars, workVars, seVars, outcomes
<1> QED BY <1>1, <1>6, <1>7, Frame

LEMMA AnswerStep ==
  ASSUME Types, NEW s \in Span, Located(s), NEW c \in Sender, ServerAnswers(c)
  PROVE  Located(s)'
<1> USE DEF Located, Once, Apart, Decided, TakenOnce, Waits, Kept
<1>1. PICK a : /\ Client!ExportReturns(c, a)
               /\ \/ delivered' = delivered /\ a.kind # "success"
                  \/ /\ delivered' = delivered \cup sender[c].request.spans
                     /\ a.kind \in {"success", "error"}
  <2>1. \A kind : Plain(kind).kind = kind BY DEF Plain
  <2> QED BY <2>1 DEF ServerAnswers
<1>2. /\ sender[c].at = "exporting" /\ sender[c].request # NoRequest
      /\ sender'[c].at = "reporting" /\ sender'[c].request = sender[c].request
      /\ sender'[c].answer = a /\ \A d \in Sender \ {c} : sender'[d] = sender[d]
  BY <1>1 DEF Client!ExportReturns, Types, ClientTypes, Client!ClientTypeOK
<1>3. /\ \A d \in Sender : Carries(d, s)' <=> Carries(d, s)
      /\ Carries(c, s) <=> s \in sender[c].request.spans
  BY <1>2 DEF Carries
<1>4. (InSender(s)' <=> InSender(s)) /\ OneSender(s)'
  BY <1>3 DEF InSender, OneSender
<1>5. UNCHANGED <<input, retry, spansToRetry, queue, worker, accumulated, retired, sealed, requestsToSend,
                  dropped, lost>>
  BY <1>1 DEF ServerAnswers, Client!ExportReturns, inputVars, workVars, seVars
<1>6. CASE ~Carries(c, s)
  <2>1. s \in delivered' <=> s \in delivered BY <1>1, <1>3, <1>6
  <2>2. (Reports(s)' <=> Reports(s)) /\ (Succeeds(s)' <=> Succeeds(s))
    BY <1>2, <1>3, <1>6 DEF Reports, Succeeds
  <2> QED BY <1>4, <1>5, <2>1, <2>2, Frame
<1>7. CASE Carries(c, s)
  <2>1. InSender(s) /\ s \notin delivered
    BY <1>2, <1>7 DEF InSender, Reports
  <2>2. \A d \in Sender \ {c} : ~Carries(d, s)' BY <1>3, <1>7 DEF OneSender
  <2>3. Succeeds(s)' => a.kind = "success"
    BY <1>2, <2>2 DEF Succeeds
  <2>4. a.kind \in {"success", "error"} => Reports(s)'
    BY <1>2, <2>2 DEF Reports
  <2>5. /\ s \in delivered' => a.kind \in {"success", "error"}
        /\ a.kind = "success" => s \in delivered'
    BY <1>1, <1>3, <1>7, <2>1
  <2> QED BY <1>4, <1>5, <2>1, <2>3, <2>4, <2>5, Frame
<1> QED BY <1>6, <1>7

LEMMA CallbackStep ==
  ASSUME Types, NEW s \in Span, Located(s), NEW c \in Sender, Callback(c)
  PROVE  Located(s)'
<1> DEFINE batch  == sender[c].request.spans
           answer == sender[c].answer
<1> USE DEF Located, Once, Apart, Decided, TakenOnce, Waits, Kept
<1>1. /\ sender[c].at = "reporting" /\ sender[c].request \in Record /\ answer \in Answer
      /\ sender'[c].request = NoRequest /\ \A d \in Sender \ {c} : sender'[d] = sender[d]
  <2>1. sender[c].at = "reporting" /\ sender' = [sender EXCEPT ![c] = Client!Idle("select")]
    BY DEF Callback, Client!Report
  <2> QED BY <2>1 DEF Types, ClientTypes, Client!ClientTypeOK, Client!Idle
<1>2. batch \in SUBSET Span BY <1>1 DEF Record
<1>3. /\ Carries(c, s) <=> s \in batch
      /\ ~Carries(c, s)' /\ \A d \in Sender \ {c} : Carries(d, s)' <=> Carries(d, s)
  BY <1>1, NothingIsNot DEF Carries
<1>4. /\ OneSender(s)' /\ ~(s \in batch /\ InSender(s)')
      /\ InSender(s) <=> s \in batch \/ InSender(s)'
  BY <1>3 DEF OneSender, InSender
<1>5. /\ Reports(s) => Reports(s)'
      /\ Succeeds(s)' => Succeeds(s)
  BY <1>1, <1>3 DEF Reports, Succeeds
<1>6. /\ s \in batch /\ answer.kind = "success" => s \in delivered
      /\ s \in batch /\ s \in delivered => answer.kind \in {"success", "error"}
  <2>1. s \in batch /\ answer.kind = "success" => Succeeds(s)
    BY <1>1, <1>3 DEF Succeeds
  <2>2. s \in batch /\ Reports(s) => answer.kind \in {"success", "error"}
    BY <1>3 DEF Reports
  <2> QED BY <2>1, <2>2
<1>7. UNCHANGED <<input, retry, queue, worker, accumulated, retired, sealed, requestsToSend, delivered, lost>>
  BY DEF Callback, Client!Report, workVars, seVars
<1>8. \/ answer.kind = "success" /\ UNCHANGED <<spansToRetry, dropped>>
      \/ dropped' = dropped \cup batch /\ UNCHANGED spansToRetry
      \/ answer.kind \in {"retryable", "throttled", "mismatch"} /\ Resend(<<batch>>, {})
  BY DEF Callback
<1> HIDE DEF batch, answer
<1>9. CASE answer.kind = "success" /\ UNCHANGED <<spansToRetry, dropped>>
  BY <1>4, <1>5, <1>6, <1>7, <1>9, Frame
<1>10. CASE dropped' = dropped \cup batch /\ UNCHANGED spansToRetry
  <2>1. s \in dropped' <=> s \in dropped \/ s \in batch BY <1>10
  <2> QED BY <1>4, <1>5, <1>6, <1>7, <1>10, <2>1, Frame
<1>11. CASE answer.kind \in {"retryable", "throttled", "mismatch"} /\ Resend(<<batch>>, {})
  <2>1. /\ OneBacklog(s)'
        /\ InBacklog(s)' => InBacklog(s) \/ s \in batch
        /\ InBacklog(s) => InBacklog(s)'
        /\ s \in dropped' => s \in dropped \/ s \in batch
        /\ s \in dropped => s \in dropped'
        /\ s \in batch => s \in dropped' \/ InBacklog(s)'
        /\ s \in batch /\ s \notin dropped => ~(s \in dropped' /\ InBacklog(s)')
    <3>1. OneBacklog(s) /\ ~(InBacklog(s) /\ s \in batch) BY <1>4
    <3>2. InputTypes /\ OtherTypes BY DEF Types
    <3> QED BY <1>2, <1>11, <3>1, <3>2, BacklogGrowsByOne
  <2>2. s \in batch => s \notin delivered BY <1>6, <1>11
  <2> QED BY <1>4, <1>5, <1>7, <2>1, <2>2, Frame
<1> QED BY <1>8, <1>9, <1>10, <1>11

LEMMA CopiedInit == Init => Copied
<1> SUFFICES ASSUME Init, NEW s \in Span PROVE Located(s)
  BY DEF Copied
<1>1. /\ ~InRetry(s) /\ ~InBacklog(s) /\ ~InQueue(s) /\ ~InLive(s) /\ ~InRetired(s) /\ ~InSealed(s)
      /\ OneBacklog(s) /\ OneQueue(s) /\ OneRetired(s) /\ OneSealed(s)
  BY DEF Init, InRetry, InBacklog, InQueue, InLive, InRetired, InSealed, InSeq, OneBacklog, OneQueue,
         OneRetired, OneSealed, OnceInSeq
<1>2. ~InWorker(s) /\ OneWorker(s)
  BY DEF Init, NoRecord, InWorker, OneWorker
<1>3. ~InRequests(s) /\ OneRequest(s)
  BY DEF Init, Client!ClientInit, InRequests, OneRequest, InSeq, OnceInSeq, SpansOf
<1>4. \A c \in Sender : ~Carries(c, s)
  BY DEF Init, Client!ClientInit, Client!Idle, Carries
<1>5. ~InSender(s) /\ OneSender(s) /\ Reports(s) /\ ~Succeeds(s)
  BY <1>4 DEF InSender, OneSender, Reports, Succeeds
<1>6. input[s] = "new" /\ delivered = {} /\ dropped = {} /\ lost = {}
  BY DEF Init
<1> QED BY <1>1, <1>2, <1>3, <1>5, <1>6 DEF Located, Once, Apart, Decided, TakenOnce, Waits, Kept

LEMMA CopiedStep == IInv /\ Types /\ Copied /\ [Next]_vars => Copied'
<1> SUFFICES ASSUME IInv, Types, [Next]_vars, NEW s \in Span, Located(s) PROVE Located(s)'
  BY DEF Copied
<1>1. CASE Start \/ ConnectReturns \/ GotConfig \/ RetryLeave \/ ApplyConfig \/ ServerReconfigures
           \/ CloseDone \/ UNCHANGED vars
  BY <1>1, QuietSteps
<1>2. CASE RetryTake \/ RetryEnqueue \/ \E t \in Span : Consume(t) \/ Accept(t)
  BY <1>2, InputSteps
<1>3. CASE \E w \in Worker : WorkerStep(w) \/ WorkerSends(w)
  BY <1>3, ProcessStep, QuietSteps, SendSteps DEF WorkerStep
<1>4. CASE Tick \/ TakeConfig
  BY <1>4, EncoderSteps
<1>5. CASE \E h \in sealed : CallSend(h) \/ SendReturns(h)
  BY <1>5, SendSteps
<1>6. CASE \E batch \in retired : GiveBack(batch)
  BY <1>6, GiveBackStep
<1>7. ASSUME NEW c \in Sender, ClientStep(c) PROVE Located(s)'
  BY <1>7, TakeRequestStep, QuietSteps DEF ClientStep, Client!SenderStep
<1>8. CASE \E c \in Sender : ServerAnswers(c) \/ Callback(c)
  BY <1>8, AnswerStep, CallbackStep
<1>9. CASE ShutdownStep
  BY <1>9, QuietSteps, EncoderSteps DEF ShutdownStep
<1> QED BY <1>1, <1>2, <1>3, <1>4, <1>5, <1>6, <1>7, <1>8, <1>9 DEF Next

LEMMA CopiedAlways == Spec => [](Types /\ Copied)
<1>1. Init => IInv /\ Types /\ Copied
  BY Initially, TypesInit, CopiedInit
<1>2. IInv /\ Types /\ Copied /\ [Next]_vars => (IInv /\ Types /\ Copied)'
  BY ConnectionStays, NothingBegins, TypesStep, CopiedStep DEF IInv
<1> QED
  BY <1>1, <1>2, PTL DEF Spec

\* Through any number of retries, refusals, reconfigurations and at any moment of Shutdown an
\* accepted span is in one place of the exporter until it is delivered, reported as dropped, or
\* given up by the stopped encoder; none is doubled (exporter.go:194, 225, 240).
THEOREM NoSpanDoubledOrForgotten == Spec => []OneCopy
<1>1. Types /\ Copied => OneCopy BY CopiedImplies
<1> QED BY <1>1, CopiedAlways, PTL

\* A span the server took is in no queue and on no retry: the sender that reports the call has
\* its only copy, and reports it as taken or as failed for good (exporter.go:240).
THEOREM NeverSentAgain == Spec => []DeliveredOnce
<1>1. Types /\ Copied => DeliveredOnce BY CopiedImplies
<1> QED BY <1>1, CopiedAlways, PTL
-----------------------------------------------------------------------------
(* The promise of SpanLedger *)

Pending  == Accepted \ Settled
Returned == (dropped \cup lost) \ delivered

LEMMA LedgerInit == Init => Ledger!Init
BY DEF Init, Ledger!Init, Accepted

\* A step that accepts nothing and settles nothing is a stutter of the ledger.
LEMMA LedgerFrame ==
  ASSUME UNCHANGED outcomes, Accepted' = Accepted
  PROVE  UNCHANGED Ledger!ledgerVars
BY DEF outcomes, Settled, Ledger!ledgerVars

\* Whatever a step adds to the dropped and the lost spans, it gives back: those of them that
\* were delivered have been settled already, and the others were pending.
LEMMA DropsGiveBack ==
  ASSUME Types, Types', Copied', UNCHANGED <<input, delivered>>,
         dropped \subseteq dropped', lost \subseteq lost'
  PROVE  Ledger!Next \/ UNCHANGED Ledger!ledgerVars
<1> DEFINE batch == Returned' \ Returned
<1>1. Settled' \subseteq Accepted
  <2>1. Settled' \subseteq Span
    BY DEF Types, OtherTypes, Settled
  <2>2. \A s \in Settled' : input'[s] = "accepted"
    BY <2>1 DEF Copied, Located, Decided, Settled
  <2> QED BY <2>1, <2>2 DEF Accepted
<1>2. Pending' = Pending \ batch /\ Returned' = Returned \cup batch /\ batch \subseteq Pending
  <2>1. Accepted' = Accepted
    BY DEF Accepted
  <2> QED BY <1>1, <2>1 DEF Pending, Returned, Settled
<1> HIDE DEF batch
<1>3. CASE batch = {}
  BY <1>2, <1>3 DEF Pending, Returned, Ledger!ledgerVars
<1>4. CASE batch # {}
  <2>1. Ledger!GiveBack(batch)
    BY <1>2, <1>4 DEF Ledger!GiveBack, Pending, Returned
  <2> QED BY <1>2, <2>1 DEF Ledger!Next, Pending
<1> QED BY <1>3, <1>4

\* What the queue took was not settled before.
LEMMA AcceptAccepts ==
  ASSUME Types, Copied, NEW t \in Span, Accept(t)
  PROVE  Ledger!Next
<1>1. input[t] = "sending" /\ UNCHANGED outcomes /\ Accepted' = Accepted \cup {t}
  BY DEF Accept, Accepted, Types, InputTypes
<1>2. t \notin Settled
  BY <1>1 DEF Copied, Located, Decided, Settled
<1>3. Ledger!Accept({t})
  BY <1>1, <1>2 DEF Ledger!Accept, outcomes, Accepted, Settled
<1> QED BY <1>3 DEF Ledger!Next

\* The spans of the request that the server takes were undecided.
LEMMA AnswerEmits ==
  ASSUME Types, Copied, NEW c \in Sender, ServerAnswers(c)
  PROVE  Ledger!Next \/ UNCHANGED Ledger!ledgerVars
<1> DEFINE batch == sender[c].request.spans
<1>1. /\ UNCHANGED <<dropped, lost>> /\ Accepted' = Accepted
      /\ delivered' = delivered \/ delivered' = delivered \cup batch
  BY DEF ServerAnswers, inputVars, Accepted
<1>2. sender[c].at = "exporting" /\ sender[c].request # NoRequest /\ batch \subseteq Span
  <2>1. sender[c].at = "exporting" BY DEF ServerAnswers
  <2>2. sender[c].request # NoRequest /\ sender[c].request \in Record \cup {NoRequest}
    BY <2>1 DEF Types, ClientTypes, Client!ClientTypeOK
  <2> QED BY <2>1, <2>2 DEF Record
<1>3. batch \subseteq Pending
  <2> SUFFICES ASSUME NEW s \in batch PROVE s \in Pending
    OBVIOUS
  <2>1. s \in Span /\ Carries(c, s)
    BY <1>2 DEF Carries
  <2>2. Located(s) BY <2>1 DEF Copied
  <2>3. s \in Accepted /\ s \notin dropped /\ s \notin lost
    BY <2>1, <2>2 DEF Located, Decided, Kept, InSender, Accepted
  <2>4. s \notin delivered
    BY <1>2, <2>1, <2>2 DEF Located, TakenOnce, Reports
  <2> QED BY <2>1, <2>3, <2>4 DEF Pending, Settled
<1> HIDE DEF batch
<1>4. CASE delivered' = delivered \/ batch = {}
  BY <1>1, <1>4 DEF Settled, Ledger!ledgerVars
<1>5. CASE delivered' = delivered \cup batch /\ batch # {}
  <2>1. Pending' = Pending \ batch /\ Returned' = Returned
    BY <1>1, <1>3, <1>5 DEF Pending, Returned, Settled
  <2>2. Ledger!Emit(batch)
    BY <1>5, <2>1 DEF Ledger!Emit, Pending, Returned
  <2> QED BY <1>3, <2>2 DEF Ledger!Next, Pending
<1> QED BY <1>1, <1>4, <1>5

LEMMA LedgerStep ==
  IInv /\ Types /\ Copied /\ [Next]_vars => [Ledger!Next]_(Ledger!ledgerVars)
<1> SUFFICES ASSUME IInv, Types, Copied, [Next]_vars
             PROVE  Ledger!Next \/ UNCHANGED Ledger!ledgerVars
  OBVIOUS
<1>1. Types' /\ Copied'
  BY TypesStep, CopiedStep
<1>2. ASSUME UNCHANGED <<input, outcomes>> PROVE UNCHANGED Ledger!ledgerVars
  BY <1>2, LedgerFrame DEF Accepted
<1>3. ASSUME UNCHANGED <<input, delivered>>, dropped \subseteq dropped', lost \subseteq lost'
      PROVE  Ledger!Next \/ UNCHANGED Ledger!ledgerVars
  BY <1>1, <1>3, DropsGiveBack
<1>4. CASE \/ Start \/ ConnectReturns \/ GotConfig \/ RetryEnqueue \/ RetryLeave
           \/ Tick \/ TakeConfig \/ ApplyConfig \/ ServerReconfigures
           \/ CloseDone \/ ShutdownStep \/ UNCHANGED vars
  <2>1. UNCHANGED <<input, outcomes>>
    BY <1>4 DEF Start, ConnectReturns, GotConfig, RetryEnqueue, RetryLeave, Tick, TakeConfig,
                ApplyConfig, ServerReconfigures, CloseDone, ShutdownStep, BeginStop, StopFlush,
                StopEncoders, EndStop, ShutdownClient, inputVars, vars
  <2> QED BY <1>2, <2>1
<1>5. CASE RetryTake
  BY <1>3, <1>5 DEF RetryTake
<1>6. ASSUME NEW s \in Span, Consume(s) PROVE UNCHANGED Ledger!ledgerVars
  <2>1. UNCHANGED outcomes /\ Accepted' = Accepted
    BY <1>6 DEF Consume, Accepted, Types, InputTypes
  <2> QED BY <2>1, LedgerFrame
<1>7. ASSUME NEW w \in Worker, WorkerStep(w) \/ WorkerSends(w)
      PROVE  Ledger!Next \/ UNCHANGED Ledger!ledgerVars
  <2>1. CASE Process(w)
    <3>1. dropped \subseteq dropped'
      BY <2>1 DEF Process, Resend
    <3> QED BY <1>3, <2>1, <3>1 DEF Process
  <2>2. CASE WorkerCallsSend(w) \/ WorkerLeaves(w) \/ WorkerSends(w)
    <3>1. UNCHANGED <<input, outcomes>>
      BY <2>2 DEF WorkerCallsSend, WorkerLeaves, WorkerSends, inputVars
    <3> QED BY <1>2, <3>1
  <2> QED BY <1>7, <2>1, <2>2 DEF WorkerStep
<1>8. ASSUME NEW h \in sealed, CallSend(h) \/ SendReturns(h) PROVE UNCHANGED Ledger!ledgerVars
  BY <1>2, <1>8 DEF CallSend, SendReturns, inputVars
<1>9. ASSUME NEW batch \in retired, GiveBack(batch)
      PROVE  Ledger!Next \/ UNCHANGED Ledger!ledgerVars
  <2>1. dropped \subseteq dropped'
    BY <1>9 DEF GiveBack, Resend
  <2> QED BY <1>3, <1>9, <2>1 DEF GiveBack
<1>10. ASSUME NEW c \in Sender, ClientStep(c) PROVE UNCHANGED Ledger!ledgerVars
  BY <1>2, <1>10 DEF ClientStep, inputVars
<1>11. ASSUME NEW c \in Sender, Callback(c) PROVE Ledger!Next \/ UNCHANGED Ledger!ledgerVars
  <2>1. dropped \subseteq dropped'
    BY <1>11 DEF Callback, Resend
  <2> QED BY <1>3, <1>11, <2>1 DEF Callback
<1> QED
  BY <1>4, <1>5, <1>6, <1>7, <1>8, <1>9, <1>10, <1>11, AcceptAccepts, AnswerEmits DEF Next

\* Through retries, refusals, reconfigurations and Shutdown the exporter keeps the promise of
\* a shard encoder for all its spans: each leaves it once, delivered, or dropped or lost without
\* being delivered; it implements SpanLedger (exporter.go:194, 225, 240).
THEOREM ImplementsLedger == Spec => LedgerSafety
<1>1. Init => IInv /\ Types /\ Copied
  BY Initially, TypesInit, CopiedInit
<1>2. IInv /\ Types /\ Copied /\ [Next]_vars => (IInv /\ Types /\ Copied)'
  BY ConnectionStays, NothingBegins, TypesStep, CopiedStep DEF IInv
<1> QED
  BY <1>1, <1>2, LedgerInit, LedgerStep, PTL DEF Spec, LedgerSafety, Ledger!Safety
-----------------------------------------------------------------------------
(* While the exporter is not shut down *)

\* Retries have their goroutine, and the fate of what left the exporter is known.
Served ==
  ~ExporterDone =>
    /\ spansToRetry # <<>> => retry.at \in {"select", "sending"}
    /\ \A s \in Span : input[s] = "accepted" /\ Places(s) = {} => s \in delivered \cup dropped

\* Before the first configuration has arrived there is work only in the encoder's queue.
Unconfigured ==
  /\ request = NoConfig /\ applying = NoConfig /\ live = FALSE
  /\ accumulated = {} /\ retired = {} /\ sealed = {}
  /\ \A w \in Worker : worker[w].at = "off"
  /\ spansToRetry = <<>> /\ requestsToSend = <<>>
  /\ \A c \in Sender : sender[c].at \notin {"exporting", "reporting"}

\* The retry goroutine runs from then on until e.done is closed, and only the check of a
\* stopping encoder, which is behind that, gives spans up.
Serving ==
  /\ start = "done" \/ Unconfigured
  /\ start = "done" => retry.at # "off"
  /\ retry.at = "gone" \/ isStopping => ExporterDone
  /\ lost # {} => isStopping

LEMMA ServingInit == Init => Serving
BY DEF Init, Serving, Unconfigured, ExporterDone, Client!ClientInit, Client!Idle

\* The steps that start something or move spans without a configuration leave all of it alone.
LEMMA UnconfiguredKept == Types /\ Unconfigured /\ [Next]_vars => start' = "done" \/ Unconfigured'
<1> SUFFICES ASSUME Types, Unconfigured, [Next]_vars, start' # "done" PROVE Unconfigured'
  OBVIOUS
<1> USE DEF Unconfigured, workVars, configVars, seVars, clientVars, inputVars
<1>1. CASE Start \/ ConnectReturns \/ GotConfig
  <2>1. /\ UNCHANGED <<request, applying, live, accumulated, retired, sealed, worker, spansToRetry,
                       requestsToSend>>
        /\ sender' = sender \/ sender' = [c \in Sender |-> Client!Idle("select")]
    BY <1>1 DEF Start, ConnectReturns, GotConfig, Client!BeginConnect, Client!Connected, Client!ConnectFails
  <2>2. \A c \in Sender : sender'[c].at \notin {"exporting", "reporting"}
    BY <2>1 DEF Client!Idle
  <2> QED BY <2>1, <2>2
<1>2. CASE RetryTake \/ RetryEnqueue \/ RetryLeave
  BY <1>2 DEF RetryTake, RetryEnqueue, RetryLeave
<1>3. ASSUME NEW s \in Span, Consume(s) \/ Accept(s) PROVE Unconfigured'
  BY <1>3 DEF Consume, Accept
<1>4. ASSUME NEW w \in Worker, WorkerStep(w) \/ WorkerSends(w) PROVE Unconfigured'
  BY <1>4 DEF WorkerStep, Process, WorkerCallsSend, WorkerLeaves, WorkerSends
<1>5. CASE Tick \/ TakeConfig \/ ApplyConfig \/ ServerReconfigures
  BY <1>5 DEF Tick, TakeConfig, ApplyConfig, ServerReconfigures
<1>6. ASSUME NEW h \in sealed, CallSend(h) \/ SendReturns(h) PROVE Unconfigured'
  BY <1>6
<1>7. ASSUME NEW batch \in retired, GiveBack(batch) PROVE Unconfigured'
  BY <1>7
<1>8. ASSUME NEW c \in Sender, ClientStep(c) \/ ServerAnswers(c) \/ Callback(c) PROVE Unconfigured'
  <2>1. Client!SeeDone(c) /\ ClientStep(c)
    BY <1>8 DEF ClientStep, ServerAnswers, Callback, Client!SenderStep, Client!TakeRequest, Client!Report
  <2>2. sender' = [sender EXCEPT ![c] = [at |-> "gone", request |-> NoRequest, answer |-> NoAnswer]]
    BY <2>1 DEF Client!SeeDone, Client!Idle
  <2>3. \A d \in Sender : sender'[d].at = sender[d].at \/ sender'[d].at = "gone"
    BY <2>2 DEF Types, ClientTypes, Client!ClientTypeOK
  <2> QED BY <2>1, <2>3 DEF ClientStep, Client!SeeDone
<1>9. CASE CloseDone \/ ShutdownStep
  BY <1>9 DEF CloseDone, ShutdownStep, BeginStop, StopFlush, StopEncoders, StopShardEncoders, EndStop,
              ShutdownClient, Client!Shutdown
<1>10. CASE UNCHANGED vars
  BY <1>10 DEF vars
<1> QED
  BY <1>1, <1>2, <1>3, <1>4, <1>5, <1>6, <1>7, <1>8, <1>9, <1>10 DEF Next

\* What the retry goroutine, Shutdown and the start sequence do to one another.
LEMMA ServingStep == Types /\ Serving /\ [Next]_vars => Serving'
<1> SUFFICES ASSUME Types, Serving, [Next]_vars
             PROVE  /\ start = "done" => start' = "done"
                    /\ start' = "done" => retry'.at # "off"
                    /\ retry'.at = "gone" \/ isStopping' => shutdown' # "running"
                    /\ lost' # {} => isStopping'
  BY UnconfiguredKept DEF Serving, ExporterDone
<1> USE DEF Serving, ExporterDone, stopVars, inputVars, outcomes
<1>1. retry \in [at : {"off", "select", "sending", "gone"}, spans : SUBSET Span]
  BY DEF Types, InputTypes
<1>2. CASE GotConfig
  BY <1>1, <1>2 DEF GotConfig
<1>3. CASE RetryTake \/ RetryEnqueue \/ RetryLeave
  BY <1>1, <1>3 DEF RetryTake, RetryEnqueue, RetryLeave
<1>4. CASE CloseDone \/ ShutdownStep
  BY <1>4 DEF CloseDone, ShutdownStep, BeginStop, StopFlush, StopEncoders, EndStop, ShutdownClient
<1>5. CASE Start \/ ConnectReturns
  BY <1>5 DEF Start, ConnectReturns
<1>6. CASE UNCHANGED <<start, retry, shutdown, isStopping, lost>>
  BY <1>6
<1> QED
  BY <1>2, <1>3, <1>4, <1>5, <1>6
  DEF Next, Consume, Accept, WorkerStep, Process, WorkerCallsSend, WorkerLeaves, WorkerSends, Tick,
      TakeConfig, ApplyConfig, ServerReconfigures, CallSend, SendReturns, GiveBack, ClientStep,
      ServerAnswers, Callback, vars

\* Until Shutdown no span is given up without a report: one that was accepted and is nowhere in
\* the exporter was delivered or recorded as dropped, and batches wait for a retry only while the
\* goroutine that retries runs (exporter.go:166, 194; SetConfig and the go statement after it are
\* one step of the model).  That they are retried in the end is liveness.
THEOREM ServedWhileRunning == Spec => []Served
<1>1. Types /\ Serving /\ OneCopy => Served
  <2> SUFFICES ASSUME Types, Serving, OneCopy PROVE Served
    OBVIOUS
  <2>1. retry.at \in {"off", "select", "sending", "gone"}
    BY DEF Types, InputTypes
  <2> QED BY <2>1 DEF Serving, Unconfigured, Served, OneCopy, ExporterDone
<1> QED
  BY ServingInit, ServingStep, CopiedAlways, NoSpanDoubledOrForgotten, <1>1, PTL DEF Spec
=============================================================================
