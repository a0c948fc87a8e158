--------------------------- MODULE OCTraceReceiver ---------------------------
(***************************************************************************)
(* The OpenCensus trace receiver                                           *)
(* (receiver/opencensusreceiver/octrace/opencensus.go): gRPC runs a        *)
(* goroutine for every call.  A call of Export is a stream of messages     *)
(* that share a node and a resource; their number may be limited.  A call  *)
(* of ExportOne is one message.  What is received goes to the next         *)
(* consumer, whose refusal reaches the client if back pressure is on.      *)
(***************************************************************************)
EXTENDS Integers, Sequences, FiniteSets

CONSTANTS
  Call,          \* calls of Export and of ExportOne
  Node, NoNode,
  Resource, NoResource,
  Message,       \* what a client may send
  Limit,         \* values of maxServerStreams; none when it is not positive
  MaxMessages    \* bound: messages of a stream

ASSUME MessagesAreRequests ==
  Message \subseteq [node : Node \cup {NoNode}, resource : Resource \cup {NoResource},
                     spans : BOOLEAN]   \* whether there are any

ASSUME NothingIsNoNode == NoNode \notin Node /\ NoResource \notin Resource
ASSUME LimitsAreIntegers == Limit \subseteq Int

VARIABLES
  backPressureOn, maxServerStreams, serverStreamsCount,
  call,          \* per call: where it is and what it returns
  labels,        \* per call: lastNonNilNode and resource
  sent,          \* history: the messages received on the call
  passed         \* history: what the next consumer was given, and whether it took it

callVars  == <<call, labels, sent, passed>>
traceVars == <<backPressureOn, maxServerStreams, serverStreamsCount, callVars>>
options   == <<backPressureOn, maxServerStreams>>

Limited == maxServerStreams > 0
NoLabels == [node |-> NoNode, resource |-> NoResource]

TraceInit ==
  /\ backPressureOn \in BOOLEAN /\ maxServerStreams \in Limit
  /\ serverStreamsCount = 0
  /\ call = [c \in Call |-> [at |-> "idle", kind |-> "none", result |-> "none"]]
  /\ labels = [c \in Call |-> NoLabels]
  /\ sent = [c \in Call |-> <<>>] /\ passed = [c \in Call |-> <<>>]

Goto(c, label) == call' = [call EXCEPT ![c].at = label]

\* The function is about to return the result; its deferred calls are still to run.
Leaving(c, result) ==
  call' = [call EXCEPT ![c] = [at |-> "leaving", kind |-> @.kind, result |-> result]]

-----------------------------------------------------------------------------
(* Export *)

\* MUTANT of StreamArrives: the limit is looked at before the stream is counted.
StreamArrivesUncounted(c) ==
  /\ call[c].at = "idle"
  /\ call' = [call EXCEPT ![c] = IF Limited /\ serverStreamsCount > maxServerStreams
                                 THEN [at |-> "leaving", kind |-> "stream", result |-> "exhausted"]
                                 ELSE [at |-> "first", kind |-> "stream", result |-> "none"]]
  /\ serverStreamsCount' = IF Limited THEN serverStreamsCount + 1 ELSE serverStreamsCount
  /\ UNCHANGED <<options, labels, sent, passed>>

\* The stream is counted, and refused when it is one too many.
StreamArrives(c) ==
  /\ call[c].at = "idle"
  /\ serverStreamsCount' = IF Limited THEN serverStreamsCount + 1 ELSE serverStreamsCount
  /\ call' = [call EXCEPT ![c] = IF Limited /\ serverStreamsCount' > maxServerStreams
                                 THEN [at |-> "leaving", kind |-> "stream", result |-> "exhausted"]
                                 ELSE [at |-> "first", kind |-> "stream", result |-> "none"]]
  /\ UNCHANGED <<options, labels, sent, passed>>

\* MUTANT of Labelled: the resource goes with the node it came with.
LabelledTogether(l, m) ==
  IF m.node = NoNode THEN l ELSE [node |-> m.node, resource |-> m.resource]

\* The node and the resource that are in force once m was received.
Labelled(l, m) ==
  [node     |-> IF m.node = NoNode THEN l.node ELSE m.node,
   resource |-> IF m.resource = NoResource THEN l.resource ELSE m.resource]

\* processReceivedMsg, up to the call of the next consumer, which is left out when there
\* are no spans: the call then continues at next.
Process(c, m, Next) ==
  /\ labels' = [labels EXCEPT ![c] = Labelled(@, m)]
  /\ IF m.spans THEN Goto(c, "consuming") ELSE Next

\* The first message must name the node.
ReceiveFirst(c, m) ==
  /\ call[c].at = "first"
  /\ sent' = [sent EXCEPT ![c] = <<m>>]
  /\ \/ m.node = NoNode /\ Leaving(c, "violation") /\ UNCHANGED labels
     \/ m.node # NoNode /\ Process(c, m, Goto(c, "more"))
  /\ UNCHANGED <<options, serverStreamsCount, passed>>

Receive(c, m) ==
  /\ call[c].at = "more" /\ Len(sent[c]) < MaxMessages
  /\ sent' = [sent EXCEPT ![c] = Append(@, m)]
  /\ Process(c, m, Goto(c, "more"))
  /\ UNCHANGED <<options, serverStreamsCount, passed>>

\* tes.Recv() fails, or the client has closed the stream: before the first message that is
\* an error too.
ReceiveFails(c) ==
  /\ \/ call[c].at = "first" /\ Leaving(c, "transport")
     \/ call[c].at = "more" /\ \E result \in {"ok", "transport"} : Leaving(c, result)
  /\ UNCHANGED <<options, serverStreamsCount, labels, sent, passed>>

-----------------------------------------------------------------------------
(* ExportOne *)

UnaryArrives(c, m) ==
  /\ call[c].at = "idle"
  /\ sent' = [sent EXCEPT ![c] = <<m>>]
  /\ labels' = IF m.node = NoNode THEN labels ELSE [labels EXCEPT ![c] = Labelled(NoLabels, m)]
  /\ call' = [call EXCEPT ![c] =
       IF m.node = NoNode THEN [at |-> "leaving", kind |-> "unary", result |-> "invalid"]
       ELSE IF m.spans THEN [at |-> "consuming", kind |-> "unary", result |-> "none"]
       ELSE [at |-> "leaving", kind |-> "unary", result |-> "ok"]]
  /\ UNCHANGED <<options, serverStreamsCount, passed>>

-----------------------------------------------------------------------------
(* sendToNextConsumer, and the way out *)

Pass(c, taken) ==
  passed' = [passed EXCEPT ![c] = Append(@, [msg |-> Len(sent[c]), node |-> labels[c].node,
                                             resource |-> labels[c].resource, taken |-> taken])]

ConsumerTakes(c) ==
  /\ call[c].at = "consuming"
  /\ Pass(c, TRUE)
  /\ IF call[c].kind = "unary" THEN Leaving(c, "ok") ELSE Goto(c, "more")
  /\ UNCHANGED <<options, serverStreamsCount, labels, sent>>

\* MUTANT of ConsumerRefuses: without back pressure the stream goes on.
ConsumerRefusesGoOn(c) ==
  /\ call[c].at = "consuming"
  /\ Pass(c, FALSE)
  /\ IF backPressureOn THEN Leaving(c, "consumer")
     ELSE IF call[c].kind = "unary" THEN Leaving(c, "ok") ELSE Goto(c, "more")
  /\ UNCHANGED <<options, serverStreamsCount, labels, sent>>

\* The error is returned if back pressure is on; a stream is closed in any case.
ConsumerRefuses(c) ==
  /\ call[c].at = "consuming"
  /\ Pass(c, FALSE)
  /\ Leaving(c, IF backPressureOn THEN "consumer" ELSE "ok")
  /\ UNCHANGED <<options, serverStreamsCount, labels, sent>>

\* MUTANT of Leave: a refused stream returns before the decrement was deferred.
LeaveUncounted(c) ==
  /\ call[c].at = "leaving"
  /\ serverStreamsCount' = IF call[c].kind = "stream" /\ Limited /\ call[c].result # "exhausted"
                           THEN serverStreamsCount - 1 ELSE serverStreamsCount
  /\ Goto(c, "done")
  /\ UNCHANGED <<options, labels, sent, passed>>

\* defer atomic.AddInt64(&ocr.serverStreamsCount, -1)
Leave(c) ==
  /\ call[c].at = "leaving"
  /\ serverStreamsCount' = IF call[c].kind = "stream" /\ Limited
                           THEN serverStreamsCount - 1 ELSE serverStreamsCount
  /\ Goto(c, "done")
  /\ UNCHANGED <<options, labels, sent, passed>>

Arrives(c)   == StreamArrives(c) \/ \E m \in Message : UnaryArrives(c, m)
Proceeds(c)  == ReceiveFails(c) \/ \E m \in Message : ReceiveFirst(c, m) \/ Receive(c, m)
Consumes(c)  == ConsumerTakes(c) \/ ConsumerRefuses(c)

TraceNext == \E c \in Call : Arrives(c) \/ Proceeds(c) \/ Consumes(c) \/ Leave(c)
TraceSpec == TraceInit /\ [][TraceNext]_traceVars

-----------------------------------------------------------------------------
Places  == {"idle", "first", "more", "consuming", "leaving", "done"}
Results == {"none", "ok", "exhausted", "violation", "invalid", "transport", "consumer"}
CallState  == [at : Places, kind : {"none", "stream", "unary"}, result : Results]
LabelState == [node : Node \cup {NoNode}, resource : Resource \cup {NoResource}]
PassedOn   == [msg : Nat, node : Node \cup {NoNode}, resource : Resource \cup {NoResource},
               taken : BOOLEAN]

\* The types of the trace receiver's state, and the results its calls may have.
TraceTypeOK ==
  /\ backPressureOn \in BOOLEAN /\ maxServerStreams \in Limit
  /\ serverStreamsCount \in Int
  /\ call \in [Call -> CallState] /\ labels \in [Call -> LabelState]
  /\ sent \in [Call -> Seq(Message)] /\ passed \in [Call -> Seq(PassedOn)]

\* Streams whose goroutine is inside Export, and those of them that were admitted.
InExport == {c \in Call : call[c].kind = "stream" /\ call[c].at # "done"}
Admitted == {c \in InExport : call[c].result # "exhausted"}

\* The counter is the number of streams inside Export, refused ones included, through all
\* the ways Export returns: it cannot creep up until everything is refused.
StreamsCounted ==
  serverStreamsCount = IF Limited THEN Cardinality(InExport) ELSE 0

\* "MaxServerStreams sets the limit on the number of receiving routines" (config.go:49):
\* however their counting interleaves, no more than that many streams receive at a time.
LimitHolds == Limited => Cardinality(Admitted) <= maxServerStreams

\* v is the last value that is not none among the first n of s, none if there is no such.
IsLastSet(v, s, n, none) ==
  IF v = none THEN \A i \in 1..n : s[i] = none
  ELSE \E i \in 1..n : s[i] = v /\ \A j \in (i + 1)..n : s[j] = none

NodesOf(c)     == [i \in DOMAIN sent[c] |-> sent[c][i].node]
ResourcesOf(c) == [i \in DOMAIN sent[c] |-> sent[c][i].resource]

\* Whatever reaches the next consumer is labelled with a node, the last one its client has
\* sent on the same call, and with the last resource; other calls do not interfere.
LabelsCarried ==
  \A c \in Call : \A i \in DOMAIN passed[c] :
    LET td == passed[c][i] IN
    /\ td.node # NoNode
    /\ IsLastSet(td.node, NodesOf(c), td.msg, NoNode)
    /\ IsLastSet(td.resource, ResourcesOf(c), td.msg, NoResource)

\* A call that ends without an error has passed on every message with spans, in order, but
\* what followed a refusal; with back pressure there was none, and only then the client
\* hears of one.  After a refusal nothing else of the stream is passed on.
LossReported ==
  \A c \in Call :
    LET tds     == passed[c]
        refused == \E i \in DOMAIN tds : ~tds[i].taken
        Full(n) == n \in DOMAIN sent[c] /\ sent[c][n].spans
    IN /\ \A i \in DOMAIN tds : i < Len(tds) => tds[i].taken /\ tds[i].msg < tds[i + 1].msg
       /\ call[c].result = "consumer" <=> backPressureOn /\ refused
       /\ call[c].result = "ok" =>
            {tds[i].msg : i \in DOMAIN tds} = {n \in DOMAIN sent[c] : Full(n)}
=============================================================================
