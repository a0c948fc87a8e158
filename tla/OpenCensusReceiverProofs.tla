---------------------- MODULE OpenCensusReceiverProofs ----------------------
(***************************************************************************)
(* Proofs about OpenCensusReceiver, for any number of calls and of Starts. *)
(* The counter of streams is related to the set of calls that are inside   *)
(* Export; the registration to how far each Start has come.                *)
(***************************************************************************)
EXTENDS OpenCensusReceiver, FiniteSetTheorems, TLAPS

\* Where a call is says what it may have become of it already.
CallsInOrder ==
  \A c \in Call : /\ call[c].at = "idle" => call[c].kind = "none"
                  /\ call[c].at \in {"first", "more", "consuming"} => call[c].result = "none"

\* StreamsCounted and LimitHolds, and that the set that is counted is finite.
Counting == CallsInOrder /\ IsFiniteSet(InExport) /\ StreamsCounted /\ LimitHolds

\* Start p goes inside for a service that has its consumer, and leaves it behind registered.
Fits(p) ==
  /\ starter[p].at = "in trace" => "trace" \in consumers
  /\ starter[p].at = "in metrics" => "metrics" \in consumers
  /\ starter[p].at \in {"metrics", "in metrics", "server", "window", "returned"} =>
       "trace" \notin consumers \ registered
  /\ starter[p].at \in {"server", "window", "returned"} => "metrics" \notin consumers \ registered

ServicesFit == \A s \in Service : /\ once[s] = "done" <=> s \in registered
                                  /\ once[s] # "new" => s \in consumers

\* Some Start has come; no consumer does any more.
Begun == \E p \in Starter : starter[p].at # "idle"

Registration ==
  /\ ServicesFit
  /\ \A p \in Starter : Fits(p)
  /\ server["main"] # "absent" => consumers \subseteq registered /\ Begun

\* What is known of the messages of a call while it goes on: what was passed on, in order,
\* is all that came with spans but the one that is just being passed; the labels in force are
\* the last that were set.  What is refused ends the call, and is its result with back pressure.
WithSpans(c) == {n \in DOMAIN sent[c] : sent[c][n].spans}
PassedOf(c)  == {passed[c][i].msg : i \in DOMAIN passed[c]}
Refused(c)   == \E i \in DOMAIN passed[c] : ~passed[c][i].taken

Fresh(c) ==
  call[c].at \in {"idle", "first"} => sent[c] = <<>> /\ passed[c] = <<>> /\ labels[c] = NoLabels

InForce(c) ==
  call[c].at \in {"more", "consuming"} =>
    /\ labels[c].node # NoNode
    /\ IsLastSet(labels[c].node, NodesOf(c), Len(sent[c]), NoNode)
    /\ IsLastSet(labels[c].resource, ResourcesOf(c), Len(sent[c]), NoResource)

InOrder(c) ==
  \A i \in DOMAIN passed[c] :
    /\ passed[c][i].msg \in 1..Len(sent[c])
    /\ call[c].at = "consuming" => passed[c][i].msg < Len(sent[c])
    /\ i < Len(passed[c]) => passed[c][i].taken /\ passed[c][i].msg < passed[c][i + 1].msg

Complete(c) ==
  /\ call[c].at = "consuming" =>
       /\ Len(sent[c]) \in WithSpans(c)
       /\ PassedOf(c) = WithSpans(c) \ {Len(sent[c])}
  /\ call[c].at = "more" \/ call[c].result = "ok" => PassedOf(c) = WithSpans(c)

Heard(c) ==
  /\ Refused(c) => call[c].at \in {"leaving", "done"}
  /\ call[c].result # "none" => call[c].at \in {"leaving", "done"}
  /\ call[c].result = "consumer" <=> backPressureOn /\ Refused(c)

Carried(c) ==
  \A i \in DOMAIN passed[c] :
    /\ passed[c][i].node # NoNode
    /\ IsLastSet(passed[c][i].node, NodesOf(c), passed[c][i].msg, NoNode)
    /\ IsLastSet(passed[c][i].resource, ResourcesOf(c), passed[c][i].msg, NoResource)

CallHistory(c) ==
  Fresh(c) /\ InForce(c) /\ InOrder(c) /\ Complete(c) /\ Heard(c) /\ Carried(c)
Histories == \A c \in Call : CallHistory(c)

-----------------------------------------------------------------------------
(* The calls *)

LEMMA TraceTypesInitially == TraceInit => TraceTypeOK
<1> SUFFICES ASSUME TraceInit PROVE TraceTypeOK
  OBVIOUS
<1>1. NoLabels \in LabelState
  BY DEF NoLabels, LabelState
<1>2. [at |-> "idle", kind |-> "none", result |-> "none"] \in CallState
  BY DEF CallState, Places, Results
<1>3. call \in [Call -> CallState] /\ labels \in [Call -> LabelState]
  BY <1>1, <1>2 DEF TraceInit
<1> QED
  BY <1>3 DEF TraceInit, TraceTypeOK

\* What labels a message may leave in force.
LEMMA LabelledType ==
  ASSUME NEW m \in Message, NEW l \in LabelState
  PROVE  Labelled(l, m) \in LabelState
<1>1. m.node \in Node \cup {NoNode} /\ m.resource \in Resource \cup {NoResource}
  BY MessagesAreRequests
<1>2. l.node \in Node \cup {NoNode} /\ l.resource \in Resource \cup {NoResource}
  BY DEF LabelState
<1> QED
  BY <1>1, <1>2 DEF Labelled, LabelState

\* A call moves on, or is about to return.
LEMMA CallMoves ==
  ASSUME TraceTypeOK, NEW c \in Call
  PROVE  /\ \A label \in Places : Goto(c, label) =>
              /\ call' = [call EXCEPT ![c] = [at |-> label, kind |-> call[c].kind,
                                              result |-> call[c].result]]
              /\ call' \in [Call -> CallState]
         /\ \A result \in Results : Leaving(c, result) =>
              /\ call' = [call EXCEPT ![c] = [at |-> "leaving", kind |-> call[c].kind,
                                              result |-> result]]
              /\ call' \in [Call -> CallState]
<1>1. call \in [Call -> CallState] /\ call[c] \in CallState
  BY DEF TraceTypeOK
<1>2. call[c] = [at |-> call[c].at, kind |-> call[c].kind, result |-> call[c].result]
  BY <1>1 DEF CallState
<1>3. ASSUME NEW label \in Places, Goto(c, label)
      PROVE  /\ call' = [call EXCEPT ![c] = [at |-> label, kind |-> call[c].kind,
                                             result |-> call[c].result]]
             /\ call' \in [Call -> CallState]
  <2>1. [call[c] EXCEPT !.at = label]
          = [at |-> label, kind |-> call[c].kind, result |-> call[c].result]
    BY <1>1, <1>2 DEF CallState
  <2>2. [call[c] EXCEPT !.at = label] \in CallState
    BY <1>1, <2>1 DEF CallState
  <2> QED
    BY <1>1, <1>3, <2>1, <2>2 DEF Goto
<1>4. ASSUME NEW result \in Results, Leaving(c, result)
      PROVE  /\ call' = [call EXCEPT ![c] = [at |-> "leaving", kind |-> call[c].kind,
                                             result |-> result]]
             /\ call' \in [Call -> CallState]
  <2>1. [at |-> "leaving", kind |-> call[c].kind, result |-> result] \in CallState
    BY <1>1 DEF CallState, Places
  <2> QED
    BY <1>1, <1>4, <2>1 DEF Leaving
<1> QED
  BY <1>3, <1>4

LEMMA TraceTypesStep == TraceTypeOK /\ [TraceNext]_traceVars => TraceTypeOK'
<1> SUFFICES ASSUME TraceTypeOK, [TraceNext]_traceVars PROVE TraceTypeOK'
  OBVIOUS
<1>1. /\ call \in [Call -> CallState] /\ labels \in [Call -> LabelState]
      /\ sent \in [Call -> Seq(Message)] /\ passed \in [Call -> Seq(PassedOn)]
  BY DEF TraceTypeOK
<1>2. ASSUME NEW c \in Call, StreamArrives(c) PROVE TraceTypeOK'
  <2>1. /\ [at |-> "leaving", kind |-> "stream", result |-> "exhausted"] \in CallState
        /\ [at |-> "first", kind |-> "stream", result |-> "none"] \in CallState
    BY DEF CallState, Places, Results
  <2>2. call' \in [Call -> CallState]
    BY <1>1, <1>2, <2>1 DEF StreamArrives
  <2> QED
    BY <1>2, <2>2 DEF StreamArrives, TraceTypeOK, options
<1>3. ASSUME NEW c \in Call, NEW m \in Message, UnaryArrives(c, m) PROVE TraceTypeOK'
  <2>1. /\ [at |-> "leaving", kind |-> "unary", result |-> "invalid"] \in CallState
        /\ [at |-> "consuming", kind |-> "unary", result |-> "none"] \in CallState
        /\ [at |-> "leaving", kind |-> "unary", result |-> "ok"] \in CallState
    BY DEF CallState, Places, Results
  <2>2. NoLabels \in LabelState
    BY DEF NoLabels, LabelState
  <2>3. call' \in [Call -> CallState] /\ labels' \in [Call -> LabelState]
    BY <1>1, <1>3, <2>1, <2>2, LabelledType DEF UnaryArrives
  <2>4. sent' \in [Call -> Seq(Message)]
    BY <1>1, <1>3 DEF UnaryArrives
  <2> QED
    BY <1>3, <2>3, <2>4 DEF UnaryArrives, TraceTypeOK, options
<1>4. ASSUME NEW c \in Call, ReceiveFails(c) PROVE TraceTypeOK'
  <2>1. call' \in [Call -> CallState]
    BY <1>4, CallMoves DEF ReceiveFails, Results
  <2> QED
    BY <1>4, <2>1 DEF ReceiveFails, TraceTypeOK, options
<1>5. ASSUME NEW c \in Call, NEW m \in Message, ReceiveFirst(c, m) \/ Receive(c, m) PROVE TraceTypeOK'
  <2>1. call' \in [Call -> CallState]
    BY <1>5, CallMoves DEF ReceiveFirst, Receive, Process, Places, Results
  <2>2. labels' \in [Call -> LabelState]
    BY <1>1, <1>5, LabelledType DEF ReceiveFirst, Receive, Process
  <2>3. <<m>> \in Seq(Message) /\ Append(sent[c], m) \in Seq(Message)
    BY <1>1
  <2>4. \/ sent' = [sent EXCEPT ![c] = <<m>>]
        \/ sent' = [sent EXCEPT ![c] = Append(sent[c], m)]
    BY <1>1, <1>5 DEF ReceiveFirst, Receive
  <2>5. sent' \in [Call -> Seq(Message)]
    BY <1>1, <2>3, <2>4
  <2> QED
    BY <1>5, <2>1, <2>2, <2>5 DEF ReceiveFirst, Receive, TraceTypeOK, options
<1>6. ASSUME NEW c \in Call, ConsumerTakes(c) \/ ConsumerRefuses(c) PROVE TraceTypeOK'
  <2>1. call' \in [Call -> CallState]
    BY <1>6, CallMoves DEF ConsumerTakes, ConsumerRefuses, Places, Results
  <2>2. passed' \in [Call -> Seq(PassedOn)]
    <3>1. \A taken \in BOOLEAN : [msg |-> Len(sent[c]), node |-> labels[c].node,
                                  resource |-> labels[c].resource, taken |-> taken] \in PassedOn
      BY <1>1 DEF PassedOn, LabelState
    <3>2. PICK taken \in BOOLEAN : Pass(c, taken)
      BY <1>6 DEF ConsumerTakes, ConsumerRefuses
    <3> QED
      BY <1>1, <3>1, <3>2 DEF Pass
  <2> QED
    BY <1>6, <2>1, <2>2 DEF ConsumerTakes, ConsumerRefuses, TraceTypeOK, options
<1>7. ASSUME NEW c \in Call, Leave(c) PROVE TraceTypeOK'
  <2>1. call' \in [Call -> CallState]
    BY <1>7, CallMoves DEF Leave, Places
  <2> QED
    BY <1>7, <2>1 DEF Leave, TraceTypeOK, options
<1>8. CASE UNCHANGED traceVars
  BY <1>8 DEF traceVars, callVars, TraceTypeOK
<1> QED
  BY <1>2, <1>3, <1>4, <1>5, <1>6, <1>7, <1>8 DEF TraceNext, Arrives, Proceeds, Consumes

\* A call that moves between its arrival and its end without being refused as one too many
\* stays where it is counted.
LEMMA MovesQuietly ==
  ASSUME TraceTypeOK, CallsInOrder, NEW c \in Call,
         NEW at \in {"first", "more", "consuming", "leaving"},
         NEW kind, NEW result \in Results \ {"exhausted"},
         call' = [call EXCEPT ![c] = [at |-> at, kind |-> kind, result |-> result]],
         \/ call[c].at = "idle" /\ kind = "unary"
         \/ call[c].at \in {"first", "more", "consuming"} /\ kind = call[c].kind,
         at # "leaving" => result = "none"
  PROVE  CallsInOrder' /\ InExport' = InExport /\ Admitted' = Admitted
<1>1. call \in [Call -> CallState]
  BY DEF TraceTypeOK
<1>2. \A d \in Call \ {c} : call'[d] = call[d]
  BY <1>1
<1>3. call'[c].at = at /\ call'[c].kind = kind /\ call'[c].result = result
  BY <1>1
<1>4. CallsInOrder'
  BY <1>2, <1>3 DEF CallsInOrder
<1>5. \A d \in Call : (call'[d].kind = "stream" /\ call'[d].at # "done")
                        <=> (call[d].kind = "stream" /\ call[d].at # "done")
  BY <1>2, <1>3 DEF CallsInOrder
<1>6. InExport' = InExport
  BY <1>5 DEF InExport
<1>7. \A d \in InExport : call'[d].result = "exhausted" <=> call[d].result = "exhausted"
  BY <1>2, <1>3 DEF CallsInOrder, InExport
<1>8. Admitted' = Admitted
  BY <1>6, <1>7 DEF Admitted
<1> QED
  BY <1>4, <1>6, <1>8

\* The steps of a call between its arrival and its end change neither the counter nor who
\* is inside Export, nor who was admitted.
LEMMA BetweenQuiet ==
  ASSUME TraceTypeOK, CallsInOrder, NEW c \in Call,
         \/ \E m \in Message : UnaryArrives(c, m)
         \/ Proceeds(c) \/ Consumes(c)
  PROVE  /\ UNCHANGED <<options, serverStreamsCount>>
         /\ CallsInOrder' /\ InExport' = InExport /\ Admitted' = Admitted
<1>1. UNCHANGED <<options, serverStreamsCount>>
  BY DEF UnaryArrives, Proceeds, Consumes, ReceiveFails, ReceiveFirst, Receive, ConsumerTakes,
         ConsumerRefuses
<1> DEFINE Quiet == CallsInOrder' /\ InExport' = InExport /\ Admitted' = Admitted
<1>2. ASSUME NEW m \in Message, UnaryArrives(c, m) PROVE Quiet
  <2>1. call[c].at = "idle"
    BY <1>2 DEF UnaryArrives
  <2>2. PICK at \in {"consuming", "leaving"}, result \in {"none", "invalid", "ok"} :
           /\ call' = [call EXCEPT ![c] = [at |-> at, kind |-> "unary", result |-> result]]
           /\ at # "leaving" => result = "none"
    BY <1>2 DEF UnaryArrives
  <2>3. at \in {"first", "more", "consuming", "leaving"} /\ result \in Results \ {"exhausted"}
    BY DEF Results
  <2> QED
    BY <2>1, <2>2, <2>3, MovesQuietly
<1>3. ASSUME call[c].at \in {"first", "more", "consuming"},
             NEW at \in {"first", "more", "consuming"}, Goto(c, at)
      PROVE  Quiet
  <2>1. call' = [call EXCEPT ![c] = [at |-> at, kind |-> call[c].kind, result |-> call[c].result]]
    BY <1>3, CallMoves DEF Places
  <2>2. call[c].result = "none"
    BY <1>3 DEF CallsInOrder
  <2> QED
    BY <1>3, <2>1, <2>2, MovesQuietly DEF Results
<1>4. ASSUME call[c].at \in {"first", "more", "consuming"},
             NEW result \in Results \ {"exhausted"}, Leaving(c, result)
      PROVE  Quiet
  <2>1. call' = [call EXCEPT ![c] = [at |-> "leaving", kind |-> call[c].kind, result |-> result]]
    BY <1>4, CallMoves
  <2> QED
    BY <1>4, <2>1, MovesQuietly
<1>5. ASSUME Proceeds(c) \/ Consumes(c) PROVE Quiet
  <2>1. call[c].at \in {"first", "more", "consuming"}
    BY <1>5 DEF Proceeds, Consumes, ReceiveFails, ReceiveFirst, Receive, ConsumerTakes, ConsumerRefuses
  <2>2. \/ \E at \in {"first", "more", "consuming"} : Goto(c, at)
        \/ \E result \in Results \ {"exhausted"} : Leaving(c, result)
    BY <1>5 DEF Proceeds, Consumes, ReceiveFails, ReceiveFirst, Receive, ConsumerTakes,
                ConsumerRefuses, Process, Results
  <2> QED
    BY <1>3, <1>4, <2>1, <2>2
<1> QED
  BY <1>1, <1>2, <1>5

\* A stream that arrives is counted, and admitted if the counter allows it.
LEMMA ArrivalCounted ==
  ASSUME TraceTypeOK, Counting, NEW c \in Call, StreamArrives(c) PROVE Counting'
<1>1. call \in [Call -> CallState] /\ serverStreamsCount \in Int /\ call[c].at = "idle"
  BY DEF TraceTypeOK, StreamArrives
<1>2. UNCHANGED options /\ Limited' = Limited
  BY DEF StreamArrives, options, Limited
<1>3. /\ \A d \in Call \ {c} : call'[d] = call[d]
      /\ call'[c].kind = "stream"
      /\ \/ /\ call'[c].at = "leaving" /\ call'[c].result = "exhausted"
         \/ /\ call'[c].at = "first" /\ call'[c].result = "none"
            /\ ~(Limited /\ serverStreamsCount' > maxServerStreams)
  BY <1>1 DEF StreamArrives
<1>4. CallsInOrder'
  BY <1>3 DEF Counting, CallsInOrder
<1>5. InExport' = InExport \cup {c} /\ c \notin InExport
  BY <1>1, <1>3 DEF InExport, Counting, CallsInOrder
<1>6. IsFiniteSet(InExport') /\ Cardinality(InExport') = Cardinality(InExport) + 1
  BY <1>5, FS_AddElement DEF Counting
<1>7. StreamsCounted'
  BY <1>1, <1>2, <1>6 DEF Counting, StreamsCounted, StreamArrives
<1>8. LimitHolds'
  <2>1. CASE call'[c].result = "exhausted"
    <3>1. \A d \in InExport : call'[d].result = call[d].result
      BY <1>3, <1>5 DEF InExport
    <3>2. Admitted' = Admitted
      BY <1>5, <2>1, <3>1 DEF Admitted
    <3> QED
      BY <1>2, <3>2 DEF Counting, LimitHolds, options
  <2>2. CASE call'[c].result # "exhausted"
    <3>1. Limited => serverStreamsCount' <= maxServerStreams
      BY <1>3, <2>2, LimitsAreIntegers DEF TraceTypeOK, StreamArrives
    <3>2. Admitted' \subseteq InExport'
      BY DEF Admitted
    <3>3. Cardinality(Admitted') <= Cardinality(InExport') /\ Cardinality(Admitted') \in Nat
      BY <1>6, <3>2, FS_Subset, FS_CardinalityType
    <3> QED
      BY <1>2, <1>6, <1>7, <3>1, <3>3, LimitsAreIntegers, FS_CardinalityType
      DEF LimitHolds, StreamsCounted, options, TraceTypeOK
  <2> QED
    BY <2>1, <2>2
<1> QED
  BY <1>4, <1>6, <1>7, <1>8 DEF Counting

\* A call that leaves is no longer counted, refused streams included.
LEMMA LeaveCounted ==
  ASSUME TraceTypeOK, Counting, NEW c \in Call, Leave(c) PROVE Counting'
<1>1. call \in [Call -> CallState] /\ serverStreamsCount \in Int /\ call[c].at = "leaving"
  BY DEF TraceTypeOK, Leave
<1>2. UNCHANGED options /\ Limited' = Limited
  BY DEF Leave, options, Limited
<1>3. /\ \A d \in Call \ {c} : call'[d] = call[d]
      /\ call'[c].at = "done" /\ call'[c].kind = call[c].kind
  BY <1>1, CallMoves DEF Leave, Places
<1>4. CallsInOrder'
  BY <1>3 DEF Counting, CallsInOrder
<1>5. InExport' = InExport \ {c} /\ (c \in InExport <=> call[c].kind = "stream")
  BY <1>1, <1>3 DEF InExport
<1>6. /\ IsFiniteSet(InExport')
      /\ Cardinality(InExport') = IF call[c].kind = "stream" THEN Cardinality(InExport) - 1
                                  ELSE Cardinality(InExport)
  BY <1>5, FS_RemoveElement DEF Counting
<1>7. StreamsCounted'
  BY <1>1, <1>2, <1>6, FS_CardinalityType DEF Counting, StreamsCounted, Leave
<1>8. LimitHolds'
  <2>1. Admitted' \subseteq Admitted /\ Admitted \subseteq InExport
    <3>1. \A d \in InExport' : d \in InExport /\ call'[d].result = call[d].result
      BY <1>3, <1>5 DEF InExport
    <3> QED
      BY <3>1 DEF Admitted
  <2>2. IsFiniteSet(Admitted)
    BY <2>1, FS_Subset DEF Counting
  <2>3. Cardinality(Admitted') <= Cardinality(Admitted)
    BY <2>1, <2>2, FS_Subset
  <2>4. Cardinality(Admitted') \in Nat /\ Cardinality(Admitted) \in Nat
    BY <2>1, <2>2, FS_Subset, FS_CardinalityType
  <2> QED
    BY <1>2, <2>3, <2>4, LimitsAreIntegers DEF Counting, LimitHolds, options, TraceTypeOK
<1> QED
  BY <1>4, <1>6, <1>7, <1>8 DEF Counting

LEMMA CountingStep == TraceTypeOK /\ Counting /\ [TraceNext]_traceVars => Counting'
<1> SUFFICES ASSUME TraceTypeOK, Counting, [TraceNext]_traceVars PROVE Counting'
  OBVIOUS
<1>1. ASSUME UNCHANGED <<options, serverStreamsCount>>, CallsInOrder',
             InExport' = InExport, Admitted' = Admitted
      PROVE  Counting'
  BY <1>1 DEF Counting, StreamsCounted, LimitHolds, Limited, options
<1>2. CASE UNCHANGED traceVars
  BY <1>1, <1>2 DEF Counting, CallsInOrder, InExport, Admitted, traceVars, callVars, options
<1>3. ASSUME NEW c \in Call, Arrives(c) \/ Proceeds(c) \/ Consumes(c) \/ Leave(c) PROVE Counting'
  <2>1. CASE StreamArrives(c)
    BY <2>1, ArrivalCounted
  <2>2. CASE Leave(c)
    BY <2>2, LeaveCounted
  <2>3. CASE (\E m \in Message : UnaryArrives(c, m)) \/ Proceeds(c) \/ Consumes(c)
    BY <1>1, <2>3, BetweenQuiet DEF Counting
  <2> QED
    BY <1>3, <2>1, <2>2, <2>3 DEF Arrives
<1> QED
  BY <1>2, <1>3 DEF TraceNext

LEMMA CountingInitially == TraceInit => Counting
<1> SUFFICES ASSUME TraceInit PROVE Counting
  OBVIOUS
<1>1. InExport = {} /\ Admitted = {} /\ CallsInOrder
  BY DEF TraceInit, InExport, Admitted, CallsInOrder
<1>2. IsFiniteSet({}) /\ Cardinality({}) = 0
  BY FS_EmptySet
<1> QED
  BY <1>1, <1>2, LimitsAreIntegers DEF Counting, StreamsCounted, LimitHolds, TraceInit, Limited

-----------------------------------------------------------------------------
(* What the messages of a call became *)

LEMMA LastSetSame ==
  ASSUME NEW n \in Nat, NEW s, NEW t, \A i \in 1..n : s[i] = t[i],
         NEW v, NEW none, IsLastSet(v, s, n, none)
  PROVE  IsLastSet(v, t, n, none)
<1>1. CASE v = none
  BY <1>1 DEF IsLastSet
<1>2. CASE v # none
  <2>1. PICK i \in 1..n : s[i] = v /\ \A j \in (i + 1)..n : s[j] = none
    BY <1>2 DEF IsLastSet
  <2>2. \A j \in (i + 1)..n : j \in 1..n
    OBVIOUS
  <2> QED
    BY <1>2, <2>1, <2>2 DEF IsLastSet
<1> QED
  BY <1>1, <1>2

\* One more place: what it sets is last, and when it sets nothing the last stays.
LEMMA LastSetNext ==
  ASSUME NEW n \in Nat, NEW s, NEW t, \A i \in 1..n : s[i] = t[i],
         NEW v, NEW none, IsLastSet(v, s, n, none)
  PROVE  IsLastSet(IF t[n + 1] = none THEN v ELSE t[n + 1], t, n + 1, none)
<1>1. IsLastSet(v, t, n, none)
  BY LastSetSame
<1>2. n + 1 \in 1..(n + 1) /\ (n + 1 + 1)..(n + 1) = {}
  OBVIOUS
<1>3. \A i \in 1..n : i \in 1..(n + 1)
  OBVIOUS
<1>4. \A i \in 1..n : \A j \in (i + 1)..(n + 1) : j \in (i + 1)..n \/ j = n + 1
  OBVIOUS
<1>5. \A j \in 1..(n + 1) : j \in 1..n \/ j = n + 1
  OBVIOUS
<1>6. CASE t[n + 1] # none
  BY <1>2, <1>6 DEF IsLastSet
<1>7. CASE t[n + 1] = none /\ v = none
  BY <1>1, <1>5, <1>7 DEF IsLastSet
<1>8. CASE t[n + 1] = none /\ v # none
  <2>1. PICK i \in 1..n : t[i] = v /\ \A j \in (i + 1)..n : t[j] = none
    BY <1>1, <1>8 DEF IsLastSet
  <2>2. \A j \in (i + 1)..(n + 1) : t[j] = none
    BY <1>4, <1>8, <2>1
  <2> QED
    BY <1>3, <1>8, <2>1, <2>2 DEF IsLastSet
<1> QED
  BY <1>6, <1>7, <1>8

\* Nothing is received or passed on: what is left to show is that the call is where it may be.
LEMMA NothingHappens ==
  ASSUME NEW c \in Call, CallHistory(c), backPressureOn' = backPressureOn,
         sent'[c] = sent[c], passed'[c] = passed[c], labels'[c] = labels[c],
         \/ call'[c] = call[c]
         \/ /\ call[c].at = "idle" /\ call'[c].at = "first" /\ call'[c].result = "none"
         \/ /\ call'[c].at = "leaving"
            /\ \/ call[c].at = "idle" /\ call'[c].result = "exhausted"
               \/ call[c].at = "first" /\ call'[c].result = "transport"
               \/ call[c].at = "more" /\ call'[c].result \in {"ok", "transport"}
         \/ /\ call[c].at = "leaving" /\ call'[c].at = "done"
            /\ call'[c].result = call[c].result
  PROVE  CallHistory(c)'
<1>1. /\ WithSpans(c)' = WithSpans(c) /\ PassedOf(c)' = PassedOf(c)
      /\ Refused(c)' <=> Refused(c)
      /\ NodesOf(c)' = NodesOf(c) /\ ResourcesOf(c)' = ResourcesOf(c)
  BY DEF WithSpans, PassedOf, Refused, NodesOf, ResourcesOf
<1>2. Fresh(c)' /\ InForce(c)'
  BY <1>1 DEF CallHistory, Fresh, InForce
<1>3. InOrder(c)' /\ Carried(c)'
  BY <1>1 DEF CallHistory, InOrder, Carried
<1>4. Complete(c)'
  BY <1>1 DEF CallHistory, Complete
<1>5. Heard(c)'
  BY <1>1 DEF CallHistory, Heard, Fresh, Refused
<1> QED
  BY <1>2, <1>3, <1>4, <1>5 DEF CallHistory

\* A message is received that the labels follow, or that ends the call.
LEMMA OneMoreMessage ==
  ASSUME TraceTypeOK, NEW c \in Call, CallHistory(c), backPressureOn' = backPressureOn,
         call[c].at \in {"idle", "first", "more"}, NEW m \in Message,
         call[c].at # "more" => m.node # NoNode \/ call'[c].at = "leaving",
         sent'[c] = Append(sent[c], m), passed'[c] = passed[c],
         call'[c].at # "leaving" => labels'[c] = Labelled(labels[c], m),
         \/ m.spans /\ call'[c].at = "consuming" /\ call'[c].result = "none"
         \/ ~m.spans /\ call'[c].at = "more" /\ call'[c].result = "none"
         \/ /\ call'[c].at = "leaving" /\ call[c].at # "more"
            /\ \/ call'[c].result \in {"violation", "invalid"}
               \/ call'[c].result = "ok" /\ ~m.spans
  PROVE  CallHistory(c)'
<1> DEFINE n == Len(sent[c])
<1>1. sent[c] \in Seq(Message) /\ passed[c] \in Seq(PassedOn) /\ n \in Nat
  BY DEF TraceTypeOK
<1>2. /\ Len(sent'[c]) = n + 1 /\ DOMAIN sent[c] = 1..n /\ DOMAIN sent'[c] = 1..(n + 1)
      /\ sent'[c][n + 1] = m /\ \A i \in 1..n : sent'[c][i] = sent[c][i]
  BY <1>1
<1> HIDE DEF n
<1>3. \A i \in 1..(n + 1) : i \in 1..n \/ i = n + 1
  BY <1>1
<1>4. WithSpans(c)' = IF m.spans THEN WithSpans(c) \cup {n + 1} ELSE WithSpans(c)
  BY <1>1, <1>2, <1>3 DEF WithSpans
<1>5. PassedOf(c)' = PassedOf(c) /\ (Refused(c)' <=> Refused(c))
  BY DEF PassedOf, Refused
<1>6. Complete(c) /\ Heard(c) /\ Fresh(c) /\ InForce(c) /\ InOrder(c) /\ Carried(c)
  BY DEF CallHistory
<1>7. \A i \in 1..n : NodesOf(c)[i] = NodesOf(c)'[i] /\ ResourcesOf(c)[i] = ResourcesOf(c)'[i]
  BY <1>1, <1>2 DEF NodesOf, ResourcesOf
<1>8. NodesOf(c)'[n + 1] = m.node /\ ResourcesOf(c)'[n + 1] = m.resource
  BY <1>1, <1>2 DEF NodesOf, ResourcesOf
<1>9. /\ IsLastSet(labels[c].node, NodesOf(c), n, NoNode)
      /\ IsLastSet(labels[c].resource, ResourcesOf(c), n, NoResource)
      /\ call[c].at = "more" => labels[c].node # NoNode
  <2>1. CASE call[c].at = "more"
    BY <1>6, <2>1 DEF InForce, n
  <2>2. CASE call[c].at # "more"
    <3>1. n = 0 /\ labels[c] = NoLabels
      BY <1>6, <2>2 DEF Fresh, n
    <3> QED
      BY <2>2, <3>1 DEF NoLabels, IsLastSet
  <2> QED
    BY <2>1, <2>2
<1>10. Fresh(c)'
  BY DEF Fresh
<1>11. InForce(c)'
  <2> SUFFICES ASSUME call'[c].at \in {"more", "consuming"}
               PROVE  /\ labels'[c].node # NoNode
                      /\ IsLastSet(labels'[c].node, NodesOf(c)', n + 1, NoNode)
                      /\ IsLastSet(labels'[c].resource, ResourcesOf(c)', n + 1, NoResource)
    BY <1>2 DEF InForce
  <2>1. /\ labels'[c].node = IF m.node = NoNode THEN labels[c].node ELSE m.node
        /\ labels'[c].resource = IF m.resource = NoResource THEN labels[c].resource ELSE m.resource
    BY DEF Labelled
  <2>2. labels'[c].node # NoNode
    BY <1>9, <2>1
  <2>3. IsLastSet(labels'[c].node, NodesOf(c)', n + 1, NoNode)
    <3>1. IsLastSet(IF NodesOf(c)'[n + 1] = NoNode THEN labels[c].node ELSE NodesOf(c)'[n + 1],
                    NodesOf(c)', n + 1, NoNode)
      BY <1>1, <1>7, <1>9, LastSetNext, Zenon
    <3> QED
      BY <1>8, <2>1, <3>1
  <2>4. IsLastSet(labels'[c].resource, ResourcesOf(c)', n + 1, NoResource)
    <3>1. IsLastSet(IF ResourcesOf(c)'[n + 1] = NoResource THEN labels[c].resource
                    ELSE ResourcesOf(c)'[n + 1], ResourcesOf(c)', n + 1, NoResource)
      BY <1>1, <1>7, <1>9, LastSetNext, Zenon
    <3> QED
      BY <1>8, <2>1, <3>1
  <2> QED
    BY <2>2, <2>3, <2>4
<1>12. InOrder(c)'
  <2>1. ASSUME NEW i \in DOMAIN passed[c]
        PROVE  /\ passed[c][i].msg \in 1..(n + 1)
               /\ passed[c][i].msg < n + 1
    BY <1>1, <1>6, <2>1 DEF InOrder, n
  <2> QED
    BY <1>2, <1>6, <2>1 DEF InOrder
<1>13. Carried(c)'
  <2> SUFFICES ASSUME NEW i \in DOMAIN passed[c]
               PROVE  /\ passed[c][i].node # NoNode
                      /\ IsLastSet(passed[c][i].node, NodesOf(c)', passed[c][i].msg, NoNode)
                      /\ IsLastSet(passed[c][i].resource, ResourcesOf(c)', passed[c][i].msg,
                                   NoResource)
    BY DEF Carried
  <2>1. passed[c][i].msg \in 1..n
    BY <1>6 DEF InOrder, n
  <2>2. /\ passed[c][i].msg \in Nat
        /\ \A k \in 1..passed[c][i].msg : k \in 1..n
    BY <1>1, <2>1
  <2>3. /\ passed[c][i].node # NoNode
        /\ IsLastSet(passed[c][i].node, NodesOf(c), passed[c][i].msg, NoNode)
        /\ IsLastSet(passed[c][i].resource, ResourcesOf(c), passed[c][i].msg, NoResource)
    BY <1>6 DEF Carried
  <2>4. \A k \in 1..passed[c][i].msg : /\ NodesOf(c)[k] = NodesOf(c)'[k]
                                       /\ ResourcesOf(c)[k] = ResourcesOf(c)'[k]
    BY <1>7, <2>2
  <2>5. IsLastSet(passed[c][i].node, NodesOf(c)', passed[c][i].msg, NoNode)
    BY <2>2, <2>3, <2>4, LastSetSame, Zenon
  <2>6. IsLastSet(passed[c][i].resource, ResourcesOf(c)', passed[c][i].msg, NoResource)
    BY <2>2, <2>3, <2>4, LastSetSame, Zenon
  <2> QED
    BY <2>3, <2>5, <2>6
<1>14. PassedOf(c) = WithSpans(c)
  <2>1. CASE call[c].at = "more"
    BY <1>6, <2>1 DEF Complete
  <2>2. CASE call[c].at # "more"
    <3>1. sent[c] = <<>> /\ passed[c] = <<>>
      BY <1>6, <2>2 DEF Fresh
    <3> QED
      BY <3>1 DEF PassedOf, WithSpans
  <2> QED
    BY <2>1, <2>2
<1>15. Complete(c)'
  <2>1. n + 1 \notin WithSpans(c)
    BY <1>1, <1>2 DEF WithSpans
  <2> QED
    BY <1>2, <1>4, <1>5, <1>14, <2>1 DEF Complete
<1>16. Heard(c)'
  BY <1>5, <1>6 DEF Heard
<1> QED
  BY <1>10, <1>11, <1>12, <1>13, <1>15, <1>16 DEF CallHistory

LEMMA AppendedTo ==
  ASSUME NEW S, NEW s \in Seq(S), NEW x \in S
  PROVE  /\ DOMAIN s = 1..Len(s) /\ DOMAIN Append(s, x) = 1..(Len(s) + 1)
         /\ Len(Append(s, x)) = Len(s) + 1 /\ Append(s, x)[Len(s) + 1] = x
         /\ \A i \in 1..Len(s) : Append(s, x)[i] = s[i]
OBVIOUS

\* The message that was being passed on was taken or refused.
LEMMA OnePassedOn ==
  ASSUME TraceTypeOK, NEW c \in Call, CallHistory(c), backPressureOn' = backPressureOn,
         call[c].at = "consuming", sent'[c] = sent[c], labels'[c] = labels[c],
         NEW taken \in BOOLEAN,
         passed'[c] = Append(passed[c], [msg |-> Len(sent[c]), node |-> labels[c].node,
                                         resource |-> labels[c].resource, taken |-> taken]),
         \/ taken /\ call'[c].at = "more" /\ call'[c].result = "none"
         \/ taken /\ call'[c].at = "leaving" /\ call'[c].result = "ok"
         \/ /\ ~taken /\ call'[c].at = "leaving"
            /\ call'[c].result = IF backPressureOn THEN "consumer" ELSE "ok"
  PROVE  CallHistory(c)'
<1> DEFINE n == Len(sent[c])
           k == Len(passed[c])
           td == [msg |-> n, node |-> labels[c].node,
                  resource |-> labels[c].resource, taken |-> taken]
<1>1. sent[c] \in Seq(Message) /\ passed[c] \in Seq(PassedOn) /\ n \in Nat /\ k \in Nat
  BY DEF TraceTypeOK
<1>2. td.msg = n /\ td.node = labels[c].node /\ td.resource = labels[c].resource /\ td.taken = taken
  OBVIOUS
<1>3. passed'[c] = Append(passed[c], td)
  OBVIOUS
<1> HIDE DEF td
<1>4. /\ DOMAIN passed[c] = 1..k /\ DOMAIN passed'[c] = 1..(k + 1) /\ Len(passed'[c]) = k + 1
      /\ passed'[c][k + 1] = td /\ \A i \in 1..k : passed'[c][i] = passed[c][i]
  BY <1>1, <1>3, AppendedTo
<1> HIDE DEF k
<1>5. \A i \in 1..(k + 1) : i \in 1..k \/ i = k + 1
  BY <1>1
<1>6. Complete(c) /\ Heard(c) /\ InForce(c) /\ InOrder(c) /\ Carried(c)
  BY DEF CallHistory
<1>7. n \in WithSpans(c) /\ n \in 1..n /\ PassedOf(c) = WithSpans(c) \ {n}
  BY <1>1, <1>6 DEF Complete, WithSpans
<1>8. PassedOf(c)' = WithSpans(c)' /\ WithSpans(c)' = WithSpans(c)
  <2>1. PassedOf(c)' = PassedOf(c) \cup {n}
    BY <1>1, <1>2, <1>4, <1>5 DEF PassedOf
  <2> QED
    BY <1>7, <2>1 DEF WithSpans
<1>9. \A i \in 1..k : passed[c][i].taken
  BY <1>4, <1>6 DEF Heard, Refused
<1>10. Refused(c)' <=> ~taken
  <2>1. k + 1 \in 1..(k + 1)
    BY <1>1
  <2> QED
    BY <1>2, <1>4, <1>5, <1>9, <2>1 DEF Refused
<1>11. Fresh(c)' /\ Complete(c)' /\ Heard(c)'
  BY <1>6, <1>8, <1>10 DEF Fresh, Complete, Heard
<1>12. NodesOf(c)' = NodesOf(c) /\ ResourcesOf(c)' = ResourcesOf(c)
  BY DEF NodesOf, ResourcesOf
<1>13. /\ labels[c].node # NoNode
       /\ IsLastSet(labels[c].node, NodesOf(c), n, NoNode)
       /\ IsLastSet(labels[c].resource, ResourcesOf(c), n, NoResource)
  BY <1>6 DEF InForce
<1>14. InForce(c)'
  BY <1>12, <1>13 DEF InForce
<1>15. Carried(c)'
  BY <1>2, <1>4, <1>5, <1>6, <1>12, <1>13 DEF Carried
<1>16. InOrder(c)'
  <2> SUFFICES ASSUME NEW i \in 1..(k + 1)
               PROVE  /\ passed'[c][i].msg \in 1..n
                      /\ i < k + 1 => /\ passed'[c][i].taken
                                      /\ passed'[c][i].msg < passed'[c][i + 1].msg
    BY <1>4 DEF InOrder
  <2>1. CASE i = k + 1
    BY <1>1, <1>2, <1>4, <1>7, <2>1
  <2>2. CASE i \in 1..k
    <3>1. passed[c][i].msg \in 1..n /\ passed[c][i].msg < n
      BY <1>4, <1>6, <2>2 DEF InOrder
    <3>2. CASE i = k
      BY <1>1, <1>2, <1>4, <1>9, <2>2, <3>1, <3>2
    <3>3. CASE i < k
      <4>1. i + 1 \in 1..k
        BY <1>1, <2>2, <3>3
      <4>2. passed[c][i].msg < passed[c][i + 1].msg
        BY <1>4, <1>6, <2>2, <3>3 DEF InOrder, k
      <4> QED
        BY <1>4, <1>9, <2>2, <3>1, <4>1, <4>2
    <3>4. i = k \/ i < k
      BY <1>1, <2>2
    <3> QED
      BY <3>2, <3>3, <3>4
  <2> QED
    BY <1>5, <2>1, <2>2
<1> QED
  BY <1>11, <1>14, <1>15, <1>16 DEF CallHistory

LEMMA HistoriesStep == TraceTypeOK /\ Histories /\ [TraceNext]_traceVars => Histories'
<1> SUFFICES ASSUME TraceTypeOK, Histories, [TraceNext]_traceVars, NEW d \in Call
             PROVE  CallHistory(d)'
  BY DEF Histories
<1>1. /\ call \in [Call -> CallState] /\ labels \in [Call -> LabelState]
      /\ sent \in [Call -> Seq(Message)] /\ passed \in [Call -> Seq(PassedOn)]
  BY DEF TraceTypeOK
<1>2. CallHistory(d)
  BY DEF Histories
<1>3. CASE UNCHANGED traceVars
  BY <1>2, <1>3, NothingHappens DEF traceVars, callVars
<1>4. ASSUME NEW c \in Call, Arrives(c) \/ Proceeds(c) \/ Consumes(c) \/ Leave(c)
      PROVE  CallHistory(d)'
  <2>1. backPressureOn' = backPressureOn
    BY <1>4 DEF Arrives, StreamArrives, UnaryArrives, Proceeds, ReceiveFails, ReceiveFirst,
                Receive, Consumes, ConsumerTakes, ConsumerRefuses, Leave, options
  <2>2. CASE d # c
    <3>1. call'[d] = call[d]
      BY <1>1, <1>4, <2>2
      DEF Arrives, StreamArrives, UnaryArrives, Proceeds, ReceiveFails, ReceiveFirst, Receive,
          Process, Consumes, ConsumerTakes, ConsumerRefuses, Leave, Goto, Leaving
    <3>2. sent'[d] = sent[d] /\ labels'[d] = labels[d] /\ passed'[d] = passed[d]
      BY <1>1, <1>4, <2>2
      DEF Arrives, StreamArrives, UnaryArrives, Proceeds, ReceiveFails, ReceiveFirst, Receive,
          Process, Consumes, ConsumerTakes, ConsumerRefuses, Leave, Pass
    <3> QED
      BY <1>2, <2>1, <3>1, <3>2, NothingHappens
  <2>3. CASE d = c
    <3>1. CASE StreamArrives(c)
      <4>1. /\ call[c].at = "idle"
            /\ \/ call'[c].at = "leaving" /\ call'[c].result = "exhausted"
               \/ call'[c].at = "first" /\ call'[c].result = "none"
        <5> DEFINE over == Limited /\ serverStreamsCount' > maxServerStreams
        <5>1. call' = [call EXCEPT ![c] =
                        IF over THEN [at |-> "leaving", kind |-> "stream", result |-> "exhausted"]
                        ELSE [at |-> "first", kind |-> "stream", result |-> "none"]]
          BY <3>1 DEF StreamArrives
        <5> HIDE DEF over
        <5> QED
          BY <1>1, <3>1, <5>1 DEF StreamArrives
      <4> QED
        BY <1>2, <2>1, <2>3, <3>1, <4>1, NothingHappens DEF StreamArrives
    <3>2. CASE ReceiveFails(c) \/ Leave(c)
      <4>1. \/ /\ call'[c].at = "leaving"
               /\ \/ call[c].at = "first" /\ call'[c].result = "transport"
                  \/ call[c].at = "more" /\ call'[c].result \in {"ok", "transport"}
            \/ /\ call[c].at = "leaving" /\ call'[c].at = "done"
               /\ call'[c].result = call[c].result
        BY <1>1, <3>2, CallMoves DEF ReceiveFails, Leave, Results, Places
      <4> QED
        BY <1>2, <2>1, <2>3, <3>2, <4>1, NothingHappens DEF ReceiveFails, Leave
    <3>3. ASSUME NEW m \in Message, UnaryArrives(c, m) PROVE CallHistory(d)'
      <4>1. sent[c] = <<>> /\ labels[c] = NoLabels
        BY <1>2, <2>3, <3>3 DEF UnaryArrives, CallHistory, Fresh
      <4>2. sent'[c] = Append(sent[c], m) /\ passed'[c] = passed[c] /\ call[c].at = "idle"
        BY <1>1, <3>3, <4>1 DEF UnaryArrives
      <4>3. /\ m.node = NoNode => call'[c].at = "leaving" /\ call'[c].result = "invalid"
            /\ m.node # NoNode =>
                 /\ labels'[c] = Labelled(labels[c], m)
                 /\ m.spans => call'[c].at = "consuming" /\ call'[c].result = "none"
                 /\ ~m.spans => call'[c].at = "leaving" /\ call'[c].result = "ok"
        BY <1>1, <3>3, <4>1 DEF UnaryArrives
      <4> QED
        BY <1>2, <2>1, <2>3, <4>2, <4>3, OneMoreMessage
    <3>4. ASSUME NEW m \in Message, ReceiveFirst(c, m) PROVE CallHistory(d)'
      <4>1. sent[c] = <<>>
        BY <1>2, <2>3, <3>4 DEF ReceiveFirst, CallHistory, Fresh
      <4>2. sent'[c] = Append(sent[c], m) /\ passed'[c] = passed[c] /\ call[c].at = "first"
        BY <1>1, <3>4, <4>1 DEF ReceiveFirst
      <4>3. call[c].result = "none"
        BY <1>2, <2>3, <4>2 DEF CallHistory, Heard
      <4>4. CASE m.node = NoNode /\ Leaving(c, "violation")
        <5>1. call'[c].at = "leaving" /\ call'[c].result = "violation"
          BY <1>1, <4>4, CallMoves DEF Results
        <5> QED
          BY <1>2, <2>1, <2>3, <4>2, <5>1, OneMoreMessage
      <4>5. CASE m.node # NoNode /\ Process(c, m, Goto(c, "more"))
        <5>1. /\ call'[c].at = IF m.spans THEN "consuming" ELSE "more"
              /\ call'[c].result = "none" /\ labels'[c] = Labelled(labels[c], m)
          BY <1>1, <4>3, <4>5, CallMoves DEF Process, Places
        <5> QED
          BY <1>2, <2>1, <2>3, <4>2, <4>5, <5>1, OneMoreMessage
      <4> QED
        BY <3>4, <4>4, <4>5 DEF ReceiveFirst
    <3>5. ASSUME NEW m \in Message, Receive(c, m) PROVE CallHistory(d)'
      <4>1. sent'[c] = Append(sent[c], m) /\ passed'[c] = passed[c] /\ call[c].at = "more"
        BY <1>1, <3>5 DEF Receive
      <4>2. call[c].result = "none"
        BY <1>2, <2>3, <4>1 DEF CallHistory, Heard
      <4>3. /\ call'[c].at = IF m.spans THEN "consuming" ELSE "more"
            /\ call'[c].result = "none" /\ labels'[c] = Labelled(labels[c], m)
        BY <1>1, <3>5, <4>2, CallMoves DEF Receive, Process, Places
      <4> QED
        BY <1>2, <2>1, <2>3, <4>1, <4>3, OneMoreMessage
    <3>6. CASE ConsumerTakes(c)
      <4>1. call[c].result = "none" /\ call[c].at = "consuming"
        BY <1>2, <2>3, <3>6 DEF ConsumerTakes, CallHistory, Heard
      <4>2. \/ call'[c].at = "more" /\ call'[c].result = "none"
            \/ call'[c].at = "leaving" /\ call'[c].result = "ok"
        BY <1>1, <3>6, <4>1, CallMoves DEF ConsumerTakes, Places, Results
      <4>3. /\ sent'[c] = sent[c] /\ labels'[c] = labels[c]
            /\ passed'[c] = Append(passed[c], [msg |-> Len(sent[c]), node |-> labels[c].node,
                                     resource |-> labels[c].resource, taken |-> TRUE])
        BY <1>1, <3>6 DEF ConsumerTakes, Pass
      <4> QED
        BY <1>2, <2>1, <2>3, <4>1, <4>2, <4>3, OnePassedOn
    <3>7. CASE ConsumerRefuses(c)
      <4>1. call[c].at = "consuming"
        BY <3>7 DEF ConsumerRefuses
      <4>2. /\ call'[c].at = "leaving"
            /\ call'[c].result = IF backPressureOn THEN "consumer" ELSE "ok"
        BY <1>1, <3>7, CallMoves DEF ConsumerRefuses, Results
      <4>3. /\ sent'[c] = sent[c] /\ labels'[c] = labels[c]
            /\ passed'[c] = Append(passed[c], [msg |-> Len(sent[c]), node |-> labels[c].node,
                                     resource |-> labels[c].resource, taken |-> FALSE])
        BY <1>1, <3>7 DEF ConsumerRefuses, Pass
      <4> QED
        BY <1>2, <2>1, <2>3, <4>1, <4>2, <4>3, OnePassedOn
    <3> QED
      BY <1>4, <3>1, <3>2, <3>3, <3>4, <3>5, <3>6, <3>7 DEF Arrives, Proceeds, Consumes
  <2> QED
    BY <2>2, <2>3
<1> QED
  BY <1>3, <1>4 DEF TraceNext

LEMMA HistoriesInitially == TraceInit => Histories
<1> SUFFICES ASSUME TraceInit, NEW c \in Call PROVE CallHistory(c)
  BY DEF Histories
<1>1. /\ call[c].at = "idle" /\ call[c].result = "none"
      /\ sent[c] = <<>> /\ passed[c] = <<>> /\ labels[c] = NoLabels
  BY DEF TraceInit
<1> QED
  BY <1>1 DEF CallHistory, Fresh, InForce, InOrder, Complete, Heard, Carried, Refused

\* What is known of a call is what its client is promised.
LEMMA HistoriesMean == Histories => LabelsCarried /\ LossReported
<1> SUFFICES ASSUME Histories PROVE LabelsCarried /\ LossReported
  OBVIOUS
<1>1. LabelsCarried
  BY DEF Histories, CallHistory, Carried, LabelsCarried
<1>2. LossReported
  BY DEF Histories, CallHistory, InOrder, Heard, Complete, Refused, PassedOf, WithSpans,
         LossReported
<1> QED
  BY <1>1, <1>2

-----------------------------------------------------------------------------
(* Start, the goroutines and Shutdown *)

IInv == TypeOK /\ Counting /\ Histories /\ Registration

LEMMA ReceiverInitially == Init => IInv
<1> SUFFICES ASSUME Init PROVE IInv
  OBVIOUS
<1>1. TraceTypeOK /\ Counting /\ Histories
  BY TraceTypesInitially, CountingInitially, HistoriesInitially DEF Init
<1>2. ServerTypeOK
  BY DEF Init, ServerTypeOK, StarterState
<1>3. Registration
  BY DEF Init, Registration, ServicesFit, Fits, Service
<1> QED
  BY <1>1, <1>2, <1>3 DEF IInv, TypeOK

\* Start p moves to label; the others stay.
Moves(p, label) == /\ starter' \in [Starter -> StarterState] /\ starter'[p].at = label
                   /\ \A q \in Starter \ {p} : starter'[q] = starter[q]

LEMMA StepMoves ==
  ASSUME ServerTypeOK, NEW p \in Starter,
         NEW label \in {"trace", "in trace", "metrics", "in metrics", "server", "window"},
         Step(p, label)
  PROVE  Moves(p, label)
BY DEF Step, ServerTypeOK, StarterState, Moves

LEMMA ReturnMoves ==
  ASSUME ServerTypeOK, NEW p \in Starter, NEW result \in {"ok", "error"}, Return(p, result)
  PROVE  Moves(p, "returned")
BY DEF Return, ServerTypeOK, StarterState, Moves

LEMMA Labels == /\ Inside["trace"] = "in trace" /\ Inside["metrics"] = "in metrics"
                /\ Inside["server"] = "window"
                /\ StepAfter["trace"] = "metrics" /\ StepAfter["metrics"] = "server"
BY DEF Inside, StepAfter

\* The first caller of a sync.Once goes inside.
LEMMA EnterMoves ==
  ASSUME ServerTypeOK, NEW p \in Starter, NEW o \in Service \cup {"server"}, Enter(p, o)
  PROVE  /\ starter[p].at = o /\ once[o] = "new"
         /\ once' = [once EXCEPT ![o] = "running"] /\ Moves(p, Inside[o])
<1>1. Inside[o] \in {"in trace", "in metrics", "window"}
  BY Labels DEF Service
<1> QED
  BY <1>1, StepMoves DEF Enter

\* What concerns neither the consumers nor the registration nor the Starts, and does not
\* start the server.
LEMMA Unconcerned ==
  ASSUME Registration, UNCHANGED <<consumers, registered, once, starter>>,
         server["main"] = "absent" => server'["main"] = "absent"
  PROVE  Registration'
BY DEF Registration, ServicesFit, Fits, Begun

\* A Start moves on: what it leaves behind is registered.
LEMMA StarterMoves ==
  ASSUME ServerTypeOK, Registration, NEW p \in Starter, NEW label, Moves(p, label), label # "idle",
         UNCHANGED consumers, registered \subseteq registered', Fits(p)', ServicesFit',
         server'["main"] # "absent" => server["main"] # "absent" \/ consumers \subseteq registered
  PROVE  Registration'
<1>1. ASSUME NEW q \in Starter \ {p} PROVE Fits(q)'
  BY <1>1 DEF Moves, Registration, Fits
<1>2. Begun'
  BY DEF Begun, Moves
<1> QED
  BY <1>1, <1>2 DEF Registration

LEMMA ServerStep == TypeOK /\ Registration /\ [Next]_vars => ServerTypeOK' /\ Registration'
<1> SUFFICES ASSUME TypeOK, Registration, [Next]_vars PROVE ServerTypeOK' /\ Registration'
  OBVIOUS
<1>t. ServerTypeOK
  BY DEF TypeOK
<1> USE <1>t
<1>1. CASE New
  BY <1>1, Unconcerned DEF New, ServerTypeOK
<1>2. ASSUME NEW s \in Service, Create(s) PROVE ServerTypeOK' /\ Registration'
  <2>1. ServerTypeOK'
    BY <1>2 DEF Create, ServerTypeOK
  <2>2. Registration'
    BY <1>2 DEF Create, Registration, ServicesFit, Fits, Begun
  <2> QED
    BY <2>1, <2>2
<1>3. ASSUME NEW p \in Starter, Start(p) PROVE ServerTypeOK' /\ Registration'
  <2>1. Moves(p, "trace") /\ UNCHANGED <<consumers, registered, once, server>>
    BY <1>3, StepMoves DEF Start
  <2>2. ServerTypeOK'
    BY <1>3, <2>1 DEF Start, ServerTypeOK, Moves
  <2>3. Fits(p)' /\ ServicesFit'
    BY <2>1 DEF Moves, Fits, Registration, ServicesFit
  <2> QED
    BY <2>1, <2>2, <2>3, StarterMoves
<1>4. ASSUME NEW p \in Starter, NEW s \in Service, Register(p, s)
      PROVE  ServerTypeOK' /\ Registration'
  <2>0. /\ StepAfter[s] = (IF s = "trace" THEN "metrics" ELSE "server")
        /\ Inside[s] = (IF s = "trace" THEN "in trace" ELSE "in metrics")
        /\ UNCHANGED <<consumers, server>>
    BY <1>4, Labels DEF Service, Register
  <2>1. CASE s \in consumers /\ Enter(p, s) /\ UNCHANGED registered
    <3>1. /\ starter[p].at = s /\ once[s] = "new" /\ once' = [once EXCEPT ![s] = "running"]
          /\ Moves(p, Inside[s])
      BY <2>1, EnterMoves
    <3>2. ServerTypeOK'
      BY <1>4, <2>1, <3>1 DEF Register, ServerTypeOK, Moves
    <3>3. ServicesFit'
      BY <2>0, <2>1, <3>1 DEF Registration, ServicesFit, ServerTypeOK
    <3>4. Fits(p)'
      BY <2>0, <2>1, <3>1 DEF Registration, Fits, Moves, Service
    <3> QED
      BY <2>0, <2>1, <3>1, <3>2, <3>3, <3>4, StarterMoves
  <2>2. CASE /\ starter[p].at = Inside[s]
             /\ once' = [once EXCEPT ![s] = "done"] /\ registered' = registered \cup {s}
             /\ Step(p, StepAfter[s])
    <3>1. s \in consumers
      BY <2>0, <2>2 DEF Registration, Fits, Service
    <3>2. Moves(p, StepAfter[s])
      BY <2>0, <2>2, StepMoves
    <3>3. ServerTypeOK'
      BY <1>4, <2>2, <3>1, <3>2 DEF Register, ServerTypeOK, Moves
    <3>4. ServicesFit'
      BY <2>0, <2>2, <3>1 DEF Registration, ServicesFit, ServerTypeOK
    <3>5. Fits(p)'
      BY <2>0, <2>2, <3>1, <3>2 DEF Registration, Fits, Moves, Service
    <3> QED
      BY <2>0, <2>2, <3>2, <3>3, <3>4, <3>5, StarterMoves
  <2> QED
    BY <1>4, <2>1, <2>2 DEF Register
<1>5. ASSUME NEW p \in Starter, NEW s \in Service, RegisterNot(p, s)
      PROVE  ServerTypeOK' /\ Registration'
  <2>0. StepAfter[s] = (IF s = "trace" THEN "metrics" ELSE "server")
    BY Labels DEF Service
  <2>1. /\ Moves(p, StepAfter[s]) /\ UNCHANGED <<consumers, registered, once, server>>
        /\ starter[p].at = s
    BY <1>5, <2>0, StepMoves DEF RegisterNot
  <2>2. ServerTypeOK'
    BY <1>5, <2>1 DEF RegisterNot, ServerTypeOK, Moves
  <2>3. ServicesFit' /\ s \notin consumers \ registered
    BY <1>5, <2>1 DEF Registration, ServicesFit, RegisterNot
  <2>4. Fits(p)'
    BY <2>0, <2>1, <2>3 DEF Registration, Fits, Moves, Service
  <2> QED
    BY <2>0, <2>1, <2>2, <2>3, <2>4, StarterMoves
<1>6. ASSUME NEW p \in Starter, StartServer(p) PROVE ServerTypeOK' /\ Registration'
  <2>1. /\ starter[p].at = "server" /\ once' = [once EXCEPT !["server"] = "running"]
        /\ Moves(p, "window") /\ UNCHANGED <<consumers, registered>>
    BY <1>6, EnterMoves, Labels DEF StartServer
  <2>2. ServerTypeOK'
    BY <1>6, <2>1 DEF StartServer, ServerTypeOK, Moves
  <2>3. ServicesFit'
    BY <2>1 DEF Registration, ServicesFit, ServerTypeOK, Service
  <2>4. Fits(p)' /\ consumers \subseteq registered
    BY <2>1 DEF Registration, Fits, Moves, Service, ServerTypeOK
  <2> QED
    BY <2>1, <2>2, <2>3, <2>4, StarterMoves
<1>7. ASSUME NEW p \in Starter, StartServerNot(p) \/ WindowEnds(p)
      PROVE  ServerTypeOK' /\ Registration'
  <2>1. Moves(p, "returned")
    BY <1>7, ReturnMoves DEF StartServerNot, WindowEnds
  <2>2. starter[p].at \in {"server", "window"} /\ UNCHANGED <<consumers, registered, server>>
    BY <1>7 DEF StartServerNot, WindowEnds
  <2>3. /\ once' \in [Service \cup {"server", "stop"} -> {"new", "running", "done"}]
        /\ \A s \in Service : once'[s] = once[s]
    BY <1>7 DEF StartServerNot, WindowEnds, ServerTypeOK, Service
  <2>4. ServerTypeOK'
    BY <1>7, <2>1, <2>3 DEF StartServerNot, WindowEnds, ServerTypeOK, Moves
  <2>5. ServicesFit' /\ Fits(p)'
    BY <2>1, <2>2, <2>3 DEF Registration, ServicesFit, Fits, Moves
  <2> QED
    BY <2>1, <2>2, <2>4, <2>5, StarterMoves
<1>8. CASE Serving
  <2>1. ServerTypeOK'
    BY <1>8 DEF Serving, Dial, ServeHTTP, AcceptFails, SendError, ServerTypeOK
  <2>2. server["main"] = "absent" => server'["main"] = "absent"
    BY <1>8 DEF Serving, Dial, ServeHTTP, AcceptFails, SendError, ServerTypeOK
  <2> QED
    BY <1>8, <2>1, <2>2, Unconcerned DEF Serving, Dial, ServeHTTP, AcceptFails, SendError
<1>9. CASE Connect
  BY <1>9, Unconcerned DEF Connect, ServerTypeOK
<1>10. CASE Shutdown
  <2>1. ServerTypeOK'
    BY <1>10 DEF Shutdown, ServerTypeOK
  <2>2. Registration'
    BY <1>10 DEF Shutdown, Registration, ServicesFit, Fits, Begun, ServerTypeOK, Service
  <2> QED
    BY <2>1, <2>2
<1>11. CASE UNCHANGED serverVars
  BY <1>11, Unconcerned DEF serverVars, ServerTypeOK
<1> QED
  BY <1>1, <1>2, <1>3, <1>4, <1>5, <1>6, <1>7, <1>8, <1>9, <1>10, <1>11
  DEF Next, Starting, Calls, vars

LEMMA Invariance == Spec => []IInv
<1>1. [Next]_vars => [TraceNext]_traceVars
  BY DEF Next, New, Create, Start, Starting, Register, RegisterNot, StartServer, StartServerNot,
         WindowEnds, Serving, Dial, ServeHTTP, AcceptFails, SendError, Connect, Calls, Shutdown,
         TraceNext, vars
<1>2. IInv /\ [Next]_vars => IInv'
  BY <1>1, TraceTypesStep, CountingStep, HistoriesStep, ServerStep DEF IInv, TypeOK
<1> QED
  BY ReceiverInitially, <1>2, PTL DEF Spec

\* The variables of the receiver keep their types; in particular no service is registered
\* without a consumer to pass on to (opencensus.go:116, opencensus.go:142).
THEOREM Typing == Spec => []TypeOK
<1>1. IInv => TypeOK
  BY DEF IInv
<1> QED
  BY Invariance, <1>1, PTL

\* For any number of calls, the counter is the number of streams inside Export
\* (octrace/opencensus.go:103).
THEOREM CounterExact == Spec => []StreamsCounted
<1>1. IInv => StreamsCounted
  BY DEF IInv, Counting
<1> QED
  BY Invariance, <1>1, PTL

\* For any number of calls and any limit, no more streams receive than the limit allows
\* (octrace/opencensus.go:105).
THEOREM LimitKept == Spec => []LimitHolds
<1>1. IInv => LimitHolds
  BY DEF IInv, Counting
<1> QED
  BY Invariance, <1>1, PTL

\* For any number of concurrent Starts, whoever wins which sync.Once, the services are
\* registered when the server is started (opencensus.go:111, opencensus.go:224).
THEOREM RegisteredInTime == Spec => []RegisteredBeforeServing
<1>1. IInv => RegisteredBeforeServing
  BY DEF IInv, TypeOK, ServerTypeOK, Registration, ServicesFit, RegisteredBeforeServing
<1> QED
  BY Invariance, <1>1, PTL

\* For any number of calls and messages, whatever the next consumer gets carries the node and
\* the resource that were last set on its own call (octrace/opencensus.go:152).
THEOREM LabelsFollow == Spec => []LabelsCarried
<1>1. IInv => LabelsCarried
  BY HistoriesMean DEF IInv
<1> QED
  BY Invariance, <1>1, PTL

\* For any number of calls and messages, what a call returns tells what was passed on: all of
\* it, all before a refusal, or that there was a refusal (octrace/opencensus.go:128).
THEOREM LossHeard == Spec => []LossReported
<1>1. IInv => LossReported
  BY HistoriesMean DEF IInv
<1> QED
  BY Invariance, <1>1, PTL
=============================================================================
