------------------------ MODULE MCOpenCensusReceiver ------------------------
(***************************************************************************)
(* Two pipelines and two calls of the trace service.  All of it at once is *)
(* too much, so the instance is split: either both pipelines start the     *)
(* receiver and no call arrives, or the trace pipeline does, and calls     *)
(* arrive when it has started.                                             *)
(***************************************************************************)
EXTENDS OpenCensusReceiver

CONSTANTS n1, n2, r1, r2, p1

\* A node with its resource, another node alone, another resource alone, and no spans.
MCMessage == {[node |-> n1, resource |-> r1, spans |-> TRUE],
              [node |-> n2, resource |-> NoResource, spans |-> TRUE],
              [node |-> NoNode, resource |-> r2, spans |-> FALSE]}

\* A limit of one stream, and one that int64 makes negative.
MCConfig == {[backpressure |-> TRUE, max_server_streams |-> 1],
             [backpressure |-> FALSE, max_server_streams |-> 5]}
MCLimit  == {Int64(n) : n \in {1, 5}}

VARIABLE calls   \* which half of the instance this is

MCInit == Init /\ calls \in BOOLEAN
Started == starter[p1].at = "returned" /\ server["http"] \notin {"starting", "made"}
MCNext ==
  /\ Next /\ UNCHANGED calls
  /\ IF calls THEN /\ consumers' \subseteq {"trace"} /\ (connected' => connected \/ Started)
                   /\ \A p \in Starter \ {p1} : starter'[p].at = "idle"
     ELSE UNCHANGED call
MCSpec == MCInit /\ [][MCNext]_<<vars, calls>> /\ Fairness
=============================================================================
