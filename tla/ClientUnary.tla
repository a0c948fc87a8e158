---------------------------- MODULE ClientUnary -----------------------------
(***************************************************************************)
(* The client of the Omnishard exporter (client_unary.go): Send puts a     *)
(* request on a bounded queue, SendConcurrency goroutines take requests,   *)
(* make one unary Export call each, and report the result through a        *)
(* callback.  The actions leave the callers of Send and the callbacks to   *)
(* the module that uses this one; what the server answers is its choice.   *)
(***************************************************************************)
EXTENDS Integers, Sequences, FiniteSets

CONSTANTS
  Request,     \* records with the shard they are sent to
  NoRequest,
  Sender,      \* goroutines of processSendRequests (options.SendConcurrency)
  Answer,      \* what an Export call may come back with
  NoAnswer

VARIABLES
  connection,      \* "new", "connecting", "connected" or "failed"
  done,            \* c.done is closed
  requestsToSend,
  sender           \* per goroutine: where it is, its request and the answer to it

clientVars == <<connection, done, requestsToSend, sender>>

Idle(label) == [at |-> label, request |-> NoRequest, answer |-> NoAnswer]

ClientInit ==
  /\ connection = "new" /\ done = FALSE
  /\ requestsToSend = <<>>
  /\ sender = [s \in Sender |-> Idle("absent")]

BeginConnect ==
  /\ connection = "new" /\ connection' = "connecting"
  /\ UNCHANGED <<done, requestsToSend, sender>>

\* The blocking dial succeeds: the queue is made and the senders start.
Connected ==
  /\ connection = "connecting" /\ connection' = "connected"
  /\ sender' = [s \in Sender |-> Idle("select")]
  /\ UNCHANGED <<done, requestsToSend>>

\* The dial is cancelled through cancelCh, or fails.
ConnectFails ==
  /\ connection = "connecting" /\ connection' = "failed"
  /\ UNCHANGED <<done, requestsToSend, sender>>

\* c.requestsToSend <- request: blocks while the queue is full, and before Connect, when
\* the channel is nil.
Enqueue(r) ==
  /\ connection = "connected"
  /\ Len(requestsToSend) < Cardinality(Sender)
  /\ requestsToSend' = Append(requestsToSend, r)
  /\ UNCHANGED <<connection, done, sender>>

\* case request := <-c.requestsToSend
TakeRequest(s) ==
  /\ sender[s].at = "select" /\ requestsToSend # <<>>
  /\ sender' = [sender EXCEPT ![s] = [Idle("exporting") EXCEPT !.request = Head(requestsToSend)]]
  /\ requestsToSend' = Tail(requestsToSend)
  /\ UNCHANGED <<connection, done>>

\* MUTANT of SeeDone: a break, which leaves the select and not the loop.
SeeDoneBreak(s) ==
  /\ sender[s].at = "select" /\ done
  /\ sender' = [sender EXCEPT ![s] = Idle("select")]
  /\ UNCHANGED <<connection, done, requestsToSend>>

\* case <-c.done
SeeDone(s) ==
  /\ sender[s].at = "select" /\ done
  /\ sender' = [sender EXCEPT ![s] = Idle("gone")]
  /\ UNCHANGED <<connection, done, requestsToSend>>

\* c.client.Export returns.
ExportReturns(s, a) ==
  /\ sender[s].at = "exporting"
  /\ sender' = [sender EXCEPT ![s].at = "reporting", ![s].answer = a]
  /\ UNCHANGED <<connection, done, requestsToSend>>

\* OnSendResponse or OnSendFail is called with the request and its answer.
Report(s) ==
  /\ sender[s].at = "reporting"
  /\ sender' = [sender EXCEPT ![s] = Idle("select")]
  /\ UNCHANGED <<connection, done, requestsToSend>>

\* close(c.done)
Shutdown ==
  /\ ~done /\ done' = TRUE
  /\ UNCHANGED <<connection, requestsToSend, sender>>

SenderStep(s) == TakeRequest(s) \/ SeeDone(s)

ClientTypeOK ==
  /\ connection \in {"new", "connecting", "connected", "failed"}
  /\ done \in BOOLEAN
  /\ requestsToSend \in Seq(Request)
  /\ sender \in [Sender -> [at : {"absent", "select", "exporting", "reporting", "gone"},
                            request : Request \cup {NoRequest},
                            answer : Answer \cup {NoAnswer}]]
=============================================================================
