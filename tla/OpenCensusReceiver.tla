------------------------- MODULE OpenCensusReceiver -------------------------
(***************************************************************************)
(* The OpenCensus receiver (receiver/opencensusreceiver): one receiver for *)
(* the trace and the metrics pipelines of a configuration, its gRPC server *)
(* and the HTTP gateway sharing one listener, and the calls the trace      *)
(* receiver serves (OCTraceReceiver).  Start and Shutdown are called by    *)
(* the pipelines; three goroutines serve, each ends by sending its error   *)
(* to errChan, which is read at most once.                                 *)
(***************************************************************************)
EXTENDS OCTraceReceiver

CONSTANTS
  Starter,       \* calls of Start
  Config,        \* the configured [backpressure, max_server_streams]
  HalfInt64      \* stands for 2^63

Service == {"trace", "metrics"}

VARIABLES
  consumers,     \* the services whose next consumer is set
  once,          \* the four sync.Once, by what they guard
  ln,            \* the listener
  registered,    \* the services of the gRPC server
  serverHTTP, errChan,
  server,        \* the goroutines of startServer
  starter,       \* the calls of Start
  connected      \* a client has a connection to the gRPC server

serverVars == <<consumers, once, ln, registered, serverHTTP, errChan, server, starter, connected>>
vars == <<traceVars, serverVars>>

\* int64(rOpts.MaxServerStreams): the upper half of uint64 becomes negative.
Int64(n) == IF n < HalfInt64 THEN n ELSE n - 2 * HalfInt64

\* What the trace receiver is made with, of its options.
traceReceiverOptions(cfg) ==
  [backPressureOn |-> cfg.backpressure, maxServerStreams |-> Int64(cfg.max_server_streams)]

ASSUME ConfigsAreLimits ==
  /\ HalfInt64 \in Nat \ {0}
  /\ Config \subseteq [backpressure : BOOLEAN, max_server_streams : 0..(2 * HalfInt64 - 1)]
  /\ \A cfg \in Config : traceReceiverOptions(cfg).maxServerStreams \in Limit

Init ==
  /\ TraceInit
  /\ \E cfg \in Config : /\ backPressureOn = traceReceiverOptions(cfg).backPressureOn
                         /\ maxServerStreams = traceReceiverOptions(cfg).maxServerStreams
  /\ consumers = {} /\ registered = {} /\ connected = FALSE
  /\ once = [o \in Service \cup {"server", "stop"} |-> "new"]
  /\ ln = "none" /\ serverHTTP = "none" /\ errChan = "empty"
  /\ server = [g \in {"main", "grpc", "http"} |-> "absent"]
  /\ starter = [p \in Starter |-> [at |-> "idle", result |-> "none"]]

-----------------------------------------------------------------------------
(* The factory: every pipeline creates its receiver before the first Start. *)

\* The first pipeline of a configuration makes the receiver, which binds the address; when
\* the credentials cannot be read or the address is taken nothing comes of it.
New ==
  /\ ln = "none" /\ ln' = "open"
  /\ UNCHANGED <<traceVars, consumers, once, registered, serverHTTP, errChan, server, starter, connected>>

\* CreateTraceReceiver and CreateMetricsReceiver give the one receiver their consumer.
Create(s) ==
  /\ ln = "open" /\ s \notin consumers /\ \A p \in Starter : starter[p].at = "idle"
  /\ consumers' = consumers \cup {s}
  /\ UNCHANGED <<traceVars, once, ln, registered, serverHTTP, errChan, server, starter, connected>>

-----------------------------------------------------------------------------
(* Start: the services are registered, then the server is started, each once. *)

Step(p, label)     == starter' = [starter EXCEPT ![p].at = label]
Return(p, result)  == starter' = [starter EXCEPT ![p] = [at |-> "returned", result |-> result]]
StepAfter == [trace |-> "metrics", metrics |-> "server"]
Inside    == [trace |-> "in trace", metrics |-> "in metrics", server |-> "window"]

Start(p) ==
  /\ ln # "none" /\ starter[p].at = "idle"
  /\ Step(p, "trace")
  /\ UNCHANGED <<traceVars, consumers, once, ln, registered, serverHTTP, errChan, server, connected>>

\* The first caller of a sync.Once enters; the others wait until it has left.
Enter(p, o) ==
  /\ starter[p].at = o /\ once[o] = "new"
  /\ once' = [once EXCEPT ![o] = "running"]
  /\ Step(p, Inside[o])

\* registerTraceConsumer and registerMetricsConsumer
Register(p, s) ==
  /\ \/ s \in consumers /\ Enter(p, s) /\ UNCHANGED registered
     \/ /\ starter[p].at = Inside[s]
        /\ once' = [once EXCEPT ![s] = "done"] /\ registered' = registered \cup {s}
        /\ Step(p, StepAfter[s])
  /\ UNCHANGED <<traceVars, consumers, ln, serverHTTP, errChan, server, connected>>

\* MUTANT of RegisterNot: a flag in place of the sync.Once, so nobody waits.
RegisterNotWaiting(p, s) ==
  /\ starter[p].at = s /\ (s \in consumers => once[s] # "new")
  /\ Step(p, StepAfter[s])
  /\ UNCHANGED <<traceVars, consumers, once, ln, registered, serverHTTP, errChan, server, connected>>

\* There is no such consumer, or it is registered: errAlreadyStarted is no error.
RegisterNot(p, s) ==
  /\ starter[p].at = s /\ (s \in consumers => once[s] = "done")
  /\ Step(p, StepAfter[s])
  /\ UNCHANGED <<traceVars, consumers, once, ln, registered, serverHTTP, errChan, server, connected>>

\* startServer starts the main goroutine, unless there are no consumers.
StartServer(p) ==
  /\ consumers # {} /\ Enter(p, "server")
  /\ server' = [server EXCEPT !["main"] = "dial"]
  /\ UNCHANGED <<traceVars, consumers, ln, registered, serverHTTP, errChan, connected>>

StartServerNot(p) ==
  /\ starter[p].at = "server"
  /\ \/ consumers = {} /\ Return(p, "error")
     \/ consumers # {} /\ once["server"] = "done" /\ Return(p, "ok")
  /\ UNCHANGED <<traceVars, consumers, once, ln, registered, serverHTTP, errChan, server, connected>>

\* MUTANT of WindowEnds: Start waits for an error without a timer.
WindowEndsOnError(p) ==
  /\ starter[p].at = "window" /\ errChan = "full"
  /\ errChan' = "empty" /\ Return(p, "error")
  /\ once' = [once EXCEPT !["server"] = "done"]
  /\ UNCHANGED <<traceVars, consumers, ln, registered, serverHTTP, server, connected>>

\* The select: an error within a second fails Start, the timer lets it succeed.
WindowEnds(p) ==
  /\ starter[p].at = "window"
  /\ \/ errChan = "full" /\ errChan' = "empty" /\ Return(p, "error")
     \/ Return(p, "ok") /\ UNCHANGED errChan
  /\ once' = [once EXCEPT !["server"] = "done"]
  /\ UNCHANGED <<traceVars, consumers, ln, registered, serverHTTP, server, connected>>

-----------------------------------------------------------------------------
(* The goroutines *)

\* The gateway dials the endpoint, without waiting for it; then the servers share ln.
Dial ==
  /\ server["main"] = "dial"
  /\ \/ server' = [server EXCEPT !["main"] = "send"]
     \/ server' = [main |-> "accepting", grpc |-> "accepting", http |-> "starting"]
  /\ UNCHANGED <<traceVars, consumers, once, ln, registered, serverHTTP, errChan, starter, connected>>

\* httpServer() makes the server; Serve returns at once when it is closed already.
ServeHTTP ==
  /\ \/ /\ server["http"] = "starting"
        /\ serverHTTP' = IF serverHTTP = "none" THEN "created" ELSE serverHTTP
        /\ server' = [server EXCEPT !["http"] = "made"]
     \/ /\ server["http"] = "made"
        /\ server' = [server EXCEPT !["http"] = IF serverHTTP = "closed" THEN "send"
                                                ELSE "accepting"]
        /\ UNCHANGED serverHTTP
  /\ UNCHANGED <<traceVars, consumers, once, ln, registered, errChan, starter, connected>>

\* cmux accepts until ln is closed; the two servers until cmux has returned.
AcceptFails(g) ==
  /\ server[g] = "accepting"
  /\ \/ g = "main" /\ ln = "closed"
     \/ g # "main" /\ server["main"] # "accepting"
     \/ g = "http" /\ serverHTTP = "closed"
  /\ server' = [server EXCEPT ![g] = "send"]
  /\ UNCHANGED <<traceVars, consumers, once, ln, registered, serverHTTP, errChan, starter, connected>>

\* errChan <- err, blocked while the channel is full
SendError(g) ==
  /\ server[g] = "send" /\ errChan = "empty"
  /\ errChan' = "full"
  /\ server' = [server EXCEPT ![g] = "gone"]
  /\ UNCHANGED <<traceVars, consumers, once, ln, registered, serverHTTP, starter, connected>>

Connect ==
  /\ ln = "open" /\ ~connected
  /\ server["main"] = "accepting" /\ server["grpc"] = "accepting"
  /\ connected' = TRUE
  /\ UNCHANGED <<traceVars, consumers, once, ln, registered, serverHTTP, errChan, server, starter>>

\* MUTANT of Shutdown: the listener is left to the HTTP server.
ShutdownHTTP ==
  /\ once["stop"] = "new" /\ \E p \in Starter : starter[p].at # "idle"
  /\ once' = [once EXCEPT !["stop"] = "done"]
  /\ serverHTTP' = IF serverHTTP = "created" THEN "closed" ELSE serverHTTP
  /\ UNCHANGED <<traceVars, consumers, ln, registered, errChan, server, starter, connected>>

\* stop, under the mutex.  A second call does nothing.  The gRPC server is not stopped: the
\* calls on its connections go on.
Shutdown ==
  /\ once["stop"] = "new" /\ \E p \in Starter : starter[p].at # "idle"
  /\ once' = [once EXCEPT !["stop"] = "done"]
  /\ serverHTTP' = IF serverHTTP = "created" THEN "closed" ELSE serverHTTP
  /\ ln' = "closed"
  /\ UNCHANGED <<traceVars, consumers, registered, errChan, server, starter, connected>>

-----------------------------------------------------------------------------
Starting(p) ==
  \/ \E s \in Service : Register(p, s) \/ RegisterNot(p, s)
  \/ StartServer(p) \/ StartServerNot(p) \/ WindowEnds(p)

Serving == Dial \/ ServeHTTP \/ \E g \in {"main", "grpc", "http"} : AcceptFails(g) \/ SendError(g)

\* Export and ExportOne, of the clients that are connected
Calls ==
  /\ \E c \in Call : \/ connected /\ "trace" \in registered /\ Arrives(c)
                     \/ Proceeds(c) \/ Consumes(c) \/ Leave(c)
  /\ UNCHANGED serverVars

Next ==
  \/ New \/ (\E s \in Service : Create(s))
  \/ (\E p \in Starter : Start(p) \/ Starting(p))
  \/ Serving \/ Connect \/ Calls \/ Shutdown

\* Goroutines are scheduled, and the timer fires.
Fairness ==
  /\ \A p \in Starter : WF_vars(Starting(p))
  /\ WF_vars(Dial) /\ WF_vars(ServeHTTP)
  /\ \A g \in {"main", "grpc", "http"} : WF_vars(AcceptFails(g))

Spec == Init /\ [][Next]_vars /\ Fairness

-----------------------------------------------------------------------------
StarterState == [at : {"idle", "trace", "in trace", "metrics", "in metrics", "server", "window",
                       "returned"},
                 result : {"none", "ok", "error"}]

ServerTypeOK ==
  /\ consumers \subseteq Service /\ registered \subseteq consumers
  /\ once \in [Service \cup {"server", "stop"} -> {"new", "running", "done"}]
  /\ ln \in {"none", "open", "closed"} /\ serverHTTP \in {"none", "created", "closed"}
  /\ errChan \in {"empty", "full"} /\ connected \in BOOLEAN
  /\ server \in [{"main", "grpc", "http"} ->
                   {"absent", "dial", "starting", "made", "accepting", "send", "gone"}]
  /\ starter \in [Starter -> StarterState]

\* The types; a service that is registered has its consumer.
TypeOK == TraceTypeOK /\ ServerTypeOK

\* However the Starts of the pipelines interleave, all services are registered when the gRPC
\* server begins to serve: gRPC ends the process when one is registered later.
RegisteredBeforeServing ==
  server["main"] # "absent" => registered = consumers /\ \A s \in Service : once[s] # "running"

\* Every Start returns: the Start that waits for another one's sync.Once is never left
\* behind, whatever becomes of the servers.
StartReturns == \A p \in Starter : starter[p].at = "trace" ~> starter[p].at = "returned"

\* After Shutdown, at whatever point of Start it comes, nobody accepts connections for long;
\* not even a server that is made after Shutdown looked for it (opencensus.go:200).
ServingEnds ==
  once["stop"] = "done" ~>
    [](\A g \in {"main", "grpc", "http"} : server[g] \notin {"accepting", "made", "starting"})
=============================================================================
