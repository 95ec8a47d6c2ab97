------------------------------ MODULE Process ------------------------------
(***************************************************************************)
(* A whole process, from start to exit: what it opens, in which order, and *)
(* how it takes it down again.  Two programs are looked at: "full" is      *)
(* examples/full/main.go, with one defer per resource; "bootstrap" is the  *)
(* program that the package documentation of pkg/service describes, with   *)
(* NewBootstrap, AddCleanup, two services, WaitForShutdown and Cleanup.    *)
(*                                                                         *)
(* Requests run while the servers do: each holds a database connection for *)
(* its query, then writes to the cache, then writes its answer to a client *)
(* that may be slow for ever.  A signal may come at any time.              *)
(***************************************************************************)
EXTENDS Naturals, Sequences, FiniteSets

CONSTANTS
  Programs,  \* a subset of {"full", "bootstrap"}
  Requests

ASSUME ProgramsAssumption == Programs \subseteq {"full", "bootstrap"}

\* What each program opens, in order, and the servers that it stops.
Steps(p) ==
  IF p = "full" THEN <<"tracer", "metrics", "db", "cache", "bus", "http", "ws">>
                ELSE <<"metrics", "tracer", "db", "cache">>
Servers(p) == IF p = "full" THEN <<"api">> ELSE <<"api", "rpc">>

\* The full example goes on without its clients, and never shuts the metrics
\* server down.
Optional(p) == IF p = "full" THEN {"http", "ws"} ELSE {}
NoCleanup(p) == IF p = "full" THEN {"metrics"} ELSE {}

VARIABLES
  program,
  phase,     \* where main is
  at,        \* the next step or server
  open,      \* what is open
  cleanups,  \* the deferred functions or b.cleanup
  serving,   \* the servers that take requests
  metrics,   \* the metrics server, which runs in a goroutine of its own
  reader,    \* handleMessages of the websocket client waits for a message
  expired,   \* the shutdown context has ended
  request,   \* where each request is
  exit       \* how the process ended

processVars == <<program, phase, at, open, cleanups, serving, metrics, reader, expired, request, exit>>

Resources == {"tracer", "metrics", "db", "cache", "bus", "http", "ws"}
RequestStates == {"none", "query", "cache", "answer", "done"}

ProcessTypeOK ==
  /\ program \in Programs
  /\ phase \in {"open", "serve", "wait", "stop", "cleanup", "over"}
  /\ at \in 1 .. 8
  /\ open \subseteq Resources
  /\ cleanups \in Seq(Resources)
  /\ serving \subseteq {"api", "rpc"}
  /\ metrics \in {"none", "up", "failed", "closed"}
  /\ reader \in BOOLEAN /\ expired \in BOOLEAN
  /\ request \in [Requests -> RequestStates]
  /\ exit \in {"none", "returned", "fatal", "killed"}

ProcessInit ==
  /\ program \in Programs
  /\ phase = "open" /\ at = 1
  /\ open = {} /\ cleanups = <<>> /\ serving = {}
  /\ metrics = "none"
  /\ reader = FALSE /\ expired = FALSE
  /\ request = [r \in Requests |-> "none"]
  /\ exit = "none"

Running == exit = "none"

-----------------------------------------------------------------------------
(* Starting *)

Step == Steps(program)[at]

\* defer or AddCleanup
Remembers(s) == cleanups' = IF s \in NoCleanup(program) THEN cleanups ELSE Append(cleanups, s)

Opening == Running /\ phase = "open" /\ at <= Len(Steps(program))

OpenStep ==
  /\ Opening /\ Step \notin {"metrics", "tracer"}
  /\ open' = open \cup {Step}
  /\ Remembers(Step)
  /\ at' = at + 1
  /\ UNCHANGED <<program, phase, serving, metrics, reader, expired, request, exit>>

\* NewTracerProvider with tracing enabled: a resource, an exporter and a batch
\* processor, which become the global provider.
OpenTracer ==
  /\ Opening /\ Step = "tracer"
  /\ open' = open \cup {"tracer"}
  /\ Remembers("tracer")
  /\ at' = at + 1
  /\ UNCHANGED <<program, phase, serving, metrics, reader, expired, request, exit>>

\* metrics.Init starts the server in the background and reports no error.
InitMetrics ==
  /\ Opening /\ Step = "metrics"
  /\ metrics' = "up"
  /\ open' = open \cup {"metrics"}
  /\ Remembers("metrics")
  /\ at' = at + 1
  /\ UNCHANGED <<program, phase, serving, reader, expired, request, exit>>

MetricsServerFails ==
  /\ Running /\ metrics = "up"
  /\ metrics' = "failed"
  /\ UNCHANGED <<program, phase, at, open, cleanups, serving, reader, expired, request, exit>>

\* The full example only warns, or it is not configured to have a client.
OpenSkipped ==
  /\ Opening /\ Step \in Optional(program)
  /\ at' = at + 1
  /\ UNCHANGED <<program, phase, open, cleanups, serving, metrics, reader, expired, request, exit>>

Exits(how) == exit' = how /\ phase' = "over"

\* log.Fatal ends the process without running what is deferred.
OpenFatal ==
  /\ Opening /\ Step \notin Optional(program) \cup {"metrics"}
  /\ program = "bootstrap" => Step # "tracer"
  /\ Exits("fatal")
  /\ UNCHANGED <<program, at, open, cleanups, serving, metrics, reader, expired, request>>

\* NewBootstrap cleans up what it has opened before it returns the error, on
\* which its caller ends.
BootstrapFails ==
  /\ Opening /\ program = "bootstrap" /\ Step = "tracer"
  /\ phase' = "cleanup"
  /\ UNCHANGED <<program, at, open, cleanups, serving, metrics, reader, expired, request, exit>>

Opened ==
  /\ Running /\ phase = "open" /\ at > Len(Steps(program))
  /\ phase' = "serve"
  /\ at' = 1
  /\ UNCHANGED <<program, open, cleanups, serving, metrics, reader, expired, request, exit>>

StartServer ==
  /\ Running /\ phase = "serve" /\ at <= Len(Servers(program))
  /\ serving' = serving \cup {Servers(program)[at]}
  /\ at' = at + 1
  /\ UNCHANGED <<program, phase, open, cleanups, metrics, reader, expired, request, exit>>

\* A schema, a subscription or a Start that fails; the full example also ends
\* when its server fails at any later time.
ServeFatal ==
  /\ Running
  /\ \/ phase = "serve"
     \/ (program = "full" /\ phase = "wait" /\ serving # {})
  /\ Exits("fatal")
  /\ UNCHANGED <<program, at, open, cleanups, serving, metrics, reader, expired, request>>

\* The full example has shown what its components can do before; if its websocket
\* client could connect, that has left a reader behind.
WaitForSignal ==
  /\ Running /\ phase = "serve" /\ at > Len(Servers(program))
  /\ phase' = "wait"
  /\ reader' \in BOOLEAN /\ (reader' => "ws" \in open)
  /\ UNCHANGED <<program, at, open, cleanups, serving, metrics, expired, request, exit>>

\* A read error ends the reader, and so does a message once its context has ended.
\* While the peer only answers pings, neither comes.
ReaderReturns ==
  /\ Running /\ reader
  /\ reader' = FALSE
  /\ UNCHANGED <<program, phase, at, open, cleanups, serving, metrics, expired, request, exit>>

-----------------------------------------------------------------------------
(* Shutting down *)

\* signal.Notify is in force from `wait` on; in the full example for ever, in
\* WaitForShutdown until the first signal.
Caught == phase \in IF program = "full" THEN {"wait", "stop", "cleanup"} ELSE {"wait"}

SignalKills ==
  /\ Running /\ ~Caught
  /\ Exits("killed")
  /\ UNCHANGED <<program, at, open, cleanups, serving, metrics, reader, expired, request>>

SignalShutsDown ==
  /\ Running /\ phase = "wait"
  /\ phase' = "stop"
  /\ at' = 1
  /\ UNCHANGED <<program, open, cleanups, serving, metrics, reader, expired, request, exit>>

NeverTimesOut == FALSE /\ UNCHANGED processVars   \* mutant: context.Background() for the shutdown
ShutdownTimesOut ==
  /\ Running /\ phase = "stop" /\ ~expired
  /\ expired' = TRUE
  /\ UNCHANGED <<program, phase, at, open, cleanups, serving, metrics, reader, request, exit>>

InFlight == {r \in Requests : request[r] \notin {"none", "done"}}

\* Stop closes the listener at once ...
StopAccepting ==
  /\ Running /\ phase = "stop" /\ at <= Len(Servers(program))
  /\ Servers(program)[at] \in serving
  /\ serving' = serving \ {Servers(program)[at]}
  /\ UNCHANGED <<program, phase, at, open, cleanups, metrics, reader, expired, request, exit>>

\* ... and waits for its requests, or for the context that all servers share.
StopDoesNotWait ==   \* mutant: Close instead of Shutdown
  /\ Running /\ phase = "stop" /\ at <= Len(Servers(program))
  /\ Servers(program)[at] \notin serving
  /\ at' = at + 1
  /\ UNCHANGED <<program, phase, open, cleanups, serving, metrics, reader, expired, request, exit>>
StopReturns ==
  /\ Running /\ phase = "stop" /\ at <= Len(Servers(program))
  /\ Servers(program)[at] \notin serving
  /\ InFlight = {} \/ expired
  /\ at' = at + 1
  /\ UNCHANGED <<program, phase, open, cleanups, serving, metrics, reader, expired, request, exit>>

AllStopped ==
  /\ Running /\ phase = "stop" /\ at > Len(Servers(program))
  /\ phase' = "cleanup"
  /\ UNCHANGED <<program, at, open, cleanups, serving, metrics, reader, expired, request, exit>>

\* The function to run next, and what is left to run.
FirstCleanup == cleanups[1]   \* mutant: in the order of registration
NextCleanup == cleanups[Len(cleanups)]
Remaining   == SubSeq(cleanups, 1, Len(cleanups) - 1)

\* pgxpool's Close waits for the connections that are in use, and the websocket
\* client's for its reader; neither has a deadline.
CanClose(s) ==
  /\ s = "db" => \A r \in Requests : request[r] # "query"
  /\ s = "ws" => ~reader

Cleaning == Running /\ phase = "cleanup" /\ cleanups # <<>>

\* An error of a cleanup function is logged, and the next one runs.
CleanupNext ==
  /\ Cleaning /\ NextCleanup # "metrics"
  /\ CanClose(NextCleanup)
  /\ open' = open \ {NextCleanup}
  /\ cleanups' = Remaining
  /\ UNCHANGED <<program, phase, at, serving, metrics, reader, expired, request, exit>>

\* metrics.Shutdown: the server closes also when its listener had failed.
ShutdownMetrics ==
  /\ Cleaning /\ NextCleanup = "metrics"
  /\ open' = open \ {"metrics"}
  /\ metrics' = "closed"
  /\ cleanups' = Remaining
  /\ UNCHANGED <<program, phase, at, serving, reader, expired, request, exit>>

Return ==
  /\ Running /\ phase = "cleanup" /\ cleanups = <<>>
  /\ Exits("returned")
  /\ UNCHANGED <<program, at, open, cleanups, serving, metrics, reader, expired, request>>

-----------------------------------------------------------------------------
(* Requests: handleExample *)

RequestBegins(r) ==
  /\ Running /\ request[r] = "none" /\ serving # {}
  /\ request' = [request EXCEPT ![r] = "query"]
  /\ UNCHANGED <<program, phase, at, open, cleanups, serving, metrics, reader, expired, exit>>

\* A query that fails is answered at once; a cache that fails is only logged.
QueryEnds(r) ==
  /\ Running /\ request[r] = "query"
  /\ \E next \in {"cache", "answer"} : request' = [request EXCEPT ![r] = next]
  /\ UNCHANGED <<program, phase, at, open, cleanups, serving, metrics, reader, expired, exit>>

CacheSet(r) ==
  /\ Running /\ request[r] = "cache"
  /\ request' = [request EXCEPT ![r] = "answer"]
  /\ UNCHANGED <<program, phase, at, open, cleanups, serving, metrics, reader, expired, exit>>

AnswerWritten(r) ==
  /\ Running /\ request[r] = "answer"
  /\ request' = [request EXCEPT ![r] = "done"]
  /\ UNCHANGED <<program, phase, at, open, cleanups, serving, metrics, reader, expired, exit>>

MainStep ==
  \/ OpenStep \/ OpenTracer \/ InitMetrics \/ OpenSkipped \/ OpenFatal \/ BootstrapFails \/ Opened
  \/ StartServer \/ ServeFatal \/ WaitForSignal
  \/ StopAccepting \/ StopReturns \/ AllStopped \/ CleanupNext \/ ShutdownMetrics \/ Return

ProcessNext ==
  \/ MainStep \/ MetricsServerFails \/ ReaderReturns
  \/ SignalKills \/ SignalShutsDown \/ ShutdownTimesOut
  \/ \E r \in Requests : RequestBegins(r) \/ QueryEnds(r) \/ CacheSet(r) \/ AnswerWritten(r)

\* Main goes on, timeouts run out, the database answers; no client has to read,
\* and the peer of the websocket need not send anything.
ProcessFairness ==
  /\ WF_processVars(MainStep)
  /\ WF_processVars(ShutdownTimesOut)
  /\ \A r \in Requests : WF_processVars(QueryEnds(r))

ProcessSpec == ProcessInit /\ [][ProcessNext]_processVars /\ ProcessFairness

-----------------------------------------------------------------------------
(* What the order is for *)

\* Until a shutdown runs out of time, nothing that a request still needs is
\* closed: the database and the cache outlive the servers, and what a query
\* holds is never closed under it (main.go:230-238, shutdown.go:77-87,
\* bootstrap.go:142-151).
RequestsKeepResources ==
  \A r \in Requests :
    /\ request[r] = "query" => "db" \in open
    /\ request[r] \in {"query", "cache"} /\ ~expired => "cache" \in open

\* Whatever is open, all that was opened before it is open too, so that a
\* component never outlives one it reports to or depends on: at start, after a
\* failure in the middle, and half way through the shutdown (bootstrap.go:79-134,
\* 142-151; main.go:85-160).
OpenInOrder ==
  \A i, j \in 1 .. Len(Steps(program)) :
    /\ i < j /\ Steps(program)[j] \in open /\ Steps(program)[j] \notin NoCleanup(program)
    /\ Steps(program)[i] \notin Optional(program)
    => Steps(program)[i] \in open

\* A process that was told to stop exits, whatever clients do, unless it comes
\* to wait for the reader of its websocket client (main.go:230, shutdown.go:77,
\* client.go:131-133).
ShutdownEnds ==
  phase = "stop" ~> exit # "none" \/ (Cleaning /\ NextCleanup = "ws" /\ reader)

\* "Graceful shutdown with timeout" (main.go:229).
EveryShutdownEnds == phase = "stop" ~> exit # "none"

\* "The returned ShutdownFunc must be called to flush pending spans before
\* process termination" (tracer.go:46).
SpansFlushed == exit \in {"returned", "fatal"} => "tracer" \notin open
=============================================================================
