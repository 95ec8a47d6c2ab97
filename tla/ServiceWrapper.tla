--------------------------- MODULE ServiceWrapper ---------------------------
(***************************************************************************)
(* pkg/service: HTTPService and GRPCService, the two service.Service       *)
(* values that the repository offers; `kind` says which one a behaviour is *)
(* about.  Start holds the lock until its 100 ms are over, the server ran  *)
(* into an error or its context has ended; Stop reads the flag under the   *)
(* lock, shuts the server down without it and takes it again to clear the  *)
(* flag.                                                                   *)
(*                                                                         *)
(* Start and Stop calls overlap in any way: Runner.Stop can call Stop      *)
(* while a monitor does the same or calls Start (runner.go:242, 257, 307). *)
(*                                                                         *)
(* net/http and grpc-go are external: a server binds and serves, may fail  *)
(* at any time, and stops taking requests when it is shut down.  Requests  *)
(* arrive, and end or do not.                                              *)
(***************************************************************************)
EXTENDS Naturals, FiniteSets

CONSTANTS
  StartCalls, StopCalls,
  Kinds,        \* the wrappers looked at
  NoCall

Calls == StartCalls \cup StopCalls

\* "grpc": NewGRPCService, which registers services or reflection when it starts;
\* "grpcServer": NewGRPCServiceWithServer, whose server comes with its services.
ASSUME KindsAssumption == Kinds \subseteq {"http", "grpc", "grpcServer"}

ASSUME CallsAreDistinct == NoCall \notin StartCalls /\ StartCalls \cap StopCalls = {}

VARIABLES
  kind,
  lock,     \* the Start call that holds s.mu
  started,  \* s.started
  server,   \* s.server, named after the Start call that used it last
  serve,    \* serve[i]: the goroutine of Start call i that listens and serves
  quit,     \* gRPC: Stop or GracefulStop was called on the server
  busy,     \* the Start calls whose server has requests in flight
  pc,       \* where each call is
  target,   \* the server that a Stop call read
  ended,    \* the Start calls whose context has ended
  disowned  \* history: servers whose flag the Stop of another server cleared

flagVars == <<lock, started, server>>
serverVars == <<serve, quit, busy>>
callVars == <<pc, target, ended, disowned>>
vars == <<kind, flagVars, serverVars, callVars>>

\* "draining": shut down; "stuck", and "broken" if it had failed: shut down by a
\* Stop that timed out.
ServeStates == {"none", "binding", "serving", "failed", "draining", "stuck", "broken"}
Over == {"idle", "started", "stopped", "failed", "exited"}

\* A gRPC server that was told to stop serves no listener any more.
Listening(i) == serve[i] = "serving" \/ (serve[i] = "binding" /\ ~quit)

TypeOK ==
  /\ kind \in Kinds
  /\ lock \in StartCalls \cup {NoCall}
  /\ started \in BOOLEAN
  /\ server \in StartCalls \cup {NoCall}
  /\ serve \in [StartCalls -> ServeStates]
  /\ quit \in BOOLEAN
  /\ busy \subseteq StartCalls
  /\ pc \in [Calls -> Over \cup {"starting", "stopping", "draining", "mark"}]
  /\ target \in [StopCalls -> StartCalls \cup {NoCall}]
  /\ ended \subseteq StartCalls
  /\ disowned \subseteq StartCalls

Init ==
  /\ kind \in Kinds
  /\ lock = NoCall /\ started = FALSE /\ server = NoCall
  /\ serve = [i \in StartCalls |-> "none"]
  /\ quit = FALSE /\ busy = {}
  /\ pc = [c \in Calls |-> "idle"]
  /\ target = [c \in StopCalls |-> NoCall]
  /\ ended = {} /\ disowned = {}

Idle(c) == pc[c] = "idle"
Free == lock = NoCall
Goes(c, where) == pc' = [pc EXCEPT ![c] = where]

\* The listeners of the server that Start call i made: a gRPC service has one
\* server for all its Start calls, an HTTP service one for each.
SameServer(i) == IF kind = "http" THEN {i} ELSE StartCalls

\* The listeners that close when the server of Start call i is shut down.  A gRPC
\* listener that Serve has not seen yet is turned away later.
Closed(i) == [j \in StartCalls |->
  IF j \in SameServer(i) /\ (serve[j] = "serving" \/ (serve[j] = "binding" /\ kind = "http"))
    THEN "draining" ELSE serve[j]]

\* What the shutdown of the server of Start call i leaves that ran out of time.
TimedOut(i) == [j \in StartCalls |->
  CASE j \in SameServer(i) /\ serve[j] = "draining" -> "stuck"
    [] j = i /\ serve[j] = "failed"                 -> "broken"
    [] OTHER                                        -> serve[j]]

-----------------------------------------------------------------------------
(* Start *)

StartRefused(c) ==
  /\ Idle(c) /\ Free /\ started
  /\ Goes(c, "failed")
  /\ UNCHANGED <<kind, flagVars, serverVars, target, ended, disowned>>

HTTPStart(c) ==
  /\ kind = "http" /\ Idle(c) /\ Free /\ ~started
  /\ lock' = c
  /\ server' = c
  /\ serve' = [serve EXCEPT ![c] = "binding"]
  /\ Goes(c, "starting")
  /\ UNCHANGED <<kind, started, quit, busy, target, ended, disowned>>

GRPCListenFails(c) ==
  /\ kind # "http" /\ Idle(c) /\ Free /\ ~started
  /\ Goes(c, "failed")
  /\ UNCHANGED <<kind, flagVars, serverVars, target, ended, disowned>>

\* Serve has been called on the server.
Served == \E j \in StartCalls : serve[j] \notin {"none", "binding"}

\* The server of an earlier Start is used again.
GRPCStart(c) ==
  /\ kind # "http" /\ Idle(c) /\ Free /\ ~started
  /\ kind = "grpc" => ~Served
  /\ lock' = c
  /\ server' = c
  /\ serve' = [serve EXCEPT ![c] = "binding"]
  /\ Goes(c, "starting")
  /\ UNCHANGED <<kind, started, quit, busy, target, ended, disowned>>

\* grpc-go ends the process when a service is registered after Serve.
GRPCExits(c) ==
  /\ kind = "grpc" /\ Idle(c) /\ Free /\ ~started
  /\ Served
  /\ pc' = [d \in Calls |-> "exited"]
  /\ server' = NoCall
  /\ serve' = [i \in StartCalls |-> "none"]
  /\ busy' = {}
  /\ UNCHANGED <<kind, lock, started, quit, target, ended, disowned>>

\* The context of a Start ends.  The HTTP requests of its server run under it
\* (BaseContext): RequestEnds may be its doing.
ContextEnds(c) ==
  /\ pc[c] \in {"starting", "started"} /\ c \notin ended
  /\ ended' = ended \cup {c}
  /\ UNCHANGED <<kind, flagVars, serverVars, pc, target, disowned>>

\* The address is taken by an earlier server or by another program.
HTTPListen(i) ==
  /\ kind = "http" /\ serve[i] = "binding"
  /\ \/ /\ \A j \in StartCalls : serve[j] # "serving"
        /\ serve' = [serve EXCEPT ![i] = "serving"]
     \/ serve' = [serve EXCEPT ![i] = "failed"]
  /\ UNCHANGED <<kind, flagVars, quit, busy, callVars>>

\* A server that was stopped refuses to serve again.
GRPCServe(i) ==
  /\ kind # "http" /\ serve[i] = "binding"
  /\ serve' = [serve EXCEPT ![i] = IF quit THEN "failed" ELSE "serving"]
  /\ UNCHANGED <<kind, flagVars, quit, busy, callVars>>

ServeFails(i) ==
  /\ serve[i] = "serving"
  /\ serve' = [serve EXCEPT ![i] = "failed"]
  /\ UNCHANGED <<kind, flagVars, quit, busy, callVars>>

StartFails(c) ==
  /\ pc[c] = "starting" /\ serve[c] = "failed"
  /\ lock' = NoCall
  /\ Goes(c, "failed")
  /\ UNCHANGED <<kind, started, server, serverVars, target, ended, disowned>>

\* The 100 ms are over, whatever has become of the server; an error that comes
\* later stays in errChan.
StartSucceeds(c) ==
  /\ pc[c] = "starting"
  /\ started' = TRUE
  /\ lock' = NoCall
  /\ Goes(c, "started")
  /\ UNCHANGED <<kind, server, serverVars, target, ended, disowned>>

\* The server goes on, and Stop will not touch it.
HTTPStartCancelled(c) ==
  /\ kind = "http" /\ pc[c] = "starting" /\ c \in ended
  /\ lock' = NoCall
  /\ Goes(c, "failed")
  /\ UNCHANGED <<kind, started, server, serverVars, target, ended, disowned>>

ListenerStays(c) ==   \* mutant: returns ctx.Err() without server.Stop()
  /\ kind # "http" /\ pc[c] = "starting" /\ c \in ended
  /\ lock' = NoCall
  /\ Goes(c, "failed")
  /\ UNCHANGED <<kind, started, server, serverVars, target, ended, disowned>>

\* grpc-go: Stop closes the listeners and the connections.
GRPCStartCancelled(c) ==
  /\ kind # "http" /\ pc[c] = "starting" /\ c \in ended
  /\ serve' = Closed(c)
  /\ quit' = TRUE
  /\ busy' = busy \ SameServer(c)
  /\ lock' = NoCall
  /\ Goes(c, "failed")
  /\ UNCHANGED <<kind, started, server, target, ended, disowned>>

-----------------------------------------------------------------------------
(* Stop *)

StopNotStarted(c) ==
  /\ Idle(c) /\ Free /\ (~started \/ server = NoCall)
  /\ Goes(c, "stopped")
  /\ UNCHANGED <<kind, flagVars, serverVars, target, ended, disowned>>

StopBegin(c) ==
  /\ Idle(c) /\ Free /\ started /\ server # NoCall
  /\ target' = [target EXCEPT ![c] = server]
  /\ Goes(c, "stopping")
  /\ UNCHANGED <<kind, flagVars, serverVars, ended, disowned>>

\* Shutdown and GracefulStop close the listeners first.
StopListening(c) ==
  /\ pc[c] = "stopping"
  /\ serve' = Closed(target[c])
  /\ quit' = (kind # "http")
  /\ Goes(c, "draining")
  /\ UNCHANGED <<kind, flagVars, busy, target, ended, disowned>>

Idling(c) == busy \cap SameServer(target[c]) = {}

NotDrained(c) ==   \* mutant: does not wait for the requests
  /\ pc[c] = "draining"
  /\ Goes(c, "mark")
  /\ UNCHANGED <<kind, flagVars, serverVars, target, ended, disowned>>
StopDrained(c) ==
  /\ pc[c] = "draining" /\ Idling(c)
  /\ Goes(c, "mark")
  /\ UNCHANGED <<kind, flagVars, serverVars, target, ended, disowned>>

NoDefaultTimeout(c) ==   \* mutant: a context without a deadline gets none
  /\ kind = "http" /\ pc[c] = "draining" /\ Idling(c)
  /\ Goes(c, "failed")
  /\ UNCHANGED <<kind, flagVars, serverVars, target, ended, disowned>>
HTTPStopTimesOut(c) ==
  /\ kind = "http" /\ pc[c] = "draining" /\ ~Idling(c)
  /\ serve' = TimedOut(target[c])
  /\ Goes(c, "failed")
  /\ UNCHANGED <<kind, flagVars, quit, busy, target, ended, disowned>>

\* The requests that were still running are aborted.
GRPCStopTimesOut(c) ==
  /\ kind # "http" /\ pc[c] = "draining"
  /\ serve' = TimedOut(target[c])
  /\ busy' = busy \ SameServer(target[c])
  /\ Goes(c, "failed")
  /\ UNCHANGED <<kind, flagVars, quit, target, ended, disowned>>

\* The flag may be that of a server that a Start has made since.
StopMark(c) ==
  /\ pc[c] = "mark" /\ Free
  /\ started' = FALSE
  /\ disowned' = IF started /\ server # target[c] THEN disowned \cup {server} ELSE disowned
  /\ Goes(c, "stopped")
  /\ UNCHANGED <<kind, lock, server, serverVars, target, ended>>

\* Health of both wrappers: it takes the lock.
HealthErr == ~started

-----------------------------------------------------------------------------
(* Requests *)

RequestArrives(i) ==
  /\ serve[i] = "serving" /\ i \notin busy
  /\ busy' = busy \cup {i}
  /\ UNCHANGED <<kind, flagVars, serve, quit, callVars>>

RequestEnds(i) ==
  /\ i \in busy
  /\ busy' = busy \ {i}
  /\ UNCHANGED <<kind, flagVars, serve, quit, callVars>>

StartStep(c) ==
  \/ StartFails(c) \/ StartSucceeds(c) \/ HTTPStartCancelled(c) \/ GRPCStartCancelled(c)

StopStep(c) ==
  \/ StopListening(c) \/ StopDrained(c) \/ HTTPStopTimesOut(c) \/ GRPCStopTimesOut(c) \/ StopMark(c)

Next ==
  \/ \E c \in StartCalls :
       \/ StartRefused(c) \/ HTTPStart(c) \/ GRPCListenFails(c) \/ GRPCStart(c) \/ GRPCExits(c)
       \/ StartStep(c) \/ ContextEnds(c)
       \/ HTTPListen(c) \/ GRPCServe(c) \/ ServeFails(c) \/ RequestArrives(c) \/ RequestEnds(c)
  \/ \E c \in StopCalls : StopNotStarted(c) \/ StopBegin(c) \/ StopStep(c)

\* Calls go on: 100 ms pass, and a Stop has a deadline.  No request has to end.
Fairness ==
  /\ \A c \in StartCalls : WF_vars(StartStep(c))
  /\ \A c \in StopCalls : WF_vars(StopStep(c))

Spec == Init /\ [][Next]_vars /\ Fairness

-----------------------------------------------------------------------------
(* What callers may rely on *)

\* HTTPStartCancelled leaves a server that no call can reach, and so does a Stop
\* whose server another Stop has stopped already and a Start has replaced.
Abandoned(i) == kind = "http" /\ pc[i] = "failed" /\ Listening(i)
Lost(i) == Abandoned(i) \/ i \in disowned

\* The state that the runner sees: while a Start is under way the service is
\* still down, and a server that listens without being started is "leaked".
Instance ==
  CASE lock # NoCall -> "down"
    [] lock = NoCall /\ ~started ->
         IF \E i \in StartCalls : Listening(i) /\ ~Lost(i) THEN "leaked" ELSE "down"
    [] lock = NoCall /\ started ->
         CASE serve[server] = "failed" -> "sick"
           [] serve[server] \in {"stuck", "broken"} -> serve[server]
           [] OTHER                    -> "up"

Contract == INSTANCE ServiceContract WITH instance <- Instance

\* However Start and Stop calls overlap, both wrappers implement what the runner
\* relies on: Start and Stop that return an error leave no server behind that
\* nobody can stop, and a Stop that returns nil leaves none at all
\* (http.go:88-154, grpc.go:103-195), with the two exceptions of Lost.
ImplementsContract == Contract!Spec

\* "Stop gracefully stops the service" (service.go:32): when no call is under
\* way and the service is not started, no server of it listens, save for a Start
\* that was cancelled.
StoppedIsDown ==
  Free /\ ~started /\ (\A c \in Calls : pc[c] \in Over) =>
    \A i \in StartCalls : Listening(i) => Abandoned(i)

\* A Stop that found a server and returns nil has let its last request end,
\* whatever other Stop calls did (http.go:145, grpc.go:176-183).
StopDrains ==
  [][\A c \in StopCalls : pc[c] = "mark" /\ pc'[c] = "stopped" => Idling(c)]_vars

\* Every Start and every Stop returns, though requests never end and callers
\* give no deadline (http.go:114-123, 138-143; grpc.go:142-152, 167-172), or the
\* process is gone (GRPCExits).
CallsReturn ==
  \A c \in Calls : pc[c] \notin Over ~> pc[c] \in Over

\* "Health checks if the HTTP server is running.  Returns nil if healthy, error
\* if not running" (http.go:161-162).
HealthTellsServing ==
  kind = "http" /\ Free /\ (\A c \in Calls : pc[c] \in Over) /\ ~HealthErr =>
    Listening(server)
=============================================================================
