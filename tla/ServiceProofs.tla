---------------------------- MODULE ServiceProofs ----------------------------
(***************************************************************************)
(* Properties of pkg/service.  ServiceWrapper implements ServiceContract,  *)
(* for any number of Start and Stop calls and however they overlap.  The   *)
(* step from "not started" to "down" needs the invariant that whatever     *)
(* listens is the current server of a service that is started or starting, *)
(* or is lost to its callers in one of the two known ways; and that the    *)
(* server of a Stop that drains listens no more.  A process takes away     *)
(* nothing that a request in time needs, for both programs and any number  *)
(* of requests.                                                            *)
(***************************************************************************)
EXTENDS ServiceWrapper, Process, SequenceTheorems, TLAPS

Shape ==
  /\ kind \in {"http", "grpc", "grpcServer"}
  /\ lock \in StartCalls \cup {NoCall}
  /\ started \in BOOLEAN
  /\ server \in StartCalls \cup {NoCall}
  /\ serve \in [StartCalls -> ServeStates]
  /\ quit \in BOOLEAN
  /\ pc \in [Calls -> Over \cup {"starting", "stopping", "draining", "mark"}]
  /\ target \in [StopCalls -> StartCalls \cup {NoCall}]

\* Only the call that holds the lock is starting, and its server is fresh.
StartInv ==
  /\ \A c \in StartCalls : pc[c] = "starting" <=> lock = c
  /\ lock # NoCall =>
       /\ ~started /\ server = lock
       /\ serve[lock] \in {"binding", "serving", "failed"}

\* A Stop under way is about a server that was started, which listens no more
\* once it drains; a gRPC server was told to stop by then, and also when another
\* Stop has cleared the flag that this one read.
StopInv ==
  \A z \in StopCalls :
    /\ pc[z] \notin Over => /\ target[z] \in StartCalls
                            /\ pc[target[z]] \notin {"idle", "starting"}
                            /\ kind = "http" \/ quit \/ started
    /\ pc[z] \in {"draining", "mark"} => ~Listening(target[z]) /\ (kind = "http" \/ quit)

\* Only a gRPC server is told to stop for good, and it serves nobody after that.
QuitInv == quit => kind # "http" /\ \A i \in StartCalls : serve[i] # "serving"

\* What listens can be reached, or is lost.
ListenInv ==
  /\ \A i \in StartCalls :
       Listening(i) => Lost(i) \/ (i = server /\ (started \/ lock = server))
  /\ started => server \in StartCalls /\ pc[server] \notin {"idle", "starting"}

IInv == Shape /\ StartInv /\ StopInv /\ QuitInv /\ ListenInv

LEMMA InitIInv == Init => IInv
<1> SUFFICES ASSUME Init PROVE IInv
  OBVIOUS
<1>1. Shape
  BY KindsAssumption DEF Init, Shape, Over, ServeStates
<1>2. StartInv
  BY CallsAreDistinct DEF Init, StartInv, Calls
<1>3. StopInv
  BY DEF Init, StopInv, Over, Calls
<1>4. ListenInv
  BY CallsAreDistinct DEF Init, ListenInv, Listening
<1>5. QuitInv
  BY DEF Init, QuitInv
<1> QED
  BY <1>1, <1>2, <1>3, <1>4, <1>5 DEF IInv

\* A Start begins: the lock is free and the flag is not set.
LEMMA StartBeginKeeps ==
  ASSUME IInv, NEW c \in StartCalls, HTTPStart(c) \/ GRPCStart(c)
  PROVE  IInv'
<1>1. /\ lock = NoCall /\ ~started /\ lock' = c /\ server' = c
      /\ serve' = [serve EXCEPT ![c] = "binding"]
      /\ pc' = [pc EXCEPT ![c] = "starting"]
      /\ pc[c] = "idle" /\ UNCHANGED <<kind, started, quit, target, disowned>>
  BY DEF HTTPStart, GRPCStart, Free, Goes, Idle
<1>2. c \in Calls /\ c # NoCall /\ c \notin StopCalls
  BY CallsAreDistinct DEF Calls
<1>3. Shape'
  BY <1>1, <1>2 DEF IInv, Shape, ServeStates
<1>4. StartInv'
  BY <1>1, <1>2, CallsAreDistinct DEF IInv, Shape, StartInv, Calls
<1>5. StopInv'
  <2> SUFFICES ASSUME NEW z \in StopCalls, pc'[z] \notin Over
               PROVE  /\ target'[z] \in StartCalls
                      /\ pc'[target'[z]] \notin {"idle", "starting"}
                      /\ kind' = "http" \/ quit' \/ started'
                      /\ pc'[z] \in {"draining", "mark"} =>
                           ~Listening(target[z])' /\ (kind' = "http" \/ quit')
    BY <1>1 DEF StopInv, Over
  <2>1. z # c /\ pc'[z] = pc[z] /\ target'[z] = target[z]
    BY <1>1, <1>2 DEF IInv, Shape, Calls
  <2>2. /\ target[z] \in StartCalls /\ pc[target[z]] \notin {"idle", "starting"}
        /\ kind = "http" \/ quit \/ started
        /\ pc[z] \in {"draining", "mark"} => ~Listening(target[z]) /\ (kind = "http" \/ quit)
    BY <2>1 DEF IInv, StopInv
  <2>3. target[z] # c /\ target[z] \in Calls
    BY <1>1, <2>2 DEF Calls
  <2>4. pc'[target[z]] = pc[target[z]] /\ serve'[target[z]] = serve[target[z]]
    BY <1>1, <2>2, <2>3 DEF IInv, Shape
  <2> QED
    BY <1>1, <2>1, <2>2, <2>4 DEF Listening
<1>6. ListenInv'
  <2>1. ASSUME NEW i \in StartCalls, i # c, Listening(i)'
        PROVE  Lost(i)'
    <3>1. Listening(i) /\ pc'[i] = pc[i] /\ i \in Calls
      BY <1>1, <1>2, <2>1 DEF IInv, Shape, Listening, Calls
    <3>2. Lost(i)
      BY <1>1, <3>1, CallsAreDistinct DEF IInv, ListenInv
    <3> QED
      BY <1>1, <2>1, <3>1, <3>2 DEF Lost, Abandoned
  <2> QED
    BY <1>1, <1>2, <2>1 DEF ListenInv
<1>7. QuitInv'
  BY <1>1, <1>2 DEF IInv, Shape, QuitInv
<1> QED
  BY <1>3, <1>4, <1>5, <1>6, <1>7 DEF IInv

\* A gRPC server of which nothing serves any more.
LEMMA ClosedServesNobody ==
  ASSUME IInv, kind # "http", NEW i \in StartCalls
  PROVE  \A j \in StartCalls : Closed(i)[j] # "serving"
BY DEF Closed, SameServer

LEMMA ClosedFacts ==
  ASSUME IInv, NEW i \in StartCalls
  PROVE  /\ Closed(i) \in [StartCalls -> ServeStates]
         /\ \A j \in StartCalls :
              Closed(i)[j] = serve[j] \/ (Closed(i)[j] = "draining" /\ serve[j] \in {"serving", "binding"})
BY DEF Closed, IInv, Shape, ServeStates

\* A Start that ends gives the lock back.
LEMMA StartEndsKeeps ==
  ASSUME IInv, NEW c \in StartCalls, StartStep(c)
  PROVE  IInv'
<1>1. /\ pc[c] = "starting" /\ lock' = NoCall /\ UNCHANGED <<kind, server, target, disowned>>
      /\ \E where \in {"failed", "started"} : pc' = [pc EXCEPT ![c] = where]
  BY DEF StartStep, StartFails, StartSucceeds, HTTPStartCancelled, GRPCStartCancelled, Goes
<1>2. lock = c /\ server = c /\ ~started /\ c # NoCall /\ c \in Calls /\ c \notin StopCalls
      /\ serve[c] \in {"binding", "serving", "failed"}
  BY <1>1, CallsAreDistinct DEF IInv, StartInv, Calls
<1>3. \A z \in StopCalls : pc'[z] = pc[z]
  BY <1>1, <1>2 DEF IInv, Shape, Calls
<1>4. \A i \in StartCalls \ {c} : pc'[i] = pc[i] /\ pc[i] # "starting"
  BY <1>1, <1>2 DEF IInv, Shape, StartInv, Calls
<1>5. pc'[c] \in {"failed", "started"}
  BY <1>1, <1>2 DEF IInv, Shape
\* Only the one that shuts the server down changes what listens.
<1>6. \/ UNCHANGED <<serve, quit>>
      \/ kind # "http" /\ serve' = Closed(c) /\ quit'
  BY DEF StartStep, StartFails, StartSucceeds, HTTPStartCancelled, GRPCStartCancelled, serverVars
<1>7. /\ serve' \in [StartCalls -> ServeStates] /\ quit' \in BOOLEAN /\ started' \in BOOLEAN
      /\ \A i \in StartCalls : Listening(i)' => Listening(i)
      /\ quit => quit'
  <2>1. started' \in BOOLEAN
    BY DEF StartStep, StartFails, StartSucceeds, HTTPStartCancelled, GRPCStartCancelled, IInv, Shape
  <2>2. CASE UNCHANGED <<serve, quit>>
    BY <2>1, <2>2 DEF IInv, Shape, Listening
  <2>3. CASE kind # "http" /\ serve' = Closed(c) /\ quit'
    BY <2>1, <2>3, ClosedServesNobody, ClosedFacts DEF Listening
  <2> QED
    BY <1>6, <2>2, <2>3
<1>8. Shape'
  BY <1>1, <1>2, <1>7 DEF IInv, Shape, Over
<1>9. StartInv'
  BY <1>1, <1>2, <1>4, <1>5, CallsAreDistinct DEF StartInv
<1>10. StopInv'
  <2> SUFFICES ASSUME NEW z \in StopCalls, pc'[z] \notin Over
               PROVE  /\ target[z] \in StartCalls
                      /\ pc'[target[z]] \notin {"idle", "starting"}
                      /\ kind = "http" \/ quit'
                      /\ pc'[z] \in {"draining", "mark"} =>
                           ~Listening(target[z])' /\ (kind = "http" \/ quit')
    BY <1>1 DEF StopInv, Over
  <2>1. /\ pc'[z] = pc[z]
        /\ target[z] \in StartCalls /\ pc[target[z]] \notin {"idle", "starting"}
        /\ kind = "http" \/ quit
        /\ pc[z] \in {"draining", "mark"} => ~Listening(target[z]) /\ (kind = "http" \/ quit)
    BY <1>2, <1>3 DEF IInv, StopInv
  <2>2. target[z] # c
    BY <1>1, <2>1
  <2> QED
    BY <1>1, <1>4, <1>7, <2>1, <2>2 DEF Listening
<1>11. QuitInv'
  BY <1>1, <1>6, ClosedServesNobody DEF IInv, QuitInv
<1>12. ListenInv'
  <2>1. ASSUME NEW i \in StartCalls, i # c, Listening(i)'
        PROVE  Lost(i)'
    BY <1>1, <1>2, <1>4, <1>7, <2>1 DEF IInv, ListenInv, Lost, Abandoned
  <2>2. Listening(c)' => Lost(c)' \/ started'
    <3>1. CASE StartFails(c)
      BY <3>1 DEF StartFails, Listening, serverVars
    <3>2. CASE StartSucceeds(c)
      BY <3>2 DEF StartSucceeds
    <3>3. CASE HTTPStartCancelled(c)
      BY <1>2, <3>3 DEF HTTPStartCancelled, Lost, Abandoned, Goes, IInv, Shape
    <3>4. CASE GRPCStartCancelled(c)
      BY <3>4, ClosedServesNobody DEF GRPCStartCancelled, Listening
    <3> QED
      BY <3>1, <3>2, <3>3, <3>4 DEF StartStep
  <2> QED
    BY <1>1, <1>2, <1>5, <2>1, <2>2 DEF ListenInv
<1> QED
  BY <1>8, <1>9, <1>10, <1>11, <1>12 DEF IInv

\* The process is gone.
LEMMA GRPCExitKeeps ==
  ASSUME IInv, NEW c \in StartCalls, GRPCExits(c)
  PROVE  IInv'
<1>1. /\ lock = NoCall /\ ~started /\ UNCHANGED <<kind, lock, started, quit, target>>
      /\ pc' = [d \in Calls |-> "exited"] /\ server' = NoCall
      /\ serve' = [i \in StartCalls |-> "none"]
  BY DEF GRPCExits, Free
<1>2. Shape'
  BY <1>1 DEF IInv, Shape, Over, ServeStates
<1>3. StartInv' /\ StopInv'
  BY <1>1, CallsAreDistinct DEF StartInv, StopInv, Over, Calls
<1>4. ListenInv' /\ QuitInv'
  BY <1>1 DEF IInv, ListenInv, QuitInv, Listening
<1> QED
  BY <1>2, <1>3, <1>4 DEF IInv

\* Calls that are refused, that find nothing to stop, or that begin to stop.
LEMMA OtherBeginsKeep ==
  ASSUME IInv, NEW c \in Calls,
         \/ c \in StartCalls /\ (StartRefused(c) \/ GRPCListenFails(c))
         \/ c \in StopCalls /\ (StopNotStarted(c) \/ StopBegin(c))
  PROVE  IInv'
<1>1. /\ pc[c] = "idle" /\ lock = NoCall /\ UNCHANGED <<kind, flagVars, serve, quit, disowned>>
      /\ \E where \in {"failed", "stopped", "stopping"} : pc' = [pc EXCEPT ![c] = where]
  BY DEF StartRefused, GRPCListenFails, StopNotStarted, StopBegin, Idle, Free, Goes, serverVars
<1>2. /\ pc'[c] \in {"failed", "stopped", "stopping"}
      /\ \A d \in Calls \ {c} : pc'[d] = pc[d]
      /\ c \in StartCalls => pc'[c] = "failed"
  BY <1>1, CallsAreDistinct DEF IInv, Shape, StartRefused, GRPCListenFails, Goes
<1>3. Shape'
  BY <1>1, CallsAreDistinct DEF IInv, Shape, Over, flagVars, StartRefused, GRPCListenFails,
     StopNotStarted, StopBegin
<1>4. StartInv'
  BY <1>1, <1>2 DEF IInv, Shape, StartInv, flagVars, Calls
<1>5. StopInv'
  <2>0. \A i \in StartCalls : pc[i] \notin {"idle", "starting"} => pc'[i] \notin {"idle", "starting"}
    BY <1>2 DEF Calls
  <2>1. ASSUME NEW z \in StopCalls, z # c PROVE target'[z] = target[z] /\ pc'[z] = pc[z]
    BY <1>2, <2>1 DEF IInv, Shape, Calls, StartRefused, GRPCListenFails, StopNotStarted, StopBegin
  <2>2. ASSUME NEW z \in StopCalls, z # c, pc'[z] \notin Over
        PROVE  /\ target'[z] \in StartCalls
               /\ pc'[target'[z]] \notin {"idle", "starting"}
               /\ kind' = "http" \/ quit' \/ started'
               /\ pc'[z] \in {"draining", "mark"} =>
                    ~Listening(target[z])' /\ (kind' = "http" \/ quit')
    <3>1. /\ target[z] \in StartCalls /\ pc[target[z]] \notin {"idle", "starting"}
          /\ kind = "http" \/ quit \/ started
          /\ pc[z] \in {"draining", "mark"} => ~Listening(target[z]) /\ (kind = "http" \/ quit)
      BY <2>1, <2>2 DEF IInv, StopInv
    <3> QED
      BY <1>1, <2>0, <2>1, <2>2, <3>1 DEF flagVars, Listening
  <2>3. ASSUME c \in StopCalls, pc'[c] \notin Over
        PROVE  /\ target'[c] \in StartCalls
               /\ pc'[target'[c]] \notin {"idle", "starting"}
               /\ started' /\ pc'[c] = "stopping"
    <3>1. /\ StopBegin(c) /\ pc'[c] = "stopping"
      BY <1>2, <2>3, CallsAreDistinct DEF StopNotStarted, StartRefused, GRPCListenFails, Goes, Over,
         IInv, Shape
    <3>2. target'[c] = server /\ started /\ server \in StartCalls /\ UNCHANGED flagVars
      BY <2>3, <3>1 DEF StopBegin, IInv, Shape
    <3>3. pc[server] \notin {"idle", "starting"}
      BY <3>2 DEF IInv, ListenInv
    <3> QED
      BY <2>0, <3>1, <3>2, <3>3 DEF flagVars
  <2> QED
    BY <1>2, <2>1, <2>2, <2>3 DEF StopInv, Over
<1>6. ListenInv'
  BY <1>1, <1>2 DEF IInv, ListenInv, Listening, Lost, Abandoned, flagVars, Calls
<1>7. QuitInv'
  BY <1>1 DEF IInv, QuitInv
<1> QED
  BY <1>3, <1>4, <1>5, <1>6, <1>7 DEF IInv

\* A server comes up or fails.
LEMMA ServeKeeps ==
  ASSUME IInv, NEW i \in StartCalls, HTTPListen(i) \/ GRPCServe(i) \/ ServeFails(i)
  PROVE  IInv'
<1>1. /\ UNCHANGED <<kind, flagVars, quit, pc, target, disowned>>
      /\ \E s \in {"serving", "failed"} : serve' = [serve EXCEPT ![i] = s]
  BY DEF HTTPListen, GRPCServe, ServeFails, callVars
<1>2. serve' \in [StartCalls -> ServeStates]
  BY <1>1 DEF IInv, Shape, ServeStates
<1>3. \A j \in StartCalls : Listening(j)' => Listening(j)
  <2>1. CASE HTTPListen(i)
    BY <2>1, <1>1 DEF HTTPListen, IInv, Shape, QuitInv, Listening
  <2>2. CASE GRPCServe(i)
    BY <2>2, <1>1 DEF GRPCServe, IInv, Shape, Listening
  <2>3. CASE ServeFails(i)
    BY <2>3, <1>1 DEF ServeFails, IInv, Shape, Listening
  <2> QED
    BY <2>1, <2>2, <2>3
<1>4. Shape'
  BY <1>1, <1>2 DEF IInv, Shape, flagVars
<1>5. StartInv'
  BY <1>1, CallsAreDistinct DEF IInv, Shape, StartInv, flagVars
<1>6. StopInv'
  BY <1>1, <1>3 DEF IInv, StopInv, flagVars, Over
<1>7. QuitInv'
  BY <1>1, <1>3 DEF IInv, QuitInv, HTTPListen, GRPCServe, ServeFails, Listening, Shape
<1>8. ListenInv'
  BY <1>1, <1>3 DEF IInv, ListenInv, Lost, Abandoned, flagVars
<1> QED
  BY <1>4, <1>5, <1>6, <1>7, <1>8 DEF IInv

\* What a Stop under way does to the servers.
LEMMA StopStepServers ==
  ASSUME IInv, NEW z \in StopCalls, StopStep(z)
  PROVE  /\ serve' \in [StartCalls -> ServeStates] /\ quit' \in BOOLEAN
         /\ quit => quit'
         /\ \A i \in StartCalls : Listening(i)' => Listening(i)
         /\ lock # NoCall => serve'[lock] \in {"binding", "serving", "failed"}
         /\ pc'[z] \in {"draining", "mark"} =>
              ~Listening(target[z])' /\ (kind = "http" \/ quit')
         /\ QuitInv'
<1>1. /\ pc[z] \in {"stopping", "draining", "mark"} /\ UNCHANGED <<kind, lock, server, target>>
      /\ \E where \in {"draining", "mark", "failed", "stopped"} : pc' = [pc EXCEPT ![z] = where]
  BY DEF StopStep, StopListening, StopDrained, HTTPStopTimesOut, GRPCStopTimesOut, StopMark, Goes,
     flagVars
<1>2. /\ z \in Calls /\ target[z] \in StartCalls /\ pc[target[z]] # "starting"
      /\ kind = "http" \/ quit \/ started
      /\ pc[z] \in {"draining", "mark"} => ~Listening(target[z]) /\ (kind = "http" \/ quit)
  BY <1>1 DEF IInv, StopInv, Calls, Over
<1>3. target[z] # lock
  BY <1>2 DEF IInv, StartInv
<1>4. lock # NoCall => lock \in StartCalls /\ serve[lock] \in {"binding", "serving", "failed"} /\ ~started
  BY DEF IInv, Shape, StartInv
<1>5. CASE StopListening(z)
  <2>1. serve' = Closed(target[z]) /\ quit' = (kind # "http")
    BY <1>5 DEF StopListening
  <2>2. CASE kind = "http"
    <3>1. /\ ~quit /\ ~quit'
          /\ \A i \in StartCalls : serve'[i] = IF i = target[z] /\ serve[i] \in {"serving", "binding"}
                                                THEN "draining" ELSE serve[i]
      BY <2>1, <2>2 DEF Closed, SameServer, IInv, QuitInv
    <3>2. \A i \in StartCalls : Listening(i)' => Listening(i) /\ i # target[z]
      BY <3>1 DEF Listening
    <3>3. lock # NoCall => serve'[lock] = serve[lock]
      BY <1>3, <1>4, <3>1
    <3>4. serve' \in [StartCalls -> ServeStates]
      BY <1>2, <2>1, ClosedFacts
    <3>5. ~Listening(target[z])' /\ kind' = "http" /\ quit' = FALSE
      BY <1>1, <1>2, <2>1, <2>2, <3>1 DEF Listening
    <3> QED
      BY <1>4, <2>2, <3>1, <3>2, <3>3, <3>4, <3>5 DEF QuitInv
  <2>3. CASE kind # "http"
    <3>1. quit' /\ \A i \in StartCalls : serve'[i] # "serving"
      BY <1>2, <2>1, <2>3, ClosedServesNobody
    <3>2. \A i \in StartCalls : ~Listening(i)'
      BY <3>1 DEF Listening
    <3>3. serve' \in [StartCalls -> ServeStates]
      BY <1>2, <2>1, ClosedFacts
    <3>4. ASSUME lock # NoCall PROVE serve'[lock] \in {"binding", "serving", "failed"}
      <4>1. quit /\ serve[lock] # "serving"
        BY <1>2, <1>4, <2>3, <3>4 DEF IInv, QuitInv
      <4> QED
        BY <1>4, <2>1, <2>3, <3>4, <4>1 DEF Closed
    <3> QED
      BY <1>1, <1>2, <2>3, <3>1, <3>2, <3>3, <3>4 DEF QuitInv
  <2> QED
    BY <2>2, <2>3
<1>6. CASE StopDrained(z) \/ StopMark(z)
  <2>1. UNCHANGED <<serve, quit>> /\ pc'[z] \in {"mark", "stopped"} /\ pc[z] \in {"draining", "mark"}
    BY <1>2, <1>6 DEF StopDrained, StopMark, serverVars, Goes, IInv, Shape
  <2>2. \A i \in StartCalls : Listening(i)' <=> Listening(i)
    BY <2>1 DEF Listening
  <2> QED
    BY <1>1, <1>2, <1>4, <2>1, <2>2 DEF IInv, Shape, QuitInv
<1>7. CASE HTTPStopTimesOut(z) \/ GRPCStopTimesOut(z)
  <2>1. serve' = TimedOut(target[z]) /\ quit' = quit /\ pc'[z] = "failed"
    BY <1>2, <1>7 DEF HTTPStopTimesOut, GRPCStopTimesOut, Goes, IInv, Shape
  <2>2. /\ serve' \in [StartCalls -> ServeStates]
        /\ \A i \in StartCalls :
             \/ serve'[i] = serve[i]
             \/ serve[i] = "draining" /\ serve'[i] = "stuck"
             \/ i = target[z] /\ serve[i] = "failed" /\ serve'[i] = "broken"
    BY <2>1 DEF TimedOut, IInv, Shape, ServeStates
  <2>3. \A i \in StartCalls : Listening(i)' => Listening(i)
    BY <2>1, <2>2 DEF Listening
  <2>4. lock # NoCall => serve'[lock] = serve[lock]
    BY <1>3, <1>4, <2>2
  <2>5. QuitInv'
    BY <1>1, <2>1, <2>2 DEF IInv, QuitInv
  <2> QED
    BY <1>4, <2>1, <2>2, <2>3, <2>4, <2>5 DEF IInv, Shape
<1> QED
  BY <1>5, <1>6, <1>7 DEF StopStep

LEMMA StopStepKeeps ==
  ASSUME IInv, NEW z \in StopCalls, StopStep(z)
  PROVE  IInv'
<1>1. /\ pc[z] \in {"stopping", "draining", "mark"} /\ UNCHANGED <<kind, lock, server, target>>
      /\ \E where \in {"draining", "mark", "failed", "stopped"} : pc' = [pc EXCEPT ![z] = where]
      /\ started' = started \/ (StopMark(z) /\ pc[z] = "mark" /\ started' = FALSE)
      /\ disowned \subseteq disowned'
  BY DEF StopStep, StopListening, StopDrained, HTTPStopTimesOut, GRPCStopTimesOut, StopMark, Goes,
     flagVars
<1>2. /\ z \in Calls /\ z \notin StartCalls
      /\ target[z] \in StartCalls /\ pc[target[z]] \notin {"idle", "starting"}
      /\ kind = "http" \/ quit \/ started
      /\ pc[z] \in {"draining", "mark"} => ~Listening(target[z]) /\ (kind = "http" \/ quit)
  BY <1>1, CallsAreDistinct DEF IInv, StopInv, Calls, Over
<1>3. /\ \A d \in Calls \ {z} : pc'[d] = pc[d]
      /\ pc'[z] \in {"draining", "mark", "failed", "stopped"}
      /\ \A i \in StartCalls : pc'[i] = pc[i]
  BY <1>1, <1>2 DEF IInv, Shape, Calls
<1>4. /\ serve' \in [StartCalls -> ServeStates] /\ quit' \in BOOLEAN
      /\ quit => quit'
      /\ \A i \in StartCalls : Listening(i)' => Listening(i)
      /\ lock # NoCall => serve'[lock] \in {"binding", "serving", "failed"}
      /\ pc'[z] \in {"draining", "mark"} =>
           ~Listening(target[z])' /\ (kind = "http" \/ quit')
      /\ QuitInv'
  BY StopStepServers
<1>5. Shape'
  BY <1>1, <1>4 DEF IInv, Shape, Over
<1>6. StartInv'
  BY <1>1, <1>2, <1>3, <1>4 DEF IInv, StartInv
<1>7. StopInv'
  <2>1. kind = "http" \/ quit' \/ started'
    BY <1>1, <1>2, <1>4
  <2>2. ASSUME NEW y \in StopCalls, y # z, pc'[y] \notin Over
        PROVE  /\ target[y] \in StartCalls /\ pc'[target[y]] \notin {"idle", "starting"}
               /\ pc'[y] \in {"draining", "mark"} =>
                    ~Listening(target[y])' /\ (kind = "http" \/ quit')
    <3>1. pc'[y] = pc[y]
      BY <1>3, <2>2 DEF Calls
    <3>2. /\ target[y] \in StartCalls /\ pc[target[y]] \notin {"idle", "starting"}
          /\ pc[y] \in {"draining", "mark"} => ~Listening(target[y]) /\ (kind = "http" \/ quit)
      BY <2>2, <3>1 DEF IInv, StopInv
    <3> QED
      BY <1>1, <1>3, <1>4, <3>1, <3>2 DEF Listening
  <2>3. /\ target[z] \in StartCalls /\ pc'[target[z]] \notin {"idle", "starting"}
        /\ pc'[z] \in {"draining", "mark"} =>
             ~Listening(target[z])' /\ (kind = "http" \/ quit')
    BY <1>2, <1>3, <1>4
  <2>4. ASSUME NEW y \in StopCalls
        PROVE  /\ pc'[y] \notin Over => target[y] \in StartCalls /\ pc'[target[y]] \notin {"idle", "starting"}
               /\ pc'[y] \in {"draining", "mark"} =>
                    ~Listening(target[y])' /\ (kind = "http" \/ quit')
    BY <2>2, <2>3 DEF Over
  <2> QED
    BY <1>1, <2>1, <2>4 DEF StopInv
<1>8. ListenInv'
  <2>1. ASSUME NEW i \in StartCalls, Listening(i)'
        PROVE  Lost(i)' \/ (i = server /\ (started' \/ lock = server))
    <3>1. Listening(i) /\ (Lost(i) \/ (i = server /\ (started \/ lock = server)))
      BY <1>4, <2>1 DEF IInv, ListenInv
    <3>2. CASE Lost(i)
      BY <1>1, <1>3, <2>1, <3>2 DEF Lost, Abandoned
    <3>3. CASE started' = started
      BY <3>1, <3>2, <3>3
    <3>4. CASE StopMark(z) /\ i = server /\ ~Lost(i)
      <4>1. started /\ server # target[z]
        BY <1>1, <1>2, <3>1, <3>4, CallsAreDistinct DEF StopMark, Free, Calls
      <4> QED
        BY <3>4, <4>1 DEF StopMark, Lost
    <3> QED
      BY <1>1, <3>1, <3>2, <3>3, <3>4
  <2>2. started' => server \in StartCalls /\ pc'[server] \notin {"idle", "starting"}
    BY <1>1, <1>3 DEF IInv, ListenInv
  <2> QED
    BY <1>1, <2>1, <2>2 DEF ListenInv
<1> QED
  BY <1>4, <1>5, <1>6, <1>7, <1>8 DEF IInv

LEMMA NextIInv == IInv /\ [Next]_vars => IInv'
<1> SUFFICES ASSUME IInv, [Next]_vars PROVE IInv'
  OBVIOUS
<1>1. CASE UNCHANGED <<kind, flagVars, serve, quit, pc, target, disowned>>
  BY <1>1 DEF IInv, Shape, StartInv, StopInv, QuitInv, ListenInv, Listening, Lost, Abandoned, flagVars
<1>2. ASSUME NEW c \in StartCalls, HTTPStart(c) \/ GRPCStart(c) PROVE IInv'
  BY <1>2, StartBeginKeeps
<1>3. ASSUME NEW c \in StartCalls, StartStep(c) PROVE IInv'
  BY <1>3, StartEndsKeeps
<1>4. ASSUME NEW c \in StartCalls, StartRefused(c) \/ GRPCListenFails(c) PROVE IInv'
  BY <1>4, OtherBeginsKeep DEF Calls
<1>5. ASSUME NEW c \in StartCalls, HTTPListen(c) \/ GRPCServe(c) \/ ServeFails(c) PROVE IInv'
  BY <1>5, ServeKeeps
<1>6. ASSUME NEW c \in StartCalls, RequestArrives(c) \/ RequestEnds(c) \/ ContextEnds(c) PROVE IInv'
  BY <1>1, <1>6 DEF RequestArrives, RequestEnds, ContextEnds, callVars, serverVars
<1>7. ASSUME NEW c \in StartCalls, GRPCExits(c) PROVE IInv'
  BY <1>7, GRPCExitKeeps
<1>8. ASSUME NEW z \in StopCalls, StopNotStarted(z) \/ StopBegin(z) PROVE IInv'
  BY <1>8, OtherBeginsKeep DEF Calls
<1>9. ASSUME NEW z \in StopCalls, StopStep(z) PROVE IInv'
  BY <1>9, StopStepKeeps
<1>10. CASE UNCHANGED vars
  BY <1>1, <1>10 DEF vars, serverVars, callVars
<1> QED
  BY <1>2, <1>3, <1>4, <1>5, <1>6, <1>7, <1>8, <1>9, <1>10 DEF Next

-----------------------------------------------------------------------------
(* The refinement *)

\* What a state maps to, without the state that cannot be.
Seen == IF lock # NoCall \/ ~started THEN "down"
        ELSE CASE serve[server] = "failed" -> "sick"
               [] serve[server] = "stuck"  -> "stuck"
               [] serve[server] = "broken" -> "broken"
               [] OTHER                    -> "up"

LEMMA InstanceIsSeen == IInv => Instance = Seen
<1> SUFFICES ASSUME IInv PROVE Instance = Seen
  OBVIOUS
<1>1. lock = NoCall /\ ~started => ~\E i \in StartCalls : Listening(i) /\ ~Lost(i)
  BY CallsAreDistinct DEF IInv, ListenInv
<1>2. CASE lock # NoCall
  BY <1>2 DEF Instance, Seen
<1>3. CASE lock = NoCall /\ ~started
  BY <1>1, <1>3 DEF Instance, Seen
<1>4. CASE lock = NoCall /\ started
  BY <1>4 DEF Instance, Seen
<1> QED
  BY <1>2, <1>3, <1>4 DEF IInv, Shape

\* A step of the contract, or none, in terms of Seen.
SeenNext ==
  \/ Seen' = Seen
  \/ Seen = "down" /\ Seen' \in {"up", "sick"}
  \/ Seen' = "down"
  \/ Seen \in {"up", "stuck"} /\ Seen' = "stuck"
  \/ Seen \in {"sick", "broken"} /\ Seen' = "broken"
  \/ Seen = "up" /\ Seen' = "sick"

LEMMA StartStepSeen ==
  ASSUME IInv, NEW c \in StartCalls, StartStep(c)
  PROVE  SeenNext
<1>1. lock = c /\ c # NoCall /\ server = c /\ ~started /\ Seen = "down"
      /\ serve[c] \in {"binding", "serving", "failed"}
  BY CallsAreDistinct DEF StartStep, StartFails, StartSucceeds, HTTPStartCancelled,
     GRPCStartCancelled, IInv, StartInv, Seen
<1>2. CASE StartSucceeds(c)
  BY <1>1, <1>2 DEF StartSucceeds, Seen, SeenNext, serverVars
<1>3. CASE StartFails(c) \/ HTTPStartCancelled(c) \/ GRPCStartCancelled(c)
  BY <1>1, <1>3 DEF StartFails, HTTPStartCancelled, GRPCStartCancelled, Seen, SeenNext
<1> QED
  BY <1>2, <1>3 DEF StartStep

LEMMA ServeSeen ==
  ASSUME IInv, NEW i \in StartCalls, HTTPListen(i) \/ GRPCServe(i) \/ ServeFails(i)
  PROVE  SeenNext
<1>1. /\ serve[i] \in {"binding", "serving"} /\ UNCHANGED flagVars
      /\ \E s \in {"serving", "failed"} : serve' = [serve EXCEPT ![i] = s]
  BY DEF HTTPListen, GRPCServe, ServeFails
<1> QED
  BY <1>1 DEF IInv, Shape, ListenInv, flagVars, Seen, SeenNext

\* A Stop leaves a service that is up or failed what it is, until it times out
\* or clears the flag.
LEMMA StopStepSeen ==
  ASSUME IInv, NEW z \in StopCalls, StopStep(z)
  PROVE  SeenNext
<1>1. started => server \in StartCalls
  BY DEF IInv, ListenInv
<1>2. CASE StopListening(z)
  <2>1. serve' = Closed(target[z]) /\ UNCHANGED flagVars
    BY <1>2 DEF StopListening
  <2>2. started => \/ serve'[server] = serve[server]
                   \/ serve'[server] = "draining" /\ serve[server] \in {"serving", "binding"}
    BY <1>1, <2>1 DEF Closed
  <2> QED
    BY <2>1, <2>2 DEF flagVars, Seen, SeenNext
<1>3. CASE StopDrained(z)
  BY <1>3 DEF StopDrained, flagVars, serverVars, Seen, SeenNext
<1>4. CASE HTTPStopTimesOut(z) \/ GRPCStopTimesOut(z)
  <2>1. serve' = TimedOut(target[z]) /\ UNCHANGED flagVars
    BY <1>4 DEF HTTPStopTimesOut, GRPCStopTimesOut
  <2>2. started => \/ serve'[server] = serve[server]
                   \/ serve[server] = "draining" /\ serve'[server] = "stuck"
                   \/ serve[server] = "failed" /\ serve'[server] = "broken"
    BY <1>1, <2>1 DEF TimedOut
  <2> QED
    BY <2>1, <2>2 DEF flagVars, Seen, SeenNext
<1>5. CASE StopMark(z)
  BY <1>5 DEF StopMark, Seen, SeenNext
<1> QED
  BY <1>2, <1>3, <1>4, <1>5 DEF StopStep

LEMMA NextSeen == IInv /\ [Next]_vars => SeenNext
<1> SUFFICES ASSUME IInv, [Next]_vars PROVE SeenNext
  OBVIOUS
<1>1. CASE UNCHANGED <<flagVars, serve>>
  BY <1>1 DEF flagVars, Seen, SeenNext
<1>2. ASSUME NEW c \in StartCalls, HTTPStart(c) \/ GRPCStart(c) PROVE SeenNext
  <2>1. Seen = "down" /\ lock' = c /\ c # NoCall
    BY <1>2, CallsAreDistinct DEF HTTPStart, GRPCStart, Seen
  <2> QED
    BY <2>1 DEF Seen, SeenNext
<1>3. ASSUME NEW c \in StartCalls, StartStep(c) PROVE SeenNext
  BY <1>3, StartStepSeen
<1>4. ASSUME NEW c \in StartCalls,
             StartRefused(c) \/ GRPCListenFails(c) \/ RequestArrives(c) \/ RequestEnds(c) \/ ContextEnds(c)
      PROVE SeenNext
  BY <1>1, <1>4 DEF StartRefused, GRPCListenFails, RequestArrives, RequestEnds, ContextEnds, serverVars
<1>5. ASSUME NEW c \in StartCalls, HTTPListen(c) \/ GRPCServe(c) \/ ServeFails(c) PROVE SeenNext
  BY <1>5, ServeSeen
<1>6. ASSUME NEW c \in StartCalls, GRPCExits(c) PROVE SeenNext
  BY <1>6 DEF GRPCExits, Seen, SeenNext
<1>7. ASSUME NEW z \in StopCalls, StopNotStarted(z) \/ StopBegin(z) PROVE SeenNext
  BY <1>1, <1>7 DEF StopNotStarted, StopBegin, serverVars
<1>8. ASSUME NEW z \in StopCalls, StopStep(z) PROVE SeenNext
  BY <1>8, StopStepSeen
<1>9. CASE UNCHANGED vars
  BY <1>1, <1>9 DEF vars, serverVars
<1> QED
  BY <1>2, <1>3, <1>4, <1>5, <1>6, <1>7, <1>8, <1>9 DEF Next

\* HTTPService and GRPCService implement what the runner relies on of a
\* service, for any number of Start and Stop calls and however they overlap:
\* no server is left that nobody can stop, save for the two cases of Lost
\* (http.go:88-154, grpc.go:103-195).
THEOREM WrappersImplementContract == Spec => ImplementsContract
<1>1. Init => Contract!Init
  BY InitIInv, InstanceIsSeen DEF Init, Seen, Contract!Init
<1>2. IInv' => (Instance = Seen)'
  BY InstanceIsSeen, PTL
<1>3. IInv /\ IInv' /\ [Next]_vars => [Contract!Next]_Instance
  <2> SUFFICES ASSUME IInv, IInv', [Next]_vars PROVE [Contract!Next]_Instance
    OBVIOUS
  <2>1. Instance = Seen /\ Instance' = Seen'
    BY InstanceIsSeen, <1>2
  <2>2. SeenNext
    BY NextSeen
  <2> QED
    BY <2>1, <2>2 DEF SeenNext, Contract!Next, Contract!Starts, Contract!Stops,
       Contract!StopFails, Contract!Crash
<1>4. IInv /\ [Next]_vars => IInv'
  BY NextIInv
<1> QED
  BY InitIInv, <1>1, <1>3, <1>4, PTL DEF Spec, ImplementsContract, Contract!Spec

-----------------------------------------------------------------------------
(* Draining *)

\* Between its wait and the flag, a Stop has no request left and gets no new one:
\* its server listens no more, and a gRPC server was told to stop.
MarkedIdle == \A z \in StopCalls : pc[z] = "mark" => Idling(z)

\* The requests of a server that a Stop is about to mark only end.
LEMMA MarkedGetsNoRequest ==
  ASSUME IInv, NEW z \in StopCalls, pc[z] = "mark",
         NEW i \in StartCalls, RequestArrives(i)
  PROVE  i \notin SameServer(target[z])
<1>1. ~Listening(target[z]) /\ (kind = "http" \/ quit)
  BY DEF IInv, StopInv
<1>2. serve[i] = "serving"
  BY DEF RequestArrives
<1>3. ~quit
  BY <1>2 DEF IInv, QuitInv
<1> QED
  BY <1>1, <1>2, <1>3 DEF SameServer, Listening

LEMMA MarkedIdleStep == IInv /\ MarkedIdle /\ [Next]_vars => MarkedIdle'
<1> SUFFICES ASSUME IInv, MarkedIdle, [Next]_vars,
                    NEW z \in StopCalls, pc'[z] = "mark"
             PROVE  Idling(z)'
  BY DEF MarkedIdle
<1>0. z \in Calls /\ z \notin StartCalls /\ pc \in [Calls -> Over \cup {"starting", "stopping", "draining", "mark"}]
      /\ target \in [StopCalls -> StartCalls \cup {NoCall}]
  BY CallsAreDistinct DEF Calls, IInv, Shape
<1>1. kind' = kind
  BY DEF Next, vars, StartRefused, HTTPStart, GRPCListenFails, GRPCStart, GRPCExits, ContextEnds, StartStep, StartFails,
     StartSucceeds, HTTPStartCancelled, GRPCStartCancelled, HTTPListen, callVars, serverVars, GRPCServe, ServeFails,
     RequestArrives, RequestEnds, StopNotStarted, StopBegin, StopStep, StopListening,
     StopDrained, HTTPStopTimesOut, GRPCStopTimesOut, StopMark
\* It was marked before, or is now that nothing is in flight.
<1>2. Idling(z) /\ target'[z] = target[z]
  <2>1. CASE pc[z] = "mark"
    <3>1. target'[z] = target[z]
      BY <1>0, <2>1 DEF Next, vars, StartRefused, HTTPStart, GRPCListenFails, GRPCStart, GRPCExits, ContextEnds,
         StartStep, StartFails, StartSucceeds, HTTPStartCancelled, GRPCStartCancelled,
         HTTPListen, callVars, serverVars, GRPCServe, ServeFails, RequestArrives, RequestEnds, StopNotStarted,
         StopBegin, StopStep, StopListening, StopDrained, HTTPStopTimesOut, GRPCStopTimesOut,
         StopMark, Idle
    <3> QED
      BY <2>1, <3>1 DEF MarkedIdle
  <2>2. CASE pc[z] # "mark"
    <3>1. StopDrained(z)
      <4>1. \A c \in StopCalls : StopNotStarted(c) \/ StopBegin(c) \/ StopStep(c) =>
               c = z /\ StopDrained(c)
        BY <1>0, <2>2 DEF StopNotStarted, StopBegin, StopStep, StopListening, StopDrained,
           HTTPStopTimesOut, GRPCStopTimesOut, StopMark, Goes, Calls
      <4>2. \A c \in StartCalls :
              ~(\/ StartRefused(c) \/ HTTPStart(c) \/ GRPCListenFails(c) \/ GRPCStart(c)
                \/ GRPCExits(c) \/ ContextEnds(c) \/ StartStep(c) \/ HTTPListen(c) \/ GRPCServe(c) \/ ServeFails(c)
                \/ RequestArrives(c) \/ RequestEnds(c))
        BY <1>0, <2>2 DEF StartRefused, HTTPStart, GRPCListenFails, GRPCStart, GRPCExits, ContextEnds, StartStep,
           StartFails, StartSucceeds, HTTPStartCancelled, GRPCStartCancelled, HTTPListen, callVars, serverVars,
           GRPCServe, ServeFails, RequestArrives, RequestEnds, Goes, Calls
      <4> QED
        BY <2>2, <4>1, <4>2 DEF Next, vars, callVars
    <3> QED
      BY <3>1 DEF StopDrained
  <2> QED
    BY <2>1, <2>2
<1>3. CASE busy' \subseteq busy
  BY <1>1, <1>2, <1>3 DEF Idling, SameServer
<1>4. ASSUME NEW i \in StartCalls, RequestArrives(i) PROVE Idling(z)'
  <2>1. pc[z] = "mark" /\ busy' = busy \cup {i}
    BY <1>4 DEF RequestArrives, callVars
  <2>2. i \notin SameServer(target[z])
    BY <1>4, <2>1, MarkedGetsNoRequest
  <2> QED
    BY <1>1, <1>2, <2>1, <2>2 DEF Idling, SameServer
<1>5. busy' \subseteq busy \/ \E i \in StartCalls : RequestArrives(i)
  BY DEF Next, vars, StartRefused, HTTPStart, GRPCListenFails, GRPCStart, GRPCExits, ContextEnds, StartStep, StartFails,
     StartSucceeds, HTTPStartCancelled, GRPCStartCancelled, HTTPListen, callVars, serverVars, GRPCServe, ServeFails,
     RequestEnds, StopNotStarted, StopBegin, StopStep, StopListening, StopDrained,
     HTTPStopTimesOut, GRPCStopTimesOut, StopMark
<1> QED
  BY <1>3, <1>4, <1>5

\* A Stop that found a server and returns nil has let its last request end,
\* for any number of Start and Stop calls and however they overlap
\* (http.go:145, grpc.go:176-183).
THEOREM StopLetsRequestsEnd == Spec => StopDrains
<1>1. Init => MarkedIdle
  BY DEF Init, MarkedIdle, Calls
<1>2. MarkedIdle /\ [Next]_vars =>
        [\A c \in StopCalls : pc[c] = "mark" /\ pc'[c] = "stopped" => Idling(c)]_vars
  BY DEF MarkedIdle
<1>3. IInv /\ [Next]_vars => IInv'
  BY NextIInv
<1> QED
  BY InitIInv, MarkedIdleStep, <1>1, <1>2, <1>3, PTL DEF Spec, StopDrains

-----------------------------------------------------------------------------
\* The process.

ProcessPhases == {"open", "serve", "wait", "stop", "cleanup", "over"}

ProcessShape ==
  /\ program \in {"full", "bootstrap"}
  /\ phase \in ProcessPhases
  /\ at \in Nat \ {0}
  /\ request \in [Requests -> RequestStates]

\* What is opened so far stays open until the cleanup.
Serviceable ==
  /\ phase = "open" => \A i \in 1 .. Len(Steps(program)) :
       i < at /\ Steps(program)[i] \in {"db", "cache"} => Steps(program)[i] \in open
  /\ phase \in {"serve", "wait", "stop"} => {"db", "cache"} \subseteq open

\* Requests come to servers that have been started and not been stopped yet;
\* once all are stopped in time, no request is left.
ServedInTime ==
  /\ phase = "open" => serving = {} /\ InFlight = {}
  /\ phase \in {"serve", "wait"} =>
       \A s \in serving : \E i \in 1 .. Len(Servers(program)) : Servers(program)[i] = s
  /\ phase = "stop" =>
       /\ \A s \in serving : \E i \in at .. Len(Servers(program)) : Servers(program)[i] = s
       /\ at > Len(Servers(program)) => InFlight = {} \/ expired
  /\ phase = "cleanup" => serving = {} /\ (InFlight = {} \/ expired)
  /\ phase = "over" <=> exit # "none"

ProcessInv == ProcessShape /\ Serviceable /\ ServedInTime /\ RequestsKeepResources

LEMMA StepsOpenBoth ==
  ASSUME NEW p \in {"full", "bootstrap"}
  PROVE  /\ Len(Steps(p)) \in Nat /\ Len(Servers(p)) \in Nat \ {0}
         /\ \E i \in 1 .. Len(Steps(p)) : Steps(p)[i] = "db"
         /\ \E i \in 1 .. Len(Steps(p)) : Steps(p)[i] = "cache"
         /\ "db" \notin Optional(p) /\ "cache" \notin Optional(p)
<1>1. CASE p = "full"
  <2>0. /\ Steps(p) = <<"tracer", "metrics", "db", "cache", "bus", "http", "ws">>
        /\ Servers(p) = <<"api">> /\ Optional(p) = {"http", "ws"}
    BY <1>1 DEF Steps, Servers, Optional
  <2>1. Len(Steps(p)) = 7 /\ Steps(p)[3] = "db" /\ Steps(p)[4] = "cache" /\ Len(Servers(p)) = 1
    BY <2>0
  <2> QED
    BY <2>0, <2>1
<1>2. CASE p = "bootstrap"
  <2>0. /\ Steps(p) = <<"metrics", "tracer", "db", "cache">>
        /\ Servers(p) = <<"api", "rpc">> /\ Optional(p) = {}
    BY <1>2 DEF Steps, Servers, Optional
  <2>1. Len(Steps(p)) = 4 /\ Steps(p)[3] = "db" /\ Steps(p)[4] = "cache" /\ Len(Servers(p)) = 2
    BY <2>0
  <2> QED
    BY <2>0, <2>1
<1> QED
  BY <1>1, <1>2

LEMMA InitProcessInv == ProcessInit => ProcessInv
<1> SUFFICES ASSUME ProcessInit PROVE ProcessInv
  OBVIOUS
<1>1. ProcessShape
  BY ProgramsAssumption DEF ProcessInit, ProcessShape, ProcessPhases, RequestStates
<1>2. Serviceable
  BY DEF ProcessInit, Serviceable
<1>3. ServedInTime
  BY DEF ProcessInit, ServedInTime, InFlight
<1>4. RequestsKeepResources
  BY DEF ProcessInit, RequestsKeepResources
<1> QED
  BY <1>1, <1>2, <1>3, <1>4 DEF ProcessInv

\* One more resource is opened, or passed over.
LEMMA OpeningKeeps ==
  ASSUME ProcessInv, OpenStep \/ OpenTracer \/ InitMetrics \/ OpenSkipped
  PROVE  ProcessInv'
<1>1. /\ phase = "open" /\ at' = at + 1
      /\ UNCHANGED <<program, phase, serving, expired, request, exit>>
      /\ open \subseteq open'
      /\ Step \notin Optional(program) => Step \in open'
  BY DEF OpenStep, OpenTracer, InitMetrics, OpenSkipped, Opening
<1>2. /\ program \in {"full", "bootstrap"} /\ at \in Nat \ {0}
      /\ "db" \notin Optional(program) /\ "cache" \notin Optional(program)
  BY StepsOpenBoth DEF ProcessInv, ProcessShape
<1>3. ProcessShape'
  BY <1>1, <1>2 DEF ProcessInv, ProcessShape
<1>4. Serviceable'
  <2> SUFFICES ASSUME NEW i \in 1 .. Len(Steps(program)), i < at + 1,
                      Steps(program)[i] \in {"db", "cache"}
               PROVE  Steps(program)[i] \in open'
    BY <1>1 DEF Serviceable
  <2>1. CASE i < at
    BY <1>1, <2>1 DEF ProcessInv, Serviceable
  <2>2. CASE i = at
    BY <1>1, <1>2, <2>2 DEF Step
  <2> QED
    BY <1>2, <2>1, <2>2
<1>5. ServedInTime'
  BY <1>1 DEF ProcessInv, ServedInTime, InFlight
<1>6. RequestsKeepResources'
  BY <1>1 DEF ProcessInv, RequestsKeepResources
<1> QED
  BY <1>3, <1>4, <1>5, <1>6 DEF ProcessInv

\* The phases before the shutdown.
LEMMA ServingKeeps ==
  ASSUME ProcessInv, BootstrapFails \/ Opened \/ StartServer \/ WaitForSignal \/ SignalShutsDown
  PROVE  ProcessInv'
<1>1. UNCHANGED <<program, open, expired, request, exit>>
  BY DEF BootstrapFails, Opened, StartServer, WaitForSignal, SignalShutsDown
<1>2. /\ Len(Steps(program)) \in Nat /\ Len(Servers(program)) \in Nat \ {0}
      /\ \E i \in 1 .. Len(Steps(program)) : Steps(program)[i] = "db"
      /\ \E i \in 1 .. Len(Steps(program)) : Steps(program)[i] = "cache"
      /\ at \in Nat \ {0}
  BY StepsOpenBoth DEF ProcessInv, ProcessShape
<1>3. RequestsKeepResources'
  BY <1>1 DEF ProcessInv, RequestsKeepResources
<1>4. ProcessShape'
  <2>1. phase' \in ProcessPhases
    BY DEF ProcessPhases, BootstrapFails, Opened, StartServer, WaitForSignal, SignalShutsDown, ProcessInv,
           ProcessShape
  <2>2. at' \in Nat \ {0}
    BY <1>2 DEF BootstrapFails, Opened, StartServer, WaitForSignal, SignalShutsDown
  <2> QED
    BY <1>1, <2>1, <2>2 DEF ProcessInv, ProcessShape
<1>5. CASE BootstrapFails
  BY <1>1, <1>3, <1>4, <1>5
     DEF BootstrapFails, Opening, Running, ProcessInv, Serviceable, ServedInTime, InFlight
<1>6. CASE Opened
  <2>1. phase = "open" /\ phase' = "serve" /\ serving' = serving /\ exit = "none"
    BY <1>6 DEF Opened, Running
  <2>2. {"db", "cache"} \subseteq open
    BY <1>2, <1>6 DEF Opened, ProcessInv, Serviceable
  <2> QED
    BY <1>1, <1>3, <1>4, <2>1, <2>2 DEF ProcessInv, Serviceable, ServedInTime
<1>7. CASE StartServer
  <2>1. /\ phase = "serve" /\ phase' = "serve" /\ exit = "none"
        /\ at \in 1 .. Len(Servers(program))
        /\ serving' = serving \cup {Servers(program)[at]}
    BY <1>2, <1>7 DEF StartServer, Running
  <2> QED
    BY <1>1, <1>3, <1>4, <2>1 DEF ProcessInv, Serviceable, ServedInTime
<1>8. CASE WaitForSignal
  BY <1>1, <1>3, <1>4, <1>8 DEF WaitForSignal, Running, ProcessInv, Serviceable, ServedInTime
<1>9. CASE SignalShutsDown
  BY <1>1, <1>2, <1>3, <1>4, <1>9
     DEF SignalShutsDown, Running, ProcessInv, Serviceable, ServedInTime
<1> QED
  BY <1>5, <1>6, <1>7, <1>8, <1>9

\* The end, by any way.
LEMMA ExitKeeps ==
  ASSUME ProcessInv, OpenFatal \/ ServeFatal \/ SignalKills \/ Return
  PROVE  ProcessInv'
<1>1. /\ UNCHANGED <<program, at, open, expired, request>>
      /\ phase' = "over" /\ exit' # "none"
  BY DEF OpenFatal, ServeFatal, SignalKills, Return, Exits
<1> QED
  BY <1>1 DEF ProcessInv, ProcessShape, ProcessPhases, Serviceable, ServedInTime, RequestsKeepResources

\* The shutdown.
LEMMA StoppingKeeps ==
  ASSUME ProcessInv, StopAccepting \/ StopReturns \/ AllStopped \/ ShutdownTimesOut
  PROVE  ProcessInv'
<1>1. /\ UNCHANGED <<program, open, request, exit>> /\ phase = "stop" /\ exit = "none"
      /\ expired => expired'
  BY DEF StopAccepting, StopReturns, AllStopped, ShutdownTimesOut, Running
<1>2. Len(Servers(program)) \in Nat \ {0} /\ at \in Nat \ {0}
  BY StepsOpenBoth DEF ProcessInv, ProcessShape
<1>3. RequestsKeepResources'
  BY <1>1 DEF ProcessInv, RequestsKeepResources
<1>4. ProcessShape'
  BY <1>1 DEF ProcessInv, ProcessShape, ProcessPhases, StopAccepting, StopReturns, AllStopped, ShutdownTimesOut
<1>5. Serviceable'
  BY <1>1 DEF ProcessInv, Serviceable, StopAccepting, StopReturns, AllStopped, ShutdownTimesOut
<1>6. /\ \A s \in serving : \E i \in at .. Len(Servers(program)) : Servers(program)[i] = s
      /\ at > Len(Servers(program)) => InFlight = {} \/ expired
  BY <1>1 DEF ProcessInv, ServedInTime
<1>7. ServedInTime'
  <2>1. CASE StopAccepting \/ ShutdownTimesOut
    <3>1. UNCHANGED <<phase, at>> /\ serving' \subseteq serving
      BY <2>1 DEF StopAccepting, ShutdownTimesOut
    <3> QED
      BY <1>1, <1>6, <3>1 DEF ServedInTime, InFlight
  <2>2. CASE StopReturns
    <3>1. /\ UNCHANGED <<phase, serving, expired>> /\ at' = at + 1
          /\ Servers(program)[at] \notin serving
          /\ InFlight = {} \/ expired
      BY <2>2 DEF StopReturns
    <3>2. \A s \in serving : \E i \in at + 1 .. Len(Servers(program)) : Servers(program)[i] = s
      BY <1>2, <1>6, <3>1
    <3> QED
      BY <1>1, <3>1, <3>2 DEF ServedInTime, InFlight
  <2>3. CASE AllStopped
    BY <1>1, <1>2, <1>6, <2>3 DEF AllStopped, ServedInTime, InFlight
  <2> QED
    BY <2>1, <2>2, <2>3
<1> QED
  BY <1>3, <1>4, <1>5, <1>7 DEF ProcessInv

\* The pool waits for its queries, and requests that are in time are over.
LEMMA CleanupKeeps ==
  ASSUME ProcessInv, CleanupNext \/ ShutdownMetrics
  PROVE  ProcessInv'
<1>1. /\ UNCHANGED <<program, phase, at, serving, expired, request, exit>>
      /\ phase = "cleanup"
      /\ "db" \in open => "db" \in open' \/ \A r \in Requests : request[r] # "query"
  BY DEF CleanupNext, ShutdownMetrics, Cleaning, CanClose
<1>2. InFlight = {} \/ expired
  BY <1>1 DEF ProcessInv, ServedInTime
<1>3. RequestsKeepResources'
  BY <1>1, <1>2 DEF ProcessInv, RequestsKeepResources, InFlight
<1> QED
  BY <1>1, <1>3 DEF ProcessInv, ProcessShape, Serviceable, ServedInTime, InFlight

\* Requests arrive only while a server takes them, and until the cleanup all
\* they need is open.
LEMMA RequestKeeps ==
  ASSUME ProcessInv, NEW r \in Requests,
         RequestBegins(r) \/ QueryEnds(r) \/ CacheSet(r) \/ AnswerWritten(r)
  PROVE  ProcessInv'
<1>1. /\ UNCHANGED <<program, phase, at, open, serving, expired, exit>>
      /\ \E next \in RequestStates : request' = [request EXCEPT ![r] = next]
      /\ exit = "none"
  BY DEF RequestBegins, QueryEnds, CacheSet, AnswerWritten, RequestStates, Running
<1>2. /\ phase \in ProcessPhases \ {"over"}
      /\ request \in [Requests -> RequestStates]
  BY <1>1 DEF ProcessInv, ProcessShape, ServedInTime
<1>3. RequestBegins(r) \/ r \in InFlight
  BY DEF QueryEnds, CacheSet, AnswerWritten, InFlight
<1>4. RequestBegins(r) => serving # {}
  BY DEF RequestBegins
<1>5. InFlight' \subseteq InFlight \cup {r}
  BY <1>1, <1>2 DEF InFlight
<1>6. phase # "open"
  BY <1>3, <1>4 DEF ProcessInv, ServedInTime
<1>7. phase = "cleanup" => expired /\ ~ RequestBegins(r)
  BY <1>3, <1>4 DEF ProcessInv, ServedInTime
<1>8. phase = "stop" /\ at > Len(Servers(program)) => expired
  <2>1. /\ Len(Servers(program)) \in Nat /\ at \in Nat
    BY StepsOpenBoth DEF ProcessInv, ProcessShape
  <2> QED
    BY <1>3, <1>4, <2>1 DEF ProcessInv, ServedInTime
<1>9. RequestsKeepResources'
  <2>1. CASE phase \in {"serve", "wait", "stop"}
    BY <1>1, <2>1 DEF ProcessInv, Serviceable, RequestsKeepResources
  <2>2. CASE phase = "cleanup"
    <3>1. request'[r] # "query"
      BY <1>2, <1>7, <2>2 DEF QueryEnds, CacheSet, AnswerWritten
    <3> QED
      BY <1>1, <1>2, <1>7, <2>2, <3>1 DEF ProcessInv, RequestsKeepResources
  <2> QED
    BY <1>2, <1>6, <2>1, <2>2 DEF ProcessPhases
<1>10. ProcessShape' /\ Serviceable'
  BY <1>1, <1>2 DEF ProcessInv, ProcessShape, Serviceable
<1>11. ServedInTime'
  BY <1>1, <1>6, <1>7, <1>8 DEF ProcessInv, ServedInTime
<1> QED
  BY <1>9, <1>10, <1>11 DEF ProcessInv

LEMMA ProcessStepKeeps == ProcessInv /\ [ProcessNext]_processVars => ProcessInv'
<1>1. CASE MetricsServerFails \/ ReaderReturns \/ UNCHANGED processVars
  <2>1. UNCHANGED <<program, phase, at, open, serving, expired, request, exit>>
    BY <1>1 DEF MetricsServerFails, ReaderReturns, processVars
  <2> QED
    BY <2>1 DEF ProcessInv, ProcessShape, Serviceable, ServedInTime, RequestsKeepResources, InFlight
<1> QED
  BY <1>1, OpeningKeeps, ServingKeeps, ExitKeeps, StoppingKeeps, CleanupKeeps, RequestKeeps
     DEF ProcessNext, MainStep

\* Until a shutdown runs out of time nothing that a request still needs is
\* closed, and never a connection that a query holds (main.go:230-238,
\* shutdown.go:77-87, bootstrap.go:142-151).
THEOREM NothingIsClosedInUse == ProcessSpec => []RequestsKeepResources
<1>1. ProcessInv => RequestsKeepResources
  BY DEF ProcessInv
<1> QED
  BY InitProcessInv, ProcessStepKeeps, <1>1, PTL DEF ProcessSpec

-----------------------------------------------------------------------------
\* The indices of a program's steps.
StepsOf(p) == 1 .. Len(Steps(p))

\* While the program opens, the steps before `at` are open but for the optional
\* ones, and those from `at` on are neither open nor remembered.
OpenedSoFar ==
  phase = "open" => \A i \in StepsOf(program) :
    /\ i < at /\ Steps(program)[i] \notin Optional(program) => Steps(program)[i] \in open
    /\ i >= at => /\ Steps(program)[i] \notin open
                  /\ \A a \in 1 .. Len(cleanups) : cleanups[a] # Steps(program)[i]

\* What is open and to be closed is remembered, in the order of the steps.
Remembered ==
  /\ cleanups \in Seq(Resources)
  /\ \A i \in StepsOf(program) : Steps(program)[i] \in open \ NoCleanup(program) =>
        \E a \in 1 .. Len(cleanups) : cleanups[a] = Steps(program)[i]

RememberedInOrder ==
  \A a, b \in 1 .. Len(cleanups) : \A i, j \in StepsOf(program) :
    a < b /\ cleanups[a] = Steps(program)[i] /\ cleanups[b] = Steps(program)[j] => i < j

OpenInv == ProcessShape /\ OpenedSoFar /\ Remembered /\ RememberedInOrder /\ OpenInOrder

LEMMA StepsAreDistinct ==
  ASSUME NEW p \in {"full", "bootstrap"}
  PROVE  /\ Len(Steps(p)) \in Nat
         /\ \A i \in StepsOf(p) : Steps(p)[i] \in Resources
         /\ \A i, j \in StepsOf(p) : Steps(p)[i] = Steps(p)[j] => i = j
<1>1. CASE p = "full"
  <2>0. Steps(p) = <<"tracer", "metrics", "db", "cache", "bus", "http", "ws">>
    BY <1>1 DEF Steps
  <2>1. /\ Len(Steps(p)) = 7
        /\ Steps(p)[1] = "tracer" /\ Steps(p)[2] = "metrics" /\ Steps(p)[3] = "db"
        /\ Steps(p)[4] = "cache" /\ Steps(p)[5] = "bus" /\ Steps(p)[6] = "http" /\ Steps(p)[7] = "ws"
    BY <2>0
  <2>2. \A i \in StepsOf(p) : i = 1 \/ i = 2 \/ i = 3 \/ i = 4 \/ i = 5 \/ i = 6 \/ i = 7
    BY <2>1 DEF StepsOf
  <2> QED
    BY <2>1, <2>2 DEF Resources
<1>2. CASE p = "bootstrap"
  <2>0. Steps(p) = <<"metrics", "tracer", "db", "cache">>
    BY <1>2 DEF Steps
  <2>1. /\ Len(Steps(p)) = 4
        /\ Steps(p)[1] = "metrics" /\ Steps(p)[2] = "tracer" /\ Steps(p)[3] = "db"
        /\ Steps(p)[4] = "cache"
    BY <2>0
  <2>2. \A i \in StepsOf(p) : i = 1 \/ i = 2 \/ i = 3 \/ i = 4
    BY <2>1 DEF StepsOf
  <2> QED
    BY <2>1, <2>2 DEF Resources
<1> QED
  BY <1>1, <1>2

LEMMA InitOpenInv == ProcessInit => OpenInv
<1> SUFFICES ASSUME ProcessInit PROVE OpenInv
  OBVIOUS
<1>1. ProcessShape
  BY ProgramsAssumption DEF ProcessInit, ProcessShape, ProcessPhases, RequestStates
<1>2. cleanups = <<>> /\ cleanups \in Seq(Resources) /\ Len(cleanups) = 0
  BY DEF ProcessInit
<1>3. open = {} /\ at = 1 /\ \A a \in 1 .. Len(cleanups) : FALSE
  BY <1>2 DEF ProcessInit
<1>4. \A i \in StepsOf(program) : ~ (i < 1)
  BY StepsAreDistinct, <1>1 DEF StepsOf, ProcessShape
<1> QED
  BY <1>1, <1>2, <1>3, <1>4 DEF OpenInv, OpenedSoFar, Remembered, RememberedInOrder, OpenInOrder, StepsOf

\* What a step opens, it remembers last.
LEMMA OpeningInOrder ==
  ASSUME OpenInv, OpenStep \/ OpenTracer \/ InitMetrics
  PROVE  OpenedSoFar' /\ Remembered' /\ RememberedInOrder' /\ OpenInOrder'
<1> DEFINE S == Steps(program)
           I == StepsOf(program)
<1>1. /\ phase = "open" /\ phase' = "open" /\ at' = at + 1 /\ program' = program
      /\ at \in I /\ at \in Nat
      /\ open' = open \cup {S[at]}
      /\ cleanups' = IF S[at] \in NoCleanup(program) THEN cleanups ELSE Append(cleanups, S[at])
  BY DEF OpenStep, OpenTracer, InitMetrics, Opening, Step, StepsOf, OpenInv, ProcessShape, Remembers
<1>2. /\ I \subseteq Nat
      /\ \A i \in I : S[i] \in Resources
      /\ \A i, j \in I : S[i] = S[j] => i = j
  BY StepsAreDistinct DEF OpenInv, ProcessShape, StepsOf
<1>3. /\ \A i \in I : i < at /\ S[i] \notin Optional(program) => S[i] \in open
      /\ \A i \in I : i >= at => S[i] \notin open
      /\ \A i \in I, a \in 1 .. Len(cleanups) : i >= at => cleanups[a] # S[i]
  BY <1>1 DEF OpenInv, OpenedSoFar
<1>4. cleanups \in Seq(Resources) /\ Len(cleanups) \in Nat
  BY DEF OpenInv, Remembered
<1>5. \/ S[at] \in NoCleanup(program) /\ cleanups' = cleanups
      \/ /\ Len(cleanups') = Len(cleanups) + 1
         /\ \A a \in 1 .. Len(cleanups) : cleanups'[a] = cleanups[a]
         /\ cleanups'[Len(cleanups) + 1] = S[at]
  BY <1>1, <1>2, <1>4
<1>6. cleanups' \in Seq(Resources)
  BY <1>1, <1>2, <1>4
<1>7. \A a \in 1 .. Len(cleanups') : \/ a \in 1 .. Len(cleanups) /\ cleanups'[a] = cleanups[a]
                                     \/ a = Len(cleanups) + 1 /\ cleanups'[a] = S[at]
  BY <1>4, <1>5
<1> HIDE DEF S, I
<1>8. StepsOf(program') = I /\ Steps(program') = S /\ NoCleanup(program') = NoCleanup(program)
      /\ Optional(program') = Optional(program)
  BY <1>1 DEF S, I
<1>9. OpenedSoFar'
  <2>1. \A i \in I : i < at + 1 /\ S[i] \notin Optional(program) => S[i] \in open'
    <3>1. \A i \in I : i < at + 1 => i < at \/ i = at
      BY <1>1, <1>2
    <3> QED
      BY <1>1, <1>3, <3>1
  <2>2. \A i \in I : i >= at + 1 => i >= at /\ i # at
    BY <1>1, <1>2
  <2>3. \A i \in I : i >= at + 1 => S[i] \notin open'
    BY <1>1, <1>2, <1>3, <2>2
  <2>4. \A i \in I, a \in 1 .. Len(cleanups') : i >= at + 1 => cleanups'[a] # S[i]
    BY <1>1, <1>2, <1>3, <1>7, <2>2
  <2> QED
    BY <1>1, <1>8, <2>1, <2>3, <2>4 DEF OpenedSoFar, StepsOf
<1>10. Remembered'
  <2>1. ASSUME NEW i \in I, S[i] \in open' \ NoCleanup(program)
        PROVE  \E a \in 1 .. Len(cleanups') : cleanups'[a] = S[i]
    <3>1. CASE i = at
      <4>1. Len(cleanups') = Len(cleanups) + 1 /\ cleanups'[Len(cleanups) + 1] = S[at]
        BY <1>5, <2>1, <3>1
      <4> QED
        BY <1>4, <3>1, <4>1
    <3>2. CASE i # at
      <4>1. S[i] \in open \ NoCleanup(program)
        BY <1>1, <1>2, <2>1, <3>2
      <4>2. PICK a \in 1 .. Len(cleanups) : cleanups[a] = S[i]
        BY <4>1 DEF OpenInv, Remembered, S, I
      <4>3. a \in 1 .. Len(cleanups') /\ cleanups'[a] = cleanups[a]
        BY <1>4, <1>5, <4>2
      <4> QED
        BY <4>2, <4>3
    <3> QED
      BY <3>1, <3>2
  <2> QED
    BY <1>6, <1>8, <2>1 DEF Remembered, StepsOf
<1>11. RememberedInOrder'
  <2>1. ASSUME NEW a \in 1 .. Len(cleanups'), NEW b \in 1 .. Len(cleanups'), NEW i \in I, NEW j \in I,
               a < b, cleanups'[a] = S[i], cleanups'[b] = S[j]
        PROVE  i < j
    <3>1. a \in 1 .. Len(cleanups) /\ cleanups'[a] = cleanups[a]
      BY <1>4, <1>5, <1>7, <2>1
    <3>2. CASE b \in 1 .. Len(cleanups) /\ cleanups'[b] = cleanups[b]
      BY <2>1, <3>1, <3>2 DEF OpenInv, RememberedInOrder, S, I
    <3>3. CASE cleanups'[b] = S[at]
      <4>1. j = at /\ ~ (i >= at)
        BY <1>1, <1>2, <1>3, <2>1, <3>1, <3>3
      <4> QED
        BY <1>1, <1>2, <4>1
    <3> QED
      BY <1>7, <3>2, <3>3
  <2> QED
    BY <1>8, <2>1 DEF RememberedInOrder, StepsOf
<1>12. OpenInOrder'
  <2>1. ASSUME NEW i \in I, NEW j \in I, i < j, S[j] \in open', S[j] \notin NoCleanup(program),
               S[i] \notin Optional(program)
        PROVE  S[i] \in open'
    <3>1. CASE j = at
      BY <1>1, <1>3, <2>1, <3>1
    <3>2. CASE j # at
      <4>1. S[j] \in open
        BY <1>1, <1>2, <2>1, <3>2
      <4> QED
        BY <1>1, <2>1, <4>1 DEF OpenInv, OpenInOrder, S, I, StepsOf
    <3> QED
      BY <3>1, <3>2
  <2> QED
    BY <1>8, <2>1 DEF OpenInOrder, StepsOf
<1> QED
  BY <1>9, <1>10, <1>11, <1>12

\* A cleanup closes what was remembered last, so nothing that came later is open.
LEMMA CleaningInOrder ==
  ASSUME OpenInv, CleanupNext \/ ShutdownMetrics
  PROVE  OpenedSoFar' /\ Remembered' /\ RememberedInOrder' /\ OpenInOrder'
<1> DEFINE S == Steps(program)
           I == StepsOf(program)
           n == Len(cleanups)
<1>1. /\ phase' # "open" /\ program' = program /\ cleanups # <<>>
      /\ open' = open \ {cleanups[n]}
      /\ cleanups' = SubSeq(cleanups, 1, n - 1)
  BY DEF CleanupNext, ShutdownMetrics, Cleaning, NextCleanup, Remaining
<1>2. cleanups \in Seq(Resources) /\ n \in Nat \ {0}
  BY <1>1 DEF OpenInv, Remembered
<1>3. /\ cleanups' \in Seq(Resources) /\ Len(cleanups') = n - 1
      /\ \A a \in 1 .. n - 1 : cleanups'[a] = cleanups[a]
  <2>1. n - 1 \in Int /\ \A a \in 1 .. n - 1 : cleanups[a] \in Resources
    BY <1>2
  <2> HIDE DEF n
  <2>2. /\ cleanups' \in Seq(Resources)
        /\ Len(cleanups') = IF 1 <= n - 1 THEN n - 1 - 1 + 1 ELSE 0
        /\ \A a \in 1 .. n - 1 - 1 + 1 : cleanups'[a] = cleanups[1 + a - 1]
    BY <1>1, <2>1, SubSeqProperties
  <2> QED
    BY <1>2, <2>2
<1>4. /\ 1 .. n - 1 \subseteq 1 .. n /\ n \in 1 .. n
      /\ \A a \in 1 .. n : a = n \/ (a \in 1 .. n - 1 /\ a < n)
  BY <1>2
<1>5. I \subseteq Nat
  BY StepsAreDistinct DEF OpenInv, ProcessShape, StepsOf
<1> HIDE DEF S, I, n
<1>6. StepsOf(program') = I /\ Steps(program') = S /\ NoCleanup(program') = NoCleanup(program)
      /\ Optional(program') = Optional(program)
  BY <1>1 DEF S, I
<1>7. \A i \in I : S[i] \in open' \ NoCleanup(program) =>
         \E a \in 1 .. n - 1 : a < n /\ cleanups[a] = S[i]
  BY <1>1, <1>4 DEF OpenInv, Remembered, S, I, n
<1>8. OpenedSoFar'
  BY <1>1 DEF OpenedSoFar
<1>9. Remembered'
  BY <1>3, <1>6, <1>7 DEF Remembered, StepsOf
<1>10. RememberedInOrder'
  <2>1. ASSUME NEW a \in 1 .. n - 1, NEW b \in 1 .. n - 1, NEW i \in I, NEW j \in I,
               a < b, cleanups'[a] = S[i], cleanups'[b] = S[j]
        PROVE  i < j
    BY <1>3, <1>4, <2>1 DEF OpenInv, RememberedInOrder, S, I, n
  <2> QED
    BY <1>3, <1>6, <2>1 DEF RememberedInOrder, StepsOf
<1>11. OpenInOrder'
  <2>1. ASSUME NEW i \in I, NEW j \in I, i < j, S[j] \in open', S[j] \notin NoCleanup(program),
               S[i] \notin Optional(program)
        PROVE  S[i] \in open'
    <3>1. S[i] \in open
      BY <1>1, <2>1 DEF OpenInv, OpenInOrder, S, I, StepsOf
    <3>2. PICK a \in 1 .. n - 1 : a < n /\ cleanups[a] = S[j]
      BY <1>7, <2>1
    <3>3. cleanups[n] = S[i] => j < i
      BY <1>4, <3>2 DEF OpenInv, RememberedInOrder, S, I, n
    <3>4. ~ (j < i)
      BY <1>5, <2>1
    <3> QED
      BY <1>1, <3>1, <3>3, <3>4
  <2> QED
    BY <1>6, <2>1 DEF OpenInOrder, StepsOf
<1> QED
  BY <1>8, <1>9, <1>10, <1>11

LEMMA SkippingInOrder ==
  ASSUME OpenInv, OpenSkipped
  PROVE  OpenedSoFar'
<1>1. /\ phase = "open" /\ at' = at + 1 /\ UNCHANGED <<program, phase, open, cleanups>>
      /\ Steps(program)[at] \in Optional(program) /\ at \in Nat
  BY DEF OpenSkipped, Opening, Step, OpenInv, ProcessShape
<1>2. StepsOf(program) \subseteq Nat
  BY StepsAreDistinct DEF OpenInv, ProcessShape, StepsOf
<1>3. \A i \in StepsOf(program) : /\ i < at + 1 => i < at \/ i = at
                                  /\ i >= at + 1 => i >= at
  BY <1>1, <1>2
<1> QED
  BY <1>1, <1>3 DEF OpenInv, OpenedSoFar, StepsOf

LEMMA OpenStepKeeps == OpenInv /\ ProcessShape' /\ [ProcessNext]_processVars => OpenInv'
<1> SUFFICES ASSUME OpenInv, ProcessShape', [ProcessNext]_processVars PROVE OpenInv'
  OBVIOUS
<1>1. CASE OpenStep \/ OpenTracer \/ InitMetrics
  BY <1>1, OpeningInOrder DEF OpenInv
<1>2. CASE CleanupNext \/ ShutdownMetrics
  BY <1>2, CleaningInOrder DEF OpenInv
<1>3. CASE UNCHANGED <<program, open, cleanups>> /\ (OpenSkipped \/ phase' # "open" \/ UNCHANGED <<phase, at>>)
  <2>1. OpenedSoFar'
    BY <1>3, SkippingInOrder DEF OpenInv, OpenedSoFar, StepsOf
  <2>2. Remembered' /\ RememberedInOrder' /\ OpenInOrder'
    BY <1>3 DEF OpenInv, Remembered, RememberedInOrder, OpenInOrder, StepsOf
  <2> QED
    BY <2>1, <2>2 DEF OpenInv
<1>4. \/ OpenStep \/ OpenTracer \/ InitMetrics \/ CleanupNext \/ ShutdownMetrics
      \/ UNCHANGED <<program, open, cleanups>> /\ (OpenSkipped \/ phase' # "open" \/ UNCHANGED <<phase, at>>)
  <2>1. CASE OpenSkipped \/ MetricsServerFails \/ ReaderReturns \/ ShutdownTimesOut \/ StopAccepting \/ UNCHANGED processVars
    BY <2>1 DEF OpenSkipped, MetricsServerFails, ReaderReturns, ShutdownTimesOut, StopAccepting, processVars
  <2>2. CASE OpenFatal \/ BootstrapFails \/ Opened \/ StartServer \/ ServeFatal \/ WaitForSignal
             \/ SignalKills \/ SignalShutsDown \/ StopReturns \/ AllStopped \/ Return
    BY <2>2 DEF OpenFatal, BootstrapFails, Opened, StartServer, ServeFatal, WaitForSignal, SignalKills,
                SignalShutsDown, StopReturns, AllStopped, Return, Exits
  <2>3. CASE \E r \in Requests : RequestBegins(r) \/ QueryEnds(r) \/ CacheSet(r) \/ AnswerWritten(r)
    BY <2>3 DEF RequestBegins, QueryEnds, CacheSet, AnswerWritten
  <2> QED
    BY <2>1, <2>2, <2>3 DEF ProcessNext, MainStep
<1> QED
  BY <1>1, <1>2, <1>3, <1>4

\* Whatever is open, what was opened before it is open too: while the program
\* opens its components, after a step that failed, and half way through the
\* cleanups, which run in the reverse of the order in which they were
\* remembered (bootstrap.go:79-134, 142-151; main.go:85-160).
THEOREM OpenedInOrder == ProcessSpec => []OpenInOrder
<1>1. ProcessInit => ProcessInv /\ OpenInv
  BY InitProcessInv, InitOpenInv
<1>2. ProcessInv /\ OpenInv /\ [ProcessNext]_processVars => (ProcessInv /\ OpenInv)'
  BY ProcessStepKeeps, OpenStepKeeps DEF ProcessInv
<1>3. OpenInv => OpenInOrder
  BY DEF OpenInv
<1> QED
  BY <1>1, <1>2, <1>3, PTL DEF ProcessSpec
=============================================================================
