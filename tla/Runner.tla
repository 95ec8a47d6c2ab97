------------------------------- MODULE Runner -------------------------------
(***************************************************************************)
(* pkg/runner: a Runner starts its services in dependency order, watches   *)
(* each one with a monitor goroutine that restarts it, and stops them in   *)
(* reverse order.                                                          *)
(*                                                                         *)
(* Processes: the goroutines that call Add, Start and Stop (one call each; *)
(* a call that is repeated is another member of StartCalls or StopCalls),  *)
(* and the monitors that startService spawns.  A step is what happens      *)
(* between two points where another goroutine can run: a section under     *)
(* r.mu or svc.mu, a call into a service, a select.                        *)
(*                                                                         *)
(* The services themselves are the environment: any value of the           *)
(* service.Service interface (pkg/service/service.go).                     *)
(***************************************************************************)
EXTENDS Naturals, Sequences, FiniteSets

CONSTANTS
    Services,       \* the services Add is called with
    DependsOn,      \* DependsOn[s]: names s lists in WithDependsOn
    Policy,         \* Policy[s]: its RestartPolicy
    MaxRetries,     \* MaxRetries[s]: its RestartConfig.MaxRetries, 0 = unlimited
    Delayed,        \* the services with a StartDelay
    StartCalls,     \* calls of Runner.Start
    StopCalls,      \* calls of Runner.Stop
    NoContext,      \* a nil context or cancel function, or a cancelled service context
    Serial,         \* TRUE: one goroutine calls Add, Start and Stop, as in the package example
    CountBound      \* restartCount saturates here

Calls == StartCalls \cup StopCalls

ASSUME FiniteInstance == IsFiniteSet(Services) /\ IsFiniteSet(StartCalls)
ASSUME CallsDisjoint == StartCalls \cap StopCalls = {} /\ NoContext \notin Calls
ASSUME ConfigAssumption ==
    /\ DependsOn \in [Services -> SUBSET Services]
    /\ Policy \in [Services -> {"never", "always", "on-failure"}]
    /\ MaxRetries \in [Services -> Nat]
    /\ Delayed \subseteq Services
    /\ Serial \in BOOLEAN
    /\ CountBound \in Nat
(* Saturation never changes what shouldRestart answers. *)
ASSUME CountBoundLargeEnough ==
    \A s \in Services : CountBound >= MaxRetries[s] + Cardinality(StartCalls)

Monitors == StartCalls \X Services      \* <<c, s>>: spawned by call c for service s
Contexts == StartCalls \cup {NoContext} \* the runner context that call c creates is c

VARIABLES
    services,       \* the keys of r.services
    startOrder,     \* r.startOrder
    running,        \* r.running
    rctx,           \* r.ctx, and the context r.cancel cancels
    cancelled,      \* the runner contexts that are cancelled
    svcRunning,     \* managedService.running
    restartCount,   \* managedService.restartCount
    svcCtx,         \* the parent of the live context that managedService.cancel cancels
    pc,             \* pc[p]: where call p is
    order, at,      \* the slice call p ranges over, and its position in it
    callCtx,        \* the ctx argument of call c's current startService
    monitor,        \* monitor[m]: where monitor m is
    monCtx,         \* the ctx argument of monitor m
    instance        \* the service itself (environment)

runnerVars == <<services, startOrder, running, rctx, cancelled>>
managedVars == <<svcRunning, restartCount, svcCtx>>
callVars == <<pc, order, at, callCtx>>
monitorVars == <<monitor, monCtx>>
vars == <<runnerVars, managedVars, callVars, monitorVars, instance>>

-----------------------------------------------------------------------------
Returned == {"refused", "returned", "failed", "noop"}

StartPhases == {"idle", "next", "delay", "call", "starting", "mark", "spawn"}
StopPhases == {"stop", "stopNext", "stopCall", "stopMark", "wait"}

MonitorPhases ==
    {"none", "check", "probe", "claim", "backoff", "stop", "mark", "start",
     "starting", "up", "done"}

Active(m) == monitor[m] \notin {"none", "done"}

(* A service whose last Stop returned an error without stopping it is       *)
(* "stuck", and "broken" if its Health fails as well.                       *)
InstanceStates == {"down", "up", "sick", "stuck", "broken"}

TypeOK ==
    /\ services \subseteq Services
    /\ startOrder \in Seq(Services)
    /\ running \in BOOLEAN
    /\ rctx \in Contexts
    /\ cancelled \subseteq Contexts
    /\ svcRunning \in [Services -> BOOLEAN]
    /\ restartCount \in [Services -> Nat]
    /\ svcCtx \in [Services -> Contexts]
    /\ pc \in [Calls -> StartPhases \cup StopPhases \cup Returned]
    /\ order \in [Calls -> Seq(Services)]
    /\ at \in [Calls -> Nat]
    /\ callCtx \in [StartCalls -> Contexts]
    /\ monitor \in [Monitors -> MonitorPhases]
    /\ monCtx \in [Monitors -> Contexts]
    /\ instance \in [Services -> InstanceStates]

Init ==
    /\ services = {}
    /\ startOrder = <<>>
    /\ running = FALSE
    /\ rctx = NoContext
    /\ cancelled = {}
    /\ svcRunning = [s \in Services |-> FALSE]
    /\ restartCount = [s \in Services |-> 0]
    /\ svcCtx = [s \in Services |-> NoContext]
    /\ pc = [p \in Calls |-> "idle"]
    /\ order = [p \in Calls |-> <<>>]
    /\ at = [p \in Calls |-> 1]
    /\ callCtx = [c \in StartCalls |-> NoContext]
    /\ monitor = [m \in Monitors |-> "none"]
    /\ monCtx = [m \in Monitors |-> NoContext]
    /\ instance = [s \in Services |-> "down"]

-----------------------------------------------------------------------------
(* The environment: what Start, Stop and Health of a service.Service do.    *)

(* Start returns nil.  Only a stopped service changes by it: one that is    *)
(* already started may refuse (HTTPService) or do nothing.  Start may       *)
(* succeed although its context is cancelled.                               *)
ServiceStarts(s) ==
    instance' = [instance EXCEPT ![s] = IF @ = "down" THEN "up" ELSE @]

(* What a Stop that fails leaves: the service as it was, its Health too. *)
Unstopped(state) ==
    CASE state \in {"up", "stuck"}    -> "stuck"
      [] state \in {"sick", "broken"} -> "broken"
      [] OTHER                        -> "down"

(* Stop returns nil, or an error with the service not stopped (a timeout). *)
ServiceStops(s) ==
    \/ instance' = [instance EXCEPT ![s] = "down"]
    \/ instance' = [instance EXCEPT ![s] = Unstopped(@)]

(* A service that started fails, and its Health says so until it is stopped *)
(* and started again.                                                       *)
Crash(s) ==
    /\ instance[s] \in {"up", "stuck"}
    /\ instance' = [instance EXCEPT ![s] = IF @ = "up" THEN "sick" ELSE "broken"]
    /\ UNCHANGED <<runnerVars, managedVars, callVars, monitorVars>>

HealthErr(s) == instance[s] \in {"down", "sick", "broken"}

(* The context that the caller passed to Start is cancelled, and r.ctx with it. *)
CallerCancels(c) ==
    /\ pc[c] \notin {"idle", "refused"}
    /\ c \notin cancelled
    /\ cancelled' = cancelled \cup {c}
    /\ UNCHANGED <<services, startOrder, running, rctx, managedVars, callVars,
                   monitorVars, instance>>

(* One goroutine calls Add, Start and Stop in turn. *)
MayCall == Serial => \A p \in Calls : pc[p] \in Returned \cup {"idle"}

-----------------------------------------------------------------------------
(* Runner.Add. *)
Add(s) ==
    /\ MayCall
    /\ ~ running
    /\ s \notin services
    /\ services' = services \cup {s}
    /\ UNCHANGED <<startOrder, running, rctx, cancelled, managedVars, callVars,
                   monitorVars, instance>>

-----------------------------------------------------------------------------
(* Runner.Start and startService. *)

(* What topologicalSort may return for the services S: nothing when a       *)
(* dependency is missing or in a cycle.  Ordering models the loop itself.   *)
StartOrders(S) ==
    {o \in [1 .. Cardinality(S) -> S] :
        /\ \A s \in S : \E i \in DOMAIN o : o[i] = s
        /\ \A i \in DOMAIN o : \A d \in DependsOn[o[i]] :
              \E j \in DOMAIN o : j < i /\ o[j] = d}

Goto(p, phase) == pc' = [pc EXCEPT ![p] = phase]

Current(p) == order[p][at[p]]
Step(p) == at' = [at EXCEPT ![p] = @ + 1]

StartRefused(c) ==
    /\ pc[c] = "idle"
    /\ MayCall
    /\ running \/ services = {} \/ StartOrders(services) = {}
    /\ Goto(c, "refused")
    /\ UNCHANGED <<runnerVars, managedVars, order, at, callCtx, monitorVars, instance>>

StartBegin(c) ==
    /\ pc[c] = "idle"
    /\ MayCall
    /\ ~ running
    /\ services # {}
    /\ \E o \in StartOrders(services) :
          /\ startOrder' = o
          /\ order' = [order EXCEPT ![c] = o]
    /\ rctx' = c
    /\ running' = TRUE
    /\ Goto(c, "next")
    /\ UNCHANGED <<services, cancelled, managedVars, at, callCtx, monitorVars, instance>>

StartReturn(c) ==
    /\ pc[c] = "next"
    /\ at[c] > Len(order[c])
    /\ Goto(c, "returned")
    /\ UNCHANGED <<runnerVars, managedVars, order, at, callCtx, monitorVars, instance>>

(* The loop reads r.ctx again for each service, without r.mu. *)
StartNext(c) ==
    /\ pc[c] = "next"
    /\ at[c] <= Len(order[c])
    /\ callCtx' = [callCtx EXCEPT ![c] = rctx]
    /\ Goto(c, IF Current(c) \in Delayed THEN "delay" ELSE "call")
    /\ UNCHANGED <<runnerVars, managedVars, order, at, monitorVars, instance>>

StartDelayElapses(c) ==
    /\ pc[c] = "delay"
    /\ Goto(c, "call")
    /\ UNCHANGED <<runnerVars, managedVars, order, at, callCtx, monitorVars, instance>>

StartDelayCancelled(c) ==
    /\ pc[c] = "delay"
    /\ callCtx[c] \in cancelled
    /\ Goto(c, "stop")
    /\ UNCHANGED <<runnerVars, managedVars, order, at, callCtx, monitorVars, instance>>

(* svc.cancel = cancel, then service.Start is called... *)
StartService(c) ==
    /\ pc[c] = "call"
    /\ svcCtx' = [svcCtx EXCEPT ![Current(c)] = callCtx[c]]
    /\ Goto(c, "starting")
    /\ UNCHANGED <<runnerVars, svcRunning, restartCount, order, at, callCtx,
                   monitorVars, instance>>

(* ... and returns nil *)
StartServiceOk(c) ==
    /\ pc[c] = "starting"
    /\ ServiceStarts(Current(c))
    /\ Goto(c, "mark")
    /\ UNCHANGED <<runnerVars, managedVars, order, at, callCtx, monitorVars>>

FailureIsPassedOver(c) ==       \* mutant: the error of startService is ignored
    /\ pc[c] = "starting"
    /\ Step(c)
    /\ Goto(c, "next")
    /\ UNCHANGED <<runnerVars, managedVars, order, callCtx, monitorVars, instance>>

(* ... or an error: its context is cancelled, and Start calls r.Stop. *)
StartServiceFails(c) ==
    /\ pc[c] = "starting"
    /\ svcCtx' = [svcCtx EXCEPT ![Current(c)] = IF @ = callCtx[c] THEN NoContext ELSE @]
    /\ Goto(c, "stop")
    /\ UNCHANGED <<runnerVars, svcRunning, restartCount, order, at, callCtx,
                   monitorVars, instance>>

StartMarkRunning(c) ==
    /\ pc[c] = "mark"
    /\ svcRunning' = [svcRunning EXCEPT ![Current(c)] = TRUE]
    /\ IF Policy[Current(c)] = "never"
          THEN Step(c) /\ Goto(c, "next")
          ELSE UNCHANGED at /\ Goto(c, "spawn")
    /\ UNCHANGED <<runnerVars, restartCount, svcCtx, order, callCtx, monitorVars, instance>>

(* r.wg.Add(1); go r.monitorService(ctx, name, svc) *)
StartSpawnMonitor(c) ==
    LET m == <<c, Current(c)>>
    IN  /\ pc[c] = "spawn"
        /\ monitor' = [monitor EXCEPT ![m] = "check"]
        /\ monCtx' = [monCtx EXCEPT ![m] = callCtx[c]]
        /\ Step(c)
        /\ Goto(c, "next")
        /\ UNCHANGED <<runnerVars, managedVars, order, callCtx, instance>>

-----------------------------------------------------------------------------
(* Runner.Stop, called by p: a Stop call, or a Start call that failed. *)

Reverse(seq) == [i \in 1 .. Len(seq) |-> seq[Len(seq) + 1 - i]]

StartOrderKept == startOrder            \* mutant: services stop in start order

StopOrder == Reverse(startOrder)

MonitorsKeepContext == cancelled        \* mutant: r.cancel is not called

(* r.cancel() *)
CancelledByStop == cancelled \cup {rctx}

EntersStop(p) ==
    \/ p \in StopCalls /\ pc[p] = "idle" /\ MayCall
    \/ p \in StartCalls /\ pc[p] = "stop"

StopDone(p) == IF p \in StartCalls THEN "failed" ELSE "returned"

StopNotRunning(p) ==
    /\ EntersStop(p)
    /\ ~ running
    /\ Goto(p, IF p \in StartCalls THEN "failed" ELSE "noop")
    /\ UNCHANGED <<runnerVars, managedVars, order, at, callCtx, monitorVars, instance>>

StopBegin(p) ==
    /\ EntersStop(p)
    /\ running
    /\ running' = FALSE
    /\ cancelled' = CancelledByStop
    /\ order' = [order EXCEPT ![p] = StopOrder]
    /\ at' = [at EXCEPT ![p] = 1]
    /\ Goto(p, "stopNext")
    /\ UNCHANGED <<services, startOrder, rctx, managedVars, callCtx, monitorVars, instance>>

StopBreaks(p) == Goto(p, "wait") /\ UNCHANGED at   \* mutant: break for continue

(* A service that is not marked running is passed over. *)
StopContinues(p) == Step(p) /\ UNCHANGED pc

(* svc.running is read under svc.mu and acted on after the unlock. *)
StopNext(p) ==
    /\ pc[p] = "stopNext"
    /\ at[p] <= Len(order[p])
    /\ IF svcRunning[Current(p)]
          THEN Goto(p, "stopCall") /\ UNCHANGED at
          ELSE StopContinues(p)
    /\ UNCHANGED <<runnerVars, managedVars, order, callCtx, monitorVars, instance>>

StopService(p) ==
    /\ pc[p] = "stopCall"
    /\ ServiceStops(Current(p))
    /\ Goto(p, "stopMark")
    /\ UNCHANGED <<runnerVars, managedVars, order, at, callCtx, monitorVars>>

StopMark(p) ==
    /\ pc[p] = "stopMark"
    /\ svcCtx' = [svcCtx EXCEPT ![Current(p)] = NoContext]
    /\ svcRunning' = [svcRunning EXCEPT ![Current(p)] = FALSE]
    /\ Step(p)
    /\ Goto(p, "stopNext")
    /\ UNCHANGED <<runnerVars, restartCount, order, callCtx, monitorVars, instance>>

StopAll(p) ==
    /\ pc[p] = "stopNext"
    /\ at[p] > Len(order[p])
    /\ Goto(p, "wait")
    /\ UNCHANGED <<runnerVars, managedVars, order, at, callCtx, monitorVars, instance>>

NoWait == TRUE                          \* mutant: r.wg.Wait is left out

(* r.wg is zero: no monitor of any Start call is left. *)
MonitorsGone == \A m \in Monitors : ~ Active(m)

StopWait(p) ==
    /\ pc[p] = "wait"
    /\ MonitorsGone
    /\ Goto(p, StopDone(p))
    /\ UNCHANGED <<runnerVars, managedVars, order, at, callCtx, monitorVars, instance>>

-----------------------------------------------------------------------------
(* monitorService of service s, spawned by Start call c. *)

MonitorGoto(m, phase) == monitor' = [monitor EXCEPT ![m] = phase]

MonitorExitInBackoff(m) ==      \* mutant: the loop does not look at ctx.Done
    /\ monitor[m] = "backoff"
    /\ monCtx[m] \in cancelled
    /\ MonitorGoto(m, "done")
    /\ UNCHANGED <<runnerVars, managedVars, callVars, monCtx, instance>>

(* ctx.Done at the head of the loop, or during the backoff. *)
MonitorExit(m) ==
    /\ monitor[m] \in {"check", "backoff"}
    /\ monCtx[m] \in cancelled
    /\ MonitorGoto(m, "done")
    /\ UNCHANGED <<runnerVars, managedVars, callVars, monCtx, instance>>

MonitorCheck(m) ==
    /\ monitor[m] = "check"
    /\ monCtx[m] \notin cancelled
    /\ MonitorGoto(m, "probe")
    /\ UNCHANGED <<runnerVars, managedVars, callVars, monCtx, instance>>

OneRetryMore(s) ==              \* mutant: <= for <
    /\ HealthErr(s)
    /\ MaxRetries[s] > 0 => restartCount[s] <= MaxRetries[s]
    /\ Policy[s] \in {"always", "on-failure"}

OnlyAlways(s) ==                \* mutant: on-failure never restarts
    /\ HealthErr(s)
    /\ MaxRetries[s] > 0 => restartCount[s] < MaxRetries[s]
    /\ Policy[s] = "always"

(* shouldRestart is asked only after Health returned an error. *)
ShouldRestart(s) ==
    /\ HealthErr(s)
    /\ MaxRetries[s] > 0 => restartCount[s] < MaxRetries[s]
    /\ Policy[s] \in {"always", "on-failure"}

MonitorProbe(m) ==
    /\ monitor[m] = "probe"
    /\ MonitorGoto(m, IF ShouldRestart(m[2]) THEN "claim" ELSE "check")
    /\ UNCHANGED <<runnerVars, managedVars, callVars, monCtx, instance>>

Counted(n) == IF n < CountBound THEN n + 1 ELSE n

(* svc.mu was released between the question and this increment. *)
MonitorClaim(m) ==
    /\ monitor[m] = "claim"
    /\ restartCount' = [restartCount EXCEPT ![m[2]] = Counted(@)]
    /\ MonitorGoto(m, "backoff")
    /\ UNCHANGED <<runnerVars, svcRunning, svcCtx, callVars, monCtx, instance>>

MonitorBackoffElapses(m) ==
    /\ monitor[m] = "backoff"
    /\ MonitorGoto(m, "stop")
    /\ UNCHANGED <<runnerVars, managedVars, callVars, monCtx, instance>>

(* The error of service.Stop is ignored. *)
MonitorStops(m) ==
    /\ monitor[m] = "stop"
    /\ ServiceStops(m[2])
    /\ MonitorGoto(m, "mark")
    /\ UNCHANGED <<runnerVars, managedVars, callVars, monCtx>>

MonitorMarkForgotten(m) ==      \* mutant: the flag stays set over a restart
    /\ monitor[m] = "mark"
    /\ svcCtx' = [svcCtx EXCEPT ![m[2]] = NoContext]
    /\ MonitorGoto(m, "start")
    /\ UNCHANGED <<runnerVars, svcRunning, restartCount, callVars, monCtx, instance>>

MonitorMark(m) ==
    /\ monitor[m] = "mark"
    /\ svcCtx' = [svcCtx EXCEPT ![m[2]] = NoContext]
    /\ svcRunning' = [svcRunning EXCEPT ![m[2]] = FALSE]
    /\ MonitorGoto(m, "start")
    /\ UNCHANGED <<runnerVars, restartCount, callVars, monCtx, instance>>

MonitorStarts(m) ==
    /\ monitor[m] = "start"
    /\ svcCtx' = [svcCtx EXCEPT ![m[2]] = monCtx[m]]
    /\ MonitorGoto(m, "starting")
    /\ UNCHANGED <<runnerVars, svcRunning, restartCount, callVars, monCtx, instance>>

MonitorStartOk(m) ==
    /\ monitor[m] = "starting"
    /\ ServiceStarts(m[2])
    /\ MonitorGoto(m, "up")
    /\ UNCHANGED <<runnerVars, managedVars, callVars, monCtx>>

(* svc.running stays FALSE; the next turn of the loop tries again. *)
MonitorStartFails(m) ==
    /\ monitor[m] = "starting"
    /\ svcCtx' = [svcCtx EXCEPT ![m[2]] = IF @ = monCtx[m] THEN NoContext ELSE @]
    /\ MonitorGoto(m, "check")
    /\ UNCHANGED <<runnerVars, svcRunning, restartCount, callVars, monCtx, instance>>

MonitorMarkRunning(m) ==
    /\ monitor[m] = "up"
    /\ svcRunning' = [svcRunning EXCEPT ![m[2]] = TRUE]
    /\ MonitorGoto(m, "check")
    /\ UNCHANGED <<runnerVars, restartCount, svcCtx, callVars, monCtx, instance>>

-----------------------------------------------------------------------------
(* The steps of a call once it was made, and of a monitor. *)
StartStep(c) ==
    \/ StartReturn(c) \/ StartNext(c)
    \/ StartDelayElapses(c) \/ StartDelayCancelled(c)
    \/ StartService(c) \/ StartServiceOk(c) \/ StartServiceFails(c)
    \/ StartMarkRunning(c) \/ StartSpawnMonitor(c)

StopLoop(p) ==
    StopNext(p) \/ StopService(p) \/ StopMark(p) \/ StopAll(p) \/ StopWait(p)

StopEntry(p) == StopNotRunning(p) \/ StopBegin(p)

MonitorStep(m) ==
    \/ MonitorExit(m) \/ MonitorCheck(m) \/ MonitorProbe(m) \/ MonitorClaim(m)
    \/ MonitorBackoffElapses(m) \/ MonitorStops(m) \/ MonitorMark(m)
    \/ MonitorStarts(m) \/ MonitorStartOk(m) \/ MonitorStartFails(m)
    \/ MonitorMarkRunning(m)

Next ==
    \/ \E s \in Services : Add(s) \/ Crash(s)
    \/ \E c \in StartCalls :
          StartRefused(c) \/ StartBegin(c) \/ CallerCancels(c) \/ StartStep(c)
    \/ \E p \in Calls : StopEntry(p) \/ StopLoop(p)
    \/ \E m \in Monitors : MonitorStep(m)

Spec == Init /\ [][Next]_vars

(* A call that was made and a monitor that was spawned take their next      *)
(* step: they are goroutines, and delays and backoffs elapse.  That the     *)
(* services' Start and Stop return is assumed of them: no Start gets a      *)
(* deadline, a monitor's Stop gets 30 s, and Runner.Stop passes its         *)
(* caller's context on.  No one has to call Start or Stop.                  *)
Fairness ==
    /\ \A c \in StartCalls :
          WF_vars(StartStep(c) \/ StopLoop(c) \/ StopEntry(c))
    /\ \A z \in StopCalls : WF_vars(StopLoop(z))
    /\ \A m \in Monitors : WF_vars(MonitorStep(m))

FairSpec == Spec /\ Fairness

=============================================================================
