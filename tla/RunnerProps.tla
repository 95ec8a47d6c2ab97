----------------------------- MODULE RunnerProps ----------------------------
(***************************************************************************)
(* What pkg/runner is meant to guarantee, over the state of Runner.        *)
(***************************************************************************)
EXTENDS Runner

(* No Start or Stop call is under way. *)
Quiet == \A p \in Calls : pc[p] \in Returned \cup {"idle"}

(* A Start call that was let in. *)
Began(c) == pc[c] \notin {"idle", "refused"}

(* Down, or up because it refused to stop. *)
Halted(s) == instance[s] \in {"down", "stuck", "broken"}

(* A monitor set about restarting it at some time. *)
Restarted(s) == Policy[s] # "never" /\ restartCount[s] > 0

(* Cancelling a runner's context is what ends its monitors: at every moment *)
(* at most the context of the current run is live, and it is dead once Stop *)
(* has let go of r.mu, whatever Start and Stop calls overlap                *)
(* (runner.go:147-151, 279-284).                                            *)
OnlyCurrentContextLive ==
    /\ \A c \in StartCalls : Began(c) /\ c \notin cancelled => running /\ rctx = c
    /\ running => rctx \in StartCalls /\ Began(rctx)

(* When a service's Start is called, the Start of every service it depends  *)
(* on returned nil in the same Start call: a watched dependency has the     *)
(* monitor this call spawned for it, whatever other callers do meanwhile,   *)
(* and when one goroutine makes the calls every dependency is marked        *)
(* running and was not stopped since, unless its monitor set about          *)
(* restarting it (runner.go:154-164, 181-200).                              *)
StartsAfterDependencies ==
    \A c \in StartCalls : pc[c] \in {"delay", "call", "starting", "mark", "spawn"} =>
        \A d \in DependsOn[Current(c)] :
            /\ Policy[d] # "never" => monitor[<<c, d>>] # "none"
            /\ Serial => (svcRunning[d] /\ instance[d] # "down") \/ Restarted(d)

(* Doc of WithDependsOn: "The service will wait for all dependencies to be  *)
(* healthy before starting." (options.go:30).  Start goes on to a service   *)
(* only when no dependency's Health fails.                                  *)
WaitsForHealthyDependencies ==
    [][\A c \in StartCalls : StartNext(c) =>
          \A d \in DependsOn[Current(c)] : ~ HealthErr(d)]_vars

(* One goroutine makes the calls and none is under way: a runner that is    *)
(* not running has no monitor left, so nothing can restart a service        *)
(* (runner.go:321-322).                                                     *)
NoMonitorAfterStop ==
    Serial /\ Quiet /\ ~ running => \A m \in Monitors : ~ Active(m)

(* ... and no service is left running, after a Stop as after a Start that   *)
(* failed half way, unless a monitor set about restarting it at some time:  *)
(* Stop skips a service that its monitor holds between Stop and Start       *)
(* (runner.go:159-163, 293-319).                                            *)
NeverRestartedAreStopped ==
    Serial /\ Quiet /\ ~ running =>
        \A s \in Services : restartCount[s] = 0 =>
            ~ svcRunning[s] /\ Halted(s)

(* MaxRetries bounds the restarts over the runner's whole life, Stop and    *)
(* Start do not renew it.  The count is read and incremented in two         *)
(* critical sections (runner.go:219-233), so when calls overlap the monitors *)
(* of two Start calls may exceed it, by one each.                           *)
RestartBudget ==
    \A s \in Services : MaxRetries[s] > 0 =>
        restartCount[s] <= MaxRetries[s] +
                           (IF Serial THEN 0 ELSE Cardinality(StartCalls) - 1)

(* Stop reaches a service only after the ones that depend on it are marked  *)
(* stopped and down, with the same exception (runner.go:287-319).           *)
DependentsStopFirst ==
    \A p \in Calls : Serial /\ pc[p] = "stopCall" =>
        \A s \in services : Current(p) \in DependsOn[s] /\ restartCount[s] = 0 =>
            ~ svcRunning[s] /\ Halted(s)

(* checkServiceHealth reads a service's flag and, when it is set, then      *)
(* calls its Health: it reports a failure when either says so.              *)
ReportsRunning(s) == svcRunning[s]
ReportsFailure(s) == ~ ReportsRunning(s) \/ HealthErr(s)

(* What HealthStatus puts together is true of a runner that is up.  It asks *)
(* one service after the other and, of each, first the flag, then Health;   *)
(* r.mu keeps Stop out until it is done and each line below holds at every  *)
(* moment, so it holds of the mixture: a service called not running has a   *)
(* monitor that set about restarting it, a failure reported means that the  *)
(* service failed or is being restarted, and one called running was started *)
(* and not stopped since, but between its monitor's Stop and the update of  *)
(* the flag (runner.go:242-265, 327-342, health.go:33-76).                  *)
RunningFlagsAgree ==
    Serial /\ running /\ pc[rctx] = "returned" =>
        \A s \in services :
            /\ ~ ReportsRunning(s) => Restarted(s)
            /\ ReportsFailure(s) => instance[s] \in {"sick", "broken"} \/ Restarted(s)
            /\ ReportsRunning(s) /\ instance[s] = "down" => monitor[<<rctx, s>>] = "mark"

(* Doc of Stop: "Stop stops all services in reverse startup order"          *)
(* (runner.go:269): nothing runs once it returned, except what refused to.  *)
NothingRunsAfterStop ==
    Serial /\ Quiet /\ ~ running =>
        \A s \in Services : Halted(s)

(* Every call of Start and of Stop returns (the monitors Stop waits for see *)
(* the cancellation), when one goroutine makes the calls.                   *)
CallsReturn ==
    \A p \in Calls : pc[p] # "idle" ~> pc[p] \in Returned

(* A service whose Health fails is restarted, again and again while its     *)
(* monitor has retries left, until it is healthy, unless the runner's       *)
(* context is cancelled first: a restart whose Stop or Start fails is not   *)
(* the end of it.                                                           *)
FailedIsRestarted ==
    \A m \in Monitors :
        Active(m) /\ HealthErr(m[2]) ~>
            \/ ~ HealthErr(m[2])
            \/ monCtx[m] \in cancelled
            \/ MaxRetries[m[2]] > 0 /\ restartCount[m[2]] >= MaxRetries[m[2]]

=============================================================================
