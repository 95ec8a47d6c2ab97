-------------------------- MODULE ServiceContract --------------------------
(***************************************************************************)
(* What pkg/runner relies on when it calls one service.Service: the states *)
(* of `instance` in Runner and the steps that ServiceStarts, ServiceStops  *)
(* and Crash allow there.  A service that is down serves nobody.           *)
(***************************************************************************)
VARIABLE instance

Init == instance = "down"

\* Start returned nil; the service may have failed already.
Starts == instance = "down" /\ instance' \in {"up", "sick"}

\* Stop returned nil.
Stops == instance' = "down"

\* Stop returned an error: the service stays as it was, and counts as started
\* until a Stop works.
StopFails ==
  \/ instance \in {"up", "stuck"} /\ instance' = "stuck"
  \/ instance \in {"sick", "broken"} /\ instance' = "broken"

Crash ==
  \/ instance = "up" /\ instance' = "sick"
  \/ instance = "stuck" /\ instance' = "broken"

Next == Starts \/ Stops \/ StopFails \/ Crash

Spec == Init /\ [][Next]_instance
=============================================================================
