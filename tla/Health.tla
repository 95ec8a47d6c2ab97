------------------------------- MODULE Health -------------------------------
(***************************************************************************)
(* pkg/health: the checkers of a process and the one cached result.  A     *)
(* call of Check is a process with a program counter: it reads the cache   *)
(* in one critical section, copies the checkers in another, waits for one  *)
(* goroutine per checker and stores the result in a third, so calls        *)
(* overlap with each other, with RegisterChecker, UnregisterChecker and    *)
(* ClearCache, and with components that change.                            *)
(*                                                                         *)
(* A checker answers nil only while its component is up and an error only  *)
(* while it is down or when its context has ended; one that hangs answers  *)
(* when its context ends, as the Checker interface demands.  Points in     *)
(* time are kept as the time that is left until them or has passed since.  *)
(* Time passes only while nothing but time is waited for.                  *)
(***************************************************************************)
EXTENDS Naturals, FiniteSets

CONSTANTS
  Calls,     \* the calls of Check, one each
  Names,     \* the names that checkers are registered under
  Timeout,   \* checkTimeout
  TTL,       \* cacheTTL
  Deadlines, \* the times left in contexts that come with a deadline
  NoResult

ASSUME TimesAreNat == {Timeout, TTL} \cup Deadlines \subseteq Nat

VARIABLES
  checkers,  \* h.checkers, by name
  cache,     \* h.cachedResult
  cacheLeft, \* the time left until h.cacheExpiry
  pc,        \* where each call is
  pending,   \* its checkers that have not answered
  found,     \* its answers so far, "ok" and "error" as two sets of names
  left,      \* the time left in the context that its checkers get
  state,     \* the components
  lastUp,    \* history: for how long each registered component was not up
  lastError  \* history: how long ago a checker last answered with an error

callVars == <<pc, pending, found, left>>
history  == <<lastUp, lastError>>
vars == <<checkers, cache, cacheLeft, callVars, state, history>>

Results  == [ok : SUBSET Names, error : SUBSET Names]
NoAnswer == [ok |-> {}, error |-> {}]
States   == {"up", "down", "hung"}

\* The age that a result may have when a caller gets it; history is kept for
\* as long.
Window == Timeout + TTL

TypeOK ==
  /\ checkers \subseteq Names
  /\ cache \in Results \cup {NoResult}
  /\ cacheLeft \in 0 .. TTL
  /\ pc \in [Calls -> {"idle", "miss", "wait", "done"}]
  /\ pending \in [Calls -> SUBSET Names]
  /\ found \in [Calls -> Results]
  /\ left \in [Calls -> Nat]
  /\ state \in [Names -> States]
  /\ lastUp \in [Names -> 0 .. Window]
  /\ lastError \in 0 .. Window

Init ==
  /\ checkers = {}
  /\ cache = NoResult /\ cacheLeft = 0
  /\ pc = [c \in Calls |-> "idle"]
  /\ pending = [c \in Calls |-> {}]
  /\ found = [c \in Calls |-> NoAnswer]
  /\ left = [c \in Calls |-> 0]
  /\ state = [n \in Names |-> "up"]
  /\ lastUp = [n \in Names |-> 0]
  /\ lastError = Window

-----------------------------------------------------------------------------
(* The map of checkers and the cache *)

RegisterChecker(n) ==
  /\ n \notin checkers   \* a second registration replaces the checker by another of n
  /\ checkers' = checkers \cup {n}
  /\ UNCHANGED <<cache, cacheLeft, callVars, state, history>>

UnregisterChecker(n) ==
  /\ n \in checkers
  /\ checkers' = checkers \ {n}
  /\ lastUp' = [lastUp EXCEPT ![n] = 0]
  /\ UNCHANGED <<cache, cacheLeft, callVars, state, lastError>>

ClearCache ==
  /\ cache' = NoResult
  /\ cacheLeft' = 0
  /\ UNCHANGED <<checkers, callVars, state, history>>

FreshForEver == cache # NoResult   \* mutant: the expiry is not looked at
Fresh == cache # NoResult /\ cacheLeft > 0

-----------------------------------------------------------------------------
(* Check *)

CheckHit(c) ==
  /\ pc[c] = "idle" /\ Fresh
  /\ pc' = [pc EXCEPT ![c] = "done"]
  /\ UNCHANGED <<checkers, cache, cacheLeft, pending, found, left, state, history>>

\* A context without a deadline is given checkTimeout, one with a deadline
\* keeps it, be it shorter or longer.
ContextTimes == Deadlines \cup {Timeout}

CheckMiss(c) ==
  /\ pc[c] = "idle" /\ ~Fresh
  /\ \E t \in ContextTimes : left' = [left EXCEPT ![c] = t]
  /\ pc' = [pc EXCEPT ![c] = "miss"]
  /\ UNCHANGED <<checkers, cache, cacheLeft, pending, found, state, history>>

\* executeChecks copies the map and starts one goroutine per checker.
Snapshot(c) ==
  /\ pc[c] = "miss"
  /\ pending' = [pending EXCEPT ![c] = checkers]
  /\ pc' = [pc EXCEPT ![c] = "wait"]
  /\ UNCHANGED <<checkers, cache, cacheLeft, found, left, state, history>>

AnswersOk(c, n) ==
  /\ n \in pending[c] /\ state[n] = "up"
  /\ pending' = [pending EXCEPT ![c] = @ \ {n}]
  /\ found' = [found EXCEPT ![c].ok = @ \cup {n}]
  /\ UNCHANGED <<checkers, cache, cacheLeft, pc, left, state, history>>

AnswersDown(c, n) ==   \* mutant: the checkers get a context that does not end
  /\ n \in pending[c] /\ state[n] = "down"
  /\ pending' = [pending EXCEPT ![c] = @ \ {n}]
  /\ found' = [found EXCEPT ![c].error = @ \cup {n}]
  /\ lastError' = 0
  /\ UNCHANGED <<checkers, cache, cacheLeft, pc, left, state, lastUp>>
AnswersError(c, n) ==
  /\ n \in pending[c]
  /\ state[n] = "down" \/ left[c] = 0
  /\ pending' = [pending EXCEPT ![c] = @ \ {n}]
  /\ found' = [found EXCEPT ![c].error = @ \cup {n}]
  /\ lastError' = 0
  /\ UNCHANGED <<checkers, cache, cacheLeft, pc, left, state, lastUp>>

FirstAnswer(c) == pending[c] = {} \/ found[c].ok # {}   \* mutant: only the first result is read
\* resultChan is closed when the last goroutine is through.
AllAnswered(c) == pending[c] = {}

\* Whatever happened since Check began, its result replaces the cached one.
Store(c) ==
  /\ pc[c] = "wait" /\ AllAnswered(c)
  /\ cache' = found[c]
  /\ cacheLeft' = TTL
  /\ pc' = [pc EXCEPT ![c] = "done"]
  /\ found' = [found EXCEPT ![c] = NoAnswer]
  /\ left' = [left EXCEPT ![c] = 0]
  /\ UNCHANGED <<checkers, pending, state, history>>

\* executeChecks: unhealthy as soon as one answer is an error, healthy with
\* no answers at all.
Healthy(r) == r.error = {}

\* ReadinessHandler and HealthHandler
StatusCode(r) == IF Healthy(r) THEN 200 ELSE 503

-----------------------------------------------------------------------------
(* The callers, the components and time *)

\* The caller cancels.
CallerLeaves(c) ==
  /\ left[c] > 0
  /\ left' = [left EXCEPT ![c] = 0]
  /\ UNCHANGED <<checkers, cache, cacheLeft, pc, pending, found, state, history>>

ComponentChanges(n) ==
  /\ \E s \in States \ {state[n]} : state' = [state EXCEPT ![n] = s]
  /\ lastUp' = [lastUp EXCEPT ![n] = IF "up" \in {state[n], state'[n]} THEN 0 ELSE @]
  /\ UNCHANGED <<checkers, cache, cacheLeft, callVars, lastError>>

\* Only a component that hangs or is slow keeps a call from going on.
OnlyTimeHelps(c) ==
  /\ pc[c] # "miss"
  /\ pc[c] = "wait" => pending[c] # {} /\ left[c] > 0

Later(t)  == IF t > 0 THEN t - 1 ELSE 0
Older(t)  == IF t < Window THEN t + 1 ELSE Window

Tick ==
  /\ \A c \in Calls : OnlyTimeHelps(c)
  /\ cacheLeft' = Later(cacheLeft)
  /\ left' = [c \in Calls |-> Later(left[c])]
  /\ lastUp' = [n \in Names |-> IF n \in checkers /\ state[n] # "up" THEN Older(lastUp[n]) ELSE 0]
  /\ lastError' = Older(lastError)
  /\ UNCHANGED <<checkers, cache, pc, pending, found, state>>

CallStep(c) == Snapshot(c) \/ Store(c)

CheckerStep(c) ==
  \E n \in Names : AnswersOk(c, n) \/ AnswersError(c, n)

Next ==
  \/ \E n \in Names : RegisterChecker(n) \/ UnregisterChecker(n) \/ ComponentChanges(n)
  \/ ClearCache
  \/ \E c \in Calls : CheckHit(c) \/ CheckMiss(c) \/ CallStep(c) \/ CheckerStep(c) \/ CallerLeaves(c)
  \/ Tick

\* Goroutines run, a checker answers once its context has ended, time passes.
Fairness ==
  /\ \A c \in Calls : WF_vars(CallStep(c)) /\ WF_vars(CheckerStep(c))
  /\ WF_vars(Tick)

Spec == Init /\ [][Next]_vars /\ Fairness

-----------------------------------------------------------------------------
(* What the readiness probe means *)

\* Check returns to call c in this step: its answer comes from the cache or after checking.
Returns(c) == pc[c] # "done" /\ pc'[c] = "done"
Answer(c)  == IF pc[c] = "idle" THEN cache ELSE found[c]

\* When a probe answers 200, every component that has been registered for the
\* whole window was up at some time in it: neither the cache, nor a slow
\* check, nor another caller's check lets an older answer through
\* (health.go:82-102, handlers.go:49-67).
ReadyIsRecentlyUp ==
  [][\A c \in Calls : Returns(c) /\ StatusCode(Answer(c)) = 200 =>
       \A n \in checkers : lastUp[n] < Window]_vars

\* When a probe answers 503, some checker answered with an error within the
\* window: a failure that is over is not reported for longer
\* (health.go:82-102).  The error need not be the component's: it may be the
\* ended context of the caller whose check filled the cache.
NotReadyHasCause ==
  [][\A c \in Calls : Returns(c) /\ StatusCode(Answer(c)) = 503 =>
       lastError < Window]_vars

\* Every Check returns, though components hang and callers give no deadline
\* (health.go:135-144).
ChecksReturn == \A c \in Calls : pc[c] = "miss" ~> pc[c] = "done"
=============================================================================
