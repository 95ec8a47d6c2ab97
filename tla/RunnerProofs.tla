---------------------------- MODULE RunnerProofs ----------------------------
(***************************************************************************)
(* Properties of the Runner for every set of services, dependency graph,   *)
(* configuration and number of Start and Stop calls.                       *)
(***************************************************************************)
EXTENDS RunnerProps, Ordering, FiniteSetTheorems, SequenceTheorems, TLAPS

-----------------------------------------------------------------------------
LEMMA StartOrdersAreSequences ==
    ASSUME NEW S \in SUBSET Services, NEW o \in StartOrders(S)
    PROVE  /\ o \in Seq(Services)
           /\ \A i \in DOMAIN o : \A d \in DependsOn[o[i]] :
                 \E j \in DOMAIN o : j < i /\ o[j] = d
<1>1. IsFiniteSet(S)
  BY FiniteInstance, FS_Subset
<1>2. Cardinality(S) \in Nat
  BY <1>1, FS_CardinalityType
<1>3. o \in [1 .. Cardinality(S) -> Services]
  BY DEF StartOrders
<1> QED
  BY <1>2, <1>3 DEF StartOrders

LEMMA ReverseIsSequence ==
    ASSUME NEW seq \in Seq(Services)
    PROVE  Reverse(seq) \in Seq(Services)
<1>1. Len(seq) \in Nat /\ DOMAIN seq = 1 .. Len(seq)
  OBVIOUS
<1>2. \A i \in 1 .. Len(seq) : Len(seq) + 1 - i \in 1 .. Len(seq)
  BY <1>1
<1>3. \A i \in 1 .. Len(seq) : seq[Len(seq) + 1 - i] \in Services
  BY <1>1, <1>2
<1>4. Reverse(seq) \in [1 .. Len(seq) -> Services]
  BY <1>3 DEF Reverse
<1> QED
  BY <1>1, <1>4

LEMMA TypeInit == Init => TypeOK
<1> SUFFICES ASSUME Init PROVE TypeOK
  OBVIOUS
<1>1. <<>> \in Seq(Services)
  OBVIOUS
<1>2. order \in [Calls -> Seq(Services)] /\ at \in [Calls -> Nat]
  BY <1>1 DEF Init
<1>3. pc \in [Calls -> StartPhases \cup StopPhases \cup Returned]
  BY DEF Init, StartPhases
<1>4. monitor \in [Monitors -> MonitorPhases]
  BY DEF Init, MonitorPhases
<1>5. instance \in [Services -> InstanceStates]
  BY DEF Init, InstanceStates
<1> QED
  BY <1>1, <1>2, <1>3, <1>4, <1>5 DEF Init, TypeOK, Contexts

(* The program counters stay in their ranges. *)
LEMMA GotoType ==
    ASSUME TypeOK, NEW p \in Calls,
           NEW phase \in StartPhases \cup StopPhases \cup Returned
    PROVE  Goto(p, phase) => pc' \in [Calls -> StartPhases \cup StopPhases \cup Returned]
BY DEF TypeOK, Goto

LEMMA StepType ==
    ASSUME TypeOK, NEW p \in Calls
    PROVE  Step(p) => at' \in [Calls -> Nat]
BY DEF TypeOK, Step

LEMMA TypeEnvironment ==
    ASSUME TypeOK, NEW s \in Services
    PROVE  /\ Add(s) => TypeOK'
           /\ Crash(s) => TypeOK'
<1> USE DEF TypeOK, runnerVars, managedVars, callVars, monitorVars
<1>1. Add(s) => TypeOK'
  BY DEF Add
<1>2. Crash(s) => TypeOK'
  BY DEF Crash, InstanceStates
<1> QED
  BY <1>1, <1>2

LEMMA TypeStart ==
    ASSUME TypeOK, NEW c \in StartCalls
    PROVE  /\ StartRefused(c) \/ StartBegin(c) \/ CallerCancels(c) => TypeOK'
           /\ StartStep(c) => TypeOK'
<1> USE DEF TypeOK, runnerVars, managedVars, callVars, monitorVars, Goto, Step,
            StartPhases, StopPhases, Returned, Calls
<1>1. StartRefused(c) => TypeOK'
  BY DEF StartRefused
<1>2. StartBegin(c) => TypeOK'
  <2> SUFFICES ASSUME StartBegin(c) PROVE TypeOK'
    OBVIOUS
  <2>1. PICK o \in StartOrders(services) :
           startOrder' = o /\ order' = [order EXCEPT ![c] = o]
    BY DEF StartBegin
  <2>2. o \in Seq(Services)
    BY StartOrdersAreSequences
  <2>3. startOrder' \in Seq(Services) /\ order' \in [Calls -> Seq(Services)]
    BY <2>1, <2>2
  <2> QED
    BY <2>3 DEF StartBegin, Contexts
<1>3. CallerCancels(c) => TypeOK'
  BY DEF CallerCancels, Contexts
<1>4. StartReturn(c) => TypeOK'
  BY DEF StartReturn
<1>5. StartNext(c) => TypeOK'
  BY DEF StartNext
<1>6. StartDelayElapses(c) \/ StartDelayCancelled(c) => TypeOK'
  BY DEF StartDelayElapses, StartDelayCancelled
<1>7. StartService(c) => TypeOK'
  BY DEF StartService
<1>8. StartServiceOk(c) => TypeOK'
  BY DEF StartServiceOk, ServiceStarts, InstanceStates
<1>9. StartServiceFails(c) => TypeOK'
  <2> SUFFICES ASSUME StartServiceFails(c) PROVE TypeOK'
    OBVIOUS
  <2>1. c \in Calls
    OBVIOUS
  <2>2. svcCtx' \in [Services -> Contexts]
    BY DEF StartServiceFails, Contexts
  <2>3. pc' \in [Calls -> StartPhases \cup StopPhases \cup Returned]
    BY <2>1, GotoType DEF StartServiceFails
  <2> QED
    BY <2>2, <2>3 DEF StartServiceFails
<1>10. StartMarkRunning(c) => TypeOK'
  <2> SUFFICES ASSUME StartMarkRunning(c) PROVE TypeOK'
    OBVIOUS
  <2>1. c \in Calls
    OBVIOUS
  <2>2. /\ svcRunning' \in [Services -> BOOLEAN]
        /\ UNCHANGED <<runnerVars, restartCount, svcCtx, order, callCtx, monitorVars, instance>>
        /\ \/ Step(c) /\ Goto(c, "next")
           \/ UNCHANGED at /\ Goto(c, "spawn")
    BY DEF StartMarkRunning
  <2>3. at' \in [Calls -> Nat]
    BY <2>1, <2>2, StepType
  <2>4. pc' \in [Calls -> StartPhases \cup StopPhases \cup Returned]
    BY <2>1, <2>2, GotoType
  <2> QED
    BY <2>2, <2>3, <2>4
<1>11. StartSpawnMonitor(c) => TypeOK'
  <2> SUFFICES ASSUME StartSpawnMonitor(c) PROVE TypeOK'
    OBVIOUS
  <2>1. c \in Calls
    OBVIOUS
  <2>2. /\ monitor' \in [Monitors -> MonitorPhases]
        /\ monCtx' \in [Monitors -> Contexts]
        /\ UNCHANGED <<runnerVars, managedVars, order, callCtx, instance>>
        /\ Step(c) /\ Goto(c, "next")
    BY DEF StartSpawnMonitor, MonitorPhases
  <2>3. at' \in [Calls -> Nat] /\ pc' \in [Calls -> StartPhases \cup StopPhases \cup Returned]
    BY <2>1, <2>2, StepType, GotoType
  <2> QED
    BY <2>2, <2>3
<1> QED
  BY <1>1, <1>2, <1>3, <1>4, <1>5, <1>6, <1>7, <1>8, <1>9, <1>10, <1>11 DEF StartStep

LEMMA TypeStop ==
    ASSUME TypeOK, NEW p \in Calls
    PROVE  StopEntry(p) \/ StopLoop(p) => TypeOK'
<1> USE DEF TypeOK, runnerVars, managedVars, callVars, monitorVars, Goto, Step,
            StartPhases, StopPhases, Returned
<1>1. StopNotRunning(p) => TypeOK'
  BY DEF StopNotRunning
<1>2. StopBegin(p) => TypeOK'
  <2> SUFFICES ASSUME StopBegin(p) PROVE TypeOK'
    OBVIOUS
  <2>1. order' \in [Calls -> Seq(Services)]
    BY ReverseIsSequence DEF StopBegin, StopOrder
  <2>2. cancelled' \subseteq Contexts
    BY DEF StopBegin, CancelledByStop, Contexts
  <2> QED
    BY <2>1, <2>2 DEF StopBegin
<1>3. StopNext(p) => TypeOK'
  <2> SUFFICES ASSUME StopNext(p) PROVE TypeOK'
    OBVIOUS
  <2>1. /\ UNCHANGED <<runnerVars, managedVars, order, callCtx, monitorVars, instance>>
        /\ \/ Goto(p, "stopCall") /\ UNCHANGED at
           \/ Step(p) /\ UNCHANGED pc
    BY DEF StopNext, StopContinues
  <2>2. at' \in [Calls -> Nat] /\ pc' \in [Calls -> StartPhases \cup StopPhases \cup Returned]
    BY <2>1, StepType, GotoType
  <2> QED
    BY <2>1, <2>2
<1>4. StopService(p) => TypeOK'
  BY DEF StopService, ServiceStops, Unstopped, InstanceStates
<1>5. StopMark(p) => TypeOK'
  <2> SUFFICES ASSUME StopMark(p) PROVE TypeOK'
    OBVIOUS
  <2>1. /\ svcCtx' \in [Services -> Contexts] /\ svcRunning' \in [Services -> BOOLEAN]
        /\ UNCHANGED <<runnerVars, restartCount, order, callCtx, monitorVars, instance>>
        /\ Step(p) /\ Goto(p, "stopNext")
    BY DEF StopMark, Contexts
  <2>2. at' \in [Calls -> Nat] /\ pc' \in [Calls -> StartPhases \cup StopPhases \cup Returned]
    BY <2>1, StepType, GotoType
  <2> QED
    BY <2>1, <2>2
<1>6. StopAll(p) => TypeOK'
  BY DEF StopAll
<1>7. StopWait(p) => TypeOK'
  BY DEF StopWait, StopDone
<1> QED
  BY <1>1, <1>2, <1>3, <1>4, <1>5, <1>6, <1>7 DEF StopEntry, StopLoop

LEMMA TypeMonitor ==
    ASSUME TypeOK, NEW m \in Monitors
    PROVE  MonitorStep(m) => TypeOK'
<1> USE DEF TypeOK, runnerVars, managedVars, callVars, monitorVars, MonitorGoto,
            MonitorPhases
<1>0. m[2] \in Services
  BY DEF Monitors
<1>1. MonitorExit(m) \/ MonitorCheck(m) \/ MonitorProbe(m) \/ MonitorBackoffElapses(m)
         => TypeOK'
  BY DEF MonitorExit, MonitorCheck, MonitorProbe, MonitorBackoffElapses
<1>2. MonitorClaim(m) => TypeOK'
  BY <1>0 DEF MonitorClaim, Counted
<1>3. MonitorStops(m) => TypeOK'
  BY <1>0 DEF MonitorStops, ServiceStops, Unstopped, InstanceStates
<1>4. MonitorMark(m) => TypeOK'
  BY <1>0 DEF MonitorMark, Contexts
<1>5. MonitorStarts(m) => TypeOK'
  BY <1>0 DEF MonitorStarts
<1>6. MonitorStartOk(m) => TypeOK'
  BY <1>0 DEF MonitorStartOk, ServiceStarts, InstanceStates
<1>7. MonitorStartFails(m) => TypeOK'
  BY <1>0 DEF MonitorStartFails, Contexts
<1>8. MonitorMarkRunning(m) => TypeOK'
  BY <1>0 DEF MonitorMarkRunning
<1> QED
  BY <1>1, <1>2, <1>3, <1>4, <1>5, <1>6, <1>7, <1>8 DEF MonitorStep

LEMMA TypeStutter == TypeOK /\ UNCHANGED vars => TypeOK'
BY DEF TypeOK, vars, runnerVars, managedVars, callVars, monitorVars

(* The state stays well formed. *)
THEOREM TypeCorrect == Spec => []TypeOK
<1>1. TypeOK /\ [Next]_vars => TypeOK'
  BY TypeEnvironment, TypeStart, TypeStop, TypeMonitor, TypeStutter DEF Next
<1> QED
  BY TypeInit, <1>1, PTL DEF Spec

-----------------------------------------------------------------------------
(* Context ownership.  Only StartBegin, StopBegin and CallerCancels touch   *)
(* the runner's context; every other step leaves Began as it is.            *)

LEMMA ContextFrame ==
    ASSUME OnlyCurrentContextLive, UNCHANGED <<running, rctx, cancelled>>,
           \A c \in StartCalls : Began(c)' <=> Began(c)
    PROVE  OnlyCurrentContextLive'
BY DEF OnlyCurrentContextLive

(* A step of call p that was made and is not refused. *)
LEMMA BeganKept ==
    ASSUME TypeOK, NEW p \in Calls, NEW phase, phase \notin {"idle", "refused"},
           Goto(p, phase), p \in StartCalls => Began(p)
    PROVE  \A c \in StartCalls : Began(c)' <=> Began(c)
BY DEF TypeOK, Goto, Began

LEMMA ContextStart ==
    ASSUME TypeOK, OnlyCurrentContextLive, NEW c \in StartCalls
    PROVE  /\ StartRefused(c) => OnlyCurrentContextLive'
           /\ StartBegin(c) => OnlyCurrentContextLive'
           /\ CallerCancels(c) => OnlyCurrentContextLive'
           /\ StartStep(c) => OnlyCurrentContextLive'
<1>0. c \in Calls
  BY DEF Calls
<1>1. StartRefused(c) => OnlyCurrentContextLive'
  <2> SUFFICES ASSUME StartRefused(c) PROVE OnlyCurrentContextLive'
    OBVIOUS
  <2>1. \A d \in StartCalls : Began(d)' <=> Began(d)
    BY <1>0 DEF StartRefused, Goto, Began, TypeOK
  <2> QED
    BY <2>1, ContextFrame DEF StartRefused, runnerVars
<1>2. StartBegin(c) => OnlyCurrentContextLive'
  <2> SUFFICES ASSUME StartBegin(c) PROVE OnlyCurrentContextLive'
    OBVIOUS
  <2>1. /\ ~ running /\ running' /\ rctx' = c /\ cancelled' = cancelled
        /\ \A d \in StartCalls : Began(d)' <=> Began(d) \/ d = c
    BY <1>0 DEF StartBegin, Goto, Began, TypeOK
  <2> QED
    BY <2>1 DEF OnlyCurrentContextLive
<1>3. CallerCancels(c) => OnlyCurrentContextLive'
  BY DEF CallerCancels, callVars, OnlyCurrentContextLive, Began
<1>4. StartStep(c) => OnlyCurrentContextLive'
  <2> SUFFICES ASSUME StartStep(c) PROVE OnlyCurrentContextLive'
    OBVIOUS
  <2>1. /\ UNCHANGED <<running, rctx, cancelled>>
        /\ Began(c)
        /\ \E phase : phase \notin {"idle", "refused"} /\ Goto(c, phase)
    BY DEF StartStep, StartReturn, StartNext, StartDelayElapses, StartDelayCancelled,
           StartService, StartServiceOk, StartServiceFails, StartMarkRunning,
           StartSpawnMonitor, Began, runnerVars
  <2> QED
    BY <1>0, <2>1, BeganKept, ContextFrame
<1> QED
  BY <1>1, <1>2, <1>3, <1>4

LEMMA ContextStop ==
    ASSUME TypeOK, OnlyCurrentContextLive, NEW p \in Calls
    PROVE  StopEntry(p) \/ StopLoop(p) => OnlyCurrentContextLive'
<1>1. ASSUME StopNotRunning(p) \/ StopService(p) \/ StopMark(p) \/ StopAll(p) \/ StopWait(p)
      PROVE  OnlyCurrentContextLive'
  <2>1. /\ UNCHANGED <<running, rctx, cancelled>>
        /\ p \in StartCalls => Began(p)
        /\ \E phase : phase \notin {"idle", "refused"} /\ Goto(p, phase)
    BY <1>1, CallsDisjoint
       DEF StopNotRunning, EntersStop, StopService, StopMark, StopAll, StopWait, StopDone,
           Began, runnerVars
  <2> QED
    BY <2>1, BeganKept, ContextFrame
<1>2. ASSUME StopNext(p) PROVE OnlyCurrentContextLive'
  <2>1. CASE UNCHANGED pc
    BY <1>2, <2>1, ContextFrame DEF StopNext, runnerVars, Began
  <2>2. CASE Goto(p, "stopCall")
    <3>1. p \in StartCalls => Began(p)
      BY <1>2 DEF StopNext, Began
    <3>2. \A c \in StartCalls : Began(c)' <=> Began(c)
      BY <2>2, <3>1, BeganKept
    <3> QED
      BY <1>2, <3>2, ContextFrame DEF StopNext, runnerVars
  <2> QED
    BY <1>2, <2>1, <2>2 DEF StopNext, StopContinues
<1>3. ASSUME StopBegin(p) PROVE OnlyCurrentContextLive'
  <2>1. /\ running /\ ~ running' /\ rctx' = rctx /\ cancelled' = cancelled \cup {rctx}
        /\ Goto(p, "stopNext") /\ (p \in StartCalls => Began(p))
    BY <1>3, CallsDisjoint DEF StopBegin, CancelledByStop, EntersStop, Began
  <2>2. \A c \in StartCalls : Began(c)' <=> Began(c)
    BY <2>1, BeganKept
  <2> QED
    BY <2>1, <2>2 DEF OnlyCurrentContextLive
<1> QED
  BY <1>1, <1>2, <1>3 DEF StopEntry, StopLoop

(* Monitors, Add and the environment change neither calls nor contexts. *)
LEMMA OthersKeepContext ==
    ASSUME \/ \E s \in Services : Add(s) \/ Crash(s)
           \/ \E m \in Monitors : MonitorStep(m)
           \/ UNCHANGED vars
    PROVE  UNCHANGED <<startOrder, running, rctx, cancelled, callVars>>
<1>1. ASSUME NEW s \in Services, Add(s) \/ Crash(s)
      PROVE  UNCHANGED <<startOrder, running, rctx, cancelled, callVars>>
  BY <1>1 DEF Add, Crash, runnerVars
<1>2. ASSUME NEW m \in Monitors, MonitorStep(m)
      PROVE  UNCHANGED <<startOrder, running, rctx, cancelled, callVars>>
  BY <1>2 DEF MonitorStep, MonitorExit, MonitorCheck, MonitorProbe, MonitorClaim,
              MonitorBackoffElapses, MonitorStops, MonitorMark, MonitorStarts,
              MonitorStartOk, MonitorStartFails, MonitorMarkRunning, runnerVars
<1>3. ASSUME UNCHANGED vars
      PROVE  UNCHANGED <<startOrder, running, rctx, cancelled, callVars>>
  BY <1>3 DEF vars, runnerVars
<1> QED
  BY <1>1, <1>2, <1>3

(* At most the context of the current run is live, however calls overlap.  *)
THEOREM ContextOwnership == Spec => []OnlyCurrentContextLive
<1>1. Init => OnlyCurrentContextLive
  BY DEF Init, OnlyCurrentContextLive, Began, Calls
<1>2. TypeOK /\ OnlyCurrentContextLive /\ [Next]_vars => OnlyCurrentContextLive'
  <2> SUFFICES ASSUME TypeOK, OnlyCurrentContextLive, [Next]_vars
               PROVE  OnlyCurrentContextLive'
    OBVIOUS
  <2>1. ASSUME UNCHANGED <<startOrder, running, rctx, cancelled, callVars>>
        PROVE  OnlyCurrentContextLive'
    BY <2>1, ContextFrame DEF callVars, Began
  <2> QED
    BY <2>1, ContextStart, ContextStop, OthersKeepContext DEF Next
<1> QED
  BY <1>1, <1>2, TypeCorrect, PTL DEF Spec

-----------------------------------------------------------------------------
(* Start order.  While Start goes through its slice, the slice is a start  *)
(* order and the position is inside it; no other call touches either.      *)

LoopPhases == {"next", "delay", "call", "starting", "mark", "spawn"}

DependenciesBefore(o) ==
    \A i \in DOMAIN o : \A d \in DependsOn[o[i]] : \E j \in DOMAIN o : j < i /\ o[j] = d

InOrder(c) ==
    /\ pc[c] = "idle" => at[c] = 1
    /\ pc[c] \in LoopPhases =>
          /\ DependenciesBefore(order[c])
          /\ at[c] >= 1
          /\ pc[c] # "next" => at[c] <= Len(order[c])

LoopInOrder == \A c \in StartCalls : InOrder(c)

LEMMA InOrderKept ==
    ASSUME NEW d \in StartCalls, InOrder(d), order'[d] = order[d], at'[d] = at[d],
           \/ pc'[d] = pc[d]
           \/ pc[d] \in LoopPhases \ {"next"} /\ pc'[d] \in LoopPhases
           \/ pc'[d] \notin LoopPhases \cup {"idle"}
    PROVE  InOrder(d)'
<1>1. CASE pc'[d] = pc[d]
  BY <1>1 DEF InOrder
<1>2. CASE pc[d] \in LoopPhases \ {"next"} /\ pc'[d] \in LoopPhases
  BY <1>2 DEF InOrder, LoopPhases
<1>3. CASE pc'[d] \notin LoopPhases \cup {"idle"}
  BY <1>3 DEF InOrder
<1> QED
  BY <1>1, <1>2, <1>3

LEMMA LoopInOrderStart ==
    ASSUME TypeOK, LoopInOrder, NEW c \in StartCalls
    PROVE  /\ StartRefused(c) \/ CallerCancels(c) => LoopInOrder'
           /\ StartBegin(c) => LoopInOrder'
           /\ StartStep(c) => LoopInOrder'
<1>0. c \in Calls /\ StartCalls \subseteq Calls
  BY DEF Calls
<1> USE DEF runnerVars, managedVars, callVars, monitorVars
<1>1. ASSUME \/ StartRefused(c) \/ CallerCancels(c) \/ StartReturn(c)
             \/ StartDelayElapses(c) \/ StartDelayCancelled(c)
             \/ StartService(c) \/ StartServiceOk(c) \/ StartServiceFails(c)
      PROVE  LoopInOrder'
  <2>1. \A d \in StartCalls : order'[d] = order[d] /\ at'[d] = at[d]
    BY <1>1 DEF StartRefused, CallerCancels, StartReturn, StartDelayElapses,
                StartDelayCancelled, StartService, StartServiceOk, StartServiceFails
  <2>2. \A d \in StartCalls : d # c => pc'[d] = pc[d]
    BY <1>0, <1>1 DEF StartRefused, CallerCancels, StartReturn, StartDelayElapses,
                StartDelayCancelled, StartService, StartServiceOk, StartServiceFails,
                Goto, TypeOK
  <2>3. \/ pc'[c] = pc[c]
        \/ pc[c] \in LoopPhases \ {"next"} /\ pc'[c] \in LoopPhases
        \/ pc'[c] \notin LoopPhases \cup {"idle"}
    BY <1>0, <1>1 DEF StartRefused, CallerCancels, StartReturn, StartDelayElapses,
                StartDelayCancelled, StartService, StartServiceOk, StartServiceFails,
                Goto, TypeOK, LoopPhases
  <2> QED
    BY <2>1, <2>2, <2>3, InOrderKept DEF LoopInOrder
<1>2. ASSUME StartBegin(c) PROVE LoopInOrder'
  <2>1. PICK o \in StartOrders(services) : order' = [order EXCEPT ![c] = o]
    BY <1>2 DEF StartBegin
  <2>2. o \in Seq(Services) /\ DependenciesBefore(o)
    BY StartOrdersAreSequences DEF DependenciesBefore, TypeOK
  <2>3. pc' = [pc EXCEPT ![c] = "next"] /\ at' = at /\ pc[c] = "idle"
    BY <1>2 DEF StartBegin, Goto
  <2>4. \A d \in StartCalls : d # c => pc'[d] = pc[d] /\ order'[d] = order[d] /\ at'[d] = at[d]
    BY <1>0, <2>1, <2>3 DEF TypeOK
  <2>5. pc'[c] = "next" /\ order'[c] = o /\ at'[c] = 1
    BY <1>0, <2>1, <2>3 DEF TypeOK, LoopInOrder, InOrder
  <2>6. InOrder(c)'
    BY <2>2, <2>5 DEF InOrder
  <2> QED
    BY <2>4, <2>6, InOrderKept DEF LoopInOrder
<1>3. ASSUME StartNext(c) PROVE LoopInOrder'
  <2>1. /\ pc[c] = "next" /\ at[c] <= Len(order[c]) /\ UNCHANGED <<order, at>>
        /\ pc'[c] \in LoopPhases
        /\ \A d \in StartCalls : d # c => pc'[d] = pc[d]
    BY <1>0, <1>3 DEF StartNext, Goto, TypeOK, LoopPhases
  <2>2. InOrder(c)'
    BY <2>1 DEF LoopInOrder, InOrder, LoopPhases
  <2> QED
    BY <2>1, <2>2, InOrderKept DEF LoopInOrder
<1>4. ASSUME StartMarkRunning(c) \/ StartSpawnMonitor(c) PROVE LoopInOrder'
  <2>1. /\ pc[c] \in {"mark", "spawn"} /\ UNCHANGED order
        /\ \/ pc'[c] = "next" /\ at'[c] = at[c] + 1
           \/ pc'[c] = "spawn" /\ pc[c] = "mark" /\ at'[c] = at[c]
    <3>1. CASE StartSpawnMonitor(c)
      BY <1>0, <3>1 DEF StartSpawnMonitor, Goto, Step, TypeOK
    <3>2. CASE StartMarkRunning(c) /\ Policy[Current(c)] = "never"
      BY <1>0, <3>2 DEF StartMarkRunning, Goto, Step, TypeOK
    <3>3. CASE StartMarkRunning(c) /\ Policy[Current(c)] # "never"
      BY <1>0, <3>3 DEF StartMarkRunning, Goto, TypeOK
    <3> QED
      BY <1>4, <3>1, <3>2, <3>3
  <2>2. \A d \in StartCalls : d # c => pc'[d] = pc[d] /\ at'[d] = at[d]
    BY <1>0, <1>4 DEF StartMarkRunning, StartSpawnMonitor, Goto, Step, TypeOK
  <2>3. at[c] \in Nat
    BY <1>0 DEF TypeOK
  <2>4. /\ DependenciesBefore(order[c]) /\ at[c] >= 1 /\ at[c] <= Len(order[c])
    BY <2>1 DEF LoopInOrder, InOrder, LoopPhases
  <2>5. InOrder(c)'
    <3>1. CASE pc'[c] = "next" /\ at'[c] = at[c] + 1
      BY <2>1, <2>3, <2>4, <3>1 DEF InOrder
    <3>2. CASE pc'[c] = "spawn" /\ at'[c] = at[c]
      BY <2>1, <2>4, <3>2 DEF InOrder
    <3> QED
      BY <2>1, <3>1, <3>2
  <2> QED
    BY <2>1, <2>2, <2>5, InOrderKept DEF LoopInOrder
<1> QED
  BY <1>1, <1>2, <1>3, <1>4 DEF StartStep

LEMMA LoopInOrderStop ==
    ASSUME TypeOK, LoopInOrder, NEW p \in Calls, StopEntry(p) \/ StopLoop(p)
    PROVE  LoopInOrder'
<1>1. \A c \in StartCalls : c # p => pc'[c] = pc[c] /\ order'[c] = order[c] /\ at'[c] = at[c]
  BY DEF StopEntry, StopLoop, StopNotRunning, StopBegin, StopNext, StopContinues, StopService,
         StopMark, StopAll, StopWait, Goto, Step, TypeOK, Calls, callVars
<1>2. p \in StartCalls => pc'[p] \notin LoopPhases \cup {"idle"}
  BY CallsDisjoint
     DEF StopEntry, StopLoop, StopNotRunning, StopBegin, StopNext, StopContinues, StopService,
         StopMark, StopAll, StopWait, StopDone, EntersStop, Goto, Step, TypeOK, LoopPhases
<1>3. p \in StartCalls => InOrder(p)'
  BY <1>2 DEF InOrder
<1> QED
  BY <1>1, <1>3, InOrderKept DEF LoopInOrder

LEMMA LoopInOrderInvariant == Spec => []LoopInOrder
<1>1. Init => LoopInOrder
  BY DEF Init, LoopInOrder, InOrder, LoopPhases, Calls
<1>2. TypeOK /\ LoopInOrder /\ [Next]_vars => LoopInOrder'
  <2> SUFFICES ASSUME TypeOK, LoopInOrder, [Next]_vars PROVE LoopInOrder'
    OBVIOUS
  <2>1. ASSUME UNCHANGED callVars PROVE LoopInOrder'
    BY <2>1, InOrderKept DEF callVars, LoopInOrder
  <2> QED
    BY <2>1, LoopInOrderStart, LoopInOrderStop, OthersKeepContext DEF Next
<1> QED
  BY TypeCorrect, <1>1, <1>2, PTL DEF Spec

(* A Start call that has gone past a watched service spawned its monitor.  *)
SpawnedBefore(c) ==
    pc[c] \in LoopPhases =>
        \A j \in DOMAIN order[c] :
            j < at[c] /\ Policy[order[c][j]] # "never" => monitor[<<c, order[c][j]>>] # "none"

LoopSpawns == \A c \in StartCalls : SpawnedBefore(c)

LEMMA MonitorsAreNotForgotten ==
    ASSUME TypeOK, [Next]_vars, NEW m \in Monitors, monitor[m] # "none"
    PROVE  monitor'[m] # "none"
<1> USE DEF TypeOK, monitorVars, MonitorGoto
<1>1. CASE UNCHANGED vars \/ \E s \in Services : Add(s) \/ Crash(s)
  BY <1>1 DEF vars, Add, Crash
<1>2. ASSUME NEW c \in StartCalls,
             StartRefused(c) \/ StartBegin(c) \/ CallerCancels(c) \/ StartStep(c)
      PROVE  monitor'[m] # "none"
  <2>1. monitor' = monitor \/ StartSpawnMonitor(c)
    BY <1>2 DEF StartRefused, StartBegin, CallerCancels, StartStep, StartReturn, StartNext,
         StartDelayElapses, StartDelayCancelled, StartService, StartServiceOk,
         StartServiceFails, StartMarkRunning
  <2> QED
    BY <2>1 DEF StartSpawnMonitor
<1>3. ASSUME NEW p \in Calls, StopEntry(p) \/ StopLoop(p) PROVE monitor'[m] # "none"
  BY <1>3 DEF StopEntry, StopLoop, StopNotRunning, StopBegin, StopNext, StopService, StopMark,
       StopAll, StopWait
<1>4. ASSUME NEW n \in Monitors, MonitorStep(n) PROVE monitor'[m] # "none"
  BY <1>4 DEF MonitorStep, MonitorExit, MonitorCheck, MonitorProbe, MonitorClaim,
       MonitorBackoffElapses, MonitorStops, MonitorMark, MonitorStarts, MonitorStartOk,
       MonitorStartFails, MonitorMarkRunning
<1> QED
  BY <1>1, <1>2, <1>3, <1>4 DEF Next

(* Only the call itself moves its position. *)
LEMMA PositionFrame ==
    ASSUME TypeOK, NEW c \in StartCalls, [Next]_vars, pc'[c] \in LoopPhases
    PROVE  \/ pc[c] \in LoopPhases /\ order'[c] = order[c] /\ at'[c] = at[c]
           \/ StartBegin(c) \/ StartMarkRunning(c) \/ StartSpawnMonitor(c)
<1>0. c \in Calls /\ StartCalls \subseteq Calls
  BY DEF Calls
<1> USE DEF runnerVars, managedVars, callVars, monitorVars, TypeOK
<1>1. CASE UNCHANGED callVars
  BY <1>1
<1>2. ASSUME NEW d \in StartCalls,
             StartRefused(d) \/ StartBegin(d) \/ CallerCancels(d) \/ StartStep(d)
      PROVE  \/ pc[c] \in LoopPhases /\ order'[c] = order[c] /\ at'[c] = at[c]
             \/ StartBegin(c) \/ StartMarkRunning(c) \/ StartSpawnMonitor(c)
  <2>1. CASE d = c
    BY <1>0, <1>2, <2>1 DEF StartRefused, CallerCancels, StartStep, StartReturn, StartNext,
         StartDelayElapses, StartDelayCancelled, StartService, StartServiceOk,
         StartServiceFails, Goto, LoopPhases
  <2>2. CASE d # c
    <3>1. pc'[c] = pc[c]
      BY <1>0, <1>2, <2>2 DEF StartRefused, StartBegin, CallerCancels, StartStep, StartReturn,
           StartNext, StartDelayElapses, StartDelayCancelled, StartService, StartServiceOk,
           StartServiceFails, StartMarkRunning, StartSpawnMonitor, Goto
    <3>2. order'[c] = order[c] /\ at'[c] = at[c]
      BY <1>0, <1>2, <2>2 DEF StartRefused, StartBegin, CallerCancels, StartStep, StartReturn,
           StartNext, StartDelayElapses, StartDelayCancelled, StartService, StartServiceOk,
           StartServiceFails, StartMarkRunning, StartSpawnMonitor, Step
    <3> QED
      BY <3>1, <3>2
  <2> QED
    BY <2>1, <2>2
<1>3. ASSUME NEW p \in Calls, StopEntry(p) \/ StopLoop(p)
      PROVE  pc[c] \in LoopPhases /\ order'[c] = order[c] /\ at'[c] = at[c]
  <2>1. c # p
    BY <1>3, CallsDisjoint
       DEF StopEntry, StopLoop, StopNotRunning, StopBegin, StopNext, StopContinues, StopService,
         StopMark, StopAll, StopWait, StopDone, EntersStop, Goto, Step, LoopPhases
  <2> QED
    BY <1>0, <1>3, <2>1
       DEF StopEntry, StopLoop, StopNotRunning, StopBegin, StopNext, StopContinues, StopService,
         StopMark, StopAll, StopWait, Goto, Step
<1> QED
  BY <1>1, <1>2, <1>3, OthersKeepContext DEF Next

LEMMA LoopSpawnsInvariant == Spec => []LoopSpawns
<1>1. Init => LoopSpawns
  BY DEF Init, LoopSpawns, SpawnedBefore, LoopPhases, Calls
<1>2. TypeOK /\ LoopInOrder /\ LoopSpawns /\ [Next]_vars => LoopSpawns'
  <2> SUFFICES ASSUME TypeOK, LoopInOrder, LoopSpawns, [Next]_vars, NEW c \in StartCalls,
                      pc'[c] \in LoopPhases,
                      NEW j \in DOMAIN order'[c], j < at'[c], Policy[order'[c][j]] # "never"
               PROVE  monitor'[<<c, order'[c][j]>>] # "none"
    BY DEF LoopSpawns, SpawnedBefore
  <2>0. c \in Calls /\ at[c] \in Nat /\ order[c] \in Seq(Services)
    BY DEF Calls, TypeOK
  <2>1. CASE pc[c] \in LoopPhases /\ order'[c] = order[c] /\ at'[c] = at[c]
    <3>1. SpawnedBefore(c) /\ j \in DOMAIN order[c] /\ j < at[c]
      BY <2>1 DEF LoopSpawns
    <3>2. monitor[<<c, order[c][j]>>] # "none"
      BY <2>1, <3>1 DEF SpawnedBefore
    <3>3. order[c][j] \in Services
      BY <2>0, <3>1
    <3>4. <<c, order[c][j]>> \in Monitors
      BY <3>3 DEF Monitors
    <3> QED
      BY <2>1, <3>2, <3>4, MonitorsAreNotForgotten
  <2>2. CASE StartBegin(c)
    <3>1. at'[c] = 1 /\ j \in Nat /\ j >= 1
      <4>1. PICK o \in StartOrders(services) : order' = [order EXCEPT ![c] = o]
        BY <2>2 DEF StartBegin
      <4>2. order'[c] \in Seq(Services)
        BY <2>0, <4>1, StartOrdersAreSequences DEF TypeOK
      <4>3. at'[c] = 1
        BY <2>2 DEF StartBegin, LoopInOrder, InOrder
      <4> QED
        BY <4>2, <4>3
    <3> QED
      BY <3>1
  <2>3. CASE StartMarkRunning(c) \/ StartSpawnMonitor(c)
    <3>1. pc[c] \in LoopPhases /\ order'[c] = order[c] /\ j \in Nat
      BY <2>0, <2>3 DEF StartMarkRunning, StartSpawnMonitor, LoopPhases
    <3>2. CASE j < at[c]
      <4>1. SpawnedBefore(c) /\ j \in DOMAIN order[c]
        BY <3>1 DEF LoopSpawns
      <4>2. monitor[<<c, order[c][j]>>] # "none"
        BY <3>1, <3>2, <4>1 DEF SpawnedBefore
      <4>3. order[c][j] \in Services
        BY <2>0, <4>1
      <4>4. <<c, order[c][j]>> \in Monitors
        BY <4>3 DEF Monitors
      <4> QED
        BY <3>1, <4>2, <4>4, MonitorsAreNotForgotten
    <3>3. CASE ~ (j < at[c])
      <4>1. at'[c] = at[c] \/ at'[c] = at[c] + 1
        BY <2>0, <2>3 DEF StartMarkRunning, StartSpawnMonitor, Step, TypeOK
      <4>2. j = at[c] /\ at'[c] = at[c] + 1
        BY <2>0, <3>1, <3>3, <4>1
      <4>3. ~ StartMarkRunning(c)
        BY <2>0, <3>1, <4>2 DEF StartMarkRunning, Current
      <4>4. monitor' = [monitor EXCEPT ![<<c, order[c][j]>>] = "check"]
        BY <2>3, <4>2, <4>3 DEF StartSpawnMonitor, Current
      <4>5. <<c, order[c][j]>> \in Monitors
        BY <2>0, <3>1 DEF Monitors
      <4> QED
        BY <3>1, <4>4, <4>5 DEF TypeOK
    <3> QED
      BY <3>2, <3>3
  <2> QED
    BY <2>1, <2>2, <2>3, PositionFrame
<1> QED
  BY TypeCorrect, LoopInOrderInvariant, <1>1, <1>2, PTL DEF Spec

-----------------------------------------------------------------------------
(* One goroutine makes the calls.  Then at most one call is under way, a    *)
(* Start in its loop owns the current run, and a live monitor belongs to    *)
(* that run or is being waited for.                                         *)

Busy(p) == pc[p] \notin Returned \cup {"idle"}
StopHolding == {"stopNext", "stopCall", "stopMark", "wait"}

OneBusy == \A p, q \in Calls : Busy(p) /\ Busy(q) => p = q
LoopOwnsRun ==
    \A c \in StartCalls : pc[c] \in LoopPhases \cup {"stop"} => running /\ rctx = c
MonitorsOfRun ==
    \A m \in Monitors : Active(m) =>
        /\ m[1] = rctx
        /\ running \/ \E p \in Calls : pc[p] \in StopHolding

OneCaller == OneBusy /\ LoopOwnsRun /\ MonitorsOfRun

LEMMA OneCallerFrame ==
    ASSUME OneCaller, UNCHANGED <<pc, running, rctx>>,
           \A m \in Monitors : Active(m)' => Active(m)
    PROVE  OneCaller'
<1>1. OneBusy'
  BY DEF OneCaller, OneBusy, Busy
<1>2. LoopOwnsRun'
  BY DEF OneCaller, LoopOwnsRun
<1>3. MonitorsOfRun'
  BY DEF OneCaller, MonitorsOfRun
<1> QED
  BY <1>1, <1>2, <1>3 DEF OneCaller

(* A step of the Start call that owns the run. *)
LEMMA OneCallerStart ==
    ASSUME TypeOK, OneCaller, NEW c \in StartCalls, StartStep(c)
    PROVE  OneCaller'
<1>0. c \in Calls /\ StartCalls \subseteq Calls
  BY DEF Calls
<1>1. /\ UNCHANGED <<running, rctx>>
      /\ pc[c] \in LoopPhases
      /\ \A p \in Calls : p # c => pc'[p] = pc[p]
  BY <1>0 DEF StartStep, StartReturn, StartNext, StartDelayElapses, StartDelayCancelled,
          StartService, StartServiceOk, StartServiceFails, StartMarkRunning,
          StartSpawnMonitor, runnerVars, Goto, TypeOK, LoopPhases
<1>2. pc[c] # "idle" /\ pc[c] \notin Returned /\ pc[c] \notin StopHolding
  BY <1>1 DEF LoopPhases, Returned, StopHolding
<1>3. running /\ rctx = c
  BY <1>1 DEF OneCaller, LoopOwnsRun
<1>4. \A m \in Monitors : Active(m)' => Active(m) \/ m[1] = c
  <2>1. CASE UNCHANGED monitor
    BY <2>1 DEF Active
  <2>2. CASE StartSpawnMonitor(c)
    <3>1. \A m \in Monitors : m # <<c, Current(c)>> => monitor'[m] = monitor[m]
      BY <2>2 DEF StartSpawnMonitor, TypeOK
    <3> QED
      BY <3>1 DEF Active
  <2> QED
    BY <2>1, <2>2 DEF StartStep, StartReturn, StartNext, StartDelayElapses,
          StartDelayCancelled, StartService, StartServiceOk, StartServiceFails,
          StartMarkRunning, monitorVars
<1>5. \A p \in Calls : Busy(p)' => Busy(p)
  BY <1>1, <1>2 DEF Busy
<1>6. OneBusy'
  BY <1>5 DEF OneCaller, OneBusy
<1>7. LoopOwnsRun'
  BY <1>0, <1>1, <1>3 DEF OneCaller, LoopOwnsRun
<1>8. MonitorsOfRun'
  BY <1>1, <1>3, <1>4 DEF OneCaller, MonitorsOfRun
<1> QED
  BY <1>6, <1>7, <1>8 DEF OneCaller

(* A call is made while no other is under way. *)
LEMMA OneCallerEntry ==
    ASSUME TypeOK, OneCaller, Serial, NEW p \in Calls,
           \/ p \in StartCalls /\ (StartRefused(p) \/ StartBegin(p))
           \/ StopEntry(p)
    PROVE  OneCaller'
<1>0. StartCalls \subseteq Calls
  BY DEF Calls
<1>1. /\ UNCHANGED monitor
      /\ \A q \in Calls : q # p => pc'[q] = pc[q]
      /\ pc[p] = "idle" \/ (p \in StartCalls /\ pc[p] = "stop")
  BY DEF StartRefused, StartBegin, StopEntry, StopNotRunning, StopBegin, EntersStop,
         monitorVars, Goto, TypeOK
<1>2. \A q \in Calls : q # p => ~ Busy(q) /\ ~ Busy(q)'
  <2>1. CASE pc[p] = "idle"
    <3>1. MayCall
      BY <2>1 DEF StartRefused, StartBegin, StopEntry, StopNotRunning, StopBegin, EntersStop
    <3>2. \A q \in Calls : ~ Busy(q)
      BY <3>1 DEF MayCall, Busy
    <3> QED
      BY <1>1, <3>2 DEF Busy
  <2>2. CASE pc[p] = "stop"
    <3>1. Busy(p)
      BY <2>2 DEF Busy, Returned
    <3>2. \A q \in Calls : q # p => ~ Busy(q)
      BY <3>1 DEF OneCaller, OneBusy
    <3> QED
      BY <1>1, <3>2 DEF Busy
  <2> QED
    BY <1>1, <2>1, <2>2
<1>3. OneBusy'
  BY <1>2 DEF OneBusy
<1>4. \A q \in Calls : pc[q] \notin StopHolding
  <2>1. \A q \in Calls : ~ Busy(q) => pc[q] \notin StopHolding
    BY DEF Busy, StopHolding, Returned
  <2>2. pc[p] \notin StopHolding
    BY <1>1 DEF StopHolding
  <2> QED
    BY <1>2, <2>1, <2>2
<1>5. \A q \in StartCalls : q # p => pc'[q] \notin LoopPhases \cup {"stop"}
  BY <1>0, <1>2 DEF Busy, LoopPhases, Returned
<1>6. \A m \in Monitors : Active(m)' => Active(m) /\ running /\ m[1] = rctx
  <2>1. \A m \in Monitors : Active(m)' => Active(m)
    BY <1>1 DEF Active
  <2> QED
    BY <2>1, <1>4 DEF OneCaller, MonitorsOfRun
<1>7. CASE p \in StartCalls /\ StartRefused(p)
  <2>1. UNCHANGED <<running, rctx>> /\ pc'[p] = "refused"
    BY <1>7 DEF StartRefused, runnerVars, Goto, TypeOK
  <2>2. LoopOwnsRun'
    BY <1>5, <2>1 DEF LoopOwnsRun, LoopPhases
  <2>3. MonitorsOfRun'
    BY <1>6, <2>1 DEF MonitorsOfRun
  <2> QED
    BY <1>3, <2>2, <2>3 DEF OneCaller
<1>8. CASE p \in StartCalls /\ StartBegin(p)
  <2>1. ~ running /\ running' /\ rctx' = p
    BY <1>8 DEF StartBegin
  <2>2. LoopOwnsRun'
    BY <1>5, <2>1 DEF LoopOwnsRun
  <2>3. MonitorsOfRun'
    BY <1>6, <2>1 DEF MonitorsOfRun
  <2> QED
    BY <1>3, <2>2, <2>3 DEF OneCaller
<1>9. CASE StopNotRunning(p)
  <2>1. UNCHANGED <<running, rctx>> /\ pc'[p] \in {"failed", "noop"}
    BY <1>9 DEF StopNotRunning, runnerVars, Goto, TypeOK
  <2>2. LoopOwnsRun'
    BY <1>5, <2>1 DEF LoopOwnsRun, LoopPhases
  <2>3. MonitorsOfRun'
    BY <1>6, <2>1 DEF MonitorsOfRun
  <2> QED
    BY <1>3, <2>2, <2>3 DEF OneCaller
<1>10. CASE StopBegin(p)
  <2>1. rctx' = rctx /\ pc'[p] = "stopNext"
    BY <1>10 DEF StopBegin, Goto, TypeOK
  <2>2. LoopOwnsRun'
    BY <1>5, <2>1 DEF LoopOwnsRun, LoopPhases
  <2>3. MonitorsOfRun'
    BY <1>6, <2>1 DEF MonitorsOfRun, StopHolding
  <2> QED
    BY <1>3, <2>2, <2>3 DEF OneCaller
<1> QED
  BY <1>7, <1>8, <1>9, <1>10 DEF StopEntry

(* Stop at work. *)
LEMMA OneCallerStop ==
    ASSUME TypeOK, OneCaller, NEW p \in Calls, StopLoop(p)
    PROVE  OneCaller'
<1>0. StartCalls \subseteq Calls
  BY DEF Calls
<1>1. /\ UNCHANGED <<running, rctx, monitor>>
      /\ \A q \in Calls : q # p => pc'[q] = pc[q]
      /\ pc[p] \in StopHolding
      /\ pc'[p] \in StopHolding \/ (MonitorsGone /\ pc'[p] \in {"failed", "returned"})
  BY DEF StopLoop, StopNext, StopContinues, StopService, StopMark, StopAll, StopWait,
         StopDone, runnerVars, monitorVars, Goto, TypeOK, StopHolding
<1>2. Busy(p)
  BY <1>1 DEF Busy, StopHolding, Returned
<1>3. OneBusy'
  BY <1>1, <1>2 DEF OneCaller, OneBusy, Busy
<1>4. LoopOwnsRun'
  BY <1>0, <1>1 DEF OneCaller, LoopOwnsRun, LoopPhases, StopHolding
<1>5. MonitorsOfRun'
  <2>1. CASE pc'[p] \in StopHolding
    BY <1>1, <2>1 DEF OneCaller, MonitorsOfRun, Active
  <2>2. CASE MonitorsGone
    BY <1>1, <2>2 DEF MonitorsOfRun, MonitorsGone, Active
  <2> QED
    BY <1>1, <2>1, <2>2
<1> QED
  BY <1>3, <1>4, <1>5 DEF OneCaller

(* A monitor's step is one of a live monitor. *)
LEMMA MonitorStepIsActive ==
    ASSUME TypeOK, NEW m \in Monitors, MonitorStep(m)
    PROVE  Active(m) /\ \A n \in Monitors : n # m => monitor'[n] = monitor[n]
BY DEF MonitorStep, MonitorExit, MonitorCheck, MonitorProbe, MonitorClaim,
       MonitorBackoffElapses, MonitorStops, MonitorMark, MonitorStarts,
       MonitorStartOk, MonitorStartFails, MonitorMarkRunning, MonitorGoto, Active, TypeOK

LEMMA OneCallerStep == TypeOK /\ OneCaller /\ Serial /\ [Next]_vars => OneCaller'
<1> SUFFICES ASSUME TypeOK, OneCaller, Serial, [Next]_vars PROVE OneCaller'
  OBVIOUS
<1>1. ASSUME NEW m \in Monitors, MonitorStep(m) PROVE OneCaller'
  <2>1. UNCHANGED <<pc, running, rctx>>
    BY <1>1, OthersKeepContext DEF callVars
  <2>2. \A n \in Monitors : Active(n)' => Active(n)
    BY <1>1, MonitorStepIsActive DEF Active
  <2> QED
    BY <2>1, <2>2, OneCallerFrame
<1>2. ASSUME NEW s \in Services, Add(s) \/ Crash(s) PROVE OneCaller'
  <2>1. UNCHANGED <<pc, running, rctx, monitor>>
    BY <1>2 DEF Add, Crash, runnerVars, callVars, monitorVars
  <2> QED
    BY <2>1, OneCallerFrame DEF Active
<1>3. ASSUME NEW c \in StartCalls, CallerCancels(c) PROVE OneCaller'
  <2>1. UNCHANGED <<pc, running, rctx, monitor>>
    BY <1>3 DEF CallerCancels, callVars, monitorVars
  <2> QED
    BY <2>1, OneCallerFrame DEF Active
<1>4. ASSUME UNCHANGED vars PROVE OneCaller'
  <2>1. UNCHANGED <<pc, running, rctx, monitor>>
    BY <1>4 DEF vars, runnerVars, callVars, monitorVars
  <2> QED
    BY <2>1, OneCallerFrame DEF Active
<1>5. ASSUME NEW c \in StartCalls, StartRefused(c) \/ StartBegin(c) PROVE OneCaller'
  BY <1>5, OneCallerEntry DEF Calls
<1> QED
  BY <1>1, <1>2, <1>3, <1>4, <1>5, OneCallerStart, OneCallerEntry, OneCallerStop DEF Next

(* Serial is a constant: the invariant is about the case where it is TRUE.  *)
OneCallerIfSerial == Serial => OneCaller

LEMMA OneCallerInvariant == Spec => []OneCallerIfSerial
<1>1. Init => OneCallerIfSerial
  <2> SUFFICES ASSUME Init PROVE OneCaller
    BY DEF OneCallerIfSerial
  <2>1. OneBusy
    BY DEF Init, OneBusy, Busy
  <2>2. LoopOwnsRun
    BY DEF Init, LoopOwnsRun, LoopPhases, Calls
  <2>3. MonitorsOfRun
    BY DEF Init, MonitorsOfRun, Active
  <2> QED
    BY <2>1, <2>2, <2>3 DEF OneCaller
<1>2. TypeOK /\ OneCallerIfSerial /\ [Next]_vars => OneCallerIfSerial'
  BY OneCallerStep DEF OneCallerIfSerial
<1> QED
  BY TypeCorrect, <1>1, <1>2, PTL DEF Spec

(* Once one goroutine's calls are over and the runner does not run, nothing *)
(* is left that could restart a service.                                    *)
THEOREM StopLeavesNoMonitor == Spec => []NoMonitorAfterStop
<1>1. OneCallerIfSerial => NoMonitorAfterStop
  BY DEF OneCallerIfSerial, OneCaller, MonitorsOfRun, NoMonitorAfterStop, Quiet,
         StopHolding, Returned
<1> QED
  BY OneCallerInvariant, <1>1, PTL

-----------------------------------------------------------------------------
(* The restart budget.  A monitor that was told to restart has not counted  *)
(* the restart yet: the increments still to come are part of the invariant. *)

Claiming(s) == {c \in StartCalls : monitor[<<c, s>>] = "claim"}

BudgetOf(s) ==
    IF Serial
       THEN /\ restartCount[s] <= MaxRetries[s]
            /\ Claiming(s) # {} => restartCount[s] < MaxRetries[s]
       ELSE restartCount[s] + Cardinality(Claiming(s))
               <= MaxRetries[s] + Cardinality(StartCalls) - 1

Budget == \A s \in Services : MaxRetries[s] > 0 => BudgetOf(s)

LEMMA ClaimingFinite ==
    ASSUME NEW s \in Services
    PROVE  IsFiniteSet(Claiming(s)) /\ Cardinality(Claiming(s)) \in Nat
BY FiniteInstance, FS_Subset, FS_CardinalityType DEF Claiming

LEMMA BudgetFrame ==
    ASSUME TypeOK, NEW s \in Services, MaxRetries[s] > 0 => BudgetOf(s),
           restartCount'[s] = restartCount[s],
           \A c \in StartCalls : monitor'[<<c, s>>] = "claim" => monitor[<<c, s>>] = "claim"
    PROVE  (MaxRetries[s] > 0 => BudgetOf(s))'
<1>1. Claiming(s)' \subseteq Claiming(s)
  BY DEF Claiming
<1>2. Cardinality(Claiming(s)') \in Nat /\ Cardinality(Claiming(s)') <= Cardinality(Claiming(s))
  BY <1>1, ClaimingFinite, FS_Subset, FS_CardinalityType
<1>3. /\ restartCount[s] \in Nat /\ MaxRetries[s] \in Nat
      /\ Cardinality(StartCalls) \in Nat /\ Cardinality(Claiming(s)) \in Nat
  BY ConfigAssumption, ClaimingFinite, FiniteInstance, FS_CardinalityType DEF TypeOK
<1>4. CASE Serial
  BY <1>1, <1>4 DEF BudgetOf
<1>5. CASE ~ Serial
  BY <1>2, <1>3, <1>5 DEF BudgetOf
<1> QED
  BY <1>4, <1>5

(* The question: one more restart is on its way. *)
LEMMA BudgetProbe ==
    ASSUME TypeOK, Budget, NEW m \in Monitors, MonitorProbe(m)
    PROVE  Budget'
<1> SUFFICES ASSUME NEW s \in Services PROVE (MaxRetries[s] > 0 => BudgetOf(s))'
  BY DEF Budget
<1>0. /\ m = <<m[1], m[2]>> /\ m[1] \in StartCalls /\ m[2] \in Services
      /\ restartCount' = restartCount
      /\ \A n \in Monitors : n # m => monitor'[n] = monitor[n]
  BY DEF Monitors, MonitorProbe, MonitorGoto, TypeOK, managedVars
<1>1. CASE s # m[2] \/ ~ ShouldRestart(s)
  <2>1. \A c \in StartCalls : monitor'[<<c, s>>] = "claim" => monitor[<<c, s>>] = "claim"
    BY <1>0, <1>1 DEF MonitorProbe, MonitorGoto, TypeOK, Monitors
  <2> QED
    BY <1>0, <2>1, BudgetFrame DEF Budget
<1>2. CASE s = m[2] /\ ShouldRestart(s)
  <2> SUFFICES ASSUME MaxRetries[s] > 0 PROVE BudgetOf(s)'
    OBVIOUS
  <2>1. restartCount[s] < MaxRetries[s]
    BY <1>2 DEF ShouldRestart
  <2>2. /\ restartCount[s] \in Nat /\ MaxRetries[s] \in Nat
        /\ Cardinality(StartCalls) \in Nat
    BY ConfigAssumption, FiniteInstance, FS_CardinalityType DEF TypeOK
  <2>3. Claiming(s)' \subseteq StartCalls
    BY DEF Claiming
  <2>4. Cardinality(Claiming(s)') \in Nat
        /\ Cardinality(Claiming(s)') <= Cardinality(StartCalls)
    BY <2>3, FiniteInstance, FS_Subset, FS_CardinalityType
  <2>5. CASE Serial
    BY <1>0, <2>1, <2>2, <2>5 DEF BudgetOf
  <2>6. CASE ~ Serial
    BY <1>0, <2>1, <2>2, <2>4, <2>6 DEF BudgetOf
  <2> QED
    BY <2>5, <2>6
<1> QED
  BY <1>1, <1>2

(* The increment. *)
LEMMA BudgetClaim ==
    ASSUME TypeOK, Budget, OneCallerIfSerial, NEW m \in Monitors, MonitorClaim(m)
    PROVE  Budget'
<1> SUFFICES ASSUME NEW s \in Services PROVE (MaxRetries[s] > 0 => BudgetOf(s))'
  BY DEF Budget
<1>0. /\ m = <<m[1], m[2]>> /\ m[1] \in StartCalls /\ m[2] \in Services
      /\ monitor[m] = "claim" /\ monitor'[m] = "backoff"
      /\ \A n \in Monitors : n # m => monitor'[n] = monitor[n]
      /\ \A r \in Services : r # m[2] => restartCount'[r] = restartCount[r]
  BY DEF Monitors, MonitorClaim, MonitorGoto, TypeOK
<1>1. CASE s # m[2]
  <2>1. \A c \in StartCalls : monitor'[<<c, s>>] = "claim" => monitor[<<c, s>>] = "claim"
    BY <1>0, <1>1 DEF Monitors
  <2> QED
    BY <1>0, <1>1, <2>1, BudgetFrame DEF Budget
<1>2. CASE s = m[2]
  <2> SUFFICES ASSUME MaxRetries[s] > 0 PROVE BudgetOf(s)'
    OBVIOUS
  <2>1. BudgetOf(s)
    BY DEF Budget
  <2>2. /\ restartCount[s] \in Nat /\ MaxRetries[s] \in Nat
        /\ Cardinality(StartCalls) \in Nat
    BY ConfigAssumption, FiniteInstance, FS_CardinalityType DEF TypeOK
  <2>3. restartCount'[s] \in Nat /\ restartCount'[s] <= restartCount[s] + 1
    BY <1>2, <2>2, ConfigAssumption DEF MonitorClaim, Counted, TypeOK
  <2>4. m[1] \in Claiming(s)
    BY <1>0, <1>2 DEF Claiming
  <2>5. Claiming(s)' = Claiming(s) \ {m[1]}
    <3>1. \A c \in StartCalls : c # m[1] => monitor'[<<c, s>>] = monitor[<<c, s>>]
      BY <1>0 DEF Monitors
    <3>2. monitor'[<<m[1], s>>] = "backoff"
      BY <1>0, <1>2
    <3> QED
      BY <3>1, <3>2 DEF Claiming
  <2>6. CASE Serial
    <3>1. restartCount[s] < MaxRetries[s]
      BY <2>1, <2>4, <2>6 DEF BudgetOf
    <3>2. Claiming(s) \subseteq {rctx}
      BY <2>6 DEF Claiming, OneCallerIfSerial, OneCaller, MonitorsOfRun, Active, Monitors
    <3>3. Claiming(s)' = {}
      BY <2>4, <2>5, <3>2
    <3> QED
      BY <2>2, <2>3, <2>6, <3>1, <3>3 DEF BudgetOf
  <2>7. CASE ~ Serial
    <3>1. Cardinality(Claiming(s)') = Cardinality(Claiming(s)) - 1
      BY <2>4, <2>5, ClaimingFinite, FS_RemoveElement
    <3>2. Cardinality(Claiming(s)) \in Nat
      BY ClaimingFinite
    <3> QED
      BY <2>1, <2>2, <2>3, <2>7, <3>1, <3>2 DEF BudgetOf
  <2> QED
    BY <2>6, <2>7
<1> QED
  BY <1>1, <1>2

(* Every other step leaves the count alone and claims nothing. *)
LEMMA OthersClaimNothing ==
    ASSUME TypeOK, [Next]_vars,
           \A m \in Monitors : ~ MonitorProbe(m) /\ ~ MonitorClaim(m)
    PROVE  /\ restartCount' = restartCount
           /\ \A m \in Monitors : monitor'[m] = "claim" => monitor[m] = "claim"
<1>1. ASSUME NEW s \in Services, Add(s) \/ Crash(s)
      PROVE  UNCHANGED <<restartCount, monitor>>
  BY <1>1 DEF Add, Crash, managedVars, monitorVars
<1>2. ASSUME NEW c \in StartCalls, StartRefused(c) \/ StartBegin(c) \/ CallerCancels(c)
      PROVE  UNCHANGED <<restartCount, monitor>>
  BY <1>2 DEF StartRefused, StartBegin, CallerCancels, managedVars, monitorVars
<1>3. ASSUME NEW c \in StartCalls, StartStep(c)
      PROVE  /\ restartCount' = restartCount
             /\ \A m \in Monitors : monitor'[m] = "claim" => monitor[m] = "claim"
  BY <1>3 DEF StartStep, StartReturn, StartNext, StartDelayElapses, StartDelayCancelled,
              StartService, StartServiceOk, StartServiceFails, StartMarkRunning,
              StartSpawnMonitor, managedVars, monitorVars, TypeOK
<1>4. ASSUME NEW p \in Calls, StopEntry(p) \/ StopLoop(p)
      PROVE  UNCHANGED <<restartCount, monitor>>
  BY <1>4 DEF StopEntry, StopLoop, StopNotRunning, StopBegin, StopNext, StopService,
              StopMark, StopAll, StopWait, managedVars, monitorVars
<1>5. ASSUME NEW m \in Monitors, MonitorStep(m)
      PROVE  /\ restartCount' = restartCount
             /\ \A n \in Monitors : monitor'[n] = "claim" => monitor[n] = "claim"
  <2>1. ~ MonitorProbe(m) /\ ~ MonitorClaim(m)
    OBVIOUS
  <2> QED
    BY <1>5, <2>1
       DEF MonitorStep, MonitorExit, MonitorCheck, MonitorBackoffElapses, MonitorStops,
           MonitorMark, MonitorStarts, MonitorStartOk, MonitorStartFails,
           MonitorMarkRunning, MonitorGoto, managedVars, TypeOK
<1>6. ASSUME UNCHANGED vars PROVE UNCHANGED <<restartCount, monitor>>
  BY <1>6 DEF vars, managedVars, monitorVars
<1> QED
  BY <1>1, <1>2, <1>3, <1>4, <1>5, <1>6 DEF Next

(* MaxRetries bounds the restarts of a service over the runner's life, up   *)
(* to one for each further Start call when calls overlap.                   *)
THEOREM RestartsBounded == Spec => []RestartBudget
<1>1. Init => Budget
  <2> SUFFICES ASSUME Init, NEW s \in Services, MaxRetries[s] > 0 PROVE BudgetOf(s)
    BY DEF Budget
  <2>1. restartCount[s] = 0 /\ Claiming(s) = {}
    BY DEF Init, Claiming, Monitors
  <2>2. MaxRetries[s] \in Nat /\ Cardinality(StartCalls) \in Nat
    BY ConfigAssumption, FiniteInstance, FS_CardinalityType
  <2>3. Cardinality(Claiming(s)) = 0
    BY <2>1, FS_EmptySet
  <2> QED
    BY <2>1, <2>2, <2>3 DEF BudgetOf
<1>2. TypeOK /\ OneCallerIfSerial /\ Budget /\ [Next]_vars => Budget'
  <2> SUFFICES ASSUME TypeOK, OneCallerIfSerial, Budget, [Next]_vars PROVE Budget'
    OBVIOUS
  <2>1. CASE \A m \in Monitors : ~ MonitorProbe(m) /\ ~ MonitorClaim(m)
    <3>1. ASSUME NEW s \in Services PROVE (MaxRetries[s] > 0 => BudgetOf(s))'
      <4>1. MaxRetries[s] > 0 => BudgetOf(s)
        BY DEF Budget
      <4>2. /\ restartCount'[s] = restartCount[s]
            /\ \A c \in StartCalls : monitor'[<<c, s>>] = "claim" => monitor[<<c, s>>] = "claim"
        BY <2>1, OthersClaimNothing DEF Monitors
      <4> QED
        BY <4>1, <4>2, BudgetFrame
    <3> QED
      BY <3>1 DEF Budget
  <2> QED
    BY <2>1, BudgetProbe, BudgetClaim
<1>3. TypeOK /\ Budget => RestartBudget
  <2> SUFFICES ASSUME TypeOK, Budget, NEW s \in Services, MaxRetries[s] > 0
               PROVE  restartCount[s] <= MaxRetries[s] +
                         (IF Serial THEN 0 ELSE Cardinality(StartCalls) - 1)
    BY DEF RestartBudget
  <2>1. /\ BudgetOf(s)
        /\ MaxRetries[s] \in Nat /\ Cardinality(StartCalls) \in Nat
        /\ Cardinality(Claiming(s)) \in Nat /\ restartCount[s] \in Nat
    BY ConfigAssumption, ClaimingFinite, FiniteInstance, FS_CardinalityType DEF Budget, TypeOK
  <2> QED
    BY <2>1 DEF BudgetOf
<1> QED
  BY TypeCorrect, OneCallerInvariant, <1>1, <1>2, <1>3, PTL DEF Spec

-----------------------------------------------------------------------------
(* What a run knows of its services when one goroutine makes the calls.  A  *)
(* service that was never restarted is touched by the calls alone.          *)

Restarting == {"backoff", "stop", "mark", "start", "starting", "up"}

RestartsCounted ==
    /\ \A m \in Monitors :
          /\ monitor[m] \in Restarting => restartCount[m[2]] > 0
          /\ monitor[m] = "claim" => Policy[m[2]] # "never"
    /\ \A s \in Services : restartCount[s] > 0 => Policy[s] # "never"

StopLoopPhases == {"stopNext", "stopCall", "stopMark"}

(* The run that Start call rctx began, until a Stop: it starts or has       *)
(* started the services of startOrder up to Passed.                         *)
InRun == running /\ rctx \in StartCalls /\ pc[rctx] \in LoopPhases \cup {"returned"}
Passed(j) == j < at[rctx] \/ (j = at[rctx] /\ pc[rctx] = "spawn")

OrderOfRun ==
    /\ \A i, j \in DOMAIN startOrder : startOrder[i] = startOrder[j] => i = j
    /\ DependenciesBefore(startOrder)
    /\ running => \A s \in services : \E j \in DOMAIN startOrder : startOrder[j] = s
    /\ InRun => /\ order[rctx] = startOrder
                /\ pc[rctx] = "returned" => at[rctx] > Len(startOrder)
    /\ \A p \in Calls : pc[p] \in StopLoopPhases =>
          /\ ~ running
          /\ order[p] = Reverse(startOrder)
          /\ at[p] >= 1
          /\ pc[p] # "stopNext" => at[p] <= Len(startOrder)

StillToStop(p, s) ==
    /\ pc[p] \in StopLoopPhases
    /\ \E j \in DOMAIN order[p] : j >= at[p] /\ order[p][j] = s

FlagOf(s) ==
    restartCount[s] = 0 =>
        /\ ~ svcRunning[s] => Halted(s) \/ \E c \in StartCalls : pc[c] = "mark" /\ Current(c) = s
        /\ svcRunning[s] /\ ~ running => \E p \in Calls : StillToStop(p, s)
        /\ svcRunning[s] /\ running => \E j \in DOMAIN startOrder : startOrder[j] = s
        /\ \A p \in Calls : pc[p] = "stopMark" /\ Current(p) = s => Halted(s)

Flags == \A s \in Services : FlagOf(s)

TruthOfRun ==
    InRun =>
        /\ \A j \in DOMAIN startOrder : Passed(j) =>
              /\ restartCount[startOrder[j]] = 0 => svcRunning[startOrder[j]]
              /\ svcRunning[startOrder[j]] /\ instance[startOrder[j]] = "down" =>
                    monitor[<<rctx, startOrder[j]>>] = "mark"
        /\ \A s \in Services :
              /\ Active(<<rctx, s>>) =>
                    \E j \in DOMAIN startOrder : j < at[rctx] /\ startOrder[j] = s
              /\ monitor[<<rctx, s>>] = "up" => instance[s] # "down"
        /\ pc[rctx] = "mark" => instance[Current(rctx)] # "down"

(* A step of a monitor concerns its own service, and one that has not       *)
(* counted a restart yet leaves flag and service alone.                     *)
LEMMA MonitorEffect ==
    ASSUME TypeOK, NEW m \in Monitors, MonitorStep(m)
    PROVE  /\ UNCHANGED <<runnerVars, callVars>>
           /\ \A s \in Services : s # m[2] =>
                 /\ restartCount'[s] = restartCount[s]
                 /\ svcRunning'[s] = svcRunning[s]
                 /\ instance'[s] = instance[s]
           /\ monitor[m] \notin Restarting =>
                 svcRunning' = svcRunning /\ instance' = instance
           /\ monitor[m] # "claim" => restartCount' = restartCount
           /\ monitor[m] = "claim" =>
                 restartCount' = [restartCount EXCEPT ![m[2]] = Counted(@)]
           /\ monitor'[m] \in Restarting => monitor[m] \in Restarting \cup {"claim"}
           /\ monitor'[m] = "claim" => Policy[m[2]] # "never"
<1> USE DEF runnerVars, managedVars, callVars, Restarting, TypeOK
<1>1. CASE MonitorExit(m) \/ MonitorCheck(m) \/ MonitorBackoffElapses(m)
  BY <1>1 DEF MonitorExit, MonitorCheck, MonitorBackoffElapses, MonitorGoto
<1>2. CASE MonitorProbe(m)
  BY <1>2 DEF MonitorProbe, MonitorGoto, ShouldRestart
<1>3. CASE MonitorClaim(m)
  BY <1>3 DEF MonitorClaim, MonitorGoto
<1>4. CASE MonitorStops(m) \/ MonitorStartOk(m)
  BY <1>4 DEF MonitorStops, MonitorStartOk, MonitorGoto, ServiceStops, Unstopped, ServiceStarts
<1>5. CASE MonitorMark(m) \/ MonitorMarkRunning(m)
  BY <1>5 DEF MonitorMark, MonitorMarkRunning, MonitorGoto
<1>6. CASE MonitorStarts(m) \/ MonitorStartFails(m)
  BY <1>6 DEF MonitorStarts, MonitorStartFails, MonitorGoto
<1> QED
  BY <1>1, <1>2, <1>3, <1>4, <1>5, <1>6 DEF MonitorStep

(* The steps of a Start call, by what they change. *)
StartQuiet(c) ==
    /\ UNCHANGED <<svcRunning, instance, monitor, at>>
    /\ pc[c] \in {"next", "delay", "call", "starting"}
    /\ pc'[c] \in {"delay", "call", "starting", "stop", "returned"}
    /\ pc'[c] = "returned" => at[c] > Len(order[c])

LEMMA StartEffect ==
    ASSUME TypeOK, NEW c \in StartCalls, StartStep(c)
    PROVE  /\ pc[c] \in LoopPhases
           /\ UNCHANGED <<runnerVars, restartCount, order>>
           /\ \A p \in Calls : p # c => pc'[p] = pc[p] /\ at'[p] = at[p]
           /\ \/ StartQuiet(c)
              \/ StartServiceOk(c) /\ pc'[c] = "mark"
              \/ /\ StartMarkRunning(c)
                 /\ \/ pc'[c] = "next" /\ at'[c] = at[c] + 1
                    \/ pc'[c] = "spawn" /\ at'[c] = at[c]
              \/ StartSpawnMonitor(c) /\ pc'[c] = "next" /\ at'[c] = at[c] + 1
<1>0. c \in Calls
  BY DEF Calls
<1> USE DEF runnerVars, managedVars, callVars, monitorVars, TypeOK, LoopPhases
<1>1. CASE \/ StartReturn(c) \/ StartNext(c) \/ StartDelayElapses(c) \/ StartDelayCancelled(c)
           \/ StartService(c) \/ StartServiceFails(c)
  BY <1>0, <1>1 DEF StartReturn, StartNext, StartDelayElapses, StartDelayCancelled,
                    StartService, StartServiceFails, StartQuiet, Goto
<1>2. CASE StartServiceOk(c)
  BY <1>0, <1>2 DEF StartServiceOk, Goto
<1>3. CASE StartMarkRunning(c)
  BY <1>0, <1>3 DEF StartMarkRunning, Goto, Step
<1>4. CASE StartSpawnMonitor(c)
  BY <1>0, <1>4 DEF StartSpawnMonitor, Goto, Step
<1> QED
  BY <1>1, <1>2, <1>3, <1>4 DEF StartStep

(* Restarts are counted before they are made. *)
LEMMA RestartsCountedInvariant == Spec => []RestartsCounted
<1>1. Init => RestartsCounted
  BY DEF Init, RestartsCounted, Restarting
<1>2. TypeOK /\ RestartsCounted /\ [Next]_vars => RestartsCounted'
  <2> SUFFICES ASSUME TypeOK, RestartsCounted, [Next]_vars PROVE RestartsCounted'
    OBVIOUS
  <2>1. ASSUME UNCHANGED restartCount,
               \A m \in Monitors : monitor'[m] \in {monitor[m], "check"}
        PROVE  RestartsCounted'
    BY <2>1 DEF RestartsCounted, Restarting
  <2>2. ASSUME NEW m \in Monitors, MonitorStep(m) PROVE RestartsCounted'
    <3>1. m[1] \in StartCalls /\ m[2] \in Services
      BY DEF Monitors
    <3>2. ASSUME monitor[m] = "claim" PROVE restartCount'[m[2]] > 0 /\ Policy[m[2]] # "never"
      <4>1. Cardinality(StartCalls) \in Nat /\ Cardinality(StartCalls) # 0
        BY <3>1, FiniteInstance, FS_CardinalityType, FS_EmptySet
      <4>2. CountBound \in Nat /\ MaxRetries[m[2]] \in Nat
        BY <3>1, ConfigAssumption
      <4>3. CountBound >= MaxRetries[m[2]] + Cardinality(StartCalls)
        BY <3>1, CountBoundLargeEnough
      <4>4. CountBound >= 1
        BY <4>1, <4>2, <4>3
      <4>5. restartCount'[m[2]] = Counted(restartCount[m[2]]) /\ restartCount[m[2]] \in Nat
        BY <2>2, <3>1, <3>2, MonitorEffect DEF TypeOK
      <4>6. restartCount'[m[2]] > 0
        BY <4>2, <4>4, <4>5 DEF Counted
      <4> QED
        BY <3>2, <4>6 DEF RestartsCounted
    <3>3. \A s \in Services : restartCount[s] > 0 => restartCount'[s] > 0
      <4> TAKE s \in Services
      <4>1. CASE s = m[2] /\ monitor[m] = "claim"
        BY <3>2, <4>1
      <4>2. CASE ~ (s = m[2] /\ monitor[m] = "claim")
        BY <2>2, <4>2, MonitorEffect
      <4> QED
        BY <4>1, <4>2
    <3>4. \A s \in Services : restartCount'[s] > 0 => Policy[s] # "never"
      <4> TAKE s \in Services
      <4>1. CASE s = m[2] /\ monitor[m] = "claim"
        BY <3>2, <4>1
      <4>2. CASE ~ (s = m[2] /\ monitor[m] = "claim")
        BY <2>2, <4>2, MonitorEffect DEF RestartsCounted
      <4> QED
        BY <4>1, <4>2
    <3>5. \A n \in Monitors : n # m => monitor'[n] = monitor[n]
      BY <2>2, MonitorStepIsActive
    <3>6. \A n \in Monitors : n[2] \in Services
      BY DEF Monitors
    <3>7. monitor'[m] \in Restarting => restartCount'[m[2]] > 0
      BY <2>2, <3>1, <3>2, <3>3, MonitorEffect DEF RestartsCounted
    <3>8. monitor'[m] = "claim" => Policy[m[2]] # "never"
      BY <2>2, MonitorEffect
    <3> QED
      BY <3>3, <3>4, <3>5, <3>6, <3>7, <3>8 DEF RestartsCounted
  <2>3. ASSUME NEW s \in Services, Add(s) \/ Crash(s) PROVE RestartsCounted'
    BY <2>1, <2>3 DEF Add, Crash, managedVars, monitorVars
  <2>4. ASSUME NEW c \in StartCalls, StartRefused(c) \/ StartBegin(c) \/ CallerCancels(c)
        PROVE  RestartsCounted'
    BY <2>1, <2>4 DEF StartRefused, StartBegin, CallerCancels, managedVars, monitorVars
  <2>5. ASSUME NEW c \in StartCalls, StartStep(c) PROVE RestartsCounted'
    <3>1. UNCHANGED restartCount
      BY <2>5, StartEffect
    <3>2. \A m \in Monitors : monitor'[m] \in {monitor[m], "check"}
      BY <2>5, StartEffect
         DEF StartQuiet, StartServiceOk, StartMarkRunning, StartSpawnMonitor, monitorVars, TypeOK
    <3> QED
      BY <2>1, <3>1, <3>2
  <2>6. ASSUME NEW p \in Calls, StopEntry(p) \/ StopLoop(p) PROVE RestartsCounted'
    BY <2>1, <2>6 DEF StopEntry, StopLoop, StopNotRunning, StopBegin, StopNext, StopService,
                      StopMark, StopAll, StopWait, managedVars, monitorVars
  <2>7. ASSUME UNCHANGED vars PROVE RestartsCounted'
    BY <2>1, <2>7 DEF vars, managedVars, monitorVars
  <2> QED
    BY <2>2, <2>3, <2>4, <2>5, <2>6, <2>7 DEF Next
<1> QED
  BY TypeCorrect, <1>1, <1>2, PTL DEF Spec

(* The slice that topologicalSort returned. *)
LEMMA StartOrdersAreExact ==
    ASSUME NEW S \in SUBSET Services, NEW o \in StartOrders(S)
    PROVE  /\ \A i, j \in DOMAIN o : o[i] = o[j] => i = j
           /\ \A s \in S : \E j \in DOMAIN o : o[j] = s
           /\ DependenciesBefore(o)
<1>1. IsFiniteSet(S)
  BY FiniteInstance, FS_Subset
<1>2. Cardinality(S) \in Nat
  BY <1>1, FS_CardinalityType
<1>3. /\ o \in [1 .. Cardinality(S) -> S]
      /\ \A s \in S : \E i \in DOMAIN o : o[i] = s
  BY DEF StartOrders
<1>4. o \in Surjection(1 .. Cardinality(S), S)
  BY <1>3 DEF Surjection
<1>5. IsFiniteSet(1 .. Cardinality(S)) /\ Cardinality(1 .. Cardinality(S)) = Cardinality(S)
  <2>1. 1 - 1 <= Cardinality(S)
    BY <1>2
  <2> QED
    BY <1>2, <2>1, FS_Interval
<1>6. o \in Injection(1 .. Cardinality(S), S)
  BY <1>1, <1>4, <1>5, FS_SurjSameCardinalityImpliesInj
<1> QED
  BY <1>3, <1>6, StartOrdersAreSequences DEF Injection, IsInjective, DependenciesBefore

LEMMA NobodyBusy ==
    ASSUME MayCall, Serial, NEW p \in Calls
    PROVE  ~ Busy(p) /\ pc[p] \notin StopLoopPhases \cup {"mark"}
BY DEF MayCall, Busy, StopLoopPhases, Returned

LEMMA OthersIdle ==
    ASSUME OneCaller, NEW p \in Calls, Busy(p), NEW q \in Calls, q # p
    PROVE  pc[q] \notin StopHolding \cup LoopPhases
BY DEF OneCaller, OneBusy, Busy, StopHolding, LoopPhases, Returned

LEMMA OrderFrame ==
    ASSUME OrderOfRun, UNCHANGED <<startOrder, running, rctx, order>>,
           running => services' = services,
           NEW p \in Calls,
           \A q \in Calls : q # p => pc'[q] = pc[q] /\ at'[q] = at[q],
           pc'[p] \notin StopLoopPhases, rctx = p /\ InRun' => order[p] = startOrder,
           rctx = p /\ pc'[p] = "returned" /\ running => at'[p] > Len(order'[p])
    PROVE  OrderOfRun'
<1>1. \A q \in Calls : pc'[q] \in StopLoopPhases => q # p
  OBVIOUS
<1>2. /\ \A i, j \in DOMAIN startOrder' : startOrder'[i] = startOrder'[j] => i = j
      /\ DependenciesBefore(startOrder')
      /\ running' => \A s \in services' : \E j \in DOMAIN startOrder' : startOrder'[j] = s
  BY DEF OrderOfRun
<1>3. ASSUME InRun'
      PROVE  order'[rctx'] = startOrder' /\ (pc'[rctx'] = "returned" => at'[rctx'] > Len(startOrder'))
  <2>1. CASE rctx = p
    BY <1>3, <2>1 DEF InRun
  <2>2. CASE rctx # p
    <3>1. InRun /\ rctx \in Calls
      BY <1>3, <2>2 DEF InRun, Calls
    <3> QED
      BY <2>2, <3>1 DEF OrderOfRun
  <2> QED
    BY <2>1, <2>2
<1>4. \A q \in Calls : pc'[q] \in StopLoopPhases =>
         /\ ~ running'
         /\ order'[q] = Reverse(startOrder')
         /\ at'[q] >= 1
         /\ pc'[q] # "stopNext" => at'[q] <= Len(startOrder')
  BY <1>1 DEF OrderOfRun
<1> QED
  BY <1>2, <1>3, <1>4 DEF OrderOfRun

LEMMA OrderQuiet ==
    ASSUME OrderOfRun, UNCHANGED <<startOrder, running, rctx, callVars>>,
           running => services' = services
    PROVE  OrderOfRun'
<1> USE DEF callVars
<1>1. DependenciesBefore(startOrder') <=> DependenciesBefore(startOrder)
  OBVIOUS
<1>2. InRun' <=> InRun
  BY DEF InRun
<1> QED
  BY <1>1, <1>2 DEF OrderOfRun

LEMMA OrderStart ==
    ASSUME TypeOK, LoopInOrder, Serial, OneCaller, OrderOfRun, NEW c \in StartCalls,
           StartStep(c) \/ StartRefused(c) \/ StartBegin(c)
    PROVE  OrderOfRun'
<1>0. c \in Calls
  BY DEF Calls
<1>1. CASE StartStep(c)
  <2>1. /\ pc[c] \in LoopPhases
        /\ UNCHANGED <<runnerVars, order>>
        /\ \A p \in Calls : p # c => pc'[p] = pc[p] /\ at'[p] = at[p]
    BY <1>1, StartEffect
  <2>2. /\ pc'[c] \in LoopPhases \cup {"stop", "returned"}
        /\ pc'[c] = "returned" => at'[c] > Len(order'[c])
    BY <1>1, <2>1, StartEffect DEF StartQuiet, LoopPhases
  <2>3. running /\ rctx = c
    BY <2>1 DEF OneCaller, LoopOwnsRun
  <2>4. order[c] = startOrder
    BY <2>1, <2>3 DEF OrderOfRun, InRun
  <2>5. UNCHANGED <<startOrder, running, rctx, order, services>>
    BY <2>1 DEF runnerVars
  <2>6. pc'[c] \notin StopLoopPhases
    BY <2>2 DEF LoopPhases, StopLoopPhases
  <2> QED
    BY <1>0, <2>1, <2>2, <2>4, <2>5, <2>6, OrderFrame
<1>2. CASE StartRefused(c)
  <2>1. /\ UNCHANGED <<startOrder, running, rctx, order, services, at>>
        /\ pc'[c] = "refused" /\ \A p \in Calls : p # c => pc'[p] = pc[p]
    BY <1>0, <1>2 DEF StartRefused, runnerVars, Goto, TypeOK
  <2>2. rctx = c => ~ InRun'
    BY <2>1 DEF InRun, LoopPhases
  <2>3. pc'[c] \notin StopLoopPhases
    BY <2>1 DEF StopLoopPhases
  <2> QED
    BY <1>0, <2>1, <2>2, <2>3, OrderFrame
<1>3. CASE StartBegin(c)
  <2>1. PICK o \in StartOrders(services) :
           startOrder' = o /\ order' = [order EXCEPT ![c] = o]
    BY <1>3 DEF StartBegin
  <2>2. /\ \A i, j \in DOMAIN o : o[i] = o[j] => i = j
        /\ \A s \in services : \E j \in DOMAIN o : o[j] = s
        /\ DependenciesBefore(o)
    BY StartOrdersAreExact DEF TypeOK
  <2>3. /\ rctx' = c /\ services' = services /\ order'[c] = o /\ pc'[c] = "next"
        /\ \A p \in Calls : p # c => pc'[p] = pc[p]
    BY <1>0, <1>3, <2>1 DEF StartBegin, Goto, TypeOK
  <2>4. \A p \in Calls : pc'[p] \notin StopLoopPhases
    BY <1>3, <2>3, NobodyBusy DEF StartBegin, StopLoopPhases
  <2>5. pc'[rctx'] # "returned" /\ order'[rctx'] = startOrder'
    BY <2>1, <2>3
  <2> QED
    BY <2>1, <2>2, <2>3, <2>4, <2>5 DEF OrderOfRun
<1> QED
  BY <1>1, <1>2, <1>3

LEMMA OrderStop ==
    ASSUME TypeOK, Serial, OneCaller, OrderOfRun, NEW p \in Calls, StopEntry(p) \/ StopLoop(p)
    PROVE  OrderOfRun'
<1> USE DEF runnerVars
<1>0. /\ startOrder \in Seq(Services) /\ at[p] \in Nat /\ StartCalls \subseteq Calls
      /\ Len(startOrder) \in Nat
  BY DEF TypeOK, Calls
<1>1. CASE StopNotRunning(p) \/ StopWait(p) \/ StopAll(p)
  <2>1. /\ UNCHANGED <<startOrder, running, rctx, order, services, at>>
        /\ pc'[p] \in {"failed", "noop", "wait"} \/ (p \in StopCalls /\ pc'[p] = "returned")
        /\ \A q \in Calls : q # p => pc'[q] = pc[q]
    BY <1>1 DEF StopNotRunning, StopWait, StopAll, StopDone, Goto, TypeOK, Calls
  <2>3. rctx = p => ~ InRun'
    BY <2>1, CallsDisjoint DEF InRun, LoopPhases
  <2>4. rctx = p /\ pc'[p] = "returned" /\ running => FALSE
    <3>1. CASE p \in StopCalls
      <4>1. rctx # p
        BY <3>1, CallsDisjoint DEF TypeOK, Contexts, Calls
      <4> QED
        BY <4>1
    <3>2. CASE p \notin StopCalls
      BY <2>1, <3>2
    <3> QED
      BY <3>1, <3>2
  <2>5. pc'[p] \notin StopLoopPhases
    BY <2>1 DEF StopLoopPhases
  <2> QED
    BY <2>1, <2>3, <2>4, <2>5, OrderFrame
<1>2. CASE StopBegin(p)
  <2>1. /\ running /\ ~ running' /\ UNCHANGED <<startOrder, rctx, services>>
        /\ order'[p] = Reverse(startOrder) /\ at'[p] = 1 /\ pc'[p] = "stopNext"
        /\ \A q \in Calls : q # p => pc'[q] = pc[q]
    BY <1>2 DEF StopBegin, StopOrder, Goto, TypeOK
  <2>2. \A q \in Calls : pc'[q] \in StopLoopPhases => q = p
    BY <2>1 DEF OrderOfRun
  <2>3. ~ InRun'
    BY <2>1 DEF InRun
  <2>4. DependenciesBefore(startOrder')
    BY <2>1 DEF OrderOfRun
  <2>5. \A q \in Calls : pc'[q] \in StopLoopPhases =>
           /\ ~ running'
           /\ order'[q] = Reverse(startOrder')
           /\ at'[q] >= 1
           /\ pc'[q] # "stopNext" => at'[q] <= Len(startOrder')
    BY <2>1, <2>2
  <2> QED
    BY <2>1, <2>3, <2>4, <2>5 DEF OrderOfRun
<1>3. CASE StopNext(p) \/ StopService(p) \/ StopMark(p)
  <2>1. /\ UNCHANGED <<startOrder, running, rctx, services, order>>
        /\ pc[p] \in StopLoopPhases
        /\ \A q \in Calls : q # p => pc'[q] = pc[q] /\ at'[q] = at[q]
        /\ at'[p] \in {at[p], at[p] + 1}
        /\ pc'[p] \in StopLoopPhases
        /\ pc'[p] # "stopNext" =>
              at'[p] = at[p] /\ (pc[p] # "stopNext" \/ at[p] <= Len(order[p]))
    BY <1>3 DEF StopNext, StopContinues, StopService, StopMark, Goto, Step, TypeOK,
                StopLoopPhases
  <2>2. ~ running /\ order[p] = Reverse(startOrder) /\ at[p] >= 1
    BY <2>1 DEF OrderOfRun
  <2>3. Len(order[p]) = Len(startOrder)
    BY <1>0, <2>2 DEF Reverse
  <2>4. ~ InRun'
    BY <2>1, <2>2 DEF InRun
  <2>5. at'[p] >= 1
    BY <1>0, <2>1, <2>2
  <2>6. pc'[p] # "stopNext" => at'[p] <= Len(startOrder)
    BY <2>1, <2>3 DEF OrderOfRun
  <2>7. \A q \in Calls : pc'[q] \in StopLoopPhases =>
           /\ ~ running'
           /\ order'[q] = Reverse(startOrder')
           /\ at'[q] >= 1
           /\ pc'[q] # "stopNext" => at'[q] <= Len(startOrder')
    <3> TAKE q \in Calls
    <3>1. CASE q = p
      BY <2>1, <2>2, <2>5, <2>6, <3>1
    <3>2. CASE q # p
      BY <2>1, <3>2 DEF OrderOfRun
    <3> QED
      BY <3>1, <3>2
  <2>8. DependenciesBefore(startOrder')
    BY <2>1 DEF OrderOfRun
  <2> QED
    BY <2>1, <2>2, <2>4, <2>7, <2>8 DEF OrderOfRun
<1> QED
  BY <1>1, <1>2, <1>3 DEF StopEntry, StopLoop

(* The flag of a service that was never restarted. *)
LEMMA FlagFrame ==
    ASSUME NEW s \in Services, FlagOf(s), UNCHANGED <<running, startOrder>>,
           restartCount'[s] = 0 =>
              /\ restartCount[s] = 0 /\ svcRunning'[s] = svcRunning[s]
              /\ Halted(s) => Halted(s)',
           \A p \in Calls :
              \/ pc'[p] = pc[p] /\ order'[p] = order[p] /\ at'[p] = at[p]
              \/ pc[p] \notin {"mark"} \cup StopLoopPhases /\ pc'[p] # "stopMark"
    PROVE  FlagOf(s)'
<1> SUFFICES ASSUME restartCount'[s] = 0 PROVE FlagOf(s)'
  BY DEF FlagOf
<1>1. /\ restartCount[s] = 0 /\ svcRunning'[s] = svcRunning[s] /\ (Halted(s) => Halted(s)')
  OBVIOUS
<1>2. ~ svcRunning'[s] =>
         Halted(s)' \/ \E c \in StartCalls : pc'[c] = "mark" /\ order'[c][at'[c]] = s
  BY <1>1 DEF FlagOf, Calls, Current
<1>3. svcRunning'[s] /\ ~ running' =>
         \E p \in Calls : /\ pc'[p] \in StopLoopPhases
                          /\ \E j \in DOMAIN order'[p] : j >= at'[p] /\ order'[p][j] = s
  <2> SUFFICES ASSUME svcRunning'[s], ~ running'
               PROVE  \E p \in Calls : /\ pc'[p] \in StopLoopPhases
                          /\ \E j \in DOMAIN order'[p] : j >= at'[p] /\ order'[p][j] = s
    OBVIOUS
  <2>1. PICK p \in Calls : StillToStop(p, s)
    BY <1>1 DEF FlagOf
  <2>2. pc'[p] = pc[p] /\ order'[p] = order[p] /\ at'[p] = at[p]
    BY <2>1 DEF StillToStop
  <2> QED
    BY <2>1, <2>2 DEF StillToStop
<1>4. svcRunning'[s] /\ running' => \E j \in DOMAIN startOrder' : startOrder'[j] = s
  BY <1>1 DEF FlagOf
<1>5. \A p \in Calls : pc'[p] = "stopMark" /\ order'[p][at'[p]] = s => Halted(s)'
  BY <1>1 DEF FlagOf, Current
<1> QED
  BY <1>2, <1>3, <1>4, <1>5 DEF FlagOf, Current, StillToStop

LEMMA FlagsOthers ==
    ASSUME TypeOK, RestartsCounted, Flags,
           \/ \E s \in Services : Add(s) \/ Crash(s)
           \/ \E m \in Monitors : MonitorStep(m)
           \/ \E c \in StartCalls : CallerCancels(c)
           \/ UNCHANGED vars
    PROVE  Flags'
<1> SUFFICES ASSUME NEW s \in Services PROVE FlagOf(s)'
  BY DEF Flags
<1>0. FlagOf(s) /\ restartCount[s] \in Nat
  BY DEF Flags, TypeOK
<1>1. UNCHANGED <<startOrder, running, callVars>>
  BY OthersKeepContext DEF CallerCancels
<1>2. ASSUME NEW t \in Services, Add(t) \/ Crash(t)
      PROVE  UNCHANGED managedVars /\ (Halted(s) => Halted(s)')
  BY <1>2 DEF Add, Crash, Halted, TypeOK
<1>3. ASSUME NEW m \in Monitors, MonitorStep(m), restartCount'[s] = 0
      PROVE  restartCount[s] = 0 /\ svcRunning'[s] = svcRunning[s] /\ instance'[s] = instance[s]
  <2>1. CASE m[2] # s
    BY <1>3, <2>1, MonitorEffect
  <2>2. CASE m[2] = s
    <3>1. monitor[m] # "claim"
      <4> SUFFICES ASSUME monitor[m] = "claim" PROVE FALSE
        OBVIOUS
      <4>1. restartCount'[s] = Counted(restartCount[s])
        BY <1>3, <2>2, MonitorEffect DEF TypeOK
      <4>2. m[1] \in StartCalls
        BY DEF Monitors
      <4>3. Cardinality(StartCalls) \in Nat /\ Cardinality(StartCalls) # 0
        BY <4>2, FiniteInstance, FS_CardinalityType, FS_EmptySet
      <4>4. CountBound \in Nat /\ MaxRetries[s] \in Nat
        BY ConfigAssumption
      <4>5. CountBound >= 1
        BY <4>3, <4>4, CountBoundLargeEnough
      <4> QED
        BY <1>0, <1>3, <4>1, <4>4, <4>5 DEF Counted
    <3>2. restartCount[s] = 0
      BY <1>3, <3>1, MonitorEffect
    <3>3. monitor[m] \notin Restarting
      BY <2>2, <3>2 DEF RestartsCounted
    <3> QED
      BY <1>3, <3>2, <3>3, MonitorEffect
  <2> QED
    BY <2>1, <2>2
<1>4. ASSUME UNCHANGED vars \/ \E c \in StartCalls : CallerCancels(c)
      PROVE  UNCHANGED <<managedVars, instance>>
  BY <1>4 DEF vars, CallerCancels
<1>5. restartCount'[s] = 0 =>
         /\ restartCount[s] = 0 /\ svcRunning'[s] = svcRunning[s]
         /\ Halted(s) => Halted(s)'
  BY <1>2, <1>3, <1>4 DEF managedVars, Halted
<1>6. \A p \in Calls : pc'[p] = pc[p] /\ order'[p] = order[p] /\ at'[p] = at[p]
  BY <1>1 DEF callVars
<1> QED
  BY <1>0, <1>1, <1>5, <1>6, FlagFrame

LEMMA FlagsStart ==
    ASSUME TypeOK, LoopInOrder, Serial, OneCaller, OrderOfRun, Flags, NEW c \in StartCalls,
           StartStep(c) \/ StartRefused(c) \/ StartBegin(c)
    PROVE  Flags'
<1> SUFFICES ASSUME NEW s \in Services PROVE FlagOf(s)'
  BY DEF Flags
<1>0. /\ c \in Calls /\ StartCalls \subseteq Calls /\ FlagOf(s)
      /\ at[c] \in Nat /\ order[c] \in Seq(Services)
  BY DEF Calls, Flags, TypeOK
<1>1. CASE StartStep(c)
  <2>1. /\ pc[c] \in LoopPhases
        /\ UNCHANGED <<runnerVars, restartCount, order>>
        /\ \A p \in Calls : p # c => pc'[p] = pc[p] /\ at'[p] = at[p]
    BY <1>1, StartEffect
  <2>2. running /\ rctx = c /\ running' /\ startOrder' = startOrder
    BY <2>1 DEF OneCaller, LoopOwnsRun, runnerVars
  <2>3. order[c] = startOrder
    BY <2>1, <2>2 DEF OrderOfRun, InRun
  <2>4. Busy(c)
    BY <2>1 DEF Busy, LoopPhases, Returned
  <2>5. \A q \in Calls : q # c => pc'[q] \notin StopHolding \cup LoopPhases
    BY <1>0, <2>1, <2>4, OthersIdle
  <2>6. pc'[c] # "stopMark"
    BY <1>1, StartEffect DEF StartQuiet
  <2>7. \A p \in Calls : pc'[p] # "stopMark"
    BY <2>5, <2>6 DEF StopHolding
  <2>8. \A d \in StartCalls : pc[d] = "mark" => d = c
    BY <1>0, <2>1, <2>5 DEF LoopPhases
  <2>9. StartQuiet(c) \/ StartServiceOk(c) \/ StartMarkRunning(c) \/ StartSpawnMonitor(c)
    BY <1>1, StartEffect
  <2>10. ASSUME restartCount'[s] = 0, svcRunning'[s]
         PROVE  \E j \in DOMAIN startOrder' : startOrder'[j] = s
    <3>1. CASE svcRunning[s]
      BY <1>0, <2>1, <2>2, <2>10, <3>1 DEF FlagOf
    <3>2. CASE ~ svcRunning[s]
      <4>1. StartMarkRunning(c) /\ s = Current(c)
        BY <2>9, <2>10, <3>2
           DEF StartQuiet, StartServiceOk, StartMarkRunning, StartSpawnMonitor, managedVars, TypeOK
      <4>2. at[c] >= 1 /\ at[c] <= Len(order[c])
        BY <4>1 DEF StartMarkRunning, LoopInOrder, InOrder, LoopPhases
      <4> QED
        BY <1>0, <2>2, <2>3, <4>1, <4>2 DEF Current
    <3> QED
      BY <3>1, <3>2
  <2>11. ASSUME restartCount'[s] = 0, ~ svcRunning'[s]
         PROVE  Halted(s)' \/ \E d \in StartCalls : pc'[d] = "mark" /\ order'[d][at'[d]] = s
    <3>1. ~ svcRunning[s] /\ (StartMarkRunning(c) => s # Current(c))
      BY <2>9, <2>11
         DEF StartQuiet, StartServiceOk, StartMarkRunning, StartSpawnMonitor, managedVars, TypeOK
    <3>2. Halted(s) \/ (pc[c] = "mark" /\ Current(c) = s)
      BY <1>0, <2>1, <2>8, <2>11, <3>1 DEF FlagOf
    <3>3. CASE StartServiceOk(c)
      <4>1. pc[c] = "starting" /\ pc'[c] = "mark" /\ ServiceStarts(Current(c))
            /\ UNCHANGED <<order, at>>
        BY <1>0, <3>3 DEF StartServiceOk, managedVars, Goto, TypeOK
      <4>2. CASE s = Current(c)
        BY <4>1, <4>2 DEF Current
      <4>3. CASE s # Current(c)
        BY <3>2, <4>1, <4>3 DEF Halted, ServiceStarts, TypeOK
      <4> QED
        BY <4>2, <4>3
    <3>4. CASE StartQuiet(c) \/ StartMarkRunning(c) \/ StartSpawnMonitor(c)
      <4>1. instance' = instance /\ Halted(s)
        BY <3>1, <3>2, <3>4 DEF StartQuiet, StartMarkRunning, StartSpawnMonitor
      <4> QED
        BY <4>1 DEF Halted
    <3> QED
      BY <2>9, <3>3, <3>4
  <2> QED
    BY <2>2, <2>7, <2>10, <2>11 DEF FlagOf, Current
<1>2. CASE StartRefused(c)
  <2>1. /\ UNCHANGED <<startOrder, running, order, at, managedVars, instance>>
        /\ pc[c] = "idle" /\ pc'[c] = "refused"
        /\ \A p \in Calls : p # c => pc'[p] = pc[p]
    BY <1>0, <1>2 DEF StartRefused, runnerVars, Goto, TypeOK
  <2>2. \A p \in Calls :
           \/ pc'[p] = pc[p] /\ order'[p] = order[p] /\ at'[p] = at[p]
           \/ pc[p] \notin {"mark"} \cup StopLoopPhases /\ pc'[p] # "stopMark"
    BY <2>1 DEF StopLoopPhases
  <2>3. restartCount' = restartCount /\ svcRunning' = svcRunning /\ (Halted(s) => Halted(s)')
    BY <2>1 DEF managedVars, Halted
  <2> QED
    BY <1>0, <2>1, <2>2, <2>3, FlagFrame
<1>3. CASE StartBegin(c)
  <2>1. /\ ~ running /\ running' /\ UNCHANGED <<managedVars, instance>>
        /\ pc'[c] = "next" /\ \A p \in Calls : p # c => pc'[p] = pc[p]
    BY <1>0, <1>3 DEF StartBegin, Goto, TypeOK
  <2>2. \A p \in Calls : pc[p] \notin StopLoopPhases \cup {"mark"}
    BY <1>3, NobodyBusy DEF StartBegin
  <2>3. restartCount[s] = 0 => ~ svcRunning[s] /\ Halted(s)
    BY <1>0, <2>1, <2>2 DEF FlagOf, StillToStop
  <2>4. restartCount'[s] = 0 => ~ svcRunning'[s] /\ Halted(s)'
    BY <2>1, <2>3 DEF managedVars, Halted
  <2> QED
    BY <2>1, <2>4 DEF FlagOf
<1> QED
  BY <1>1, <1>2, <1>3

LEMMA FlagsStop ==
    ASSUME TypeOK, Serial, OneCaller, OrderOfRun, Flags,
           NEW p \in Calls, StopEntry(p) \/ StopLoop(p)
    PROVE  Flags'
<1> SUFFICES ASSUME NEW s \in Services PROVE FlagOf(s)'
  BY DEF Flags
<1>0. /\ FlagOf(s) /\ StartCalls \subseteq Calls
      /\ startOrder \in Seq(Services) /\ at[p] \in Nat /\ order[p] \in Seq(Services)
  BY DEF Calls, Flags, TypeOK
<1>1. CASE StopNotRunning(p) \/ StopWait(p)
  <2>1. /\ UNCHANGED <<startOrder, running, order, at, managedVars, instance>>
        /\ pc[p] \in {"idle", "stop", "wait"} /\ pc'[p] \in Returned
        /\ \A q \in Calls : q # p => pc'[q] = pc[q]
    BY <1>1 DEF StopNotRunning, StopWait, StopDone, EntersStop, runnerVars, Goto, TypeOK,
                Returned
  <2>2. \A q \in Calls :
           \/ pc'[q] = pc[q] /\ order'[q] = order[q] /\ at'[q] = at[q]
           \/ pc[q] \notin {"mark"} \cup StopLoopPhases /\ pc'[q] # "stopMark"
    BY <2>1 DEF StopLoopPhases, Returned
  <2>3. restartCount' = restartCount /\ svcRunning' = svcRunning /\ (Halted(s) => Halted(s)')
    BY <2>1 DEF managedVars, Halted
  <2> QED
    BY <1>0, <2>1, <2>2, <2>3, FlagFrame
<1>2. CASE StopBegin(p)
  <2>1. /\ running /\ ~ running' /\ UNCHANGED <<startOrder, managedVars, instance>>
        /\ order'[p] = Reverse(startOrder) /\ at'[p] = 1 /\ pc'[p] = "stopNext"
        /\ \A q \in Calls : q # p => pc'[q] = pc[q]
    BY <1>2 DEF StopBegin, StopOrder, Goto, TypeOK
  <2>2. \A q \in Calls : pc[q] \notin {"mark", "stopMark"}
    <3>1. CASE pc[p] = "stop"
      <4>1. Busy(p)
        BY <3>1 DEF Busy, Returned
      <4> QED
        BY <3>1, <4>1, OthersIdle DEF StopHolding, LoopPhases
    <3>2. CASE pc[p] = "idle"
      <4>1. MayCall
        BY <1>2, <3>2 DEF StopBegin, EntersStop
      <4> QED
        BY <4>1, NobodyBusy DEF StopLoopPhases
    <3> QED
      BY <1>2, <3>1, <3>2 DEF StopBegin, EntersStop
  <2>3. \A q \in Calls : pc'[q] # "stopMark"
    BY <2>1, <2>2
  <2>4. restartCount[s] = 0 =>
           /\ ~ svcRunning[s] => Halted(s)
           /\ svcRunning[s] => \E j \in DOMAIN startOrder : startOrder[j] = s
    BY <1>0, <2>1, <2>2 DEF FlagOf
  <2>5. ASSUME NEW j \in DOMAIN startOrder, startOrder[j] = s
        PROVE  \E k \in DOMAIN order'[p] : k >= at'[p] /\ order'[p][k] = s
    <3>1. Len(startOrder) + 1 - j \in 1 .. Len(startOrder)
          /\ Len(startOrder) + 1 - (Len(startOrder) + 1 - j) = j
      BY <1>0
    <3>2. Reverse(startOrder)[Len(startOrder) + 1 - j] = s
      BY <2>5, <3>1 DEF Reverse
    <3>3. DOMAIN Reverse(startOrder) = 1 .. Len(startOrder)
      BY DEF Reverse
    <3> QED
      BY <2>1, <3>1, <3>2, <3>3
  <2>6. restartCount'[s] = 0 =>
           /\ ~ svcRunning'[s] => Halted(s)'
           /\ svcRunning'[s] => \E q \in Calls : StillToStop(q, s)'
    <3>1. UNCHANGED <<restartCount, svcRunning, instance>>
      BY <2>1 DEF managedVars
    <3>2. (\E k \in DOMAIN order'[p] : k >= at'[p] /\ order'[p][k] = s) => StillToStop(p, s)'
      BY <2>1 DEF StillToStop, StopLoopPhases
    <3> QED
      BY <2>4, <2>5, <3>1, <3>2 DEF Halted
  <2> QED
    BY <2>1, <2>3, <2>6 DEF FlagOf
<1>3. CASE StopNext(p) \/ StopService(p) \/ StopMark(p) \/ StopAll(p)
  <2> SUFFICES ASSUME restartCount'[s] = 0 PROVE FlagOf(s)'
    BY DEF FlagOf
  <2>1. /\ pc[p] \in StopLoopPhases /\ UNCHANGED <<running, startOrder, order, restartCount>>
        /\ \A q \in Calls : q # p => pc'[q] = pc[q] /\ at'[q] = at[q]
        /\ pc'[p] # "mark"
    BY <1>3 DEF StopNext, StopContinues, StopService, StopMark, StopAll, StopLoopPhases,
                managedVars, runnerVars, Goto, Step, TypeOK
  <2>2. /\ ~ running /\ ~ running' /\ restartCount[s] = 0
    BY <2>1 DEF OrderOfRun
  <2>3. Busy(p)
    BY <2>1 DEF Busy, StopLoopPhases, Returned
  <2>4. \A q \in Calls : q # p => pc[q] \notin StopHolding \cup LoopPhases
    BY <2>3, OthersIdle
  <2>5. \A q \in Calls : pc[q] \in StopLoopPhases \/ pc'[q] = "stopMark" => q = p
    BY <2>1, <2>4 DEF StopLoopPhases, StopHolding
  <2>6. ~ svcRunning[s] => Halted(s)
    BY <1>0, <2>1, <2>2, <2>4 DEF FlagOf, LoopPhases, StopLoopPhases
  <2>7. svcRunning[s] => \E j \in DOMAIN order[p] : j >= at[p] /\ order[p][j] = s
    BY <1>0, <2>2, <2>5 DEF FlagOf, StillToStop
  <2>8. pc[p] = "stopMark" /\ Current(p) = s => Halted(s)
    BY <1>0, <2>2 DEF FlagOf
  <2>9. \A j \in DOMAIN order[p] : j \in Nat
    BY <1>0
  <2>10. CASE StopNext(p) /\ svcRunning[Current(p)]
    <3>1. pc'[p] = "stopCall" /\ UNCHANGED <<svcRunning, instance, at>>
      BY <2>10 DEF StopNext, Goto, TypeOK, managedVars
    <3>2. svcRunning'[s] => StillToStop(p, s)'
      BY <2>1, <2>7, <3>1 DEF StillToStop, StopLoopPhases
    <3>3. \A q \in Calls : pc'[q] # "stopMark"
      BY <2>5, <3>1
    <3> QED
      BY <2>2, <2>6, <3>1, <3>2, <3>3 DEF FlagOf, Halted
  <2>11. CASE StopNext(p) /\ ~ svcRunning[Current(p)]
    <3>1. pc'[p] = "stopNext" /\ UNCHANGED <<svcRunning, instance>> /\ at'[p] = at[p] + 1
      BY <2>11 DEF StopNext, StopContinues, Step, TypeOK, managedVars
    <3>2. ASSUME svcRunning'[s] PROVE StillToStop(p, s)'
      <4>1. PICK j \in DOMAIN order[p] : j >= at[p] /\ order[p][j] = s
        BY <2>7, <3>1, <3>2
      <4>2. j # at[p]
        BY <2>11, <3>1, <3>2, <4>1 DEF Current
      <4>3. j >= at'[p]
        BY <1>0, <2>9, <3>1, <4>1, <4>2
      <4> QED
        BY <2>1, <3>1, <4>1, <4>3 DEF StillToStop, StopLoopPhases
    <3>3. \A q \in Calls : pc'[q] # "stopMark"
      BY <2>5, <3>1
    <3> QED
      BY <2>2, <2>6, <3>1, <3>2, <3>3 DEF FlagOf, Halted
  <2>12. CASE StopService(p)
    <3>1. pc'[p] = "stopMark" /\ UNCHANGED <<svcRunning, at>> /\ ServiceStops(Current(p))
      BY <2>12 DEF StopService, Goto, TypeOK, managedVars
    <3>2. Halted(s) \/ s = Current(p) => Halted(s)'
      BY <3>1 DEF ServiceStops, Unstopped, Halted, TypeOK
    <3>3. svcRunning'[s] => StillToStop(p, s)'
      BY <2>1, <2>7, <3>1 DEF StillToStop, StopLoopPhases
    <3>4. \A q \in Calls : pc'[q] = "stopMark" /\ order'[q][at'[q]] = s => Halted(s)'
      BY <2>1, <2>5, <3>1, <3>2 DEF Current
    <3> QED
      BY <2>2, <2>6, <3>1, <3>2, <3>3, <3>4 DEF FlagOf, Current
  <2>13. CASE StopMark(p)
    <3>1. /\ pc[p] = "stopMark" /\ pc'[p] = "stopNext" /\ at'[p] = at[p] + 1 /\ instance' = instance
          /\ svcRunning'[s] = IF s = Current(p) THEN FALSE ELSE svcRunning[s]
      BY <2>13 DEF StopMark, Goto, Step, TypeOK
    <3>2. ASSUME svcRunning'[s] PROVE StillToStop(p, s)'
      <4>1. PICK j \in DOMAIN order[p] : j >= at[p] /\ order[p][j] = s
        BY <2>7, <3>1, <3>2
      <4>2. j # at[p]
        BY <3>1, <3>2, <4>1 DEF Current
      <4>3. j >= at'[p]
        BY <1>0, <2>9, <3>1, <4>1, <4>2
      <4> QED
        BY <2>1, <3>1, <4>1, <4>3 DEF StillToStop, StopLoopPhases
    <3>3. ~ svcRunning'[s] => Halted(s)'
      BY <2>6, <2>8, <3>1 DEF Halted
    <3>4. \A q \in Calls : pc'[q] # "stopMark"
      BY <2>5, <3>1
    <3> QED
      BY <2>2, <3>2, <3>3, <3>4 DEF FlagOf
  <2>14. CASE StopAll(p)
    <3>1. pc'[p] = "wait" /\ UNCHANGED <<svcRunning, instance>> /\ at[p] > Len(order[p])
      BY <2>14 DEF StopAll, Goto, TypeOK, managedVars
    <3>2. ~ svcRunning[s]
      BY <1>0, <2>7, <3>1
    <3>3. \A q \in Calls : pc'[q] # "stopMark"
      BY <2>5, <3>1
    <3> QED
      BY <2>2, <2>6, <3>1, <3>2, <3>3 DEF FlagOf, Halted
  <2> QED
    BY <1>3, <2>10, <2>11, <2>12, <2>13, <2>14
<1> QED
  BY <1>1, <1>2, <1>3 DEF StopEntry, StopLoop

LEMMA MarksInOrder ==
    ASSUME TypeOK, LoopInOrder, NEW c \in StartCalls, pc[c] = "mark"
    PROVE  at[c] \in DOMAIN order[c] /\ Current(c) \in Services
<1>1. order[c] \in Seq(Services) /\ at[c] \in Nat
  BY DEF TypeOK, Calls
<1>2. at[c] >= 1 /\ at[c] <= Len(order[c])
  BY DEF LoopInOrder, InOrder, LoopPhases
<1>3. at[c] \in DOMAIN order[c]
  BY <1>1, <1>2
<1> QED
  BY <1>1, <1>3 DEF Current

(* What the flags of the current run say. *)
LEMMA TruthFrame ==
    ASSUME TruthOfRun,
           InRun' => /\ InRun
                     /\ UNCHANGED <<startOrder, rctx, restartCount, svcRunning, monitor>>
                     /\ UNCHANGED <<pc[rctx], at[rctx], order[rctx]>>,
           \A s \in Services : instance'[s] = "down" => instance[s] = "down",
           startOrder \in Seq(Services),
           InRun /\ pc[rctx] = "mark" => Current(rctx) \in Services
    PROVE  TruthOfRun'
<1> SUFFICES ASSUME InRun' PROVE TruthOfRun'
  BY DEF TruthOfRun
<1>1. \A j \in DOMAIN startOrder : startOrder[j] \in Services
  OBVIOUS
<1>2. /\ UNCHANGED <<startOrder, rctx, restartCount, svcRunning, monitor>>
      /\ pc'[rctx] = pc[rctx] /\ at'[rctx] = at[rctx] /\ order'[rctx] = order[rctx]
      /\ InRun
  OBVIOUS
<1> QED
  BY <1>1, <1>2 DEF TruthOfRun, Passed, Active, Current

LEMMA TruthStart ==
    ASSUME TypeOK, LoopInOrder, Serial, OneCaller, OrderOfRun, TruthOfRun,
           NEW c \in StartCalls, StartStep(c) \/ StartRefused(c) \/ StartBegin(c)
    PROVE  TruthOfRun'
<1>0. /\ c \in Calls /\ StartCalls \subseteq Calls
      /\ at[c] \in Nat /\ order[c] \in Seq(Services) /\ startOrder \in Seq(Services)
  BY DEF Calls, TypeOK
<1>1. CASE StartStep(c)
  <2>1. /\ pc[c] \in LoopPhases
        /\ UNCHANGED <<runnerVars, restartCount, order>>
    BY <1>1, StartEffect
  <2>2. running /\ rctx = c /\ running' /\ rctx' = c /\ startOrder' = startOrder
    BY <2>1 DEF OneCaller, LoopOwnsRun, runnerVars
  <2>3. order[c] = startOrder /\ order'[c] = startOrder /\ InRun
    BY <2>1, <2>2 DEF OrderOfRun, InRun
  <2>4. \A i, j \in DOMAIN startOrder : startOrder[i] = startOrder[j] => i = j
    BY DEF OrderOfRun
  <2>5. /\ \A j \in DOMAIN startOrder : j < at[c] \/ (j = at[c] /\ pc[c] = "spawn") =>
              /\ restartCount[startOrder[j]] = 0 => svcRunning[startOrder[j]]
              /\ svcRunning[startOrder[j]] /\ instance[startOrder[j]] = "down" =>
                    monitor[<<c, startOrder[j]>>] = "mark"
        /\ \A s \in Services :
              /\ Active(<<c, s>>) =>
                    \E j \in DOMAIN startOrder : j < at[c] /\ startOrder[j] = s
              /\ monitor[<<c, s>>] = "up" => instance[s] # "down"
        /\ pc[c] = "mark" => instance[Current(c)] # "down"
    BY <2>2, <2>3 DEF TruthOfRun, Passed
  <2>6. \A j \in DOMAIN startOrder : startOrder[j] \in Services /\ j \in Nat
    BY <1>0
  <2>7. pc[c] \in {"mark", "spawn", "starting"} => at[c] \in DOMAIN startOrder
    BY <1>0, <2>3 DEF LoopInOrder, InOrder, LoopPhases
  <2> SUFFICES /\ \A j \in DOMAIN startOrder : j < at'[c] \/ (j = at'[c] /\ pc'[c] = "spawn") =>
                     /\ restartCount[startOrder[j]] = 0 => svcRunning'[startOrder[j]]
                     /\ svcRunning'[startOrder[j]] /\ instance'[startOrder[j]] = "down" =>
                           monitor'[<<c, startOrder[j]>>] = "mark"
               /\ \A s \in Services :
                     /\ monitor'[<<c, s>>] \notin {"none", "done"} =>
                           \E j \in DOMAIN startOrder : j < at'[c] /\ startOrder[j] = s
                     /\ monitor'[<<c, s>>] = "up" => instance'[s] # "down"
               /\ pc'[c] = "mark" => instance'[order'[c][at'[c]]] # "down"
    BY <2>1, <2>2 DEF TruthOfRun, Passed, Active, Current
  <2>8. CASE StartQuiet(c)
    BY <2>5, <2>8 DEF StartQuiet, Active
  <2>9. CASE StartServiceOk(c)
    <3>1. /\ pc[c] = "starting" /\ pc'[c] = "mark"
          /\ UNCHANGED <<svcRunning, monitor, at, order>>
          /\ Current(c) = startOrder[at[c]] /\ Current(c) \in Services
      BY <1>0, <2>3, <2>6, <2>7, <2>9
         DEF StartServiceOk, Goto, TypeOK, managedVars, monitorVars, Current
    <3>2. /\ instance'[Current(c)] # "down"
          /\ \A s \in Services : instance'[s] = "down" => instance[s] = "down"
      BY <2>9, <3>1 DEF StartServiceOk, ServiceStarts, TypeOK
    <3> QED
      BY <2>3, <2>5, <2>6, <3>1, <3>2 DEF Active, Current
  <2>10. CASE StartMarkRunning(c)
    <3>1. /\ pc[c] = "mark" /\ UNCHANGED <<instance, monitor>>
          /\ svcRunning' = [svcRunning EXCEPT ![startOrder[at[c]]] = TRUE]
          /\ \/ pc'[c] = "next" /\ at'[c] = at[c] + 1
             \/ pc'[c] = "spawn" /\ at'[c] = at[c]
      BY <1>1, <2>3, <2>10, StartEffect DEF StartMarkRunning, StartQuiet, StartServiceOk,
             StartSpawnMonitor, monitorVars, Current
    <3>2. at[c] \in DOMAIN startOrder /\ instance[startOrder[at[c]]] # "down"
      BY <2>3, <2>5, <2>7, <3>1 DEF Current
    <3>3. \A j \in DOMAIN startOrder : j < at'[c] \/ (j = at'[c] /\ pc'[c] = "spawn") =>
             j < at[c] \/ j = at[c]
      BY <1>0, <2>6, <3>1
    <3>4. \A j \in DOMAIN startOrder : j < at[c] => j < at'[c] /\ startOrder[j] # startOrder[at[c]]
      BY <1>0, <2>4, <2>6, <3>1, <3>2
    <3>5. /\ svcRunning'[startOrder[at[c]]]
          /\ \A s \in Services : s # startOrder[at[c]] => svcRunning'[s] = svcRunning[s]
      BY <2>6, <3>1, <3>2 DEF TypeOK
    <3>6. ASSUME NEW j \in DOMAIN startOrder, j < at'[c] \/ (j = at'[c] /\ pc'[c] = "spawn")
          PROVE  /\ restartCount[startOrder[j]] = 0 => svcRunning'[startOrder[j]]
                 /\ svcRunning'[startOrder[j]] /\ instance'[startOrder[j]] = "down" =>
                       monitor'[<<c, startOrder[j]>>] = "mark"
      <4>1. CASE j = at[c]
        BY <3>1, <3>2, <3>5, <4>1
      <4>2. CASE j < at[c]
        BY <2>5, <2>6, <3>1, <3>4, <3>5, <4>2
      <4> QED
        BY <3>3, <3>6, <4>1, <4>2
    <3>7. \A s \in Services :
             /\ monitor'[<<c, s>>] \notin {"none", "done"} =>
                   \E j \in DOMAIN startOrder : j < at'[c] /\ startOrder[j] = s
             /\ monitor'[<<c, s>>] = "up" => instance'[s] # "down"
      BY <2>5, <3>1, <3>4 DEF Active
    <3> QED
      BY <3>1, <3>6, <3>7
  <2>11. CASE StartSpawnMonitor(c)
    <3>1. /\ pc[c] = "spawn" /\ UNCHANGED <<instance, svcRunning>>
          /\ monitor' = [monitor EXCEPT ![<<c, startOrder[at[c]]>>] = "check"]
          /\ pc'[c] = "next" /\ at'[c] = at[c] + 1
      BY <1>0, <2>3, <2>11 DEF StartSpawnMonitor, managedVars, Current, Goto, Step, TypeOK
    <3>2. at[c] \in DOMAIN startOrder
      BY <2>7, <3>1
    <3>3. \A j \in DOMAIN startOrder : j < at'[c] => j < at[c] \/ j = at[c]
      BY <1>0, <2>6, <3>1
    <3>4. \A j \in DOMAIN startOrder : j < at[c] => startOrder[j] # startOrder[at[c]]
      BY <1>0, <2>4, <2>6, <3>2
    <3>5. at[c] < at'[c] /\ \A j \in DOMAIN startOrder : j < at[c] => j < at'[c]
      BY <1>0, <2>6, <3>1
    <3>6. ~ Active(<<c, startOrder[at[c]]>>)
      BY <2>5, <2>6, <3>2, <3>4
    <3>7. \A s \in Services :
             monitor'[<<c, s>>] = IF s = startOrder[at[c]] THEN "check" ELSE monitor[<<c, s>>]
      BY <3>1 DEF TypeOK, Monitors
    <3>8. ASSUME NEW j \in DOMAIN startOrder, j < at[c] \/ j = at[c]
          PROVE  /\ restartCount[startOrder[j]] = 0 => svcRunning[startOrder[j]]
                 /\ svcRunning[startOrder[j]] /\ instance[startOrder[j]] = "down" =>
                       monitor'[<<c, startOrder[j]>>] = "mark"
      <4>1. CASE j = at[c]
        BY <2>5, <3>1, <3>2, <3>6, <4>1 DEF Active
      <4>2. CASE j < at[c]
        BY <2>5, <2>6, <3>4, <3>7, <4>2
      <4> QED
        BY <3>8, <4>1, <4>2
    <3>9. \A s \in Services :
             /\ monitor'[<<c, s>>] \notin {"none", "done"} =>
                   \E j \in DOMAIN startOrder : j < at'[c] /\ startOrder[j] = s
             /\ monitor'[<<c, s>>] = "up" => instance'[s] # "down"
      BY <2>5, <3>1, <3>2, <3>5, <3>7 DEF Active
    <3> QED
      BY <3>1, <3>3, <3>8, <3>9
  <2> QED
    BY <1>1, <2>8, <2>9, <2>10, <2>11, StartEffect
<1>2. CASE StartRefused(c)
  <2>1. /\ UNCHANGED <<startOrder, running, rctx, order, at, managedVars, instance, monitor>>
        /\ pc'[c] = "refused"
        /\ \A p \in Calls : p # c => pc'[p] = pc[p]
    BY <1>0, <1>2 DEF StartRefused, runnerVars, monitorVars, Goto, TypeOK
  <2>2. InRun' => rctx # c /\ rctx \in Calls
    BY <1>0, <2>1 DEF InRun, LoopPhases
  <2>3. InRun' => InRun /\ pc'[rctx] = pc[rctx]
    BY <2>1, <2>2 DEF InRun
  <2>4. InRun /\ pc[rctx] = "mark" => Current(rctx) \in Services
    BY MarksInOrder DEF InRun
  <2> QED
    BY <1>0, <2>1, <2>3, <2>4, TruthFrame DEF managedVars
<1>3. CASE StartBegin(c)
  <2>1. /\ ~ running /\ rctx' = c /\ pc[c] = "idle" /\ pc'[c] = "next"
        /\ UNCHANGED <<at, monitor>> /\ startOrder' \in Seq(Services)
    <3>1. PICK o \in StartOrders(services) : startOrder' = o
      BY <1>3 DEF StartBegin
    <3>2. o \in Seq(Services)
      BY StartOrdersAreSequences DEF TypeOK
    <3> QED
      BY <1>0, <1>3, <3>1, <3>2 DEF StartBegin, Goto, TypeOK, monitorVars
  <2>2. at'[c] = 1
    BY <2>1 DEF LoopInOrder, InOrder
  <2>3. \A j \in DOMAIN startOrder' : ~ Passed(j)'
    BY <2>1, <2>2 DEF Passed
  <2>4. \A q \in Calls : pc[q] \notin StopHolding
    BY <1>3 DEF StartBegin, MayCall, StopHolding, Returned
  <2>5. \A m \in Monitors : ~ Active(m)
    BY <2>1, <2>4 DEF OneCaller, MonitorsOfRun
  <2>6. \A s \in Services : ~ Active(<<c, s>>) /\ ~ Active(<<c, s>>)'
    BY <2>1, <2>5 DEF Monitors, Active
  <2>7. \A s \in Services : monitor'[<<c, s>>] # "up"
    BY <2>6 DEF Active
  <2> QED
    BY <2>1, <2>3, <2>6, <2>7 DEF TruthOfRun
<1> QED
  BY <1>1, <1>2, <1>3

LEMMA TruthMonitor ==
    ASSUME TypeOK, LoopInOrder, OneCaller, OrderOfRun, RestartsCounted, TruthOfRun,
           NEW m \in Monitors, MonitorStep(m)
    PROVE  TruthOfRun'
<1> SUFFICES ASSUME InRun' PROVE TruthOfRun'
  BY DEF TruthOfRun
<1> DEFINE c == rctx
           s == m[2]
<1>1. UNCHANGED <<runnerVars, callVars>> /\ InRun /\ c \in StartCalls /\ s \in Services
  BY MonitorEffect DEF InRun, runnerVars, callVars, Monitors
<1>2. m = <<c, s>> /\ Active(m)
  BY MonitorStepIsActive DEF OneCaller, MonitorsOfRun, Monitors
<1>3. /\ \A j \in DOMAIN startOrder : Passed(j) =>
            /\ restartCount[startOrder[j]] = 0 => svcRunning[startOrder[j]]
            /\ svcRunning[startOrder[j]] /\ instance[startOrder[j]] = "down" =>
                  monitor[<<c, startOrder[j]>>] = "mark"
      /\ \A t \in Services :
            /\ Active(<<c, t>>) =>
                  \E j \in DOMAIN startOrder : j < at[c] /\ startOrder[j] = t
            /\ monitor[<<c, t>>] = "up" => instance[t] # "down"
      /\ pc[c] = "mark" => instance[Current(c)] # "down"
  BY <1>1 DEF TruthOfRun
<1>4. \A j \in DOMAIN startOrder : startOrder[j] \in Services /\ j \in Nat
  BY DEF TypeOK
<1>5. \A t \in Services : t # s => monitor'[<<c, t>>] = monitor[<<c, t>>]
  BY <1>1, <1>2, MonitorStepIsActive DEF Monitors
<1>6. \A t \in Services : t # s =>
         restartCount'[t] = restartCount[t] /\ svcRunning'[t] = svcRunning[t] /\ instance'[t] = instance[t]
  BY MonitorEffect
<1>7. pc[c] = "mark" => Current(c) \in Services /\ Current(c) # s
  <2> SUFFICES ASSUME pc[c] = "mark" PROVE Current(c) \in Services /\ Current(c) # s
    OBVIOUS
  <2>1. order[c] = startOrder /\ at[c] \in DOMAIN startOrder
    BY <1>1, MarksInOrder DEF OrderOfRun
  <2>2. PICK j \in DOMAIN startOrder : j < at[c] /\ startOrder[j] = s
    BY <1>1, <1>2, <1>3
  <2>3. startOrder[at[c]] # s
    BY <1>4, <2>1, <2>2 DEF OrderOfRun
  <2> QED
    BY <1>4, <2>1, <2>3 DEF Current
<1>8. restartCount'[s] = 0 => restartCount[s] = 0
  <2>1. monitor[m] = "claim" => restartCount'[s] = Counted(restartCount[s])
    BY <1>1, MonitorEffect DEF TypeOK
  <2>2. restartCount[s] \in Nat /\ CountBound \in Nat
    BY <1>1, ConfigAssumption DEF TypeOK
  <2> QED
    BY <1>1, <2>1, <2>2, MonitorEffect DEF Counted
(* It is enough to look at the monitor's own service. *)
<1>9. ASSUME svcRunning[s] = svcRunning'[s] \/ svcRunning'[s] \/ restartCount[s] > 0,
             svcRunning'[s] /\ instance'[s] = "down" =>
                monitor'[m] = "mark" \/ (svcRunning[s] /\ instance[s] = "down" /\ monitor[m] # "mark"),
             monitor'[m] = "up" => instance'[s] # "down"
      PROVE  TruthOfRun'
  <2>1. ASSUME NEW j \in DOMAIN startOrder, Passed(j)
        PROVE  /\ restartCount'[startOrder[j]] = 0 => svcRunning'[startOrder[j]]
               /\ svcRunning'[startOrder[j]] /\ instance'[startOrder[j]] = "down" =>
                     monitor'[<<c, startOrder[j]>>] = "mark"
    <3>1. CASE startOrder[j] = s
      <4>1. restartCount'[s] = 0 => svcRunning'[s]
        <5>1. restartCount[s] = 0 => svcRunning[s]
          BY <1>3, <2>1, <3>1
        <5> QED
          BY <1>8, <1>9, <5>1
      <4>2. svcRunning[s] /\ instance[s] = "down" => monitor[m] = "mark"
        BY <1>2, <1>3, <2>1, <3>1
      <4> QED
        BY <1>2, <1>9, <3>1, <4>1, <4>2
    <3>2. CASE startOrder[j] # s
      BY <1>3, <1>4, <1>5, <1>6, <2>1, <3>2
    <3> QED
      BY <3>1, <3>2
  <2>2. ASSUME NEW t \in Services
        PROVE  /\ monitor'[<<c, t>>] \notin {"none", "done"} =>
                     \E j \in DOMAIN startOrder : j < at[c] /\ startOrder[j] = t
               /\ monitor'[<<c, t>>] = "up" => instance'[t] # "down"
    <3>1. CASE t = s
      BY <1>2, <1>3, <1>9, <3>1
    <3>2. CASE t # s
      BY <1>3, <1>5, <1>6, <3>2 DEF Active
    <3> QED
      BY <3>1, <3>2
  <2>3. pc[c] = "mark" => instance'[Current(c)] # "down"
    BY <1>3, <1>6, <1>7
  <2>4. UNCHANGED <<startOrder, rctx, pc, at, order>>
    BY <1>1 DEF runnerVars, callVars
  <2>5. \A j : Passed(j)' <=> Passed(j)
    BY <2>4 DEF Passed
  <2>6. rctx' = c /\ Current(c)' = Current(c)
    BY <2>4 DEF Current
  <2> QED
    BY <2>1, <2>2, <2>3, <2>4, <2>5, <2>6 DEF TruthOfRun, Active
<1>10. CASE monitor[m] \notin Restarting
  <2>1. svcRunning' = svcRunning /\ instance' = instance
    BY <1>10, MonitorEffect
  <2>2. monitor[m] # "mark" /\ monitor'[m] # "up"
    BY <1>10 DEF Restarting, MonitorStep, MonitorExit, MonitorCheck, MonitorProbe, MonitorClaim,
         MonitorBackoffElapses, MonitorStops, MonitorMark, MonitorStarts, MonitorStartOk,
         MonitorStartFails, MonitorMarkRunning, MonitorGoto, TypeOK
  <2> QED
    BY <1>9, <2>1, <2>2
<1>11. CASE monitor[m] \in Restarting
  <2>0. restartCount[s] > 0
    BY <1>11 DEF RestartsCounted
  <2> USE DEF TypeOK, managedVars, MonitorGoto
  <2>1. CASE \/ MonitorExit(m) \/ MonitorBackoffElapses(m) \/ MonitorStarts(m)
             \/ MonitorStartFails(m)
    <3>1. /\ svcRunning' = svcRunning /\ instance' = instance
          /\ monitor[m] # "mark" /\ monitor'[m] # "up"
      BY <2>1 DEF MonitorExit, MonitorBackoffElapses, MonitorStarts, MonitorStartFails
    <3> QED
      BY <1>9, <3>1
  <2>2. CASE MonitorStops(m)
    <3>1. svcRunning' = svcRunning /\ monitor'[m] = "mark"
      BY <2>2 DEF MonitorStops
    <3> QED
      BY <1>9, <3>1
  <2>3. CASE MonitorMark(m)
    <3>1. ~ svcRunning'[s] /\ monitor'[m] = "start"
      BY <1>1, <2>3 DEF MonitorMark
    <3> QED
      BY <1>9, <2>0, <3>1
  <2>4. CASE MonitorStartOk(m)
    <3>1. svcRunning' = svcRunning /\ instance'[s] # "down"
      BY <1>1, <2>4 DEF MonitorStartOk, ServiceStarts
    <3> QED
      BY <1>9, <3>1
  <2>5. CASE MonitorMarkRunning(m)
    <3>1. svcRunning'[s] /\ instance' = instance /\ monitor'[m] = "check" /\ monitor[m] = "up"
      BY <1>1, <2>5 DEF MonitorMarkRunning
    <3>2. instance[s] # "down"
      BY <1>1, <1>2, <1>3, <3>1
    <3> QED
      BY <1>9, <3>1, <3>2
  <2>6. ~ (MonitorCheck(m) \/ MonitorProbe(m) \/ MonitorClaim(m))
    BY <1>11 DEF MonitorCheck, MonitorProbe, MonitorClaim, Restarting
  <2> QED
    BY <2>1, <2>2, <2>3, <2>4, <2>5, <2>6 DEF MonitorStep
<1> QED
  BY <1>10, <1>11

LEMMA TruthOthers ==
    ASSUME TypeOK, LoopInOrder, Serial, OneCaller, OrderOfRun, TruthOfRun,
           \/ \E s \in Services : Add(s) \/ Crash(s)
           \/ \E c \in StartCalls : CallerCancels(c)
           \/ \E p \in Calls : StopEntry(p) \/ StopLoop(p)
           \/ UNCHANGED vars
    PROVE  TruthOfRun'
<1>0. startOrder \in Seq(Services) /\ StartCalls \subseteq Calls
  BY DEF TypeOK, Calls
<1>1. InRun /\ pc[rctx] = "mark" => Current(rctx) \in Services
  BY MarksInOrder DEF InRun
<1>2. CASE \/ \E s \in Services : Add(s) \/ Crash(s)
           \/ \E c \in StartCalls : CallerCancels(c)
           \/ UNCHANGED vars
  <2>1. UNCHANGED <<startOrder, running, rctx, callVars, managedVars, monitor>>
    BY <1>2 DEF Add, Crash, CallerCancels, vars, runnerVars, monitorVars
  <2>2. \A s \in Services : instance'[s] = "down" => instance[s] = "down"
    BY <1>2 DEF Add, Crash, CallerCancels, vars, TypeOK
  <2>3. InRun' => InRun
    BY <2>1 DEF InRun, callVars
  <2> QED
    BY <1>0, <1>1, <2>1, <2>2, <2>3, TruthFrame DEF callVars, managedVars
<1>3. ASSUME NEW p \in Calls, StopEntry(p) \/ StopLoop(p) PROVE TruthOfRun'
  <2>1. CASE ~ running'
    BY <2>1 DEF TruthOfRun, InRun
  <2>2. CASE running'
    <3>1. StopWait(p)
      <4>1. ~ StopNotRunning(p) /\ ~ StopBegin(p)
        BY <2>2 DEF StopNotRunning, StopBegin, runnerVars
      <4>2. StopNext(p) \/ StopService(p) \/ StopMark(p) \/ StopAll(p) =>
               pc[p] \in StopLoopPhases /\ running
        BY <2>2 DEF StopNext, StopService, StopMark, StopAll, runnerVars, StopLoopPhases
      <4> QED
        BY <1>3, <4>1, <4>2 DEF StopEntry, StopLoop, OrderOfRun
    <3>2. /\ UNCHANGED <<startOrder, running, rctx, order, at, managedVars, instance, monitor>>
          /\ p \in StartCalls => pc'[p] = "failed"
          /\ \A q \in Calls : q # p => pc'[q] = pc[q]
      BY <3>1 DEF StopWait, StopDone, runnerVars, monitorVars, Goto, TypeOK
    <3>3. InRun' => rctx # p /\ rctx \in Calls
      BY <1>0, <3>2 DEF InRun, LoopPhases
    <3>4. InRun' => InRun /\ pc'[rctx] = pc[rctx]
      BY <3>2, <3>3 DEF InRun
    <3> QED
      BY <1>0, <1>1, <3>2, <3>4, TruthFrame DEF managedVars
  <2> QED
    BY <2>1, <2>2
<1> QED
  BY <1>2, <1>3

SerialRun == Serial => OrderOfRun /\ Flags /\ TruthOfRun

LEMMA SerialRunInit == Init => OrderOfRun /\ Flags /\ TruthOfRun
<1> SUFFICES ASSUME Init PROVE OrderOfRun /\ Flags /\ TruthOfRun
  OBVIOUS
<1>1. /\ startOrder = <<>> /\ ~ running /\ \A p \in Calls : pc[p] = "idle"
      /\ \A s \in Services : ~ svcRunning[s] /\ instance[s] = "down"
  BY DEF Init
<1>2. DependenciesBefore(startOrder)
  BY <1>1 DEF DependenciesBefore
<1>3. OrderOfRun
  BY <1>1, <1>2 DEF OrderOfRun, StopLoopPhases, InRun
<1>4. Flags
  BY <1>1 DEF Flags, FlagOf, Halted
<1>5. TruthOfRun
  BY <1>1 DEF TruthOfRun, InRun
<1> QED
  BY <1>3, <1>4, <1>5

LEMMA SerialRunStep ==
    ASSUME TypeOK, LoopInOrder, Serial, OneCaller, RestartsCounted,
           OrderOfRun, Flags, TruthOfRun, [Next]_vars
    PROVE  OrderOfRun' /\ Flags' /\ TruthOfRun'
<1>1. ASSUME NEW c \in StartCalls, StartStep(c) \/ StartRefused(c) \/ StartBegin(c)
      PROVE  OrderOfRun' /\ Flags' /\ TruthOfRun'
  BY <1>1, OrderStart, FlagsStart, TruthStart
<1>2. ASSUME NEW p \in Calls, StopEntry(p) \/ StopLoop(p)
      PROVE  OrderOfRun' /\ Flags' /\ TruthOfRun'
  BY <1>2, OrderStop, FlagsStop, TruthOthers
<1>3. ASSUME NEW m \in Monitors, MonitorStep(m)
      PROVE  OrderOfRun' /\ Flags' /\ TruthOfRun'
  <2>1. UNCHANGED <<startOrder, running, rctx, callVars, services>>
    BY <1>3, MonitorEffect DEF runnerVars
  <2> QED
    BY <1>3, <2>1, OrderQuiet, FlagsOthers, TruthMonitor
<1>4. ASSUME \/ \E s \in Services : Add(s) \/ Crash(s)
             \/ \E c \in StartCalls : CallerCancels(c)
             \/ UNCHANGED vars
      PROVE  OrderOfRun' /\ Flags' /\ TruthOfRun'
  <2>1. /\ UNCHANGED <<startOrder, running, rctx, callVars>>
        /\ running => services' = services
    BY <1>4 DEF Add, Crash, CallerCancels, vars, runnerVars
  <2> QED
    BY <1>4, <2>1, OrderQuiet, FlagsOthers, TruthOthers
<1> QED
  BY <1>1, <1>2, <1>3, <1>4 DEF Next

LEMMA SerialRunInvariant == Spec => []SerialRun
<1>1. Init => SerialRun
  BY SerialRunInit DEF SerialRun
<1>2. TypeOK /\ LoopInOrder /\ OneCallerIfSerial /\ RestartsCounted /\ SerialRun /\ [Next]_vars
         => SerialRun'
  BY SerialRunStep DEF SerialRun, OneCallerIfSerial
<1> QED
  BY TypeCorrect, LoopInOrderInvariant, OneCallerInvariant, RestartsCountedInvariant,
     <1>1, <1>2, PTL DEF Spec

(* When a service's Start is called, the Start of everything it depends on  *)
(* returned nil in the same Start call: a watched dependency has its        *)
(* monitor however calls overlap, and when one goroutine makes the calls    *)
(* every dependency is marked running and was not stopped since, unless a   *)
(* monitor set about restarting it (runner.go:154-164, 181-200).            *)
THEOREM DependenciesStarted == Spec => []StartsAfterDependencies
<1>1. TypeOK /\ LoopInOrder /\ LoopSpawns /\ OneCallerIfSerial /\ RestartsCounted /\ SerialRun
         => StartsAfterDependencies
  <2> SUFFICES ASSUME TypeOK, LoopInOrder, LoopSpawns, OneCallerIfSerial, RestartsCounted,
                      SerialRun, NEW c \in StartCalls,
                      pc[c] \in {"delay", "call", "starting", "mark", "spawn"},
                      NEW d \in DependsOn[Current(c)]
               PROVE  /\ Policy[d] # "never" => monitor[<<c, d>>] # "none"
                      /\ Serial => (svcRunning[d] /\ instance[d] # "down") \/ Restarted(d)
    BY DEF StartsAfterDependencies
  <2>1. order[c] \in Seq(Services) /\ at[c] \in Nat /\ pc[c] \in LoopPhases
    BY DEF TypeOK, Calls, LoopPhases
  <2>2. at[c] \in DOMAIN order[c] /\ DependenciesBefore(order[c])
    BY <2>1 DEF LoopInOrder, InOrder, LoopPhases
  <2>3. PICK j \in DOMAIN order[c] : j < at[c] /\ order[c][j] = d
    BY <2>2 DEF DependenciesBefore, Current
  <2>4. Policy[d] # "never" => monitor[<<c, d>>] # "none"
    BY <2>1, <2>3 DEF LoopSpawns, SpawnedBefore
  <2>5. ASSUME Serial PROVE (svcRunning[d] /\ instance[d] # "down") \/ Restarted(d)
    <3>1. running /\ rctx = c /\ InRun
      BY <2>1, <2>5 DEF OneCallerIfSerial, OneCaller, LoopOwnsRun, InRun
    <3>2. order[c] = startOrder /\ TruthOfRun
      BY <2>5, <3>1 DEF SerialRun, OrderOfRun
    <3>3. Passed(j) /\ startOrder[j] = d /\ j \in DOMAIN startOrder
      BY <2>3, <3>1, <3>2 DEF Passed
    <3>4. /\ restartCount[d] = 0 => svcRunning[d]
          /\ svcRunning[d] /\ instance[d] = "down" => monitor[<<c, d>>] = "mark"
      BY <3>1, <3>2, <3>3 DEF TruthOfRun
    <3>5. d \in Services /\ restartCount[d] \in Nat /\ <<c, d>> \in Monitors
      BY <2>1, <2>3 DEF TypeOK, Monitors
    <3>6. monitor[<<c, d>>] = "mark" => restartCount[d] > 0
      BY <3>5 DEF RestartsCounted, Restarting
    <3>7. restartCount[d] > 0 => Restarted(d)
      BY <3>5 DEF RestartsCounted, Restarted
    <3> QED
      BY <3>4, <3>5, <3>6, <3>7
  <2> QED
    BY <2>4, <2>5
<1> QED
  BY TypeCorrect, LoopInOrderInvariant, LoopSpawnsInvariant, OneCallerInvariant,
     RestartsCountedInvariant, SerialRunInvariant, <1>1, PTL

(* When no call is under way and the runner does not run, a service that no *)
(* monitor set about restarting is marked stopped and is down or refused    *)
(* to stop: neither Stop nor a Start that failed half way leaves one        *)
(* running (runner.go:159-163, 293-319).                                    *)
THEOREM NothingLeftRunning == Spec => []NeverRestartedAreStopped
<1>1. SerialRun => NeverRestartedAreStopped
  <2> SUFFICES ASSUME SerialRun, Serial, Quiet, ~ running,
                      NEW s \in Services, restartCount[s] = 0
               PROVE  ~ svcRunning[s] /\ Halted(s)
    BY DEF NeverRestartedAreStopped
  <2>1. \A p \in Calls : pc[p] \notin StopLoopPhases \cup {"mark"}
    BY DEF Quiet, Returned, StopLoopPhases
  <2>2. FlagOf(s) /\ StartCalls \subseteq Calls
    BY DEF SerialRun, Flags, Calls
  <2>3. ~ svcRunning[s]
    BY <2>1, <2>2 DEF FlagOf, StillToStop
  <2>4. Halted(s)
    BY <2>1, <2>2, <2>3 DEF FlagOf
  <2> QED
    BY <2>3, <2>4 DEF Halted
<1> QED
  BY SerialRunInvariant, <1>1, PTL

(* Stop reaches a service only after everything that depends on it is       *)
(* marked stopped and down, unless a monitor restarted it                   *)
(* (runner.go:287-319).                                                     *)
THEOREM DependentsStopBefore == Spec => []DependentsStopFirst
<1>1. TypeOK /\ OneCallerIfSerial /\ SerialRun => DependentsStopFirst
  <2> SUFFICES ASSUME TypeOK, OneCallerIfSerial, SerialRun, NEW p \in Calls, Serial,
                      pc[p] = "stopCall", NEW s \in services,
                      Current(p) \in DependsOn[s], restartCount[s] = 0
               PROVE  ~ svcRunning[s] /\ Halted(s)
    BY DEF DependentsStopFirst
  <2>1. /\ s \in Services /\ StartCalls \subseteq Calls /\ startOrder \in Seq(Services)
        /\ at[p] \in Nat /\ Len(startOrder) \in Nat
    BY DEF TypeOK, Calls
  <2>2. OneBusy /\ OrderOfRun /\ FlagOf(s)
    BY <2>1 DEF OneCallerIfSerial, OneCaller, SerialRun, Flags
  <2>3. Busy(p) /\ pc[p] \in StopLoopPhases
    BY DEF Busy, Returned, StopLoopPhases
  <2>4. /\ ~ running /\ DependenciesBefore(startOrder) /\ order[p] = Reverse(startOrder)
        /\ at[p] >= 1 /\ at[p] <= Len(startOrder)
        /\ \A i, j \in DOMAIN startOrder : startOrder[i] = startOrder[j] => i = j
    BY <2>2, <2>3 DEF OrderOfRun
  <2>5. \A q \in Calls : Busy(q) => q = p
    BY <2>2, <2>3 DEF OneBusy
  <2>6. ~ StillToStop(p, s)
    <3> SUFFICES ASSUME NEW j \in DOMAIN order[p], j >= at[p], order[p][j] = s PROVE FALSE
      BY DEF StillToStop
    <3> DEFINE n == Len(startOrder)
    <3>1. j \in 1 .. n /\ DOMAIN startOrder = 1 .. n
      BY <2>1, <2>4 DEF Reverse
    <3>2. n + 1 - j \in 1 .. n /\ n + 1 - at[p] \in 1 .. n
      BY <2>1, <2>4, <3>1
    <3>3. startOrder[n + 1 - j] = s /\ startOrder[n + 1 - at[p]] = Current(p)
      BY <2>1, <2>4, <3>1 DEF Reverse, Current
    <3>4. PICK k \in DOMAIN startOrder : k < n + 1 - j /\ startOrder[k] = Current(p)
      BY <2>4, <3>1, <3>2, <3>3 DEF DependenciesBefore
    <3>5. k = n + 1 - at[p]
      BY <2>4, <3>1, <3>2, <3>3, <3>4
    <3> QED
      BY <2>1, <3>1, <3>4, <3>5
  <2>7. ~ svcRunning[s]
    <3>1. \A q \in Calls : StillToStop(q, s) => q = p
      BY <2>5 DEF StillToStop, Busy, StopLoopPhases, Returned
    <3> QED
      BY <2>2, <2>4, <2>6, <3>1 DEF FlagOf
  <2>8. \A c \in StartCalls : pc[c] # "mark"
    BY <2>1, <2>5 DEF Busy, Returned
  <2> QED
    BY <2>2, <2>7, <2>8 DEF FlagOf, Halted
<1> QED
  BY TypeCorrect, OneCallerInvariant, SerialRunInvariant, <1>1, PTL

(* What HealthStatus reads is true of a runner that is up, at every moment  *)
(* and so of each service whenever it is asked (runner.go:242-265,          *)
(* health.go:33-76): one it calls stopped a monitor set about restarting,   *)
(* one it calls running is not down, but between a monitor's Stop and its   *)
(* update of the flag, and a failure it reports is one of that service.     *)
THEOREM HealthStatusIsTrue == Spec => []RunningFlagsAgree
<1>1. TypeOK /\ OnlyCurrentContextLive /\ RestartsCounted /\ SerialRun => RunningFlagsAgree
  <2> SUFFICES ASSUME TypeOK, OnlyCurrentContextLive, RestartsCounted, SerialRun,
                      Serial, running, pc[rctx] = "returned", NEW s \in services
               PROVE  /\ ~ ReportsRunning(s) => Restarted(s)
                      /\ ReportsFailure(s) => instance[s] \in {"sick", "broken"} \/ Restarted(s)
                      /\ ReportsRunning(s) /\ instance[s] = "down" => monitor[<<rctx, s>>] = "mark"
    BY DEF RunningFlagsAgree
  <2>1. OrderOfRun /\ InRun /\ TruthOfRun /\ rctx \in StartCalls
    BY DEF SerialRun, OnlyCurrentContextLive, InRun
  <2>2. at[rctx] > Len(startOrder) /\ at[rctx] \in Nat /\ startOrder \in Seq(Services)
    BY <2>1 DEF OrderOfRun, TypeOK, Calls
  <2>3. \A j \in DOMAIN startOrder : Passed(j)
    BY <2>2 DEF Passed
  <2>4. s \in Services /\ restartCount[s] \in Nat /\ <<rctx, s>> \in Monitors
    BY <2>1 DEF TypeOK, Monitors
  <2>5. PICK j \in DOMAIN startOrder : startOrder[j] = s
    BY <2>1 DEF OrderOfRun
  <2>6. /\ restartCount[s] = 0 => svcRunning[s]
        /\ svcRunning[s] /\ instance[s] = "down" => monitor[<<rctx, s>>] = "mark"
    BY <2>1, <2>3, <2>5 DEF TruthOfRun
  <2>7. monitor[<<rctx, s>>] = "mark" => restartCount[s] > 0
    BY <2>4 DEF RestartsCounted, Restarting
  <2>8. restartCount[s] > 0 => Restarted(s)
    BY <2>4 DEF RestartsCounted, Restarted
  <2> QED
    BY <2>4, <2>6, <2>7, <2>8 DEF ReportsRunning, ReportsFailure, HealthErr
<1> QED
  BY TypeCorrect, ContextOwnership, RestartsCountedInvariant, SerialRunInvariant, <1>1, PTL

-----------------------------------------------------------------------------
(***************************************************************************)
(* topologicalSort is right for every set of services and every dependency *)
(* graph: the order it returns is a start order, and it reports a cycle    *)
(* exactly when there is one.                                              *)
(*                                                                         *)
(* The argument: inDegree counts the listings that are not sorted yet, so  *)
(* a service reaches the queue when its dependencies are all sorted, and   *)
(* no member of a cycle can be the first of the cycle to be sorted.        *)
(***************************************************************************)

Distinct(seq) == \A i, j \in DOMAIN seq : seq[i] = seq[j] => i = j

(* Before the loop nothing is sorted. *)
Untouched ==
    stage \in {"build", "missing"} => queue = <<>> /\ sorted = <<>>

Looping == stage \in {"sort", "sorted", "cycle"}

AllRegistered ==
    Looping => \A n \in registered : Elements(dependsOn[n]) \subseteq registered

DegreesCount ==
    Looping => \A n \in registered :
        inDegree[n] = Occurrences(n, registered \ Elements(sorted))

(* The services that wait for nothing are the queued and the sorted ones. *)
FreeAreListed ==
    Looping => \A n \in registered :
        inDegree[n] = 0 <=> n \in Elements(queue) \cup Elements(sorted)

EachOnce ==
    /\ Distinct(queue)
    /\ Distinct(sorted)
    /\ Elements(queue) \cap Elements(sorted) = {}

SortedAfterDependencies ==
    \A i \in DOMAIN sorted : \A d \in Elements(dependsOn[sorted[i]]) :
        \E j \in DOMAIN sorted : j < i /\ sorted[j] = d

CyclesUnsorted ==
    \A C \in SUBSET registered : WaitsInCircle(C) => C \cap Elements(sorted) = {}

Ended ==
    stage \in {"sorted", "cycle"} =>
        /\ queue = <<>>
        /\ stage = "sorted" <=> Len(sorted) = Cardinality(registered)

IInv ==
    /\ SortTypeOK /\ Untouched /\ AllRegistered /\ DegreesCount /\ FreeAreListed
    /\ EachOnce /\ SortedAfterDependencies /\ CyclesUnsorted /\ Ended

-----------------------------------------------------------------------------
(* The elements of sequences that Dequeue builds. *)
LEMMA ElementsAppend ==
    ASSUME NEW S, NEW seq \in Seq(S), NEW x \in S
    PROVE  Elements(Append(seq, x)) = Elements(seq) \cup {x}
<1>1. DOMAIN seq = 1 .. Len(seq) /\ Len(seq) \in Nat
  OBVIOUS
<1>2. /\ DOMAIN Append(seq, x) = 1 .. Len(seq) + 1
      /\ \A i \in 1 .. Len(seq) : Append(seq, x)[i] = seq[i]
      /\ Append(seq, x)[Len(seq) + 1] = x
  OBVIOUS
<1>3. 1 .. Len(seq) + 1 = (1 .. Len(seq)) \cup {Len(seq) + 1}
  BY <1>1
<1> QED
  BY <1>1, <1>2, <1>3 DEF Elements

LEMMA ElementsConcat ==
    ASSUME NEW S, NEW s \in Seq(S), NEW t \in Seq(S)
    PROVE  /\ Elements(s \o t) = Elements(s) \cup Elements(t)
           /\ Distinct(s) /\ Distinct(t) /\ Elements(s) \cap Elements(t) = {}
                => Distinct(s \o t)
<1>1. /\ DOMAIN s = 1 .. Len(s) /\ Len(s) \in Nat
      /\ DOMAIN t = 1 .. Len(t) /\ Len(t) \in Nat
  OBVIOUS
<1>2. /\ DOMAIN (s \o t) = 1 .. Len(s) + Len(t)
      /\ \A i \in 1 .. Len(s) + Len(t) :
            (s \o t)[i] = IF i <= Len(s) THEN s[i] ELSE t[i - Len(s)]
  BY ConcatProperties
<1>3. ASSUME NEW i \in 1 .. Len(t)
      PROVE  i + Len(s) \in 1 .. Len(s) + Len(t) /\ (s \o t)[i + Len(s)] = t[i]
  BY <1>1, <1>2
<1>4. ASSUME NEW i \in 1 .. Len(s)
      PROVE  i \in 1 .. Len(s) + Len(t) /\ (s \o t)[i] = s[i]
  BY <1>1, <1>2
<1>5. ASSUME NEW i \in 1 .. Len(s) + Len(t)
      PROVE  \/ i \in 1 .. Len(s) /\ (s \o t)[i] = s[i]
             \/ i - Len(s) \in 1 .. Len(t) /\ (s \o t)[i] = t[i - Len(s)]
  BY <1>1, <1>2
<1>6. Elements(s \o t) = Elements(s) \cup Elements(t)
  <2>1. ASSUME NEW x \in Elements(s \o t) PROVE x \in Elements(s) \cup Elements(t)
    <3>1. PICK i \in 1 .. Len(s) + Len(t) : (s \o t)[i] = x
      BY <1>2 DEF Elements
    <3> QED
      BY <1>1, <1>5, <3>1 DEF Elements
  <2>2. ASSUME NEW x \in Elements(s) PROVE x \in Elements(s \o t)
    <3>1. PICK i \in 1 .. Len(s) : s[i] = x
      BY <1>1 DEF Elements
    <3> QED
      BY <1>2, <1>4, <3>1 DEF Elements
  <2>3. ASSUME NEW x \in Elements(t) PROVE x \in Elements(s \o t)
    <3>1. PICK i \in 1 .. Len(t) : t[i] = x
      BY <1>1 DEF Elements
    <3> QED
      BY <1>2, <1>3, <3>1 DEF Elements
  <2> QED
    BY <2>1, <2>2, <2>3
<1>7. ASSUME Distinct(s), Distinct(t), Elements(s) \cap Elements(t) = {},
             NEW i \in 1 .. Len(s) + Len(t), NEW j \in 1 .. Len(s) + Len(t),
             (s \o t)[i] = (s \o t)[j]
      PROVE  i = j
  <2>1. CASE i \in 1 .. Len(s) /\ j \in 1 .. Len(s)
    BY <1>1, <1>4, <1>7, <2>1 DEF Distinct
  <2>2. CASE i - Len(s) \in 1 .. Len(t) /\ j - Len(s) \in 1 .. Len(t)
    <3>1. t[i - Len(s)] = t[j - Len(s)]
      BY <1>1, <1>2, <1>7, <2>2
    <3>2. i - Len(s) = j - Len(s)
      BY <1>1, <1>7, <2>2, <3>1 DEF Distinct
    <3> QED
      BY <1>1, <3>2
  <2>3. CASE i \in 1 .. Len(s) /\ j - Len(s) \in 1 .. Len(t)
    <3>1. s[i] = t[j - Len(s)]
      BY <1>1, <1>2, <1>7, <2>3
    <3> QED
      BY <1>1, <1>7, <2>3, <3>1 DEF Elements
  <2>4. CASE i - Len(s) \in 1 .. Len(t) /\ j \in 1 .. Len(s)
    <3>1. s[j] = t[i - Len(s)]
      BY <1>1, <1>2, <1>7, <2>4
    <3> QED
      BY <1>1, <1>7, <2>4, <3>1 DEF Elements
  <2> QED
    BY <1>5, <2>1, <2>2, <2>3, <2>4
<1> QED
  BY <1>2, <1>6, <1>7 DEF Distinct

LEMMA ElementsTail ==
    ASSUME NEW S, NEW seq \in Seq(S), seq # <<>>
    PROVE  /\ Head(seq) \in S /\ Tail(seq) \in Seq(S)
           /\ Elements(seq) = Elements(Tail(seq)) \cup {Head(seq)}
           /\ Distinct(seq) => Distinct(Tail(seq)) /\ Head(seq) \notin Elements(Tail(seq))
<1>1. /\ DOMAIN seq = 1 .. Len(seq) /\ Len(seq) \in Nat /\ Len(seq) > 0
      /\ Head(seq) = seq[1] /\ Head(seq) \in S /\ Tail(seq) \in Seq(S)
  OBVIOUS
<1>2. /\ DOMAIN Tail(seq) = 1 .. Len(seq) - 1
      /\ \A i \in 1 .. Len(seq) - 1 : Tail(seq)[i] = seq[i + 1]
  BY <1>1
<1>3. \A i \in 1 .. Len(seq) : i = 1 \/ (i - 1 \in 1 .. Len(seq) - 1
                                         /\ Tail(seq)[i - 1] = seq[i])
  BY <1>1, <1>2
<1>4. \A i \in 1 .. Len(seq) - 1 : i + 1 \in 1 .. Len(seq)
  BY <1>1
<1>5. Elements(seq) = Elements(Tail(seq)) \cup {Head(seq)}
  <2>1. ASSUME NEW x \in Elements(seq)
        PROVE  x \in Elements(Tail(seq)) \cup {Head(seq)}
    <3>1. PICK i \in 1 .. Len(seq) : seq[i] = x
      BY <1>1 DEF Elements
    <3>2. CASE i = 1
      BY <1>1, <3>1, <3>2
    <3>3. CASE i # 1
      <4>1. i - 1 \in DOMAIN Tail(seq) /\ Tail(seq)[i - 1] = x
        BY <1>2, <1>3, <3>1, <3>3
      <4> QED
        BY <4>1 DEF Elements
    <3> QED
      BY <3>2, <3>3
  <2>2. ASSUME NEW x \in Elements(Tail(seq)) PROVE x \in Elements(seq)
    <3>1. PICK i \in 1 .. Len(seq) - 1 : Tail(seq)[i] = x
      BY <1>2 DEF Elements
    <3> QED
      BY <1>1, <1>2, <1>4, <3>1 DEF Elements
  <2>3. Head(seq) \in Elements(seq)
    BY <1>1 DEF Elements
  <2> QED
    BY <2>1, <2>2, <2>3
<1>6. Distinct(seq) => Distinct(Tail(seq)) /\ Head(seq) \notin Elements(Tail(seq))
  BY <1>1, <1>2, <1>4 DEF Distinct, Elements
<1> QED
  BY <1>1, <1>5, <1>6

(* Every order in which a range over S may go names each member once. *)
LEMMA VisitsFacts ==
    ASSUME NEW S, IsFiniteSet(S), NEW v \in Visits(S)
    PROVE  v \in Seq(S) /\ Elements(v) = S /\ Distinct(v)
<1>1. /\ Cardinality(S) \in Nat
      /\ v \in [1 .. Cardinality(S) -> S] /\ Elements(v) = S
  BY FS_CardinalityType DEF Visits
<1>2. v \in Surjection(1 .. Cardinality(S), S)
  BY <1>1 DEF Surjection, Elements
<1>3. IsFiniteSet(1 .. Cardinality(S)) /\ Cardinality(1 .. Cardinality(S)) = Cardinality(S)
  BY <1>1, FS_Interval
<1>4. v \in Injection(1 .. Cardinality(S), S)
  BY <1>2, <1>3, FS_SurjSameCardinalityImpliesInj
<1>5. Distinct(v)
  BY <1>1, <1>4 DEF Injection, IsInjective, Distinct
<1> QED
  BY <1>1, <1>5

(* What Occurrences counts. *)
LEMMA OccurrencesFacts ==
    ASSUME NEW n, dependsOn[n] \in DependencySlices, NEW D
    PROVE  /\ Occurrences(n, D) \in Nat
           /\ Occurrences(n, D) = 0 <=> Elements(dependsOn[n]) \cap D = {}
           /\ \A x \in D : Occurrences(n, D \ {x}) =
                              Occurrences(n, D) - Occurrences(n, {x})
<1> DEFINE At(E) == {i \in DOMAIN dependsOn[n] : dependsOn[n][i] \in E}
<1>1. PICK k \in 0 .. MaxDeps : dependsOn[n] \in [1 .. k -> Names]
  BY DEF DependencySlices
<1>2. DOMAIN dependsOn[n] = 1 .. k
  BY <1>1
<1>3. IsFiniteSet(DOMAIN dependsOn[n])
  BY <1>2, FS_Interval, MaxDepsNat
<1>4. ASSUME NEW E
      PROVE  IsFiniteSet(At(E)) /\ Cardinality(At(E)) \in Nat
             /\ (Cardinality(At(E)) = 0 <=> At(E) = {})
  BY <1>3, FS_Subset, FS_CardinalityType, FS_EmptySet
<1>5. At(D) = {} <=> Elements(dependsOn[n]) \cap D = {}
  BY DEF Elements
<1>6. ASSUME NEW x \in D
      PROVE  Cardinality(At(D \ {x})) = Cardinality(At(D)) - Cardinality(At({x}))
  <2>1. At(D \ {x}) = At(D) \ At({x}) /\ At(D) \cap At({x}) = At({x})
    OBVIOUS
  <2>2. IsFiniteSet(At(D))
    BY <1>4
  <2> HIDE DEF At
  <2>3. Cardinality(At(D) \ At({x})) = Cardinality(At(D)) - Cardinality(At(D) \cap At({x}))
    BY <1>4, <2>2, FS_Difference
  <2> QED
    BY <2>1, <2>3
<1> QED
  BY <1>4, <1>5, <1>6 DEF Occurrences

-----------------------------------------------------------------------------
LEMMA InitEstablishes == SortInit => IInv
<1> SUFFICES ASSUME SortInit PROVE IInv
  OBVIOUS
<1>1. SortTypeOK
  BY DEF SortInit, SortTypeOK
<1>2. Elements(sorted) = {} /\ Elements(queue) = {} /\ DOMAIN sorted = {} /\ DOMAIN queue = {}
  BY DEF SortInit, Elements
<1>3. EachOnce /\ SortedAfterDependencies /\ CyclesUnsorted
  BY <1>2 DEF EachOnce, SortedAfterDependencies, CyclesUnsorted, Distinct
<1> QED
  BY <1>1, <1>3 DEF SortInit, IInv, Untouched, Looping, AllRegistered, DegreesCount,
                    FreeAreListed, Ended

LEMMA BuildGraphPreserves == IInv /\ BuildGraph => IInv'
<1> SUFFICES ASSUME IInv, BuildGraph PROVE IInv'
  OBVIOUS
<1> USE DEF IInv
<1>1. /\ registered' = registered /\ dependsOn' = dependsOn /\ sorted' = sorted
      /\ stage' = "sort" /\ sorted = <<>> /\ queue = <<>>
      /\ \A n \in registered : Elements(dependsOn[n]) \subseteq registered
      /\ inDegree' = [n \in registered |-> Occurrences(n, registered)]
  BY DEF BuildGraph, WaitsFor, Untouched
<1>2. \A n \in registered : dependsOn[n] \in DependencySlices
  BY DEF SortTypeOK
<1>3. IsFiniteSet(registered)
  BY NamesFinite, FS_Subset DEF SortTypeOK
<1> DEFINE Free == {n \in registered : Occurrences(n, registered) = 0}
<1>4. IsFiniteSet(Free)
  BY <1>3, FS_Subset
<1>5. queue' \in Seq(Free) /\ Elements(queue') = Free /\ Distinct(queue')
  BY <1>4, VisitsFacts DEF BuildGraph, WaitsFor
<1>6. Elements(sorted) = {} /\ DOMAIN sorted = {}
  BY <1>1 DEF Elements
<1>7. SortTypeOK'
  <2>1. inDegree' \in [registered -> Nat]
    BY <1>1, <1>2, OccurrencesFacts
  <2>2. queue' \in Seq(registered)
    BY <1>5
  <2> QED
    BY <1>1, <2>1, <2>2 DEF SortTypeOK
<1>8. AllRegistered'
  BY <1>1 DEF AllRegistered, Elements
<1>9. DegreesCount'
  <2>1. \A n \in registered : inDegree'[n] = Occurrences(n, registered \ Elements(sorted))
    BY <1>1, <1>6
  <2> QED
    BY <1>1, <2>1 DEF DegreesCount, Occurrences, Elements
<1>10. FreeAreListed'
  <2>1. \A n \in registered : inDegree'[n] = 0 <=> n \in Elements(queue') \cup Elements(sorted)
    BY <1>1, <1>5, <1>6
  <2> QED
    BY <1>1, <2>1 DEF FreeAreListed, Elements
<1>11. EachOnce'
  BY <1>1, <1>5, <1>6 DEF EachOnce, Distinct, Elements
<1>12. SortedAfterDependencies' /\ CyclesUnsorted'
  BY <1>1, <1>6 DEF SortedAfterDependencies, CyclesUnsorted, Elements
<1> QED
  BY <1>1, <1>7, <1>8, <1>9, <1>10, <1>11, <1>12 DEF Untouched, Ended

LEMMA DequeuePreserves == IInv /\ Dequeue => IInv'
<1> SUFFICES ASSUME IInv, Dequeue PROVE IInv'
  OBVIOUS
<1> USE DEF IInv
<1> DEFINE current == Head(queue)
           freed == {n \in registered : inDegree[n] > 0 /\ Remaining(n, current) = 0}
<1>1. /\ registered' = registered /\ dependsOn' = dependsOn
      /\ stage' = "sort" /\ stage = "sort" /\ queue # <<>>
      /\ sorted' = Append(sorted, current)
      /\ inDegree' = [n \in registered |-> Remaining(n, current)]
  BY DEF Dequeue
<1>2. /\ registered \subseteq Names /\ queue \in Seq(registered) /\ sorted \in Seq(registered)
      /\ \A n \in registered : dependsOn[n] \in DependencySlices /\ inDegree[n] \in Nat
  BY DEF SortTypeOK
<1>3. /\ current \in registered /\ Tail(queue) \in Seq(registered)
      /\ Elements(queue) = Elements(Tail(queue)) \cup {current}
      /\ Distinct(Tail(queue)) /\ current \notin Elements(Tail(queue))
  BY <1>1, <1>2, ElementsTail DEF EachOnce
<1>4. Elements(sorted') = Elements(sorted) \cup {current} /\ current \notin Elements(sorted)
  BY <1>1, <1>2, <1>3, ElementsAppend DEF EachOnce
<1>5. \A n \in registered : /\ Remaining(n, current) = Occurrences(n, registered \ Elements(sorted'))
                          /\ Remaining(n, current) \in Nat
                          /\ Remaining(n, current) <= inDegree[n]
  <2> SUFFICES ASSUME NEW n \in registered
               PROVE  /\ Remaining(n, current) = Occurrences(n, registered \ Elements(sorted'))
                      /\ Remaining(n, current) \in Nat
                      /\ Remaining(n, current) <= inDegree[n]
    OBVIOUS
  <2> DEFINE D == registered \ Elements(sorted)
  <2>1. inDegree[n] = Occurrences(n, D)
    BY <1>1 DEF DegreesCount, Looping
  <2>2. current \in D /\ registered \ Elements(sorted') = D \ {current}
    BY <1>3, <1>4
  <2>3. /\ Occurrences(n, D \ {current}) = Occurrences(n, D) - Occurrences(n, {current})
        /\ Occurrences(n, {current}) \in Nat
        /\ Occurrences(n, D) \in Nat /\ Occurrences(n, D \ {current}) \in Nat
    BY <1>2, <2>2, OccurrencesFacts
  <2> HIDE DEF D
  <2>4. Remaining(n, current) = Occurrences(n, D) - Occurrences(n, {current})
    BY <2>1 DEF Remaining
  <2>5. /\ Remaining(n, current) = Occurrences(n, D \ {current})
        /\ Remaining(n, current) <= Occurrences(n, D)
    BY <2>3, <2>4
  <2> QED
    BY <2>1, <2>2, <2>3, <2>5
<1>6. /\ freed \subseteq registered
      /\ \E v \in Visits(freed) : queue' = Tail(queue) \o v
  BY DEF Dequeue
<1>7. IsFiniteSet(freed)
  BY <1>2, <1>6, NamesFinite, FS_Subset
<1>8. freed \cap (Elements(queue) \cup Elements(sorted)) = {}
  BY <1>1, <1>2 DEF FreeAreListed, Looping
<1>9. /\ queue' \in Seq(registered)
      /\ Elements(queue') = Elements(Tail(queue)) \cup freed
      /\ Distinct(queue')
  <2>1. PICK v \in Visits(freed) : queue' = Tail(queue) \o v
    BY <1>6
  <2>2. v \in Seq(freed) /\ Elements(v) = freed /\ Distinct(v)
    BY <1>7, VisitsFacts
  <2>3. v \in Seq(registered)
    BY <1>6, <2>2
  <2>4. Elements(Tail(queue)) \cap Elements(v) = {}
    BY <1>3, <1>8, <2>2
  <2> HIDE DEF freed
  <2>5. queue' \in Seq(registered)
    BY <1>3, <2>1, <2>3
  <2>6. /\ Elements(Tail(queue) \o v) = Elements(Tail(queue)) \cup Elements(v)
        /\ Distinct(Tail(queue) \o v)
    <3> DEFINE tail == Tail(queue)
    <3>1. tail \in Seq(registered) /\ Distinct(tail) /\ Elements(tail) \cap Elements(v) = {}
      BY <1>3, <2>4
    <3> HIDE DEF tail
    <3>2. /\ Elements(tail \o v) = Elements(tail) \cup Elements(v)
          /\ Distinct(tail \o v)
      BY <2>2, <2>3, <3>1, ElementsConcat
    <3> QED
      BY <3>2 DEF tail
  <2> QED
    BY <2>1, <2>2, <2>5, <2>6
<1>10. \A d \in Elements(dependsOn[current]) : d \in Elements(sorted)
  <2>1. inDegree[current] = 0
    BY <1>1, <1>3 DEF FreeAreListed, Looping
  <2>2. Occurrences(current, registered \ Elements(sorted)) = 0
    BY <1>1, <1>3, <2>1 DEF DegreesCount, Looping
  <2>3. Elements(dependsOn[current]) \cap (registered \ Elements(sorted)) = {}
    BY <1>2, <1>3, <2>2, OccurrencesFacts
  <2> QED
    BY <1>1, <1>3, <2>3 DEF AllRegistered, Looping
<1> HIDE DEF current, freed
<1>11. SortTypeOK'
  <2>1. inDegree' \in [registered -> Nat]
    BY <1>1, <1>5
  <2>2. sorted' \in Seq(registered)
    BY <1>1, <1>2, <1>3
  <2> QED
    BY <1>1, <1>9, <2>1, <2>2 DEF SortTypeOK
<1>12. AllRegistered'
  BY <1>1 DEF AllRegistered, Looping, Elements
<1>13. DegreesCount'
  <2>1. \A n \in registered : inDegree'[n] = Occurrences(n, registered \ Elements(sorted'))
    BY <1>1, <1>5
  <2> QED
    BY <1>1, <2>1 DEF DegreesCount, Occurrences, Elements
<1>14. FreeAreListed'
  <2>1. \A n \in registered : inDegree'[n] = 0 <=> n \in Elements(queue') \cup Elements(sorted')
    <3> SUFFICES ASSUME NEW n \in registered
                 PROVE  Remaining(n, current) = 0
                            <=> n \in Elements(queue') \cup Elements(sorted')
      BY <1>1
    <3>1. Elements(queue') \cup Elements(sorted') = Elements(queue) \cup Elements(sorted) \cup freed
      BY <1>3, <1>4, <1>9
    <3>2. inDegree[n] = 0 <=> n \in Elements(queue) \cup Elements(sorted)
      BY <1>1 DEF FreeAreListed, Looping
    <3>3. n \in freed <=> inDegree[n] > 0 /\ Remaining(n, current) = 0
      BY DEF freed
    <3>4. /\ Remaining(n, current) \in Nat /\ inDegree[n] \in Nat
          /\ Remaining(n, current) <= inDegree[n]
      BY <1>2, <1>5
    <3> QED
      BY <3>1, <3>2, <3>3, <3>4
  <2> QED
    BY <1>1, <2>1 DEF FreeAreListed, Elements
<1>15. EachOnce'
  <2>1. Distinct(sorted')
    <3>1. /\ DOMAIN sorted = 1 .. Len(sorted) /\ Len(sorted) \in Nat
          /\ DOMAIN sorted' = 1 .. Len(sorted) + 1
          /\ \A i \in 1 .. Len(sorted) : sorted'[i] = sorted[i]
          /\ sorted'[Len(sorted) + 1] = current
      BY <1>1, <1>2, <1>3
    <3>2. \A i \in 1 .. Len(sorted) : sorted'[i] # current
      BY <1>4, <3>1 DEF Elements
    <3>3. \A i \in 1 .. Len(sorted) + 1 : i = Len(sorted) + 1 \/ i \in 1 .. Len(sorted)
      BY <3>1
    <3> QED
      BY <3>1, <3>2, <3>3 DEF EachOnce, Distinct
  <2>2. Elements(queue') \cap Elements(sorted') = {}
    BY <1>3, <1>4, <1>8, <1>9 DEF EachOnce
  <2> QED
    BY <1>9, <2>1, <2>2 DEF EachOnce, Distinct, Elements
<1>16. SortedAfterDependencies'
  <2>1. /\ DOMAIN sorted = 1 .. Len(sorted) /\ Len(sorted) \in Nat
        /\ DOMAIN sorted' = 1 .. Len(sorted) + 1
        /\ \A i \in 1 .. Len(sorted) : sorted'[i] = sorted[i]
        /\ sorted'[Len(sorted) + 1] = current
    BY <1>1, <1>2, <1>3
  <2>2. ASSUME NEW i \in 1 .. Len(sorted) + 1, NEW d \in Elements(dependsOn[sorted'[i]])
        PROVE  \E j \in 1 .. Len(sorted) + 1 : j < i /\ sorted'[j] = d
    <3>1. CASE i \in 1 .. Len(sorted)
      <4>1. PICK j \in 1 .. Len(sorted) : j < i /\ sorted[j] = d
        BY <2>1, <2>2, <3>1 DEF SortedAfterDependencies
      <4> QED
        BY <2>1, <4>1
    <3>2. CASE i = Len(sorted) + 1
      <4>1. d \in Elements(sorted)
        BY <1>10, <2>1, <2>2, <3>2
      <4>2. PICK j \in 1 .. Len(sorted) : sorted[j] = d
        BY <2>1, <4>1 DEF Elements
      <4> QED
        BY <2>1, <3>2, <4>2
    <3> QED
      BY <2>1, <3>1, <3>2
  <2> QED
    <3>1. dependsOn' = dependsOn /\ DOMAIN sorted' = 1 .. Len(sorted) + 1
      BY <1>1, <2>1
    <3>2. \A i \in DOMAIN sorted' : \A d \in Elements(dependsOn'[sorted'[i]]) :
             \E j \in DOMAIN sorted' : j < i /\ sorted'[j] = d
      BY <2>2, <3>1
    <3> QED
      BY <3>2 DEF SortedAfterDependencies, Elements
<1>17. CyclesUnsorted'
  <2>1. ASSUME NEW C \in SUBSET registered, WaitsInCircle(C)
        PROVE  C \cap Elements(sorted') = {}
    <3>1. C \cap Elements(sorted) = {}
      BY <2>1 DEF CyclesUnsorted
    <3>2. current \notin C
      BY <1>10, <2>1, <3>1 DEF WaitsInCircle
    <3> QED
      BY <1>4, <3>1, <3>2
  <2> QED
    <3>1. \A C \in SUBSET registered' :
             (\A n \in C : \E d \in Elements(dependsOn'[n]) : d \in C)
                => C \cap Elements(sorted') = {}
      BY <1>1, <2>1 DEF WaitsInCircle
    <3> QED
      BY <3>1 DEF CyclesUnsorted, WaitsInCircle, Elements
<1> QED
  BY <1>1, <1>11, <1>12, <1>13, <1>14, <1>15, <1>16, <1>17 DEF Untouched, Ended

(* What the graph and the sequences determine stays while they do. *)
LEMMA PartsKept ==
    ASSUME registered' = registered, dependsOn' = dependsOn, inDegree' = inDegree,
           queue' = queue, sorted' = sorted,
           EachOnce, SortedAfterDependencies, CyclesUnsorted
    PROVE  EachOnce' /\ SortedAfterDependencies' /\ CyclesUnsorted'
<1>1. EachOnce'
  BY DEF EachOnce, Distinct, Elements
<1>2. SortedAfterDependencies'
  BY DEF SortedAfterDependencies, Elements
<1>3. CyclesUnsorted'
  <2>1. \A C : WaitsInCircle(C)' <=> WaitsInCircle(C)
    BY DEF WaitsInCircle, Elements
  <2>2. Elements(sorted)' = Elements(sorted)
    BY DEF Elements
  <2> QED
    BY <2>1, <2>2 DEF CyclesUnsorted
<1> QED
  BY <1>1, <1>2, <1>3

LEMMA CountsKept ==
    ASSUME registered' = registered, dependsOn' = dependsOn, inDegree' = inDegree,
           queue' = queue, sorted' = sorted, Looping' => Looping,
           AllRegistered, DegreesCount, FreeAreListed
    PROVE  AllRegistered' /\ DegreesCount' /\ FreeAreListed'
<1>1. AllRegistered'
  BY DEF AllRegistered, Elements
<1>2. DegreesCount'
  <2>1. Elements(sorted)' = Elements(sorted)
    BY DEF Elements
  <2>2. \A n \in registered : Occurrences(n, registered \ Elements(sorted))'
                               = Occurrences(n, registered \ Elements(sorted))
    BY <2>1 DEF Occurrences
  <2> QED
    BY <2>2 DEF DegreesCount
<1>3. FreeAreListed'
  <2>1. Elements(queue)' = Elements(queue) /\ Elements(sorted)' = Elements(sorted)
    BY DEF Elements
  <2> QED
    BY <2>1 DEF FreeAreListed
<1> QED
  BY <1>1, <1>2, <1>3

LEMMA FinishPreserves == IInv /\ Finish => IInv'
<1> SUFFICES ASSUME IInv, Finish PROVE IInv'
  OBVIOUS
<1> USE DEF IInv
<1>1. /\ registered' = registered /\ dependsOn' = dependsOn /\ inDegree' = inDegree
      /\ queue' = queue /\ sorted' = sorted /\ queue = <<>> /\ stage = "sort"
      /\ stage' = IF Len(sorted) = Cardinality(registered) THEN "sorted" ELSE "cycle"
  BY DEF Finish
<1>2. SortTypeOK'
  BY <1>1 DEF SortTypeOK
<1>3. AllRegistered' /\ DegreesCount' /\ FreeAreListed'
  BY <1>1, CountsKept DEF Looping
<1>4. EachOnce' /\ SortedAfterDependencies' /\ CyclesUnsorted'
  BY <1>1, PartsKept
<1> QED
  BY <1>1, <1>2, <1>3, <1>4 DEF Untouched, Ended

LEMMA MissingPreserves == IInv /\ MissingDependency => IInv'
<1> SUFFICES ASSUME IInv, MissingDependency PROVE IInv'
  OBVIOUS
<1> USE DEF IInv
<1>1. /\ registered' = registered /\ dependsOn' = dependsOn /\ inDegree' = inDegree
      /\ queue' = queue /\ sorted' = sorted /\ stage' = "missing" /\ stage = "build"
  BY DEF MissingDependency
<1>2. SortTypeOK'
  BY <1>1 DEF SortTypeOK
<1>3. EachOnce' /\ SortedAfterDependencies' /\ CyclesUnsorted'
  BY <1>1, PartsKept
<1> QED
  BY <1>1, <1>2, <1>3 DEF Untouched, Ended, Looping, AllRegistered, DegreesCount,
                          FreeAreListed

LEMMA StutterPreserves == IInv /\ UNCHANGED sortVars => IInv'
<1> SUFFICES ASSUME IInv, UNCHANGED sortVars PROVE IInv'
  OBVIOUS
<1>1. /\ registered' = registered /\ dependsOn' = dependsOn /\ inDegree' = inDegree
      /\ queue' = queue /\ sorted' = sorted /\ stage' = stage
  BY DEF sortVars
<1>2. SortTypeOK' /\ Untouched' /\ Ended'
  BY <1>1 DEF IInv, SortTypeOK, Untouched, Ended
<1>3. AllRegistered' /\ DegreesCount' /\ FreeAreListed'
  BY <1>1, CountsKept DEF Looping, IInv
<1>4. EachOnce' /\ SortedAfterDependencies' /\ CyclesUnsorted'
  BY <1>1, PartsKept DEF IInv
<1> QED
  BY <1>2, <1>3, <1>4 DEF IInv

(* The strengthened invariant holds in every reachable state. *)
THEOREM InductiveInvariant == SortSpec => []IInv
<1>1. IInv /\ [SortNext]_sortVars => IInv'
  BY MissingPreserves, BuildGraphPreserves, DequeuePreserves, FinishPreserves,
     StutterPreserves DEF SortNext
<1> QED
  BY InitEstablishes, <1>1, PTL DEF SortSpec

-----------------------------------------------------------------------------
(* When every service was sorted, the order lists them all. *)
LEMMA SortedIsComplete ==
    ASSUME IInv
    PROVE  Len(sorted) = Cardinality(registered) <=> Elements(sorted) = registered
<1>0. SortTypeOK /\ Distinct(sorted)
  BY DEF IInv, EachOnce
<1>1. sorted \in Seq(registered) /\ Len(sorted) \in Nat /\ DOMAIN sorted = 1 .. Len(sorted)
  BY <1>0 DEF SortTypeOK
<1>2. sorted \in Injection(1 .. Len(sorted), registered)
  <2>1. sorted \in [1 .. Len(sorted) -> registered]
    BY <1>1
  <2>2. \A i, j \in 1 .. Len(sorted) : sorted[i] = sorted[j] => i = j
    BY <1>0, <1>1 DEF Distinct
  <2> QED
    BY <2>1, <2>2 DEF Injection, IsInjective
<1>3. IsFiniteSet(registered)
  BY <1>0, NamesFinite, FS_Subset DEF SortTypeOK
<1>4. Cardinality(1 .. Len(sorted)) = Len(sorted)
  <2>1. 1 \in Int /\ Len(sorted) \in Int
    BY <1>1
  <2>2. Cardinality(1 .. Len(sorted)) = IF 1 > Len(sorted) THEN 0 ELSE Len(sorted) - 1 + 1
    BY <2>1, FS_Interval
  <2> QED
    BY <1>1, <2>2
<1>5. Len(sorted) = Cardinality(registered) <=> sorted \in Surjection(1 .. Len(sorted), registered)
  BY <1>2, <1>3, <1>4, FS_Injection
<1>6. sorted \in Surjection(1 .. Len(sorted), registered) <=> Elements(sorted) = registered
  <2>1. sorted \in [1 .. Len(sorted) -> registered]
    BY <1>1
  <2> QED
    BY <1>1, <2>1 DEF Surjection, Elements
<1> QED
  BY <1>5, <1>6

(* The order returned names every service once, after its dependencies.    *)
THEOREM OrderIsStartOrder == SortSpec => []DependenciesFirst
<1>1. IInv => DependenciesFirst
  <2> SUFFICES ASSUME IInv, stage = "sorted"
               PROVE  /\ Elements(sorted) = registered
                      /\ Distinct(sorted)
                      /\ SortedAfterDependencies
    BY DEF DependenciesFirst, Distinct, SortedAfterDependencies
  <2>1. Elements(sorted) = registered
    BY SortedIsComplete DEF IInv, Ended
  <2> QED
    BY <2>1 DEF IInv, EachOnce
<1> QED
  BY <1>1, InductiveInvariant, PTL

(* A cycle is reported exactly when the graph has one: no startable graph  *)
(* is refused, no cyclic one is accepted.                                  *)
THEOREM CyclesAreReported == SortSpec => []CycleExactlyReported
<1>1. ASSUME IInv, stage = "cycle" PROVE Cyclic
  <2> DEFINE C == registered \ Elements(sorted)
  <2>1. queue = <<>> /\ Elements(sorted) # registered
    BY <1>1, SortedIsComplete DEF IInv, Ended
  <2>2. Elements(sorted) \subseteq registered
    BY <1>1 DEF IInv, SortTypeOK, Elements
  <2>3. C # {} /\ C \in SUBSET registered
    BY <2>1, <2>2
  <2>4. ASSUME NEW n \in C PROVE \E d \in Elements(dependsOn[n]) : d \in C
    <3>1. n \notin Elements(queue)
      BY <2>1 DEF Elements
    <3>2. inDegree[n] # 0
      BY <1>1, <3>1 DEF IInv, FreeAreListed, Looping
    <3>3. Occurrences(n, C) # 0
      BY <1>1, <3>2 DEF IInv, DegreesCount, Looping
    <3>4. dependsOn[n] \in DependencySlices
      BY <1>1 DEF IInv, SortTypeOK
    <3> HIDE DEF C
    <3>5. Elements(dependsOn[n]) \cap C # {}
      BY <3>3, <3>4, OccurrencesFacts
    <3> QED
      BY <3>5
  <2> QED
    BY <2>3, <2>4 DEF Cyclic, WaitsInCircle
<1>2. ASSUME IInv, stage = "sorted" PROVE ~ Cyclic
  <2>1. Elements(sorted) = registered
    BY <1>2, SortedIsComplete DEF IInv, Ended
  <2> QED
    BY <1>2, <2>1 DEF IInv, CyclesUnsorted, Cyclic
<1>3. IInv => CycleExactlyReported
  BY <1>1, <1>2 DEF CycleExactlyReported
<1> QED
  BY <1>3, InductiveInvariant, PTL

-----------------------------------------------------------------------------
(***************************************************************************)
(* Runner.StartBegin chooses any member of StartOrders; topologicalSort is *)
(* one deterministic choice per map order.  On the same graph it returns a *)
(* member of StartOrders, and an error exactly when there is none.         *)
(***************************************************************************)

(* Ordering's graph is the one of the Runner's services. *)
SameGraph ==
    /\ registered \subseteq Services
    /\ \A n \in registered : Elements(dependsOn[n]) = DependsOn[n]

MissingHasCause ==
    stage = "missing" => \E n \in registered : ~ (Elements(dependsOn[n]) \subseteq registered)

LEMMA MissingIsMissing == SortSpec => []MissingHasCause
<1>1. SortInit => MissingHasCause
  BY DEF SortInit, MissingHasCause
<1>2. ASSUME MissingHasCause, [SortNext]_sortVars PROVE MissingHasCause'
  <2>1. CASE stage' # "missing"
    BY <2>1 DEF MissingHasCause
  <2>2. CASE stage' = "missing"
    <3>1. \/ MissingDependency
          \/ stage = "missing" /\ registered' = registered /\ dependsOn' = dependsOn
      BY <1>2, <2>2 DEF SortNext, BuildGraph, Dequeue, Finish, sortVars
    <3>2. /\ registered' = registered /\ dependsOn' = dependsOn
          /\ \E n \in registered : ~ (Elements(dependsOn[n]) \subseteq registered)
      BY <1>2, <3>1 DEF MissingDependency, MissingHasCause
    <3> QED
      BY <3>2 DEF MissingHasCause, Elements
  <2> QED
    BY <2>1, <2>2
<1> QED
  BY <1>1, <1>2, PTL DEF SortSpec

(* A start order visits some member of a circle first, and that one's      *)
(* dependency in the circle would have to come before it.                  *)
LEMMA CircleHasNoOrder ==
    ASSUME SameGraph, Cyclic
    PROVE  StartOrders(registered) = {}
<1> SUFFICES ASSUME NEW o \in StartOrders(registered) PROVE FALSE
  OBVIOUS
<1>1. PICK C \in (SUBSET registered) \ {{}} : WaitsInCircle(C)
  BY DEF Cyclic
<1>2. /\ Cardinality(registered) \in Nat
      /\ o \in [1 .. Cardinality(registered) -> registered]
      /\ \A s \in registered : \E i \in DOMAIN o : o[i] = s
      /\ \A i \in DOMAIN o : \A d \in DependsOn[o[i]] :
            \E j \in DOMAIN o : j < i /\ o[j] = d
  BY FiniteInstance, FS_Subset, FS_CardinalityType DEF StartOrders, SameGraph
<1> DEFINE At == {i \in 1 .. Cardinality(registered) : o[i] \in C}
<1>3. At \subseteq Nat /\ At # {}
  BY <1>1, <1>2
<1>4. PICK i \in At : \A j \in At : ~ (j < i)
  <2>1. PICK i \in At : \A j \in At : ~ (<<j, i>> \in OpToRel(<, Nat))
    BY <1>3, NatLessThanWellFounded, WFMin
  <2> QED
    BY <1>3, <2>1 DEF OpToRel
<1>5. PICK d \in Elements(dependsOn[o[i]]) : d \in C
  BY <1>1, <1>4 DEF WaitsInCircle
<1>6. d \in DependsOn[o[i]]
  BY <1>2, <1>4, <1>5 DEF SameGraph
<1>7. PICK j \in DOMAIN o : j < i /\ o[j] = d
  BY <1>2, <1>4, <1>6
<1> QED
  BY <1>2, <1>4, <1>5, <1>7

LEMMA MissingHasNoOrder ==
    ASSUME SameGraph, NEW n \in registered, ~ (Elements(dependsOn[n]) \subseteq registered)
    PROVE  StartOrders(registered) = {}
<1> SUFFICES ASSUME NEW o \in StartOrders(registered) PROVE FALSE
  OBVIOUS
<1>1. PICK d \in DependsOn[n] : d \notin registered
  BY DEF SameGraph
<1>2. /\ o \in [1 .. Cardinality(registered) -> registered]
      /\ \A s \in registered : \E i \in DOMAIN o : o[i] = s
      /\ \A i \in DOMAIN o : \A e \in DependsOn[o[i]] :
            \E j \in DOMAIN o : j < i /\ o[j] = e
  BY DEF StartOrders
<1>3. PICK i \in DOMAIN o : o[i] = n
  BY <1>2
<1>4. PICK j \in DOMAIN o : o[j] = d
  BY <1>1, <1>2, <1>3
<1> QED
  BY <1>1, <1>2, <1>4

(* topologicalSort returns one of the orders Runner.Start may begin with,  *)
(* and refuses to start exactly the services that have no such order, for  *)
(* every graph (ordering.go:9-63, runner.go: Start).                       *)
OrderIsOffered ==
    SameGraph =>
        /\ stage = "sorted" => sorted \in StartOrders(registered)
        /\ stage \in {"cycle", "missing"} => StartOrders(registered) = {}

THEOREM StartTakesTheSortedOrder == SortSpec => []OrderIsOffered
<1>1. ASSUME IInv, SameGraph, stage = "sorted" PROVE sorted \in StartOrders(registered)
  <2>1. /\ Elements(sorted) = registered /\ Len(sorted) = Cardinality(registered)
        /\ SortedAfterDependencies
    BY <1>1, SortedIsComplete DEF IInv, Ended
  <2>2. sorted \in [1 .. Cardinality(registered) -> registered]
    BY <1>1, <2>1 DEF IInv, SortTypeOK
  <2>3. \A s \in registered : \E i \in DOMAIN sorted : sorted[i] = s
    BY <2>1 DEF Elements
  <2>4. ASSUME NEW i \in DOMAIN sorted, NEW d \in DependsOn[sorted[i]]
        PROVE  \E j \in DOMAIN sorted : j < i /\ sorted[j] = d
    <3>1. sorted[i] \in registered
      BY <2>2
    <3>2. d \in Elements(dependsOn[sorted[i]])
      BY <1>1, <3>1 DEF SameGraph
    <3> QED
      BY <2>1, <3>2 DEF SortedAfterDependencies
  <2> QED
    BY <2>2, <2>3, <2>4 DEF StartOrders
<1>2. ASSUME CycleExactlyReported, SameGraph, stage = "cycle"
      PROVE  StartOrders(registered) = {}
  BY <1>2, CircleHasNoOrder DEF CycleExactlyReported
<1>3. ASSUME MissingHasCause, SameGraph, stage = "missing"
      PROVE  StartOrders(registered) = {}
  BY <1>3, MissingHasNoOrder DEF MissingHasCause
<1>4. IInv /\ CycleExactlyReported /\ MissingHasCause => OrderIsOffered
  BY <1>1, <1>2, <1>3 DEF OrderIsOffered
<1> QED
  BY <1>4, InductiveInvariant, CyclesAreReported, MissingIsMissing, PTL

=============================================================================
