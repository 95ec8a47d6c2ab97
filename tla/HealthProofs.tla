----------------------------- MODULE HealthProofs -----------------------------
(***************************************************************************)
(* What the answers of Check mean, for any number of calls and components, *)
(* any timeout and any TTL but zero, when no caller brings a deadline that *)
(* is longer than checkTimeout.                                            *)
(***************************************************************************)
EXTENDS Health, TLAPS

TimeType ==
    /\ cacheLeft \in 0 .. TTL
    /\ left \in [Calls -> 0 .. Timeout]
    /\ lastUp \in [Names -> 0 .. Window]
    /\ lastError \in 0 .. Window

CallType ==
    /\ checkers \subseteq Names
    /\ cache \in Results \cup {NoResult}
    /\ pc \in [Calls -> {"idle", "miss", "wait", "done"}]
    /\ pending \in [Calls -> SUBSET Names]
    /\ found \in [Calls -> Results]
    /\ state \in [Names -> States]

(* Only a registered component that is not up gets older. *)
UpIsNow == \A n \in Names : n \notin checkers \/ state[n] = "up" => lastUp[n] = 0

(* The answers of a call are not older than its context: a component that   *)
(* has answered nil or was registered since was up meanwhile.               *)
Young(c) ==
    /\ pc[c] # "wait" => found[c] = NoAnswer /\ pending[c] = {}
    /\ pc[c] = "wait" /\ Healthy(found[c]) =>
          \A n \in Names \ pending[c] : lastUp[n] + left[c] <= Timeout
    /\ pc[c] = "wait" /\ ~ Healthy(found[c]) => lastError + left[c] <= Timeout

AnswersAreYoung == \A c \in Calls : Young(c)

(* Nor is the cached result older than a call and the time it is cached.    *)
CacheIsYoung ==
    Fresh =>
        /\ Healthy(cache) => \A n \in Names : lastUp[n] + cacheLeft <= Window
        /\ ~ Healthy(cache) => lastError + cacheLeft <= Window

IInv == TimeType /\ CallType /\ UpIsNow /\ AnswersAreYoung /\ CacheIsYoung

(* Results are cached for a while, and no caller brings a deadline longer   *)
(* than checkTimeout, which would replace it (health.go:135-144).           *)
ShortDeadlines == TTL > 0 /\ \A t \in Deadlines : t <= Timeout

-----------------------------------------------------------------------------
(* The state stays well formed. *)

LEMMA TypeInit == Init => TimeType /\ CallType
<1> SUFFICES ASSUME Init PROVE TimeType /\ CallType
  OBVIOUS
<1>1. 0 \in 0 .. TTL /\ 0 \in 0 .. Timeout /\ 0 \in 0 .. Window /\ Window \in 0 .. Window
  BY TimesAreNat DEF Window
<1>2. TimeType
  BY <1>1 DEF Init, TimeType
<1>3. NoAnswer \in Results
  BY DEF NoAnswer, Results
<1>4. CallType
  BY <1>3 DEF Init, CallType, States
<1> QED
  BY <1>2, <1>4

(* One answer more, in one of the two sets. *)
LEMMA AnswersAdded ==
    ASSUME CallType, NEW c \in Calls, NEW n \in Names, AnswersOk(c, n) \/ AnswersError(c, n)
    PROVE  /\ found' \in [Calls -> Results] /\ pending' \in [Calls -> SUBSET Names]
           /\ \A d \in Calls : d # c => found'[d] = found[d] /\ pending'[d] = pending[d]
           /\ pending'[c] = pending[c] \ {n}
           /\ AnswersOk(c, n) => found'[c].error = found[c].error
           /\ AnswersError(c, n) => found'[c].error # {}
<1>1. found[c] \in Results /\ found[c].ok \subseteq Names /\ found[c].error \subseteq Names
  BY DEF CallType, Results
<1> DEFINE ok == [found[c] EXCEPT !.ok = @ \cup {n}]
           error == [found[c] EXCEPT !.error = @ \cup {n}]
<1>2. /\ ok \in Results /\ ok.error = found[c].error
      /\ error \in Results /\ n \in error.error
  BY <1>1 DEF Results
<1>3. /\ AnswersOk(c, n) => found' = [found EXCEPT ![c] = ok]
      /\ AnswersError(c, n) => found' = [found EXCEPT ![c] = error]
  BY <1>1 DEF AnswersOk, AnswersError, CallType, Results
<1>4. pending' = [pending EXCEPT ![c] = @ \ {n}]
  BY DEF AnswersOk, AnswersError
<1> HIDE DEF ok, error
<1>5. AnswersOk(c, n) => found' \in [Calls -> Results] /\ found'[c].error = found[c].error
  BY <1>2, <1>3 DEF CallType
<1>6. AnswersError(c, n) => found' \in [Calls -> Results] /\ found'[c].error # {}
  BY <1>2, <1>3 DEF CallType
<1>7. \A d \in Calls : d # c => found'[d] = found[d]
  BY <1>3 DEF CallType
<1> QED
  BY <1>4, <1>5, <1>6, <1>7 DEF CallType

LEMMA TypeStep == ShortDeadlines /\ TimeType /\ CallType /\ [Next]_vars => TimeType' /\ CallType'
<1> SUFFICES ASSUME ShortDeadlines, TimeType, CallType, [Next]_vars
             PROVE  TimeType' /\ CallType'
  OBVIOUS
<1>0. /\ Timeout \in Nat /\ TTL \in Nat /\ Window \in Nat
      /\ 0 \in 0 .. TTL /\ 0 \in 0 .. Timeout /\ 0 \in 0 .. Window /\ TTL \in 0 .. TTL
      /\ NoAnswer \in Results
  BY TimesAreNat DEF Window, NoAnswer, Results
<1>1. ASSUME NEW n \in Names, RegisterChecker(n) \/ UnregisterChecker(n)
      PROVE  TimeType' /\ CallType'
  BY <1>0, <1>1 DEF RegisterChecker, UnregisterChecker, TimeType, CallType, callVars, history
<1>2. ASSUME NEW n \in Names, ComponentChanges(n) PROVE TimeType' /\ CallType'
  <2>1. state' \in [Names -> States] /\ lastUp' \in [Names -> 0 .. Window]
    BY <1>0, <1>2 DEF ComponentChanges, TimeType, CallType
  <2> QED
    BY <1>2, <2>1 DEF ComponentChanges, TimeType, CallType, callVars
<1>3. CASE ClearCache
  BY <1>0, <1>3 DEF ClearCache, TimeType, CallType, callVars, history
<1>4. ASSUME NEW c \in Calls, CheckHit(c) \/ Snapshot(c) PROVE TimeType' /\ CallType'
  BY <1>4 DEF CheckHit, Snapshot, TimeType, CallType, history
<1>5. ASSUME NEW c \in Calls, CheckMiss(c) PROVE TimeType' /\ CallType'
  <2>1. \A t \in ContextTimes : t \in 0 .. Timeout
    BY <1>0, TimesAreNat DEF ContextTimes, ShortDeadlines
  <2> QED
    BY <1>5, <2>1 DEF CheckMiss, TimeType, CallType, history
<1>6. ASSUME NEW c \in Calls, Store(c) PROVE TimeType' /\ CallType'
  BY <1>0, <1>6 DEF Store, TimeType, CallType, history
<1>7. ASSUME NEW c \in Calls, NEW n \in Names, AnswersOk(c, n) \/ AnswersError(c, n)
      PROVE  TimeType' /\ CallType'
  <2>1. found' \in [Calls -> Results] /\ pending' \in [Calls -> SUBSET Names]
    BY <1>7, AnswersAdded
  <2>2. lastError' \in 0 .. Window
    BY <1>0, <1>7 DEF AnswersOk, AnswersError, TimeType, history
  <2>3. UNCHANGED <<checkers, cache, cacheLeft, pc, left, state, lastUp>>
    BY <1>7 DEF AnswersOk, AnswersError, history
  <2> QED
    BY <2>1, <2>2, <2>3 DEF TimeType, CallType
<1>8. ASSUME NEW c \in Calls, CallerLeaves(c) PROVE TimeType' /\ CallType'
  BY <1>0, <1>8 DEF CallerLeaves, TimeType, CallType, history
<1>9. CASE Tick
  <2>1. CallType'
    BY <1>9 DEF Tick, CallType
  <2>2. /\ \A t \in 0 .. TTL : Later(t) \in 0 .. TTL
        /\ \A t \in 0 .. Timeout : Later(t) \in 0 .. Timeout
        /\ \A t \in 0 .. Window : Older(t) \in 0 .. Window
    BY <1>0 DEF Later, Older
  <2>3. /\ cacheLeft' = Later(cacheLeft) /\ lastError' = Older(lastError)
        /\ left' = [c \in Calls |-> Later(left[c])]
        /\ lastUp' = [n \in Names |-> IF n \in checkers /\ state[n] # "up"
                                      THEN Older(lastUp[n]) ELSE 0]
    BY <1>9 DEF Tick
  <2> QED
    BY <1>0, <2>1, <2>2, <2>3 DEF TimeType
<1>10. CASE UNCHANGED vars
  BY <1>10 DEF vars, callVars, history, TimeType, CallType
<1> QED
  BY <1>1, <1>2, <1>3, <1>4, <1>5, <1>6, <1>7, <1>8, <1>9, <1>10 DEF Next, CallStep, CheckerStep

-----------------------------------------------------------------------------
(* Ages.  Time passes in Tick alone, and then every call that waits has     *)
(* time left.                                                               *)

LEMMA UpIsNowStep == TimeType /\ CallType /\ UpIsNow /\ [Next]_vars => UpIsNow'
<1> SUFFICES ASSUME TimeType, CallType, UpIsNow, [Next]_vars PROVE UpIsNow'
  OBVIOUS
<1>1. ASSUME NEW n \in Names, RegisterChecker(n) \/ UnregisterChecker(n) PROVE UpIsNow'
  BY <1>1 DEF RegisterChecker, UnregisterChecker, UpIsNow, TimeType, history
<1>2. ASSUME NEW n \in Names, ComponentChanges(n) PROVE UpIsNow'
  BY <1>2 DEF ComponentChanges, UpIsNow, TimeType, CallType
<1>3. CASE Tick
  BY <1>3 DEF Tick, UpIsNow
<1>4. CASE UNCHANGED <<checkers, state, lastUp>>
  BY <1>4 DEF UpIsNow
<1> QED
  BY <1>1, <1>2, <1>3, <1>4
     DEF Next, CallStep, CheckerStep, ClearCache, CheckHit, CheckMiss, Snapshot, Store,
         AnswersOk, AnswersError, CallerLeaves, vars, history

(* Outside Tick nothing gets older. *)
NotOlder ==
    /\ \A n \in Names : lastUp'[n] <= lastUp[n]
    /\ lastError' <= lastError

LEMMA OnlyTickAges == TimeType /\ CallType /\ [Next]_vars => Tick \/ NotOlder
<1> SUFFICES ASSUME TimeType, CallType, [Next]_vars, ~ Tick PROVE NotOlder
  OBVIOUS
<1>0. lastError \in Nat /\ \A n \in Names : lastUp[n] \in Nat
  BY TimesAreNat DEF TimeType, Window
<1>1. ASSUME NEW n \in Names, UnregisterChecker(n) \/ ComponentChanges(n) PROVE NotOlder
  BY <1>0, <1>1 DEF UnregisterChecker, ComponentChanges, NotOlder, TimeType
<1>2. ASSUME NEW c \in Calls, NEW n \in Names, AnswersOk(c, n) \/ AnswersError(c, n)
      PROVE  NotOlder
  BY <1>0, <1>2 DEF AnswersOk, AnswersError, NotOlder, history
<1>3. CASE UNCHANGED history
  BY <1>0, <1>3 DEF NotOlder, history
<1> QED
  BY <1>1, <1>2, <1>3
     DEF Next, CallStep, CheckerStep, RegisterChecker, ClearCache, CheckHit, CheckMiss,
         Snapshot, Store, CallerLeaves, vars

(* A Tick adds at most one unit to an age. *)
LEMMA TickAges ==
    ASSUME TimeType, Tick
    PROVE  /\ \A n \in Names : lastUp'[n] <= lastUp[n] + 1
           /\ lastError' <= lastError + 1
           /\ \A c \in Calls : pc[c] = "wait" => left[c] > 0 /\ left'[c] = left[c] - 1
           /\ cacheLeft' > 0 => cacheLeft > 0 /\ cacheLeft' = cacheLeft - 1
<1>0. /\ Window \in Nat /\ lastError \in 0 .. Window /\ cacheLeft \in Nat
      /\ \A n \in Names : lastUp[n] \in 0 .. Window
      /\ \A c \in Calls : left[c] \in Nat
  BY TimesAreNat DEF TimeType, Window
<1>1. \A t \in 0 .. Window : Older(t) <= t + 1
  BY <1>0 DEF Older
<1>2. \A n \in Names : lastUp'[n] \in {Older(lastUp[n]), 0}
  BY DEF Tick
<1>3. \A n \in Names : lastUp'[n] <= lastUp[n] + 1
  BY <1>0, <1>1, <1>2
<1>4. lastError' <= lastError + 1
  BY <1>0, <1>1 DEF Tick
<1>5. ASSUME NEW c \in Calls, pc[c] = "wait" PROVE left[c] > 0 /\ left'[c] = left[c] - 1
  BY <1>0, <1>5 DEF Tick, OnlyTimeHelps, Later
<1>6. cacheLeft' > 0 => cacheLeft > 0 /\ cacheLeft' = cacheLeft - 1
  BY <1>0 DEF Tick, Later
<1> QED
  BY <1>3, <1>4, <1>5, <1>6

LEMMA YoungFrame ==
    ASSUME TimeType, TimeType', NotOlder, NEW c \in Calls, Young(c),
           UNCHANGED <<pc[c], found[c], pending[c]>>, left'[c] <= left[c]
    PROVE  Young(c)'
<1>1. /\ Timeout \in Nat /\ left[c] \in Nat /\ left'[c] \in Nat
      /\ lastError \in Nat /\ lastError' \in Nat
      /\ \A n \in Names : lastUp[n] \in Nat /\ lastUp'[n] \in Nat
  BY TimesAreNat DEF TimeType, Window
<1>2. /\ \A n \in Names : lastUp[n] + left[c] <= Timeout => lastUp'[n] + left'[c] <= Timeout
      /\ lastError + left[c] <= Timeout => lastError' + left'[c] <= Timeout
  BY <1>1 DEF NotOlder
<1> QED
  BY <1>2 DEF Young, Healthy

LEMMA YoungStep ==
    ASSUME ShortDeadlines, TimeType, CallType, UpIsNow, AnswersAreYoung, [Next]_vars,
           TimeType', CallType'
    PROVE  AnswersAreYoung'
<1> SUFFICES ASSUME NEW d \in Calls PROVE Young(d)'
  BY DEF AnswersAreYoung
<1>0. /\ Timeout \in Nat /\ left[d] \in 0 .. Timeout /\ left'[d] \in 0 .. Timeout
      /\ lastError \in Nat /\ lastError' \in Nat
      /\ \A n \in Names : lastUp[n] \in Nat /\ lastUp'[n] \in Nat
      /\ Young(d)
  BY TimesAreNat DEF TimeType, Window, AnswersAreYoung
<1>1. CASE Tick
  <2>1. UNCHANGED <<pc, found, pending>>
    BY <1>1 DEF Tick
  <2>2. pc[d] = "wait" =>
          /\ \A n \in Names : lastUp[n] + left[d] <= Timeout => lastUp'[n] + left'[d] <= Timeout
          /\ lastError + left[d] <= Timeout => lastError' + left'[d] <= Timeout
    BY <1>0, <1>1, TickAges
  <2> QED
    BY <1>0, <2>1, <2>2 DEF Young, Healthy
<1>2. ASSUME NEW c \in Calls, ~ Tick,
             CheckHit(c) \/ CheckMiss(c) \/ Snapshot(c) \/ Store(c)
      PROVE  Young(d)'
  <2>1. CASE c # d
    <3>1. UNCHANGED <<pc[d], found[d], pending[d], left[d]>>
      BY <1>2, <2>1 DEF CheckHit, CheckMiss, Snapshot, Store, TimeType, CallType
    <3> QED
      BY <1>0, <1>2, <3>1, YoungFrame, OnlyTickAges
  <2>2. CASE c = d /\ (CheckHit(d) \/ Store(d))
    BY <1>0, <2>2 DEF CheckHit, Store, AllAnswered, Young, CallType
  <2>3. CASE c = d /\ CheckMiss(d)
    BY <1>0, <2>3 DEF CheckMiss, Young, CallType
  <2>4. CASE c = d /\ Snapshot(d)
    <3>1. /\ pc'[d] = "wait" /\ pending'[d] = checkers /\ found'[d] = NoAnswer
          /\ UNCHANGED <<lastUp, left>>
      BY <1>0, <2>4 DEF Snapshot, CallType, Young, history
    <3>2. \A n \in Names \ checkers : lastUp[n] = 0
      BY DEF UpIsNow
    <3>3. Healthy(found[d])'
      BY <3>1 DEF Healthy, NoAnswer
    <3> QED
      BY <1>0, <3>1, <3>2, <3>3 DEF Young
  <2> QED
    BY <1>2, <2>1, <2>2, <2>3, <2>4
<1>3. ASSUME NEW c \in Calls, NEW n \in Names, ~ Tick, AnswersOk(c, n) \/ AnswersError(c, n)
      PROVE  Young(d)'
  <2>0. UNCHANGED <<pc, left>>
    BY <1>3 DEF AnswersOk, AnswersError
  <2>1. CASE c # d
    BY <1>0, <1>3, <2>0, <2>1, YoungFrame, OnlyTickAges, AnswersAdded
  <2>2. CASE c = d /\ AnswersOk(d, n)
    <3>1. /\ pending'[d] = pending[d] \ {n} /\ found'[d].error = found[d].error
          /\ UNCHANGED history /\ lastUp[n] = 0
      BY <2>2, AnswersAdded DEF AnswersOk, UpIsNow
    <3>2. pc[d] = "wait" /\ Healthy(found[d]) =>
            \A m \in Names \ pending'[d] : lastUp[m] + left[d] <= Timeout
      BY <1>0, <3>1 DEF Young
    <3>3. pc[d] = "wait"
      BY <1>0, <2>2 DEF AnswersOk, Young
    <3> QED
      BY <1>0, <2>0, <3>1, <3>2, <3>3 DEF Young, Healthy, history
  <2>3. CASE c = d /\ AnswersError(d, n)
    <3>1. pc[d] = "wait" /\ found'[d].error # {} /\ lastError' = 0
      BY <1>0, <2>3, AnswersAdded DEF AnswersError, Young
    <3> QED
      BY <1>0, <2>0, <3>1 DEF Young, Healthy
  <2> QED
    BY <1>3, <2>1, <2>2, <2>3
<1>4. ASSUME NEW c \in Calls, ~ Tick, CallerLeaves(c) PROVE Young(d)'
  <2>1. left'[d] <= left[d] /\ UNCHANGED <<pc, found, pending>>
    BY <1>0, <1>4 DEF CallerLeaves, TimeType
  <2> QED
    BY <1>0, <1>4, <2>1, YoungFrame, OnlyTickAges
<1>5. CASE ~ Tick /\ UNCHANGED <<pc, found, pending, left>>
  BY <1>0, <1>5, YoungFrame, OnlyTickAges
<1> QED
  BY <1>1, <1>2, <1>3, <1>4, <1>5
     DEF Next, CallStep, CheckerStep, RegisterChecker, UnregisterChecker, ComponentChanges,
         ClearCache, vars, callVars

LEMMA CacheStep ==
    ASSUME ShortDeadlines, TimeType, CallType, AnswersAreYoung, CacheIsYoung, [Next]_vars,
           TimeType', CallType'
    PROVE  CacheIsYoung'
<1>0. /\ Timeout \in Nat /\ TTL \in Nat /\ Window = Timeout + TTL
      /\ cacheLeft \in Nat /\ cacheLeft' \in Nat
      /\ lastError \in Nat /\ lastError' \in Nat
      /\ \A n \in Names : lastUp[n] \in Nat /\ lastUp'[n] \in Nat
      /\ \A c \in Calls : left[c] \in Nat
  BY TimesAreNat DEF TimeType, Window
<1>1. CASE Tick
  <2>1. Fresh' => Fresh /\ cache' = cache /\ cacheLeft' = cacheLeft - 1
    BY <1>0, <1>1, TickAges DEF Fresh, Tick
  <2>2. /\ \A n \in Names : lastUp'[n] <= lastUp[n] + 1
        /\ lastError' <= lastError + 1
    BY <1>1, TickAges
  <2>3. Fresh /\ cacheLeft' = cacheLeft - 1 /\ CacheIsYoung =>
          /\ Healthy(cache) => \A n \in Names : lastUp'[n] + cacheLeft' <= Window
          /\ ~ Healthy(cache) => lastError' + cacheLeft' <= Window
    BY <1>0, <2>2 DEF CacheIsYoung
  <2> QED
    BY <2>1, <2>3 DEF CacheIsYoung, Healthy, Window
<1>2. ASSUME NEW c \in Calls, Store(c) PROVE CacheIsYoung'
  <2>1. /\ pc[c] = "wait" /\ pending[c] = {} /\ cache' = found[c] /\ cacheLeft' = TTL
        /\ UNCHANGED history /\ Young(c)
    BY <1>2 DEF Store, AllAnswered, AnswersAreYoung
  <2>2. /\ Healthy(found[c]) => \A n \in Names : lastUp[n] <= Timeout
        /\ ~ Healthy(found[c]) => lastError <= Timeout
    BY <1>0, <2>1 DEF Young
  <2> QED
    BY <1>0, <2>1, <2>2 DEF CacheIsYoung, Healthy, Window, history
<1>3. CASE ClearCache
  BY <1>3 DEF ClearCache, CacheIsYoung, Fresh
<1>4. CASE ~ Tick /\ UNCHANGED <<cache, cacheLeft>>
  <2>1. /\ \A n \in Names : lastUp'[n] <= lastUp[n]
        /\ lastError' <= lastError
    BY <1>4, OnlyTickAges DEF NotOlder
  <2>2. (Fresh' <=> Fresh) /\ cache' = cache /\ cacheLeft' = cacheLeft
    BY <1>4 DEF Fresh
  <2>3. Fresh /\ CacheIsYoung =>
          /\ Healthy(cache) => \A n \in Names : lastUp[n] + cacheLeft <= Window
          /\ ~ Healthy(cache) => lastError + cacheLeft <= Window
    BY DEF CacheIsYoung
  <2>4. Fresh =>
          /\ Healthy(cache) => \A n \in Names : lastUp'[n] + cacheLeft <= Window
          /\ ~ Healthy(cache) => lastError' + cacheLeft <= Window
    <3>2. ASSUME NEW n \in Names, lastUp[n] + cacheLeft <= Window
          PROVE  lastUp'[n] + cacheLeft <= Window
      BY <1>0, <2>1, <3>2 DEF Window
    <3>3. lastError + cacheLeft <= Window => lastError' + cacheLeft <= Window
      BY <1>0, <2>1 DEF Window
    <3> QED
      BY <2>3, <3>2, <3>3, Zenon
  <2>5. (Healthy(cache)' <=> Healthy(cache)) /\ Window' = Window
    BY <2>2 DEF Healthy, Window
  <2>6. Fresh' =>
          /\ Healthy(cache)' => \A n \in Names : lastUp'[n] + cacheLeft' <= Window'
          /\ ~ Healthy(cache)' => lastError' + cacheLeft' <= Window'
    BY <2>2, <2>4, <2>5
  <2> QED
    BY <2>6 DEF CacheIsYoung
<1> QED
  BY <1>1, <1>2, <1>3, <1>4
     DEF Next, CallStep, CheckerStep, RegisterChecker, UnregisterChecker, ComponentChanges,
         CheckHit, CheckMiss, Snapshot, AnswersOk, AnswersError, CallerLeaves, vars

LEMMA Invariance == ASSUME ShortDeadlines PROVE Spec => []IInv
<1>1. Init => IInv
  <2> SUFFICES ASSUME Init PROVE IInv
    OBVIOUS
  <2>1. UpIsNow /\ AnswersAreYoung /\ CacheIsYoung
    BY DEF Init, UpIsNow, AnswersAreYoung, Young, CacheIsYoung, Fresh
  <2> QED
    BY <2>1, TypeInit DEF IInv
<1>2. IInv /\ [Next]_vars => IInv'
  BY TypeStep, UpIsNowStep, YoungStep, CacheStep DEF IInv
<1> QED
  BY <1>1, <1>2, PTL DEF Spec

-----------------------------------------------------------------------------
(* Whatever a call returns, from the cache or after checking, is not older  *)
(* than the window.                                                         *)
LEMMA AnswerIsYoung ==
    ASSUME ShortDeadlines, IInv, [Next]_vars, NEW c \in Calls, Returns(c)
    PROVE  /\ Healthy(Answer(c)) => \A n \in Names : lastUp[n] < Window
           /\ ~ Healthy(Answer(c)) => lastError < Window
<1>0. /\ Timeout \in Nat /\ TTL \in Nat /\ TTL > 0 /\ Window = Timeout + TTL
      /\ cacheLeft \in Nat /\ lastError \in Nat /\ left[c] \in Nat
      /\ \A n \in Names : lastUp[n] \in Nat
  BY TimesAreNat DEF IInv, TimeType, Window, ShortDeadlines
<1>1. CheckHit(c) \/ Store(c)
  <2>1. pc[c] # "done" /\ pc'[c] = "done"
    BY DEF Returns
  <2>2. ASSUME NEW d \in Calls, d # c, CheckHit(d) \/ CheckMiss(d) \/ Snapshot(d) \/ Store(d)
        PROVE  FALSE
    BY <2>1, <2>2 DEF CheckHit, CheckMiss, Snapshot, Store, IInv, CallType
  <2>3. ~ CheckMiss(c) /\ ~ Snapshot(c)
    BY <2>1 DEF CheckMiss, Snapshot, IInv, CallType
  <2>4. pc' # pc
    BY <2>1
  <2> QED
    BY <2>2, <2>3, <2>4
       DEF Next, CallStep, CheckerStep, RegisterChecker, UnregisterChecker, ComponentChanges,
           ClearCache, AnswersOk, AnswersError, CallerLeaves, Tick, vars, callVars
<1>2. CASE CheckHit(c)
  BY <1>0, <1>2 DEF CheckHit, Answer, IInv, CacheIsYoung, Fresh
<1>3. CASE Store(c)
  <2>1. pc[c] = "wait" /\ pending[c] = {} /\ Answer(c) = found[c] /\ Young(c)
    BY <1>3 DEF Store, AllAnswered, Answer, IInv, AnswersAreYoung
  <2> QED
    BY <1>0, <2>1 DEF Young
<1> QED
  BY <1>1, <1>2, <1>3

(* A 200 means that every component that has been registered for the whole  *)
(* window was up at some time in it (health.go:82-102, handlers.go:49-67).  *)
THEOREM ReadyMeansUp == ASSUME ShortDeadlines PROVE Spec => ReadyIsRecentlyUp
<1>1. IInv /\ [Next]_vars =>
        \A c \in Calls : Returns(c) /\ StatusCode(Answer(c)) = 200 =>
           \A n \in checkers : lastUp[n] < Window
  BY AnswerIsYoung DEF StatusCode, IInv, CallType
<1> QED
  BY <1>1, Invariance, PTL DEF ReadyIsRecentlyUp, Spec

(* A 503 means that some checker answered with an error within the window   *)
(* (health.go:82-102, 154-216).                                             *)
THEOREM NotReadyMeansError == ASSUME ShortDeadlines PROVE Spec => NotReadyHasCause
<1>1. IInv /\ [Next]_vars =>
        \A c \in Calls : Returns(c) /\ StatusCode(Answer(c)) = 503 => lastError < Window
  BY AnswerIsYoung DEF StatusCode
<1> QED
  BY <1>1, Invariance, PTL DEF NotReadyHasCause, Spec

=============================================================================
