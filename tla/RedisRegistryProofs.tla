------------------------- MODULE RedisRegistryProofs -------------------------
(***************************************************************************)
(* The registry over Redis for any number of processes, instances, names   *)
(* and calls, any TTL and any number of lost commands.                     *)
(***************************************************************************)
EXTENDS RedisRegistry, TLAPS

(* r.heartbeats holds every heartbeat that lives, under its own id, and     *)
(* nothing else; one that lives was started by a Register that returned.    *)
HeartbeatsKnown ==
    /\ \A g \in RegisterCalls :
          /\ hb[g] # "none" => pc[g] = "registered"
          /\ Live(g) => heartbeats[Handle[g]][Id[g]] = g
          /\ hb[g] = "beat" => g \in due
          /\ g \in due => hb[g] # "none"
    /\ \A h \in Handles, i \in Ids, g \in RegisterCalls :
          heartbeats[h][i] = g => Live(g) /\ Handle[g] = h /\ Id[g] = i

KeysNamed == \A i \in Ids : keyTTL[i] > 0 => keyName[i] \in Names

(* What a call noted when it was made stays so. *)
NotesHold ==
    /\ \A d \in DeregisterCalls : \A g \in before[d] : pc[g] \in Over
    /\ \A q \in DiscoverCalls : \A g \in before[q] : hb[g] # "none"

(* No Register of the id came after Deregister d or was under way. *)
Last(d) == \A g \in RegisterCalls : Id[g] = Id[d] => pc[g] = "idle" \/ g \in before[d]

Gone(d) ==
    /\ pc[d] \in {"get", "rem", "del", "deregistered"} /\ Last(d) =>
          heartbeats[Handle[d]][Id[d]] = Nothing
    /\ pc[d] = "deregistered" /\ failures = 0 /\ Handle[d] \in open /\ Last(d) =>
          keyTTL[Id[d]] = 0

(* Time left: a heartbeat that was lost costs one interval, one that is due *)
(* costs one more until it is sent.                                         *)
Due(g) == IF g \in due THEN 1 ELSE 0
KeyDue(g) == IF g \in due /\ hb[g] = "wait" THEN 1 ELSE 0

Stored(g) == keyTTL[Id[g]] > 0 /\ keyName[Id[g]] = Name[g]
Indexed(g) == Id[g] \in index[Name[g]]

Listed(g) ==
    /\ pc[g] = "idle" =>
          /\ \A n \in Names : Id[g] \notin index[n]
          /\ \A q \in DiscoverCalls : Id[g] \notin todo[q]
    /\ pc[g] \in {"add", "expire", "start"} => Stored(g) /\ keyTTL[Id[g]] >= TTL
    /\ pc[g] \in {"expire", "start"} => Indexed(g)
    /\ pc[g] = "start" => indexTTL[Name[g]] >= TTL
    /\ Owned(g) =>
          /\ Stored(g) /\ Indexed(g)
          /\ keyTTL[Id[g]] + failures + KeyDue(g) >= TTL
          /\ indexTTL[Name[g]] + failures + Due(g) >= TTL
    /\ \A q \in DiscoverCalls : pc[q] = "drop" => stale[q] # Id[g]

Good(g) ==
    /\ failures + 1 < TTL
    /\ Undisputed(g)
    /\ pc[g] \in {"idle", "add", "expire", "start"} \/ Owned(g)

GoodAreListed == \A g \in RegisterCalls : Good(g) => Listed(g)

Finds(q, g) == Owned(g) /\ Undisputed(g) /\ Name[g] = Name[q]

Complete(q) ==
    pc[q] \in {"next", "drop", "discovered"} /\ failures = 0 /\ Handle[q] \in open =>
        \A g \in before[q] : Finds(q, g) =>
            \/ <<Id[g], Name[g]>> \in found[q]
            \/ pc[q] # "discovered" /\ Id[g] \in todo[q]

IInv ==
    /\ TypeOK /\ KeysNamed
    /\ HeartbeatsKnown /\ NotesHold
    /\ \A d \in DeregisterCalls : Gone(d)
    /\ GoodAreListed
    /\ \A q \in DiscoverCalls : Complete(q)

-----------------------------------------------------------------------------
(* The state stays well formed: first what the commands do to Redis. *)

RedisType ==
    /\ keyTTL \in [Ids -> 0 .. Forever]
    /\ keyName \in [Ids -> Names \cup {Nothing}]
    /\ index \in [Names -> SUBSET Ids]
    /\ indexTTL \in [Names -> 0 .. Forever]
    /\ \A n \in Names : index[n] = {} <=> indexTTL[n] = 0
    /\ KeysNamed

Phases == Over \cup {"idle", "add", "expire", "start", "get", "rem", "del", "next", "drop"}

ProcessType ==
    /\ open \subseteq Handles
    /\ failures \in 0 .. MaxFailures
    /\ pc \in [Calls -> Phases]
    /\ heartbeats \in [Handles -> [Ids -> RegisterCalls \cup {Nothing}]]
    /\ hb \in [RegisterCalls -> {"none", "wait", "beat", "ended"}]
    /\ due \subseteq RegisterCalls

NoteType ==
    /\ found \in [DeregisterCalls \cup DiscoverCalls -> SUBSET (Ids \X Names)]
    /\ todo \in [DiscoverCalls -> SUBSET Ids]
    /\ stale \in [DiscoverCalls -> Ids \cup {Nothing}]
    /\ before \in [DeregisterCalls \cup DiscoverCalls -> SUBSET RegisterCalls]

Shape == RedisType /\ ProcessType /\ NoteType

LEMMA ShapeIsType == Shape <=> TypeOK /\ KeysNamed
BY DEF Shape, RedisType, ProcessType, NoteType, TypeOK, Phases

LEMMA RedisSet ==
    ASSUME RedisType, NEW i \in Ids, NEW n \in Names, Set(i, n)
    PROVE  RedisType'
<1>1. SetTTL \in 0 .. Forever
  BY RegistryConfig DEF SetTTL, Forever
<1> QED
  BY <1>1 DEF RedisType, KeysNamed, Set

LEMMA RedisSAdd ==
    ASSUME RedisType, NEW i \in Ids, NEW n \in Names, SAdd(n, i)
    PROVE  RedisType'
<1>1. Forever \in Nat \ {0} /\ Forever \in 0 .. Forever
  BY RegistryConfig DEF Forever
<1>2. indexTTL' \in [Names -> 0 .. Forever] /\ index' \in [Names -> SUBSET Ids]
  BY <1>1 DEF RedisType, SAdd
<1>3. \A m \in Names : index'[m] = {} <=> indexTTL'[m] = 0
  BY <1>1 DEF RedisType, SAdd
<1> QED
  BY <1>2, <1>3 DEF RedisType, KeysNamed, SAdd

LEMMA RedisSRem ==
    ASSUME RedisType, NEW i, NEW n \in Names, SRem(n, i)
    PROVE  RedisType'
<1>1. 0 \in 0 .. Forever
  BY RegistryConfig DEF Forever
<1>2. indexTTL' \in [Names -> 0 .. Forever] /\ index' \in [Names -> SUBSET Ids]
  BY <1>1 DEF RedisType, SRem
<1>3. \A m \in Names : index'[m] = {} <=> indexTTL'[m] = 0
  <2> TAKE m \in Names
  <2>1. CASE m # n
    BY <2>1 DEF RedisType, SRem
  <2>2. CASE m = n
    <3>1. /\ index'[n] = index[n] \ {i}
          /\ indexTTL'[n] = IF index[n] \subseteq {i} THEN 0 ELSE indexTTL[n]
      BY DEF RedisType, SRem
    <3>2. index[n] = {} => index[n] \subseteq {i}
      OBVIOUS
    <3> QED
      BY <2>2, <3>1, <3>2 DEF RedisType
  <2> QED
    BY <2>1, <2>2
<1> QED
  BY <1>2, <1>3 DEF RedisType, KeysNamed, SRem

LEMMA RedisDel ==
    ASSUME RedisType, NEW i \in Ids, Del(i)
    PROVE  RedisType'
<1>1. 0 \in 0 .. Forever
  BY RegistryConfig DEF Forever
<1> QED
  BY <1>1 DEF RedisType, KeysNamed, Del

LEMMA RefreshedType ==
    ASSUME NEW left \in 0 .. Forever
    PROVE  Refreshed(left) \in 0 .. Forever /\ (Refreshed(left) = 0 <=> left = 0)
BY RegistryConfig DEF Refreshed, Forever

LEMMA RedisExpireKey ==
    ASSUME RedisType, NEW i \in Ids, ExpireKey(i)
    PROVE  RedisType'
<1>1. keyTTL[i] \in 0 .. Forever
  BY DEF RedisType
<1>2. /\ Refreshed(keyTTL[i]) \in 0 .. Forever
      /\ Refreshed(keyTTL[i]) = 0 <=> keyTTL[i] = 0
  BY <1>1, RefreshedType
<1>3. keyTTL' \in [Ids -> 0 .. Forever]
  BY <1>2 DEF RedisType, ExpireKey
<1>4. \A j \in Ids : keyTTL'[j] > 0 => keyTTL[j] > 0
  BY <1>1, <1>2 DEF RedisType, ExpireKey
<1> QED
  BY <1>3, <1>4 DEF RedisType, KeysNamed, ExpireKey

LEMMA RedisExpireIndex ==
    ASSUME RedisType, NEW n \in Names, ExpireIndex(n)
    PROVE  RedisType'
<1>1. indexTTL[n] \in 0 .. Forever
  BY DEF RedisType
<1>2. /\ Refreshed(indexTTL[n]) \in 0 .. Forever
      /\ Refreshed(indexTTL[n]) = 0 <=> indexTTL[n] = 0
  BY <1>1, RefreshedType
<1>3. indexTTL' \in [Names -> 0 .. Forever]
  BY <1>2 DEF RedisType, ExpireIndex
<1>4. \A m \in Names : index'[m] = {} <=> indexTTL'[m] = 0
  BY <1>2 DEF RedisType, ExpireIndex
<1> QED
  BY <1>3, <1>4 DEF RedisType, KeysNamed, ExpireIndex

LEMMA RedisTick == RedisType /\ Tick => RedisType'
<1> SUFFICES ASSUME RedisType, Tick PROVE RedisType'
  OBVIOUS
<1>1. \A ttl \in 0 .. Forever : Left(ttl) \in 0 .. Forever /\ (ttl = 0 => Left(ttl) = 0)
  BY RegistryConfig DEF Left, Forever
<1>2. /\ \A i \in Ids : keyTTL'[i] = Left(keyTTL[i])
      /\ \A n \in Names : indexTTL'[n] = Left(indexTTL[n])
  BY DEF Tick
<1>3. keyTTL' \in [Ids -> 0 .. Forever]
  BY <1>1 DEF Tick, RedisType
<1>4. indexTTL' \in [Names -> 0 .. Forever]
  BY <1>1 DEF Tick, RedisType
<1>5. keyName' \in [Ids -> Names \cup {Nothing}]
  BY DEF Tick, RedisType
<1>6. index' \in [Names -> SUBSET Ids]
  BY DEF Tick, RedisType
<1>7. \A n \in Names : index'[n] = {} <=> indexTTL'[n] = 0
  <2> TAKE n \in Names
  <2>1. index'[n] = IF Left(indexTTL[n]) = 0 THEN {} ELSE index[n]
    BY DEF Tick
  <2>2. indexTTL[n] \in 0 .. Forever /\ (index[n] = {} <=> indexTTL[n] = 0)
    BY DEF RedisType
  <2> QED
    BY <1>1, <1>2, <2>1, <2>2
<1>8. KeysNamed'
  <2> SUFFICES ASSUME NEW i \in Ids, keyTTL'[i] > 0 PROVE keyName'[i] \in Names
    BY DEF KeysNamed
  <2>1. Left(keyTTL[i]) # 0 /\ keyTTL[i] \in 0 .. Forever
    BY <1>2, <1>3
       DEF RedisType
  <2>2. keyTTL[i] > 0
    BY <1>1, <2>1 DEF Forever
  <2>3. keyName'[i] = keyName[i]
    BY <2>1 DEF Tick
  <2> QED
    BY <2>2, <2>3 DEF RedisType, KeysNamed
<1> QED
  BY <1>3, <1>4, <1>5, <1>6, <1>7, <1>8 DEF RedisType

(* Every other step sends at most one command. *)
LEMMA RedisStep == Shape /\ [Next]_vars => RedisType'
<1> SUFFICES ASSUME Shape, [Next]_vars PROVE RedisType'
  OBVIOUS
<1>0. ASSUME UNCHANGED redisVars PROVE RedisType'
  BY <1>0 DEF Shape, redisVars, RedisType, KeysNamed
<1> USE RegistryConfig DEF Shape
<1>1. ASSUME NEW g \in RegisterCalls, RegisterSet(g) \/ RegisterGoesOn(g) \/ Heartbeat(g)
      PROVE  RedisType'
  <2>1. Id[g] \in Ids /\ Name[g] \in Names
    OBVIOUS
  <2>2. \/ UNCHANGED redisVars \/ Set(Id[g], Name[g]) \/ SAdd(Name[g], Id[g])
        \/ ExpireIndex(Name[g]) \/ ExpireKey(Id[g])
    BY <1>1 DEF RegisterGoesOn, Heartbeat, RegisterSet, RegisterAdd, RegisterExpire,
                RegisterStart, HeartbeatKey, HeartbeatIndex
  <2> QED
    BY <1>0, <2>1, <2>2, RedisSet, RedisSAdd, RedisExpireIndex, RedisExpireKey
<1>2. ASSUME NEW d \in DeregisterCalls, DeregisterStop(d) \/ DeregisterGoesOn(d)
      PROVE  RedisType'
  <2>1. Id[d] \in Ids
    OBVIOUS
  <2>2. CASE UNCHANGED redisVars
    BY <1>0, <2>2
  <2>3. CASE DeregisterRem(d) /\ \E e \in found[d] : SRem(e[2], Id[d])
    <3>1. PICK e \in found[d] : SRem(e[2], Id[d])
      BY <2>3
    <3>2. e[2] \in Names
      BY DEF NoteType
    <3> QED
      BY <3>1, <3>2, RedisSRem
  <2>4. CASE DeregisterDel(d) /\ Del(Id[d])
    BY <2>1, <2>4, RedisDel
  <2> QED
    BY <1>2, <2>2, <2>3, <2>4
       DEF DeregisterGoesOn, DeregisterStop, DeregisterGet, DeregisterRem, DeregisterDel,
           RemoveKey
<1>3. ASSUME NEW q \in DiscoverCalls, DiscoverMembers(q) \/ DiscoverGoesOn(q)
      PROVE  RedisType'
  <2>1. Name[q] \in Names
    OBVIOUS
  <2>2. UNCHANGED redisVars \/ SRem(Name[q], stale[q])
    BY <1>3 DEF DiscoverGoesOn, DiscoverMembers, DiscoverGet, DiscoverDrop, DiscoverReturn
  <2> QED
    BY <1>0, <2>1, <2>2, RedisSRem
<1>4. ASSUME NEW h \in Handles, Close(h) \/ Crash(h) PROVE RedisType'
  BY <1>0, <1>4 DEF Close, Crash
<1>5. ASSUME UNCHANGED vars PROVE RedisType'
  BY <1>0, <1>5 DEF vars
<1> QED
  BY <1>1, <1>2, <1>3, <1>4, <1>5, RedisTick DEF Next
(* What each process keeps. *)
LEMMA ProcessRegister ==
    ASSUME Shape, NEW g \in RegisterCalls
    PROVE  RegisterSet(g) \/ RegisterGoesOn(g) \/ Heartbeat(g) => ProcessType' /\ NoteType'
<1> USE RegistryConfig DEF Shape
<1>0. g \in Calls /\ Handle[g] \in Handles /\ Id[g] \in Ids
  BY DEF Calls
<1>1. ASSUME RegisterSet(g) \/ RegisterAdd(g) \/ RegisterExpire(g)
      PROVE  ProcessType' /\ NoteType'
  <2>1. UNCHANGED <<handleVars, callVars, before>>
    BY <1>1 DEF RegisterSet, RegisterAdd, RegisterExpire
  <2>2. failures' \in 0 .. MaxFailures
    BY <1>1 DEF RegisterSet, RegisterAdd, RegisterExpire, Answered, Lost, ProcessType
  <2>3. pc' \in [Calls -> Phases]
    BY <1>0, <1>1 DEF RegisterSet, RegisterAdd, RegisterExpire, Goto, ProcessType, Phases, Over
  <2> QED
    BY <2>1, <2>2, <2>3 DEF ProcessType, NoteType, handleVars, callVars
<1>2. ASSUME RegisterStart(g) PROVE ProcessType' /\ NoteType'
  <2>1. heartbeats[Handle[g]][Id[g]] \in RegisterCalls \cup {Nothing}
    BY <1>0 DEF ProcessType
  <2>2. hb' \in [RegisterCalls -> {"none", "wait", "beat", "ended"}]
    BY <1>2, <2>1 DEF RegisterStart, EndHeartbeat, ProcessType
  <2>3. heartbeats' \in [Handles -> [Ids -> RegisterCalls \cup {Nothing}]]
    BY <1>0, <1>2 DEF RegisterStart, ProcessType
  <2>4. pc' \in [Calls -> Phases]
    BY <1>0, <1>2 DEF RegisterStart, Goto, ProcessType, Phases, Over
  <2> QED
    BY <1>2, <2>2, <2>3, <2>4 DEF RegisterStart, ProcessType, NoteType, callVars
<1>3. ASSUME Heartbeat(g) PROVE ProcessType' /\ NoteType'
  <2>1. hb' \in [RegisterCalls -> {"none", "wait", "beat", "ended"}]
    BY <1>3 DEF Heartbeat, HeartbeatKey, HeartbeatIndex, ProcessType
  <2>2. failures' \in 0 .. MaxFailures
    BY <1>3 DEF Heartbeat, HeartbeatKey, HeartbeatIndex, Answered, Lost, ProcessType
  <2>3. due' \subseteq RegisterCalls
    BY <1>3 DEF Heartbeat, HeartbeatKey, HeartbeatIndex, ProcessType
  <2>4. UNCHANGED <<open, heartbeats, pc, callVars, before>>
    BY <1>3 DEF Heartbeat, HeartbeatKey, HeartbeatIndex
  <2> QED
    BY <2>1, <2>2, <2>3, <2>4 DEF ProcessType, NoteType, callVars
<1> QED
  BY <1>1, <1>2, <1>3 DEF RegisterGoesOn

LEMMA ProcessDeregister ==
    ASSUME Shape, NEW d \in DeregisterCalls
    PROVE  DeregisterStop(d) \/ DeregisterGoesOn(d) => ProcessType' /\ NoteType'
<1> USE RegistryConfig DEF Shape
<1>0. d \in Calls /\ Handle[d] \in Handles /\ Id[d] \in Ids
  BY DEF Calls
<1>1. ASSUME DeregisterStop(d) PROVE ProcessType' /\ NoteType'
  <2>1. heartbeats[Handle[d]][Id[d]] \in RegisterCalls \cup {Nothing}
    BY <1>0 DEF ProcessType
  <2>2. hb' \in [RegisterCalls -> {"none", "wait", "beat", "ended"}]
    BY <1>1, <2>1 DEF DeregisterStop, EndHeartbeat, ProcessType
  <2>3. heartbeats' \in [Handles -> [Ids -> RegisterCalls \cup {Nothing}]]
    BY <1>0, <1>1 DEF DeregisterStop, ProcessType
  <2>4. pc' \in [Calls -> Phases]
    BY <1>0, <1>1 DEF DeregisterStop, Goto, ProcessType, Phases
  <2>5. before' \in [DeregisterCalls \cup DiscoverCalls -> SUBSET RegisterCalls]
    BY <1>1 DEF DeregisterStop, NoteType
  <2> QED
    BY <1>1, <2>2, <2>3, <2>4, <2>5 DEF DeregisterStop, ProcessType, NoteType, callVars
<1>2. ASSUME DeregisterGoesOn(d) PROVE ProcessType' /\ NoteType'
  <2>1. UNCHANGED <<handleVars, todo, stale, before>>
    BY <1>2 DEF DeregisterGoesOn, DeregisterGet, DeregisterRem, DeregisterDel, callVars
  <2>2. failures' \in 0 .. MaxFailures
    BY <1>2 DEF DeregisterGoesOn, DeregisterGet, DeregisterRem, DeregisterDel, Answered, Lost,
                ProcessType
  <2>3. pc' \in [Calls -> Phases]
    BY <1>0, <1>2 DEF DeregisterGoesOn, DeregisterGet, DeregisterRem, DeregisterDel, Goto,
                      ProcessType, Phases, Over
  <2>4. found' \in [DeregisterCalls \cup DiscoverCalls -> SUBSET (Ids \X Names)]
    <3>1. CASE UNCHANGED found
      BY <3>1 DEF NoteType
    <3>2. CASE /\ keyTTL[Id[d]] # 0
               /\ found' = [found EXCEPT ![d] = {<<Id[d], keyName[Id[d]]>>}]
      <4>1. keyTTL[Id[d]] \in 0 .. Forever
        BY <1>0 DEF RedisType
      <4>2. keyTTL[Id[d]] > 0
        BY <3>2, <4>1 DEF Forever
      <4>3. <<Id[d], keyName[Id[d]]>> \in Ids \X Names
        BY <1>0, <4>2 DEF RedisType, KeysNamed
      <4> QED
        BY <3>2, <4>3 DEF NoteType
    <3> QED
      BY <1>2, <3>1, <3>2 DEF DeregisterGoesOn, DeregisterGet, DeregisterRem, DeregisterDel,
                              callVars
  <2> QED
    BY <2>1, <2>2, <2>3, <2>4 DEF ProcessType, NoteType, handleVars
<1> QED
  BY <1>1, <1>2

LEMMA ProcessDiscover ==
    ASSUME Shape, NEW q \in DiscoverCalls
    PROVE  DiscoverMembers(q) \/ DiscoverGoesOn(q) => ProcessType' /\ NoteType'
<1> USE RegistryConfig DEF Shape
<1>0. q \in Calls /\ Name[q] \in Names
  BY DEF Calls
<1> SUFFICES ASSUME DiscoverMembers(q) \/ DiscoverGoesOn(q) PROVE ProcessType' /\ NoteType'
  OBVIOUS
<1> USE DEF DiscoverGoesOn
<1>1. UNCHANGED handleVars
  BY DEF DiscoverMembers, DiscoverGet, DiscoverDrop, DiscoverReturn
<1>2. failures' \in 0 .. MaxFailures
  BY DEF DiscoverMembers, DiscoverGet, DiscoverDrop, DiscoverReturn, Answered, Lost, ProcessType
<1>3. pc' \in [Calls -> Phases]
  BY <1>0 DEF DiscoverMembers, DiscoverGet, DiscoverDrop, DiscoverReturn, Goto, ProcessType,
              Phases, Over
<1>4. before' \in [DeregisterCalls \cup DiscoverCalls -> SUBSET RegisterCalls]
  BY DEF DiscoverMembers, DiscoverGet, DiscoverDrop, DiscoverReturn, NoteType
<1>5. todo' \in [DiscoverCalls -> SUBSET Ids]
  <2>1. index[Name[q]] \subseteq Ids /\ todo[q] \subseteq Ids
    BY <1>0 DEF RedisType, NoteType
  <2> QED
    BY <2>1 DEF DiscoverMembers, DiscoverGet, DiscoverDrop, DiscoverReturn, Advance, NoteType,
                callVars
<1>6. stale' \in [DiscoverCalls -> Ids \cup {Nothing}]
  BY DEF DiscoverMembers, DiscoverGet, DiscoverDrop, DiscoverReturn, NoteType, callVars
<1>7. found' \in [DeregisterCalls \cup DiscoverCalls -> SUBSET (Ids \X Names)]
  <2>1. CASE UNCHANGED found
    BY <2>1 DEF NoteType
  <2>2. CASE DiscoverGet(q) /\ ~ UNCHANGED found
    <3>1. PICK i \in todo[q] :
             keyTTL[i] > 0 /\ found' = [found EXCEPT ![q] = @ \cup {<<i, keyName[i]>>}]
      BY <2>2 DEF DiscoverGet
    <3>2. <<i, keyName[i]>> \in Ids \X Names
      BY <3>1 DEF RedisType, KeysNamed, NoteType
    <3> QED
      BY <3>1, <3>2 DEF NoteType
  <2> QED
    BY <2>1, <2>2 DEF DiscoverMembers, DiscoverDrop, DiscoverReturn, callVars
<1> QED
  BY <1>1, <1>2, <1>3, <1>4, <1>5, <1>6, <1>7 DEF ProcessType, NoteType, handleVars

LEMMA ProcessEnds ==
    ASSUME Shape
    PROVE  /\ \A h \in Handles : Close(h) \/ Crash(h) => ProcessType' /\ NoteType'
           /\ Tick => ProcessType' /\ NoteType'
           /\ UNCHANGED vars => ProcessType' /\ NoteType'
<1> USE DEF Shape
<1>1. ASSUME NEW h \in Handles, Close(h) PROVE ProcessType' /\ NoteType'
  BY <1>1 DEF Close, ProcessType, NoteType, callVars
<1>2. ASSUME NEW h \in Handles, Crash(h) PROVE ProcessType' /\ NoteType'
  <2>1. pc' \in [Calls -> Phases]
    BY <1>2 DEF Crash, ProcessType, Phases, Over
  <2> QED
    BY <1>2, <2>1 DEF Crash, ProcessType, NoteType, callVars
<1>3. ASSUME Tick PROVE ProcessType' /\ NoteType'
  BY <1>3 DEF Tick, ProcessType, NoteType, callVars
<1>4. ASSUME UNCHANGED vars PROVE ProcessType' /\ NoteType'
  BY <1>4 DEF vars, handleVars, callVars, ProcessType, NoteType
<1> QED
  BY <1>1, <1>2, <1>3, <1>4

LEMMA ShapeInit == Init => Shape
<1> SUFFICES ASSUME Init PROVE Shape
  OBVIOUS
<1>1. 0 \in 0 .. Forever /\ 0 \in 0 .. MaxFailures
  BY RegistryConfig DEF Forever
<1>2. RedisType
  BY <1>1 DEF Init, RedisType, KeysNamed
<1>3. ProcessType
  BY <1>1 DEF Init, ProcessType, Phases
<1>4. NoteType
  BY DEF Init, NoteType
<1> QED
  BY <1>2, <1>3, <1>4 DEF Shape

LEMMA ShapeStep == Shape /\ [Next]_vars => Shape'
BY RedisStep, ProcessRegister, ProcessDeregister, ProcessDiscover, ProcessEnds DEF Next, Shape

(* The registry's state and Redis stay well formed. *)
THEOREM TypeCorrect == Spec => []TypeOK
BY ShapeInit, ShapeStep, ShapeIsType, PTL DEF Spec
-----------------------------------------------------------------------------
(* The heartbeats. *)

LEMMA HeartbeatsRegister ==
    ASSUME Shape, HeartbeatsKnown, NEW g \in RegisterCalls
    PROVE  RegisterSet(g) \/ RegisterGoesOn(g) \/ Heartbeat(g) => HeartbeatsKnown'
<1> USE RegistryConfig, CallsDisjoint DEF Shape, ProcessType
<1>0. g \in Calls /\ RegisterCalls \subseteq Calls /\ Handle[g] \in Handles /\ Id[g] \in Ids
  BY DEF Calls
<1>1. ASSUME RegisterSet(g) \/ RegisterAdd(g) \/ RegisterExpire(g) PROVE HeartbeatsKnown'
  <2>1. /\ UNCHANGED <<hb, heartbeats, due>> /\ pc[g] # "registered"
        /\ \A p \in RegisterCalls : p # g => pc'[p] = pc[p]
    BY <1>0, <1>1 DEF RegisterSet, RegisterAdd, RegisterExpire, handleVars, Goto
  <2> QED
    BY <2>1 DEF HeartbeatsKnown, Live
<1>2. ASSUME RegisterStart(g) PROVE HeartbeatsKnown'
  <2> DEFINE h == Handle[g]
             old == heartbeats[h][Id[g]]
  <2>1. /\ pc[g] = "start" /\ hb[g] = "none" /\ pc'[g] = "registered" /\ hb'[g] = "wait"
        /\ due' = due
        /\ \A p \in RegisterCalls : p # g => pc'[p] = pc[p]
    BY <1>0, <1>2 DEF RegisterStart, Goto, HeartbeatsKnown, EndHeartbeat
  <2>2. old \in RegisterCalls \cup {Nothing} /\ old # g
    BY <1>0, <2>1 DEF HeartbeatsKnown, Live
  <2>3. \A p \in RegisterCalls : p # g => hb'[p] = IF p = old THEN "ended" ELSE hb[p]
    BY <1>2, <2>2 DEF RegisterStart, EndHeartbeat
  <2>4. \A k \in Handles, i \in Ids :
           heartbeats'[k][i] = IF k = h /\ i = Id[g] THEN g ELSE heartbeats[k][i]
    BY <1>0, <1>2 DEF RegisterStart
  <2>5. old # Nothing => Handle[old] = h /\ Id[old] = Id[g] /\ Live(old)
    BY <1>0 DEF HeartbeatsKnown
  <2>6. \A p \in RegisterCalls :
          /\ hb'[p] # "none" => pc'[p] = "registered"
          /\ Live(p)' => heartbeats'[Handle[p]][Id[p]] = p
          /\ hb'[p] = "beat" => p \in due'
          /\ p \in due' => hb'[p] # "none"
    <3> SUFFICES ASSUME NEW p \in RegisterCalls
                 PROVE  /\ hb'[p] # "none" => pc'[p] = "registered"
                        /\ Live(p)' => heartbeats'[Handle[p]][Id[p]] = p
                        /\ hb'[p] = "beat" => p \in due'
                        /\ p \in due' => hb'[p] # "none"
      OBVIOUS
    <3>0. Handle[p] \in Handles /\ Id[p] \in Ids
      BY <1>0
    <3>1. CASE p = g
      BY <1>0, <2>1, <2>4, <3>1 DEF HeartbeatsKnown
    <3>2. CASE p # g /\ p = old
      BY <1>0, <2>1, <2>3, <2>5, <3>2 DEF HeartbeatsKnown, Live
    <3>3. CASE p # g /\ p # old
      <4>1. hb'[p] = hb[p] /\ pc'[p] = pc[p]
        BY <2>1, <2>3, <3>3
      <4>2. Live(p) => ~ (Handle[p] = h /\ Id[p] = Id[g])
        BY <3>3 DEF HeartbeatsKnown
      <4> QED
        BY <2>1, <2>4, <3>0, <4>1, <4>2 DEF HeartbeatsKnown, Live
    <3> QED
      BY <3>1, <3>2, <3>3
  <2>7. ASSUME NEW k \in Handles, NEW i \in Ids, NEW p \in RegisterCalls,
               heartbeats'[k][i] = p
        PROVE  Live(p)' /\ Handle[p] = k /\ Id[p] = i
    <3>1. CASE k = h /\ i = Id[g]
      BY <2>1, <2>4, <2>7, <3>1 DEF Live
    <3>2. CASE ~ (k = h /\ i = Id[g])
      <4>1. heartbeats[k][i] = p
        BY <2>4, <2>7, <3>2
      <4>2. Live(p) /\ Handle[p] = k /\ Id[p] = i
        BY <4>1 DEF HeartbeatsKnown
      <4>3. p # old /\ p # g
        BY <2>1, <2>5, <3>2, <4>2, CallsDisjoint DEF Live
      <4> QED
        BY <2>3, <4>2, <4>3 DEF Live
    <3> QED
      BY <3>1, <3>2
  <2> QED
    BY <2>6, <2>7 DEF HeartbeatsKnown
<1>3. ASSUME Heartbeat(g) PROVE HeartbeatsKnown'
  <2>1. /\ UNCHANGED <<heartbeats, pc>>
        /\ hb[g] \in {"wait", "beat"} /\ hb'[g] \in {"wait", "beat"}
        /\ hb'[g] = "beat" => g \in due'
        /\ due' \subseteq due
        /\ \A p \in RegisterCalls : p # g => hb'[p] = hb[p] /\ (p \in due' <=> p \in due)
    BY <1>3 DEF Heartbeat, HeartbeatKey, HeartbeatIndex
  <2>2. \A p \in RegisterCalls : Live(p)' <=> Live(p)
    BY <2>1 DEF Live
  <2>3. \A p \in RegisterCalls :
          /\ hb'[p] # "none" => pc'[p] = "registered"
          /\ hb'[p] = "beat" => p \in due'
          /\ p \in due' => hb'[p] # "none"
    <3> TAKE p \in RegisterCalls
    <3>1. CASE p = g
      BY <2>1, <3>1 DEF HeartbeatsKnown
    <3>2. CASE p # g
      BY <2>1, <3>2 DEF HeartbeatsKnown
    <3> QED
      BY <3>1, <3>2
  <2> QED
    BY <2>1, <2>2, <2>3 DEF HeartbeatsKnown
<1> QED
  BY <1>1, <1>2, <1>3 DEF RegisterGoesOn

LEMMA HeartbeatsStop ==
    ASSUME Shape, HeartbeatsKnown, NEW d \in DeregisterCalls, DeregisterStop(d)
    PROVE  HeartbeatsKnown'
<1> USE RegistryConfig, CallsDisjoint DEF Shape, ProcessType
<1>0. /\ RegisterCalls \subseteq Calls /\ d \notin RegisterCalls
      /\ Handle[d] \in Handles /\ Id[d] \in Ids
  BY DEF Calls
<1> DEFINE old == heartbeats[Handle[d]][Id[d]]
<1>1. old \in RegisterCalls \cup {Nothing}
  BY <1>0
<1>2. \A p \in RegisterCalls : hb'[p] = (IF p = old THEN "ended" ELSE hb[p]) /\ pc'[p] = pc[p]
  BY <1>0, <1>1 DEF DeregisterStop, EndHeartbeat, Goto
<1>3. \A k \in Handles, i \in Ids :
         heartbeats'[k][i] = IF k = Handle[d] /\ i = Id[d] THEN Nothing ELSE heartbeats[k][i]
  BY <1>0 DEF DeregisterStop
<1>4. due' = due
  BY DEF DeregisterStop
<1>5. old # Nothing => Handle[old] = Handle[d] /\ Id[old] = Id[d] /\ Live(old)
  BY <1>0 DEF HeartbeatsKnown
<1>6. ASSUME NEW p \in RegisterCalls
      PROVE  /\ hb'[p] # "none" => pc'[p] = "registered"
             /\ Live(p)' => heartbeats'[Handle[p]][Id[p]] = p
             /\ hb'[p] = "beat" => p \in due'
             /\ p \in due' => hb'[p] # "none"
  <2>0. Handle[p] \in Handles /\ Id[p] \in Ids
    BY <1>0
  <2>1. CASE p = old
    BY <1>2, <1>4, <1>5, <2>1 DEF HeartbeatsKnown, Live
  <2>2. CASE p # old
    <3>1. hb'[p] = hb[p] /\ pc'[p] = pc[p]
      BY <1>2, <2>2
    <3>2. Live(p) => ~ (Handle[p] = Handle[d] /\ Id[p] = Id[d])
      BY <2>2 DEF HeartbeatsKnown
    <3> QED
      BY <1>3, <1>4, <2>0, <3>1, <3>2 DEF HeartbeatsKnown, Live
  <2> QED
    BY <2>1, <2>2
<1>7. ASSUME NEW k \in Handles, NEW i \in Ids, NEW p \in RegisterCalls, heartbeats'[k][i] = p
      PROVE  Live(p)' /\ Handle[p] = k /\ Id[p] = i
  <2>1. heartbeats[k][i] = p /\ ~ (k = Handle[d] /\ i = Id[d])
    BY <1>3, <1>7, CallsDisjoint
  <2>2. Live(p) /\ Handle[p] = k /\ Id[p] = i
    BY <2>1 DEF HeartbeatsKnown
  <2>3. p # old
    BY <1>5, <2>1, <2>2, CallsDisjoint
  <2> QED
    BY <1>2, <2>2, <2>3 DEF Live
<1> QED
  BY <1>6, <1>7 DEF HeartbeatsKnown

LEMMA HeartbeatsEnd ==
    ASSUME Shape, HeartbeatsKnown, NEW h \in Handles, Close(h) \/ Crash(h)
    PROVE  HeartbeatsKnown'
<1> USE RegistryConfig, CallsDisjoint DEF Shape, ProcessType
<1>0. RegisterCalls \subseteq Calls
  BY DEF Calls
<1>1. /\ due' = due
      /\ \A k \in Handles, i \in Ids :
            heartbeats'[k][i] = IF k = h THEN Nothing ELSE heartbeats[k][i]
  BY DEF Close, Crash
<1>2. \A p \in RegisterCalls : pc[p] = "registered" => pc'[p] = "registered"
  BY <1>0 DEF Close, Crash, Over
<1>3. \A p \in RegisterCalls : hb'[p] = IF Handle[p] = h /\ Live(p) THEN "ended" ELSE hb[p]
  <2>1. CASE Crash(h)
    BY <2>1 DEF Crash
  <2>2. CASE Close(h)
    <3> TAKE p \in RegisterCalls
    <3>1. hb'[p] = IF \E i \in Ids : heartbeats[h][i] = p THEN "ended" ELSE hb[p]
      BY <2>2 DEF Close
    <3>2. (\E i \in Ids : heartbeats[h][i] = p) => Handle[p] = h /\ Live(p)
      BY CallsDisjoint DEF HeartbeatsKnown
    <3>3. Handle[p] = h /\ Live(p) => heartbeats[h][Id[p]] = p /\ Id[p] \in Ids
      BY DEF HeartbeatsKnown
    <3> QED
      BY <3>1, <3>2, <3>3
  <2> QED
    BY <2>1, <2>2
<1>4. ASSUME NEW p \in RegisterCalls
      PROVE  /\ hb'[p] # "none" => pc'[p] = "registered"
             /\ Live(p)' => heartbeats'[Handle[p]][Id[p]] = p
             /\ hb'[p] = "beat" => p \in due'
             /\ p \in due' => hb'[p] # "none"
  <2>1. Handle[p] \in Handles /\ Id[p] \in Ids
    BY <1>0
  <2>2. hb'[p] = "ended" \/ hb'[p] = hb[p]
    BY <1>3
  <2>3. Live(p)' => Live(p) /\ Handle[p] # h
    BY <1>3 DEF Live
  <2> QED
    BY <1>1, <1>2, <1>3, <2>1, <2>2, <2>3 DEF HeartbeatsKnown, Live
<1>5. ASSUME NEW k \in Handles, NEW i \in Ids, NEW p \in RegisterCalls, heartbeats'[k][i] = p
      PROVE  Live(p)' /\ Handle[p] = k /\ Id[p] = i
  <2>1. k # h /\ heartbeats[k][i] = p
    BY <1>1, <1>5, CallsDisjoint
  <2>2. Live(p) /\ Handle[p] = k /\ Id[p] = i
    BY <2>1 DEF HeartbeatsKnown
  <2> QED
    BY <1>3, <2>1, <2>2 DEF Live
<1> QED
  BY <1>4, <1>5 DEF HeartbeatsKnown

LEMMA HeartbeatsStep == Shape /\ HeartbeatsKnown /\ [Next]_vars => HeartbeatsKnown'
<1> SUFFICES ASSUME Shape, HeartbeatsKnown, [Next]_vars PROVE HeartbeatsKnown'
  OBVIOUS
<1>0. RegisterCalls \subseteq Calls
  BY DEF Calls
<1>1. ASSUME UNCHANGED <<heartbeats, hb, due>>, \A p \in RegisterCalls : pc'[p] = pc[p]
      PROVE  HeartbeatsKnown'
  BY <1>1 DEF HeartbeatsKnown, Live
<1>2. ASSUME NEW d \in DeregisterCalls, DeregisterGoesOn(d) PROVE HeartbeatsKnown'
  <2>1. \A p \in RegisterCalls : pc'[p] = pc[p]
    BY <1>0, <1>2, CallsDisjoint
       DEF DeregisterGoesOn, DeregisterGet, DeregisterRem, DeregisterDel, Goto, Shape, ProcessType
  <2> QED
    BY <1>1, <1>2, <2>1
       DEF DeregisterGoesOn, DeregisterGet, DeregisterRem, DeregisterDel, handleVars
<1>3. ASSUME NEW q \in DiscoverCalls, DiscoverMembers(q) \/ DiscoverGoesOn(q)
      PROVE  HeartbeatsKnown'
  <2>1. \A p \in RegisterCalls : pc'[p] = pc[p]
    BY <1>0, <1>3, CallsDisjoint
       DEF DiscoverGoesOn, DiscoverMembers, DiscoverGet, DiscoverDrop, DiscoverReturn, Goto,
           Shape, ProcessType
  <2> QED
    BY <1>1, <1>3, <2>1
       DEF DiscoverGoesOn, DiscoverMembers, DiscoverGet, DiscoverDrop, DiscoverReturn, handleVars
<1>4. ASSUME Tick PROVE HeartbeatsKnown'
  <2>1. /\ UNCHANGED <<heartbeats, hb, pc>> /\ due' = {g \in RegisterCalls : Live(g)}
        /\ \A g \in RegisterCalls : Live(g) => g \notin due
    BY <1>4 DEF Tick
  <2> QED
    BY <2>1 DEF HeartbeatsKnown, Live
<1>5. ASSUME UNCHANGED vars PROVE HeartbeatsKnown'
  BY <1>1, <1>5 DEF vars, handleVars
<1> QED
  BY <1>2, <1>3, <1>4, <1>5, HeartbeatsRegister, HeartbeatsStop, HeartbeatsEnd DEF Next
-----------------------------------------------------------------------------
(* What a step may never do: a call does not go back, a process does not    *)
(* come back, a heartbeat starts once, and a call's note is made once.      *)

OnlyForward ==
    /\ \A p \in Calls : pc[p] \in Over => pc'[p] = pc[p]
    /\ \A p \in Calls : pc[p] # "idle" => pc'[p] # "idle"
    /\ \A p \in DeregisterCalls \cup DiscoverCalls : pc[p] # "idle" => before'[p] = before[p]
    /\ \A g \in RegisterCalls : hb[g] # "none" => hb'[g] # "none" /\ (Live(g)' => Live(g))
    /\ open' \subseteq open
    /\ failures' >= failures

LEMMA StepsForward == Shape /\ HeartbeatsKnown /\ [Next]_vars => OnlyForward
<1> SUFFICES ASSUME Shape, HeartbeatsKnown, [Next]_vars PROVE OnlyForward
  OBVIOUS
<1> USE RegistryConfig, CallsDisjoint DEF Shape, ProcessType
<1>0. /\ RegisterCalls \subseteq Calls /\ DeregisterCalls \subseteq Calls
      /\ DiscoverCalls \subseteq Calls /\ failures \in Nat
  BY DEF Calls
<1>1. ASSUME NEW p \in Calls, pc[p] \notin Over, NEW phase, phase # "idle",
             Goto(p, phase) \/ UNCHANGED pc
      PROVE  /\ \A r \in Calls : pc[r] \in Over => pc'[r] = pc[r]
             /\ \A r \in Calls : pc[r] # "idle" => pc'[r] # "idle"
  BY <1>1 DEF Goto
<1>2. ASSUME NEW g \in RegisterCalls, RegisterSet(g) \/ RegisterGoesOn(g) \/ Heartbeat(g)
      PROVE  OnlyForward
  <2>1. before' = before /\ open' = open
    BY <1>2 DEF RegisterGoesOn, Heartbeat, RegisterSet, RegisterAdd, RegisterExpire,
                RegisterStart, HeartbeatKey, HeartbeatIndex, handleVars
  <2>2. failures' >= failures
    BY <1>0, <1>2 DEF RegisterGoesOn, Heartbeat, RegisterSet, RegisterAdd, RegisterExpire,
                RegisterStart, HeartbeatKey, HeartbeatIndex, Answered, Lost
  <2>3. \/ UNCHANGED pc
        \/ pc[g] \notin Over /\ \E phase : phase # "idle" /\ Goto(g, phase)
    BY <1>2 DEF RegisterGoesOn, Heartbeat, RegisterSet, RegisterAdd, RegisterExpire,
                RegisterStart, HeartbeatKey, HeartbeatIndex, Over
  <2>4. /\ \A r \in Calls : pc[r] \in Over => pc'[r] = pc[r]
        /\ \A r \in Calls : pc[r] # "idle" => pc'[r] # "idle"
    <3>1. CASE UNCHANGED pc
      BY <3>1
    <3>2. CASE pc[g] \notin Over /\ \E phase : phase # "idle" /\ Goto(g, phase)
      BY <1>0, <1>1, <3>2
    <3> QED
      BY <2>3, <3>1, <3>2
  <2>5. \A r \in RegisterCalls : hb[r] # "none" => hb'[r] # "none" /\ (Live(r)' => Live(r))
    <3>1. CASE UNCHANGED hb
      BY <3>1 DEF Live
    <3>2. CASE Heartbeat(g)
      BY <3>2 DEF Heartbeat, HeartbeatKey, HeartbeatIndex, Live
    <3>3. CASE RegisterStart(g)
      <4>1. hb[g] = "none"
        BY <3>3 DEF RegisterStart, HeartbeatsKnown
      <4>2. \A r \in RegisterCalls : r # g => hb'[r] \in {"ended", hb[r]}
        BY <3>3 DEF RegisterStart, EndHeartbeat
      <4> QED
        BY <4>1, <4>2 DEF Live
    <3> QED
      BY <1>2, <3>1, <3>2, <3>3 DEF RegisterGoesOn, RegisterSet, RegisterAdd, RegisterExpire,
                                    handleVars
  <2> QED
    BY <2>1, <2>2, <2>4, <2>5 DEF OnlyForward
<1>3. ASSUME NEW d \in DeregisterCalls, DeregisterStop(d) \/ DeregisterGoesOn(d)
      PROVE  OnlyForward
  <2>1. open' = open
    BY <1>3 DEF DeregisterGoesOn, DeregisterStop, DeregisterGet, DeregisterRem, DeregisterDel,
                handleVars
  <2>2. failures' >= failures
    BY <1>0, <1>3 DEF DeregisterGoesOn, DeregisterStop, DeregisterGet, DeregisterRem,
                DeregisterDel, Answered, Lost
  <2>3. pc[d] \notin Over /\ \E phase : phase # "idle" /\ Goto(d, phase)
    BY <1>3 DEF DeregisterGoesOn, DeregisterStop, DeregisterGet, DeregisterRem, DeregisterDel,
                Over
  <2>4. /\ \A r \in Calls : pc[r] \in Over => pc'[r] = pc[r]
        /\ \A r \in Calls : pc[r] # "idle" => pc'[r] # "idle"
    BY <1>0, <1>1, <2>3
  <2>5. \A r \in RegisterCalls : hb'[r] \in {"ended", hb[r]}
    BY <1>3 DEF DeregisterGoesOn, DeregisterStop, DeregisterGet, DeregisterRem, DeregisterDel,
                handleVars, EndHeartbeat
  <2>6. \A r \in RegisterCalls : hb[r] # "none" => hb'[r] # "none" /\ (Live(r)' => Live(r))
    BY <2>5 DEF Live
  <2>7. \A p \in DeregisterCalls \cup DiscoverCalls : pc[p] # "idle" => before'[p] = before[p]
    BY <1>3 DEF DeregisterGoesOn, DeregisterStop, DeregisterGet, DeregisterRem, DeregisterDel,
                NoteType
  <2> QED
    BY <2>1, <2>2, <2>4, <2>6, <2>7 DEF OnlyForward
<1>4. ASSUME NEW q \in DiscoverCalls, DiscoverMembers(q) \/ DiscoverGoesOn(q)
      PROVE  OnlyForward
  <2>1. open' = open /\ hb' = hb
    BY <1>4 DEF DiscoverGoesOn, DiscoverMembers, DiscoverGet, DiscoverDrop, DiscoverReturn,
                handleVars
  <2>2. failures' >= failures
    BY <1>0, <1>4 DEF DiscoverGoesOn, DiscoverMembers, DiscoverGet, DiscoverDrop,
                DiscoverReturn, Answered, Lost
  <2>3. pc[q] \notin Over /\ (UNCHANGED pc \/ \E phase : phase # "idle" /\ Goto(q, phase))
    BY <1>4 DEF DiscoverGoesOn, DiscoverMembers, DiscoverGet, DiscoverDrop, DiscoverReturn, Over
  <2>4. /\ \A r \in Calls : pc[r] \in Over => pc'[r] = pc[r]
        /\ \A r \in Calls : pc[r] # "idle" => pc'[r] # "idle"
    <3>1. CASE UNCHANGED pc
      BY <3>1
    <3>2. CASE \E phase : phase # "idle" /\ Goto(q, phase)
      BY <1>0, <1>1, <2>3, <3>2
    <3> QED
      BY <2>3, <3>1, <3>2
  <2>5. \A p \in DeregisterCalls \cup DiscoverCalls : pc[p] # "idle" => before'[p] = before[p]
    BY <1>4 DEF DiscoverGoesOn, DiscoverMembers, DiscoverGet, DiscoverDrop, DiscoverReturn,
                NoteType
  <2> QED
    BY <2>1, <2>2, <2>4, <2>5 DEF OnlyForward, Live
<1>5. ASSUME NEW h \in Handles, Close(h) \/ Crash(h) PROVE OnlyForward
  <2>1. open' \subseteq open /\ failures' = failures /\ before' = before
    BY <1>5 DEF Close, Crash
  <2>2. \A r \in RegisterCalls : hb'[r] \in {"ended", hb[r]}
    BY <1>5 DEF Close, Crash
  <2>3. \A r \in RegisterCalls : hb[r] # "none" => hb'[r] # "none" /\ (Live(r)' => Live(r))
    BY <2>2 DEF Live
  <2>4. \A r \in Calls : pc'[r] = pc[r] \/ (pc[r] \notin Over /\ pc'[r] = "crashed")
    BY <1>5 DEF Close, Crash
  <2> QED
    BY <1>0, <2>1, <2>3, <2>4 DEF OnlyForward
<1>6. ASSUME Tick \/ UNCHANGED vars PROVE OnlyForward
  BY <1>0, <1>6 DEF Tick, vars, handleVars, OnlyForward, Live
<1> QED
  BY <1>2, <1>3, <1>4, <1>5, <1>6 DEF Next
(* A step of a call: who made which note. *)
LEMMA NotesMade ==
    ASSUME Shape, [Next]_vars, NEW p \in DeregisterCalls \cup DiscoverCalls
    PROVE  \/ before'[p] = before[p]
           \/ p \in DeregisterCalls /\ DeregisterStop(p)
           \/ p \in DiscoverCalls /\ DiscoverMembers(p)
<1>1. ASSUME NEW d \in DeregisterCalls, DeregisterStop(d) \/ DeregisterGoesOn(d)
      PROVE  before'[p] = before[p] \/ (p \in DeregisterCalls /\ DeregisterStop(p))
  BY <1>1 DEF DeregisterGoesOn, DeregisterStop, DeregisterGet, DeregisterRem, DeregisterDel,
              Shape, NoteType
<1>2. ASSUME NEW q \in DiscoverCalls, DiscoverMembers(q) \/ DiscoverGoesOn(q)
      PROVE  before'[p] = before[p] \/ (p \in DiscoverCalls /\ DiscoverMembers(p))
  BY <1>2 DEF DiscoverGoesOn, DiscoverMembers, DiscoverGet, DiscoverDrop, DiscoverReturn,
              Shape, NoteType
<1>3. ASSUME NEW g \in RegisterCalls, RegisterSet(g) \/ RegisterGoesOn(g) \/ Heartbeat(g)
      PROVE  before' = before
  BY <1>3 DEF RegisterGoesOn, Heartbeat, RegisterSet, RegisterAdd, RegisterExpire,
              RegisterStart, HeartbeatKey, HeartbeatIndex
<1>4. ASSUME NEW h \in Handles, Close(h) \/ Crash(h) PROVE before' = before
  BY <1>4 DEF Close, Crash
<1>5. ASSUME Tick \/ UNCHANGED vars PROVE before' = before
  BY <1>5 DEF Tick, vars
<1> QED
  BY <1>1, <1>2, <1>3, <1>4, <1>5 DEF Next

LEMMA NotesStep ==
    Shape /\ HeartbeatsKnown /\ NotesHold /\ [Next]_vars => NotesHold'
<1> SUFFICES ASSUME Shape, HeartbeatsKnown, NotesHold, [Next]_vars PROVE NotesHold'
  OBVIOUS
<1>0. OnlyForward /\ RegisterCalls \subseteq Calls
  BY StepsForward DEF Calls
<1>1. ASSUME NEW d \in DeregisterCalls, NEW g \in before'[d] PROVE pc'[g] \in Over
  <2>1. before[d] \subseteq RegisterCalls /\ (before'[d] = before[d] \/ DeregisterStop(d))
    BY CallsDisjoint, NotesMade DEF Shape, NoteType
  <2>2. CASE before'[d] = before[d]
    BY <1>0, <1>1, <2>1, <2>2 DEF NotesHold, OnlyForward
  <2>3. CASE DeregisterStop(d)
    <3>1. before'[d] = {r \in RegisterCalls : pc[r] \in Over}
      BY <2>3 DEF DeregisterStop, Shape, NoteType
    <3> QED
      BY <1>0, <1>1, <3>1 DEF OnlyForward
  <2> QED
    BY <2>1, <2>2, <2>3
<1>2. ASSUME NEW q \in DiscoverCalls, NEW g \in before'[q] PROVE hb'[g] # "none"
  <2>1. before[q] \subseteq RegisterCalls /\ (before'[q] = before[q] \/ DiscoverMembers(q))
    BY CallsDisjoint, NotesMade DEF Shape, NoteType
  <2>2. CASE before'[q] = before[q]
    BY <1>0, <1>2, <2>1, <2>2 DEF NotesHold, OnlyForward
  <2>3. CASE DiscoverMembers(q)
    <3>1. before'[q] = {r \in RegisterCalls : Live(r)}
      BY <2>3 DEF DiscoverMembers, Shape, NoteType
    <3> QED
      BY <1>0, <1>2, <3>1 DEF OnlyForward, Live
  <2> QED
    BY <2>1, <2>2, <2>3
<1> QED
  BY <1>1, <1>2 DEF NotesHold

-----------------------------------------------------------------------------
(* Deregister.  A key comes only from the SET of a Register, a heartbeat    *)
(* only from the end of one.                                                *)

LEMMA KeysComeFromSet ==
    ASSUME Shape, [Next]_vars, NEW i \in Ids, keyTTL[i] = 0, keyTTL'[i] # 0
    PROVE  \E g \in RegisterCalls : RegisterSet(g) /\ Id[g] = i /\ pc'[g] # "idle"
<1> USE RegistryConfig DEF Shape
<1>1. ASSUME NEW g \in RegisterCalls, RegisterSet(g) \/ RegisterGoesOn(g) \/ Heartbeat(g)
      PROVE  RegisterSet(g) /\ Id[g] = i /\ pc'[g] # "idle"
  <2>1. ~ UNCHANGED keyTTL
    OBVIOUS
  <2>2. ~ ExpireKey(Id[g])
    BY DEF ExpireKey, Refreshed, RedisType
  <2>3. RegisterSet(g) /\ Set(Id[g], Name[g])
    BY <1>1, <2>1, <2>2
       DEF RegisterGoesOn, Heartbeat, RegisterSet, RegisterAdd, RegisterExpire, RegisterStart,
           HeartbeatKey, HeartbeatIndex, redisVars, SAdd, ExpireIndex
  <2>4. Id[g] = i
    BY <2>3 DEF Set, RedisType
  <2>5. pc'[g] # "idle"
    BY <2>3 DEF RegisterSet, Goto, ProcessType, Calls
  <2> QED
    BY <2>3, <2>4, <2>5
<1>2. ASSUME NEW d \in DeregisterCalls, DeregisterStop(d) \/ DeregisterGoesOn(d)
      PROVE  keyTTL'[i] = 0
  BY <1>2 DEF DeregisterGoesOn, DeregisterStop, DeregisterGet, DeregisterRem, DeregisterDel,
              RemoveKey, Del, SRem, redisVars, RedisType
<1>3. ASSUME NEW q \in DiscoverCalls, DiscoverMembers(q) \/ DiscoverGoesOn(q)
      PROVE  keyTTL' = keyTTL
  BY <1>3 DEF DiscoverGoesOn, DiscoverMembers, DiscoverGet, DiscoverDrop, DiscoverReturn,
              SRem, redisVars
<1>4. ASSUME NEW h \in Handles, Close(h) \/ Crash(h) PROVE keyTTL' = keyTTL
  BY <1>4 DEF Close, Crash, redisVars
<1>5. ASSUME Tick PROVE keyTTL'[i] = 0
  BY <1>5 DEF Tick, Left
<1>6. ASSUME UNCHANGED vars PROVE keyTTL' = keyTTL
  BY <1>6 DEF vars, redisVars
<1> QED
  BY <1>1, <1>2, <1>3, <1>4, <1>5, <1>6 DEF Next

LEMMA HeartbeatsComeFromStart ==
    ASSUME Shape, [Next]_vars, NEW h \in Handles, NEW i \in Ids,
           heartbeats[h][i] = Nothing, heartbeats'[h][i] # Nothing
    PROVE  \E g \in RegisterCalls : RegisterStart(g) /\ Id[g] = i
<1> USE RegistryConfig DEF Shape, ProcessType
<1>1. ASSUME NEW g \in RegisterCalls, RegisterSet(g) \/ RegisterGoesOn(g) \/ Heartbeat(g)
      PROVE  RegisterStart(g) /\ Id[g] = i
  <2>1. RegisterStart(g)
    BY <1>1 DEF RegisterGoesOn, Heartbeat, RegisterSet, RegisterAdd, RegisterExpire,
                HeartbeatKey, HeartbeatIndex, handleVars
  <2>2. Handle[g] \in Handles /\ Id[g] \in Ids
    BY DEF Calls
  <2> QED
    BY <2>1, <2>2 DEF RegisterStart
<1>2. ASSUME NEW d \in DeregisterCalls, DeregisterStop(d) \/ DeregisterGoesOn(d)
      PROVE  heartbeats'[h][i] = Nothing
  <2>1. Handle[d] \in Handles /\ Id[d] \in Ids
    BY DEF Calls
  <2> QED
    BY <1>2, <2>1
       DEF DeregisterGoesOn, DeregisterStop, DeregisterGet, DeregisterRem, DeregisterDel,
           handleVars
<1>3. ASSUME NEW q \in DiscoverCalls, DiscoverMembers(q) \/ DiscoverGoesOn(q)
      PROVE  heartbeats' = heartbeats
  BY <1>3 DEF DiscoverGoesOn, DiscoverMembers, DiscoverGet, DiscoverDrop, DiscoverReturn,
              handleVars
<1>4. ASSUME NEW k \in Handles, Close(k) \/ Crash(k) PROVE heartbeats'[h][i] = Nothing
  BY <1>4 DEF Close, Crash
<1>5. ASSUME Tick \/ UNCHANGED vars PROVE heartbeats' = heartbeats
  BY <1>5 DEF Tick, vars, handleVars
<1> QED
  BY <1>1, <1>2, <1>3, <1>4, <1>5 DEF Next

(* How a Deregister gets on. *)
LEMMA DeregisterPhases ==
    ASSUME Shape, [Next]_vars, NEW d \in DeregisterCalls, pc'[d] # pc[d]
    PROVE  \/ DeregisterStop(d) /\ pc'[d] = "get"
           \/ /\ pc[d] \in {"get", "rem", "del"}
              /\ pc'[d] = "deregistered" =>
                    \/ keyTTL'[Id[d]] = 0
                    \/ Lost(Handle[d])
           \/ pc'[d] = "crashed"
<1> USE RegistryConfig, CallsDisjoint DEF Shape, ProcessType
<1>0. d \in Calls /\ Id[d] \in Ids
  BY DEF Calls
<1>1. ASSUME NEW e \in DeregisterCalls, DeregisterStop(e) \/ DeregisterGoesOn(e)
      PROVE  \/ DeregisterStop(d) /\ pc'[d] = "get"
             \/ /\ pc[d] \in {"get", "rem", "del"}
                /\ pc'[d] = "deregistered" =>
                      keyTTL'[Id[d]] = 0 \/ Lost(Handle[d])
  <2>1. e = d
    BY <1>0, <1>1
       DEF DeregisterGoesOn, DeregisterStop, DeregisterGet, DeregisterRem, DeregisterDel, Goto
  <2>2. CASE DeregisterStop(d)
    BY <1>0, <2>2 DEF DeregisterStop, Goto
  <2>3. CASE DeregisterGet(d)
    BY <1>0, <2>3 DEF DeregisterGet, Goto, redisVars
  <2>4. CASE DeregisterRem(d)
    BY <1>0, <2>4 DEF DeregisterRem, Goto
  <2>5. CASE DeregisterDel(d)
    BY <1>0, <2>5 DEF DeregisterDel, Goto, RemoveKey, Del, RedisType
  <2> QED
    BY <1>1, <2>1, <2>2, <2>3, <2>4, <2>5 DEF DeregisterGoesOn
<1>2. ASSUME NEW g \in RegisterCalls, RegisterSet(g) \/ RegisterGoesOn(g) \/ Heartbeat(g)
      PROVE  pc'[d] = pc[d]
  BY <1>0, <1>2 DEF RegisterGoesOn, Heartbeat, RegisterSet, RegisterAdd, RegisterExpire,
                    RegisterStart, HeartbeatKey, HeartbeatIndex, Goto
<1>3. ASSUME NEW q \in DiscoverCalls, DiscoverMembers(q) \/ DiscoverGoesOn(q)
      PROVE  pc'[d] = pc[d]
  BY <1>0, <1>3 DEF DiscoverGoesOn, DiscoverMembers, DiscoverGet, DiscoverDrop, DiscoverReturn,
                    Goto
<1>4. ASSUME NEW h \in Handles, Close(h) \/ Crash(h)
      PROVE  pc'[d] = pc[d] \/ pc'[d] = "crashed"
  BY <1>0, <1>4 DEF Close, Crash
<1>5. ASSUME Tick \/ UNCHANGED vars PROVE pc'[d] = pc[d]
  BY <1>5 DEF Tick, vars
<1> QED
  BY <1>1, <1>2, <1>3, <1>4, <1>5 DEF Next

LEMMA GoneStep ==
    ASSUME Shape, HeartbeatsKnown, NotesHold, [Next]_vars,
           NEW d \in DeregisterCalls, Gone(d)
    PROVE  Gone(d)'
<1> USE RegistryConfig, CallsDisjoint
<1>0. /\ OnlyForward /\ d \in Calls /\ RegisterCalls \subseteq Calls
      /\ Handle[d] \in Handles /\ Id[d] \in Ids
  BY StepsForward DEF Calls
<1>1. CASE DeregisterStop(d)
  <2>1. heartbeats'[Handle[d]][Id[d]] = Nothing /\ pc'[d] = "get"
    BY <1>0, <1>1 DEF DeregisterStop, Goto, Shape, ProcessType
  <2> QED
    BY <2>1 DEF Gone
<1>2. CASE ~ DeregisterStop(d) /\ pc'[d] \in {"get", "rem", "del", "deregistered"}
  <2>1. pc[d] \in {"get", "rem", "del", "deregistered"}
    BY <1>2, DeregisterPhases
  <2>2. before'[d] = before[d] /\ before[d] \subseteq RegisterCalls
    BY <1>0, <2>1 DEF OnlyForward, Shape, NoteType
  <2>3. ASSUME NEW g \in RegisterCalls, Id[g] = Id[d], Last(d)' PROVE pc[g] \in Over \cup {"idle"}
    BY <1>0, <2>2, <2>3 DEF Last, NotesHold, OnlyForward
  <2>4. Last(d)' => Last(d)
    BY <1>0, <2>2 DEF Last, OnlyForward
  <2>5. ASSUME Last(d)' PROVE heartbeats'[Handle[d]][Id[d]] = Nothing
    <3>1. heartbeats[Handle[d]][Id[d]] = Nothing
      BY <2>1, <2>4, <2>5 DEF Gone
    <3>2. \A g \in RegisterCalls : Id[g] = Id[d] => ~ RegisterStart(g)
      BY <2>3, <2>5 DEF RegisterStart, Over
    <3> QED
      BY <1>0, <3>1, <3>2, HeartbeatsComeFromStart
  <2>6. ASSUME pc'[d] = "deregistered", failures' = 0, Handle[d] \in open', Last(d)'
        PROVE  keyTTL'[Id[d]] = 0
    <3>1. failures = 0 /\ Handle[d] \in open
      BY <1>0, <2>6 DEF OnlyForward, Shape, ProcessType
    <3>2. CASE pc[d] = "deregistered"
      <4>1. keyTTL[Id[d]] = 0
        BY <2>4, <2>6, <3>1, <3>2 DEF Gone
      <4>2. ASSUME NEW g \in RegisterCalls, RegisterSet(g), Id[g] = Id[d], pc'[g] # "idle"
            PROVE  FALSE
        <5>1. g \in before[d]
          BY <2>2, <2>6, <4>2 DEF Last
        <5> QED
          BY <4>2, <5>1 DEF NotesHold, RegisterSet, Over
      <4> QED
        BY <1>0, <4>1, <4>2, KeysComeFromSet
    <3>3. CASE pc[d] # "deregistered"
      <4>1. ~ Lost(Handle[d])
        BY <2>6, <3>1 DEF Lost
      <4> QED
        BY <1>2, <2>6, <3>3, <4>1, DeregisterPhases
    <3> QED
      BY <3>2, <3>3
  <2> QED
    BY <2>5, <2>6 DEF Gone
<1>3. CASE pc'[d] \notin {"get", "rem", "del", "deregistered"}
  BY <1>3 DEF Gone
<1> QED
  BY <1>1, <1>2, <1>3
-----------------------------------------------------------------------------
(* Registered instances.  Good is stable backwards: an instance that is     *)
(* good after a step was good before it.                                    *)

LEMMA RegisterPhases ==
    ASSUME Shape, [Next]_vars, NEW g \in RegisterCalls, pc'[g] # pc[g]
    PROVE  \/ RegisterSet(g) \/ RegisterGoesOn(g)
           \/ pc'[g] = "crashed"
<1> USE RegistryConfig, CallsDisjoint DEF Shape, ProcessType
<1>0. g \in Calls
  BY DEF Calls
<1>1. ASSUME NEW p \in RegisterCalls, RegisterSet(p) \/ RegisterGoesOn(p) \/ Heartbeat(p)
      PROVE  RegisterSet(g) \/ RegisterGoesOn(g)
  <2>1. p = g /\ ~ Heartbeat(p)
    BY <1>0, <1>1 DEF RegisterGoesOn, Heartbeat, RegisterSet, RegisterAdd, RegisterExpire,
                      RegisterStart, HeartbeatKey, HeartbeatIndex, Goto
  <2> QED
    BY <1>1, <2>1
<1>2. ASSUME NEW d \in DeregisterCalls, DeregisterStop(d) \/ DeregisterGoesOn(d)
      PROVE  pc'[g] = pc[g]
  BY <1>0, <1>2
     DEF DeregisterGoesOn, DeregisterStop, DeregisterGet, DeregisterRem, DeregisterDel, Goto
<1>3. ASSUME NEW q \in DiscoverCalls, DiscoverMembers(q) \/ DiscoverGoesOn(q)
      PROVE  pc'[g] = pc[g]
  BY <1>0, <1>3 DEF DiscoverGoesOn, DiscoverMembers, DiscoverGet, DiscoverDrop, DiscoverReturn,
                    Goto
<1>4. ASSUME NEW h \in Handles, Close(h) \/ Crash(h)
      PROVE  pc'[g] = pc[g] \/ pc'[g] = "crashed"
  BY <1>0, <1>4 DEF Close, Crash
<1>5. ASSUME Tick \/ UNCHANGED vars PROVE pc'[g] = pc[g]
  BY <1>5 DEF Tick, vars
<1> QED
  BY <1>1, <1>2, <1>3, <1>4, <1>5 DEF Next

LEMMA StartsOnce ==
    ASSUME Shape, HeartbeatsKnown, [Next]_vars, NEW g \in RegisterCalls,
           hb[g] = "none", Live(g)'
    PROVE  RegisterStart(g)
<1> USE RegistryConfig, CallsDisjoint DEF Shape, ProcessType, Live
<1>1. ASSUME NEW p \in RegisterCalls, RegisterSet(p) \/ RegisterGoesOn(p) \/ Heartbeat(p)
      PROVE  RegisterStart(g)
  <2>1. CASE RegisterStart(p)
    <3>1. \A r \in RegisterCalls : r # p => hb'[r] \in {"ended", hb[r]}
      BY <2>1 DEF RegisterStart, EndHeartbeat
    <3> QED
      BY <2>1, <3>1
  <2>2. CASE Heartbeat(p)
    BY <2>2 DEF Heartbeat, HeartbeatKey, HeartbeatIndex
  <2>3. CASE RegisterSet(p) \/ RegisterAdd(p) \/ RegisterExpire(p)
    BY <2>3 DEF RegisterSet, RegisterAdd, RegisterExpire, handleVars
  <2> QED
    BY <1>1, <2>1, <2>2, <2>3 DEF RegisterGoesOn
<1>2. ASSUME NEW d \in DeregisterCalls, DeregisterStop(d) \/ DeregisterGoesOn(d) PROVE FALSE
  <2>1. hb'[g] \in {"ended", hb[g]}
    BY <1>2
       DEF DeregisterGoesOn, DeregisterStop, DeregisterGet, DeregisterRem, DeregisterDel,
           EndHeartbeat, handleVars
  <2> QED
    BY <2>1
<1>3. ASSUME NEW q \in DiscoverCalls, DiscoverMembers(q) \/ DiscoverGoesOn(q) PROVE FALSE
  BY <1>3 DEF DiscoverGoesOn, DiscoverMembers, DiscoverGet, DiscoverDrop, DiscoverReturn,
              handleVars
<1>4. ASSUME NEW h \in Handles, Close(h) \/ Crash(h) PROVE FALSE
  BY <1>4 DEF Close, Crash
<1>5. ASSUME Tick \/ UNCHANGED vars PROVE FALSE
  BY <1>5 DEF Tick, vars, handleVars
<1> QED
  BY <1>1, <1>2, <1>3, <1>4, <1>5 DEF Next

LEMMA GoodBefore ==
    ASSUME Shape, HeartbeatsKnown, [Next]_vars, NEW g \in RegisterCalls, Good(g)'
    PROVE  Good(g)
<1> USE RegistryConfig, CallsDisjoint
<1>0. /\ OnlyForward /\ g \in Calls /\ RegisterCalls \subseteq Calls
      /\ DeregisterCalls \subseteq Calls
  BY StepsForward DEF Calls
<1>1. failures + 1 < TTL
  <2>1. failures \in Nat /\ failures' \in Nat
    BY ShapeStep DEF Shape, ProcessType
  <2>2. failures' + 1 < TTL /\ failures' >= failures
    BY <1>0 DEF OnlyForward, Good
  <2>3. TTL \in Nat
    OBVIOUS
  <2>4. ASSUME NEW a \in Nat, NEW b \in Nat, NEW t \in Nat, b + 1 < t, b >= a
        PROVE  a + 1 < t
    BY <2>4
  <2> QED
    BY <2>1, <2>2, <2>3, <2>4
<1>2. Undisputed(g)
  <2>0. \A p \in Calls : pc'[p] = "idle" => pc[p] = "idle"
    BY <1>0 DEF OnlyForward
  <2>1. ASSUME NEW p \in SameId(g) PROVE pc[p] = "idle"
    <3>1. p \in SameId(g)' /\ p \in Calls
      BY <1>0 DEF SameId
    <3>2. pc'[p] = "idle"
      BY <3>1 DEF Good, Undisputed
    <3> QED
      BY <2>0, <3>1, <3>2
  <2>2. ASSUME NEW d \in DeregisterCalls, Id[d] = Id[g] PROVE pc[d] = "idle"
    <3>1. pc'[d] = "idle"
      BY <2>2 DEF Good, Undisputed
    <3> QED
      BY <1>0, <2>0, <3>1
  <2> QED
    BY <2>1, <2>2 DEF Undisputed
<1>3. ASSUME pc'[g] \in {"idle", "add", "expire", "start"}
      PROVE  pc[g] \in {"idle", "add", "expire", "start"}
  <2>1. CASE pc'[g] = pc[g]
    BY <1>3, <2>1
  <2>2. CASE RegisterSet(g) \/ RegisterGoesOn(g)
    BY <1>0, <1>3, <2>2
       DEF RegisterGoesOn, RegisterSet, RegisterAdd, RegisterExpire, RegisterStart
  <2> QED
    BY <1>3, <2>1, <2>2, RegisterPhases
<1>4. ASSUME Owned(g)' PROVE pc[g] = "start" \/ Owned(g)
  <2>1. CASE hb[g] = "none"
    <3>1. RegisterStart(g)
      BY <1>4, <2>1, StartsOnce DEF Owned
    <3> QED
      BY <3>1 DEF RegisterStart
  <2>2. CASE hb[g] # "none"
    BY <1>0, <1>4, <2>2 DEF OnlyForward, Owned
  <2> QED
    BY <2>1, <2>2
<1> QED
  BY <1>1, <1>2, <1>3, <1>4 DEF Good
-----------------------------------------------------------------------------
(* A step that is not of g's own leaves its key alone, may only lengthen    *)
(* what is left of its index, and takes nothing else out of Discover's way. *)
KeptInRedis(g) ==
    /\ UNCHANGED <<keyTTL[Id[g]], keyName[Id[g]]>>
    /\ \A n \in Names : Id[g] \in index'[n] => Id[g] \in index[n]
    /\ Indexed(g) =>
          /\ Indexed(g)'
          /\ indexTTL'[Name[g]] >= indexTTL[Name[g]] \/ indexTTL'[Name[g]] >= TTL

KeptByCalls(g) ==
    /\ pc'[g] = pc[g]
    /\ Owned(g)' => hb'[g] = hb[g] /\ (g \in due' <=> g \in due)
    /\ \A q \in DiscoverCalls : Id[g] \in todo'[q] => Id[g] \in todo[q] \cup index[Name[q]]
    /\ \A q \in DiscoverCalls : pc'[q] = "drop" =>
          \/ pc[q] = "drop" /\ stale'[q] = stale[q]
          \/ stale'[q] \in todo[q] /\ keyTTL[stale'[q]] = 0

Untouched(g) == KeptInRedis(g) /\ KeptByCalls(g)

LEMMA ListedFrame ==
    ASSUME Shape, Shape', OnlyForward, NEW g \in RegisterCalls,
           Good(g), Good(g)', Listed(g), Untouched(g)
    PROVE  Listed(g)'
<1> USE RegistryConfig
<1>0. /\ Id[g] \in Ids /\ Name[g] \in Names
      /\ keyTTL[Id[g]] \in Nat /\ indexTTL[Name[g]] \in Nat /\ indexTTL'[Name[g]] \in Nat
      /\ failures \in Nat /\ failures' \in Nat /\ failures' >= failures
      /\ TTL \in Nat
  BY DEF Shape, RedisType, ProcessType, OnlyForward, Forever
<1>1. pc'[g] = "idle" =>
          /\ \A n \in Names : Id[g] \notin index'[n]
          /\ \A q \in DiscoverCalls : Id[g] \notin todo'[q]
  BY DEF Untouched, KeptInRedis, KeptByCalls, Listed, Calls
<1>2. pc'[g] \in {"add", "expire", "start"} => Stored(g)' /\ keyTTL'[Id[g]] >= TTL
  BY DEF Untouched, KeptInRedis, KeptByCalls, Listed, Stored
<1>3. pc'[g] \in {"expire", "start"} => Indexed(g)'
  BY DEF Untouched, KeptInRedis, KeptByCalls, Listed
<1>4. pc'[g] = "start" => indexTTL'[Name[g]] >= TTL
  BY <1>0 DEF Untouched, KeptInRedis, KeptByCalls, Listed
<1>5. ASSUME Owned(g)'
      PROVE  /\ Stored(g)' /\ Indexed(g)'
             /\ keyTTL'[Id[g]] + failures' + KeyDue(g)' >= TTL
             /\ indexTTL'[Name[g]] + failures' + Due(g)' >= TTL
  <2>1. Owned(g)
    BY <1>5 DEF Untouched, KeptInRedis, KeptByCalls, Owned, Live, OnlyForward
  <2>2. KeyDue(g)' = KeyDue(g) /\ Due(g)' = Due(g)
    BY <1>5 DEF Untouched, KeptInRedis, KeptByCalls, KeyDue, Due
  <2>3. KeyDue(g) \in Nat /\ Due(g) \in Nat
    BY DEF KeyDue, Due
  <2>4. /\ Stored(g) /\ Indexed(g)
        /\ keyTTL[Id[g]] + failures + KeyDue(g) >= TTL
        /\ indexTTL[Name[g]] + failures + Due(g) >= TTL
    BY <2>1 DEF Listed
  <2>5. Stored(g)' /\ Indexed(g)'
    BY <2>4 DEF Untouched, KeptInRedis, KeptByCalls, Stored
  <2>6. keyTTL'[Id[g]] + failures' + KeyDue(g)' >= TTL
    <3>1. keyTTL'[Id[g]] = keyTTL[Id[g]]
      BY DEF Untouched, KeptInRedis, KeptByCalls
    <3> QED
      BY <1>0, <2>2, <2>3, <2>4, <3>1
  <2>7. indexTTL'[Name[g]] + failures' + Due(g)' >= TTL
    <3>1. indexTTL'[Name[g]] >= indexTTL[Name[g]] \/ indexTTL'[Name[g]] >= TTL
      BY <2>4 DEF Untouched, KeptInRedis, KeptByCalls
    <3> QED
      BY <1>0, <2>2, <2>3, <2>4, <3>1
  <2> QED
    BY <2>5, <2>6, <2>7
<1>6. ASSUME NEW q \in DiscoverCalls, pc'[q] = "drop" PROVE stale'[q] # Id[g]
  <2>1. CASE pc[q] = "drop" /\ stale'[q] = stale[q]
    BY <2>1 DEF Listed
  <2>2. CASE stale'[q] \in todo[q] /\ keyTTL[stale'[q]] = 0
    <3>1. pc[g] = "idle" => Id[g] \notin todo[q]
      BY DEF Listed
    <3>2. pc[g] # "idle" => keyTTL[Id[g]] > 0
      BY DEF Listed, Good, Stored
    <3> QED
      BY <1>0, <2>2, <3>1, <3>2
  <2> QED
    BY <1>6, <2>1, <2>2 DEF Untouched, KeptInRedis, KeptByCalls
<1> QED
  BY <1>1, <1>2, <1>3, <1>4, <1>5, <1>6 DEF Listed

(* The commands. *)
LEMMA OtherCommands ==
    ASSUME Shape, NEW g \in RegisterCalls, NEW i, i # Id[g], NEW n \in Names
    PROVE  /\ Set(i, n) \/ Del(i) \/ ExpireKey(i) => KeptInRedis(g)
           /\ SAdd(n, i) => KeptInRedis(g)
           /\ SRem(n, i) => KeptInRedis(g)
<1> USE RegistryConfig
<1>0. /\ Id[g] \in Ids /\ Name[g] \in Names
      /\ indexTTL[Name[g]] \in Nat /\ TTL \in Nat
      /\ Indexed(g) => indexTTL[Name[g]] # 0
  BY DEF Shape, RedisType, Forever, Indexed
<1> USE DEF Shape, RedisType
<1>2. Set(i, n) \/ Del(i) \/ ExpireKey(i) => KeptInRedis(g)
  BY <1>0 DEF KeptInRedis, Set, Del, ExpireKey, Indexed
<1>3. ASSUME SAdd(n, i) PROVE KeptInRedis(g)
  <2>1. UNCHANGED <<keyTTL, keyName>>
    BY <1>3 DEF SAdd
  <2>2. \A m \in Names : Id[g] \in index'[m] <=> Id[g] \in index[m]
    BY <1>3 DEF SAdd
  <2>3. Indexed(g) => indexTTL'[Name[g]] = indexTTL[Name[g]]
    BY <1>0, <1>3 DEF SAdd
  <2> QED
    BY <1>0, <2>1, <2>2, <2>3 DEF KeptInRedis, Indexed
<1>4. ASSUME SRem(n, i) PROVE KeptInRedis(g)
  <2>1. UNCHANGED <<keyTTL, keyName>>
    BY <1>4 DEF SRem
  <2>2. \A m \in Names : Id[g] \in index'[m] <=> Id[g] \in index[m]
    BY <1>4 DEF SRem
  <2>3. Indexed(g) => indexTTL'[Name[g]] = indexTTL[Name[g]]
    BY <1>0, <1>4 DEF SRem, Indexed
  <2> QED
    BY <1>0, <2>1, <2>2, <2>3 DEF KeptInRedis, Indexed
<1> QED
  BY <1>2, <1>3, <1>4

LEMMA NoCommand ==
    ASSUME Shape, NEW g \in RegisterCalls, UNCHANGED redisVars
    PROVE  KeptInRedis(g)
<1>1. indexTTL[Name[g]] \in Nat
  BY RegistryConfig DEF Shape, RedisType, Forever
<1> QED
  BY <1>1 DEF KeptInRedis, redisVars, Indexed

LEMMA AnyExpireIndex ==
    ASSUME Shape, NEW g \in RegisterCalls, NEW n \in Names, ExpireIndex(n)
    PROVE  KeptInRedis(g)
<1> USE RegistryConfig
<1>0. /\ Id[g] \in Ids /\ Name[g] \in Names
      /\ indexTTL[Name[g]] \in Nat /\ TTL \in Nat
      /\ Indexed(g) => indexTTL[Name[g]] # 0
  BY DEF Shape, RedisType, Forever, Indexed
<1>1. UNCHANGED <<keyTTL, keyName, index>>
  BY DEF ExpireIndex
<1>2. Indexed(g) => indexTTL'[Name[g]] \in {indexTTL[Name[g]], TTL}
  BY <1>0 DEF ExpireIndex, Refreshed, Shape, RedisType
<1> QED
  BY <1>0, <1>1, <1>2 DEF KeptInRedis, Indexed

LEMMA UntouchedByRegister ==
    ASSUME Shape, HeartbeatsKnown, [Next]_vars,
           NEW g \in RegisterCalls, Undisputed(g)',
           NEW p \in RegisterCalls, p # g, RegisterSet(p) \/ RegisterGoesOn(p) \/ Heartbeat(p)
    PROVE  Untouched(g)
<1> USE RegistryConfig, CallsDisjoint
<1>0. /\ p \in Calls /\ g \in Calls /\ Handle[p] \in Handles
      /\ Id[p] \in Ids /\ Name[p] \in Names
  BY DEF Calls
<1>1. pc'[p] # "idle"
  BY <1>0 DEF RegisterGoesOn, Heartbeat, RegisterSet, RegisterAdd, RegisterExpire, RegisterStart,
              HeartbeatKey, HeartbeatIndex, HeartbeatsKnown, Goto, Shape, ProcessType
<1>2. Id[p] # Id[g]
  BY <1>1 DEF Undisputed, SameId
<1>3. KeptInRedis(g)
  <2>1. \/ UNCHANGED redisVars \/ Set(Id[p], Name[p]) \/ SAdd(Name[p], Id[p])
        \/ ExpireIndex(Name[p]) \/ ExpireKey(Id[p])
    BY DEF RegisterGoesOn, Heartbeat, RegisterSet, RegisterAdd, RegisterExpire,
           RegisterStart, HeartbeatKey, HeartbeatIndex
  <2> QED
    BY <1>0, <1>2, <2>1, NoCommand, OtherCommands, AnyExpireIndex
<1>4. KeptByCalls(g)
  <2>1. /\ UNCHANGED <<todo, stale>>
        /\ \A r \in Calls : r # p => pc'[r] = pc[r]
    BY DEF RegisterGoesOn, Heartbeat, RegisterSet, RegisterAdd, RegisterExpire, RegisterStart,
           HeartbeatKey, HeartbeatIndex, callVars, Goto, Shape, ProcessType
  <2>2. hb'[g] = hb[g] /\ (g \in due' <=> g \in due)
    <3>1. CASE RegisterStart(p)
      <4>1. heartbeats[Handle[p]][Id[p]] # g
        BY <1>0, <1>2 DEF HeartbeatsKnown
      <4> QED
        BY <3>1, <4>1 DEF RegisterStart, EndHeartbeat, Shape, ProcessType
    <3>2. CASE Heartbeat(p)
      BY <3>2 DEF Heartbeat, HeartbeatKey, HeartbeatIndex, Shape, ProcessType
    <3>3. CASE RegisterSet(p) \/ RegisterAdd(p) \/ RegisterExpire(p)
      BY <3>3 DEF RegisterSet, RegisterAdd, RegisterExpire, handleVars
    <3> QED
      BY <3>1, <3>2, <3>3 DEF RegisterGoesOn
  <2>3. \A q \in DiscoverCalls : pc'[q] = pc[q]
    BY <2>1 DEF Calls
  <2> QED
    BY <1>0, <2>1, <2>2, <2>3 DEF KeptByCalls
<1> QED
  BY <1>3, <1>4 DEF Untouched

LEMMA UntouchedByDeregister ==
    ASSUME Shape, HeartbeatsKnown, [Next]_vars,
           NEW g \in RegisterCalls, Undisputed(g)',
           NEW d \in DeregisterCalls, DeregisterStop(d) \/ DeregisterGoesOn(d)
    PROVE  Untouched(g)
<1> USE RegistryConfig, CallsDisjoint
<1>0. d \in Calls /\ g \in Calls /\ Handle[d] \in Handles /\ Id[d] \in Ids
  BY DEF Calls
<1>1. pc'[d] # "idle"
  BY <1>0 DEF DeregisterGoesOn, DeregisterStop, DeregisterGet, DeregisterRem, DeregisterDel,
              Goto, Shape, ProcessType
<1>2. Id[d] # Id[g]
  BY <1>1 DEF Undisputed
<1>3. KeptInRedis(g)
  <2>1. \/ UNCHANGED redisVars \/ Del(Id[d])
        \/ \E e \in found[d] : SRem(e[2], Id[d])
    BY DEF DeregisterGoesOn, DeregisterStop, DeregisterGet, DeregisterRem, DeregisterDel,
           RemoveKey
  <2>2. \A e \in found[d] : e[2] \in Names
    BY DEF Shape, NoteType
  <2>3. Name[g] \in Names
    OBVIOUS
  <2> QED
    BY <1>2, <2>1, <2>2, <2>3, NoCommand, OtherCommands
<1>4. KeptByCalls(g)
  <2>1. /\ UNCHANGED <<todo, stale, due>>
        /\ \A r \in Calls : r # d => pc'[r] = pc[r]
    BY DEF DeregisterGoesOn, DeregisterStop, DeregisterGet, DeregisterRem, DeregisterDel,
           callVars, handleVars, Goto, Shape, ProcessType
  <2>2. hb'[g] = hb[g]
    <3>1. CASE DeregisterStop(d)
      <4>1. heartbeats[Handle[d]][Id[d]] # g
        BY <1>0, <1>2 DEF HeartbeatsKnown
      <4> QED
        BY <3>1, <4>1 DEF DeregisterStop, EndHeartbeat, Shape, ProcessType
    <3>2. CASE DeregisterGoesOn(d)
      BY <3>2 DEF DeregisterGoesOn, DeregisterGet, DeregisterRem, DeregisterDel, handleVars
    <3> QED
      BY <3>1, <3>2
  <2>3. (\A q \in DiscoverCalls : pc'[q] = pc[q]) /\ pc'[g] = pc[g]
    BY <2>1 DEF Calls
  <2> QED
    BY <2>1, <2>2, <2>3 DEF KeptByCalls
<1> QED
  BY <1>3, <1>4 DEF Untouched

LEMMA UntouchedByDiscover ==
    ASSUME Shape, [Next]_vars, NEW g \in RegisterCalls, Listed(g),
           NEW q \in DiscoverCalls, DiscoverMembers(q) \/ DiscoverGoesOn(q)
    PROVE  Untouched(g)
<1> USE RegistryConfig, CallsDisjoint
<1>0. q \in Calls /\ g \in Calls /\ g # q /\ Name[q] \in Names /\ DiscoverCalls \subseteq Calls
  BY DEF Calls
<1>1. KeptInRedis(g)
  <2>1. UNCHANGED redisVars \/ (pc[q] = "drop" /\ SRem(Name[q], stale[q]))
    BY DEF DiscoverGoesOn, DiscoverMembers, DiscoverGet, DiscoverDrop, DiscoverReturn
  <2>2. CASE UNCHANGED redisVars
    BY <2>2, NoCommand
  <2>3. CASE pc[q] = "drop" /\ SRem(Name[q], stale[q])
    <3>1. stale[q] # Id[g]
      BY <2>3 DEF Listed
    <3> QED
      BY <1>0, <2>3, <3>1, OtherCommands
  <2> QED
    BY <2>1, <2>2, <2>3
<1>2. KeptByCalls(g)
  <2>1. /\ UNCHANGED handleVars
        /\ \A r \in Calls : r # q => pc'[r] = pc[r]
        /\ \A r \in DiscoverCalls : r # q => todo'[r] = todo[r] /\ stale'[r] = stale[r]
        /\ todo'[q] \subseteq todo[q] \/ todo'[q] = index[Name[q]]
    BY <1>0 DEF DiscoverGoesOn, DiscoverMembers, DiscoverGet, DiscoverDrop, DiscoverReturn, Advance,
           callVars, Goto, Shape, ProcessType, NoteType
  <2>2. pc'[q] = "drop" => stale'[q] \in todo[q] /\ keyTTL[stale'[q]] = 0
    BY <1>0 DEF DiscoverGoesOn, DiscoverMembers, DiscoverGet, DiscoverDrop, DiscoverReturn,
           Goto, Shape, ProcessType, NoteType
  <2>3. \A r \in DiscoverCalls : r # q => pc'[r] = pc[r]
    BY <1>0, <2>1
  <2> QED
    BY <1>0, <2>1, <2>2, <2>3 DEF KeptByCalls, handleVars
<1> QED
  BY <1>1, <1>2 DEF Untouched

LEMMA UntouchedByEnds ==
    ASSUME Shape, HeartbeatsKnown, NEW g \in RegisterCalls, Good(g)',
           \/ \E h \in Handles : Close(h) \/ Crash(h)
           \/ UNCHANGED vars
    PROVE  Untouched(g)
<1> USE RegistryConfig, CallsDisjoint
<1>0. g \in Calls /\ DiscoverCalls \subseteq Calls /\ Name[g] \in Names
  BY DEF Calls
<1>1. KeptInRedis(g)
  <2>1. UNCHANGED redisVars
    BY DEF Close, Crash, vars
  <2> QED
    BY <2>1, NoCommand
<1>2. /\ UNCHANGED <<due, todo, stale>>
      /\ \A q \in DiscoverCalls : pc'[q] = "drop" => pc[q] = "drop"
  BY <1>0 DEF Close, Crash, vars, handleVars, callVars, Shape, ProcessType
<1>3. Live(g)' => hb'[g] = hb[g]
  BY DEF Close, Crash, vars, handleVars, Live
<1>4. pc'[g] = pc[g]
  <2>1. ASSUME NEW h \in Handles, Crash(h) PROVE pc'[g] = pc[g]
    <3>1. CASE Handle[g] = h /\ pc[g] \notin Over
      <4>1. pc'[g] = "crashed" /\ Handle[g] \notin open'
        BY <1>0, <2>1, <3>1 DEF Crash
      <4> QED
        BY <4>1 DEF Good, Owned
    <3>2. CASE ~ (Handle[g] = h /\ pc[g] \notin Over)
      BY <1>0, <2>1, <3>2 DEF Crash
    <3> QED
      BY <3>1, <3>2
  <2>2. (\E h \in Handles : Close(h)) \/ UNCHANGED vars => pc' = pc
    BY DEF Close, vars
  <2> QED
    BY <2>1, <2>2
<1> QED
  BY <1>1, <1>2, <1>3, <1>4 DEF Untouched, KeptByCalls, Owned

(* The steps of g itself, and time. *)
LEMMA ListedByRegister ==
    ASSUME Shape, HeartbeatsKnown, NEW g \in RegisterCalls, Good(g)', Listed(g),
           RegisterSet(g) \/ RegisterAdd(g) \/ RegisterExpire(g)
    PROVE  Listed(g)'
<1> USE RegistryConfig
<1>0. /\ g \in Calls /\ Id[g] \in Ids /\ Name[g] \in Names
      /\ keyTTL \in [Ids -> 0 .. Forever] /\ indexTTL \in [Names -> 0 .. Forever]
      /\ keyName \in [Ids -> Names \cup {Nothing}] /\ index \in [Names -> SUBSET Ids]
      /\ pc \in [Calls -> Phases] /\ TTL \in Nat /\ TTL > 1
  BY DEF Calls, Shape, RedisType, ProcessType
<1>1. hb[g] = "none" /\ UNCHANGED <<handleVars, callVars>>
  BY DEF RegisterSet, RegisterAdd, RegisterExpire, HeartbeatsKnown
<1>2. ~ Owned(g)'
  BY <1>1 DEF Owned, Live, handleVars
<1>3. pc'[g] \in {"idle", "add", "expire", "start"}
  BY <1>2 DEF Good
<1>4. \A q \in DiscoverCalls : pc'[q] = pc[q] /\ stale'[q] = stale[q]
  BY <1>0, <1>1, CallsDisjoint
     DEF RegisterSet, RegisterAdd, RegisterExpire, Goto, callVars, Calls
<1>5. CASE RegisterSet(g)
  <2>1. Set(Id[g], Name[g]) /\ pc'[g] = "add"
    BY <1>0, <1>3, <1>5 DEF RegisterSet, Goto
  <2>2. keyTTL'[Id[g]] = TTL /\ keyName'[Id[g]] = Name[g]
    BY <1>0, <2>1 DEF Set, SetTTL
  <2> QED
    BY <1>0, <1>2, <1>4, <2>1, <2>2 DEF Listed, Stored
<1>6. CASE RegisterAdd(g)
  <2>1. pc[g] = "add" /\ SAdd(Name[g], Id[g]) /\ pc'[g] = "expire"
    BY <1>0, <1>3, <1>6 DEF RegisterAdd, Goto
  <2>2. UNCHANGED <<keyTTL, keyName>> /\ Id[g] \in index'[Name[g]]
    BY <1>0, <2>1 DEF SAdd
  <2> QED
    BY <1>0, <1>2, <1>4, <2>1, <2>2 DEF Listed, Stored, Indexed
<1>7. CASE RegisterExpire(g)
  <2>1. pc[g] = "expire" /\ ExpireIndex(Name[g]) /\ pc'[g] = "start"
    BY <1>0, <1>3, <1>7 DEF RegisterExpire, Goto
  <2>2. Stored(g) /\ keyTTL[Id[g]] >= TTL /\ Indexed(g)
    BY <2>1 DEF Listed
  <2>3. indexTTL[Name[g]] # 0
    BY <1>0, <2>2 DEF Indexed, Shape, RedisType
  <2>4. UNCHANGED <<keyTTL, keyName, index>> /\ indexTTL'[Name[g]] = TTL
    BY <1>0, <2>1, <2>3 DEF ExpireIndex, Refreshed
  <2> QED
    BY <1>0, <1>2, <1>4, <2>1, <2>2, <2>4 DEF Listed, Stored, Indexed
<1> QED
  BY <1>5, <1>6, <1>7

LEMMA ListedByStart ==
    ASSUME Shape, HeartbeatsKnown, NEW g \in RegisterCalls, Listed(g), RegisterStart(g)
    PROVE  Listed(g)'
<1> USE RegistryConfig
<1>0. g \in Calls /\ keyTTL[Id[g]] \in Nat /\ indexTTL[Name[g]] \in Nat /\ failures \in Nat /\ TTL \in Nat
  BY DEF Calls, Shape, RedisType, ProcessType, Forever
<1>1. /\ pc[g] = "start" /\ pc'[g] = "registered"
      /\ UNCHANGED <<redisVars, failures, due, stale>>
      /\ g \notin due
  BY <1>0 DEF RegisterStart, Goto, Shape, ProcessType, HeartbeatsKnown, callVars
<1>2. \A q \in DiscoverCalls : pc'[q] = pc[q]
  BY CallsDisjoint DEF RegisterStart, Goto, Calls, Shape, ProcessType
<1>3. Stored(g)' /\ Indexed(g)' /\ keyTTL'[Id[g]] >= TTL /\ indexTTL'[Name[g]] >= TTL
  BY <1>1 DEF Listed, redisVars, Stored, Indexed
<1>4. KeyDue(g)' = 0 /\ Due(g)' = 0
  BY <1>1 DEF KeyDue, Due
<1>5. /\ keyTTL'[Id[g]] + failures' + KeyDue(g)' >= TTL
      /\ indexTTL'[Name[g]] + failures' + Due(g)' >= TTL
  BY <1>0, <1>1, <1>3, <1>4 DEF redisVars
<1> QED
  BY <1>1, <1>2, <1>3, <1>5 DEF Listed

LEMMA ListedByHeartbeat ==
    ASSUME Shape, HeartbeatsKnown, NEW g \in RegisterCalls, Good(g), Listed(g), Heartbeat(g)
    PROVE  Listed(g)'
<1> USE RegistryConfig
<1>0. /\ g \in Calls /\ Id[g] \in Ids /\ Name[g] \in Names
      /\ keyTTL[Id[g]] \in Nat /\ indexTTL[Name[g]] \in Nat /\ failures \in Nat
      /\ TTL \in Nat /\ TTL > 0
  BY DEF Calls, Shape, RedisType, ProcessType, Forever
<1>1. /\ pc[g] = "registered" /\ g \in due /\ hb[g] \in {"wait", "beat"}
      /\ UNCHANGED <<open, pc, stale>>
  BY DEF Heartbeat, HeartbeatKey, HeartbeatIndex, HeartbeatsKnown, callVars
<1>2. Owned(g)
  BY <1>1 DEF Good
<1>3. /\ Stored(g) /\ Indexed(g)
      /\ keyTTL[Id[g]] + failures + KeyDue(g) >= TTL
      /\ indexTTL[Name[g]] + failures + Due(g) >= TTL
  BY <1>2 DEF Listed
<1>4. indexTTL[Name[g]] # 0 /\ keyTTL[Id[g]] # 0
  BY <1>0, <1>3 DEF Indexed, Stored, Shape, RedisType
<1>5. Due(g) = 1
  BY <1>1 DEF Due
<1>6. CASE HeartbeatKey(g)
  <2>1. KeyDue(g) = 1 /\ KeyDue(g)' = 0 /\ Due(g)' = 1
    BY <1>1, <1>6 DEF HeartbeatKey, KeyDue, Due, Shape, ProcessType
  <2>2. CASE ExpireKey(Id[g]) /\ UNCHANGED failures
    <3>1. UNCHANGED <<keyName, index, indexTTL>> /\ keyTTL'[Id[g]] = TTL
      BY <1>0, <1>4, <2>2 DEF ExpireKey, Refreshed, Shape, RedisType
    <3>2. Stored(g)' /\ Indexed(g)'
      BY <1>0, <1>3, <3>1 DEF Stored, Indexed
    <3>3. /\ keyTTL'[Id[g]] + failures' + KeyDue(g)' >= TTL
          /\ indexTTL'[Name[g]] + failures' + Due(g)' >= TTL
      BY <1>0, <1>3, <1>5, <2>1, <2>2, <3>1
    <3> QED
      BY <1>1, <3>2, <3>3 DEF Listed
  <2>3. CASE Lost(Handle[g]) /\ UNCHANGED redisVars
    <3>1. failures' = failures + 1
      BY <1>2, <2>3 DEF Lost, Owned
    <3>2. Stored(g)' /\ Indexed(g)'
      BY <1>3, <2>3 DEF Stored, Indexed, redisVars
    <3>3. keyTTL' = keyTTL /\ indexTTL' = indexTTL
      BY <2>3 DEF redisVars
    <3>4. /\ keyTTL'[Id[g]] + failures' + KeyDue(g)' >= TTL
          /\ indexTTL'[Name[g]] + failures' + Due(g)' >= TTL
      BY <1>0, <1>3, <1>5, <2>1, <3>1, <3>3
    <3> QED
      BY <1>1, <3>2, <3>4 DEF Listed
  <2> QED
    BY <1>6, <2>2, <2>3 DEF HeartbeatKey, Answered
<1>7. CASE HeartbeatIndex(g)
  <2>1. KeyDue(g) = 0 /\ KeyDue(g)' = 0 /\ Due(g)' = 0
    BY <1>1, <1>7 DEF HeartbeatIndex, KeyDue, Due, Shape, ProcessType
  <2>2. CASE ExpireIndex(Name[g]) /\ UNCHANGED failures
    <3>1. UNCHANGED <<keyTTL, keyName, index>> /\ indexTTL'[Name[g]] = TTL
      BY <1>0, <1>4, <2>2 DEF ExpireIndex, Refreshed, Shape, RedisType
    <3>2. Stored(g)' /\ Indexed(g)'
      BY <1>0, <1>3, <3>1 DEF Stored, Indexed
    <3>3. /\ keyTTL'[Id[g]] + failures' + KeyDue(g)' >= TTL
          /\ indexTTL'[Name[g]] + failures' + Due(g)' >= TTL
      BY <1>0, <1>3, <1>5, <2>1, <2>2, <3>1
    <3> QED
      BY <1>1, <3>2, <3>3 DEF Listed
  <2>3. CASE Lost(Handle[g]) /\ UNCHANGED redisVars
    <3>1. failures' = failures + 1
      BY <1>2, <2>3 DEF Lost, Owned
    <3>2. Stored(g)' /\ Indexed(g)'
      BY <1>3, <2>3 DEF Stored, Indexed, redisVars
    <3>3. keyTTL' = keyTTL /\ indexTTL' = indexTTL
      BY <2>3 DEF redisVars
    <3>4. /\ keyTTL'[Id[g]] + failures' + KeyDue(g)' >= TTL
          /\ indexTTL'[Name[g]] + failures' + Due(g)' >= TTL
      BY <1>0, <1>3, <1>5, <2>1, <3>1, <3>3
    <3> QED
      BY <1>1, <3>2, <3>4 DEF Listed
  <2> QED
    BY <1>7, <2>2, <2>3 DEF HeartbeatIndex, Answered
<1> QED
  BY <1>6, <1>7 DEF Heartbeat

LEMMA ListedByTick ==
    ASSUME Shape, HeartbeatsKnown, NEW g \in RegisterCalls, Good(g), Listed(g), Tick
    PROVE  Listed(g)'
<1> USE RegistryConfig
<1>0. /\ Id[g] \in Ids /\ Name[g] \in Names
      /\ keyTTL[Id[g]] \in 0 .. Forever /\ indexTTL[Name[g]] \in 0 .. Forever
      /\ failures \in Nat /\ failures + 1 < TTL /\ TTL \in Nat
  BY DEF Shape, RedisType, ProcessType, Good
<1>1. /\ UNCHANGED <<pc, open, hb, failures, todo, stale>>
      /\ \A n \in Names : index'[n] \subseteq index[n]
      /\ ~ Registering(g)
  BY DEF Tick, callVars
<1>2. ASSUME NEW t \in 0 .. Forever, NEW f \in Nat, f + 1 < TTL, t + f >= TTL
      PROVE  Left(t) > 0 /\ Left(t) + f + 1 >= TTL
  BY <1>2 DEF Left, Forever
<1>3. ASSUME Owned(g)'
      PROVE  /\ Stored(g)' /\ Indexed(g)'
             /\ keyTTL'[Id[g]] + failures' + KeyDue(g)' >= TTL
             /\ indexTTL'[Name[g]] + failures' + Due(g)' >= TTL
  <2>1. Owned(g)
    BY <1>1, <1>3 DEF Owned, Live
  <2>2. g \notin due /\ hb[g] = "wait" /\ g \in due'
    BY <2>1 DEF Tick, Owned, Live, HeartbeatsKnown
  <2>3. KeyDue(g) = 0 /\ Due(g) = 0 /\ KeyDue(g)' = 1 /\ Due(g)' = 1
    BY <1>1, <2>2 DEF KeyDue, Due
  <2>4. /\ Stored(g) /\ Indexed(g)
        /\ keyTTL[Id[g]] + failures >= TTL /\ indexTTL[Name[g]] + failures >= TTL
    BY <1>0, <2>1, <2>3 DEF Listed, Forever
  <2>5. /\ keyTTL'[Id[g]] = Left(keyTTL[Id[g]])
        /\ indexTTL'[Name[g]] = Left(indexTTL[Name[g]])
        /\ keyName'[Id[g]] = IF Left(keyTTL[Id[g]]) = 0 THEN Nothing ELSE keyName[Id[g]]
        /\ index'[Name[g]] = IF Left(indexTTL[Name[g]]) = 0 THEN {} ELSE index[Name[g]]
    BY <1>0 DEF Tick
  <2>6. /\ Left(keyTTL[Id[g]]) > 0 /\ Left(keyTTL[Id[g]]) + failures + 1 >= TTL
        /\ Left(indexTTL[Name[g]]) > 0 /\ Left(indexTTL[Name[g]]) + failures + 1 >= TTL
    BY <1>0, <1>2, <2>4
  <2>7. Stored(g)' /\ Indexed(g)'
    BY <2>4, <2>5, <2>6 DEF Stored, Indexed
  <2> QED
    BY <1>1, <2>3, <2>5, <2>6, <2>7
<1>4. pc'[g] = "idle" =>
          /\ \A n \in Names : Id[g] \notin index'[n]
          /\ \A q \in DiscoverCalls : Id[g] \notin todo'[q]
  BY <1>1 DEF Listed
<1>5. pc'[g] \notin {"add", "expire", "start"}
  BY <1>1 DEF Registering
<1>6. \A q \in DiscoverCalls : pc'[q] = "drop" => stale'[q] # Id[g]
  BY <1>1 DEF Listed
<1> QED
  BY <1>3, <1>4, <1>5, <1>6 DEF Listed

LEMMA GoodStep ==
    Shape /\ HeartbeatsKnown /\ GoodAreListed /\ [Next]_vars => GoodAreListed'
<1> SUFFICES ASSUME Shape, HeartbeatsKnown, GoodAreListed, [Next]_vars,
                    NEW g \in RegisterCalls, Good(g)'
             PROVE  Listed(g)'
  BY DEF GoodAreListed
<1>1. Good(g) /\ Listed(g)
  BY GoodBefore DEF GoodAreListed
<1>2. Shape' /\ OnlyForward /\ Undisputed(g)'
  BY ShapeStep, StepsForward DEF Good
<1>3. Untouched(g) => Listed(g)'
  BY <1>1, <1>2, ListedFrame
<1>4. ASSUME NEW p \in RegisterCalls, RegisterSet(p) \/ RegisterGoesOn(p) \/ Heartbeat(p)
      PROVE  Listed(g)'
  <2>1. CASE p = g
    BY <1>1, <1>4, <2>1, ListedByRegister, ListedByStart, ListedByHeartbeat DEF RegisterGoesOn
  <2>2. CASE p # g
    BY <1>2, <1>3, <1>4, <2>2, UntouchedByRegister
  <2> QED
    BY <2>1, <2>2
<1>5. ASSUME NEW d \in DeregisterCalls, DeregisterStop(d) \/ DeregisterGoesOn(d)
      PROVE  Listed(g)'
  BY <1>2, <1>3, <1>5, UntouchedByDeregister
<1>6. ASSUME NEW q \in DiscoverCalls, DiscoverMembers(q) \/ DiscoverGoesOn(q)
      PROVE  Listed(g)'
  BY <1>1, <1>3, <1>6, UntouchedByDiscover
<1>7. (\E h \in Handles : Close(h) \/ Crash(h)) \/ UNCHANGED vars => Listed(g)'
  BY <1>3, UntouchedByEnds
<1>8. Tick => Listed(g)'
  BY <1>1, ListedByTick
<1> QED
  BY <1>4, <1>5, <1>6, <1>7, <1>8 DEF Next

-----------------------------------------------------------------------------
(* Discover. *)

LEMMA DiscoverPhases ==
    ASSUME Shape, [Next]_vars, NEW q \in DiscoverCalls
    PROVE  \/ DiscoverMembers(q) \/ DiscoverGoesOn(q)
           \/ /\ todo'[q] = todo[q] /\ found'[q] = found[q]
              /\ before'[q] = before[q]
              /\ pc'[q] \in {pc[q], "crashed"}
<1> USE RegistryConfig, CallsDisjoint DEF Shape, ProcessType, NoteType
<1>0. q \in Calls
  BY DEF Calls
<1>1. ASSUME NEW g \in RegisterCalls, RegisterSet(g) \/ RegisterGoesOn(g) \/ Heartbeat(g)
      PROVE  UNCHANGED <<todo, found, before>> /\ pc'[q] = pc[q]
  BY <1>0, <1>1 DEF RegisterGoesOn, Heartbeat, RegisterSet, RegisterAdd, RegisterExpire,
                    RegisterStart, HeartbeatKey, HeartbeatIndex, Goto, callVars
<1>2. ASSUME NEW d \in DeregisterCalls, DeregisterStop(d) \/ DeregisterGoesOn(d)
      PROVE  /\ todo'[q] = todo[q] /\ found'[q] = found[q]
             /\ before'[q] = before[q] /\ pc'[q] = pc[q]
  BY <1>0, <1>2 DEF DeregisterGoesOn, DeregisterStop, DeregisterGet, DeregisterRem, DeregisterDel,
                    Goto, callVars
<1>3. ASSUME NEW r \in DiscoverCalls, DiscoverMembers(r) \/ DiscoverGoesOn(r), r # q
      PROVE  /\ todo'[q] = todo[q] /\ found'[q] = found[q]
             /\ before'[q] = before[q] /\ pc'[q] = pc[q]
  BY <1>0, <1>3 DEF DiscoverGoesOn, DiscoverMembers, DiscoverGet, DiscoverDrop, DiscoverReturn,
                    Advance, Goto, callVars
<1>4. ASSUME NEW h \in Handles, Close(h) \/ Crash(h)
      PROVE  UNCHANGED <<todo, found, before>> /\ pc'[q] \in {pc[q], "crashed"}
  BY <1>0, <1>4 DEF Close, Crash, callVars
<1>5. ASSUME Tick \/ UNCHANGED vars PROVE UNCHANGED <<todo, found, before, pc>>
  BY <1>5 DEF Tick, vars, callVars
<1> QED
  BY <1>1, <1>2, <1>3, <1>4, <1>5 DEF Next

LEMMA CompleteStep ==
    ASSUME Shape, HeartbeatsKnown, NotesHold, GoodAreListed, [Next]_vars,
           NEW q \in DiscoverCalls, Complete(q)
    PROVE  Complete(q)'
<1> USE RegistryConfig, CallsDisjoint
<1> SUFFICES ASSUME pc'[q] \in {"next", "drop", "discovered"}, failures' = 0,
                    Handle[q] \in open', NEW g \in before'[q], Finds(q, g)'
             PROVE  \/ <<Id[g], Name[g]>> \in found'[q]
                    \/ pc'[q] # "discovered" /\ Id[g] \in todo'[q]
  BY DEF Complete
<1>0. /\ OnlyForward /\ Shape' /\ q \in Calls
      /\ pc \in [Calls -> Phases] /\ todo \in [DiscoverCalls -> SUBSET Ids]
      /\ found \in [DeregisterCalls \cup DiscoverCalls -> SUBSET (Ids \X Names)]
  BY ShapeStep, StepsForward DEF Calls, Shape, ProcessType, NoteType
<1>1. failures = 0 /\ Handle[q] \in open /\ ~ Lost(Handle[q])
  <2>1. failures \in Nat
    BY DEF Shape, ProcessType
  <2>2. failures = 0 /\ Handle[q] \in open
    BY <1>0, <2>1 DEF OnlyForward
  <2> QED
    BY <2>2 DEF Lost
<1>2. g \in RegisterCalls /\ Name[g] = Name[q] /\ Owned(g)' /\ Undisputed(g)'
  BY <1>0 DEF Finds, Shape, NoteType
<1>3. Good(g)
  <2>1. failures' + 1 < TTL
    OBVIOUS
  <2>2. Good(g)'
    BY <1>2, <2>1 DEF Good
  <2> QED
    BY <1>2, <2>2, GoodBefore
<1>4. hb[g] # "none"
  <2>1. CASE before'[q] = before[q]
    BY <2>1 DEF NotesHold
  <2>2. CASE DiscoverMembers(q)
    <3>1. before'[q] = {r \in RegisterCalls : Live(r)}
      BY <2>2 DEF DiscoverMembers, Shape, NoteType
    <3> QED
      BY <3>1 DEF Live
  <2> QED
    BY <2>1, <2>2, NotesMade
<1>5. Owned(g) /\ Finds(q, g)
  BY <1>0, <1>2, <1>3, <1>4 DEF OnlyForward, Owned, Finds, Good
<1>6. Stored(g) /\ Indexed(g) /\ (pc[q] = "drop" => stale[q] # Id[g])
  BY <1>2, <1>3, <1>5 DEF GoodAreListed, Listed
<1>7. ASSUME pc[q] \in {"next", "drop", "discovered"}
      PROVE  \/ <<Id[g], Name[g]>> \in found[q]
             \/ pc[q] # "discovered" /\ Id[g] \in todo[q]
  <2>1. before'[q] = before[q]
    BY <1>0, <1>7 DEF OnlyForward
  <2> QED
    BY <1>1, <1>5, <1>7, <2>1 DEF Complete
<1>8. CASE DiscoverMembers(q)
  <2>1. todo'[q] = index[Name[q]] /\ pc'[q] = "next"
    BY <1>0, <1>1, <1>8 DEF DiscoverMembers, Goto
  <2> QED
    BY <1>2, <1>6, <2>1 DEF Indexed
<1>9. CASE DiscoverGet(q)
  <2>1. <<Id[g], Name[g]>> \in found[q] \/ Id[g] \in todo[q]
    BY <1>7, <1>9 DEF DiscoverGet
  <2>2. found[q] \subseteq found'[q] /\ pc'[q] # "discovered"
    BY <1>0, <1>9 DEF DiscoverGet, Goto
  <2>3. PICK i \in todo[q] :
           \/ /\ found' = [found EXCEPT ![q] = @ \cup {<<i, keyName[i]>>}]
              /\ todo' = [todo EXCEPT ![q] = @ \ {i}]
           \/ UNCHANGED todo
    BY <1>1, <1>9 DEF DiscoverGet
  <2>4. CASE UNCHANGED todo
    BY <2>1, <2>2, <2>4
  <2>5. CASE /\ found' = [found EXCEPT ![q] = @ \cup {<<i, keyName[i]>>}]
             /\ todo' = [todo EXCEPT ![q] = @ \ {i}]
    <3>1. <<i, keyName[i]>> \in found'[q] /\ todo'[q] = todo[q] \ {i}
      BY <1>0, <2>5
    <3>2. i = Id[g] => <<Id[g], Name[g]>> \in found'[q]
      BY <1>6, <3>1 DEF Stored
    <3> QED
      BY <2>1, <2>2, <3>1, <3>2
  <2> QED
    BY <2>3, <2>4, <2>5
<1>10. CASE DiscoverDrop(q)
  <2>1. pc[q] = "drop" /\ pc'[q] = "next" /\ todo'[q] = todo[q] \ {stale[q]} /\ found' = found
    BY <1>0, <1>10 DEF DiscoverDrop, Advance, Goto
  <2> QED
    BY <1>6, <1>7, <2>1
<1>11. CASE DiscoverReturn(q)
  <2>1. pc[q] = "next" /\ todo[q] = {} /\ found' = found
    BY <1>11 DEF DiscoverReturn, callVars
  <2> QED
    BY <1>7, <2>1
<1>12. CASE /\ todo'[q] = todo[q] /\ found'[q] = found[q]
            /\ pc'[q] = pc[q]
  BY <1>7, <1>12
<1> QED
  BY <1>8, <1>9, <1>10, <1>11, <1>12, DiscoverPhases DEF DiscoverGoesOn

-----------------------------------------------------------------------------
(* What the registry promises. *)

LEMMA Invariance == Spec => []IInv
<1>1. Init => IInv
  <2> SUFFICES ASSUME Init PROVE IInv
    OBVIOUS
  <2>1. TypeOK /\ KeysNamed
    BY ShapeInit, ShapeIsType
  <2>2. HeartbeatsKnown
    BY RegistryConfig, CallsDisjoint DEF Init, HeartbeatsKnown, Live, Calls
  <2>3. NotesHold
    BY DEF Init, NotesHold
  <2>4. (\A d \in DeregisterCalls : Gone(d)) /\ (\A q \in DiscoverCalls : Complete(q))
    BY DEF Init, Gone, Complete, Calls
  <2>5. GoodAreListed
    BY RegistryConfig DEF Init, GoodAreListed, Listed, Owned, Live, Calls
  <2> QED
    BY <2>1, <2>2, <2>3, <2>4, <2>5 DEF IInv
<1>2. IInv /\ [Next]_vars => IInv'
  <2> SUFFICES ASSUME IInv, [Next]_vars PROVE IInv'
    OBVIOUS
  <2>1. Shape /\ HeartbeatsKnown /\ NotesHold /\ GoodAreListed
    BY ShapeIsType DEF IInv
  <2>2. TypeOK' /\ KeysNamed'
    <3>1. Shape'
      BY <2>1, ShapeStep
    <3> QED
      BY <3>1 DEF Shape, RedisType, ProcessType, NoteType, TypeOK, Phases
  <2>3. HeartbeatsKnown' /\ NotesHold' /\ GoodAreListed'
    BY <2>1, HeartbeatsStep, NotesStep, GoodStep
  <2>4. ASSUME NEW d \in DeregisterCalls PROVE Gone(d)'
    BY <2>1, GoneStep DEF IInv
  <2>5. ASSUME NEW q \in DiscoverCalls PROVE Complete(q)'
    BY <2>1, CompleteStep DEF IInv
  <2> QED
    BY <2>2, <2>3, <2>4, <2>5 DEF IInv
<1> QED
  BY <1>1, <1>2, PTL DEF Spec

(* While its process runs, an instance that one Register call made and no   *)
(* Deregister touched keeps its key and its place in the index, whatever    *)
(* the other calls, the clean-up in Discover and other instances do, when   *)
(* fewer heartbeats are lost than the TTL has intervals                     *)
(* (redis.go:101-137, 186-207, 250-262).                                    *)
THEOREM RegisteredStays == Spec => []RegisteredStaysListed
<1>1. IInv => RegisteredStaysListed
  <2> SUFFICES ASSUME IInv, MaxFailures + 1 < TTL,
                      NEW g \in RegisterCalls, Owned(g), Undisputed(g)
               PROVE  /\ keyTTL[Id[g]] > 0 /\ keyName[Id[g]] = Name[g]
                      /\ Id[g] \in index[Name[g]]
    BY DEF RegisteredStaysListed
  <2>1. failures + 1 < TTL
    <3>1. failures \in 0 .. MaxFailures /\ MaxFailures \in Nat /\ TTL \in Nat
      BY RegistryConfig DEF IInv, TypeOK
    <3> QED
      BY <3>1
  <2>2. Good(g)
    BY <2>1 DEF Good
  <2> QED
    BY <2>2 DEF IInv, GoodAreListed, Listed, Stored, Indexed
<1> QED
  BY <1>1, Invariance, PTL

(* r.heartbeats has the only heartbeat of its id that can be cancelled, how *)
(* often the id is registered again, stopped or closed (redis.go:232-286).  *)
THEOREM HeartbeatCanBeStopped == Spec => []OneHeartbeat
<1>1. IInv => OneHeartbeat
  BY DEF IInv, HeartbeatsKnown, OneHeartbeat, Owned
<1> QED
  BY <1>1, Invariance, PTL

(* After a Deregister that returned nil, with no Register of the id after   *)
(* it or under way and no command lost, the key is gone and no heartbeat of *)
(* that registry brings it back (redis.go:140-170).                         *)
THEOREM Deregistered == Spec => []DeregisteredIsGone
<1>1. IInv => DeregisteredIsGone
  <2> SUFFICES ASSUME IInv, NEW d \in DeregisterCalls, pc[d] = "deregistered",
                      failures = 0, Handle[d] \in open, Last(d)
               PROVE  /\ keyTTL[Id[d]] = 0
                      /\ \A g \in RegisterCalls :
                            Id[g] = Id[d] /\ Handle[g] = Handle[d] => ~ Owned(g)
    BY DEF DeregisteredIsGone, Last
  <2>1. Gone(d) /\ HeartbeatsKnown
    BY DEF IInv
  <2>2. heartbeats[Handle[d]][Id[d]] = Nothing /\ keyTTL[Id[d]] = 0
    BY <2>1 DEF Gone
  <2> QED
    BY <2>1, <2>2, CallsDisjoint DEF HeartbeatsKnown, Owned
<1> QED
  BY <1>1, Invariance, PTL

(* A Discover that lost no command returns every instance of the name that  *)
(* was registered from before the call to its end, also when it cleans      *)
(* expired ids up while others do (redis.go:173-210).                       *)
THEOREM DiscoverFindsAll == Spec => []DiscoverComplete
<1>1. IInv => DiscoverComplete
  BY DEF IInv, DiscoverComplete, Complete, Finds
<1> QED
  BY <1>1, Invariance, PTL

==============================================================================
