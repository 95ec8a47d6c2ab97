---------------------------- MODULE RedisRegistry ----------------------------
(***************************************************************************)
(* pkg/registry/redis.go: service discovery over a shared Redis server.    *)
(* An instance is a key "registry:service:<id>" with a TTL; the ids of a   *)
(* name are a Redis set "registry:name:<name>" with a TTL of its own.      *)
(* Every command is a step; so is each critical section under r.mu.        *)
(*                                                                         *)
(* The unit of time is the heartbeat interval.  Tick waits for a Register  *)
(* and a heartbeat that are under way: it is assumed that each takes less  *)
(* than one unit.  Nothing in the code enforces that: Register has the     *)
(* caller's context and the heartbeat one without deadline, and go-redis's  *)
(* default timeouts and retries may take a slow command beyond the         *)
(* interval of ten.  Deregister and Discover may take any time.            *)
(***************************************************************************)
EXTENDS Naturals, FiniteSets

CONSTANTS
    Handles,            \* the RedisRegistry objects, each in a process of its own
    Ids, Names,
    RegisterCalls, DeregisterCalls, DiscoverCalls,
    Handle,             \* Handle[p]: the registry that call p is made on
    Id,                 \* Id[p]: the service ID of a Register or Deregister call
    Name,               \* Name[p]: the service name of a Register or Discover call
    Nothing,            \* no call, no name
    Serial,             \* TRUE: Register and Deregister calls are made one after the other
    TTL,                \* r.ttl in units of r.interval (30 s / 10 s)
    Leaving,            \* bound: the handles that may be closed or crash
    MaxFailures         \* bound: commands that are lost

Calls == RegisterCalls \cup DeregisterCalls \cup DiscoverCalls
Forever == TTL + 1      \* a key that has no TTL

ASSUME RegistryConfig ==
    /\ Handle \in [Calls -> Handles]
    /\ Id \in [RegisterCalls \cup DeregisterCalls -> Ids]
    /\ Name \in [RegisterCalls \cup DiscoverCalls -> Names]
    /\ TTL \in Nat /\ TTL > 1           \* NewRedisRegistry: interval < ttl
    /\ Leaving \subseteq Handles
    /\ MaxFailures \in Nat /\ Serial \in BOOLEAN
ASSUME CallsDisjoint ==
    /\ RegisterCalls \cap DeregisterCalls = {}
    /\ DiscoverCalls \cap (RegisterCalls \cup DeregisterCalls) = {}
    /\ Nothing \notin RegisterCalls

VARIABLES
    keyTTL, keyName,    \* the service keys: time left (0: no key) and the name in the data
    index, indexTTL,    \* the name index keys
    open,               \* the handles whose process runs and whose client is not closed
    failures,
    pc,                 \* pc[p]: where call p is
    heartbeats,         \* heartbeats[h]: r.heartbeats, the Register call it comes from per id
    hb,                 \* hb[g]: the heartbeat goroutine that Register g started
    due,                \* the heartbeats whose ticker has fired
    found,              \* found[d]: what Deregister d read; found[q]: the result of Discover q
    todo,               \* todo[q]: ids of the index that Discover q has not read yet
    stale,              \* stale[q]: the id whose key Discover q missed
    before              \* history: heartbeats live, or Register calls over, when p was made

redisVars == <<keyTTL, keyName, index, indexTTL>>
handleVars == <<open, heartbeats, hb, due>>
callVars == <<found, todo, stale>>
vars == <<redisVars, handleVars, failures, pc, callVars, before>>

Over == {"registered", "deregistered", "discovered", "failed", "crashed"}
Live(g) == hb[g] \in {"wait", "beat"}

TypeOK ==
    /\ keyTTL \in [Ids -> 0 .. Forever]
    /\ keyName \in [Ids -> Names \cup {Nothing}]
    /\ index \in [Names -> SUBSET Ids]
    /\ indexTTL \in [Names -> 0 .. Forever]
    /\ \A n \in Names : index[n] = {} <=> indexTTL[n] = 0
    /\ open \subseteq Handles
    /\ failures \in 0 .. MaxFailures
    /\ pc \in [Calls -> Over \cup {"idle", "add", "expire", "start", "get", "rem", "del",
                                   "next", "drop"}]
    /\ heartbeats \in [Handles -> [Ids -> RegisterCalls \cup {Nothing}]]
    /\ hb \in [RegisterCalls -> {"none", "wait", "beat", "ended"}]
    /\ due \subseteq RegisterCalls
    /\ found \in [DeregisterCalls \cup DiscoverCalls -> SUBSET (Ids \X Names)]
    /\ todo \in [DiscoverCalls -> SUBSET Ids]
    /\ stale \in [DiscoverCalls -> Ids \cup {Nothing}]
    /\ before \in [DeregisterCalls \cup DiscoverCalls -> SUBSET RegisterCalls]

Init ==
    /\ keyTTL = [i \in Ids |-> 0]
    /\ keyName = [i \in Ids |-> Nothing]
    /\ index = [n \in Names |-> {}]
    /\ indexTTL = [n \in Names |-> 0]
    /\ open = Handles
    /\ failures = 0
    /\ pc = [p \in Calls |-> "idle"]
    /\ heartbeats = [h \in Handles |-> [i \in Ids |-> Nothing]]
    /\ hb = [g \in RegisterCalls |-> "none"]
    /\ due = {}
    /\ found = [p \in DeregisterCalls \cup DiscoverCalls |-> {}]
    /\ todo = [q \in DiscoverCalls |-> {}]
    /\ stale = [q \in DiscoverCalls |-> Nothing]
    /\ before = [p \in DeregisterCalls \cup DiscoverCalls |-> {}]

Goto(p, phase) == pc' = [pc EXCEPT ![p] = phase]

MayChange ==
    Serial => \A p \in RegisterCalls \cup DeregisterCalls : pc[p] \in Over \cup {"idle"}

-----------------------------------------------------------------------------
(* Redis, as the commands of the registry use it. *)

StoreForever == Forever                 \* mutant: SET without the TTL

SetTTL == TTL

Set(i, n) ==
    /\ keyTTL' = [keyTTL EXCEPT ![i] = SetTTL]
    /\ keyName' = [keyName EXCEPT ![i] = n]
    /\ UNCHANGED <<index, indexTTL>>

(* A set that SADD creates has no TTL until EXPIRE gives it one. *)
SAdd(n, i) ==
    /\ index' = [index EXCEPT ![n] = @ \cup {i}]
    /\ indexTTL' = [indexTTL EXCEPT ![n] = IF @ = 0 THEN Forever ELSE @]
    /\ UNCHANGED <<keyTTL, keyName>>

(* A set that loses its last member is deleted. *)
SRem(n, i) ==
    /\ index' = [index EXCEPT ![n] = @ \ {i}]
    /\ indexTTL' = [indexTTL EXCEPT ![n] = IF index[n] \subseteq {i} THEN 0 ELSE @]
    /\ UNCHANGED <<keyTTL, keyName>>

Del(i) ==
    /\ keyTTL' = [keyTTL EXCEPT ![i] = 0]
    /\ keyName' = [keyName EXCEPT ![i] = Nothing]
    /\ UNCHANGED <<index, indexTTL>>

(* EXPIRE does nothing to a key that is not there. *)
Refreshed(left) == IF left = 0 THEN 0 ELSE TTL

ExpireKey(i) ==
    /\ keyTTL' = [keyTTL EXCEPT ![i] = Refreshed(@)]
    /\ UNCHANGED <<keyName, index, indexTTL>>

ExpireIndex(n) ==
    /\ indexTTL' = [indexTTL EXCEPT ![n] = Refreshed(@)]
    /\ UNCHANGED <<keyTTL, keyName, index>>

(* A command of handle h is answered, or the command or its answer is lost *)
(* and the caller sees an error.  A closed client sends nothing.           *)
Answered(h) == h \in open /\ UNCHANGED failures

Lost(h) ==
    IF h \in open
       THEN failures < MaxFailures /\ failures' = failures + 1
       ELSE UNCHANGED failures

-----------------------------------------------------------------------------
(* Register. *)

RegisterSet(g) ==
    /\ pc[g] = "idle"
    /\ MayChange
    /\ Handle[g] \in open
    /\ \/ Answered(Handle[g]) /\ Set(Id[g], Name[g]) /\ Goto(g, "add")
       \/ /\ Lost(Handle[g])
          /\ Set(Id[g], Name[g]) \/ UNCHANGED redisVars
          /\ Goto(g, "failed")
    /\ UNCHANGED <<handleVars, callVars, before>>

RegisterAdd(g) ==
    /\ pc[g] = "add"
    /\ \/ Answered(Handle[g]) /\ SAdd(Name[g], Id[g]) /\ Goto(g, "expire")
       \/ /\ Lost(Handle[g])
          /\ (Handle[g] \in open /\ SAdd(Name[g], Id[g])) \/ UNCHANGED redisVars
          /\ Goto(g, "failed")
    /\ UNCHANGED <<handleVars, callVars, before>>

RegisterExpire(g) ==
    /\ pc[g] = "expire"
    /\ \/ Answered(Handle[g]) /\ ExpireIndex(Name[g]) /\ Goto(g, "start")
       \/ /\ Lost(Handle[g])
          /\ (Handle[g] \in open /\ ExpireIndex(Name[g])) \/ UNCHANGED redisVars
          /\ Goto(g, "failed")
    /\ UNCHANGED <<handleVars, callVars, before>>

(* A heartbeat that is cancelled sends nothing more. *)
EndHeartbeat(old, f) == IF old = Nothing THEN f ELSE [f EXCEPT ![old] = "ended"]

(* startHeartbeat *)
RegisterStart(g) ==
    LET h == Handle[g]
        old == heartbeats[h][Id[g]]
    IN  /\ pc[g] = "start"
        /\ hb' = [EndHeartbeat(old, hb) EXCEPT ![g] = "wait"]
        /\ heartbeats' = [heartbeats EXCEPT ![h][Id[g]] = g]
        /\ Goto(g, "registered")
        /\ UNCHANGED <<redisVars, open, due, failures, callVars, before>>

-----------------------------------------------------------------------------
(* Deregister. *)

(* stopHeartbeat *)
DeregisterStop(d) ==
    LET h == Handle[d]
        old == heartbeats[h][Id[d]]
    IN  /\ pc[d] = "idle"
        /\ MayChange
        /\ h \in open
        /\ hb' = EndHeartbeat(old, hb)
        /\ heartbeats' = [heartbeats EXCEPT ![h][Id[d]] = Nothing]
        /\ before' = [before EXCEPT ![d] = {g \in RegisterCalls : pc[g] \in Over}]
        /\ Goto(d, "get")
        /\ UNCHANGED <<redisVars, open, due, failures, callVars>>

(* A value that does not unmarshal (redis.go:155-160, 193-196) is in no     *)
(* state: only Register writes these keys, and what it marshals can be read.*)
DeregisterGet(d) ==
    /\ pc[d] = "get"
    /\ \/ /\ Answered(Handle[d])
          /\ IF keyTTL[Id[d]] = 0
                THEN Goto(d, "deregistered") /\ UNCHANGED found
                ELSE /\ found' = [found EXCEPT ![d] = {<<Id[d], keyName[Id[d]]>>}]
                     /\ Goto(d, "rem")
       \/ Lost(Handle[d]) /\ Goto(d, "failed") /\ UNCHANGED found
    /\ UNCHANGED <<redisVars, handleVars, todo, stale, before>>

(* The errors of SREM and DEL are ignored. *)
DeregisterRem(d) ==
    /\ pc[d] = "rem"
    /\ \/ Answered(Handle[d]) /\ \E e \in found[d] : SRem(e[2], Id[d])
       \/ Lost(Handle[d]) /\ UNCHANGED redisVars
    /\ Goto(d, "del")
    /\ UNCHANGED <<handleVars, callVars, before>>

OnlyIndex(i) == UNCHANGED redisVars     \* mutant: the key is left to its TTL

RemoveKey(i) == Del(i)

DeregisterDel(d) ==
    /\ pc[d] = "del"
    /\ \/ Answered(Handle[d]) /\ RemoveKey(Id[d])
       \/ Lost(Handle[d]) /\ UNCHANGED redisVars
    /\ Goto(d, "deregistered")
    /\ UNCHANGED <<handleVars, callVars, before>>

-----------------------------------------------------------------------------
(* Discover. *)

DiscoverMembers(q) ==
    /\ pc[q] = "idle"
    /\ Handle[q] \in open
    /\ before' = [before EXCEPT ![q] = {g \in RegisterCalls : Live(g)}]
    /\ \/ /\ Answered(Handle[q])
          /\ todo' = [todo EXCEPT ![q] = index[Name[q]]]
          /\ Goto(q, "next")
       \/ Lost(Handle[q]) /\ Goto(q, "failed") /\ UNCHANGED todo
    /\ UNCHANGED <<redisVars, handleVars, found, stale>>

GivesUp(q, i) == todo' = [todo EXCEPT ![q] = {}]    \* mutant: return for continue

Advance(q, i) == todo' = [todo EXCEPT ![q] = @ \ {i}]

(* GET of one id; an id whose GET fails is left out of the result. *)
DiscoverGet(q) ==
    /\ pc[q] = "next"
    /\ \E i \in todo[q] :
          \/ /\ Answered(Handle[q])
             /\ keyTTL[i] > 0
             /\ found' = [found EXCEPT ![q] = @ \cup {<<i, keyName[i]>>}]
             /\ todo' = [todo EXCEPT ![q] = @ \ {i}]
             /\ UNCHANGED <<pc, stale>>
          \/ /\ Answered(Handle[q])
             /\ keyTTL[i] = 0
             /\ stale' = [stale EXCEPT ![q] = i]
             /\ Goto(q, "drop")
             /\ UNCHANGED <<found, todo>>
          \/ /\ Lost(Handle[q])
             /\ todo' = [todo EXCEPT ![q] = @ \ {i}]
             /\ UNCHANGED <<pc, found, stale>>
    /\ UNCHANGED <<redisVars, handleVars, before>>

(* SREM of an id whose key was gone when it was read. *)
DiscoverDrop(q) ==
    /\ pc[q] = "drop"
    /\ \/ Answered(Handle[q]) /\ SRem(Name[q], stale[q])
       \/ Lost(Handle[q]) /\ UNCHANGED redisVars
    /\ Advance(q, stale[q])
    /\ Goto(q, "next")
    /\ UNCHANGED <<handleVars, found, stale, before>>

DiscoverReturn(q) ==
    /\ pc[q] = "next"
    /\ todo[q] = {}
    /\ Goto(q, "discovered")
    /\ UNCHANGED <<redisVars, handleVars, failures, callVars, before>>

-----------------------------------------------------------------------------
(* The heartbeat that Register g started. *)

HeartbeatKey(g) ==
    /\ hb[g] = "wait"
    /\ g \in due
    /\ hb' = [hb EXCEPT ![g] = "beat"]
    /\ \/ Answered(Handle[g]) /\ ExpireKey(Id[g])
       \/ Lost(Handle[g]) /\ UNCHANGED redisVars
    /\ UNCHANGED <<open, heartbeats, due, pc, callVars, before>>

HeartbeatKeyOnly(g) ==                  \* mutant: the index is left to its TTL
    /\ hb[g] = "beat"
    /\ hb' = [hb EXCEPT ![g] = "wait"]
    /\ due' = due \ {g}
    /\ UNCHANGED <<redisVars, failures, open, heartbeats, pc, callVars, before>>

HeartbeatIndex(g) ==
    /\ hb[g] = "beat"
    /\ hb' = [hb EXCEPT ![g] = "wait"]
    /\ due' = due \ {g}
    /\ \/ Answered(Handle[g]) /\ ExpireIndex(Name[g])
       \/ Lost(Handle[g]) /\ UNCHANGED redisVars
    /\ UNCHANGED <<open, heartbeats, pc, callVars, before>>

-----------------------------------------------------------------------------
(* Close cancels the heartbeats in r.heartbeats and closes the client. *)
Close(h) ==
    /\ h \in open \cap Leaving
    /\ open' = open \ {h}
    /\ hb' = [g \in RegisterCalls |->
                IF \E i \in Ids : heartbeats[h][i] = g THEN "ended" ELSE hb[g]]
    /\ heartbeats' = [heartbeats EXCEPT ![h] = [i \in Ids |-> Nothing]]
    /\ UNCHANGED <<redisVars, due, failures, pc, callVars, before>>

(* The process ends with all its goroutines. *)
Crash(h) ==
    /\ h \in open \cap Leaving
    /\ open' = open \ {h}
    /\ hb' = [g \in RegisterCalls |-> IF Handle[g] = h /\ Live(g) THEN "ended" ELSE hb[g]]
    /\ heartbeats' = [heartbeats EXCEPT ![h] = [i \in Ids |-> Nothing]]
    /\ pc' = [p \in Calls |-> IF Handle[p] = h /\ pc[p] \notin Over THEN "crashed" ELSE pc[p]]
    /\ UNCHANGED <<redisVars, due, failures, callVars, before>>

Registering(g) == pc[g] \in {"add", "expire", "start"}

Left(ttl) == IF ttl \in {0, Forever} THEN ttl ELSE ttl - 1

(* One interval passes: keys expire and tickers fire. *)
Tick ==
    /\ \A g \in RegisterCalls : ~ Registering(g) /\ ~ (Live(g) /\ g \in due)
    /\ keyTTL' = [i \in Ids |-> Left(keyTTL[i])]
    /\ keyName' = [i \in Ids |-> IF Left(keyTTL[i]) = 0 THEN Nothing ELSE keyName[i]]
    /\ indexTTL' = [n \in Names |-> Left(indexTTL[n])]
    /\ index' = [n \in Names |-> IF Left(indexTTL[n]) = 0 THEN {} ELSE index[n]]
    /\ due' = {g \in RegisterCalls : Live(g)}
    /\ UNCHANGED <<open, heartbeats, hb, failures, pc, callVars, before>>

RegisterGoesOn(g) == RegisterAdd(g) \/ RegisterExpire(g) \/ RegisterStart(g)
DeregisterGoesOn(d) == DeregisterGet(d) \/ DeregisterRem(d) \/ DeregisterDel(d)
DiscoverGoesOn(q) == DiscoverGet(q) \/ DiscoverDrop(q) \/ DiscoverReturn(q)
Heartbeat(g) == HeartbeatKey(g) \/ HeartbeatIndex(g)

Next ==
    \/ \E g \in RegisterCalls : RegisterSet(g) \/ RegisterGoesOn(g) \/ Heartbeat(g)
    \/ \E d \in DeregisterCalls : DeregisterStop(d) \/ DeregisterGoesOn(d)
    \/ \E q \in DiscoverCalls : DiscoverMembers(q) \/ DiscoverGoesOn(q)
    \/ \E h \in Handles : Close(h) \/ Crash(h)
    \/ Tick

Spec == Init /\ [][Next]_vars

(* Register calls and heartbeats run, and time passes. *)
Fairness ==
    /\ \A g \in RegisterCalls : WF_vars(RegisterGoesOn(g)) /\ WF_vars(Heartbeat(g))
    /\ WF_vars(Tick)

FairSpec == Spec /\ Fairness

-----------------------------------------------------------------------------
SameId(g) == {p \in RegisterCalls : p # g /\ Id[p] = Id[g]}

Owned(g) == Live(g) /\ Handle[g] \in open

(* Made by one Register call and nobody's Deregister. *)
Undisputed(g) ==
    /\ \A p \in SameId(g) : pc[p] = "idle"
    /\ \A d \in DeregisterCalls : Id[d] = Id[g] => pc[d] = "idle"

(* "The service remains registered until explicitly deregistered": while    *)
(* its process runs, heartbeats that are lost for less than the TTL cost it *)
(* nothing, neither its key nor its place in the index, whatever Discover   *)
(* calls clean up and other instances do (redis.go:101-137, 250-262).       *)
RegisteredStaysListed ==
    MaxFailures + 1 < TTL =>
        \A g \in RegisterCalls : Owned(g) /\ Undisputed(g) =>
            /\ keyTTL[Id[g]] > 0 /\ keyName[Id[g]] = Name[g]
            /\ Id[g] \in index[Name[g]]

(* A heartbeat can be stopped: r.heartbeats has the only one of its id, how *)
(* often the id is registered again (redis.go:232-244).                     *)
OneHeartbeat ==
    \A g \in RegisterCalls : Owned(g) => heartbeats[Handle[g]][Id[g]] = g

(* Once Deregister returned nil, and no Register of the id came after or    *)
(* was under way, nobody finds the instance and nothing keeps it alive,     *)
(* unless a command was lost (redis.go:140-170).                            *)
DeregisteredIsGone ==
    \A d \in DeregisterCalls :
        /\ pc[d] = "deregistered" /\ failures = 0 /\ Handle[d] \in open
        /\ \A g \in RegisterCalls : Id[g] = Id[d] => pc[g] = "idle" \/ g \in before[d]
        => /\ keyTTL[Id[d]] = 0
           /\ \A g \in RegisterCalls : Id[g] = Id[d] /\ Handle[g] = Handle[d] => ~ Owned(g)

(* Discover leaves out no instance that was registered all the time, also   *)
(* when it meets expired ones and cleans the index up (redis.go:186-207).   *)
DiscoverComplete ==
    \A q \in DiscoverCalls : pc[q] = "discovered" /\ failures = 0 /\ Handle[q] \in open =>
        \A g \in before[q] : Owned(g) /\ Undisputed(g) /\ Name[g] = Name[q] =>
            <<Id[g], Name[g]>> \in found[q]

(* An instance whose process is gone is forgotten, unless it is registered  *)
(* again: no heartbeat of another instance and no half-done Register keeps  *)
(* its key (redis.go:117-121, 250-262).                                     *)
DeadIsForgotten ==
    \A i \in Ids :
        keyTTL[i] > 0 ~>
            \/ keyTTL[i] = 0
            \/ \E g \in RegisterCalls : Id[g] = i /\ Owned(g)

(* Doc of Registry: a registered service "remains registered until          *)
(* explicitly deregistered or its TTL expires" (registry.go:38), also one   *)
(* that was deregistered before, with one caller and no command lost.       *)
RegisteredIsDiscoverable ==
    \A g \in RegisterCalls :
        /\ Serial /\ failures = 0 /\ Owned(g)
        /\ \A d \in DeregisterCalls : Id[d] = Id[g] /\ pc[d] # "idle" => g \notin before[d]
        => keyTTL[Id[g]] > 0 /\ Id[g] \in index[Name[g]]

(* Doc of Registry: "Discover returns all healthy instances of a service by *)
(* name" (registry.go:47): it returns no instance that was registered under *)
(* another name before the call was made.                                   *)
DiscoveredByName ==
    \A q \in DiscoverCalls : \A e \in found[q] : \A g \in before[q] :
        Live(g) /\ Id[g] = e[1] => Name[g] = Name[q]

=============================================================================
