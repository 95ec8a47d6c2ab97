-------------------------- MODULE MCRedisRegistry --------------------------
(* Instances of RedisRegistry for TLC. *)
EXTENDS RedisRegistry, TLC

CONSTANTS h1, h2, api1, api2, api, web, first, again, other, d, q

(* Two processes, each with an instance of api; the first registers twice; *)
(* Discover is called in the second.                                      *)
MCHandle == [p \in Calls |-> IF p \in {other, q} THEN h2 ELSE h1]
MCId == [p \in RegisterCalls \cup DeregisterCalls |-> IF p = other THEN api2 ELSE api1]
MCName == [p \in RegisterCalls \cup DiscoverCalls |-> api]

(* The instance moves from api to web. *)
MCRenamed == [p \in RegisterCalls \cup DiscoverCalls |-> IF p = again THEN web ELSE api]

=============================================================================
