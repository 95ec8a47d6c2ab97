---------------------------- MODULE MCMemoryBus ----------------------------
(* Instances of MemoryBus for TLC. *)
EXTENDS MemoryBus, TLC

CONSTANTS orders, fills, p1, p2, p3, nested, s1, s2

(* All calls come from outside and are about one topic; one goroutine        *)
(* subscribes twice, and p2 and p3 race each other after p1...              *)
MCTopic == [p \in PublishCalls \cup SubscribeCalls |-> orders]
MCCalledBy == [p \in Calls |-> Nobody]
MCFollows == [p \in Calls |-> CASE p = s2 -> s1 [] p \in {p2, p3} -> p1 [] OTHER -> Nobody]

(* ... or a handler of a message on orders publishes to fills. *)
MCChainTopic == [p \in PublishCalls \cup SubscribeCalls |-> IF p = nested THEN fills ELSE orders]
MCChainCalledBy ==
    [p \in Calls |-> IF p = nested THEN s1 ELSE Nobody]
MCAnyOrder == [p \in Calls |-> Nobody]

=============================================================================
