------------------------------ MODULE BusProofs ------------------------------
(***************************************************************************)
(* Properties of the two buses of pkg/bus: of the in-memory bus for every  *)
(* set of calls and topics, any calls made by handlers and every size of   *)
(* the channels; of the JetStream bus for any events, subscribers,         *)
(* attempts, deliveries and lost acks.                                     *)
(***************************************************************************)
EXTENDS MemoryBus, Delivery, FiniteSetTheorems, SequenceTheorems, TLAPS

-----------------------------------------------------------------------------
LEMMA TypeInit == Init => TypeOK
<1> SUFFICES ASSUME Init PROVE TypeOK
  OBVIOUS
<1>1. \A S : <<>> \in Seq(S) /\ Len(<<>>) = 0
  OBVIOUS
<1>2. /\ subscriptions \in [Topics -> Seq(SubscribeCalls)]
      /\ targets \in [PublishCalls -> Seq(SubscribeCalls)]
      /\ buffer \in [SubscribeCalls -> Seq(PublishCalls)]
      /\ handled \in [SubscribeCalls -> Seq(PublishCalls)]
  BY <1>1 DEF Init
<1>3. \A s \in SubscribeCalls : Len(buffer[s]) <= Capacity
  BY <1>1, CallsDescribed DEF Init
<1>4. next \in [PublishCalls -> Nat \ {0}]
  BY DEF Init
<1> QED
  BY <1>2, <1>3, <1>4 DEF Init, TypeOK

LEMMA TypeGoto ==
    ASSUME TypeOK, NEW p \in Calls,
           NEW phase \in Returned \cup {"idle", "lock", "drain", "send"}
    PROVE  Goto(p, phase) => pc' \in [Calls -> Returned \cup {"idle", "lock", "drain", "send"}]
BY DEF TypeOK, Goto

(* A Publish call that is not through has a target. *)
LEMMA TargetType ==
    ASSUME TypeOK, NEW p \in PublishCalls, Sending(p)
    PROVE  /\ next[p] \in DOMAIN targets[p]
           /\ Target(p) \in SubscribeCalls
<1>1. targets[p] \in Seq(SubscribeCalls) /\ next[p] \in Nat \ {0}
  BY DEF TypeOK
<1>2. next[p] \in 1 .. Len(targets[p]) /\ DOMAIN targets[p] = 1 .. Len(targets[p])
  BY <1>1 DEF Sending
<1> QED
  BY <1>1, <1>2 DEF Target

LEMMA TypeCall ==
    ASSUME TypeOK, NEW p \in Calls
    PROVE  Call(p) \/ Cancel(p) => TypeOK'
<1>1. ASSUME Call(p) PROVE TypeOK'
  <2>1. pc' \in [Calls -> Returned \cup {"idle", "lock", "drain", "send"}]
    BY <1>1, TypeGoto DEF Call
  <2>2. sentBefore' \in [PublishCalls -> SUBSET PublishCalls]
    BY <1>1 DEF Call, TypeOK
  <2> QED
    BY <1>1, <2>1, <2>2 DEF Call, TypeOK, lockVars, busVars, publishVars, handlerVars
<1>2. ASSUME Cancel(p) PROVE TypeOK'
  BY <1>2, CallsDescribed
     DEF Cancel, TypeOK, lockVars, busVars, publishVars, handlerVars
<1> QED
  BY <1>1, <1>2

LEMMA TypePublish ==
    ASSUME TypeOK, NEW p \in PublishCalls
    PROVE  PublishStep(p) => TypeOK'
<1>0. p \in Calls
  BY DEF Calls
<1> USE DEF lockVars, busVars, publishVars, handlerVars
<1>1. ASSUME PublishLock(p) PROVE TypeOK'
  <2>1. pc' \in [Calls -> Returned \cup {"idle", "lock", "drain", "send"}]
    BY <1>0, <1>1, TypeGoto DEF PublishLock, Returned
  <2>2. subscriptions[Topic[p]] \in Seq(SubscribeCalls)
    BY CallsDescribed DEF TypeOK
  <2>3. readers' \subseteq PublishCalls /\ targets' \in [PublishCalls -> Seq(SubscribeCalls)]
    BY <1>1, <2>2 DEF PublishLock, TypeOK
  <2> QED
    BY <1>1, <2>1, <2>3 DEF PublishLock, TypeOK
<1>2. ASSUME PublishSend(p) PROVE TypeOK'
  <2> DEFINE t == Target(p)
  <2>1. t \in SubscribeCalls /\ buffer[t] \in Seq(PublishCalls) /\ Len(buffer[t]) < Capacity
    BY <1>2, TargetType DEF PublishSend, HasRoom, TypeOK
  <2>2. buffer' = [buffer EXCEPT ![t] = Append(buffer[t], p)]
    BY <1>2 DEF PublishSend, Put
  <2>3. Append(buffer[t], p) \in Seq(PublishCalls)
        /\ Len(Append(buffer[t], p)) = Len(buffer[t]) + 1
    BY <2>1
  <2>4. buffer' \in [SubscribeCalls -> Seq(PublishCalls)]
        /\ \A s \in SubscribeCalls : Len(buffer'[s]) <= Capacity
    BY <2>1, <2>2, <2>3, CallsDescribed DEF TypeOK
  <2>5. next' \in [PublishCalls -> Nat \ {0}]
    BY <1>2 DEF PublishSend, NextTarget, TypeOK
  <2> QED
    BY <1>2, <2>4, <2>5 DEF PublishSend, TypeOK
<1>3. ASSUME PublishSkip(p) PROVE TypeOK'
  <2>1. next' \in [PublishCalls -> Nat \ {0}]
    BY <1>3 DEF PublishSkip, Skips, NextTarget, TypeOK
  <2> QED
    BY <1>3, <2>1 DEF PublishSkip, TypeOK
<1>4. ASSUME PublishCancelled(p) \/ PublishReturn(p) PROVE TypeOK'
  <2>1. pc' \in [Calls -> Returned \cup {"idle", "lock", "drain", "send"}]
    BY <1>0, <1>4, TypeGoto DEF PublishCancelled, PublishReturn, Returned
  <2> QED
    BY <1>4, <2>1 DEF PublishCancelled, PublishReturn, TypeOK
<1> QED
  BY <1>1, <1>2, <1>3, <1>4 DEF PublishStep

LEMMA TypeWriter ==
    ASSUME TypeOK, NEW p \in Writers
    PROVE  WriterStep(p) => TypeOK'
<1>0. p \in Calls
  BY DEF Calls, Writers
<1> USE DEF lockVars, busVars, publishVars, handlerVars
<1>1. ASSUME WriteLock(p) PROVE TypeOK'
  <2>1. pc' \in [Calls -> Returned \cup {"idle", "lock", "drain", "send"}]
    BY <1>0, <1>1, TypeGoto DEF WriteLock
  <2> QED
    BY <1>1, <2>1 DEF WriteLock, TypeOK
<1>2. ASSUME p \in SubscribeCalls, Subscribe(p) PROVE TypeOK'
  <2>1. pc' \in [Calls -> Returned \cup {"idle", "lock", "drain", "send"}]
    BY <1>0, <1>2, TypeGoto DEF Subscribe, Returned
  <2>2. Append(subscriptions[Topic[p]], p) \in Seq(SubscribeCalls)
    BY <1>2, CallsDescribed DEF TypeOK
  <2>3. /\ subscriptions' \in [Topics -> Seq(SubscribeCalls)]
        /\ handler' \in [SubscribeCalls -> {"none", "select", "handling", "done"}]
    BY <1>2, <2>2 DEF Subscribe, TypeOK
  <2> QED
    BY <1>2, <2>1, <2>3 DEF Subscribe, TypeOK
<1>3. ASSUME Close(p) PROVE TypeOK'
  <2>1. pc' \in [Calls -> Returned \cup {"idle", "lock", "drain", "send"}]
    BY <1>0, <1>3, TypeGoto DEF Close, Returned
  <2>2. subscriptions' \in [Topics -> Seq(SubscribeCalls)]
    BY <1>3 DEF Close
  <2>3. Registered \subseteq SubscribeCalls
    BY DEF Registered, ToSet, TypeOK
  <2> QED
    BY <1>3, <2>1, <2>2, <2>3 DEF Close, TypeOK
<1> QED
  BY <1>1, <1>2, <1>3 DEF WriterStep

LEMMA TypeHandler ==
    ASSUME TypeOK, NEW s \in SubscribeCalls
    PROVE  HandlerStep(s) => TypeOK'
<1> USE DEF lockVars, busVars, publishVars, handlerVars
<1>1. ASSUME HandlerReceive(s) PROVE TypeOK'
  <2>1. buffer[s] \in Seq(PublishCalls) /\ buffer[s] # <<>> /\ handled[s] \in Seq(PublishCalls)
        /\ Len(buffer[s]) <= Capacity
    BY <1>1 DEF HandlerReceive, TypeOK
  <2>2. /\ Tail(buffer[s]) \in Seq(PublishCalls)
        /\ Len(Tail(buffer[s])) = Len(buffer[s]) - 1
        /\ Append(handled[s], Head(buffer[s])) \in Seq(PublishCalls)
    BY <2>1
  <2>3. /\ buffer' \in [SubscribeCalls -> Seq(PublishCalls)]
        /\ \A r \in SubscribeCalls : Len(buffer'[r]) <= Capacity
        /\ handled' \in [SubscribeCalls -> Seq(PublishCalls)]
    BY <1>1, <2>1, <2>2, CallsDescribed DEF HandlerReceive, TypeOK
  <2> QED
    BY <1>1, <2>3 DEF HandlerReceive, TypeOK
<1>2. ASSUME HandlerReturns(s) \/ HandlerExit(s) PROVE TypeOK'
  BY <1>2 DEF HandlerReturns, HandlerExit, TypeOK
<1> QED
  BY <1>1, <1>2 DEF HandlerStep

LEMMA TypeStutter == TypeOK /\ UNCHANGED vars => TypeOK'
BY DEF TypeOK, vars, lockVars, busVars, publishVars, handlerVars

LEMMA CancellableCalls == Cancellable \subseteq Calls
BY CallsDescribed DEF Calls, Writers

(* The state stays well formed; no channel holds more than its capacity.    *)
THEOREM TypeCorrect == Spec => []TypeOK
<1>1. TypeOK /\ [Next]_vars => TypeOK'
  BY TypeCall, TypePublish, TypeWriter, TypeHandler, TypeStutter, CancellableCalls DEF Next
<1> QED
  BY TypeInit, <1>1, PTL DEF Spec

-----------------------------------------------------------------------------
(* No send on a closed channel.  A publisher that sends holds the read      *)
(* lock, so Close is not between it and the subscriptions it read: all of   *)
(* them are still registered, and what is registered is not closed.         *)

SendersRead ==
    \A p \in PublishCalls : pc[p] = "send" <=> p \in readers

OpenWhileRegistered ==
    \A s \in SubscribeCalls :
        /\ s \in Registered => s \notin chClosed
        /\ s \in Registered \cup chClosed => pc[s] = "subscribed"

TargetsRegistered ==
    \A p \in PublishCalls : \A i \in DOMAIN targets[p] :
        /\ pc[targets[p][i]] = "subscribed"
        /\ pc[p] = "send" => targets[p][i] \in Registered

LockInv == SendersRead /\ OpenWhileRegistered /\ TargetsRegistered

LEMMA RegisteredType == TypeOK => Registered \subseteq SubscribeCalls
BY DEF Registered, ToSet, TypeOK

LEMMA LockInvInit == Init => LockInv
<1> SUFFICES ASSUME Init PROVE LockInv
  OBVIOUS
<1>1. Registered = {}
  BY DEF Registered, ToSet, Init
<1> QED
  BY <1>1 DEF Init, LockInv, SendersRead, OpenWhileRegistered, TargetsRegistered, Calls

Waits(p) ==
    \/ pc'[p] = pc[p]
    \/ pc[p] \in {"idle", "lock", "drain"} /\ pc'[p] # "send"

LEMMA AppendRange ==
    ASSUME NEW S, NEW seq \in Seq(S), NEW e \in S
    PROVE  ToSet(Append(seq, e)) = ToSet(seq) \cup {e}
<1>1. /\ DOMAIN seq = 1 .. Len(seq) /\ Len(seq) \in Nat
      /\ DOMAIN Append(seq, e) = 1 .. Len(seq) + 1
      /\ Append(seq, e)[Len(seq) + 1] = e
      /\ \A i \in 1 .. Len(seq) : Append(seq, e)[i] = seq[i]
  OBVIOUS
<1>2. 1 .. Len(seq) + 1 = 1 .. Len(seq) \cup {Len(seq) + 1}
  BY <1>1
<1> QED
  BY <1>1, <1>2 DEF ToSet

(* A step that leaves the lock, the subscriptions and their channels alone  *)
(* and at most makes a call that is idle or waits for the lock.             *)
LEMMA LockInvFrame ==
    ASSUME TypeOK, LockInv, UNCHANGED <<readers, subscriptions, chClosed, targets>>,
           \A p \in Calls : Waits(p)
    PROVE  LockInv'
<1>1. Registered' = Registered
  BY DEF Registered
<1>2. PublishCalls \subseteq Calls /\ SubscribeCalls \subseteq Calls
  BY DEF Calls, Writers
<1>3. SendersRead'
  BY <1>2 DEF LockInv, SendersRead, Waits
<1>4. OpenWhileRegistered'
  BY <1>1, <1>2 DEF LockInv, OpenWhileRegistered, Waits
<1>5. \A p \in PublishCalls : \A i \in DOMAIN targets[p] : targets[p][i] \in SubscribeCalls
  BY DEF TypeOK
<1>6. TargetsRegistered'
  BY <1>1, <1>2, <1>5 DEF LockInv, TargetsRegistered, Waits
<1> QED
  BY <1>3, <1>4, <1>6 DEF LockInv

LEMMA LockInvPublish ==
    ASSUME TypeOK, LockInv, NEW p \in PublishCalls
    PROVE  PublishStep(p) => LockInv'
<1>0. p \in Calls /\ p \notin SubscribeCalls
  BY CallsApart DEF Calls, Writers
<1> USE DEF lockVars, busVars, publishVars, handlerVars
<1>1. ASSUME PublishLock(p), pc'[p] # "send" PROVE LockInv'
  <2>1. UNCHANGED <<readers, subscriptions, chClosed, targets>>
    BY <1>0, <1>1 DEF PublishLock, Goto, TypeOK
  <2>2. \A q \in Calls : Waits(q)
    BY <1>0, <1>1 DEF PublishLock, Goto, TypeOK, Waits
  <2> QED
    BY <2>1, <2>2, LockInvFrame
<1>2. ASSUME PublishLock(p), pc'[p] = "send" PROVE LockInv'
  <2>1. /\ readers' = readers \cup {p}
        /\ targets' = [targets EXCEPT ![p] = subscriptions[Topic[p]]]
        /\ pc' = [pc EXCEPT ![p] = "send"]
        /\ UNCHANGED <<subscriptions, chClosed>>
    BY <1>0, <1>2 DEF PublishLock, Goto, TypeOK
  <2>2. Registered' = Registered
    BY <2>1 DEF Registered
  <2>3. \A i \in DOMAIN subscriptions[Topic[p]] : subscriptions[Topic[p]][i] \in Registered
    BY CallsDescribed DEF Registered, ToSet
  <2>4. \A s \in SubscribeCalls : pc'[s] = pc[s]
    BY <1>0, <2>1
  <2>5. SendersRead'
    BY <1>0, <2>1 DEF LockInv, SendersRead, TypeOK, Calls
  <2>6. OpenWhileRegistered'
    BY <2>1, <2>2, <2>4 DEF LockInv, OpenWhileRegistered
  <2>7. TargetsRegistered'
    <3> SUFFICES ASSUME NEW q \in PublishCalls, NEW i \in DOMAIN targets'[q]
                 PROVE  /\ pc'[targets'[q][i]] = "subscribed"
                        /\ pc'[q] = "send" => targets'[q][i] \in Registered
      BY <2>2 DEF TargetsRegistered
    <3>1. CASE q = p
      <4>1. targets'[q] = subscriptions[Topic[p]]
        BY <2>1, <3>1 DEF TypeOK
      <4>2. targets'[q][i] \in Registered
        BY <2>3, <4>1
      <4>3. targets'[q][i] \in SubscribeCalls
        BY <4>2, RegisteredType
      <4> QED
        BY <2>4, <4>2, <4>3 DEF LockInv, OpenWhileRegistered
    <3>2. CASE q # p
      <4>1. targets'[q] = targets[q] /\ pc'[q] = pc[q]
        BY <2>1, <3>2 DEF TypeOK, Calls
      <4>2. targets[q][i] \in SubscribeCalls
        BY <4>1 DEF TypeOK
      <4> QED
        BY <2>4, <4>1, <4>2 DEF LockInv, TargetsRegistered
    <3> QED
      BY <3>1, <3>2
  <2> QED
    BY <2>5, <2>6, <2>7 DEF LockInv
<1>3. ASSUME PublishSend(p) \/ PublishSkip(p) PROVE LockInv'
  <2>1. UNCHANGED <<readers, subscriptions, chClosed, targets, pc>>
    BY <1>3 DEF PublishSend, PublishSkip
  <2> QED
    BY <2>1, LockInvFrame DEF Waits
<1>4. ASSUME PublishCancelled(p) \/ PublishReturn(p) PROVE LockInv'
  <2>1. /\ readers' = readers \ {p}
        /\ UNCHANGED <<subscriptions, chClosed, targets>>
        /\ \A q \in Calls : q # p => pc'[q] = pc[q]
        /\ pc'[p] # "send"
    BY <1>0, <1>4 DEF PublishCancelled, PublishReturn, Goto, TypeOK
  <2>2. Registered' = Registered
    BY <2>1 DEF Registered
  <2>3. SendersRead'
    BY <2>1 DEF LockInv, SendersRead, Calls
  <2>4. \A s \in SubscribeCalls : pc'[s] = pc[s]
    BY <1>0, <2>1 DEF Calls, Writers
  <2>5. OpenWhileRegistered'
    BY <2>1, <2>2, <2>4 DEF LockInv, OpenWhileRegistered
  <2>6. \A q \in PublishCalls : \A i \in DOMAIN targets[q] : targets[q][i] \in SubscribeCalls
    BY DEF TypeOK
  <2>7. TargetsRegistered'
    BY <2>1, <2>2, <2>4, <2>6 DEF LockInv, TargetsRegistered, Calls
  <2> QED
    BY <2>3, <2>5, <2>7 DEF LockInv
<1> QED
  BY <1>1, <1>2, <1>3, <1>4 DEF PublishStep

LEMMA LockInvWriter ==
    ASSUME TypeOK, LockInv, NEW p \in Writers
    PROVE  WriterStep(p) => LockInv'
<1>0. p \in Calls /\ p \notin PublishCalls
  BY CallsApart DEF Calls, Writers
<1> USE DEF lockVars, busVars, publishVars, handlerVars
<1>1. ASSUME WriteLock(p) PROVE LockInv'
  <2>1. UNCHANGED <<readers, subscriptions, chClosed, targets>>
        /\ \A q \in Calls : Waits(q)
    BY <1>0, <1>1 DEF WriteLock, Goto, TypeOK, Waits
  <2> QED
    BY <2>1, LockInvFrame
<1>2. ASSUME p \in SubscribeCalls, Subscribe(p), pc'[p] # "subscribed" PROVE LockInv'
  <2>1. UNCHANGED <<readers, subscriptions, chClosed, targets>>
        /\ \A q \in Calls : Waits(q)
    BY <1>0, <1>2 DEF Subscribe, Goto, TypeOK, Waits
  <2> QED
    BY <2>1, LockInvFrame
<1>3. ASSUME p \in SubscribeCalls, Subscribe(p), pc'[p] = "subscribed" PROVE LockInv'
  <2>1. /\ UNCHANGED <<readers, chClosed, targets>>
        /\ subscriptions' = [subscriptions EXCEPT ![Topic[p]] = Append(@, p)]
        /\ pc' = [pc EXCEPT ![p] = "subscribed"]
        /\ pc[p] = "drain"
    BY <1>0, <1>3 DEF Subscribe, Goto, TypeOK
  <2>2. Topic[p] \in Topics /\ subscriptions[Topic[p]] \in Seq(SubscribeCalls)
    BY <1>3, CallsDescribed DEF TypeOK
  <2>3. \A t \in Topics :
           ToSet(subscriptions'[t]) = ToSet(subscriptions[t]) \cup (IF t = Topic[p] THEN {p} ELSE {})
    <3> TAKE t \in Topics
    <3>1. CASE t = Topic[p]
      <4>1. subscriptions'[t] = Append(subscriptions[t], p)
        BY <2>1, <2>2, <3>1 DEF TypeOK
      <4>2. ToSet(Append(subscriptions[t], p)) = ToSet(subscriptions[t]) \cup {p}
        BY <1>3, <2>2, <3>1, AppendRange
      <4> QED
        BY <3>1, <4>1, <4>2
    <3>2. CASE t # Topic[p]
      BY <2>1, <3>2 DEF TypeOK
    <3> QED
      BY <3>1, <3>2
  <2>4. Registered' = Registered \cup {p}
    <3>1. Registered' = UNION {ToSet(subscriptions'[t]) : t \in Topics}
      BY DEF Registered, ToSet
    <3>2. \A s : s \in Registered' <=> \E t \in Topics : s \in ToSet(subscriptions'[t])
      BY <3>1
    <3>3. \A s : s \in Registered <=> \E t \in Topics : s \in ToSet(subscriptions[t])
      BY DEF Registered
    <3>4. \A s : s \in Registered' <=> s \in Registered \/ s = p
      <4> TAKE s
      <4>1. \A t \in Topics : s \in ToSet(subscriptions'[t]) <=>
                s \in ToSet(subscriptions[t]) \/ (t = Topic[p] /\ s = p)
        BY <2>3
      <4> QED
        BY <2>2, <3>2, <3>3, <4>1
    <3> QED
      BY <3>4
  <2>5. p \notin chClosed
    BY <1>3, <2>1 DEF LockInv, OpenWhileRegistered
  <2>6. \A q \in Calls : q # p => pc'[q] = pc[q]
    BY <2>1
  <2>7. pc'[p] = "subscribed"
    BY <1>0, <2>1 DEF TypeOK
  <2>8. SendersRead'
    BY <1>0, <2>1, <2>6 DEF LockInv, SendersRead, Calls
  <2>9. OpenWhileRegistered'
    BY <2>1, <2>4, <2>5, <2>6, <2>7 DEF LockInv, OpenWhileRegistered, Calls, Writers
  <2>10. \A q \in PublishCalls : \A i \in DOMAIN targets[q] : targets[q][i] \in SubscribeCalls
    BY DEF TypeOK
  <2>11. TargetsRegistered'
    BY <1>0, <2>1, <2>4, <2>6, <2>7, <2>10 DEF LockInv, TargetsRegistered, Calls, Writers
  <2> QED
    BY <2>8, <2>9, <2>11 DEF LockInv
<1>4. ASSUME p \in CloseCalls, Close(p) PROVE LockInv'
  <2>1. /\ readers = {} /\ UNCHANGED <<readers, targets>>
        /\ subscriptions' = [t \in Topics |-> <<>>]
        /\ chClosed' = chClosed \cup Registered
        /\ \A q \in Calls : q # p => pc'[q] = pc[q]
    BY <1>0, <1>4 DEF Close, ReadersGone, Goto, TypeOK
  <2>2. Registered' = {}
    BY <2>1 DEF Registered, ToSet
  <2>3. p \notin SubscribeCalls
    BY <1>4, CallsApart
  <2>4. SendersRead'
    BY <1>0, <2>1 DEF LockInv, SendersRead, Calls
  <2>5. OpenWhileRegistered'
    BY <2>1, <2>2, <2>3 DEF LockInv, OpenWhileRegistered, Calls, Writers
  <2>6. \A q \in PublishCalls : \A i \in DOMAIN targets[q] : targets[q][i] \in SubscribeCalls
    BY DEF TypeOK
  <2>7. \A q \in PublishCalls : pc'[q] # "send"
    BY <1>0, <2>1 DEF LockInv, SendersRead, Calls
  <2>8. TargetsRegistered'
    BY <2>1, <2>3, <2>6, <2>7 DEF LockInv, TargetsRegistered, Calls, Writers
  <2> QED
    BY <2>4, <2>5, <2>8 DEF LockInv
<1> QED
  BY <1>1, <1>2, <1>3, <1>4 DEF WriterStep

LEMMA LockInvOthers ==
    ASSUME TypeOK, LockInv,
           \/ \E p \in Calls : Call(p)
           \/ \E p \in Cancellable : Cancel(p)
           \/ \E s \in SubscribeCalls : HandlerStep(s)
           \/ UNCHANGED vars
    PROVE  LockInv'
<1> USE DEF lockVars, busVars, publishVars, handlerVars
<1>1. ASSUME NEW p \in Calls, Call(p) PROVE LockInv'
  <2>1. UNCHANGED <<readers, subscriptions, chClosed, targets>>
        /\ \A q \in Calls : Waits(q)
    BY <1>1 DEF Call, Goto, TypeOK, Waits
  <2> QED
    BY <2>1, LockInvFrame
<1>2. ASSUME \/ \E p \in Cancellable : Cancel(p)
             \/ \E s \in SubscribeCalls : HandlerStep(s)
             \/ UNCHANGED vars
      PROVE  LockInv'
  <2>1. UNCHANGED <<readers, subscriptions, chClosed, targets, pc>>
    BY <1>2 DEF Cancel, HandlerStep, HandlerReceive, HandlerReturns, HandlerExit, vars
  <2> QED
    BY <2>1, LockInvFrame DEF Waits
<1> QED
  BY <1>1, <1>2

THEOREM LockInvariant == Spec => [](TypeOK /\ LockInv)
<1>1. TypeOK /\ LockInv /\ [Next]_vars => LockInv'
  BY LockInvPublish, LockInvWriter, LockInvOthers DEF Next
<1> QED
  BY TypeCorrect, LockInvInit, <1>1, PTL DEF Spec

(* A channel is never closed while a Publish may still send on it.          *)
THEOREM ChannelsSafe == Spec => []NoSendOnClosed
<1>1. TypeOK /\ LockInv => NoSendOnClosed
  <2> SUFFICES ASSUME TypeOK, LockInv, NEW p \in PublishCalls, Sending(p)
               PROVE  Target(p) \notin chClosed
    BY DEF NoSendOnClosed
  <2>1. next[p] \in DOMAIN targets[p] /\ Target(p) \in SubscribeCalls
    BY TargetType
  <2>2. Target(p) \in Registered
    BY <2>1 DEF LockInv, TargetsRegistered, Sending, Target
  <2> QED
    BY <2>1, <2>2 DEF LockInv, OpenWhileRegistered
<1> QED
  BY LockInvariant, <1>1, PTL

-----------------------------------------------------------------------------
(* Nobody is left out.  What a Publish has passed in its slice was reached   *)
(* or has ended, and stays so: a message leaves a channel only into the      *)
(* hands of the handler.                                                     *)

Reached(s, p) ==
    handler[s] = "done" \/ p \in ToSet(handled[s]) \/ p \in ToSet(buffer[s])

PassedAreReached ==
    \A p \in PublishCalls :
        /\ pc[p] \in {"idle", "lock"} => next[p] = 1
        /\ pc[p] = "sent" => next[p] > Len(targets[p])
        /\ \A i \in DOMAIN targets[p] : i < next[p] => Reached(targets[p][i], p)

LEMMA HeadTailRange ==
    ASSUME NEW S, NEW seq \in Seq(S), seq # <<>>
    PROVE  ToSet(seq) = ToSet(Tail(seq)) \cup {Head(seq)}
<1>1. /\ Len(seq) \in Nat /\ Len(seq) >= 1 /\ DOMAIN seq = 1 .. Len(seq)
      /\ DOMAIN Tail(seq) = 1 .. Len(seq) - 1
      /\ Head(seq) = seq[1]
      /\ \A i \in 1 .. Len(seq) - 1 : Tail(seq)[i] = seq[i + 1]
  OBVIOUS
<1>2. \A i \in 2 .. Len(seq) : i - 1 \in 1 .. Len(seq) - 1 /\ Tail(seq)[i - 1] = seq[i]
  BY <1>1
<1>3. ToSet(seq) \subseteq ToSet(Tail(seq)) \cup {Head(seq)}
  <2> SUFFICES ASSUME NEW i \in 1 .. Len(seq)
               PROVE  seq[i] \in ToSet(Tail(seq)) \cup {Head(seq)}
    BY <1>1 DEF ToSet
  <2>1. CASE i = 1
    BY <1>1, <2>1
  <2>2. CASE i # 1
    <3>1. i \in 2 .. Len(seq)
      BY <1>1, <2>2
    <3> QED
      BY <1>1, <1>2, <3>1 DEF ToSet
  <2> QED
    BY <2>1, <2>2
<1>4. ToSet(Tail(seq)) \cup {Head(seq)} \subseteq ToSet(seq)
  <2>1. \A i \in 1 .. Len(seq) - 1 : i + 1 \in 1 .. Len(seq)
    BY <1>1
  <2> QED
    BY <1>1, <2>1 DEF ToSet
<1> QED
  BY <1>3, <1>4

LEMMA ConcatRange ==
    ASSUME NEW S, NEW a \in Seq(S), NEW b \in Seq(S), NEW e
    PROVE  e \in ToSet(a) \/ e \in ToSet(b) => e \in ToSet(a \o b)
<1>1. /\ Len(a) \in Nat /\ Len(b) \in Nat
      /\ DOMAIN a = 1 .. Len(a) /\ DOMAIN b = 1 .. Len(b)
      /\ DOMAIN (a \o b) = 1 .. Len(a) + Len(b)
      /\ \A i \in 1 .. Len(a) : (a \o b)[i] = a[i]
      /\ \A i \in 1 .. Len(b) : (a \o b)[Len(a) + i] = b[i]
  OBVIOUS
<1>2. ASSUME e \in ToSet(a) PROVE e \in ToSet(a \o b)
  <2>1. PICK i \in 1 .. Len(a) : a[i] = e
    BY <1>1, <1>2 DEF ToSet
  <2>2. i \in 1 .. Len(a) + Len(b)
    BY <1>1
  <2> QED
    BY <1>1, <2>1, <2>2 DEF ToSet
<1>3. ASSUME e \in ToSet(b) PROVE e \in ToSet(a \o b)
  <2>1. PICK i \in 1 .. Len(b) : b[i] = e
    BY <1>1, <1>3 DEF ToSet
  <2>2. Len(a) + i \in 1 .. Len(a) + Len(b)
    BY <1>1
  <2> QED
    BY <1>1, <2>1, <2>2 DEF ToSet
<1> QED
  BY <1>2, <1>3

(* Once a subscription is made, who was reached stays reached. *)
LEMMA ReachedKept ==
    ASSUME TypeOK, [Next]_vars, NEW s \in SubscribeCalls, pc[s] = "subscribed",
           NEW p, Reached(s, p)
    PROVE  Reached(s, p)'
<1> USE DEF lockVars, busVars, publishVars, handlerVars
<1>1. ASSUME UNCHANGED handlerVars PROVE Reached(s, p)'
  BY <1>1 DEF Reached, ToSet
<1>2. ASSUME NEW q \in Calls, Call(q) PROVE Reached(s, p)'
  BY <1>1, <1>2 DEF Call
<1>3. ASSUME NEW q \in Cancellable, Cancel(q) PROVE Reached(s, p)'
  BY <1>1, <1>3 DEF Cancel
<1>4. ASSUME NEW q \in PublishCalls, PublishSend(q) PROVE Reached(s, p)'
  <2> DEFINE r == Target(q)
  <2>1. r \in SubscribeCalls /\ buffer[r] \in Seq(PublishCalls)
    BY <1>4, TargetType DEF PublishSend, TypeOK
  <2>2. /\ buffer' = [buffer EXCEPT ![r] = Append(buffer[r], q)]
        /\ UNCHANGED <<handler, handled>>
    BY <1>4 DEF PublishSend, Put
  <2>3. ToSet(buffer[s]) \subseteq ToSet(buffer'[s])
    <3>1. CASE r = s
      <4>1. buffer'[s] = Append(buffer[s], q)
        BY <2>1, <2>2, <3>1 DEF TypeOK
      <4> QED
        BY <2>1, <3>1, <4>1, AppendRange
    <3>2. CASE r # s
      BY <2>1, <2>2, <3>2 DEF TypeOK
    <3> QED
      BY <3>1, <3>2
  <2>4. ToSet(handled'[s]) = ToSet(handled[s]) /\ handler'[s] = handler[s]
    BY <2>2
  <2> QED
    BY <2>3, <2>4 DEF Reached, ToSet
<1>5. ASSUME NEW q \in PublishCalls,
             PublishLock(q) \/ PublishSkip(q) \/ PublishCancelled(q) \/ PublishReturn(q)
      PROVE  Reached(s, p)'
  BY <1>1, <1>5 DEF PublishLock, PublishSkip, PublishCancelled, PublishReturn
<1>6. ASSUME NEW q \in Writers, WriterStep(q) PROVE Reached(s, p)'
  <2>1. CASE WriteLock(q)
    BY <1>1, <2>1 DEF WriteLock
  <2>2. CASE Close(q)
    BY <1>1, <2>2 DEF Close
  <2>3. CASE q \in SubscribeCalls /\ Subscribe(q)
    <3>1. q # s
      BY <2>3 DEF Subscribe
    <3>2. handler'[s] = handler[s] /\ UNCHANGED <<buffer, handled>>
      BY <2>3, <3>1 DEF Subscribe, TypeOK
    <3> QED
      BY <3>2 DEF Reached, ToSet
  <2> QED
    BY <1>6, <2>1, <2>2, <2>3 DEF WriterStep
<1>7. ASSUME NEW r \in SubscribeCalls, HandlerReceive(r) PROVE Reached(s, p)'
  <2>1. CASE r # s
    <3>1. handler'[s] = handler[s] /\ handled'[s] = handled[s] /\ buffer'[s] = buffer[s]
      BY <1>7, <2>1 DEF HandlerReceive, TypeOK
    <3> QED
      BY <3>1 DEF Reached, ToSet
  <2>2. CASE r = s
    <3>1. /\ buffer[s] \in Seq(PublishCalls) /\ buffer[s] # <<>>
          /\ handled[s] \in Seq(PublishCalls)
          /\ buffer'[s] = Tail(buffer[s])
          /\ handled'[s] = Append(handled[s], Head(buffer[s]))
          /\ handler[s] # "done"
      BY <1>7, <2>2 DEF HandlerReceive, TypeOK
    <3>2. Head(buffer[s]) \in PublishCalls
      BY <3>1
    <3>3. ToSet(handled'[s]) = ToSet(handled[s]) \cup {Head(buffer[s])}
      BY <3>1, <3>2, AppendRange
    <3>4. ToSet(buffer[s]) = ToSet(buffer'[s]) \cup {Head(buffer[s])}
      BY <3>1, HeadTailRange
    <3> QED
      BY <3>1, <3>3, <3>4 DEF Reached, ToSet
  <2> QED
    BY <2>1, <2>2
<1>8. ASSUME NEW r \in SubscribeCalls, HandlerReturns(r) \/ HandlerExit(r)
      PROVE  Reached(s, p)'
  <2>1. UNCHANGED <<buffer, handled>> /\ (handler[s] = "done" => handler'[s] = "done")
    BY <1>8 DEF HandlerReturns, HandlerExit, TypeOK
  <2> QED
    BY <2>1 DEF Reached, ToSet
<1>9. ASSUME UNCHANGED vars PROVE Reached(s, p)'
  BY <1>1, <1>9 DEF vars
<1> QED
  BY <1>2, <1>3, <1>4, <1>5, <1>6, <1>7, <1>8, <1>9 DEF Next, PublishStep, HandlerStep

(* A step that is not one of Publish p leaves p's place in its slice. *)
LEMMA PassedFrame ==
    ASSUME TypeOK, LockInv, PassedAreReached, [Next]_vars, NEW p \in PublishCalls,
           targets'[p] = targets[p],
           \/ next'[p] = next[p]
           \/ /\ next[p] \in DOMAIN targets[p] /\ next'[p] = next[p] + 1
              /\ \E r \in SubscribeCalls : r = targets[p][next[p]] /\ Reached(r, p)'
    PROVE  \A i \in DOMAIN targets'[p] : i < next'[p] => Reached(targets[p][i], p)'
<1> SUFFICES ASSUME NEW i \in DOMAIN targets[p], i < next'[p]
             PROVE  Reached(targets[p][i], p)'
  OBVIOUS
<1>1. /\ targets[p][i] \in SubscribeCalls /\ pc[targets[p][i]] = "subscribed"
      /\ i \in Nat /\ next[p] \in Nat
  BY DEF LockInv, TargetsRegistered, TypeOK
<1>2. CASE i < next[p]
  BY <1>1, <1>2, ReachedKept DEF PassedAreReached
<1>3. CASE ~ (i < next[p])
  <2>1. i = next[p] /\ next'[p] # next[p]
    BY <1>1, <1>3
  <2>2. PICK r \in SubscribeCalls : r = targets[p][next[p]] /\ Reached(r, p)'
    BY <2>1
  <2> QED
    BY <2>1, <2>2
<1> QED
  BY <1>2, <1>3

LEMMA PassedInit == Init => PassedAreReached
BY DEF Init, PassedAreReached, Calls

LEMMA PassedPublish ==
    ASSUME TypeOK, LockInv, PassedAreReached, NEW p \in PublishCalls, PublishStep(p)
    PROVE  PassedAreReached'
<1>0. p \in Calls /\ [Next]_vars /\ PublishCalls \subseteq Calls
  BY DEF Calls, Next
<1> USE DEF lockVars, busVars, publishVars, handlerVars
<1>1. \A q \in PublishCalls : q # p =>
         pc'[q] = pc[q] /\ next'[q] = next[q] /\ targets'[q] = targets[q]
  BY <1>0 DEF PublishStep, PublishLock, PublishSend, PublishSkip, PublishCancelled,
              PublishReturn, Goto, Skips, NextTarget, TypeOK
<1>2. /\ pc'[p] \in {"idle", "lock"} => next'[p] = 1
      /\ pc'[p] = "sent" => next'[p] > Len(targets'[p])
  BY <1>0 DEF PublishStep, PublishLock, PublishSend, PublishSkip, PublishCancelled,
              PublishReturn, Goto, Sending, TypeOK
<1>3. \A i \in DOMAIN targets'[p] : i < next'[p] => Reached(targets[p][i], p)'
  <2>1. CASE PublishLock(p)
    <3>1. CASE targets' = targets
      BY <1>0, <2>1, <3>1, PassedFrame DEF PublishLock
    <3>2. CASE targets' # targets
      <4>1. next'[p] = 1 /\ targets'[p] = subscriptions[Topic[p]]
        BY <2>1, <3>2 DEF PublishLock, PassedAreReached, TypeOK
      <4>2. targets'[p] \in Seq(SubscribeCalls)
        BY <4>1, CallsDescribed DEF TypeOK
      <4>3. \A i \in DOMAIN targets'[p] : ~ (i < next'[p])
        BY <4>1, <4>2
      <4> QED
        BY <4>3
    <3> QED
      BY <3>1, <3>2
  <2>2. CASE PublishSend(p)
    <3>1. /\ next[p] \in DOMAIN targets[p] /\ Target(p) \in SubscribeCalls
          /\ buffer[Target(p)] \in Seq(PublishCalls)
      BY <2>2, TargetType DEF PublishSend, TypeOK
    <3>2. p \in ToSet(buffer'[Target(p)])
      <4>1. buffer'[Target(p)] = Append(buffer[Target(p)], p)
        BY <2>2, <3>1 DEF PublishSend, Put, TypeOK
      <4> QED
        BY <3>1, <4>1, AppendRange
    <3>3. \E r \in SubscribeCalls : r = targets[p][next[p]] /\ Reached(r, p)'
      BY <3>1, <3>2 DEF Reached, ToSet, Target
    <3>4. next'[p] = next[p] + 1 /\ targets'[p] = targets[p]
      BY <2>2 DEF PublishSend, NextTarget, TypeOK
    <3> QED
      BY <1>0, <3>1, <3>3, <3>4, PassedFrame
  <2>3. CASE PublishSkip(p)
    <3>1. next[p] \in DOMAIN targets[p] /\ Target(p) \in SubscribeCalls
      BY <2>3, TargetType DEF PublishSkip
    <3>2. \E r \in SubscribeCalls : r = targets[p][next[p]] /\ Reached(r, p)'
      BY <2>3, <3>1 DEF PublishSkip, Reached, Target
    <3>3. next'[p] = next[p] + 1 /\ targets'[p] = targets[p]
      BY <2>3 DEF PublishSkip, Skips, NextTarget, TypeOK
    <3> QED
      BY <1>0, <3>1, <3>2, <3>3, PassedFrame
  <2>4. CASE PublishCancelled(p) \/ PublishReturn(p)
    <3>1. UNCHANGED <<targets, next>>
      BY <2>4 DEF PublishCancelled, PublishReturn
    <3> QED
      BY <1>0, <3>1, PassedFrame
  <2> QED
    BY <2>1, <2>2, <2>3, <2>4 DEF PublishStep
<1>4. \A q \in PublishCalls : q # p =>
         \A i \in DOMAIN targets'[q] : i < next'[q] => Reached(targets[q][i], q)'
  BY <1>0, <1>1, PassedFrame
<1> QED
  BY <1>1, <1>2, <1>3, <1>4 DEF PassedAreReached

LEMMA PassedOthers ==
    ASSUME TypeOK, LockInv, PassedAreReached,
           \/ \E p \in Calls : Call(p)
           \/ \E p \in Cancellable : Cancel(p)
           \/ \E p \in Writers : WriterStep(p)
           \/ \E s \in SubscribeCalls : HandlerStep(s)
           \/ UNCHANGED vars
    PROVE  PassedAreReached'
<1>0. [Next]_vars /\ PublishCalls \subseteq Calls
  BY DEF Next, Calls
<1>1. UNCHANGED <<targets, next>>
  BY DEF Call, Cancel, WriterStep, WriteLock, Subscribe, Close, HandlerStep, HandlerReceive,
         HandlerReturns, HandlerExit, vars, publishVars
<1>2. \A p \in PublishCalls : pc'[p] = pc[p] \/ (pc[p] = "idle" /\ pc'[p] = "lock")
  <2>1. ASSUME NEW q \in Calls, Call(q)
        PROVE  \A p \in PublishCalls : pc'[p] = pc[p] \/ (pc[p] = "idle" /\ pc'[p] = "lock")
    BY <1>0, <2>1 DEF Call, Goto, TypeOK
  <2>2. ASSUME NEW q \in Writers, WriterStep(q)
        PROVE  \A p \in PublishCalls : pc'[p] = pc[p]
    BY <1>0, <2>2, CallsApart DEF WriterStep, WriteLock, Subscribe, Close, Goto, TypeOK
  <2> QED
    BY <2>1, <2>2 DEF Cancel, HandlerStep, HandlerReceive, HandlerReturns, HandlerExit, vars
<1>3. \A p \in PublishCalls :
         \A i \in DOMAIN targets'[p] : i < next'[p] => Reached(targets[p][i], p)'
  BY <1>0, <1>1, PassedFrame
<1> QED
  BY <1>1, <1>2, <1>3 DEF PassedAreReached

LEMMA PassedInvariant == Spec => []PassedAreReached
<1>1. TypeOK /\ LockInv /\ PassedAreReached /\ [Next]_vars => PassedAreReached'
  BY PassedPublish, PassedOthers DEF Next
<1> QED
  BY LockInvariant, PassedInit, <1>1, PTL DEF Spec

(* A Publish that returned nil left no subscriber out.                      *)
THEOREM EverySubscriberReached == Spec => []SentToAll
<1>1. TypeOK /\ LockInv /\ PassedAreReached => SentToAll
  <2> SUFFICES ASSUME TypeOK, LockInv, PassedAreReached, NEW p \in PublishCalls,
                      pc[p] = "sent", NEW i \in DOMAIN targets[p],
                      handler[targets[p][i]] # "done"
               PROVE  p \in ToSet(handled[targets[p][i]] \o buffer[targets[p][i]])
    BY DEF SentToAll
  <2>1. targets[p] \in Seq(SubscribeCalls) /\ next[p] \in Nat
    BY DEF TypeOK
  <2>2. i < next[p]
    BY <2>1 DEF PassedAreReached
  <2>3. targets[p][i] \in SubscribeCalls /\ Reached(targets[p][i], p)
    BY <2>1, <2>2 DEF PassedAreReached
  <2>4. /\ handled[targets[p][i]] \in Seq(PublishCalls)
        /\ buffer[targets[p][i]] \in Seq(PublishCalls)
    BY <2>3 DEF TypeOK
  <2> QED
    BY <2>3, <2>4, ConcatRange DEF Reached
<1> QED
  BY LockInvariant, PassedInvariant, <1>1, PTL

-----------------------------------------------------------------------------
(* The order of the messages.  A subscription is in a slice once, so a       *)
(* Publish that has not passed it yet is not among the messages it has       *)
(* seen; and a message is only ever added behind those, at a moment when its *)
(* Publish has not returned.                                                 *)

Seen(s) == handled[s] \o buffer[s]

HasPassed(p, s) == \E k \in DOMAIN targets[p] : k < next[p] /\ targets[p][k] = s

Distinct(seq) == \A i, j \in DOMAIN seq : seq[i] = seq[j] => i = j

SubscribedOnce ==
    /\ \A t \in Topics : Distinct(subscriptions[t])
    /\ \A p \in PublishCalls : Distinct(targets[p])

SeenHavePassed == \A s \in SubscribeCalls : \A i \in DOMAIN Seen(s) : HasPassed(Seen(s)[i], s)

SentBeforeIsSent == \A p \in PublishCalls : \A q \in sentBefore[p] : pc[q] = "sent"

OrderInv == SubscribedOnce /\ SeenHavePassed /\ SentBeforeIsSent /\ PublishOrderKept

LEMMA SeenType ==
    ASSUME TypeOK, NEW s \in SubscribeCalls
    PROVE  Seen(s) \in Seq(PublishCalls)
BY DEF TypeOK, Seen

LEMMA AppendMovesBracket ==
    ASSUME NEW S, NEW a \in Seq(S), NEW b \in Seq(S), NEW e \in S
    PROVE  a \o Append(b, e) = Append(a \o b, e)
OBVIOUS

LEMMA HeadMovesOver ==
    ASSUME NEW S, NEW a \in Seq(S), NEW b \in Seq(S), b # <<>>
    PROVE  Append(a, Head(b)) \o Tail(b) = a \o b
OBVIOUS

(* Only a send changes what a subscription has seen, and adds to its end. *)
LEMMA SeenStep ==
    ASSUME TypeOK, [Next]_vars, NEW s \in SubscribeCalls
    PROVE  \/ Seen(s)' = Seen(s)
           \/ \E p \in PublishCalls :
                 PublishSend(p) /\ Target(p) = s /\ Seen(s)' = Append(Seen(s), p)
<1> USE DEF lockVars, busVars, publishVars, handlerVars
<1>1. ASSUME UNCHANGED <<buffer, handled>> PROVE Seen(s)' = Seen(s)
  BY <1>1 DEF Seen
<1>2. ASSUME NEW q \in PublishCalls, PublishSend(q)
      PROVE  Seen(s)' = Seen(s) \/ (Target(q) = s /\ Seen(s)' = Append(Seen(s), q))
  <2>1. /\ Target(q) \in SubscribeCalls
        /\ buffer' = [buffer EXCEPT ![Target(q)] = Append(buffer[Target(q)], q)]
        /\ handled' = handled
    BY <1>2, TargetType DEF PublishSend, Put
  <2>2. CASE Target(q) = s
    <3>1. buffer'[s] = Append(buffer[s], q) /\ handled'[s] = handled[s]
      BY <2>1, <2>2 DEF TypeOK
    <3>2. buffer[s] \in Seq(PublishCalls) /\ handled[s] \in Seq(PublishCalls)
      BY DEF TypeOK
    <3>3. handled[s] \o Append(buffer[s], q) = Append(handled[s] \o buffer[s], q)
      <4>1. \A a, b \in Seq(PublishCalls) : a \o Append(b, q) = Append(a \o b, q)
        BY AppendMovesBracket
      <4> QED
        BY <3>2, <4>1
    <3>4. handled'[s] \o buffer'[s] = Append(handled[s] \o buffer[s], q)
      BY <3>1, <3>3
    <3> QED
      BY <2>2, <3>4 DEF Seen
  <2>3. CASE Target(q) # s
    <3>1. buffer'[s] = buffer[s] /\ handled'[s] = handled[s]
      BY <2>1, <2>3 DEF TypeOK
    <3> QED
      BY <3>1 DEF Seen
  <2> QED
    BY <2>2, <2>3
<1>3. ASSUME NEW r \in SubscribeCalls, HandlerReceive(r) PROVE Seen(s)' = Seen(s)
  <2>1. CASE r # s
    BY <1>3, <2>1 DEF HandlerReceive, Seen, TypeOK
  <2>2. CASE r = s
    <3>1. /\ buffer[s] \in Seq(PublishCalls) /\ buffer[s] # <<>>
          /\ handled[s] \in Seq(PublishCalls)
          /\ buffer'[s] = Tail(buffer[s])
          /\ handled'[s] = Append(handled[s], Head(buffer[s]))
      BY <1>3, <2>2 DEF HandlerReceive, TypeOK
    <3> QED
      BY <3>1, HeadMovesOver DEF Seen
  <2> QED
    BY <2>1, <2>2
<1>4. ASSUME \/ \E p \in Calls : Call(p)
             \/ \E p \in Cancellable : Cancel(p)
             \/ \E p \in PublishCalls : PublishLock(p) \/ PublishSkip(p)
                                           \/ PublishCancelled(p) \/ PublishReturn(p)
             \/ \E p \in Writers : WriterStep(p)
             \/ \E r \in SubscribeCalls : HandlerReturns(r) \/ HandlerExit(r)
             \/ UNCHANGED vars
      PROVE  Seen(s)' = Seen(s)
  BY <1>1, <1>4 DEF Call, Cancel, PublishLock, PublishSkip, PublishCancelled, PublishReturn,
     WriterStep, WriteLock, Subscribe, Close, HandlerReturns, HandlerExit, vars
<1> QED
  BY <1>2, <1>3, <1>4 DEF Next, PublishStep, HandlerStep

(* The slice of a Publish that has begun stays, and its place moves on. *)
LEMMA PassedStays ==
    ASSUME TypeOK, PassedAreReached, [Next]_vars, NEW p \in PublishCalls, NEW s,
           HasPassed(p, s)
    PROVE  HasPassed(p, s)' /\ pc[p] \notin {"idle", "lock"}
<1> USE DEF lockVars, busVars, publishVars, handlerVars
<1>1. PICK k \in DOMAIN targets[p] : k < next[p] /\ targets[p][k] = s
  BY DEF HasPassed
<1>2. k \in Nat \ {0} /\ next[p] \in Nat
  BY DEF TypeOK
<1>3. pc[p] \notin {"idle", "lock"}
  BY <1>1, <1>2 DEF PassedAreReached
<1>4. targets'[p] = targets[p]
  BY <1>3 DEF Next, Call, Cancel, PublishStep, PublishLock, PublishSend, PublishSkip,
     PublishCancelled, PublishReturn, WriterStep, WriteLock, Subscribe, Close, HandlerStep,
     HandlerReceive, HandlerReturns, HandlerExit, vars, TypeOK
<1>5. next'[p] \in {next[p], next[p] + 1}
  BY DEF Next, Call, Cancel, PublishStep, PublishLock, PublishSend, PublishSkip,
     PublishCancelled, PublishReturn, WriterStep, WriteLock, Subscribe, Close, HandlerStep,
     HandlerReceive, HandlerReturns, HandlerExit, vars, TypeOK, Skips, NextTarget
<1> QED
  BY <1>1, <1>2, <1>3, <1>4, <1>5 DEF HasPassed

LEMMA SentBeforeStep ==
    ASSUME TypeOK, SentBeforeIsSent, [Next]_vars
    PROVE  /\ SentBeforeIsSent'
           /\ \A p \in PublishCalls : pc[p] # "idle" => sentBefore'[p] = sentBefore[p]
<1> USE DEF lockVars, busVars, publishVars, handlerVars
<1>0. PublishCalls \subseteq Calls
  BY DEF Calls
<1>1. \A q \in PublishCalls : pc[q] = "sent" => pc'[q] = "sent"
  <2>1. ASSUME NEW r \in Calls, pc[r] # "sent", NEW phase, Goto(r, phase)
        PROVE  \A q \in PublishCalls : pc[q] = "sent" => pc'[q] = "sent"
    BY <1>0, <2>1 DEF Goto, TypeOK
  <2>2. ASSUME NEW r \in Calls, Call(r) PROVE pc[r] # "sent" /\ \E phase : Goto(r, phase)
    BY <2>2 DEF Call
  <2>3. ASSUME NEW r \in PublishCalls, PublishStep(r)
        PROVE  UNCHANGED pc \/ (pc[r] # "sent" /\ \E phase : Goto(r, phase))
    BY <2>3 DEF PublishStep, PublishLock, PublishSend, PublishSkip, PublishCancelled,
       PublishReturn, Sending
  <2>4. ASSUME NEW r \in Writers, WriterStep(r)
        PROVE  pc[r] # "sent" /\ \E phase : Goto(r, phase)
    BY <2>4 DEF WriterStep, WriteLock, Subscribe, Close
  <2>5. ASSUME \/ \E p \in Cancellable : Cancel(p)
               \/ \E r \in SubscribeCalls : HandlerStep(r)
               \/ UNCHANGED vars
        PROVE  UNCHANGED pc
    BY <2>5 DEF Cancel, HandlerStep, HandlerReceive, HandlerReturns, HandlerExit, vars
  <2>6. Writers \subseteq Calls
    BY DEF Calls, Writers
  <2> QED
    BY <1>0, <2>1, <2>2, <2>3, <2>4, <2>5, <2>6 DEF Next
<1>2. CASE sentBefore' = sentBefore
  BY <1>1, <1>2 DEF SentBeforeIsSent, TypeOK
<1>3. CASE sentBefore' # sentBefore
  <2>1. PICK p \in PublishCalls : Call(p)
    BY <1>3 DEF Next, Call, Cancel, PublishStep, PublishLock, PublishSend, PublishSkip,
       PublishCancelled, PublishReturn, WriterStep, WriteLock, Subscribe, Close, HandlerStep,
       HandlerReceive, HandlerReturns, HandlerExit, vars
  <2>2. /\ pc[p] = "idle"
        /\ sentBefore' = [sentBefore EXCEPT ![p] = {q \in PublishCalls : pc[q] = "sent"}]
    BY <2>1 DEF Call
  <2>3. /\ sentBefore'[p] = {q \in PublishCalls : pc[q] = "sent"}
        /\ \A q \in PublishCalls : q # p => sentBefore'[q] = sentBefore[q]
    BY <2>2 DEF TypeOK
  <2>4. \A q \in PublishCalls : sentBefore[q] \subseteq PublishCalls
    BY DEF TypeOK
  <2>5. SentBeforeIsSent'
    BY <1>1, <2>3, <2>4 DEF SentBeforeIsSent
  <2> QED
    BY <2>2, <2>3, <2>5
<1> QED
  BY <1>2, <1>3

LEMMA AppendDistinct ==
    ASSUME NEW S, NEW seq \in Seq(S), NEW e \in S, Distinct(seq), e \notin ToSet(seq)
    PROVE  Distinct(Append(seq, e))
<1>1. /\ DOMAIN seq = 1 .. Len(seq) /\ Len(seq) \in Nat
      /\ DOMAIN Append(seq, e) = 1 .. Len(seq) + 1
      /\ Append(seq, e)[Len(seq) + 1] = e
      /\ \A i \in 1 .. Len(seq) : Append(seq, e)[i] = seq[i]
  OBVIOUS
<1>2. \A i \in 1 .. Len(seq) : seq[i] # e
  BY <1>1 DEF ToSet
<1>3. \A i \in 1 .. Len(seq) + 1 : i \in 1 .. Len(seq) \/ i = Len(seq) + 1
  BY <1>1
<1> QED
  BY <1>1, <1>2, <1>3 DEF Distinct

LEMMA SubscribedOnceStep ==
    ASSUME TypeOK, LockInv, SubscribedOnce, [Next]_vars
    PROVE  SubscribedOnce'
<1> USE DEF lockVars, busVars, publishVars, handlerVars
<1>1. ASSUME NEW p \in PublishCalls, PublishLock(p) PROVE SubscribedOnce'
  <2>1. subscriptions' = subscriptions
    BY <1>1 DEF PublishLock
  <2>2. \A q \in PublishCalls : targets'[q] \in {targets[q], subscriptions[Topic[p]]}
    BY <1>1 DEF PublishLock, TypeOK
  <2>3. Topic[p] \in Topics
    BY CallsDescribed
  <2>4. \A q \in PublishCalls : Distinct(targets'[q])
    BY <2>2, <2>3 DEF SubscribedOnce
  <2> QED
    BY <2>1, <2>4 DEF SubscribedOnce, Distinct
<1>2. ASSUME NEW s \in SubscribeCalls, Subscribe(s) PROVE SubscribedOnce'
  <2>1. targets' = targets /\ pc[s] = "drain"
    BY <1>2 DEF Subscribe
  <2>2. s \notin Registered
    BY <2>1 DEF LockInv, OpenWhileRegistered
  <2>3. Topic[s] \in Topics /\ subscriptions[Topic[s]] \in Seq(SubscribeCalls)
    BY CallsDescribed DEF TypeOK
  <2>4. s \notin ToSet(subscriptions[Topic[s]])
    BY <2>2, <2>3 DEF Registered
  <2>5. Distinct(Append(subscriptions[Topic[s]], s))
    BY <2>3, <2>4, AppendDistinct DEF SubscribedOnce
  <2>6. \A t \in Topics : subscriptions'[t] \in {subscriptions[t], Append(subscriptions[Topic[s]], s)}
    BY <1>2, <2>3 DEF Subscribe, TypeOK
  <2>7. \A t \in Topics : Distinct(subscriptions'[t])
    BY <2>5, <2>6 DEF SubscribedOnce
  <2> QED
    BY <2>1, <2>7 DEF SubscribedOnce, Distinct
<1>3. ASSUME NEW z \in CloseCalls, Close(z) PROVE SubscribedOnce'
  <2>1. targets' = targets /\ \A t \in Topics : subscriptions'[t] = <<>>
    BY <1>3 DEF Close
  <2> QED
    BY <2>1 DEF SubscribedOnce, Distinct
<1>4. CASE UNCHANGED <<subscriptions, targets>>
  BY <1>4 DEF SubscribedOnce, Distinct
<1> QED
  BY <1>1, <1>2, <1>3, <1>4
     DEF Next, Call, Cancel, PublishStep, PublishSend, PublishSkip, PublishCancelled,
         PublishReturn, WriterStep, WriteLock, HandlerStep, HandlerReceive, HandlerReturns,
         HandlerExit, vars

(* What subscription s has seen, after a step. *)
InOrderAt(s) ==
    /\ \A i \in DOMAIN Seen(s) : HasPassed(Seen(s)[i], s)
    /\ \A i, j \in DOMAIN Seen(s) : i < j =>
          Seen(s)[i] # Seen(s)[j] /\ Seen(s)[j] \notin sentBefore[Seen(s)[i]]

LEMMA SeenInOrderStep ==
    ASSUME TypeOK, PassedAreReached, SubscribedOnce, SentBeforeIsSent,
           [Next]_vars, NEW s \in SubscribeCalls, InOrderAt(s)
    PROVE  InOrderAt(s)'
<1>0. Seen(s) \in Seq(PublishCalls) /\ PublishCalls \subseteq Calls
  BY SeenType DEF Calls
<1>1. \A i \in DOMAIN Seen(s) :
         /\ Seen(s)[i] \in PublishCalls
         /\ HasPassed(Seen(s)[i], s)
         /\ \A p : p = Seen(s)[i] => HasPassed(p, s)'
         /\ sentBefore'[Seen(s)[i]] = sentBefore[Seen(s)[i]]
  <2> TAKE i \in DOMAIN Seen(s)
  <2>1. Seen(s)[i] \in PublishCalls /\ HasPassed(Seen(s)[i], s)
    BY <1>0 DEF InOrderAt
  <2>2. \A p \in PublishCalls : HasPassed(p, s) => HasPassed(p, s)' /\ pc[p] # "idle"
    BY PassedStays
  <2> QED
    BY <2>1, <2>2, SentBeforeStep
<1>2. CASE Seen(s)' = Seen(s)
  BY <1>1, <1>2 DEF InOrderAt
<1>3. ASSUME NEW p \in PublishCalls, PublishSend(p), Target(p) = s, Seen(s)' = Append(Seen(s), p)
      PROVE  InOrderAt(s)'
  <2>1. /\ next[p] \in DOMAIN targets[p] /\ targets[p][next[p]] = s
        /\ targets'[p] = targets[p] /\ next'[p] = next[p] + 1
        /\ next[p] \in Nat /\ pc[p] = "send" /\ sentBefore' = sentBefore
    BY <1>3, TargetType DEF PublishSend, Sending, NextTarget, Target, TypeOK
  <2>2. HasPassed(p, s)'
    BY <2>1 DEF HasPassed
  <2>3. ~ HasPassed(p, s)
    BY <2>1 DEF HasPassed, SubscribedOnce, Distinct
  <2>4. \A i \in DOMAIN Seen(s) : Seen(s)[i] # p /\ p \notin sentBefore[Seen(s)[i]]
    BY <1>1, <2>1, <2>3 DEF SentBeforeIsSent
  <2> DEFINE n == Len(Seen(s))
  <2>5. /\ n \in Nat /\ DOMAIN Seen(s) = 1 .. n
        /\ DOMAIN Seen(s)' = 1 .. n + 1
        /\ Seen(s)'[n + 1] = p
        /\ \A i \in 1 .. n : Seen(s)'[i] = Seen(s)[i]
    BY <1>0, <1>3
  <2>6. \A i \in 1 .. n + 1 : i \in 1 .. n \/ i = n + 1
    BY <2>5
  <2>7. \A i \in DOMAIN Seen(s)' : \A q : q = Seen(s)'[i] => HasPassed(q, s)'
    BY <1>1, <2>2, <2>5, <2>6
  <2>8. \A i \in DOMAIN Seen(s)' : HasPassed(Seen(s)[i], s)'
    BY <2>7
  <2>9. \A i, j \in DOMAIN Seen(s)' : i < j =>
           Seen(s)'[i] # Seen(s)'[j] /\ Seen(s)'[j] \notin sentBefore'[Seen(s)'[i]]
    <3> SUFFICES ASSUME NEW i \in 1 .. n + 1, NEW j \in 1 .. n + 1, i < j
                 PROVE  Seen(s)'[i] # Seen(s)'[j] /\ Seen(s)'[j] \notin sentBefore'[Seen(s)'[i]]
      BY <2>5
    <3>1. i \in 1 .. n
      BY <2>5
    <3>2. CASE j \in 1 .. n
      BY <2>1, <2>5, <3>1, <3>2 DEF InOrderAt
    <3>3. CASE j = n + 1
      BY <2>1, <2>4, <2>5, <3>1, <3>3
    <3> QED
      BY <2>6, <3>2, <3>3
  <2> QED
    BY <2>8, <2>9 DEF InOrderAt
<1> QED
  BY <1>2, <1>3, SeenStep

LEMMA OrderInvInit == Init => OrderInv
<1> SUFFICES ASSUME Init PROVE OrderInv
  OBVIOUS
<1>1. \A s \in SubscribeCalls : Seen(s) = <<>>
  BY DEF Init, Seen
<1>2. SubscribedOnce
  BY DEF Init, SubscribedOnce, Distinct
<1>3. SentBeforeIsSent
  BY DEF Init, SentBeforeIsSent
<1>4. \A s \in SubscribeCalls : DOMAIN Seen(s) = {}
  BY <1>1
<1>5. SeenHavePassed
  BY <1>4 DEF SeenHavePassed
<1>6. PublishOrderKept
  BY <1>4 DEF PublishOrderKept, Seen
<1> QED
  BY <1>2, <1>3, <1>5, <1>6 DEF OrderInv

(* Each subscriber sees the messages of Publish calls that followed each    *)
(* other in the order of the calls, and none twice (memory.go:45-77).       *)
THEOREM MessagesInOrder == Spec => []PublishOrderKept
<1>1. TypeOK /\ LockInv /\ PassedAreReached /\ OrderInv /\ [Next]_vars => OrderInv'
  <2> SUFFICES ASSUME TypeOK, LockInv, PassedAreReached, OrderInv, [Next]_vars PROVE OrderInv'
    OBVIOUS
  <2>1. SubscribedOnce' /\ SentBeforeIsSent'
    BY SubscribedOnceStep, SentBeforeStep DEF OrderInv
  <2>2. \A s \in SubscribeCalls : InOrderAt(s)
    BY DEF OrderInv, SeenHavePassed, PublishOrderKept, InOrderAt, Seen
  <2>3. \A s \in SubscribeCalls : InOrderAt(s)'
    BY <2>2, SeenInOrderStep DEF OrderInv
  <2>4. SeenHavePassed' /\ PublishOrderKept'
    BY <2>3 DEF SeenHavePassed, PublishOrderKept, InOrderAt, Seen
  <2> QED
    BY <2>1, <2>4 DEF OrderInv
<1> QED
  BY LockInvariant, PassedInvariant, OrderInvInit, <1>1, PTL DEF Spec, OrderInv

-----------------------------------------------------------------------------
(* The JetStream bus: how often a handler is called. *)

ServerStates == {"none", "pending", "inflight", "acked", "exhausted"}
ServerType == server \in [Entries -> ServerStates]

DeliveryShape ==
  /\ copies \in [Events -> Nat]
  /\ ServerType
  /\ deliveries \in [Entries -> Nat]
  /\ fetched \in [Subs -> Seq(Entries)]
  /\ callback \in [Subs -> {"idle", "attempt", "backoff"}]
  /\ tries \in [Subs -> Nat]
  /\ runs \in [Entries -> Nat]

\* A callback is about the first entry that was fetched, and counts its tries.
CallbacksCount ==
  \A s \in Subs :
    /\ Busy(s) => fetched[s] # <<>> /\ tries[s] <= MaxAttempts
    /\ callback[s] = "idle" => tries[s] = 0
    /\ callback[s] = "backoff" => tries[s] < MaxAttempts

\* Nothing is delivered that was not stored, and nothing beyond its limit.
StoredIsLimited ==
  /\ \A e \in Events, i \in 1 .. Copies : i > copies[e] => server[<<e, i>>] = "none"
  /\ \A m \in Entries :
       /\ server[m] = "none" => deliveries[m] = 0
       /\ server[m] = "pending" => deliveries[m] < MaxDeliver
       /\ deliveries[m] <= MaxDeliver
  /\ \A s \in Subs : \A i \in 1 .. Len(fetched[s]) : server[fetched[s][i]] # "none"

\* Try number k of the i-th entry fetched for s, which is m, is still to come.
Owes(m, s, i, k) ==
  /\ i \in 1 .. Len(fetched[s]) /\ fetched[s][i] = m
  /\ k \in 1 .. MaxAttempts
  /\ i = 1 => tries[s] < k

Owed(m) == {t \in Subs \X (Nat \X Nat) : Owes(m, t[1], t[2][1], t[2][2])}

\* The calls of the handler that were and that may still come.
AttemptsAccount ==
  \A m \in Entries :
    /\ IsFiniteSet(Owed(m))
    /\ runs[m] + Cardinality(Owed(m)) <= deliveries[m] * MaxAttempts

AttemptsInv == DeliveryShape /\ CallbacksCount /\ StoredIsLimited /\ AttemptsAccount

-----------------------------------------------------------------------------
LEMMA OwedMembers ==
  ASSUME NEW m, NEW s \in Subs, NEW i \in Nat, NEW k \in Nat
  PROVE  <<s, <<i, k>>>> \in Owed(m) <=> Owes(m, s, i, k)
BY DEF Owed

\* Fewer tries to come: those left, moved by `shift` places in the queue of s.
LEMMA OwedShrinks ==
  ASSUME NEW m, NEW r \in Subs, NEW shift \in {0, 1},
         fetched \in [Subs -> Seq(Entries)], IsFiniteSet(Owed(m)),
         \A s \in Subs, i, k \in Nat :
            Owes(m, s, i, k)' => Owes(m, s, IF s = r THEN i + shift ELSE i, k)
  PROVE  IsFiniteSet(Owed(m)') /\ Cardinality(Owed(m)') <= Cardinality(Owed(m))
<1> DEFINE place(t) == IF t[1] = r THEN t[2][1] + shift ELSE t[2][1]
           f == [t \in Owed(m)' |-> <<t[1], <<place(t), t[2][2]>>>>]
<1>1. \A t \in Owed(m)' : /\ t[1] \in Subs /\ t[2][1] \in Nat /\ t[2][2] \in Nat
                          /\ t = <<t[1], <<t[2][1], t[2][2]>>>>
                          /\ Owes(m, t[1], t[2][1], t[2][2])'
  BY DEF Owed
<1>2. \A t \in Owed(m)' : place(t) \in Nat /\ Owes(m, t[1], place(t), t[2][2])
  BY <1>1
<1>3. \A t \in Owed(m)' : f[t] \in Owed(m)
  BY <1>1, <1>2, OwedMembers
<1>4. ASSUME NEW t \in Owed(m)', NEW u \in Owed(m)', f[t] = f[u] PROVE t = u
  <2>1. t[1] = u[1] /\ place(t) = place(u) /\ t[2][2] = u[2][2]
    BY <1>4
  <2>2. t[2][1] = u[2][1]
    BY <1>1, <2>1
  <2> QED
    BY <1>1, <2>1, <2>2
<1>5. f \in Injection(Owed(m)', Owed(m))
  <2> HIDE DEF place
  <2>1. f \in [Owed(m)' -> Owed(m)]
    BY <1>3
  <2> QED
    BY <1>4, <2>1 DEF Injection, IsInjective
<1> HIDE DEF f
<1> QED
  BY <1>5, FS_Injection

LEMMA SingletonProduct ==
  ASSUME NEW x, NEW S, IsFiniteSet(S)
  PROVE  IsFiniteSet({x} \X S) /\ Cardinality({x} \X S) = Cardinality(S)
<1>1. IsFiniteSet({x}) /\ Cardinality({x}) = 1
  BY FS_Singleton
<1>2. PICK one : one = {x}
  OBVIOUS
<1>3. IsFiniteSet(one \X S) /\ Cardinality(one \X S) = Cardinality(one) * Cardinality(S)
  BY <1>1, <1>2, FS_Product
<1>4. Cardinality(S) \in Nat
  BY FS_CardinalityType
<1> QED
  BY <1>1, <1>2, <1>3, <1>4

\* A delivery owes MaxAttempts tries.
LEMMA OwedGrows ==
  ASSUME NEW m, NEW r \in Subs, NEW n \in Nat, IsFiniteSet(Owed(m)),
         \A s \in Subs, i, k \in Nat :
            Owes(m, s, i, k)' => \/ Owes(m, s, i, k)
                                 \/ s = r /\ i = n /\ k \in 1 .. MaxAttempts
  PROVE  IsFiniteSet(Owed(m)') /\ Cardinality(Owed(m)') <= Cardinality(Owed(m)) + MaxAttempts
<1> DEFINE more == {r} \X ({n} \X (1 .. MaxAttempts))
<1>0. MaxAttempts \in Nat \ {0}
  BY BoundsAreNat
<1>1. IsFiniteSet(1 .. MaxAttempts) /\ Cardinality(1 .. MaxAttempts) = MaxAttempts
  <2>1. 1 \in Int /\ MaxAttempts \in Int /\ ~ (1 > MaxAttempts) /\ MaxAttempts - 1 + 1 = MaxAttempts
    BY <1>0
  <2> QED
    BY <2>1, FS_Interval
<1>2. IsFiniteSet({n} \X (1 .. MaxAttempts)) /\ Cardinality({n} \X (1 .. MaxAttempts)) = MaxAttempts
  BY <1>1, SingletonProduct
<1>3. IsFiniteSet(more) /\ Cardinality(more) = MaxAttempts
  BY <1>2, SingletonProduct
<1>4. Owed(m)' \subseteq Owed(m) \cup more
  BY DEF Owed
<1> HIDE DEF more
<1>5. /\ IsFiniteSet(Owed(m) \cup more)
      /\ Cardinality(Owed(m) \cup more)
           = Cardinality(Owed(m)) + Cardinality(more) - Cardinality(Owed(m) \cap more)
  BY <1>3, FS_Union
<1>6. IsFiniteSet(Owed(m) \cap more)
  BY <1>3, FS_Subset
<1>7. /\ IsFiniteSet(Owed(m)')
      /\ Cardinality(Owed(m)') <= Cardinality(Owed(m) \cup more)
  BY <1>4, <1>5, FS_Subset
<1>8. /\ Cardinality(Owed(m)) \in Nat /\ Cardinality(Owed(m)') \in Nat
      /\ Cardinality(Owed(m) \cap more) \in Nat /\ Cardinality(Owed(m) \cup more) \in Nat
  BY <1>5, <1>6, <1>7, FS_CardinalityType
<1> QED
  BY <1>0, <1>3, <1>5, <1>7, <1>8

\* An attempt that begins is one less to come.
LEMMA OwedBegins ==
  ASSUME NEW m, NEW r \in Subs, NEW k \in Nat, IsFiniteSet(Owed(m)),
         Owes(m, r, 1, k), ~ Owes(m, r, 1, k)',
         \A s \in Subs, i, j \in Nat : Owes(m, s, i, j)' => Owes(m, s, i, j)
  PROVE  IsFiniteSet(Owed(m)') /\ Cardinality(Owed(m)') + 1 <= Cardinality(Owed(m))
<1> DEFINE x == <<r, <<1, k>>>>
<1>1. x \in Owed(m)
  BY OwedMembers
<1>2. Owed(m)' \subseteq Owed(m) \ {x}
  BY DEF Owed
<1> HIDE DEF x
<1>3. IsFiniteSet(Owed(m) \ {x}) /\ Cardinality(Owed(m) \ {x}) = Cardinality(Owed(m)) - 1
  BY <1>1, FS_RemoveElement
<1>4. IsFiniteSet(Owed(m)') /\ Cardinality(Owed(m)') <= Cardinality(Owed(m) \ {x})
  BY <1>2, <1>3, FS_Subset
<1>5. Cardinality(Owed(m)) \in Nat /\ Cardinality(Owed(m)') \in Nat
  BY <1>4, FS_CardinalityType
<1> QED
  BY <1>3, <1>4, <1>5

\* Where nothing begins and nothing is delivered the account only shrinks.
LEMMA AccountShrinks ==
  ASSUME AttemptsInv, UNCHANGED <<deliveries, runs>>, NEW r \in Subs, NEW shift \in {0, 1},
         \A m \in Entries, s \in Subs, i, k \in Nat :
            Owes(m, s, i, k)' => Owes(m, s, IF s = r THEN i + shift ELSE i, k)
  PROVE  AttemptsAccount'
<1> SUFFICES ASSUME NEW m \in Entries
             PROVE  /\ IsFiniteSet(Owed(m)')
                    /\ runs[m] + Cardinality(Owed(m)') <= deliveries[m] * MaxAttempts
  BY DEF AttemptsAccount
<1>0. runs[m] \in Nat /\ deliveries[m] \in Nat /\ MaxAttempts \in Nat
  BY BoundsAreNat DEF AttemptsInv, DeliveryShape
<1>1. /\ IsFiniteSet(Owed(m)) /\ runs[m] + Cardinality(Owed(m)) <= deliveries[m] * MaxAttempts
      /\ runs[m] \in Nat /\ deliveries[m] \in Nat /\ MaxAttempts \in Nat
  BY <1>0 DEF AttemptsInv, AttemptsAccount
<1>2. IsFiniteSet(Owed(m)') /\ Cardinality(Owed(m)') <= Cardinality(Owed(m))
  BY <1>1, OwedShrinks DEF AttemptsInv, DeliveryShape
<1>3. /\ Cardinality(Owed(m)) \in Nat /\ Cardinality(Owed(m)') \in Nat
      /\ deliveries[m] * MaxAttempts \in Nat
  BY <1>1, <1>2, FS_CardinalityType
<1> QED
  BY <1>1, <1>2, <1>3

LEMMA AccountKept ==
  ASSUME AttemptsInv, UNCHANGED <<deliveries, runs, fetched, tries>>
  PROVE  AttemptsAccount'
<1>1. \A m : Owed(m)' = Owed(m)
  BY DEF Owed, Owes
<1> QED
  BY <1>1 DEF AttemptsInv, AttemptsAccount

-----------------------------------------------------------------------------
\* Stored entries move on; what is not stored stays so.
MovesOn ==
  /\ ServerType'
  /\ \A m \in Entries : server'[m] # server[m] =>
       /\ server[m] # "none" /\ server'[m] # "none"
       /\ server'[m] = "pending" => deliveries[m] < MaxDeliver

LEMMA StoredKept ==
  ASSUME AttemptsInv, MovesOn, UNCHANGED <<copies, deliveries>>,
         \A s \in Subs : \A i \in 1 .. Len(fetched'[s]) :
            \E j \in 1 .. Len(fetched[s]) : fetched'[s][i] = fetched[s][j]
  PROVE  StoredIsLimited'
<1>1. \A m \in Entries : server'[m] = "none" <=> server[m] = "none"
  BY DEF MovesOn
<1>2. ASSUME NEW e \in Events, NEW i \in 1 .. Copies, i > copies[e] PROVE server'[<<e, i>>] = "none"
  <2>1. <<e, i>> \in Entries
    BY DEF Entries
  <2> QED
    BY <1>1, <1>2, <2>1 DEF AttemptsInv, StoredIsLimited
<1>3. \A m \in Entries : /\ server'[m] = "none" => deliveries[m] = 0
                         /\ server'[m] = "pending" => deliveries[m] < MaxDeliver
                         /\ deliveries[m] <= MaxDeliver
  BY <1>1 DEF AttemptsInv, StoredIsLimited, MovesOn
<1>4. ASSUME NEW s \in Subs, NEW i \in 1 .. Len(fetched'[s]) PROVE server'[fetched'[s][i]] # "none"
  <2>1. PICK j \in 1 .. Len(fetched[s]) : fetched'[s][i] = fetched[s][j]
    OBVIOUS
  <2>2. fetched[s][j] \in Entries /\ server[fetched[s][j]] # "none"
    BY DEF AttemptsInv, DeliveryShape, StoredIsLimited
  <2> QED
    BY <1>1, <2>1, <2>2
<1> QED
  BY <1>2, <1>3, <1>4 DEF StoredIsLimited

\* The entry that a callback is about.
LEMMA CurrentIsStored ==
  ASSUME AttemptsInv, NEW s \in Subs, fetched[s] # <<>>
  PROVE  /\ Len(fetched[s]) \in Nat /\ 1 \in 1 .. Len(fetched[s])
         /\ Current(s) = fetched[s][1] /\ Current(s) \in Entries
         /\ server[Current(s)] # "none"
<1>1. fetched[s] \in Seq(Entries)
  BY DEF AttemptsInv, DeliveryShape
<1>2. /\ Len(fetched[s]) \in Nat /\ 1 \in 1 .. Len(fetched[s])
      /\ Current(s) = fetched[s][1] /\ fetched[s][1] \in Entries
  BY <1>1 DEF Current
<1> QED
  BY <1>2 DEF AttemptsInv, StoredIsLimited

LEMMA SettlesMovesOn ==
  ASSUME AttemptsInv, NEW m \in Entries, server[m] # "none", NEW err, Settles(m, err)
  PROVE  MovesOn
<1>1. /\ TakenBack(m) \in {"pending", "exhausted"}
      /\ TakenBack(m) = "pending" => deliveries[m] < MaxDeliver
  BY DEF TakenBack
<1>2. server' \in {server, [server EXCEPT ![m] = "acked"], [server EXCEPT ![m] = TakenBack(m)]}
  BY DEF Settles, Acked, Nacked
<1>3. ServerType
  BY DEF AttemptsInv, DeliveryShape
<1> QED
  BY <1>1, <1>2, <1>3 DEF MovesOn, ServerType, ServerStates

LEMMA ReturnKeeps ==
  ASSUME AttemptsInv, NEW s \in Subs, NEW err, Busy(s), CallbackReturns(s, err),
         UNCHANGED <<copies, deliveries, runs>>
  PROVE  AttemptsInv'
<1>1. fetched[s] # <<>> /\ fetched[s] \in Seq(Entries)
  BY DEF AttemptsInv, CallbacksCount, DeliveryShape
<1>2. /\ Tail(fetched[s]) \in Seq(Entries)
      /\ Len(Tail(fetched[s])) \in Nat /\ Len(fetched[s]) \in Nat
      /\ Len(Tail(fetched[s])) = Len(fetched[s]) - 1
      /\ \A i \in 1 .. Len(Tail(fetched[s])) : Tail(fetched[s])[i] = fetched[s][i + 1]
  BY <1>1, HeadTailProperties
<1>3. \A i \in 1 .. Len(Tail(fetched[s])) : i + 1 \in 1 .. Len(fetched[s]) /\ i + 1 # 1
  BY <1>2
<1>4. /\ callback' = [callback EXCEPT ![s] = "idle"]
      /\ tries' = [tries EXCEPT ![s] = 0]
      /\ fetched' = [fetched EXCEPT ![s] = Tail(fetched[s])]
      /\ Settles(Current(s), err) \/ UNCHANGED server
  BY DEF CallbackReturns
<1>5. /\ fetched'[s] = Tail(fetched[s]) /\ \A r \in Subs : r # s => fetched'[r] = fetched[r]
      /\ callback'[s] = "idle" /\ \A r \in Subs : r # s => callback'[r] = callback[r]
      /\ tries'[s] = 0 /\ \A r \in Subs : r # s => tries'[r] = tries[r]
  BY <1>4 DEF AttemptsInv, DeliveryShape
<1>6. MovesOn
  <2>1. CASE Settles(Current(s), err)
    BY <1>1, <2>1, CurrentIsStored, SettlesMovesOn
  <2>2. CASE UNCHANGED server
    BY <2>2 DEF MovesOn, ServerType, AttemptsInv, DeliveryShape
  <2> QED
    BY <1>4, <2>1, <2>2
<1>7. DeliveryShape'
  BY <1>2, <1>4, <1>6 DEF AttemptsInv, DeliveryShape, MovesOn
<1>8. CallbacksCount'
  BY <1>5 DEF AttemptsInv, CallbacksCount, Busy
<1>9. StoredIsLimited'
  <2>1. \A r \in Subs : \A i \in 1 .. Len(fetched'[r]) :
          \E j \in 1 .. Len(fetched[r]) : fetched'[r][i] = fetched[r][j]
    <3> TAKE r \in Subs
    <3> TAKE i \in 1 .. Len(fetched'[r])
    <3>1. CASE r = s
      <4>1. i \in 1 .. Len(Tail(fetched[s])) /\ fetched'[r][i] = Tail(fetched[s])[i]
        BY <1>5, <3>1
      <4> QED
        BY <1>2, <1>3, <3>1, <4>1
    <3>2. CASE r # s
      BY <1>5, <3>2
    <3> QED
      BY <3>1, <3>2
  <2> QED
    BY <1>6, <2>1, StoredKept
<1>10. AttemptsAccount'
  <2>1. ASSUME NEW m \in Entries, NEW r \in Subs, NEW i \in Nat, NEW k \in Nat, Owes(m, r, i, k)'
        PROVE  Owes(m, r, IF r = s THEN i + 1 ELSE i, k)
    <3>1. CASE r = s
      BY <1>2, <1>3, <1>5, <2>1, <3>1 DEF Owes
    <3>2. CASE r # s
      BY <1>5, <2>1, <3>2 DEF Owes
    <3> QED
      BY <3>1, <3>2
  <2> QED
    BY <2>1, AccountShrinks
<1> QED
  BY <1>7, <1>8, <1>9, <1>10 DEF AttemptsInv

LEMMA FailsKeeps ==
  ASSUME AttemptsInv, NEW s \in Subs, NEW err, callback[s] = "attempt", AttemptFails(s, err),
         UNCHANGED <<copies, deliveries, runs>>
  PROVE  AttemptsInv'
<1>1. CASE \E e : CallbackReturns(s, e)
  BY <1>1, ReturnKeeps DEF Busy
<1>2. CASE /\ ~ LastTry(s) /\ callback' = [callback EXCEPT ![s] = "backoff"]
           /\ UNCHANGED <<tries, fetched, server, lost>>
  <2>1. fetched[s] # <<>> /\ tries[s] \in Nat /\ tries[s] < MaxAttempts
    <3>1. fetched[s] # <<>> /\ tries[s] \in Nat /\ MaxAttempts \in Nat
      BY BoundsAreNat DEF AttemptsInv, CallbacksCount, Busy, DeliveryShape
    <3> QED
      BY <1>2, <3>1 DEF LastTry
  <2>2. /\ callback'[s] = "backoff" /\ \A r \in Subs : r # s => callback'[r] = callback[r]
    BY <1>2 DEF AttemptsInv, DeliveryShape
  <2>3. DeliveryShape'
    BY <1>2 DEF AttemptsInv, DeliveryShape, ServerType
  <2>4. CallbacksCount'
    <3>1. tries[s] <= MaxAttempts
      BY <2>1 DEF AttemptsInv, CallbacksCount, Busy
    <3> QED
      BY <1>2, <2>1, <2>2, <3>1 DEF AttemptsInv, CallbacksCount, Busy
  <2>5. StoredIsLimited'
    BY <1>2 DEF AttemptsInv, StoredIsLimited
  <2> QED
    BY <1>2, <2>3, <2>4, <2>5, AccountKept DEF AttemptsInv
<1> QED
  BY <1>1, <1>2 DEF AttemptFails

LEMMA BeginKeeps ==
  ASSUME AttemptsInv, NEW s \in Subs, BeginAttempt(s), fetched[s] # <<>>, tries[s] < MaxAttempts
  PROVE  AttemptsInv'
<1> DEFINE c == Current(s)
<1>1. /\ c = fetched[s][1] /\ c \in Entries /\ 1 \in 1 .. Len(fetched[s])
  BY CurrentIsStored
<1>2. /\ callback' = [callback EXCEPT ![s] = "attempt"]
      /\ tries' = [tries EXCEPT ![s] = tries[s] + 1]
      /\ runs' = [runs EXCEPT ![c] = runs[c] + 1]
      /\ UNCHANGED <<copies, server, deliveries, fetched>>
  BY DEF BeginAttempt, stream
<1> HIDE DEF c
<1>3. tries[s] \in Nat /\ MaxAttempts \in Nat /\ runs[c] \in Nat
  BY <1>1, BoundsAreNat DEF AttemptsInv, DeliveryShape
<1>4. /\ callback'[s] = "attempt" /\ \A r \in Subs : r # s => callback'[r] = callback[r]
      /\ tries'[s] = tries[s] + 1 /\ \A r \in Subs : r # s => tries'[r] = tries[r]
      /\ runs'[c] = runs[c] + 1 /\ \A m \in Entries : m # c => runs'[m] = runs[m]
  BY <1>1, <1>2 DEF AttemptsInv, DeliveryShape
<1>5. DeliveryShape'
  <2>0. tries[s] + 1 \in Nat /\ runs[c] + 1 \in Nat
    BY <1>3
  <2>1. tries' \in [Subs -> Nat] /\ runs' \in [Entries -> Nat]
    BY <1>2, <2>0 DEF AttemptsInv, DeliveryShape
  <2>2. callback' \in [Subs -> {"idle", "attempt", "backoff"}]
    BY <1>2 DEF AttemptsInv, DeliveryShape
  <2> QED
    BY <1>2, <2>1, <2>2 DEF AttemptsInv, DeliveryShape, ServerType
<1>6. CallbacksCount'
  <2>1. tries[s] + 1 <= MaxAttempts
    BY <1>3
  <2> QED
    BY <1>2, <1>4, <2>1 DEF AttemptsInv, CallbacksCount, Busy
<1>7. StoredIsLimited'
  BY <1>2 DEF AttemptsInv, StoredIsLimited
<1>8. ASSUME NEW m \in Entries
      PROVE  /\ IsFiniteSet(Owed(m)')
             /\ runs'[m] + Cardinality(Owed(m)') <= deliveries[m] * MaxAttempts
  <2>1. /\ IsFiniteSet(Owed(m)) /\ runs[m] + Cardinality(Owed(m)) <= deliveries[m] * MaxAttempts
        /\ runs[m] \in Nat /\ deliveries[m] * MaxAttempts \in Nat
    <3>1. runs[m] \in Nat /\ deliveries[m] \in Nat
      BY DEF AttemptsInv, DeliveryShape
    <3>2. deliveries[m] * MaxAttempts \in Nat
      BY <1>3, <3>1
    <3> QED
      BY <3>1, <3>2 DEF AttemptsInv, AttemptsAccount
  <2>2. \A r \in Subs, i, k \in Nat : Owes(m, r, i, k)' => Owes(m, r, i, k)
    <3> SUFFICES ASSUME NEW r \in Subs, NEW i \in Nat, NEW k \in Nat, Owes(m, r, i, k)'
                 PROVE  Owes(m, r, i, k)
      OBVIOUS
    <3>1. tries'[r] < k => tries[r] < k
      BY <1>3, <1>4
    <3> QED
      BY <1>2, <3>1 DEF Owes
  <2>3. CASE m = c
    <3>1. PICK k \in Nat : k = tries[s] + 1
      BY <1>3
    <3>2. Owes(m, s, 1, k)
      BY <1>1, <1>3, <2>3, <3>1 DEF Owes
    <3>3. ~ Owes(m, s, 1, k)'
      BY <1>3, <1>4, <3>1 DEF Owes
    <3>4. IsFiniteSet(Owed(m)') /\ Cardinality(Owed(m)') + 1 <= Cardinality(Owed(m))
      BY <2>1, <2>2, <3>2, <3>3, OwedBegins
    <3>5. Cardinality(Owed(m)) \in Nat /\ Cardinality(Owed(m)') \in Nat
      BY <2>1, <3>4, FS_CardinalityType
    <3> QED
      BY <1>4, <2>1, <2>3, <3>4, <3>5
  <2>4. CASE m # c
    <3>1. IsFiniteSet(Owed(m)') /\ Cardinality(Owed(m)') <= Cardinality(Owed(m))
      <4>1. \A r \in Subs, i, k \in Nat :
               Owes(m, r, i, k)' => Owes(m, r, IF r = s THEN i + 0 ELSE i, k)
        BY <2>2
      <4> QED
        BY <2>1, <4>1, OwedShrinks DEF AttemptsInv, DeliveryShape
    <3>2. Cardinality(Owed(m)) \in Nat /\ Cardinality(Owed(m)') \in Nat
      BY <2>1, <3>1, FS_CardinalityType
    <3> QED
      BY <1>4, <2>1, <2>4, <3>1, <3>2
  <2> QED
    BY <2>3, <2>4
<1>9. AttemptsAccount'
  BY <1>2, <1>8 DEF AttemptsAccount
<1> QED
  BY <1>5, <1>6, <1>7, <1>9 DEF AttemptsInv

LEMMA DeliverKeeps ==
  ASSUME AttemptsInv, NEW s \in Subs, NEW n \in Entries, Deliver(s, n)
  PROVE  AttemptsInv'
<1>1. /\ server[n] = "pending"
      /\ server' = [server EXCEPT ![n] = "inflight"]
      /\ deliveries' = [deliveries EXCEPT ![n] = deliveries[n] + 1]
      /\ fetched' = [fetched EXCEPT ![s] = Append(fetched[s], n)]
      /\ UNCHANGED <<copies, callback, tries, runs>>
  BY DEF Deliver, stream, worker, history
<1>2. /\ deliveries[n] \in Nat /\ deliveries[n] < MaxDeliver
      /\ MaxDeliver \in Nat /\ MaxAttempts \in Nat
      /\ fetched[s] \in Seq(Entries) /\ Len(fetched[s]) \in Nat
  BY <1>1, BoundsAreNat DEF AttemptsInv, DeliveryShape, StoredIsLimited
<1>3. /\ Append(fetched[s], n) \in Seq(Entries)
      /\ Len(Append(fetched[s], n)) = Len(fetched[s]) + 1
      /\ \A i \in 1 .. Len(fetched[s]) : Append(fetched[s], n)[i] = fetched[s][i]
      /\ Append(fetched[s], n)[Len(fetched[s]) + 1] = n
      /\ Append(fetched[s], n) # <<>>
  BY <1>2
<1>4. /\ fetched'[s] = Append(fetched[s], n) /\ \A r \in Subs : r # s => fetched'[r] = fetched[r]
      /\ deliveries'[n] = deliveries[n] + 1 /\ \A m \in Entries : m # n => deliveries'[m] = deliveries[m]
      /\ server'[n] = "inflight" /\ \A m \in Entries : m # n => server'[m] = server[m]
  BY <1>1 DEF AttemptsInv, DeliveryShape, ServerType
<1>5. \A i \in 1 .. Len(fetched[s]) + 1 : i \in 1 .. Len(fetched[s]) \/ i = Len(fetched[s]) + 1
  BY <1>2
<1>6. DeliveryShape'
  <2>1. deliveries[n] + 1 \in Nat
    BY <1>2
  <2>2. deliveries' \in [Entries -> Nat]
    BY <1>1, <2>1 DEF AttemptsInv, DeliveryShape
  <2>3. ServerType'
    BY <1>1 DEF AttemptsInv, DeliveryShape, ServerType, ServerStates
  <2>4. fetched' \in [Subs -> Seq(Entries)]
    BY <1>1, <1>3 DEF AttemptsInv, DeliveryShape
  <2> QED
    BY <1>1, <2>2, <2>3, <2>4 DEF AttemptsInv, DeliveryShape
<1>7. CallbacksCount'
  BY <1>1, <1>3, <1>4 DEF AttemptsInv, CallbacksCount, Busy
<1>8. StoredIsLimited'
  <2>1. \A m \in Entries : server'[m] = "none" <=> server[m] = "none"
    BY <1>1, <1>4
  <2>2. ASSUME NEW e \in Events, NEW i \in 1 .. Copies, i > copies[e] PROVE server'[<<e, i>>] = "none"
    <3>1. <<e, i>> \in Entries
      BY DEF Entries
    <3> QED
      BY <2>1, <2>2, <3>1 DEF AttemptsInv, StoredIsLimited
  <2>3. deliveries[n] + 1 <= MaxDeliver
    BY <1>2
  <2>4. \A m \in Entries : /\ server'[m] = "none" => deliveries'[m] = 0
                           /\ server'[m] = "pending" => deliveries'[m] < MaxDeliver
                           /\ deliveries'[m] <= MaxDeliver
    BY <1>4, <2>3 DEF AttemptsInv, StoredIsLimited
  <2>5. ASSUME NEW r \in Subs, NEW i \in 1 .. Len(fetched'[r]) PROVE server'[fetched'[r][i]] # "none"
    <3>1. fetched'[r][i] = n \/ (i \in 1 .. Len(fetched[r]) /\ fetched'[r][i] = fetched[r][i])
      BY <1>3, <1>4, <1>5
    <3>2. CASE fetched'[r][i] = n
      BY <1>4, <3>2
    <3>3. CASE i \in 1 .. Len(fetched[r]) /\ fetched'[r][i] = fetched[r][i]
      <4>1. fetched[r][i] \in Entries /\ server[fetched[r][i]] # "none"
        BY <3>3 DEF AttemptsInv, DeliveryShape, StoredIsLimited
      <4> QED
        BY <2>1, <3>3, <4>1
    <3> QED
      BY <3>1, <3>2, <3>3
  <2> QED
    BY <1>1, <2>2, <2>4, <2>5 DEF StoredIsLimited
<1>9. ASSUME NEW m \in Entries
      PROVE  /\ IsFiniteSet(Owed(m)')
             /\ runs[m] + Cardinality(Owed(m)') <= deliveries'[m] * MaxAttempts
  <2>1. /\ IsFiniteSet(Owed(m)) /\ runs[m] + Cardinality(Owed(m)) <= deliveries[m] * MaxAttempts
        /\ runs[m] \in Nat /\ deliveries[m] \in Nat /\ Cardinality(Owed(m)) \in Nat
    BY FS_CardinalityType DEF AttemptsInv, AttemptsAccount, DeliveryShape
  <2>2. PICK last \in Nat : last = Len(fetched[s]) + 1
    BY <1>2
  <2>3. \A r \in Subs, i, k \in Nat : Owes(m, r, i, k)' =>
          \/ Owes(m, r, i, k)
          \/ r = s /\ i = last /\ k \in 1 .. MaxAttempts /\ m = n
    <3> SUFFICES ASSUME NEW r \in Subs, NEW i \in Nat, NEW k \in Nat, Owes(m, r, i, k)'
                 PROVE  \/ Owes(m, r, i, k)
                        \/ r = s /\ i = last /\ k \in 1 .. MaxAttempts /\ m = n
      OBVIOUS
    <3>1. CASE r = s
      BY <1>1, <1>3, <1>4, <1>5, <2>2, <3>1 DEF Owes
    <3>2. CASE r # s
      BY <1>1, <1>4, <3>2 DEF Owes
    <3> QED
      BY <3>1, <3>2
  <2>4. CASE m = n
    <3>0. \A r \in Subs, i, k \in Nat : Owes(m, r, i, k)' =>
            Owes(m, r, i, k) \/ (r = s /\ i = last /\ k \in 1 .. MaxAttempts)
      BY <2>3
    <3>1. /\ IsFiniteSet(Owed(m)')
          /\ Cardinality(Owed(m)') <= Cardinality(Owed(m)) + MaxAttempts
      BY <2>1, <3>0, OwedGrows
    <3>2. Cardinality(Owed(m)') \in Nat
      BY <3>1, FS_CardinalityType
    <3>3. deliveries'[m] * MaxAttempts = deliveries[m] * MaxAttempts + MaxAttempts
      <4>1. deliveries'[m] = deliveries[m] + 1
        BY <1>4, <2>4
      <4> QED
        BY <1>2, <2>1, <4>1
    <3>4. PICK limit \in Nat : limit = deliveries[m] * MaxAttempts
      BY <1>2, <2>1
    <3>5. deliveries'[m] * MaxAttempts = limit + MaxAttempts
      BY <3>3, <3>4
    <3>6. runs[m] + Cardinality(Owed(m)) <= limit
      BY <2>1, <3>4
    <3>7. runs[m] + Cardinality(Owed(m)') <= limit + MaxAttempts
      BY <2>1, <3>1, <3>2, <3>6, BoundsAreNat
    <3> QED
      BY <3>1, <3>5, <3>7
  <2>5. CASE m # n
    <3>1. \A r \in Subs, i, k \in Nat :
             Owes(m, r, i, k)' => Owes(m, r, IF r = s THEN i + 0 ELSE i, k)
      BY <2>3, <2>5
    <3>2. IsFiniteSet(Owed(m)') /\ Cardinality(Owed(m)') <= Cardinality(Owed(m))
      BY <2>1, <3>1, OwedShrinks DEF AttemptsInv, DeliveryShape
    <3>3. Cardinality(Owed(m)') \in Nat /\ deliveries[m] * MaxAttempts \in Nat
      BY <1>2, <2>1, <3>2, FS_CardinalityType
    <3> QED
      BY <1>4, <2>1, <2>5, <3>2, <3>3
  <2> QED
    BY <2>4, <2>5
<1>10. AttemptsAccount'
  BY <1>1, <1>9 DEF AttemptsAccount
<1> QED
  BY <1>6, <1>7, <1>8, <1>10 DEF AttemptsInv

LEMMA PublishKeeps ==
  ASSUME AttemptsInv, NEW e \in Events, NEW stored, NEW answer, Publish(e, stored, answer)
  PROVE  AttemptsInv'
<1>1. UNCHANGED <<deliveries, fetched, callback, tries, runs>>
  BY DEF Publish, worker, history
<1>2. AttemptsAccount'
  BY <1>1, AccountKept
<1>3. CallbacksCount'
  BY <1>1 DEF AttemptsInv, CallbacksCount, Busy
<1>4. CASE UNCHANGED <<copies, server>>
  BY <1>1, <1>2, <1>3, <1>4 DEF AttemptsInv, DeliveryShape, ServerType, StoredIsLimited
<1>5. CASE /\ copies[e] < Copies
           /\ copies' = [copies EXCEPT ![e] = copies[e] + 1]
           /\ server' = [server EXCEPT ![<<e, copies[e] + 1>>] = "pending"]
  <2> DEFINE n == <<e, copies[e] + 1>>
  <2>1. /\ copies[e] \in Nat /\ copies[e] + 1 \in 1 .. Copies /\ copies[e] + 1 > copies[e]
        /\ Copies \in Nat /\ MaxDeliver \in Nat /\ MaxDeliver > 0
    BY <1>5, BoundsAreNat DEF AttemptsInv, DeliveryShape
  <2>2. n \in Entries /\ server[n] = "none" /\ deliveries[n] = 0
    <3>1. n \in Entries
      BY <2>1 DEF Entries
    <3>2. server[n] = "none"
      BY <2>1 DEF AttemptsInv, StoredIsLimited
    <3> QED
      BY <3>1, <3>2 DEF AttemptsInv, StoredIsLimited
  <2>3. server'[n] = "pending" /\ \A m \in Entries : m # n => server'[m] = server[m]
    BY <1>5, <2>2 DEF AttemptsInv, DeliveryShape, ServerType
  <2>4. DeliveryShape'
    <3>1. copies' \in [Events -> Nat]
      <4>1. copies[e] + 1 \in Nat
        BY <2>1
      <4> QED
        BY <1>5, <4>1 DEF AttemptsInv, DeliveryShape
    <3>2. ServerType'
      BY <1>5 DEF AttemptsInv, DeliveryShape, ServerType, ServerStates
    <3> QED
      BY <1>1, <3>1, <3>2 DEF AttemptsInv, DeliveryShape
  <2>5. StoredIsLimited'
    <3>1. ASSUME NEW d \in Events, NEW i \in 1 .. Copies, i > copies'[d]
          PROVE  server'[<<d, i>>] = "none"
      <4>1. <<d, i>> \in Entries /\ i > copies[d] /\ <<d, i>> # n
        <5>1. CASE d = e
          <6>1. copies'[d] = copies[e] + 1
            BY <1>5, <5>1 DEF AttemptsInv, DeliveryShape
          <6> QED
            BY <2>1, <3>1, <5>1, <6>1 DEF Entries
        <5>2. CASE d # e
          BY <1>5, <3>1, <5>2 DEF AttemptsInv, DeliveryShape, Entries
        <5> QED
          BY <5>1, <5>2
      <4> QED
        BY <2>3, <4>1 DEF AttemptsInv, StoredIsLimited
    <3>2. \A m \in Entries : /\ server'[m] = "none" => deliveries[m] = 0
                             /\ server'[m] = "pending" => deliveries[m] < MaxDeliver
                             /\ deliveries[m] <= MaxDeliver
      BY <2>1, <2>2, <2>3 DEF AttemptsInv, StoredIsLimited
    <3>3. ASSUME NEW r \in Subs, NEW i \in 1 .. Len(fetched[r]) PROVE server'[fetched[r][i]] # "none"
      <4>1. fetched[r][i] \in Entries /\ server[fetched[r][i]] # "none"
        BY DEF AttemptsInv, DeliveryShape, StoredIsLimited
      <4> QED
        BY <2>3, <4>1
    <3> QED
      BY <1>1, <3>1, <3>2, <3>3 DEF StoredIsLimited
  <2> QED
    BY <1>2, <1>3, <2>4, <2>5 DEF AttemptsInv
<1> QED
  BY <1>4, <1>5 DEF Publish

LEMMA AckWaitKeeps ==
  ASSUME AttemptsInv, NEW m \in Entries, AckWaitEnds(m)
  PROVE  AttemptsInv'
<1>1. /\ server[m] = "inflight" /\ server' = [server EXCEPT ![m] = TakenBack(m)]
      /\ UNCHANGED <<copies, deliveries, fetched, callback, tries, runs>>
  BY DEF AckWaitEnds, stream, worker, history
<1>2. MovesOn
  <2>1. /\ TakenBack(m) \in {"pending", "exhausted"}
        /\ TakenBack(m) = "pending" => deliveries[m] < MaxDeliver
    BY DEF TakenBack
  <2>2. ServerType
    BY DEF AttemptsInv, DeliveryShape
  <2> QED
    BY <1>1, <2>1, <2>2 DEF MovesOn, ServerType, ServerStates
<1>3. DeliveryShape'
  BY <1>1, <1>2 DEF AttemptsInv, DeliveryShape, MovesOn
<1>4. CallbacksCount'
  BY <1>1 DEF AttemptsInv, CallbacksCount, Busy
<1>5. StoredIsLimited'
  BY <1>1, <1>2, StoredKept
<1> QED
  BY <1>1, <1>3, <1>4, <1>5, AccountKept DEF AttemptsInv

\* Close and a crash drop entries that were fetched; a callback that goes on
\* keeps its own, which is the first.
LEMMA DropKeeps ==
  ASSUME AttemptsInv, NEW s \in Subs,
         UNCHANGED <<copies, server, deliveries, runs>>,
         \/ CloseBus(s) \/ Crash(s)
  PROVE  AttemptsInv'
<1>1. \A r \in Subs : r # s => /\ fetched'[r] = fetched[r]
                               /\ callback'[r] = callback[r] /\ tries'[r] = tries[r]
  BY DEF CloseBus, Crash, worker, AttemptsInv, DeliveryShape
<1>2. \/ /\ fetched'[s] = <<>> /\ callback'[s] = "idle" /\ tries'[s] = 0
      \/ /\ fetched'[s] = <<fetched[s][1]>> /\ fetched[s] # <<>>
         /\ callback'[s] = callback[s] /\ tries'[s] = tries[s]
  <2>1. CASE Crash(s)
    BY <2>1 DEF Crash, AttemptsInv, DeliveryShape
  <2>2. CASE CloseBus(s) /\ Busy(s)
    <3>1. fetched[s] # <<>>
      BY <2>2 DEF AttemptsInv, CallbacksCount
    <3>2. Current(s) = fetched[s][1]
      BY <3>1, CurrentIsStored
    <3> QED
      BY <2>2, <3>1, <3>2 DEF CloseBus, worker, AttemptsInv, DeliveryShape
  <2>3. CASE CloseBus(s) /\ ~ Busy(s)
    <3>1. callback[s] = "idle" /\ tries[s] = 0
      BY <2>3 DEF AttemptsInv, CallbacksCount, Busy
    <3> QED
      BY <2>3, <3>1 DEF CloseBus, worker, AttemptsInv, DeliveryShape
  <2> QED
    BY <2>1, <2>2, <2>3
<1>3. \A r \in Subs : fetched[r] \in Seq(Entries) /\ Len(fetched[r]) \in Nat
  BY DEF AttemptsInv, DeliveryShape
<1>4. \A r \in Subs : fetched[r] # <<>> => 1 \in 1 .. Len(fetched[r]) /\ fetched[r][1] \in Entries
  BY <1>3
<1>5. DeliveryShape'
  <2>1. /\ callback' \in [Subs -> {"idle", "attempt", "backoff"}]
        /\ tries' \in [Subs -> Nat]
    <3>1. CASE Crash(s)
      BY <3>1 DEF Crash, AttemptsInv, DeliveryShape
    <3>2. CASE CloseBus(s)
      BY <3>2 DEF CloseBus, worker, AttemptsInv, DeliveryShape
    <3> QED
      BY <3>1, <3>2
  <2>2. fetched'[s] \in Seq(Entries)
    <3>1. CASE fetched'[s] = <<>>
      BY <3>1
    <3>2. CASE fetched'[s] = <<fetched[s][1]>> /\ fetched[s] # <<>>
      <4>1. fetched[s][1] \in Entries
        BY <1>4, <3>2
      <4> QED
        BY <3>2, <4>1
    <3> QED
      BY <1>2, <3>1, <3>2
  <2>3. \E q : fetched' = [fetched EXCEPT ![s] = q]
    BY DEF CloseBus, Crash
  <2>4. fetched' \in [Subs -> Seq(Entries)]
    BY <2>2, <2>3 DEF AttemptsInv, DeliveryShape
  <2> QED
    BY <2>1, <2>4 DEF AttemptsInv, DeliveryShape, ServerType
<1>6. CallbacksCount'
  <2>1. ASSUME NEW r \in Subs
        PROVE  /\ callback'[r] # "idle" => fetched'[r] # <<>> /\ tries'[r] <= MaxAttempts
               /\ callback'[r] = "idle" => tries'[r] = 0
               /\ callback'[r] = "backoff" => tries'[r] < MaxAttempts
    <3>1. CASE r = s
      BY <1>2, <3>1 DEF AttemptsInv, CallbacksCount, Busy
    <3>2. CASE r # s
      BY <1>1, <3>2 DEF AttemptsInv, CallbacksCount, Busy
    <3> QED
      BY <3>1, <3>2
  <2> QED
    BY <2>1 DEF CallbacksCount, Busy
<1>7. StoredIsLimited'
  <2>1. MovesOn
    BY DEF MovesOn, ServerType, AttemptsInv, DeliveryShape
  <2>2. \A r \in Subs : \A i \in 1 .. Len(fetched'[r]) :
          \E j \in 1 .. Len(fetched[r]) : fetched'[r][i] = fetched[r][j]
    <3> TAKE r \in Subs
    <3> TAKE i \in 1 .. Len(fetched'[r])
    <3>1. CASE r = s
      BY <1>2, <1>4, <3>1
    <3>2. CASE r # s
      BY <1>1, <3>2
    <3> QED
      BY <3>1, <3>2
  <2> QED
    BY <2>1, <2>2, StoredKept
<1>8. AttemptsAccount'
  <2>1. ASSUME NEW m \in Entries, NEW r \in Subs, NEW i \in Nat, NEW k \in Nat, Owes(m, r, i, k)'
        PROVE  Owes(m, r, IF r = s THEN i + 0 ELSE i, k)
    <3>1. CASE r = s
      <4>1. i = 1 /\ fetched'[s] = <<fetched[s][1]>> /\ fetched[s] # <<>> /\ tries'[s] = tries[s]
        BY <1>2, <2>1, <3>1 DEF Owes
      <4> QED
        BY <1>4, <2>1, <3>1, <4>1 DEF Owes
    <3>2. CASE r # s
      BY <1>1, <2>1, <3>2 DEF Owes
    <3> QED
      BY <3>1, <3>2
  <2> QED
    BY <2>1, AccountShrinks
<1> QED
  BY <1>5, <1>6, <1>7, <1>8 DEF AttemptsInv

LEMMA QuietKeeps ==
  ASSUME AttemptsInv,
         UNCHANGED <<copies, server, deliveries, fetched, callback, tries, runs>>
  PROVE  AttemptsInv'
<1>1. DeliveryShape' /\ CallbacksCount' /\ StoredIsLimited'
  BY DEF AttemptsInv, DeliveryShape, ServerType, CallbacksCount, Busy, StoredIsLimited
<1> QED
  BY <1>1, AccountKept DEF AttemptsInv

LEMMA CallbackKeeps ==
  ASSUME AttemptsInv, NEW s \in Subs,
         \/ Receive(s) \/ Answer(s) \/ AttemptTimesOut(s)
         \/ BackoffElapses(s) \/ BackoffCancelled(s)
  PROVE  AttemptsInv'
<1>1. CASE Receive(s)
  <2>1. fetched[s] # <<>> /\ tries[s] < MaxAttempts
    BY <1>1, BoundsAreNat DEF Receive, AttemptsInv, CallbacksCount
  <2> QED
    BY <1>1, <2>1, BeginKeeps DEF Receive
<1>2. CASE Answer(s)
  <2>1. PICK err : HandlerAnswers(s, err)
    BY <1>2 DEF Answer
  <2> QED
    BY <2>1, FailsKeeps DEF HandlerAnswers, Answers, stream
<1>4. CASE AttemptTimesOut(s)
  BY <1>4, FailsKeeps DEF AttemptTimesOut, stream, history
<1>5. CASE BackoffElapses(s)
  <2>1. fetched[s] # <<>> /\ tries[s] < MaxAttempts
    BY <1>5 DEF BackoffElapses, AttemptsInv, CallbacksCount, Busy
  <2> QED
    BY <1>5, <2>1, BeginKeeps DEF BackoffElapses
<1>6. CASE BackoffCancelled(s)
  BY <1>6, ReturnKeeps DEF BackoffCancelled, Busy, stream, history
<1> QED
  BY <1>1, <1>2, <1>4, <1>5, <1>6

LEMMA AttemptsStepKeeps == AttemptsInv /\ [DeliveryNext]_deliveryVars => AttemptsInv'
<1> SUFFICES ASSUME AttemptsInv, [DeliveryNext]_deliveryVars
             PROVE  AttemptsInv'
  OBVIOUS
<1>1. CASE Publishes
  BY <1>1, PublishKeeps DEF Publishes
<1>2. CASE StrayReturns
  BY <1>2, QuietKeeps DEF StrayReturns, StrayAnswers, Answers, stream, worker
<1>3. ASSUME NEW m \in Entries, AckWaitEnds(m)
      PROVE  AttemptsInv'
  BY <1>3, AckWaitKeeps
<1>4. ASSUME NEW m \in Entries, NEW s \in Subs, Deliver(s, m)
      PROVE  AttemptsInv'
  BY <1>4, DeliverKeeps
<1>5. ASSUME NEW s \in Subs,
             \/ Receive(s) \/ Answer(s) \/ AttemptTimesOut(s)
             \/ BackoffElapses(s) \/ BackoffCancelled(s)
      PROVE  AttemptsInv'
  BY <1>5, CallbackKeeps
<1>6. ASSUME NEW s \in Subs, CancelContext(s) \/ SubscribeAgain(s)
      PROVE  AttemptsInv'
  BY <1>6, QuietKeeps DEF CancelContext, SubscribeAgain, stream, worker, history
<1>7. ASSUME NEW s \in Subs, CloseBus(s) \/ Crash(s)
      PROVE  AttemptsInv'
  BY <1>7, DropKeeps DEF CloseBus, Crash, stream, history
<1>8. CASE UNCHANGED deliveryVars
  BY <1>8, QuietKeeps DEF deliveryVars, stream, worker, history
<1> QED
  BY <1>1, <1>2, <1>3, <1>4, <1>5, <1>6, <1>7, <1>8 DEF DeliveryNext

LEMMA InitAttemptsInv == DeliveryInit => AttemptsInv
<1> SUFFICES ASSUME DeliveryInit
             PROVE  AttemptsInv
  OBVIOUS
<1>1. MaxAttempts \in Nat /\ MaxDeliver \in Nat /\ MaxDeliver > 0
  BY BoundsAreNat
<1>2. DeliveryShape
  BY DEF DeliveryInit, DeliveryShape, ServerType, ServerStates
<1>3. CallbacksCount
  BY <1>1 DEF DeliveryInit, CallbacksCount, Busy
<1>4. StoredIsLimited
  BY <1>1 DEF DeliveryInit, StoredIsLimited, Entries
<1>5. ASSUME NEW m \in Entries
      PROVE  IsFiniteSet(Owed(m)) /\ runs[m] + Cardinality(Owed(m)) <= deliveries[m] * MaxAttempts
  <2>1. Owed(m) = {}
    BY DEF DeliveryInit, Owed, Owes
  <2>2. runs[m] = 0 /\ deliveries[m] = 0
    BY DEF DeliveryInit
  <2> QED
    BY <1>1, <2>1, <2>2, FS_EmptySet
<1> QED
  BY <1>2, <1>3, <1>4, <1>5 DEF AttemptsInv, AttemptsAccount

\* However deliveries, retries, timeouts, crashes and restarts of the process
\* combine, the handler is called at most MaxAttempts times for each of at most
\* MaxDeliver deliveries of an entry (jetstream.go:193, middleware.go:24-34).
THEOREM AttemptsBounded == DeliverySpec => []AttemptsAreBounded
<1>1. AttemptsInv => AttemptsAreBounded
  <2> SUFFICES ASSUME AttemptsInv, NEW m \in Entries
               PROVE  runs[m] <= MaxDeliver * MaxAttempts
    BY DEF AttemptsAreBounded
  <2>1. /\ deliveries[m] \in Nat /\ deliveries[m] <= MaxDeliver
        /\ MaxDeliver \in Nat /\ MaxAttempts \in Nat /\ runs[m] \in Nat
    BY BoundsAreNat DEF AttemptsInv, DeliveryShape, StoredIsLimited
  <2>2. PICK k \in Nat : MaxDeliver = deliveries[m] + k
    <3>1. MaxDeliver - deliveries[m] \in Nat /\ MaxDeliver = deliveries[m] + (MaxDeliver - deliveries[m])
      BY <2>1
    <3> QED
      BY <3>1
  <2>3. MaxDeliver * MaxAttempts = deliveries[m] * MaxAttempts + k * MaxAttempts
    BY <2>1, <2>2
  <2>4. k * MaxAttempts \in Nat /\ deliveries[m] * MaxAttempts \in Nat /\ MaxDeliver * MaxAttempts \in Nat
    BY <2>1
  <2>5. Cardinality(Owed(m)) \in Nat /\ runs[m] + Cardinality(Owed(m)) <= deliveries[m] * MaxAttempts
    BY FS_CardinalityType DEF AttemptsInv, AttemptsAccount
  <2> QED
    BY <2>1, <2>3, <2>4, <2>5
<1> QED
  BY <1>1, InitAttemptsInv, AttemptsStepKeeps, PTL DEF DeliverySpec
=============================================================================
