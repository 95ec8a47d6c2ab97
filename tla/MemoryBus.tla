------------------------------ MODULE MemoryBus ------------------------------
(***************************************************************************)
(* pkg/bus/memory.go: the in-memory event bus.  Publish holds the read     *)
(* side of the bus's RWMutex while it sends to the buffered channel of     *)
(* each subscriber; Subscribe and Close hold the write side; a goroutine   *)
(* per subscription takes messages out and calls the handler.              *)
(*                                                                         *)
(* A call is made once; a message is named after the Publish call that     *)
(* sends it, a subscription and its context after the Subscribe call that  *)
(* made it.  A handler may itself make calls: CalledBy says which; a        *)
(* goroutine may make several, one after the other: Follows says which.     *)
(***************************************************************************)
EXTENDS Naturals, Sequences, FiniteSets, SequencesExt

CONSTANTS
    PublishCalls, SubscribeCalls, CloseCalls,
    Topics,
    Topic,      \* Topic[p]: the topic of a Publish or Subscribe call
    CalledBy,   \* CalledBy[p]: the subscription whose handler makes call p, or Nobody
    Follows,    \* Follows[p]: the call that returns before its caller makes call p, or Nobody
    Nobody,
    Cancellable,\* bound: the calls whose context may be cancelled
    Capacity    \* the buffer of a subscription's channel (100 in the code)

Calls == PublishCalls \cup SubscribeCalls \cup CloseCalls
Writers == SubscribeCalls \cup CloseCalls

ASSUME CallsApart ==
    /\ PublishCalls \cap Writers = {}
    /\ SubscribeCalls \cap CloseCalls = {}
    /\ Nobody \notin Calls
ASSUME CallsDescribed ==
    /\ Topic \in [PublishCalls \cup SubscribeCalls -> Topics]
    /\ CalledBy \in [Calls -> SubscribeCalls \cup {Nobody}]
    /\ Follows \in [Calls -> Calls \cup {Nobody}]
    /\ Cancellable \subseteq PublishCalls \cup SubscribeCalls
    /\ Capacity \in Nat \ {0}

VARIABLES
    writer,         \* who holds or waits for the write lock: new readers wait behind it
    readers,        \* who holds the read lock
    closed,         \* m.closed
    subscriptions,  \* m.subscriptions, a slice per topic
    pc,             \* pc[p]: where call p is
    targets, next,  \* the slice Publish p ranges over, and its position in it
    buffer,         \* buffer[s]: the messages in sub.ch
    chClosed,       \* the subscriptions whose ch is closed
    handler,        \* handler[s]: where runHandler is; "done" closes sub.done
    handled,        \* handled[s]: the messages the handler was called with
    cancelled,      \* the contexts (calls') that are cancelled
    sentBefore      \* history: the Publish calls that had returned nil when p was made

lockVars == <<writer, readers>>
busVars == <<closed, subscriptions, chClosed>>
publishVars == <<targets, next>>
handlerVars == <<buffer, handler, handled>>
vars == <<lockVars, busVars, pc, publishVars, handlerVars, cancelled, sentBefore>>

Returned == {"sent", "nosubs", "cancelled", "subscribed", "closed", "refused"}
UnderWay(p) == pc[p] \notin Returned \cup {"idle"}

TypeOK ==
    /\ writer \in Writers \cup {Nobody}
    /\ readers \subseteq PublishCalls
    /\ closed \in BOOLEAN
    /\ subscriptions \in [Topics -> Seq(SubscribeCalls)]
    /\ pc \in [Calls -> Returned \cup {"idle", "lock", "drain", "send"}]
    /\ targets \in [PublishCalls -> Seq(SubscribeCalls)]
    /\ next \in [PublishCalls -> Nat \ {0}]
    /\ buffer \in [SubscribeCalls -> Seq(PublishCalls)]
    /\ \A s \in SubscribeCalls : Len(buffer[s]) <= Capacity
    /\ chClosed \subseteq SubscribeCalls
    /\ handler \in [SubscribeCalls -> {"none", "select", "handling", "done"}]
    /\ handled \in [SubscribeCalls -> Seq(PublishCalls)]
    /\ cancelled \subseteq PublishCalls \cup SubscribeCalls
    /\ sentBefore \in [PublishCalls -> SUBSET PublishCalls]

Init ==
    /\ writer = Nobody
    /\ readers = {}
    /\ closed = FALSE
    /\ subscriptions = [t \in Topics |-> <<>>]
    /\ pc = [p \in Calls |-> "idle"]
    /\ targets = [p \in PublishCalls |-> <<>>]
    /\ next = [p \in PublishCalls |-> 1]
    /\ buffer = [s \in SubscribeCalls |-> <<>>]
    /\ chClosed = {}
    /\ handler = [s \in SubscribeCalls |-> "none"]
    /\ handled = [s \in SubscribeCalls |-> <<>>]
    /\ cancelled = {}
    /\ sentBefore = [p \in PublishCalls |-> {}]

Goto(p, phase) == pc' = [pc EXCEPT ![p] = phase]

-----------------------------------------------------------------------------
(* A call is made: by a goroutine that is done with the call before, or by   *)
(* a handler in the middle of a message; each makes one call at a time.      *)
Call(p) ==
    /\ pc[p] = "idle"
    /\ Follows[p] # Nobody => pc[Follows[p]] \in Returned
    /\ CalledBy[p] # Nobody =>
          /\ handler[CalledBy[p]] = "handling"
          /\ \A q \in Calls : CalledBy[q] = CalledBy[p] => ~ UnderWay(q)
    /\ Goto(p, "lock")
    /\ sentBefore' = IF p \in PublishCalls
                        THEN [sentBefore EXCEPT ![p] = {q \in PublishCalls : pc[q] = "sent"}]
                        ELSE sentBefore
    /\ UNCHANGED <<lockVars, busVars, publishVars, handlerVars, cancelled>>

(* The context is cancelled while someone still looks at it. *)
Cancel(p) ==
    /\ pc[p] \in {"send", "subscribed"}
    /\ p \in Cancellable \ cancelled
    /\ cancelled' = cancelled \cup {p}
    /\ UNCHANGED <<lockVars, busVars, pc, publishVars, handlerVars, sentBefore>>

-----------------------------------------------------------------------------
(* Publish. *)

PublishLock(p) ==
    LET subs == subscriptions[Topic[p]]
    IN  /\ pc[p] = "lock"
        /\ writer = Nobody
        /\ \/ closed /\ Goto(p, "refused") /\ UNCHANGED <<readers, targets>>
           \/ ~ closed /\ subs = <<>> /\ Goto(p, "nosubs") /\ UNCHANGED <<readers, targets>>
           \/ /\ ~ closed /\ subs # <<>>
              /\ readers' = readers \cup {p}
              /\ targets' = [targets EXCEPT ![p] = subs]
              /\ Goto(p, "send")
        /\ UNCHANGED <<writer, busVars, next, handlerVars, cancelled, sentBefore>>

Sending(p) == pc[p] = "send" /\ next[p] <= Len(targets[p])
Target(p) == targets[p][next[p]]
NextTarget(p) == next' = [next EXCEPT ![p] = @ + 1]

HasRoom(s) == Len(buffer[s]) < Capacity

PutFirst(q, p) == <<p>> \o q            \* mutant: it gets past those that wait

Put(q, p) == Append(q, p)

(* case sub.ch <- cloned: also into the buffer of a subscription whose      *)
(* handler goroutine has ended, when there is room.                         *)
PublishSend(p) ==
    /\ Sending(p)
    /\ HasRoom(Target(p))
    /\ buffer' = [buffer EXCEPT ![Target(p)] = Put(@, p)]
    /\ NextTarget(p)
    /\ UNCHANGED <<lockVars, busVars, pc, targets, handler, handled, cancelled, sentBefore>>

SkipsRest(p) == next' = [next EXCEPT ![p] = Len(targets[p]) + 1]    \* mutant: break for continue
NeverSkips(p) == FALSE                  \* mutant: there is no case <-sub.done

Skips(p) == NextTarget(p)

(* case <-sub.done *)
PublishSkip(p) ==
    /\ Sending(p)
    /\ handler[Target(p)] = "done"
    /\ Skips(p)
    /\ UNCHANGED <<lockVars, busVars, pc, targets, handlerVars, cancelled, sentBefore>>

(* case <-ctx.Done(): the subscribers that came first have the message.    *)
PublishCancelled(p) ==
    /\ Sending(p)
    /\ p \in cancelled
    /\ readers' = readers \ {p}
    /\ Goto(p, "cancelled")
    /\ UNCHANGED <<writer, busVars, publishVars, handlerVars, cancelled, sentBefore>>

PublishReturn(p) ==
    /\ pc[p] = "send"
    /\ next[p] > Len(targets[p])
    /\ readers' = readers \ {p}
    /\ Goto(p, "sent")
    /\ UNCHANGED <<writer, busVars, publishVars, handlerVars, cancelled, sentBefore>>

-----------------------------------------------------------------------------
(* Subscribe and Close: m.mu.Lock keeps new readers out, then waits for     *)
(* those that are in.  (Between two writers Go lets the waiting readers in  *)
(* first; here they may also be overtaken again.)                           *)
WriteLock(p) ==
    /\ pc[p] = "lock"
    /\ writer = Nobody
    /\ writer' = p
    /\ Goto(p, "drain")
    /\ UNCHANGED <<readers, busVars, publishVars, handlerVars, cancelled, sentBefore>>

NobodyReads == TRUE                     \* mutant: readers are not waited for

ReadersGone == readers = {}

Subscribe(s) ==
    /\ pc[s] = "drain"
    /\ ReadersGone
    /\ writer' = Nobody
    /\ IF closed
          THEN Goto(s, "refused") /\ UNCHANGED <<subscriptions, handler>>
          ELSE /\ subscriptions' = [subscriptions EXCEPT ![Topic[s]] = Append(@, s)]
               /\ handler' = [handler EXCEPT ![s] = "select"]
               /\ Goto(s, "subscribed")
    /\ UNCHANGED <<readers, closed, chClosed, publishVars, buffer, handled, cancelled,
                   sentBefore>>

NoneClosed == {}                        \* mutant: the channels are only forgotten

Registered == UNION {ToSet(subscriptions[t]) : t \in Topics}

(* A second Close finds nothing registered and returns nil as well. *)
Close(z) ==
    /\ pc[z] = "drain"
    /\ ReadersGone
    /\ writer' = Nobody
    /\ closed' = TRUE
    /\ chClosed' = chClosed \cup Registered
    /\ subscriptions' = [t \in Topics |-> <<>>]
    /\ Goto(z, "closed")
    /\ UNCHANGED <<readers, publishVars, handlerVars, cancelled, sentBefore>>

-----------------------------------------------------------------------------
(* runHandler of subscription s. *)

HandlerReceive(s) ==
    /\ handler[s] = "select"
    /\ buffer[s] # <<>>
    /\ buffer' = [buffer EXCEPT ![s] = Tail(@)]
    /\ handled' = [handled EXCEPT ![s] = Append(@, Head(buffer[s]))]
    /\ handler' = [handler EXCEPT ![s] = "handling"]
    /\ UNCHANGED <<lockVars, busVars, pc, publishVars, cancelled, sentBefore>>

(* The handler returns, with or without an error, once the calls it made did. *)
HandlerReturns(s) ==
    /\ handler[s] = "handling"
    /\ \A p \in Calls : CalledBy[p] = s => ~ UnderWay(p)
    /\ handler' = [handler EXCEPT ![s] = "select"]
    /\ UNCHANGED <<lockVars, busVars, pc, publishVars, buffer, handled, cancelled, sentBefore>>

DropsRest(s) == s \in chClosed          \* mutant: Close ends the loop, messages or not

Drained(s) == s \in chClosed /\ buffer[s] = <<>>

HandlerExit(s) ==
    /\ handler[s] = "select"
    /\ s \in cancelled \/ Drained(s)
    /\ handler' = [handler EXCEPT ![s] = "done"]
    /\ UNCHANGED <<lockVars, busVars, pc, publishVars, buffer, handled, cancelled, sentBefore>>

-----------------------------------------------------------------------------
PublishStep(p) ==
    PublishLock(p) \/ PublishSend(p) \/ PublishSkip(p) \/ PublishCancelled(p) \/ PublishReturn(p)

WriterStep(p) ==
    \/ WriteLock(p)
    \/ p \in SubscribeCalls /\ Subscribe(p)
    \/ p \in CloseCalls /\ Close(p)

HandlerStep(s) == HandlerReceive(s) \/ HandlerReturns(s) \/ HandlerExit(s)

Next ==
    \/ \E p \in Calls : Call(p)
    \/ \E p \in Cancellable : Cancel(p)
    \/ \E p \in PublishCalls : PublishStep(p)
    \/ \E p \in Writers : WriterStep(p)
    \/ \E s \in SubscribeCalls : HandlerStep(s)

Spec == Init /\ [][Next]_vars

(* A call under way and a handler goroutine take their next step.  Weak     *)
(* fairness is enough for the lock too: each call takes it once, so one     *)
(* that waits cannot be passed over for ever.  No call has to be made and   *)
(* no context cancelled.                                                    *)
Fairness ==
    /\ \A p \in PublishCalls : WF_vars(PublishStep(p))
    /\ \A p \in Writers : WF_vars(WriterStep(p))
    /\ \A s \in SubscribeCalls : WF_vars(HandlerStep(s))

FairSpec == Spec /\ Fairness

-----------------------------------------------------------------------------
(* A channel is never closed while a Publish may still send on it, which    *)
(* would panic: Close waits for the publishers that are in, and those that  *)
(* come later find no subscription (memory.go:45-70, 135-152).              *)
NoSendOnClosed ==
    \A p \in PublishCalls : Sending(p) => Target(p) \notin chClosed

(* A Publish that returned nil left no subscriber out: each one that it     *)
(* found has the message in its channel or was called with it, unless its   *)
(* goroutine has ended; one that ended does not keep the message from the   *)
(* ones after it (memory.go:62-72).                                         *)
SentToAll ==
    \A p \in PublishCalls : pc[p] = "sent" =>
        \A i \in DOMAIN targets[p] :
            LET s == targets[p][i]
            IN  handler[s] = "done" \/ p \in ToSet(handled[s] \o buffer[s])

(* Each subscriber sees the messages of Publish calls that followed each    *)
(* other in the order of the calls, and none twice.                         *)
PublishOrderKept ==
    \A s \in SubscribeCalls :
        LET seen == handled[s] \o buffer[s]
        IN  \A i, j \in DOMAIN seen : i < j =>
                seen[i] # seen[j] /\ seen[j] \notin sentBefore[seen[i]]

(* Close flushes: a message in a channel is handled, also when the bus is   *)
(* closed first, unless the subscription's context is cancelled             *)
(* (memory.go:116-130).                                                     *)
AcceptedIsHandled ==
    \A s \in SubscribeCalls : \A p \in PublishCalls :
        p \in ToSet(buffer[s]) ~> p \in ToSet(handled[s]) \/ s \in cancelled

(* Close ends the goroutine of every subscription, those made while it      *)
(* waited for the lock included.                                            *)
CloseEndsHandlers ==
    closed ~> \A s \in SubscribeCalls : handler[s] \in {"none", "done"}

(* "Close releases all resources and gracefully shuts down the event bus"   *)
(* (bus.go): no call blocks for ever, full buffers and ended subscribers    *)
(* notwithstanding.  Each of finitely many calls is made once: all that were *)
(* made have returned again and again exactly if none blocks.               *)
CallsReturn ==
    []<> \A p \in Calls : ~ UnderWay(p)

=============================================================================
