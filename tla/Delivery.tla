------------------------------ MODULE Delivery ------------------------------
(***************************************************************************)
(* pkg/bus/jetstream.go with the middleware of pkg/bus/middleware.go and   *)
(* pkg/retry: events published to a JetStream stream and delivered to the  *)
(* subscribers of one topic, which share a durable consumer.  The handler  *)
(* of every subscriber is wrapped as                                       *)
(*      WithRetry(MaxAttempts, _), WithTimeout(_), WithRecovery()          *)
(* the first option outermost.  An event that is published again after an  *)
(* answer got lost is another entry of the stream.                         *)
(*                                                                         *)
(* The server counts deliveries, takes an entry back after a NAK or AckWait*)
(* and gives up after MaxDeliver.  Acks are fire and forget: Lossy of them *)
(* never reach the server.  The handler is the caller's: an attempt may    *)
(* answer, panic or hang, and goes on after WithTimeout has left it.       *)
(***************************************************************************)
EXTENDS Integers, FiniteSets, SequencesExt

CONSTANTS
  Events,       \* the events that are published
  Copies,       \* bound: how often each of them gets into the stream
  Subs,         \* processes that subscribe to the topic
  MaxDeliver, MaxAttempts,
  MaxRestarts,  \* bound: how many processes come back with a new subscription
  Lossy         \* bound: how many acks or naks get lost

ASSUME BoundsAreNat ==
  /\ {Copies, MaxRestarts, Lossy} \subseteq Nat
  /\ {MaxDeliver, MaxAttempts} \subseteq Nat \ {0}

Entries == Events \X (1 .. Copies)

VARIABLES
  copies,     \* entries of each event
  publisher,  \* what Publish last said of it
  server,     \* the state of each entry on the server
  deliveries, \* how often each entry was delivered
  bus,        \* a subscriber's bus
  ctx,        \* the context it subscribed with
  fetched,    \* entries that Consume has fetched for it
  callback,   \* what its callback is doing: "idle", "attempt" or "backoff"
  tries,      \* attempts of the callback
  strays,     \* attempts that WithTimeout has left behind
  restarts, lost,
  succeeded, refused, runs  \* history: entries some attempt answered, and their attempts

stream  == <<copies, publisher>>
worker  == <<callback, tries>>
process == <<bus, ctx, restarts>>
history == <<succeeded, refused, runs>>
deliveryVars == <<stream, server, deliveries, process, fetched, worker, strays, lost, history>>

DeliveryTypeOK ==
  /\ copies \in [Events -> 0 .. Copies]
  /\ publisher \in [Events -> {"new", "ok", "temporary", "permanent"}]
  /\ server \in [Entries -> {"none", "pending", "inflight", "acked", "exhausted"}]
  /\ deliveries \in [Entries -> 0 .. MaxDeliver]
  /\ bus \in [Subs -> {"open", "closed"}]
  /\ ctx \in [Subs -> {"live", "cancelled"}]
  /\ \A s \in Subs : ToSet(fetched[s]) \subseteq Entries
  /\ callback \in [Subs -> {"idle", "attempt", "backoff"}]
  /\ tries \in [Subs -> 0 .. MaxAttempts]
  /\ strays \subseteq Subs \X Entries
  /\ restarts \in 0 .. MaxRestarts /\ lost \in 0 .. Lossy
  /\ succeeded \subseteq Entries /\ refused \subseteq Entries
  /\ runs \in [Entries -> Nat]

DeliveryInit ==
  /\ copies = [e \in Events |-> 0]
  /\ publisher = [e \in Events |-> "new"]
  /\ server = [m \in Entries |-> "none"]
  /\ deliveries = [m \in Entries |-> 0]
  /\ bus = [s \in Subs |-> "open"]
  /\ ctx = [s \in Subs |-> "live"]
  /\ fetched = [s \in Subs |-> <<>>]
  /\ callback = [s \in Subs |-> "idle"]
  /\ tries = [s \in Subs |-> 0]
  /\ strays = {}
  /\ restarts = 0 /\ lost = 0
  /\ succeeded = {} /\ refused = {} /\ runs = [m \in Entries |-> 0]

-----------------------------------------------------------------------------
(* Publish and its caller, who publishes again while the error is Temporary *)

Publish(e, stored, answer) ==
  /\ publisher[e] \in {"new", "temporary"}
  /\ answer = "ok" => stored
  /\ publisher' = [publisher EXCEPT ![e] = answer]
  /\ \/ ~stored /\ UNCHANGED <<copies, server>>
     \/ /\ stored /\ copies[e] < Copies
        /\ copies' = [copies EXCEPT ![e] = @ + 1]
        /\ server' = [server EXCEPT ![<<e, copies[e] + 1>>] = "pending"]
  /\ UNCHANGED <<deliveries, process, fetched, worker, strays, lost, history>>

\* The answer is "permanent" when the caller's context has ended (Wrap).
Publishes == \E e \in Events, stored \in BOOLEAN, answer \in {"ok", "temporary", "permanent"} :
               Publish(e, stored, answer)

-----------------------------------------------------------------------------
(* The server *)

\* An entry is offered again until it was delivered MaxDeliver times.
TakenBack(m) == IF deliveries[m] < MaxDeliver THEN "pending" ELSE "exhausted"

Deliver(s, m) ==
  /\ bus[s] = "open" /\ server[m] = "pending"
  /\ server' = [server EXCEPT ![m] = "inflight"]
  /\ deliveries' = [deliveries EXCEPT ![m] = @ + 1]
  /\ fetched' = [fetched EXCEPT ![s] = Append(@, m)]
  /\ UNCHANGED <<stream, process, worker, strays, lost, history>>

AckWaitEnds(m) ==
  /\ server[m] = "inflight"
  /\ server' = [server EXCEPT ![m] = TakenBack(m)]
  /\ UNCHANGED <<stream, deliveries, process, fetched, worker, strays, lost, history>>

\* A late ack counts while the server still knows the entry; a NAK is passed
\* over when the entry is waiting to be delivered anyway.
Acked(m) ==
  server' = IF server[m] = "exhausted" THEN server ELSE [server EXCEPT ![m] = "acked"]
Nacked(m) ==
  server' = IF server[m] = "inflight" THEN [server EXCEPT ![m] = TakenBack(m)] ELSE server

-----------------------------------------------------------------------------
(* The callback of Consume *)

Current(s) == Head(fetched[s])

\* What becomes of an error: Temporary ones are sent back, Permanent ones and
\* those of no class are acknowledged like a success.
Settles(m, err) == IF err = "temporary" THEN Nacked(m) ELSE Acked(m)

\* After Close the connection is gone and neither Ack nor Nak gets out.
CallbackReturns(s, err) ==
  /\ callback' = [callback EXCEPT ![s] = "idle"]
  /\ tries' = [tries EXCEPT ![s] = 0]
  /\ fetched' = [fetched EXCEPT ![s] = Tail(@)]
  /\ \/ bus[s] = "open" /\ Settles(Current(s), err) /\ UNCHANGED lost
     \/ bus[s] = "open" /\ lost < Lossy /\ lost' = lost + 1 /\ UNCHANGED server
     \/ bus[s] = "closed" /\ UNCHANGED <<server, lost>>

\* retry.Do: the attempt's error is returned as it is when the tries are used
\* up or it is not Temporary; the plain error of a context that has ended replaces it.
OneTryMore(s) == tries[s] > MaxAttempts   \* mutant: the count starts a try late
LastTry(s) == tries[s] >= MaxAttempts
AttemptFails(s, err) ==
  \/ (LastTry(s) \/ err # "temporary") /\ CallbackReturns(s, err)
  \/ /\ ~LastTry(s) /\ err = "temporary" /\ ctx[s] = "cancelled"
     /\ CallbackReturns(s, "plain")
  \/ /\ ~LastTry(s) /\ err = "temporary" /\ ctx[s] = "live"
     /\ callback' = [callback EXCEPT ![s] = "backoff"]
     /\ UNCHANGED <<tries, fetched, server, lost>>

BeginAttempt(s) ==
  /\ callback' = [callback EXCEPT ![s] = "attempt"]
  /\ tries' = [tries EXCEPT ![s] = @ + 1]
  /\ runs' = [runs EXCEPT ![Current(s)] = @ + 1]
  /\ UNCHANGED <<stream, server, deliveries, process, fetched, strays, lost, succeeded, refused>>

Receive(s) == callback[s] = "idle" /\ fetched[s] # <<>> /\ BeginAttempt(s)

\* What a handler returns of its own accord: an error may be Temporary,
\* Permanent (WithRecovery makes one of a panic) or of no class, "plain", like
\* the ctx.Err() of a handler that gives up because the context that
\* WithTimeout gave it has ended.
Answers(m, err) ==
  /\ succeeded' = IF err = "ok" THEN succeeded \cup {m} ELSE succeeded
  /\ refused' = IF err = "permanent" THEN refused \cup {m} ELSE refused
  /\ UNCHANGED runs

HandlerAnswers(s, err) ==
  /\ callback[s] = "attempt"
  /\ Answers(Current(s), err)
  /\ AttemptFails(s, err)
  /\ UNCHANGED <<stream, deliveries, process, strays>>

\* The select of WithTimeout takes ctx.Done: the time is up, or the context of
\* the subscription has ended.  The goroutine of the attempt stays behind.
EndsOnlyWithContext(s) ==   \* mutant: no timer, only the parent's context
  /\ callback[s] = "attempt" /\ ctx[s] = "cancelled"
  /\ strays' = strays \cup {<<s, Current(s)>>}
  /\ AttemptFails(s, "temporary")
  /\ UNCHANGED <<stream, deliveries, process, history>>
AttemptTimesOut(s) ==
  /\ callback[s] = "attempt"
  /\ strays' = strays \cup {<<s, Current(s)>>}
  /\ AttemptFails(s, "temporary")
  /\ UNCHANGED <<stream, deliveries, process, history>>

\* Its answer goes to a channel that nobody reads.
StrayAnswers(s, m, err) ==
  /\ <<s, m>> \in strays
  /\ strays' = strays \ {<<s, m>>}
  /\ Answers(m, err)
  /\ UNCHANGED <<stream, server, deliveries, process, fetched, worker, lost>>

BackoffElapses(s) == callback[s] = "backoff" /\ BeginAttempt(s)

BackoffCancelled(s) ==
  /\ callback[s] = "backoff" /\ ctx[s] = "cancelled"
  /\ CallbackReturns(s, "plain")
  /\ UNCHANGED <<stream, deliveries, process, strays, history>>

-----------------------------------------------------------------------------
(* The subscribing process *)

\* The context of Subscribe ends; only Close stops the consumer.
CancelContext(s) ==
  /\ bus[s] = "open" /\ ctx[s] = "live"
  /\ ctx' = [ctx EXCEPT ![s] = "cancelled"]
  /\ UNCHANGED <<stream, server, deliveries, bus, restarts, fetched, worker, strays, lost, history>>

\* Consumers are stopped, which drops what they have buffered, and the
\* connection is closed; a callback that is under way goes on.
Busy(s) == callback[s] # "idle"
CloseBus(s) ==
  /\ bus[s] = "open"
  /\ bus' = [bus EXCEPT ![s] = "closed"]
  /\ fetched' = [fetched EXCEPT ![s] = IF Busy(s) THEN <<Current(s)>> ELSE <<>>]
  /\ UNCHANGED <<stream, server, deliveries, ctx, restarts, worker, strays, lost, history>>

\* The process ends, after Close or without it, and with it what it was doing.
Crash(s) ==
  /\ bus[s] = "open" \/ Busy(s)
  /\ bus' = [bus EXCEPT ![s] = "closed"]
  /\ fetched' = [fetched EXCEPT ![s] = <<>>]
  /\ callback' = [callback EXCEPT ![s] = "idle"]
  /\ tries' = [tries EXCEPT ![s] = 0]
  /\ strays' = {x \in strays : x[1] # s}
  /\ UNCHANGED <<stream, server, deliveries, ctx, restarts, lost, history>>

\* NewJetStream finds the stream and Subscribe the durable consumer.
SubscribeAgain(s) ==
  /\ bus[s] = "closed" /\ ~Busy(s) /\ restarts < MaxRestarts
  /\ bus' = [bus EXCEPT ![s] = "open"]
  /\ ctx' = [ctx EXCEPT ![s] = "live"]
  /\ restarts' = restarts + 1
  /\ UNCHANGED <<stream, server, deliveries, fetched, worker, strays, lost, history>>

Results == {"ok", "temporary", "permanent", "plain"}
Answer(s) == \E err \in Results : HandlerAnswers(s, err)
StrayReturns == \E x \in strays, err \in Results : StrayAnswers(x[1], x[2], err)

DeliveryNext ==
  \/ Publishes \/ StrayReturns
  \/ \E m \in Entries : AckWaitEnds(m) \/ \E s \in Subs : Deliver(s, m)
  \/ \E s \in Subs :
       \/ Receive(s) \/ Answer(s) \/ AttemptTimesOut(s)
       \/ BackoffElapses(s) \/ BackoffCancelled(s)
       \/ CancelContext(s) \/ CloseBus(s) \/ Crash(s) \/ SubscribeAgain(s)

DeliverySpec == DeliveryInit /\ [][DeliveryNext]_deliveryVars

\* Timers fire, the server delivers and takes back, and Consume calls back;
\* the handler need not answer.
FairDeliverySpec ==
  /\ DeliverySpec
  /\ \A m \in Entries : WF_deliveryVars(AckWaitEnds(m)) /\ WF_deliveryVars(\E s \in Subs : Deliver(s, m))
  /\ \A s \in Subs : WF_deliveryVars(Receive(s)) /\ WF_deliveryVars(AttemptTimesOut(s)) /\ WF_deliveryVars(BackoffElapses(s))

-----------------------------------------------------------------------------
(* Properties *)

\* The server takes an entry for done only when an attempt handled it or
\* refused it with a Permanent error (jetstream.go:18, "at-least-once delivery
\* guarantees", and 219, "Permanent error, acknowledge to prevent redelivery").
AtLeastOnce == \A m \in Entries : server[m] = "acked" => m \in succeeded \cup refused

\* However deliveries, retries, timeouts, crashes and restarts combine, the
\* handler is called at most MaxAttempts times for each of at most MaxDeliver
\* deliveries (jetstream.go:193, middleware.go:24-34).
AttemptsAreBounded == \A m \in Entries : runs[m] <= MaxDeliver * MaxAttempts

\* A callback comes to its end although the handler may hang and the server
\* deliver the entry elsewhere meanwhile (middleware.go:170-188, retry.go:81).
CallbackEnds == \A s \in Subs : Busy(s) ~> ~Busy(s)
=============================================================================
