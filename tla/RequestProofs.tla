---------------------------- MODULE RequestProofs ----------------------------
(***************************************************************************)
(* PostAtMostOnce for any number of calls, attempts and tokens.  That a    *)
(* handler ran at most once is not inductive: it needs that a POST has     *)
(* only its first attempt under way, and none once a handler has run.      *)
(***************************************************************************)
EXTENDS Request, TLAPS

NetType == net \in [Calls -> SUBSET (Nat \X Nat)]

Shape ==
  /\ pc \in [Calls -> {"new", "send", "sent", "backoff", "done"}]
  /\ try \in [Calls -> Nat]
  /\ executed \in [Calls -> Nat]
  /\ NetType

Asked(c) == <<1, 0>> \in net[c]

OneAttempt(c) ==
  /\ pc[c] # "backoff"
  /\ pc[c] \in {"new", "send"} => net[c] = {} /\ try[c] = 0 /\ executed[c] = 0
  /\ \A x \in net[c] : x[2] = 0 => x[1] = 1
  /\ executed[c] = 0 \/ (executed[c] = 1 /\ ~Asked(c))

PostInv == \A c \in Calls : ~Idempotent(method[c]) => OneAttempt(c)

IInv == Shape /\ PostInv

\* The answers of a service are never the 0 of an attempt.
LEMMA StatusIsPositive ==
  ASSUME NEW e
  PROVE  HTTPStatusCode(e) \in Nat \ {0}
BY DEF HTTPStatusCode

LEMMA InitIInv == Init => IInv
<1> SUFFICES ASSUME Init PROVE IInv
  OBVIOUS
<1>1. Shape
  BY DEF Init, Shape, NetType
<1>2. PostInv
  BY DEF Init, PostInv, OneAttempt, Asked
<1> QED
  BY <1>1, <1>2 DEF IInv

\* What a step does to another call than its own is nothing.
LEMMA OthersKeep ==
  ASSUME IInv, NEW c \in Calls,
         Shape', method' = method,
         \A d \in Calls \ {c} :
           pc'[d] = pc[d] /\ try'[d] = try[d] /\ net'[d] = net[d] /\ executed'[d] = executed[d],
         ~Idempotent(method[c]) => OneAttempt(c)'
  PROVE  IInv'
<1>1. ASSUME NEW d \in Calls \ {c}, ~Idempotent(method[d])
      PROVE  OneAttempt(d)'
  BY <1>1 DEF IInv, PostInv, OneAttempt, Asked
<1> QED
  BY <1>1 DEF IInv, PostInv, Idempotent

LEMMA SendKeeps ==
  ASSUME IInv, NEW c \in Calls, Send(c)
  PROVE  IInv'
<1>1. Shape'
  BY DEF IInv, Shape, NetType, Send
<1>2. ASSUME ~Idempotent(method[c]) PROVE OneAttempt(c)'
  <2>1. pc[c] = "send" /\ try[c] = 0 /\ net[c] = {} /\ executed[c] = 0
    BY <1>2 DEF IInv, PostInv, OneAttempt, Send
  <2>2. pc'[c] = "sent" /\ net'[c] = {<<1, 0>>} /\ executed'[c] = 0
    BY <2>1 DEF IInv, Shape, NetType, Send
  <2> QED
    BY <2>2 DEF OneAttempt, Asked
<1> QED
  BY <1>1, <1>2, OthersKeep DEF Send, IInv, Shape, NetType, request

\* A call that returns has no attempt added to what is under way.
LEMMA ReturnKeeps ==
  ASSUME IInv, NEW c \in Calls,
         pc[c] \in {"sent", "backoff", "new"}, \E res : Returns(c, res),
         net' \in [Calls -> SUBSET (Nat \X Nat)], net'[c] \subseteq net[c],
         \A d \in Calls \ {c} : net'[d] = net[d],
         UNCHANGED <<method, try, executed>>
  PROVE  IInv'
<1>1. pc' = [pc EXCEPT ![c] = "done"]
  BY DEF Returns
<1>2. Shape'
  BY <1>1 DEF IInv, Shape, NetType
<1>3. ASSUME ~Idempotent(method[c]) PROVE OneAttempt(c)'
  BY <1>1, <1>3 DEF IInv, Shape, PostInv, OneAttempt, Asked
<1> QED
  BY <1>1, <1>2, <1>3, OthersKeep DEF IInv, Shape

\* A call that goes to wait for its next attempt is a GET.
LEMMA BackoffKeeps ==
  ASSUME IInv, NEW c \in Calls, MayRetry(c), pc' = [pc EXCEPT ![c] = "backoff"],
         net' \in [Calls -> SUBSET (Nat \X Nat)],
         \A d \in Calls \ {c} : net'[d] = net[d],
         UNCHANGED <<method, try, executed>>
  PROVE  IInv'
<1>1. Shape'
  BY DEF IInv, Shape, NetType
<1>2. Idempotent(method[c])
  BY DEF MayRetry
<1> QED
  BY <1>1, <1>2, OthersKeep DEF IInv, Shape

LEMMA AnsweredKeeps ==
  ASSUME IInv, NEW c \in Calls, NEW s \in Codes, Answered(c, s)
  PROVE  IInv'
<1>1. /\ net' \in [Calls -> SUBSET (Nat \X Nat)] /\ net'[c] \subseteq net[c]
      /\ \A d \in Calls \ {c} : net'[d] = net[d]
  BY DEF IInv, Shape, NetType, Answered
<1>2. UNCHANGED <<method, try, executed>> /\ pc[c] = "sent"
  BY DEF Answered, request
<1>3. CASE RetryOnStatus(s) /\ MayRetry(c)
  BY <1>1, <1>2, <1>3, BackoffKeeps DEF Answered
<1>4. CASE ~(RetryOnStatus(s) /\ MayRetry(c))
  BY <1>1, <1>2, <1>4, ReturnKeeps DEF Answered
<1> QED
  BY <1>3, <1>4

LEMMA UnansweredShrinks ==
  ASSUME IInv, NEW c \in Calls, Unanswered(c)
  PROVE  /\ net' \in [Calls -> SUBSET (Nat \X Nat)] /\ net'[c] \subseteq net[c]
         /\ \A d \in Calls \ {c} : net'[d] = net[d]
BY DEF IInv, Shape, NetType, Unanswered

LEMMA AttemptFailsKeeps ==
  ASSUME IInv, NEW c \in Calls, AttemptFails(c)
  PROVE  IInv'
<1>1. UNCHANGED <<method, try, executed>> /\ pc[c] = "sent" /\ Unanswered(c)
  BY DEF AttemptFails, request
<1>2. CASE MayRetry(c) /\ pc' = [pc EXCEPT ![c] = "backoff"]
  BY <1>1, <1>2, UnansweredShrinks, BackoffKeeps
<1>3. CASE Returns(c, RequestFailed)
  BY <1>1, <1>3, UnansweredShrinks, ReturnKeeps
<1> QED
  BY <1>2, <1>3 DEF AttemptFails

LEMMA CallerLeavesKeeps ==
  ASSUME IInv, NEW c \in Calls, CallerLeaves(c)
  PROVE  IInv'
<1>1. UNCHANGED <<method, try, executed>> /\ pc[c] \in {"sent", "backoff"} /\ Unanswered(c)
  BY DEF CallerLeaves, request
<1>2. \E res : Returns(c, res)
  BY DEF CallerLeaves
<1> QED
  BY <1>1, <1>2, UnansweredShrinks, ReturnKeeps

LEMMA LimiterKeeps ==
  ASSUME IInv, NEW c \in Calls, LimiterWait(c) \/ LimiterFails(c)
  PROVE  IInv'
<1>1. CASE LimiterWait(c)
  <2>1. Shape'
    BY <1>1 DEF IInv, Shape, NetType, LimiterWait
  <2>2. ~Idempotent(method[c]) => OneAttempt(c)'
    BY <1>1 DEF IInv, Shape, PostInv, OneAttempt, Asked, LimiterWait
  <2> QED
    BY <1>1, <2>1, <2>2, OthersKeep DEF IInv, Shape, LimiterWait, request
<1>2. CASE LimiterFails(c)
  <2>1. UNCHANGED <<method, try, executed, net>> /\ pc[c] = "new" /\ \E res : Returns(c, res)
    BY <1>2 DEF LimiterFails, request
  <2>2. net' \in [Calls -> SUBSET (Nat \X Nat)]
    BY <2>1 DEF IInv, Shape, NetType
  <2> QED
    BY <2>1, <2>2, ReturnKeeps
<1> QED
  BY <1>1, <1>2

\* What an answer does to the attempts that are under way.
LEMMA AnswersSettle ==
  ASSUME IInv, NEW c \in Calls, NEW t \in Tries, NEW s \in Nat \ {0}, Answers(c, t, s)
  PROVE  /\ net' \in [Calls -> SUBSET (Nat \X Nat)]
         /\ net'[c] \subseteq (net[c] \ {<<t, 0>>}) \cup {<<t, s>>}
         /\ \A d \in Calls \ {c} : net'[d] = net[d]
<1>1. Tries \subseteq Nat
  BY CountsAreNat DEF Tries
<1> QED
  BY <1>1 DEF IInv, Shape, NetType, Answers

LEMMA RefuseKeeps ==
  ASSUME IInv, NEW c \in Calls, NEW t \in Tries, Refuse(c, t)
  PROVE  IInv'
<1> DEFINE s == RefusedOverHTTP
<1>1. s \in Nat \ {0}
  BY StatusIsPositive DEF RefusedOverHTTP
<1>2. /\ net' \in [Calls -> SUBSET (Nat \X Nat)]
      /\ net'[c] \subseteq (net[c] \ {<<t, 0>>}) \cup {<<t, s>>}
      /\ \A d \in Calls \ {c} : net'[d] = net[d]
  BY <1>1, AnswersSettle DEF Refuse
<1>3. UNCHANGED <<method, pc, try, executed>> /\ <<t, 0>> \in net[c]
  BY DEF Refuse, request
<1>4. Shape'
  BY <1>2, <1>3 DEF IInv, Shape, NetType
<1>5. ASSUME ~Idempotent(method[c]) PROVE OneAttempt(c)'
  BY <1>1, <1>2, <1>3, <1>5 DEF IInv, Shape, NetType, PostInv, OneAttempt, Asked
<1> QED
  BY <1>2, <1>3, <1>4, <1>5, OthersKeep

LEMMA HandleKeeps ==
  ASSUME IInv, NEW c \in Calls, NEW t \in Tries, Handle(c, t)
  PROVE  IInv'
<1>1. PICK s \in Nat \ {0} : Answers(c, t, s)
  BY StatusIsPositive DEF Handle, PanicOverHTTP
<1>2. /\ net' \in [Calls -> SUBSET (Nat \X Nat)]
      /\ net'[c] \subseteq (net[c] \ {<<t, 0>>}) \cup {<<t, s>>}
      /\ \A d \in Calls \ {c} : net'[d] = net[d]
  BY <1>1, AnswersSettle
<1>3. /\ UNCHANGED <<method, pc, try>> /\ <<t, 0>> \in net[c]
      /\ executed' = [executed EXCEPT ![c] = @ + 1]
  BY DEF Handle, request
<1>4. Shape'
  BY <1>2, <1>3 DEF IInv, Shape, NetType
<1>5. ASSUME ~Idempotent(method[c]) PROVE OneAttempt(c)'
  <2>1. OneAttempt(c)
    BY <1>5 DEF IInv, PostInv
  <2>2. t = 1 /\ executed[c] = 0
    BY <1>3, <2>1 DEF OneAttempt, Asked
  <2>3. executed'[c] = 1
    BY <1>3, <2>2 DEF IInv, Shape
  <2>4. pc'[c] = pc[c] /\ pc[c] \notin {"new", "send", "backoff"}
    BY <1>3, <2>1 DEF OneAttempt
  <2>5. /\ <<1, 0>> \notin net'[c]
        /\ \A x \in net'[c] : x \in net[c] \/ x = <<1, s>>
    BY <1>1, <1>2, <2>2
  <2> QED
    BY <1>1, <2>1, <2>3, <2>4, <2>5 DEF OneAttempt, Asked
<1> QED
  BY <1>2, <1>3, <1>4, <1>5, OthersKeep DEF IInv, Shape

LEMMA NextIInv == IInv /\ [Next]_vars => IInv'
<1> SUFFICES ASSUME IInv, [Next]_vars PROVE IInv'
  OBVIOUS
<1>1. CASE UNCHANGED <<method, pc, try, net, executed>>
  BY <1>1 DEF IInv, Shape, NetType, PostInv, OneAttempt, Asked, Idempotent
<1>2. CASE Refill
  BY <1>1, <1>2 DEF Refill, request
<1>3. ASSUME NEW c \in Calls, LimiterWait(c) \/ LimiterFails(c) PROVE IInv'
  BY <1>3, LimiterKeeps
<1>4. ASSUME NEW c \in Calls, Send(c) PROVE IInv'
  BY <1>4, SendKeeps
<1>5. ASSUME NEW c \in Calls, AttemptFails(c) PROVE IInv'
  BY <1>5, AttemptFailsKeeps
<1>6. ASSUME NEW c \in Calls, CallerLeaves(c) PROVE IInv'
  BY <1>6, CallerLeavesKeeps
<1>7. ASSUME NEW c \in Calls, TokenExpires(c) PROVE IInv'
  BY <1>1, <1>7 DEF TokenExpires
<1>8. ASSUME NEW c \in Calls, ServiceStep(c) PROVE IInv'
  BY <1>8, RefuseKeeps, HandleKeeps DEF ServiceStep
<1>9. ASSUME NEW c \in Calls, NEW s \in Codes, Answered(c, s) PROVE IInv'
  BY <1>9, AnsweredKeeps
<1>10. CASE UNCHANGED vars
  BY <1>1, <1>10 DEF vars, request
<1> QED
  BY <1>2, <1>3, <1>4, <1>5, <1>6, <1>7, <1>8, <1>9, <1>10 DEF Next

\* A POST is executed at most once, for every number of calls, retries and
\* tokens, whatever the service answers and whenever attempts are given up
\* (client.go:79-98).
THEOREM PostsRunOnce == Spec => []PostAtMostOnce
<1>1. IInv => PostAtMostOnce
  BY DEF IInv, PostInv, OneAttempt, PostAtMostOnce
<1> QED
  BY InitIInv, NextIInv, <1>1, PTL DEF Spec

-----------------------------------------------------------------------------
(* What pkg/errors and pkg/auth promise of every error and every header: the *)
(* operators have no state, so the theorems are about their values.          *)

\* Wrap adds a type that is in the error's chain already, or Permanent to an
\* error that has none (wrapping.go:15-39).
LEMMA OuterIsKnown ==
  ASSUME NEW e \in AnyError
  PROVE  /\ Outer(e) \in Kinds
         /\ Outer(e) \in e \/ (e = {} /\ Outer(e) = "Permanent")
BY DEF Outer, AnyError, Kinds

\* Errors may be wrapped as often as one likes: neither the answer over HTTP nor
\* the question whether to retry changes (wrapping.go:7-9, http.go:20-33,
\* retry/config.go:91-94).
THEOREM WrappingIsHarmless == WrapKeepsMeaning
<1> SUFFICES ASSUME NEW e \in AnyError
             PROVE  /\ HTTPStatusCode(Wrap(e)) = HTTPStatusCode(e)
                    /\ "Temporary" \in Wrap(e) <=> "Temporary" \in e
  BY DEF WrapKeepsMeaning
<1>1. CASE Outer(e) \in e
  <2>1. Wrap(e) = e
    BY <1>1 DEF Wrap
  <2> QED
    BY <2>1
<1>2. CASE e = {} /\ Outer(e) = "Permanent"
  <2>1. Wrap(e) = {"Permanent"}
    BY <1>2 DEF Wrap
  <2>2. HTTPStatusCode(Wrap(e)) = 500 /\ HTTPStatusCode(e) = 500
    BY <2>1, <1>2 DEF HTTPStatusCode, Told
  <2> QED
    BY <2>1, <2>2, <1>2
<1> QED
  BY <1>1, <1>2, OuterIsKnown

\* The client's table of statuses is the inverse of the server's, up to the
\* errors that say nothing of their cause (http.go:20-33, response.go:172-194).
THEOREM StatusesRoundTrip == KindsSurviveHTTP
<1> SUFFICES ASSUME NEW e \in AnyError
             PROVE  MapStatusCode(HTTPStatusCode(e)) =
                      IF e \subseteq {"Permanent"} THEN {"Temporary"} ELSE {Told(e)}
  BY DEF KindsSurviveHTTP
<1>1. /\ MapStatusCode(400) = {"InvalidInput"}
      /\ MapStatusCode(401) = {"Unauthorized"}
      /\ MapStatusCode(404) = {"NotFound"}
      /\ MapStatusCode(503) = {"Temporary"}
      /\ MapStatusCode(500) = {"Temporary"}
  BY DEF MapStatusCode
<1>2. CASE "NotFound" \in e
  BY <1>1, <1>2 DEF HTTPStatusCode, Told
<1>3. CASE "NotFound" \notin e /\ "InvalidInput" \in e
  BY <1>1, <1>3 DEF HTTPStatusCode, Told
<1>4. CASE e \cap {"NotFound", "InvalidInput"} = {} /\ "Unauthorized" \in e
  BY <1>1, <1>4 DEF HTTPStatusCode, Told
<1>5. CASE e \subseteq {"Temporary", "Permanent"} /\ "Temporary" \in e
  BY <1>1, <1>5 DEF HTTPStatusCode, Told
<1>6. CASE e \subseteq {"Permanent"}
  <2>1. Told(e) \in {"Permanent", "unknown"}
    BY <1>6 DEF Told
  <2>2. HTTPStatusCode(e) = 500
    BY <2>1 DEF HTTPStatusCode
  <2> QED
    BY <2>2, <1>1, <1>6
<1> QED
  BY <1>2, <1>3, <1>4, <1>5, <1>6 DEF AnyError, Kinds

\* A service that asks for a key or a token lets the same callers pass over
\* gRPC and over HTTP, whatever keys, issuer and audience it is configured with
\* and whatever else the metadata holds.
THEOREM SameCallersPass ==
  ASSUME NEW S, NEW asked \in S, NEW more \in Seq(S)
  PROVE  TransportsAgree(asked, more)
<1> DEFINE values == <<asked>> \o more
<1>1. Len(values) > 0 /\ Head(values) = asked
  OBVIOUS
<1>2. APIKeyMiddleware(asked) = ValidateAPIKeyFromMetadata(values)
  BY <1>1 DEF APIKeyMiddleware, ValidateAPIKeyFromMetadata
<1>3. JWTMiddleware(asked) = ValidateJWTFromMetadata(values)
  BY <1>1 DEF JWTMiddleware, ValidateJWTFromMetadata
<1>4. RefusedOverGRPC = GRPCStatus({"Unauthorized"}) /\ PanicOverGRPC = GRPCStatus(PanicError)
  BY DEF RefusedOverGRPC, PanicOverGRPC, PanicError, GRPCStatus, Told
<1> QED
  BY <1>2, <1>3, <1>4 DEF TransportsAgree

=============================================================================
