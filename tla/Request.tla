------------------------------- MODULE Request -------------------------------
(***************************************************************************)
(* A call of pkg/httpclient to a service whose handlers sit behind the     *)
(* middleware of pkg/auth and the RecoveryMiddleware of pkg/errors.  The   *)
(* client waits for its rate limit, sends, and retries inside resty; an    *)
(* attempt that it gave up may still reach the service, which answers      *)
(* nobody then.  A JWT may expire between two attempts.                    *)
(*                                                                         *)
(* resty v3 retries idempotent methods only, on its own conditions and on  *)
(* the one that New adds; its circuit breaker and the network may fail any *)
(* attempt.                                                                *)
(***************************************************************************)
EXTENDS Auth, FiniteSets

CONSTANTS
  Calls,       \* calls of Do
  RetryCount,  \* cfg.RetryCount after applyDefaults
  Burst,       \* cfg.RateLimitBurst
  HandlerErrors, \* the errors that the service's handlers return
  Tokens,      \* the tokens that callers have
  Checks       \* the middleware before the handlers, of {"API_KEY", "JWT"}

ASSUME CountsAreNat == RetryCount \in Nat /\ Burst \in Nat \ {0}

Methods     == {"GET", "POST"}
Idempotent(m) == m = "GET"

\* WithAuthToken with one of them, or no Bearer header at all.
WithAuthToken(token) == Bearer(token)
Headers == {WithAuthToken(t) : t \in Tokens} \cup {NoHeader}

Expired(h) == IF h.token.kind = "jwt" THEN [h EXCEPT !.token.expired = TRUE] ELSE h

VARIABLES
  method, header,  \* of each call
  check,    \* the middleware of the route it goes to
  tokens,   \* tokens in the limiter
  pc,       \* of each call: "new", "send", "sent", "backoff" or "done"
  try,      \* its attempts
  net,      \* attempts (with status 0) and answers under way, of each call;
            \* what is lost stays there
  result,   \* what Do returned
  executed  \* history: how often a handler ran for the call

request == <<method, header, check>>
vars == <<request, tokens, pc, try, net, result, executed>>

Ok == {"ok"}
Tries == 1 .. RetryCount + 1
Codes == {200, 400, 401, 404, 500, 503}

TypeOK ==
  /\ method \in [Calls -> Methods]
  /\ header \in [Calls -> Headers \cup {Expired(h) : h \in Headers}]
  /\ check \in [Calls -> Checks]
  /\ tokens \in 0 .. Burst
  /\ pc \in [Calls -> {"new", "send", "sent", "backoff", "done"}]
  /\ try \in [Calls -> 0 .. RetryCount + 1]
  /\ net \in [Calls -> SUBSET (Tries \X (Codes \cup {0}))]
  /\ result \in [Calls -> AnyError \cup {Ok}]
  /\ executed \in [Calls -> 0 .. RetryCount + 1]

Init ==
  /\ method \in [Calls -> Methods]
  /\ header \in [Calls -> Headers]
  /\ check \in [Calls -> Checks]
  /\ tokens = Burst
  /\ pc = [c \in Calls |-> "new"]
  /\ try = [c \in Calls |-> 0]
  /\ net = [c \in Calls |-> {}]
  /\ result = [c \in Calls |-> {}]
  /\ executed = [c \in Calls |-> 0]

-----------------------------------------------------------------------------
(* Do *)

Returns(c, res) ==
  /\ pc' = [pc EXCEPT ![c] = "done"]
  /\ result' = [result EXCEPT ![c] = res]

\* checkRateLimit: once for a call, whatever it retries.
LimiterWait(c) ==
  /\ pc[c] = "new" /\ tokens > 0
  /\ tokens' = tokens - 1
  /\ pc' = [pc EXCEPT ![c] = "send"]
  /\ UNCHANGED <<request, try, net, result, executed>>

\* The context ends or its deadline is too near for the limiter.
LimiterFails(c) ==
  /\ pc[c] = "new"
  /\ Returns(c, Wrap({}))
  /\ UNCHANGED <<request, tokens, try, net, executed>>

Refill ==
  /\ tokens < Burst
  /\ tokens' = tokens + 1
  /\ UNCHANGED <<request, pc, try, net, result, executed>>

Send(c) ==
  /\ pc[c] \in {"send", "backoff"}
  /\ pc' = [pc EXCEPT ![c] = "sent"]
  /\ try' = [try EXCEPT ![c] = @ + 1]
  /\ net' = [net EXCEPT ![c] = @ \cup {<<try[c] + 1, 0>>}]
  /\ UNCHANGED <<request, tokens, result, executed>>

RetriesAll(c) == try[c] <= RetryCount   \* mutant: SetAllowNonIdempotentRetry(true)
MayRetry(c) == try[c] <= RetryCount /\ Idempotent(method[c])

\* The condition of New: 5xx other than 501; resty adds 429.
RetryOnStatus(s) == (s >= 500 /\ s # 501) \/ s = 429

Answered(c, s) ==
  /\ pc[c] = "sent" /\ <<try[c], s>> \in net[c] /\ s # 0
  /\ net' = [net EXCEPT ![c] = @ \ {<<try[c], s>>}]
  /\ IF RetryOnStatus(s) /\ MayRetry(c)
       THEN pc' = [pc EXCEPT ![c] = "backoff"] /\ UNCHANGED result
       ELSE Returns(c, IF s < 400 THEN Ok ELSE MapStatusCode(s))
  /\ UNCHANGED <<request, tokens, try, executed>>

\* mapRequestError of an error that is not the plain error of a context
RequestFailed == {"Temporary"}

Unanswered(c) == net' = [net EXCEPT ![c] = {x \in @ : x[2] = 0}]

\* The timeout of the client, a broken connection or an open circuit breaker;
\* resty may find the error not worth a retry.
NetworkErrorsOnly(c) ==   \* mutant: SetTimeout is not called
  /\ pc[c] = "sent" /\ net[c] = {}
  /\ Returns(c, RequestFailed)
  /\ UNCHANGED <<request, tokens, try, net, executed>>
AttemptFails(c) ==
  /\ pc[c] = "sent"
  /\ \/ MayRetry(c) /\ pc' = [pc EXCEPT ![c] = "backoff"] /\ UNCHANGED result
     \/ Returns(c, RequestFailed)
  /\ Unanswered(c)
  /\ UNCHANGED <<request, tokens, try, executed>>

\* The caller's context ends: net/http wraps its error, a wait of resty may
\* return it as it is.
CallerLeaves(c) ==
  /\ pc[c] \in {"sent", "backoff"}
  /\ Returns(c, RequestFailed) \/ Returns(c, Wrap({}))
  /\ Unanswered(c)
  /\ UNCHANGED <<request, tokens, try, executed>>

-----------------------------------------------------------------------------
(* The service *)

TokenExpires(c) ==
  /\ header[c].token.kind = "jwt" /\ ~header[c].token.expired
  /\ header' = [header EXCEPT ![c] = Expired(@)]
  /\ UNCHANGED <<method, check, tokens, pc, try, net, result, executed>>

\* Whom the handler is called as, if it is.
Passes(c) == IF check[c] = "API_KEY" THEN APIKeyMiddleware(header[c]) ELSE JWTMiddleware(header[c])

\* Only the attempt that the client waits for is answered to somebody.
Answers(c, t, s) ==
  net' = [net EXCEPT ![c] = (@ \ {<<t, 0>>}) \cup
            IF pc[c] = "sent" /\ t = try[c] THEN {<<t, s>>} ELSE {}]

Refuse(c, t) ==
  /\ <<t, 0>> \in net[c] /\ Passes(c) = {}
  /\ Answers(c, t, RefusedOverHTTP)
  /\ UNCHANGED <<request, tokens, pc, try, result, executed>>

\* WriteHTTPError of what the handler returns, or of a recovered panic.
Handle(c, t) ==
  /\ <<t, 0>> \in net[c] /\ Passes(c) # {}
  /\ executed' = [executed EXCEPT ![c] = @ + 1]
  /\ \/ Answers(c, t, 200)
     \/ \E s \in {HTTPStatusCode(e) : e \in HandlerErrors} \cup PanicOverHTTP : Answers(c, t, s)
  /\ UNCHANGED <<request, tokens, pc, try, result>>

ServiceStep(c) == \E t \in Tries : Refuse(c, t) \/ Handle(c, t)

Next ==
  \/ Refill
  \/ \E c \in Calls :
       \/ LimiterWait(c) \/ LimiterFails(c) \/ Send(c) \/ AttemptFails(c) \/ CallerLeaves(c)
       \/ TokenExpires(c) \/ ServiceStep(c)
       \/ \E s \in Codes : Answered(c, s)

\* The limiter refills, the client goes on and its timeout fires; neither the
\* service nor the caller's context is relied on.
Fairness ==
  /\ WF_vars(Refill)
  /\ \A c \in Calls : SF_vars(LimiterWait(c)) /\ WF_vars(Send(c)) /\ WF_vars(AttemptFails(c))

Spec == Init /\ [][Next]_vars /\ Fairness

-----------------------------------------------------------------------------
(* Properties *)

\* A POST is executed at most once, however attempts time out, answers get
\* lost and late requests arrive: nothing is retried that may not be repeated
\* (client.go:79-98).
PostAtMostOnce == \A c \in Calls : ~Idempotent(method[c]) => executed[c] <= 1

\* Every Do returns although the service never answers, every attempt fails
\* and all calls share one limiter (request.go:131-165, client.go:77).
DoReturns == \A c \in Calls : pc[c] = "new" ~> pc[c] = "done"

\* "a PermanentError won't succeed even if retried" (errors.go:20): what is
\* over after one answer is not asked for again.
PermanentIsFinal ==
  [][\A c \in Calls : <<try[c], 500>> \in net[c] /\ pc[c] = "sent" => pc'[c] # "backoff"]_vars

\* A call that is told it is not authorized had no effect.
UnauthorizedHadNoEffect ==
  \A c \in Calls : result[c] = {"Unauthorized"} => executed[c] = 0
=============================================================================
