-------------------------------- MODULE Auth --------------------------------
(***************************************************************************)
(* pkg/auth: which requests the middleware and the interceptors let pass,  *)
(* and as whom.  What a check lets pass is the set of the contexts that it *)
(* hands on: one, or none for a request that is refused.                   *)
(*                                                                         *)
(* A bearer token is a key, or a JWT with the outcome of the checks that   *)
(* golang-jwt makes of it; Empty is Go's empty string.                     *)
(***************************************************************************)
EXTENDS Errors, Sequences

CONSTANTS
  ValidKeys,  \* the keys that the service accepts
  Issuer,     \* JWTConfig; Empty when it is not asked for
  Audience

Empty == "-"

Key(k) == [kind |-> "key", key |-> k]
JWT(alg, signed, expired, iss, aud, sub) ==
  [kind |-> "jwt", alg |-> alg, signed |-> signed, expired |-> expired,
   iss |-> iss, aud |-> aud, sub |-> sub]

\* The subject "service:x" is told from the user "x" by its prefix.
User(x)    == [service |-> FALSE, name |-> x]
Service(x) == [service |-> TRUE, name |-> x]

\* An Authorization header, split at its first space.
Bearer(token) == [scheme |-> "Bearer", token |-> token]
NoHeader      == [scheme |-> Empty, token |-> Key(Empty)]

AuthContext(type, user, service) == [type |-> type, user |-> user, service |-> service]

-----------------------------------------------------------------------------
(* API keys *)

KnownKey(token) ==
  IF token.kind = "key" /\ token.key \in ValidKeys
    THEN {AuthContext("API_KEY", Empty, token.key)} ELSE {}

APIKeyMiddleware(header) == IF header.scheme = "Bearer" THEN KnownKey(header.token) ELSE {}

\* The values of "authorization" in the metadata of a gRPC call; a call
\* without metadata has none.  Only the first is looked at.
ValidateAPIKeyFromMetadata(values) ==
  IF Len(values) > 0 /\ Head(values).scheme = "Bearer" THEN KnownKey(Head(values).token) ELSE {}

-----------------------------------------------------------------------------
(* JWTs *)

\* ParseWithClaims with the key function that wants an RSA method.  A token
\* without an exp claim never expires.
Parsed(token) ==
  /\ token.kind = "jwt"
  /\ token.alg = "RSA"
  /\ token.signed
  /\ ~token.expired

ContextOfSubject(sub) ==
  IF sub.service THEN AuthContext("JWT", Empty, sub.name) ELSE AuthContext("JWT", sub.name, Empty)

ParseAndValidateJWT(token) ==
  IF /\ Parsed(token)
     /\ Issuer # Empty => token.iss = Issuer
     /\ Audience # Empty => Audience \in token.aud
    THEN {ContextOfSubject(token.sub)} ELSE {}

JWTMiddleware(header) ==
  IF header.scheme = "Bearer" THEN ParseAndValidateJWT(header.token) ELSE {}

ValidateJWTFromMetadata(values) ==
  IF Len(values) > 0 /\ Head(values).scheme = "Bearer"
    THEN ParseAndValidateJWT(Head(values).token) ELSE {}

-----------------------------------------------------------------------------
(* Behind a check *)

\* A check writes the answer itself and does not call the handler.
RefusedOverHTTP == HTTPStatusCode({"Unauthorized"})
RefusedOverGRPC == "Unauthenticated"

\* A recovered panic, which DefaultRecoveryFunc makes a PermanentError.  With a
\* recoveryFunc that returns nil, as in examples/full/main.go:294-297, nothing
\* is written over HTTP, and net/http answers 200.
PanicError      == {"Permanent"}
PanicOverHTTP   == {HTTPStatusCode(PanicError), 200}
PanicOverGRPC   == "Internal"

-----------------------------------------------------------------------------
\* A caller is let pass over gRPC exactly when it is over HTTP, and as the same
\* party: the two transports check in code of their own (apikey.go:31-65 and
\* 122-156, jwt.go:47-78 and 216-251) and answer by tables of their own
\* (http.go:20-33, grpc.go:8-46).
TransportsAgree(header, more) ==
  /\ APIKeyMiddleware(header) = ValidateAPIKeyFromMetadata(<<header>> \o more)
  /\ JWTMiddleware(header) = ValidateJWTFromMetadata(<<header>> \o more)
  /\ RefusedOverGRPC = GRPCStatus({"Unauthorized"})
  /\ PanicOverGRPC = GRPCStatus(PanicError)
=============================================================================
