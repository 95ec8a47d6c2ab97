------------------------------ MODULE MCRequest ------------------------------
(* Callers with a key of the service and callers with a token for it, in    *)
(* front of a route of each kind.                                           *)
EXTENDS Request

MCTokens == {Key("key"), JWT("RSA", TRUE, FALSE, "issuer", {"audience"}, User("u"))}
=============================================================================
