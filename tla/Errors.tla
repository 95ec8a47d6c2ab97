------------------------------- MODULE Errors -------------------------------
(***************************************************************************)
(* pkg/errors, and the way back in pkg/httpclient/response.go.  An error   *)
(* is the set of the CQI types in its chain of causes, which is all that   *)
(* errors.As can tell of it: {} is an error of another package, and an     *)
(* error may be of several types.                                          *)
(***************************************************************************)
EXTENDS Naturals

Kinds  == {"Permanent", "Temporary", "NotFound", "InvalidInput", "Unauthorized"}
AnyError == SUBSET Kinds

\* Wrap: the type of the new outermost error.  Permanent is asked for first.
Outer(e) ==
  CASE "Permanent" \in e    -> "Permanent"
    [] "Temporary" \in e /\ "Permanent" \notin e -> "Temporary"
    [] "NotFound" \in e /\ e \cap {"Permanent", "Temporary"} = {} -> "NotFound"
    [] "InvalidInput" \in e /\ e \cap {"Permanent", "Temporary", "NotFound"} = {} -> "InvalidInput"
    [] e = {"Unauthorized"} -> "Unauthorized"
    [] OTHER                -> "Permanent"

Wrap(e) == e \cup {Outer(e)}

\* HTTPStatusCode and GRPCStatus ask in another order: the caller's mistakes
\* first, Temporary before Permanent.
Told(e) ==
  CASE "NotFound" \in e -> "NotFound"
    [] "InvalidInput" \in e /\ "NotFound" \notin e -> "InvalidInput"
    [] "Unauthorized" \in e /\ e \cap {"NotFound", "InvalidInput"} = {} -> "Unauthorized"
    [] "Temporary" \in e /\ e \subseteq {"Temporary", "Permanent"} -> "Temporary"
    [] e = {"Permanent"} -> "Permanent"
    [] OTHER             -> "unknown"

HTTPStatusCode(e) ==
  CASE Told(e) = "NotFound"     -> 404
    [] Told(e) = "InvalidInput" -> 400
    [] Told(e) = "Unauthorized" -> 401
    [] Told(e) = "Temporary"    -> 503
    [] OTHER                    -> 500

GRPCStatus(e) ==
  CASE Told(e) = "NotFound"     -> "NotFound"
    [] Told(e) = "InvalidInput" -> "InvalidArgument"
    [] Told(e) = "Unauthorized" -> "Unauthenticated"
    [] Told(e) = "Temporary"    -> "Unavailable"
    [] Told(e) = "Permanent"    -> "Internal"
    [] OTHER                    -> "Unknown"

\* mapStatusCodeToError; statuses from 200 to 399 are no errors.
MapStatusCode(s) ==
  CASE s = 400          -> {"InvalidInput"}
    [] s \in {401, 403} -> {"Unauthorized"}
    [] s = 404          -> {"NotFound"}
    [] s = 429          -> {"Temporary"}
    [] s \in 402 .. 499 \ {403, 404, 429} -> {"Permanent"}
    [] s >= 500         -> {"Temporary"}
    [] OTHER            -> {"Permanent"}

-----------------------------------------------------------------------------
\* Context added with Wrap changes neither the answer that a client gets over
\* HTTP nor whether the error is retried (wrapping.go:7-9, http.go:20-33,
\* retry/config.go:91-94).
WrapKeepsMeaning ==
  \A e \in AnyError :
    /\ HTTPStatusCode(Wrap(e)) = HTTPStatusCode(e)
    /\ "Temporary" \in Wrap(e) <=> "Temporary" \in e

\* What a service says of an error is what the client of another service makes
\* of it: the two tables agree (http.go:20-33, response.go:172-194).  An error
\* of type Permanent alone, and one of another package, arrive as Temporary.
KindsSurviveHTTP ==
  \A e \in AnyError :
    MapStatusCode(HTTPStatusCode(e)) =
      IF e \subseteq {"Permanent"} THEN {"Temporary"} ELSE {Told(e)}
=============================================================================
