-------------------------------- MODULE Twirp --------------------------------
(***************************************************************************)
(* What a caller of the service is told: error codes, the statuses that    *)
(* the server writes for them, and what a generated client makes of a      *)
(* response, which may also come from a proxy or from the router.          *)
(***************************************************************************)
EXTENDS Naturals

Codes == {"canceled", "unknown", "invalid_argument", "malformed", "deadline_exceeded",
          "not_found", "bad_route", "permission_denied", "unauthenticated",
          "resource_exhausted", "aborted", "internal", "unavailable"}

\* twirp.ServerHTTPStatusFromErrorCode
StatusOf(code) ==
  CASE code \in {"invalid_argument", "malformed"} -> 400
    [] code = "unauthenticated" -> 401
    [] code = "permission_denied" -> 403
    [] code \in {"not_found", "bad_route"} -> 404
    [] code \in {"canceled", "deadline_exceeded"} -> 408
    [] code = "aborted" -> 409
    [] code = "resource_exhausted" -> 429
    [] code = "unavailable" -> 503
    [] OTHER -> 500

\* A response: its status, and the code that its body names, if any does.
NoCode == "none"
Statuses == {200, 302, 400, 401, 403, 404, 405, 408, 409, 429, 500, 502, 503, 504}
Response == [status : Statuses, code : Codes \cup {"ok", NoCode}]

Ok == [status |-> 200, code |-> "ok"]
Plain(status) == [status |-> status, code |-> NoCode]

\* Mutant of writeError: an error without a code is taken for a bad request.
writeErrorMalformed(error) ==
  LET code == IF error = NoCode THEN "malformed" ELSE error IN
  [status |-> StatusOf(code), code |-> code]

\* An error of another kind than twirp.Error becomes an internal one.
writeError(error) ==
  LET code == IF error = NoCode THEN "internal" ELSE error IN
  [status |-> StatusOf(code), code |-> code]

\* Panics of a handler are answered before they are raised again; what the
\* router's Recoverer writes after that is ignored.
ensurePanicResponses == writeError("internal")

twirpErrorFromIntermediary(status) ==
  CASE status = 400 -> "internal"
    [] status \in 300 .. 399 -> "internal"
    [] status = 401 -> "unauthenticated"
    [] status = 403 -> "permission_denied"
    [] status = 404 -> "bad_route"
    [] status = 429 -> "resource_exhausted"
    [] status \in {502, 503, 504} -> "unavailable"
    [] OTHER -> "unknown"

\* Mutant of errorFromResponse: a body without a code is taken for an answer
\* of the service.
errorFromResponseUnchecked(response) == response.code

errorFromResponse(response) ==
  IF response.code = NoCode \/ response.status \in 300 .. 399
    THEN twirpErrorFromIntermediary(response.status)
    ELSE response.code

\* What a client learns from a response that reached it whole: of a plain HTTP
\* client, that looks at the status only, what it may conclude from that.
ByStatus(status) ==
  CASE status = 200 -> "ok"
    [] status = 400 -> "invalid_argument"
    [] status \in {404, 405} -> "bad_route"
    [] status = 409 -> "aborted"
    [] OTHER -> "unknown"

doProtobufRequest(response) ==
  IF response.status = 200 THEN "ok" ELSE errorFromResponse(response)

Learned(via, response) ==
  IF via = "http" THEN ByStatus(response.status) ELSE doProtobufRequest(response)

\* Codes from which a client concludes that its call did nothing and never will.
Refusals == {"invalid_argument", "malformed", "bad_route", "aborted",
             "unauthenticated", "permission_denied", "resource_exhausted"}
=============================================================================
