---------------------------- MODULE ConvayClient ----------------------------
(***************************************************************************)
(* What one HTTP exchange with Convay means to the Gateway: the exceptions *)
(* apps/convay/client.py raises for it (ConvayClient._post, _parse_meeting,*)
(* normalize_auth) and the meeting status provision() derives from them    *)
(* (apps/meetings/services.py).  Everything here is a pure function of the *)
(* exchange, so the module has no variables.                               *)
(*                                                                         *)
(* Bodies are abstracted to the tests the parser makes of them: each field *)
(* is named by the test it would fail first.                               *)
(***************************************************************************)
EXTENDS Integers

(***************************************************************************)
(* Exchanges.                                                              *)
(*   "connect"   httpx gave up before sending (connect error or timeout,   *)
(*               pool timeout, unsupported protocol)                       *)
(*   "transport" any other httpx.RequestError: the request may have left   *)
(*   "response"  an HTTP response with a status and a body                 *)
(***************************************************************************)
Envelopes == {"notObject", "refused", "noData", "object"}

\* An "unwritable" field fails the parser's test because it does not fit its
\* database column either: a panel address of more than 2000 characters or
\* with a NUL in it, a uniqueId of more than 200 characters.
Bodies == [envelope : Envelopes,
           calendar : {"missing", "blank", "tooLong", "valid"},
           panel    : {"missing", "unwritable", "control", "valid"},
           unique   : {"absent", "blank", "unwritable", "valid"},
           url      : {"missing", "malformed", "untrusted", "valid"}]

NoBody == [envelope |-> "notObject", calendar |-> "missing",
           panel |-> "missing", unique |-> "absent", url |-> "missing"]

FullBody == [envelope |-> "object", calendar |-> "valid", panel |-> "valid",
             unique |-> "absent", url |-> "valid"]

\* httpx does not hand out 1xx responses.
Exchanges == {x \in [kind : {"connect", "transport", "response"},
                     status : 0..599, body : Bodies] :
                x.kind = "response" <=> x.status >= 200}

Connect   == [kind |-> "connect", status |-> 0, body |-> NoBody]
Transport == [kind |-> "transport", status |-> 0, body |-> NoBody]
Response(status, body) ==
    [kind |-> "response", status |-> status, body |-> body]

IsSuccess(status) == 200 <= status /\ status < 300

(***************************************************************************)
(* Outcomes: a ProviderError, or Success when code is "NONE".  "known" is   *)
(* known_created; "fits" says whether the identifiers the error carries    *)
(* (provider_result) can be written to their columns.                      *)
(***************************************************************************)
ProviderError(code, ambiguous, status, known) ==
    [code |-> code, ambiguous |-> ambiguous, status |-> status,
     known |-> known, fits |-> TRUE]

Success == ProviderError("NONE", FALSE, 200, FALSE)

Codes == {"NONE", "PROVIDER_VALIDATION_ERROR", "PROVIDER_AUTHENTICATION_ERROR",
          "PROVIDER_AUTHORIZATION_ERROR", "PROVIDER_ENDPOINT_ERROR",
          "PROVIDER_RATE_LIMITED", "PROVIDER_STATE_UNKNOWN",
          "PROVIDER_UNAVAILABLE", "PROVIDER_HTTP_ERROR",
          "MALFORMED_CREATION_RESPONSE", "PROVIDER_RESPONSE_INVALID",
          "MALFORMED_PROVIDER_RESPONSE", "MALFORMED_AUTH_RESPONSE",
          "ROOM_INACTIVE", "PROVIDER_TOKEN_EXPIRED", "PROVIDER_AUTH_BUSY"}

Outcomes == [code : Codes, ambiguous : BOOLEAN, status : 0..599,
             known : BOOLEAN, fits : BOOLEAN]

----------------------------------------------------------------------------
(***************************************************************************)
(* ConvayClient._post                                                      *)
(***************************************************************************)

\* Statuses that do not tell whether the provider acted.
AmbiguousStatus(status) ==
    status >= 500 \/ status = 408 \/ (300 <= status /\ status < 400)

\* The error code of a definite status outside 2xx.
HttpCode(status) ==
    CASE status \in {400, 422} -> "PROVIDER_VALIDATION_ERROR"
      [] status = 401 -> "PROVIDER_AUTHENTICATION_ERROR"
      [] status = 403 -> "PROVIDER_AUTHORIZATION_ERROR"
      [] status = 404 -> "PROVIDER_ENDPOINT_ERROR"
      [] status = 429 -> "PROVIDER_RATE_LIMITED"
      [] OTHER -> IF status >= 500 THEN "PROVIDER_UNAVAILABLE"
                                   ELSE "PROVIDER_HTTP_ERROR"

\* The error of a response whose status is not 2xx.
HttpError(status, creation) ==
    IF creation /\ AmbiguousStatus(status)
    THEN ProviderError("PROVIDER_STATE_UNKNOWN", TRUE, status, FALSE)
    ELSE ProviderError(HttpCode(status), FALSE, status, FALSE)

\* A 2xx body that is no JSON object, or on which the parser raises ValueError.
Malformed(status, creation) ==
    ProviderError(IF creation THEN "PROVIDER_STATE_UNKNOWN"
                              ELSE "MALFORMED_PROVIDER_RESPONSE",
                  creation, status, FALSE)

\* Defect: a connection lost after the request left counts as unavailability.
RequestErrorNeverUnknown(kind, creation) ==
    ProviderError("PROVIDER_UNAVAILABLE", FALSE, 0, FALSE)

\* The error of an exchange that produced no response.
RequestError(kind, creation) ==
    IF kind = "transport" /\ creation
    THEN ProviderError("PROVIDER_STATE_UNKNOWN", TRUE, 0, FALSE)
    ELSE ProviderError("PROVIDER_UNAVAILABLE", FALSE, 0, FALSE)

\* The provider created the meeting, but part of its answer is unusable.
Writable(body) == body.panel # "unwritable" /\ body.unique # "unwritable"

KnownCreated(status, body) ==
    [ProviderError("PROVIDER_RESPONSE_INVALID", FALSE, status, TRUE)
        EXCEPT !.fits = Writable(body)]

(***************************************************************************)
(* ConvayClient._parse_meeting, in the order of its tests.  urlsplit       *)
(* raises ValueError on a malformed URL, which _post turns into the        *)
(* malformed-response error even though the calendarId was valid.          *)
(***************************************************************************)
ParseMeeting(status, body) ==
    CASE body.envelope = "notObject" -> Malformed(status, TRUE)
      [] body.envelope = "refused" ->
            ProviderError("PROVIDER_VALIDATION_ERROR", FALSE, status, FALSE)
      [] body.envelope = "noData" ->
            ProviderError("MALFORMED_CREATION_RESPONSE", TRUE, status, FALSE)
      [] body.envelope = "object" /\ body.calendar # "valid" ->
            ProviderError("MALFORMED_CREATION_RESPONSE", TRUE, status, FALSE)
      [] body.envelope = "object" /\ body.calendar = "valid" ->
            IF \/ body.panel # "valid"
               \/ body.unique \in {"blank", "unwritable"}
               \/ body.url = "missing"
            THEN KnownCreated(status, body)
            ELSE IF body.url = "malformed" THEN Malformed(status, TRUE)
            ELSE IF body.url = "untrusted"
            THEN KnownCreated(status, body)
            ELSE Success

\* start_meeting: _post(..., creation=True)
StartMeeting(x) ==
    IF x.kind # "response" THEN RequestError(x.kind, TRUE)
    ELSE IF ~IsSuccess(x.status) THEN HttpError(x.status, TRUE)
    ELSE ParseMeeting(x.status, x.body)

\* authenticate: _post(..., creation=False) with normalize_auth, for which a
\* body is a token ("object"), an object without one, or no object at all.
Authenticate(x) ==
    IF x.kind # "response" THEN RequestError(x.kind, FALSE)
    ELSE IF ~IsSuccess(x.status) THEN HttpError(x.status, FALSE)
    ELSE IF x.body.envelope = "notObject" THEN Malformed(x.status, FALSE)
    ELSE IF x.body.envelope # "object"
    THEN ProviderError("MALFORMED_AUTH_RESPONSE", FALSE, x.status, FALSE)
    ELSE Success

\* What get_token adds of its own: the lock on the token was not obtained (or
\* was lost), or the new token is already inside the expiry safety window.
AuthBusy     == ProviderError("PROVIDER_AUTH_BUSY", FALSE, 0, FALSE)
TokenExpired == ProviderError("PROVIDER_TOKEN_EXPIRED", FALSE, 0, FALSE)
RoomInactive == ProviderError("ROOM_INACTIVE", FALSE, 0, FALSE)

----------------------------------------------------------------------------
(***************************************************************************)
(* The error path of provision(): the status it gives the meeting, and     *)
(* whether the reservation is kept.                                        *)
(***************************************************************************)
RetryableCodes ==
    {"PROVIDER_UNAVAILABLE", "PROVIDER_RATE_LIMITED", "PROVIDER_AUTH_BUSY"}

\* Defect: a meeting known to exist is called READY without its start URL.
FailureStatusKnownReady(err) ==
    IF err.known THEN "READY"
    ELSE IF err.ambiguous THEN "PROVIDER_STATE_UNKNOWN"
    ELSE IF err.code \in RetryableCodes THEN "RETRYABLE_FAILED"
    ELSE "NON_RETRYABLE_FAILED"

FailureStatus(err) ==
    IF err.known THEN "PROVIDER_RESPONSE_INVALID"
    ELSE IF err.ambiguous THEN "PROVIDER_STATE_UNKNOWN"
    ELSE IF err.code \in RetryableCodes THEN "RETRYABLE_FAILED"
    ELSE "NON_RETRYABLE_FAILED"

\* Defect: the room of a retryable failure is released.
KeepsReservationUnlessRetryable(err) == err.known \/ err.ambiguous

KeepsReservation(err) ==
    err.known \/ err.ambiguous \/ FailureStatus(err) = "RETRYABLE_FAILED"

----------------------------------------------------------------------------
(***************************************************************************)
(* The provider, as the Gateway takes it to be: a refusal creates nothing, *)
(* and a 2xx answer that carries a usable calendarId names a meeting that  *)
(* exists.  Every other answer leaves both possibilities open.             *)
(***************************************************************************)
Refuses(x) ==
    \/ x.kind = "connect"
    \/ /\ x.kind = "response"
       /\ \/ x.status \in 400..499 \ {408}
          \/ IsSuccess(x.status) /\ x.body.envelope = "refused"

Confirms(x) ==
    /\ x.kind = "response"
    /\ IsSuccess(x.status)
    /\ x.body.envelope = "object"
    /\ x.body.calendar = "valid"
=============================================================================
