-------------------------- MODULE FabricDefinitions --------------------------
(***************************************************************************)
(* Reading an item definition from Fabric: a POST that answers at once or   *)
(* starts a long-running operation, which is polled with the provider's own *)
(* pauses until it ends or the wait is over, then its result, decoded part  *)
(* by part. Three services do it alike: FabricItemDefinitionReader (org     *)
(* apps), SemanticModelDefinitionService and ReportDefinitionService. Every *)
(* call goes through provider_http_client, whose errors end the request.    *)
(*                                                                         *)
(* A request that runs is one fetch of ProviderReadCache: callers that join *)
(* it, and what is remembered of it, are that module's.  What both modules  *)
(* would name alike bears the prefix Fabric here.                           *)
(***************************************************************************)
EXTENDS Integers, Sequences, FiniteSets

CONSTANTS Requests,
          MaxWait,       \* MAX_TOTAL_WAIT_SECONDS, 120 in the code
          DefaultRetry,  \* DEFAULT_RETRY_AFTER_SECONDS, 2 in the code
          CallTimeout,   \* the longest one provider call lasts
          RetryHeaders,  \* the Retry-After headers a provider sends, 0 for none
          MaxDecoded,    \* MAX_DECODED_PART_BYTES
          MaxTotal,      \* MAX_TOTAL_JSON_BYTES
          Bodies         \* the payloads Fabric answers with

ASSUME TimesAssumption ==
    /\ MaxWait \in Nat /\ DefaultRetry \in Nat \ {0} /\ CallTimeout \in Nat
    /\ RetryHeaders \subseteq Int

Kinds == {"item", "model", "report"}

VARIABLES
    phase,     \* "idle", "starting", "sleeping", "polling", "fetching" or "done"
    kind,      \* which service runs the request
    due,       \* seconds until the sleep ends, or the call in flight times out
    remaining, \* seconds until the wait for the operation is over: deadline - monotonic()
    ended,     \* the operation has ended at Fabric
    result     \* what the request answered

fabricVars == <<phase, kind, due, remaining, ended, result>>

(***************************************************************************)
(* Provider errors, as provider_http_client raises them, and the status the *)
(* API answers with (core/exceptions.py, core/error_handlers.py).           *)
(***************************************************************************)
ProviderErrors ==
    [AUTH_TOKEN_INVALID |-> 401, AUTH_INSUFFICIENT_PERMISSIONS |-> 403,
     UPSTREAM_RATE_LIMITED |-> 429, UPSTREAM_TIMEOUT |-> 504,
     UPSTREAM_SERVICE_UNAVAILABLE |-> 503, UPSTREAM_REQUEST_FAILED |-> 502]
ProviderAnswers ==
    [UPSTREAM_INVALID_RESPONSE |-> 502, RESOURCE_NOT_FOUND |-> 404]

Success(status) == status \in 200..299

\* _handle_provider_response: the error a response that is not a success raises.
HandleProviderResponse(status, notFoundResource) ==
    CASE status = 401 -> "AUTH_TOKEN_INVALID"
      [] status = 403 -> "AUTH_INSUFFICIENT_PERMISSIONS"
      [] status = 404 /\ notFoundResource -> "RESOURCE_NOT_FOUND"
      [] status = 429 -> "UPSTREAM_RATE_LIMITED"
      [] status >= 500 -> "UPSTREAM_SERVICE_UNAVAILABLE"
      [] OTHER -> "UPSTREAM_REQUEST_FAILED"

Code(error) == IF error \in DOMAIN ProviderErrors THEN ProviderErrors[error]
               ELSE ProviderAnswers[error]

\* app_exception_handler: the response a caller of the API gets for an AppException.
Raised(error) == [error |-> error, status |-> Code(error), parts |-> << >>]
Answered(parts) == [error |-> "none", status |-> 200, parts |-> parts]
Pending == [error |-> "none", status |-> 0, parts |-> << >>]
Invalid == Raised("UPSTREAM_INVALID_RESPONSE")

(***************************************************************************)
(* Payloads. A body is [shape, parts]: shape "object" is a JSON object whose*)
(* definition holds a list of parts, "unformatted" one whose format besides *)
(* is no string, "list" one that holds no parts, "text" no JSON object.     *)
(* A part is [object, path, payload, type, bytes, content]: *)
(* path "other" is one the reader does not decode, "" an empty or missing   *)
(* one; content is "json", "text" (no JSON) or "binary" (no base64).        *)
(***************************************************************************)
Decoded(part) == part.type = "InlineBase64" /\ part.content = "json"
                 /\ part.bytes <= MaxDecoded

\* decode_json_parts: parts that are no JSON are skipped, a bad one fails the whole.
DecodeJsonParts(body) ==
    LET wanted == SelectSeq(body.parts, LAMBDA p : p.path \in {"json", "platform"})
    IN IF body.shape \notin {"object", "unformatted"}
          \/ (\E i \in DOMAIN body.parts : ~body.parts[i].object
                                            \/ body.parts[i].path = "none"
                                            \/ ~body.parts[i].payload)
          \/ (\E i \in DOMAIN wanted : ~Decoded(wanted[i]))
       THEN Invalid ELSE Answered(wanted)

\* _map_definition of the semantic model service: every part is kept, encoded, and the
\* format must be a string or missing.
MapModelDefinition(body) ==
    IF body.shape # "object"
       \/ \E i \in DOMAIN body.parts : ~body.parts[i].object
                                        \/ body.parts[i].path \in {"none", ""}
                                        \/ ~body.parts[i].payload
                                        \/ body.parts[i].type = "none"
    THEN Invalid ELSE Answered(body.parts)

\* ReportDefinitionDecoder.decode: the structural JSON parts, whole within MaxTotal.
DecodeReport(parts) ==
    LET wanted == SelectSeq(parts, LAMBDA p : p.path \in {"json", "structural"})
        size[n \in 0..Len(wanted)] == IF n = 0 THEN 0 ELSE size[n - 1] + wanted[n].bytes
    IN IF (\E i \in DOMAIN wanted : ~Decoded(wanted[i])) \/ size[Len(wanted)] > MaxTotal
       THEN Invalid ELSE Answered(wanted)

\* ReportDefinitionService: _map_definition, then the normalizer's decoding.
MapReportDefinition(body) ==
    IF MapModelDefinition(body) = Invalid THEN Invalid ELSE DecodeReport(body.parts)

Mapped(k, body) == CASE k = "item" -> DecodeJsonParts(body)
                     [] k = "model" -> MapModelDefinition(body)
                     [] k = "report" -> MapReportDefinition(body)

----------------------------------------------------------------------------

FabricInit ==
    /\ phase = [r \in Requests |-> "idle"]
    /\ kind \in [Requests -> Kinds]
    /\ due = [r \in Requests |-> 0]
    /\ remaining = [r \in Requests |-> 0]
    /\ ended = [r \in Requests |-> FALSE]
    /\ result = [r \in Requests |-> Pending]

\* A call leaves: provider_http_client gives it CallTimeout.
Send(r, p) ==
    /\ phase' = [phase EXCEPT ![r] = p]
    /\ due' = [due EXCEPT ![r] = CallTimeout]

Finish(r, answer) ==
    /\ phase' = [phase EXCEPT ![r] = "done"]
    /\ result' = [result EXCEPT ![r] = answer]
    /\ UNCHANGED due

\* A Retry-After below 1 is the default, as is none and one that is no number (0 here).
RetryAfter(header) == IF header < 1 THEN DefaultRetry ELSE header

\* Would the next poll fall past the deadline? (TooLateLoose only looks whether the
\* deadline has passed.)
TooLateLoose(retry, left) == left <= 0
TooLate(retry, left) == left <= 0 \/ retry > left

\* The head of the polling loop: give up, or sleep for the provider's pause.
Wait(r, header, left) ==
    LET retry == RetryAfter(header)
    IN IF TooLate(retry, left)
       THEN Finish(r, Raised("UPSTREAM_TIMEOUT"))
       ELSE /\ phase' = [phase EXCEPT ![r] = "sleeping"]
            /\ due' = [due EXCEPT ![r] = retry]
            /\ UNCHANGED result

\* get_definition misses the cache: the POST that starts the operation is sent.
Fetch(r) ==
    /\ phase[r] = "idle"
    /\ Send(r, "starting")
    /\ UNCHANGED <<kind, remaining, ended, result>>

\* The POST answers 200 with the definition.
AnswersAtOnce(r) ==
    /\ phase[r] = "starting"
    /\ \E body \in Bodies : Finish(r, Mapped(kind[r], body))
    /\ UNCHANGED <<kind, remaining, ended>>

\* It answers 202 with the operation's id: the wait begins.
Accepted(r) ==
    /\ phase[r] = "starting"
    /\ remaining' = [remaining EXCEPT ![r] = MaxWait]
    /\ \E header \in RetryHeaders : Wait(r, header, MaxWait)
    /\ UNCHANGED <<kind, ended>>

\* It answers 202 without an id, or another success.
BadStart(r) ==
    /\ phase[r] = "starting"
    /\ Finish(r, Invalid)
    /\ UNCHANGED <<kind, remaining, ended>>

\* The sleep is over: the operation's state is asked for.
Poll(r) ==
    /\ phase[r] = "sleeping" /\ due[r] <= 0
    /\ Send(r, "polling")
    /\ UNCHANGED <<kind, remaining, ended, result>>

\* The poll says the operation still runs.
StillRuns(r) ==
    /\ phase[r] = "polling" /\ ~ended[r]
    /\ \E header \in RetryHeaders : Wait(r, header, remaining[r])
    /\ UNCHANGED <<kind, remaining, ended>>

\* It says the operation succeeded: its result is fetched.
SeesSuccess(r) ==
    /\ phase[r] = "polling" /\ ended[r]
    /\ Send(r, "fetching")
    /\ UNCHANGED <<kind, remaining, ended, result>>

\* It says the operation failed, or its body has no status.
SeesFailure(r) ==
    /\ phase[r] = "polling"
    /\ Finish(r, Raised("UPSTREAM_REQUEST_FAILED")) \/ Finish(r, Invalid)
    /\ UNCHANGED <<kind, remaining, ended>>

\* The result answers.
ResultArrives(r) ==
    /\ phase[r] = "fetching"
    /\ \E body \in Bodies : Finish(r, Mapped(kind[r], body))
    /\ UNCHANGED <<kind, remaining, ended>>

Calling(r) == phase[r] \in {"starting", "polling", "fetching"}

\* A call that answers with an error status ends the request.
CallFails(r) ==
    /\ Calling(r)
    /\ \E status \in {400, 401, 403, 404, 429, 500} :
         Finish(r, Raised(HandleProviderResponse(status, phase[r] = "starting")))
    /\ UNCHANGED <<kind, remaining, ended>>

\* httpx gives up on a call, or cannot reach the provider. (CallExpiresNever: a client
\* built without a timeout.)
CallExpiresNever(r) == FALSE /\ UNCHANGED fabricVars
CallExpires(r) ==
    /\ Calling(r) /\ due[r] <= 0
    /\ \E error \in {"UPSTREAM_TIMEOUT", "UPSTREAM_SERVICE_UNAVAILABLE"} :
         Finish(r, Raised(error))
    /\ UNCHANGED <<kind, remaining, ended>>

\* External: the operation ends at Fabric.
OperationEnds(r) ==
    /\ phase[r] \in {"sleeping", "polling"} /\ ~ended[r]
    /\ ended' = [ended EXCEPT ![r] = TRUE]
    /\ UNCHANGED <<phase, kind, due, remaining, result>>

Waiting(r) == phase[r] \in {"sleeping", "polling", "fetching"}
Timed(r) == phase[r] = "starting" \/ Waiting(r)

\* External: a second passes, but not over a sleep or a call that is due.
FabricTick ==
    /\ \E r \in Requests : Timed(r)
    /\ \A r \in Requests : Timed(r) => due[r] > 0
    /\ due' = [r \in Requests |-> IF Timed(r) THEN due[r] - 1 ELSE due[r]]
    /\ remaining' = [r \in Requests |-> IF Waiting(r) THEN remaining[r] - 1
                                        ELSE remaining[r]]
    /\ UNCHANGED <<phase, kind, ended, result>>

FabricStep(r) ==
    \/ Fetch(r) \/ AnswersAtOnce(r) \/ Accepted(r) \/ BadStart(r)
    \/ Poll(r) \/ StillRuns(r) \/ SeesSuccess(r) \/ SeesFailure(r) \/ ResultArrives(r)
    \/ CallFails(r) \/ CallExpires(r) \/ OperationEnds(r)

FabricNext == FabricTick \/ \E r \in Requests : FabricStep(r)

\* Time passes, a sleep ends and httpx gives up on a call; Fabric owes no answer.
FabricSpec ==
    /\ FabricInit /\ [][FabricNext]_fabricVars /\ WF_fabricVars(FabricTick)
    /\ \A r \in Requests : WF_fabricVars(Poll(r)) /\ WF_fabricVars(CallExpires(r))

----------------------------------------------------------------------------

\* The variables hold values of their types.
FabricTypeOK ==
    /\ phase \in [Requests -> {"idle", "starting", "sleeping", "polling", "fetching", "done"}]
    /\ kind \in [Requests -> Kinds]
    /\ due \in [Requests -> Int] /\ remaining \in [Requests -> Int]
    /\ ended \in [Requests -> BOOLEAN]

(***************************************************************************)
(* No request waits for an operation longer than MaxWait and the two calls  *)
(* that may still be in flight then, whatever pauses the provider asks for. *)
(***************************************************************************)
WaitIsBounded ==
    \A r \in Requests : Waiting(r) => remaining[r] >= -(2 * CallTimeout)

(***************************************************************************)
(* Every request that is sent ends, although Fabric may never answer and an *)
(* operation may never end.                                                 *)
(***************************************************************************)
EveryRequestEnds == \A r \in Requests : phase[r] = "starting" ~> phase[r] = "done"
=============================================================================
