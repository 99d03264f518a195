------------------------------- MODULE Transfer -------------------------------
(***************************************************************************)
(* One HTTP exchange of CurlHttpTransport::Send                            *)
(* (src/src/curl_http_transport.cpp) and what the caller of the client is  *)
(* told about it: libcurl calls ReadHeaders and WriteBody while            *)
(* curl_easy_perform runs, the server may stop or misbehave at any point,  *)
(* and Send turns the result code, the last status and the collected body  *)
(* into a response or an error, which LookupIpGeolocationRaw and           *)
(* BulkLookupIpGeolocationRaw (src/src/client.cpp) pass on.                *)
(*                                                                         *)
(* A body is represented by its length.                                    *)
(***************************************************************************)
EXTENDS Integers

CONSTANTS
    WordSize,     \* size_t counts modulo WordSize
    Limits,       \* values of max_response_body_chars
    Payloads,     \* lengths of the body the server means to send
    Blocks,       \* pairs <<size, nmemb>> libcurl may pass to WriteBody
    Interims,     \* status codes of interim responses
    Finals        \* status codes of final responses

ASSUME LimitsAssumption == WordSize \in Nat /\ Limits \subseteq 1 .. WordSize - 1
ASSUME PayloadsAssumption == Payloads \subseteq Nat
ASSUME BlocksAssumption ==
    Blocks \subseteq (0 .. WordSize - 1) \X (0 .. WordSize - 1)
ASSUME StatusAssumption == Interims \subseteq 100 .. 199 /\ Finals \subseteq 200 .. 999

VARIABLES
    limit,        \* max_response_body_chars of this call
    payload,      \* what the server has to send
    phase,        \* what libcurl reads: status line, fields, body
    status,       \* CURLINFO_RESPONSE_CODE: the last status line read
    sent,         \* bytes of the body libcurl has passed to WriteBody
    body,         \* write_context.body
    exceeded,     \* write_context.size_exceeded
    code,         \* result of curl_easy_perform, "running" until it returns
    outcome       \* what the caller of the client gets

vars == <<limit, payload, phase, status, sent, body, exceeded, code, outcome>>

-----------------------------------------------------------------------------
Wrap(n) == n % WordSize

(* Mutant: the limit is compared with the block alone. *)
OverflowsAlone(size, nmemb) == size # 0 /\ nmemb > limit \div size

(* Mutant: a body that just fits is refused. *)
OverflowsEarly(size, nmemb) == size # 0 /\ nmemb >= Wrap(limit - body) \div size

(* The test of WriteBody: the block does not fit what is left. *)
Overflows(size, nmemb) ==
    size # 0 /\ nmemb > Wrap(limit - body) \div size

Outcome(kind, st, length) == [kind |-> kind, status |-> st, body |-> length]
Undecided == Outcome("none", 0, 0)
Failure(kind) == Outcome(kind, 0, 0)

(* Mutant: statuses that are no errors are kept as well. *)
KeepsAnyStatus(st) == 200 <= st /\ st < 600

(* The statuses Send reports although the exchange failed. *)
KeepsStatus(st) == 300 <= st /\ st < 600

(* Mutant: a timeout is reported whatever status had arrived. *)
SendResultTimeoutFirst ==
    CASE code = "ok" ->
            Outcome("response", status, body)
      [] code = "timed_out" ->
            Failure("RequestTimeoutError")
      [] code \in {"write_error", "other_error"} /\ KeepsStatus(status) ->
            Outcome("response", status, 0)
      [] code = "write_error" /\ exceeded /\ ~KeepsStatus(status) ->
            Failure("body too large")
      [] OTHER ->
            Failure("TransportError")

(* What Send returns or throws. *)
SendResult ==
    CASE code = "ok" ->
            Outcome("response", status, body)
      [] code # "ok" /\ KeepsStatus(status) ->
            Outcome("response", status, 0)
      [] code = "timed_out" /\ ~KeepsStatus(status) ->
            Failure("RequestTimeoutError")
      [] code = "write_error" /\ exceeded /\ ~KeepsStatus(status) ->
            Failure("body too large")
      [] OTHER ->
            Failure("TransportError")

(* The raw methods of the client: a response that is not 2xx is an ApiError. *)
ClientResult(result) ==
    IF result.kind # "response" THEN result
    ELSE IF result.status \div 100 # 2
         THEN [result EXCEPT !.kind = "ApiError"]
         ELSE [result EXCEPT !.kind = "success"]

-----------------------------------------------------------------------------
Init ==
    /\ limit \in Limits
    /\ payload \in Payloads
    /\ phase = "status"
    /\ status = 0
    /\ sent = 0
    /\ body = 0
    /\ exceeded = FALSE
    /\ code = "running"
    /\ outcome = Undecided

Running == code = "running"

(* The status line of an interim response; its fields follow, and then
   another status line.                                                    *)
InterimStatus ==
    /\ Running
    /\ phase = "status"
    /\ status' \in Interims
    /\ UNCHANGED <<limit, payload, phase, sent, body, exceeded, code, outcome>>

FinalStatus ==
    /\ Running
    /\ phase = "status"
    /\ status' \in Finals
    /\ phase' = "fields"
    /\ UNCHANGED <<limit, payload, sent, body, exceeded, code, outcome>>

FieldsEnd ==
    /\ Running
    /\ phase = "fields"
    /\ phase' = "body"
    /\ UNCHANGED <<limit, payload, status, sent, body, exceeded, code, outcome>>

(* ReadHeaders runs out of memory and returns 0. *)
HeaderRefused ==
    /\ Running
    /\ phase \in {"status", "fields"}
    /\ code' = "write_error"
    /\ UNCHANGED <<limit, payload, phase, status, sent, body, exceeded, outcome>>

(* libcurl hands a block of the body to WriteBody; a return value that is not
   the length of the block ends the transfer.                              *)
WriteBody(size, nmemb) ==
    /\ Running
    /\ phase = "body"
    /\ size * nmemb > 0
    /\ sent + size * nmemb <= payload
    /\ sent' = sent + size * nmemb
    /\ LET bytes == Wrap(size * nmemb)
       IN  \/ /\ Overflows(size, nmemb)
              /\ exceeded' = TRUE
              /\ code' = "write_error"
              /\ UNCHANGED body
           \/ /\ ~Overflows(size, nmemb)
              /\ body' = body + bytes
              /\ code' = IF bytes = size * nmemb THEN code ELSE "write_error"
              /\ UNCHANGED exceeded
    /\ UNCHANGED <<limit, payload, phase, status, outcome>>

(* The same, when appending to the body runs out of memory. *)
WriteBodyRefused(size, nmemb) ==
    /\ Running
    /\ phase = "body"
    /\ size * nmemb > 0
    /\ sent + size * nmemb <= payload
    /\ sent' = sent + size * nmemb
    /\ ~Overflows(size, nmemb)
    /\ code' = "write_error"
    /\ UNCHANGED <<limit, payload, phase, status, body, exceeded, outcome>>

(* The whole body was delivered: curl_easy_perform returns CURLE_OK. *)
Complete ==
    /\ Running
    /\ phase = "body"
    /\ sent = payload
    /\ code' = "ok"
    /\ UNCHANGED <<limit, payload, phase, status, sent, body, exceeded, outcome>>

(* CURLOPT_TIMEOUT_MS, set by every Send and never 0, ends any exchange. *)
TimedOut ==
    /\ Running
    /\ code' = "timed_out"
    /\ UNCHANGED <<limit, payload, phase, status, sent, body, exceeded, outcome>>

(* The connection cannot be made or breaks, or the exchange is malformed. *)
Broken ==
    /\ Running
    /\ code' = "other_error"
    /\ UNCHANGED <<limit, payload, phase, status, sent, body, exceeded, outcome>>

(* curl_easy_perform has returned; Send and the client method conclude. *)
Conclude ==
    /\ ~Running
    /\ outcome = Undecided
    /\ outcome' = ClientResult(SendResult)
    /\ UNCHANGED <<limit, payload, phase, status, sent, body, exceeded, code>>

(* curl_easy_getinfo does not tell the status, and Send throws for that before
   it looks at how the exchange ended.                                     *)
StatusUnknown ==
    /\ ~Running
    /\ outcome = Undecided
    /\ outcome' = Failure("StatusUnknown")
    /\ UNCHANGED <<limit, payload, phase, status, sent, body, exceeded, code>>

(* The call has returned. *)
Decided == outcome # Undecided
Terminated == Decided /\ UNCHANGED vars

Next ==
    \/ InterimStatus
    \/ FinalStatus
    \/ FieldsEnd
    \/ HeaderRefused
    \/ \E b \in Blocks : WriteBody(b[1], b[2]) \/ WriteBodyRefused(b[1], b[2])
    \/ Complete
    \/ TimedOut
    \/ Broken
    \/ Conclude
    \/ StatusUnknown
    \/ Terminated

Spec == Init /\ [][Next]_vars

-----------------------------------------------------------------------------
TypeOK ==
    /\ limit \in Limits
    /\ payload \in Payloads
    /\ phase \in {"status", "fields", "body"}
    /\ status \in {0} \cup Interims \cup Finals
    /\ sent \in 0 .. payload
    /\ body \in Nat
    /\ exceeded \in BOOLEAN
    /\ code \in {"running", "ok", "write_error", "timed_out", "other_error"}
    /\ outcome \in [kind : {"none", "success", "ApiError", "RequestTimeoutError",
                            "body too large", "TransportError", "StatusUnknown"},
                    status : {0} \cup Interims \cup Finals,
                    body : Nat]

(* However the body is cut into blocks and however wide size_t is, no more
   than max_response_body_chars bytes of it are ever kept, and none of those
   accepted is lost.                                                       *)
BodyWithinLimit ==
    /\ body <= limit
    /\ Running => body = sent

(* A call succeeds only on a 2xx status, with the whole body in hand: an
   early end, a timeout or a body too large never looks like a success.    *)
SuccessIsComplete ==
    outcome.kind = "success" =>
        outcome.status \in 200 .. 299 /\ outcome.body = payload /\ payload <= limit

(* Once the status line of a redirect or an error has been read, nothing that
   happens later hides it, and its body is complete or absent, never cut.
   Only when libcurl will not tell the status is it lost.                  *)
ErrorStatusSurvives ==
    Decided /\ status \in 300 .. 599 /\ outcome.kind # "StatusUnknown" =>
        /\ outcome.kind = "ApiError"
        /\ outcome.status = status
        /\ outcome.body \in {0, payload}

(* What kept the status of an error from the caller is named for what it was:
   "If a successful response is too large, the SDK throws TransportError", and
   exactly if it was, a body that just fits included; and a caller that
   retries on timeouts sees all of them and nothing else, again unless
   libcurl will not tell the status.                                       *)
FailureNamesItsCause ==
    Decided /\ status \notin 300 .. 599 /\ outcome.kind # "StatusUnknown" =>
        /\ outcome.kind = "body too large" <=> code = "write_error" /\ sent > limit
        /\ outcome.kind = "RequestTimeoutError" <=> code = "timed_out"
=============================================================================
