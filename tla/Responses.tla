------------------------------ MODULE Responses ------------------------------
(***************************************************************************)
(* What a caller gets out of the answer of the API: the second half of the *)
(* client methods (src/src/client.cpp), ToApiError, ExtractApiMessage,     *)
(* ParseIpGeolocationResponse and ParseBulkLookupResults                   *)
(* (src/src/internal.cpp).                                                 *)
(*                                                                         *)
(* JSON values are those of ResponseModels; a string is a word.  A body is *)
(* JSON, or "broken" JSON that begins like an object or a string, or other *)
(* "text", or "blank".  How the API key is kept out of errors is the       *)
(* subject of Redaction; no answer holds it here.                          *)
(***************************************************************************)
EXTENDS ResponseModels

CONSTANTS
    Replies,      \* the answers: records of bulk, typed, status and body
    Requested     \* the number of addresses of a bulk request

ASSUME RequestedAssumption == Requested \in Nat \ {0}
ASSUME RepliesAssumption ==
    \A r \in Replies : r.body.form = "json" =>
        r.body.value.items \in Seq(Range(r.body.value.items))

VARIABLES
    reply,        \* the answer being read
    results,      \* BulkLookupResults so far, one per item
    outcome       \* what the method returns or throws

vars == <<reply, results, outcome>>

-----------------------------------------------------------------------------
ReadNested(object, name) ==
    UNION {ReadScalar("string", GetMember(o, <<"message">>)) : o \in ObjectAt(object, name)}

(* Mutant: the nested message comes first. *)
ExtractMessageNestedFirst(object) ==
    LET direct == ReadScalar("string", GetMember(object, <<"message">>))
        nested == ReadNested(object, "error")
    IN  IF nested # {} THEN nested
        ELSE IF direct # {} THEN direct
        ELSE ReadNested(object, "detail")

(* The message, the message of the error or that of the detail: the set of at
   most one text.                                                          *)
ExtractMessageFromErrorObject(object) ==
    LET direct == ReadScalar("string", GetMember(object, <<"message">>))
        nested == ReadNested(object, "error")
    IN  IF direct # {} THEN direct
        ELSE IF nested # {} THEN nested
        ELSE ReadNested(object, "detail")

SuccessMarkers == {"ip", "hostname", "domain", "location", "country_metadata", "currency",
                   "network", "asn", "company", "time_zone", "security", "abuse", "user_agent"}
LooksLikeSuccessfulBulkItem(object) == DOMAIN object \cap SuccessMarkers # {}

(* Mutant: wrapped data counts as data. *)
WrappedDataAccepted(object) == FALSE

(* An object is read as data only when it does not read as an error. *)
ReadsAsError(object) ==
    \/ "error" \in DOMAIN object
    \/ ExtractMessageFromErrorObject(object) # {} /\ ~LooksLikeSuccessfulBulkItem(object)
WrappedData(object) == DOMAIN object = {"data"} /\ object["data"].type = "object"

-----------------------------------------------------------------------------
(* A string's or an object's own message, else the body itself. *)
ExtractApiMessage(body) ==
    LET own == IF body.form # "json" THEN {}
               ELSE CASE body.value.type = "string" -> {body.value.text}
                      [] body.value.type = "object" ->
                            ExtractMessageFromErrorObject(body.value.members)
                      [] OTHER -> {}
    IN  IF own # {} THEN CHOOSE text \in own : TRUE
        ELSE IF body.form = "blank" THEN "" ELSE "body"

NamedStatuses == {400, 401, 403, 404, 405, 413, 415, 423, 429, 499, 500}
GenericApiErrorMessage(status) ==
    IF status \in NamedStatuses THEN "status " \o ToString(status) ELSE "api request failed"

ApiErrorMessage(status, body) ==
    IF ExtractApiMessage(body) = "" THEN GenericApiErrorMessage(status) ELSE ExtractApiMessage(body)

-----------------------------------------------------------------------------
(* The body of an ApiError or of a raw answer, the model of a typed one. *)
Outcome(kind, message, body, data) ==
    [kind |-> kind, message |-> message, body |-> body, data |-> data]
Pending == Outcome("pending", "", {}, {})
SerializationError == Outcome("SerializationError", "", {}, {})

(* BulkLookupResult. *)
Result(data, error) == [data |-> data, error |-> error]
IsSuccess(result) == result.data # {} /\ result.error = {}
NoMessage == "bulk item returned an error without a parsable message"

Init ==
    /\ reply \in Replies
    /\ results = <<>>
    /\ outcome = Pending

Reading == outcome = Pending
Successful == reply.status \div 100 = 2
Root == reply.body.value

ThrowApiError ==
    /\ Reading /\ ~Successful
    /\ outcome' = Outcome("ApiError", ApiErrorMessage(reply.status, reply.body), {reply.body}, {})
    /\ UNCHANGED <<reply, results>>

(* The raw methods hand the body over as it came. *)
ReturnRaw ==
    /\ Reading /\ Successful /\ ~reply.typed
    /\ outcome' = Outcome("raw", "", {reply.body}, {})
    /\ UNCHANGED <<reply, results>>

(* Mutant: the number of results is not compared with the request. *)
UnreadableUnlessJson ==
    \/ reply.body.form # "json"
    \/ ~reply.bulk /\ Root.type # "object"
    \/ reply.bulk /\ Root.type # "array"

(* No JSON, no object, no array, or a bulk answer longer than the request. *)
Unreadable ==
    \/ reply.body.form # "json"
    \/ ~reply.bulk /\ Root.type # "object"
    \/ reply.bulk /\ Root.type # "array"
    \/ reply.bulk /\ Len(Root.items) > Requested

RefuseBody ==
    /\ Reading /\ Successful /\ reply.typed
    /\ Unreadable
    /\ outcome' = SerializationError
    /\ UNCHANGED <<reply, results>>

ReturnSingle ==
    /\ Reading /\ Successful /\ reply.typed /\ ~reply.bulk
    /\ ~Unreadable
    /\ outcome' = Outcome("data", "", {}, {ParseResponseObject(Root.members)})
    /\ UNCHANGED <<reply, results>>

ReadingItems == Reading /\ Successful /\ reply.typed /\ reply.bulk /\ ~Unreadable
MoreItems == ReadingItems /\ Len(results) < Len(Root.items)
Item == Root.items[Len(results) + 1]

RefuseItem ==
    /\ MoreItems
    /\ \/ Item.type # "object"
       \/ ~ReadsAsError(Item.members) /\ WrappedData(Item.members)
    /\ outcome' = SerializationError
    /\ UNCHANGED <<reply, results>>

ReadErrorItem ==
    /\ MoreItems
    /\ Item.type = "object" /\ ReadsAsError(Item.members)
    /\ LET texts == ExtractMessageFromErrorObject(Item.members)
       IN  results' = Append(results, Result({}, IF texts = {} THEN {NoMessage} ELSE texts))
    /\ UNCHANGED <<reply, outcome>>

ReadDataItem ==
    /\ MoreItems
    /\ Item.type = "object" /\ ~ReadsAsError(Item.members) /\ ~WrappedData(Item.members)
    /\ results' = Append(results, Result({ParseResponseObject(Item.members)}, {}))
    /\ UNCHANGED <<reply, outcome>>

ReturnBulk ==
    /\ ReadingItems /\ ~MoreItems
    /\ outcome' = Outcome("results", "", {}, {})
    /\ UNCHANGED <<reply, results>>

(* The method has returned or thrown. *)
Done == ~Reading /\ UNCHANGED vars

Next ==
    \/ ThrowApiError
    \/ ReturnRaw
    \/ RefuseBody
    \/ ReturnSingle
    \/ RefuseItem
    \/ ReadErrorItem
    \/ ReadDataItem
    \/ ReturnBulk
    \/ Done

Spec == Init /\ [][Next]_vars

-----------------------------------------------------------------------------
TypeOK ==
    /\ reply \in Replies
    /\ outcome.kind \in {"pending", "ApiError", "raw", "SerializationError", "data", "results"}
    /\ outcome.kind = "ApiError" => outcome.message # ""
    /\ \A i \in DOMAIN results : results[i].data = {} <=> results[i].error # {}
    /\ results # <<>> => reply.bulk /\ reply.typed

(* Result i of a bulk lookup is about item i of the answer, and a list that is
   returned has one for each: none is dropped, merged or shifted, and there
   are never more than addresses were asked about.                         *)
ResultsMatchByPosition ==
    /\ Len(results) <= Requested
    /\ outcome.kind = "results" => Len(results) = Len(Root.items)
    /\ \A i \in DOMAIN results :
           IF IsSuccess(results[i])
           THEN results[i].data = {ParseResponseObject(Root.items[i].members)}
           ELSE results[i].error \subseteq
                    {NoMessage} \cup ExtractMessageFromErrorObject(Root.items[i].members)

(* The texts at a path of an answer: at most one. *)
SaidAt(value, path) == UNION {Content("string", v) : v \in JsonAt(value, path)}

(* Which items become data and which errors.  A member named error always makes
   a failure, whatever else is there; without one, a message makes a failure of
   an item only if it has no member of a location, so that no location is lost
   because the API sent a message along with it; every other object is data,
   an empty one and one with members the SDK does not know included.  Nothing
   but an object of data alone is seen as a wrapping and refused: data next to
   other members is taken for an (empty) location.                         *)
FailuresApartFromData ==
    \A i \in DOMAIN results :
        LET names == DOMAIN Root.items[i].members
            speaks == \E path \in {<<"message">>, <<"detail", "message">>} :
                          SaidAt(Root.items[i], path) # {}
        IN  /\ IsSuccess(results[i]) <=>
                   "error" \notin names /\ (names \cap SuccessMarkers # {} \/ ~speaks)
            /\ names = {"data"} => Root.items[i].members["data"].type # "object"

(* A typed answer, alone or in a bulk, is the answer: each field of each model
   is there exactly when the answer has it, under its name, in its place and
   with its type, and holds what the answer holds; the newer of two names
   decides; an object without members is there and empty, and nothing is made
   up for what the answer leaves out or sends as null.                     *)
TypedAsAnswered ==
    /\ outcome.kind = "data" => \A model \in outcome.data : IsTypedFormOf(model, Root)
    /\ \A i \in DOMAIN results :
           \A model \in results[i].data : IsTypedFormOf(model, Root.items[i])

(* An ApiError says what the API said: the first of message, error.message and
   detail.message that is a string, or a body that is a string; what the
   status means when that, or the body, is empty; and otherwise the body as
   it came.                                                                *)
Speakers == <<<<>>, <<"message">>, <<"error", "message">>, <<"detail", "message">>>>
ApiErrorsExplain ==
    outcome.kind = "ApiError" =>
        LET speaking == {i \in DOMAIN Speakers : SaidAt(Root, Speakers[i]) # {}}
            words == IF reply.body.form # "json" \/ speaking = {} THEN {}
                     ELSE SaidAt(Root, Speakers[Min(speaking)])
        IN  /\ words \ {""} # {} => words = {outcome.message}
            /\ words = {""} \/ reply.body.form = "blank" =>
                   outcome.message = GenericApiErrorMessage(reply.status)
            /\ words = {} /\ reply.body.form # "blank" => outcome.message = "body"
=============================================================================
