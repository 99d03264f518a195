------------------------------- MODULE Redaction -------------------------------
(***************************************************************************)
(* How the API key is kept out of errors, byte by byte: ToApiError, with   *)
(* SafeErrorBody, RedactErrorText, MaskMatches and ExtractApiMessage, and  *)
(* the error of a bulk item (src/src/internal.cpp).  Objects are flat and  *)
(* hold strings; one byte stands for the name "message".                   *)
(***************************************************************************)
EXTENDS JsonStrings, SequencesExt

CONSTANTS
    Bodies,     \* answers of the API
    Keys,       \* API keys; the empty one is that of a client without key
    MaskLen,    \* the length of [REDACTED]: 10
    MinLimit    \* how long any masked text may get: 4096

MaskByte == 91

ASSUME MaskAssumption ==
    /\ MaskLen \in Nat \ {0} /\ MinLimit \in Nat /\ MaskLen <= MinLimit
    /\ \A k \in Keys : MaskByte \notin Range(k)
    /\ Bodies \cup Keys \subseteq Seq(0 .. 255)

VARIABLES
    body,       \* the answer, or one object of a bulk answer
    key,        \* api_key
    safe,       \* response_body of the ApiError
    message,    \* what() of the ApiError, or the message of the BulkLookupError
    phase       \* "received", "ApiError" or "BulkLookupError"

vars == <<body, key, safe, message, phase>>

-----------------------------------------------------------------------------
Mask == [i \in 1 .. MaskLen |-> MaskByte]
Percent == 37

OccursAt(s, t, i) == i + Len(t) - 1 <= Len(s) /\ SubSeq(s, i, i + Len(t) - 1) = t

(* find: the first place from `from` on where t occurs, 0 when there is none. *)
Find(s, t, from) ==
    LET places == {i \in from .. Len(s) : OccursAt(s, t, i)}
    IN  IF places = {} THEN 0 ELSE Min(places)
Includes(s, t) == Find(s, t, 1) # 0

Limit(value) == Max({Len(value), MinLimit})

(* Mutant: the rest of the text is not counted. *)
MaskMatchesNoRest(value, secret) ==
    LET loop[from \in Nat] == [done \in Seq(Int) |->
            LET pos == Find(value, secret, from + 1)
                grown == done \o SubSeq(value, from + 1, pos - 1) \o Mask
            IN  IF pos = 0 THEN done \o SubSeq(value, from + 1, Len(value))
                ELSE IF Len(grown) > Limit(value) THEN Mask
                ELSE loop[pos + Len(secret) - 1][grown]]
    IN  loop[0][<<>>]

(* The occurrences of the secret replaced, or the mask alone when that is longer
   than the text was and than MinLimit.  The bytes up to `from` are done.  *)
MaskMatches(value, secret) ==
    LET loop[from \in Nat] == [done \in Seq(Int) |->
            LET pos == Find(value, secret, from + 1)
                grown == done \o SubSeq(value, from + 1, pos - 1) \o Mask
                rest == SubSeq(value, from + 1, Len(value))
            IN  IF pos = 0 THEN IF Len(rest) > Limit(value) - Len(done) THEN Mask ELSE done \o rest
                ELSE IF Len(grown) > Limit(value) THEN Mask
                ELSE loop[pos + Len(secret) - 1][grown]]
    IN  IF Includes(value, secret) THEN loop[0][<<>>] ELSE value

Unreserved == (65 .. 90) \cup (97 .. 122) \cup (48 .. 57) \cup {45, 46, 95, 126}
HexDigit(v) == IF v < 10 THEN 48 + v ELSE 55 + v
Encoded(byte) ==
    IF byte \in Unreserved THEN <<byte>>
    ELSE <<Percent, HexDigit(byte \div 16), HexDigit(byte % 16)>>
UrlEncode(s) ==
    LET after[n \in Nat] == IF n >= Len(s) THEN <<>> ELSE Encoded(s[n + 1]) \o after[n + 1]
    IN  after[0]

PercentDecoded(s) ==
    LET from[i \in Nat] ==
            IF i > Len(s) THEN <<>>
            ELSE IF s[i] = Percent /\ HexValue(Peek(s, i + 1)) >= 0 /\ HexValue(Peek(s, i + 2)) >= 0
                 THEN <<16 * HexValue(s[i + 1]) + HexValue(s[i + 2])>> \o from[i + 3]
                 ELSE <<s[i]>> \o from[i + 1]
    IN  from[1]

(* The encoded key is masked first; a key in any other percent-encoding takes
   the whole text with it; then the key as it is is masked.                *)
RedactErrorText(value, secret) ==
    LET rest(text, decoded) ==
            IF decoded # text /\ Includes(decoded, secret) THEN Mask
            ELSE MaskMatches(text, secret)
        second(text) == rest(text, PercentDecoded(text))
        first(encoded) == IF encoded = secret THEN value ELSE MaskMatches(value, encoded)
    IN  IF secret = <<>> THEN value ELSE second(first(UrlEncode(secret)))

-----------------------------------------------------------------------------
(* The quote that ends the string token, 0 when it does not end. *)
TokenEnd(s, start) ==
    LET from[i \in Nat] ==
            CASE Peek(s, i) = AtEnd -> 0
              [] Peek(s, i) = Quote -> i
              [] Peek(s, i) = Backslash -> IF i = Len(s) THEN 0 ELSE from[i + 2]
              [] OTHER -> from[i + 1]
    IN  from[start]

(* A token with escapes that cannot be decoded, or that decodes to the key. *)
Suspicious(s, start, end, secret) ==
    /\ Backslash \in {s[i] : i \in start .. end}
    /\ LET reveals(token) ==
               token.next = 0 \/ RedactErrorText(token.text, secret) # token.text
       IN  reveals(ParseString(s, start + 1))

HiddenByEscapes(s, secret) ==
    LET from[i \in Nat] ==
            LET token(start, end) ==
                    end = 0 \/ Suspicious(s, start, end, secret) \/ from[end + 1]
                at(start) == start # 0 /\ token(start, TokenEnd(s, start + 1))
            IN  at(Find(s, <<Quote>>, i))
    IN  from[1]

(* Mutant: escapes are not looked into. *)
SafeErrorBodyNoTokens(s, secret) == RedactErrorText(s, secret)

SafeErrorBody(s, secret) ==
    IF secret # <<>> /\ Includes(s, <<Backslash>>) /\ HiddenByEscapes(s, secret) THEN Mask
    ELSE RedactErrorText(s, secret)

-----------------------------------------------------------------------------
MessageName == <<109>>

WhiteSpace == (9 .. 13) \cup {32}
Trim(s) ==
    LET inner == {i \in DOMAIN s : s[i] \notin WhiteSpace}
    IN  IF inner = {} THEN <<>> ELSE SubSeq(s, Min(inner), Max(inner))

(* ParseJson: the set of at most one reading of a string or of an object, the
   names with the values of the members in their order.                    *)
ParsedString(s) ==
    LET whole(string) == IF string.next = Len(s) + 1 THEN {string.text} ELSE {}
    IN  IF Peek(s, 1) = Quote THEN whole(ParseString(s, 2)) ELSE {}

ParsedObject(s) ==
    LET member[i \in Nat] ==
            LET rest(next) ==
                    IF Peek(s, next) = 44 THEN member[next + 1]
                    ELSE IF Peek(s, next) = 125 /\ next = Len(s) THEN {<<>>} ELSE {}
                valued(name, value) ==
                    IF value.next = 0 THEN {}
                    ELSE {<<<<name.text, value.text>>>> \o others : others \in rest(value.next)}
                named(name) ==
                    IF name.next # 0 /\ Peek(s, name.next) = 58 /\ Peek(s, name.next + 1) = Quote
                    THEN valued(name, ParseString(s, name.next + 2)) ELSE {}
            IN  IF Peek(s, i) = Quote THEN named(ParseString(s, i + 1)) ELSE {}
    IN  IF Peek(s, 1) = 123 THEN member[2] ELSE {}

(* The last member of the name counts. *)
MessageOf(s) ==
    UNION {LET named == {i \in DOMAIN m : m[i][1] = MessageName}
           IN  {m[i][2] : i \in {j \in named : \A k \in named : k <= j}} : m \in ParsedObject(s)}

ExtractApiMessage(s) ==
    LET first(own, otherwise) == IF own = {} THEN otherwise ELSE CHOOSE text \in own : TRUE
        from(text) == first(ParsedString(text) \cup MessageOf(text), text)
    IN  from(Trim(s))

(* GenericApiErrorMessage, and the text for a bulk item without a message. *)
Generic == <<120>>
OrGeneric(text) == IF text = <<>> THEN Generic ELSE text

-----------------------------------------------------------------------------
Init ==
    /\ body \in Bodies
    /\ key \in Keys
    /\ safe = <<>> /\ message = <<>>
    /\ phase = "received"

ToApiError ==
    /\ phase = "received"
    /\ safe' = SafeErrorBody(body, key)
    /\ message' = RedactErrorText(OrGeneric(ExtractApiMessage(safe')), key)
    /\ phase' = "ApiError"
    /\ UNCHANGED <<body, key>>

(* The part of ParseBulkLookupResults for an item that is an error; only a client
   with a key gets that far.                                               *)
ReadBulkError ==
    /\ phase = "received" /\ key # <<>>
    /\ ParsedObject(body) # {}
    /\ \E text \in IF MessageOf(body) = {} THEN {Generic} ELSE MessageOf(body) :
           message' = RedactErrorText(text, key)
    /\ phase' = "BulkLookupError"
    /\ UNCHANGED <<body, key, safe>>

(* The error has been made. *)
Done == phase # "received" /\ UNCHANGED vars

Next == ToApiError \/ ReadBulkError \/ Done

Spec == Init /\ [][Next]_vars

-----------------------------------------------------------------------------
TypeOK ==
    /\ body \in Bodies /\ key \in Keys
    /\ safe \in Seq(0 .. 255) /\ message \in Seq(0 .. 255)
    /\ phase \in {"received", "ApiError", "BulkLookupError"}

(* What a reader can get out of a text: the text and, when it is JSON, its
   strings, each with its percent-encoding undone or not.                  *)
Strings(s) ==
    ParsedString(s) \cup UNION {UNION {Range(m[i]) : i \in DOMAIN m} : m \in ParsedObject(s)}
Readings(s) ==
    LET each(plain) == plain \cup {PercentDecoded(r) : r \in plain}
    IN  each({s} \cup Strings(Trim(s)))
Shows(readings) == key # <<>> /\ \E r \in readings : Includes(r, key)
IsJson(s) == Strings(Trim(s)) # {}

(* "If an error includes your API key, the SDK hides it. This also applies to
   errors in typed bulk results.": neither the body nor the message of an error
   gives the key away, whether it arrived as it is, percent-encoded, behind JSON
   escapes or percent-encoded behind these, once each; and an answer that does
   not give it away is passed on as it is, unless its escapes are not those of
   JSON.                                                                   *)
ErrorsHideTheKeyOnly ==
    /\ phase = "ApiError" =>
           /\ ~Shows(Readings(safe))
           /\ ~Shows(Readings(body)) /\ (IsJson(body) \/ ~Includes(body, <<Backslash>>)) => safe = body
    /\ phase # "received" => ~Shows({message, PercentDecoded(message)})

(* However often a short key occurs, an error is no longer than the answer was,
   or than a bound that does not depend on it.                             *)
MaskBounded ==
    phase # "received" => Max({Len(safe), Len(message)}) <= Limit(body)
=============================================================================
