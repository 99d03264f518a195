------------------------------- MODULE JsonText -------------------------------
(***************************************************************************)
(* How ParseJson (src/src/json.cpp) reads a text that is one string, one   *)
(* number or one keyword, byte by byte: the tokens that JsonParser takes   *)
(* as given.                                                               *)
(***************************************************************************)
EXTENDS JsonStrings, FiniteSetsExt

CONSTANTS
    Inputs,           \* texts
    Unrepresentable,  \* numbers that no double comes near to
    Subnormal         \* numbers that strtod gives up on and from_chars does not

VARIABLES
    input,            \* input_
    index,            \* index_, counted from one
    phase,            \* "value", "string" or "end of input"
    text,             \* result of ParseString
    value,            \* the JsonValue
    status            \* "parsing", "parsed" or "SerializationError"

vars == <<input, index, phase, text, value, status>>

-----------------------------------------------------------------------------
Value(type, content) == [type |-> type, content |-> content]
NoValue == Value("none", <<>>)

WhiteSpace == {9, 10, 13, 32}
Digits == 48 .. 57
Minus == 45
Plus == 43
Point == 46
Zero == 48
Exponents == {69, 101}

(* The first byte from i on that is not of the set. *)
SkipAll(s, i, bytes) == Min({j \in i .. Len(s) + 1 : Peek(s, j) \notin bytes})
SkipWhitespace(s, i) == SkipAll(s, i, WhiteSpace)

(* The place after the digits, 0 when there is none. *)
ConsumeDigits(s, i) ==
    LET end == SkipAll(s, i, Digits)
    IN  IF end > i THEN end ELSE 0

(* The place after the number, 0 when digits are missing. *)
NumberEnd(s, start) ==
    LET unsigned == IF Peek(s, start) = Minus THEN start + 1 ELSE start
        integer == IF Peek(s, unsigned) = Zero THEN unsigned + 1 ELSE ConsumeDigits(s, unsigned)
        fraction == IF Peek(s, integer) = Point THEN ConsumeDigits(s, integer + 1) ELSE integer
    IN  IF Peek(s, fraction) \notin Exponents THEN fraction
        ELSE ConsumeDigits(s, IF Peek(s, fraction + 1) \in {Plus, Minus}
                              THEN fraction + 2 ELSE fraction + 1)

Keywords == {<<110, 117, 108, 108>>, <<116, 114, 117, 101>>, <<102, 97, 108, 115, 101>>}
MatchKeyword(s, i, keyword) ==
    i + Len(keyword) - 1 <= Len(s) /\ SubSeq(s, i, i + Len(keyword) - 1) = keyword

ASSUME InputsAssumption ==
    \A s \in Inputs : s \in Seq(0 .. 255) /\ Peek(s, SkipWhitespace(s, 1)) \notin {91, 123}

-----------------------------------------------------------------------------
Init ==
    /\ input \in Inputs
    /\ index = SkipWhitespace(input, 1)
    /\ phase = "value"
    /\ text = <<>>
    /\ value = NoValue
    /\ status = "parsing"

Reading(p) == status = "parsing" /\ phase = p
Current == Peek(input, index)

(* ParseValue returns v, and Parse skips the white space after it. *)
Return(v, end) ==
    /\ value' = v
    /\ index' = SkipWhitespace(input, end)
    /\ phase' = "end of input"
    /\ UNCHANGED <<input, text, status>>

ReadKeyword ==
    /\ Reading("value")
    /\ \E k \in Keywords : MatchKeyword(input, index, k) /\ Return(Value("keyword", k), index + Len(k))

OpenString ==
    /\ Reading("value") /\ Current = Quote
    /\ phase' = "string"
    /\ index' = index + 1
    /\ UNCHANGED <<input, text, value, status>>

AppendPiece ==
    /\ Reading("string") /\ Current # Quote
    /\ PieceAt(input, index) # Refused
    /\ text' = text \o PieceAt(input, index).bytes
    /\ index' = index + PieceAt(input, index).used
    /\ UNCHANGED <<input, phase, value, status>>

CloseString ==
    /\ Reading("string") /\ Current = Quote
    /\ Return(Value("string", text), index + 1)

NumberMayBegin == Reading("value") /\ Current \in Digits \cup {Minus}
Number == SubSeq(input, index, NumberEnd(input, index) - 1)
NumberFits == NumberEnd(input, index) # 0 /\ Number \notin Unrepresentable

(* ParseLocaleIndependentDouble: the double is the one nearest to the text. *)
ReadNumber ==
    /\ NumberMayBegin /\ NumberFits
    /\ Return(Value("number", Number), NumberEnd(input, index))

Finish ==
    /\ Reading("end of input") /\ Current = AtEnd
    /\ status' = "parsed"
    /\ UNCHANGED <<input, index, phase, text, value>>

Readable ==
    CASE phase = "value" ->
            \/ Current = Quote
            \/ \E k \in Keywords : MatchKeyword(input, index, k)
            \/ Current \in Digits \cup {Minus} /\ NumberFits
      [] phase = "string" -> Current = Quote \/ PieceAt(input, index) # Refused
      [] phase = "end of input" -> Current = AtEnd

(* A build whose library has no from_chars for doubles refuses the subnormal. *)
Fail ==
    /\ status = "parsing"
    /\ Readable => NumberMayBegin /\ Number \in Subnormal
    /\ status' = "SerializationError"
    /\ UNCHANGED <<input, index, phase, text, value>>

(* ParseJson has returned or thrown. *)
Done == status # "parsing" /\ UNCHANGED vars

Next ==
    \/ ReadKeyword
    \/ OpenString
    \/ AppendPiece
    \/ CloseString
    \/ ReadNumber
    \/ Finish
    \/ Fail
    \/ Done

Spec == Init /\ [][Next]_vars

-----------------------------------------------------------------------------
TypeOK ==
    /\ input \in Inputs /\ index \in 1 .. Len(input) + 1
    /\ phase \in {"value", "string", "end of input"}
    /\ text \in Seq(0 .. 255)
    /\ value.type \in {"none", "keyword", "string", "number"}
    /\ status \in {"parsing", "parsed", "SerializationError"}
=============================================================================
