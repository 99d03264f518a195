----------------------------- MODULE JsonStrings -----------------------------
(***************************************************************************)
(* The strings of JSON texts, byte by byte: ParseString and what it calls  *)
(* (src/src/json.cpp).  Bytes are numbers, texts are sequences of bytes,   *)
(* and one round of the loop of ParseString reads one piece of the string. *)
(***************************************************************************)
EXTENDS Integers, Sequences

Quote == 34
Backslash == 92
Slash == 47

(* Peek: no byte at the end. *)
AtEnd == -1
Peek(s, i) == IF i \in DOMAIN s THEN s[i] ELSE AtEnd

(* A piece takes a number of bytes and adds some to the string. *)
Piece(used, bytes) == [used |-> used, bytes |-> bytes]
Refused == Piece(0, <<>>)

-----------------------------------------------------------------------------
Continuation == 128 .. 191

(* Mutant: overlong and surrogate forms pass. *)
AnyFollower(lead) == Continuation

(* What may follow a lead byte: no overlong form, no surrogate, nothing past
   the last code point.                                                    *)
Follower(lead) ==
    IF lead = 224 THEN 160 .. 191
    ELSE IF lead = 237 THEN 128 .. 159
    ELSE IF lead = 240 THEN 144 .. 191
    ELSE IF lead = 244 THEN 128 .. 143
    ELSE Continuation

Utf8Length(lead) == IF lead < 224 THEN 2 ELSE IF lead < 240 THEN 3 ELSE 4

Utf8Piece(s, i) ==
    LET length == Utf8Length(s[i])
    IN  IF /\ s[i] \in 194 .. 244
           /\ Peek(s, i + 1) \in Follower(s[i])
           /\ \A k \in 2 .. length - 1 : Peek(s, i + k) \in Continuation
        THEN Piece(length, SubSeq(s, i, i + length - 1))
        ELSE Refused

-----------------------------------------------------------------------------
HexValue(byte) ==
    IF byte \in 48 .. 57 THEN byte - 48
    ELSE IF byte \in 65 .. 70 THEN byte - 55
    ELSE IF byte \in 97 .. 102 THEN byte - 87
    ELSE -1

(* ParseHexCodePoint: -1 when there are no four hexadecimal digits. *)
NoUnit == -1
CodeUnit(s, i) ==
    LET digit(k) == HexValue(Peek(s, i + k))
    IN  IF \A k \in 0 .. 3 : digit(k) >= 0
        THEN 4096 * digit(0) + 256 * digit(1) + 16 * digit(2) + digit(3)
        ELSE NoUnit

(* AppendUnicodeCodePoint. *)
Utf8(point) ==
    LET tail(k) == 128 + ((point \div k) % 64)
    IN  IF point <= 127 THEN <<point>>
        ELSE IF point <= 2047 THEN <<192 + point \div 64, tail(1)>>
        ELSE IF point <= 65535 THEN <<224 + point \div 4096, tail(64), tail(1)>>
        ELSE <<240 + point \div 262144, tail(4096), tail(64), tail(1)>>

HighSurrogates == 55296 .. 56319
LowSurrogates == 56320 .. 57343

(* AppendUnicodeEscape, with the backslash at i. *)
UnicodePiece(s, i) ==
    LET first == CodeUnit(s, i + 2)
        second == CodeUnit(s, i + 8)
    IN  IF first \in LowSurrogates \cup {NoUnit} THEN Refused
        ELSE IF first \notin HighSurrogates THEN Piece(6, Utf8(first))
        ELSE IF /\ Peek(s, i + 6) = Backslash /\ Peek(s, i + 7) = 117
                /\ second \in LowSurrogates
        THEN Piece(12, Utf8(65536 + 1024 * (first - 55296) + (second - 56320)))
        ELSE Refused

(* The letters that escape a control character, and those characters. *)
EscapeLetters == {98, 102, 110, 114, 116}
ControlOf(letter) ==
    IF letter = 98 THEN 8 ELSE IF letter = 102 THEN 12 ELSE IF letter = 110 THEN 10
    ELSE IF letter = 114 THEN 13 ELSE 9

EscapePiece(s, i) ==
    LET escaped == Peek(s, i + 1)
    IN  IF escaped \in {Quote, Backslash, Slash} THEN Piece(2, <<escaped>>)
        ELSE IF escaped \in EscapeLetters THEN Piece(2, <<ControlOf(escaped)>>)
        ELSE IF escaped = 117 THEN UnicodePiece(s, i)
        ELSE Refused

PieceAt(s, i) ==
    IF Peek(s, i) < 32 THEN Refused
    ELSE IF Peek(s, i) >= 128 THEN Utf8Piece(s, i)
    ELSE IF Peek(s, i) = Backslash THEN EscapePiece(s, i)
    ELSE Piece(1, <<s[i]>>)

-----------------------------------------------------------------------------
(* ParseString from the byte after the opening quote: the bytes it returns and
   the place after the closing quote, 0 when it throws.                    *)
Before(bytes, rest) == [rest EXCEPT !.text = bytes \o @]
ParseString(s, start) ==
    LET read[i \in Nat] ==
            LET after(piece) ==
                    IF piece = Refused THEN [text |-> <<>>, next |-> 0]
                    ELSE Before(piece.bytes, read[i + piece.used])
            IN  IF Peek(s, i) = Quote THEN [text |-> <<>>, next |-> i + 1]
                ELSE after(PieceAt(s, i))
    IN  read[start]
=============================================================================
