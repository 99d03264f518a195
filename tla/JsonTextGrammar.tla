--------------------------- MODULE JsonTextGrammar ---------------------------
(***************************************************************************)
(* What a JSON text of one string, number or keyword denotes, by the       *)
(* definitions of UTF-8, UTF-16 and the grammar of numbers: the reference  *)
(* that JsonText is compared with.                                         *)
(***************************************************************************)
EXTENDS JsonText

IsHigh(p) == 55296 <= p /\ p <= 56319
IsLow(p) == 56320 <= p /\ p <= 57343
IsSurrogate(p) == IsHigh(p) \/ IsLow(p)
LastPoint == 1114111

(* The value in a lead byte and its followers, whatever it is. *)
Bits(u) ==
    IF Len(u) = 1 THEN u[1]
    ELSE IF Len(u) = 2 THEN 64 * (u[1] - 192) + (u[2] - 128)
    ELSE IF Len(u) = 3 THEN 4096 * (u[1] - 224) + 64 * (u[2] - 128) + (u[3] - 128)
    ELSE 262144 * (u[1] - 240) + 4096 * (u[2] - 128) + 64 * (u[3] - 128) + (u[4] - 128)

(* The code points whose UTF-8 form is u: the shortest form, no surrogate. *)
LeadOf == <<0 .. 127, 192 .. 223, 224 .. 239, 240 .. 247>>
Shortest == <<0, 128, 2048, 65536>>
Utf8Points(u) ==
    IF /\ Len(u) \in 1 .. 4 /\ u[1] \in LeadOf[Len(u)]
       /\ \A k \in 2 .. Len(u) : u[k] \in Continuation
    THEN {p \in {Bits(u)} : Shortest[Len(u)] <= p /\ p <= LastPoint /\ ~IsSurrogate(p)}
    ELSE {}

(* \u with four digits of either case. *)
Hex == <<{48}, {49}, {50}, {51}, {52}, {53}, {54}, {55}, {56}, {57},
         {65, 97}, {66, 98}, {67, 99}, {68, 100}, {69, 101}, {70, 102}>>
Nibbles(byte) == {v \in 0 .. 15 : byte \in Hex[v + 1]}
Units(u) ==
    IF Len(u) # 6 \/ u[1] # Backslash \/ u[2] # 117 THEN {}
    ELSE {4096 * a + 256 * b + 16 * c + d :
             a \in Nibbles(u[3]), b \in Nibbles(u[4]), c \in Nibbles(u[5]), d \in Nibbles(u[6])}

Letters == {Quote, Backslash, Slash, 98, 102, 110, 114, 116}
Lettered(c) ==
    IF c = 98 THEN 8 ELSE IF c = 102 THEN 12 ELSE IF c = 110 THEN 10
    ELSE IF c = 114 THEN 13 ELSE IF c = 116 THEN 9 ELSE c

(* The code points that u spells inside a string: itself, or an escape. *)
Escaped(u) ==
    IF Len(u) = 2 THEN {Lettered(c) : c \in {u[2]} \cap Letters}
    ELSE IF Len(u) = 6 THEN {p \in Units(u) : ~IsSurrogate(p)}
    ELSE IF Len(u) = 12
    THEN {65536 + 1024 * (high - 55296) + (low - 56320) :
             high \in {p \in Units(SubSeq(u, 1, 6)) : IsHigh(p)},
             low \in {p \in Units(SubSeq(u, 7, 12)) : IsLow(p)}}
    ELSE {}
Spelled(u) ==
    IF u[1] = Backslash THEN Escaped(u) ELSE {p \in Utf8Points(u) : p >= 32 /\ p # Quote}

(* The sequences of code points that s spells behind its first n bytes, by some
   way to cut it into pieces, when points[u] are those of the piece u.     *)
Bytes == Seq(0 .. 255)
Raw == [u \in Bytes |-> Utf8Points(u)]
InString == [u \in Bytes |-> Spelled(u)]
ReadingsFrom(s, points) ==
    LET from[n \in Nat] ==
            IF n >= Len(s) THEN {<<>>}
            ELSE UNION {{<<p>> \o rest : p \in points[SubSeq(s, n + 1, n + m)], rest \in from[n + m]} :
                           m \in {k \in {1, 2, 3, 4, 6, 12} : n + k <= Len(s)}}
    IN  from
Readings(s, points) == ReadingsFrom(s, points)[0]

Between(s) == SubSeq(s, 2, Len(s) - 1)
StringPoints(s) ==
    IF Len(s) >= 2 /\ s[1] = Quote /\ s[Len(s)] = Quote THEN Readings(Between(s), InString) ELSE {}

-----------------------------------------------------------------------------
Sign == {<<>>, <<Minus>>}
IsDigits(s) == s # <<>> /\ \A i \in DOMAIN s : s[i] \in Digits
IsInteger(s) == IsDigits(s) /\ (s[1] = Zero => Len(s) = 1)
IsFraction(s) == s # <<>> => s[1] = Point /\ IsDigits(Tail(s))
IsExponent(s) ==
    s # <<>> =>
        /\ s[1] \in Exponents
        /\ \E n \in {2, 3} : /\ n <= Len(s) /\ IsDigits(SubSeq(s, n, Len(s)))
                             /\ n = 3 => s[2] \in {Plus, Minus}
IsNumber(s) ==
    \E a \in 1 .. Len(s) + 1 : \E b \in a .. Len(s) + 1 : \E c \in b .. Len(s) + 1 :
        /\ SubSeq(s, 1, a - 1) \in Sign
        /\ IsInteger(SubSeq(s, a, b - 1))
        /\ IsFraction(SubSeq(s, b, c - 1))
        /\ IsExponent(SubSeq(s, c, Len(s)))

(* The text without the white space around it. *)
Bare(s) ==
    LET inner == {i \in DOMAIN s : s[i] \notin WhiteSpace}
    IN  IF inner = {} THEN <<>> ELSE SubSeq(s, Min(inner), Max(inner))

(* A text that denotes something: a string, a number in range, a keyword. *)
Denotes(s) ==
    \/ StringPoints(s) # {}
    \/ s \in Keywords
    \/ IsNumber(s) /\ s \notin Unrepresentable

-----------------------------------------------------------------------------
(* The parser reads each string, number and keyword for what it denotes and
   refuses every other text.  Of a string that is: the UTF-8 bytes that are
   handed out are those of exactly the code points that the text spells, raw
   or through escapes and surrogate pairs; an overlong, truncated or surrogate
   form, an unpaired half, a control character and a missing quote are errors.
   Of a number: no leading zero, no missing digit, nothing after it.       *)
ScalarsReadExactly ==
    LET s == Bare(input)
    IN  /\ status = "parsed" /\ value.type = "string" =>
               StringPoints(s) = Readings(value.content, Raw) /\ StringPoints(s) # {}
        /\ status = "parsed" /\ value.type # "string" => value.content = s /\ Denotes(s)
        /\ status = "SerializationError" => s \in Subnormal \/ ~Denotes(s)
=============================================================================
