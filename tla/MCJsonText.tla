------------------------------ MODULE MCJsonText ------------------------------
(* JsonText on strings at the boundaries of UTF-8 and UTF-16, on all short
   texts of the characters of numbers, and on texts at one edit from a
   keyword, a number or a string between white space.                      *)
EXTENDS JsonTextGrammar, SequencesExt

UpTo(n, S) == UNION {[1 .. k -> S] : k \in 0 .. n}
Quoted(S) == {<<Quote>> \o s \o <<Quote>> : s \in S}

Leads == {97, 127, 128, 193, 194, 223, 224, 237, 239, 240, 244, 245}
Followers == {97, 128, 143, 144, 159, 160, 191, 192}
Encoded == {<<l>> \o f : l \in Leads, f \in UpTo(3, Followers)}

\* \u0000 \u001F \u0022 \u005c \u007f \u0080 \u07FF \u0800 \uD7ff \uD800 \udBFF \uDC00 \udfff
\* \uE000 \uFFFF, one with a bad digit and one too short
HexQuads == {<<48, 48, 48, 48>>, <<48, 48, 49, 70>>, <<48, 48, 50, 50>>, <<48, 48, 53, 99>>,
             <<48, 48, 55, 102>>, <<48, 48, 56, 48>>, <<48, 55, 70, 70>>, <<48, 56, 48, 48>>,
             <<68, 55, 102, 102>>, <<68, 56, 48, 48>>, <<100, 66, 70, 70>>, <<68, 67, 48, 48>>,
             <<100, 102, 102, 102>>, <<69, 48, 48, 48>>, <<70, 70, 70, 70>>, <<68, 56, 48, 103>>,
             <<68, 56, 48>>}
Escapes == {<<Backslash, 117>> \o q : q \in HexQuads}
Simple == {<<Backslash, c>> : c \in {Quote, Backslash, Slash, 98, 102, 110, 114, 116, 117, 120, 97}}
EscapeSequences == Simple \cup {a \o b : a \in Escapes, b \in Escapes \cup Simple \cup {<<>>, <<97>>, <<Backslash>>}}
SingleBytes == {<<b>> : b \in {0, 31, 32, Quote, Slash, 127, 255}}

Edits(s, S) ==
    {s} \cup {RemoveAt(s, i) : i \in DOMAIN s}
        \cup {InsertAt(s, i, t) : i \in 1 .. Len(s) + 1, t \in S}
        \cup {ReplaceAt(s, i, t) : i \in DOMAIN s, t \in S}
InWhiteSpace == {<<32>> \o k \o <<9, 10>> : k \in Keywords \cup {<<49, 50>>, <<Quote, 97, Quote>>}}
Numeric == {Minus, Plus, Point, Zero, 49, 101}
Big == <<49, 101, 57>>
Tiny == <<49, 101, Minus, 57>>
Denormal == <<49, 101, Minus, 49>>
MCUnrepresentable == {Big, Tiny}
MCSubnormal == {Denormal, <<Minus>> \o Denormal}

MCInputs ==
    Quoted(Encoded \cup EscapeSequences \cup SingleBytes)
    \cup UpTo(5, Numeric)
    \cup UNION {Edits(s, {97, 49, 13, Quote}) : s \in InWhiteSpace}
    \cup {Big, Tiny, <<Minus>> \o Denormal \o <<32>>, <<Zero, Point, Zero, 69, Plus, Zero>>}
=============================================================================
