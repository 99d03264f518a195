----------------------------- MODULE JsonGrammar -----------------------------
(***************************************************************************)
(* What JSON texts mean, by the grammar and not by a parser: the reference *)
(* that JsonParser is compared with.  A meaning, and a part of a list, is  *)
(* a function of two places: f[i][j] is what the text is from i to j.      *)
(***************************************************************************)
EXTENDS JsonParser

Leaves(text) ==
    [i \in DOMAIN text |-> [j \in DOMAIN text |->
        IF i = j /\ text[i] \in Strings \cup Scalars THEN {Leaf(text[i])} ELSE {}]]

Commas(text, i, j) == {c \in i + 1 .. j - 1 : text[c] = Comma}

Longer(first, lists) == {Cons(x, rest) : x \in first, rest \in lists}

(* The lists that begin at each place and end at the last one, with a comma
   between one part and the next.                                          *)
Lists(text, part, last) ==
    LET list[i \in 1 .. last] ==
            {<<x>> : x \in part[i][last]}
            \cup UNION {Longer(part[i][c - 1], list[c + 1]) : c \in Commas(text, i, last)}
    IN  list

Members(text, meaning) ==
    [i \in DOMAIN text |-> [j \in DOMAIN text |->
        IF i + 2 <= j /\ text[i] \in Strings /\ text[i + 1] = Colon
        THEN {<<text[i], v>> : v \in meaning[i + 2][j]} ELSE {}]]

(* Of the members with one key the last counts. *)
LastOfEach(list) ==
    {list[k] : k \in {k \in DOMAIN list : \A h \in DOMAIN list : list[h][1] = list[k][1] => h <= k}}

(* The lists in a pair of brackets. *)
Enclosed(text, open, close, part, i, j) ==
    IF i >= j \/ text[i] # open \/ text[j] # close THEN {}
    ELSE IF j = i + 1 THEN {<<>>} ELSE Lists(text, part, j - 1)[i + 1]

Values(text, inner) ==
    [i \in DOMAIN text |-> [j \in DOMAIN text |->
        Leaves(text)[i][j]
        \cup {ArrayValue(l) : l \in Enclosed(text, BeginArray, EndArray, inner, i, j)}
        \cup {ObjectValue(LastOfEach(l)) :
                 l \in Enclosed(text, BeginObject, EndObject, Members(text, inner), i, j)}]]

(* For each number of containers that may be around a leaf. *)
Meanings(text) ==
    LET within[d \in 0 .. MaxDepth] ==
            IF d = 0 THEN Leaves(text) ELSE Values(text, within[d - 1])
    IN  within

(* The values of the whole input that are within the limits. *)
Acceptable ==
    {v \in IF input = <<>> THEN {} ELSE Meanings(input)[MaxDepth][1][Len(input)] :
        v.type = "array" => Len(v.items) <= MaxRootItems}

-----------------------------------------------------------------------------
(* The parser accepts JSON within its limits and nothing else: no trailing
   comma, no missing part, no text after the value, no level too many, and no
   bulk answer longer than the request.  The value it returns is the one the
   text denotes: elements in their order, members under their keys, the last
   one where a key is repeated.                                            *)
AcceptsExactlyJson ==
    /\ status = "parsed" => Acceptable = {value}
    /\ status = "SerializationError" => Acceptable = {}
=============================================================================
