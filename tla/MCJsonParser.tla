----------------------------- MODULE MCJsonParser -----------------------------
(* JsonParser on all short inputs, on longer texts with nesting and repeated
   keys at both limits, and on each of those with one token lost, doubled or
   replaced.                                                               *)
EXTENDS JsonGrammar

Tokens == (Marks \ {"end"}) \cup Strings \cup Scalars

Texts ==
    {<<"{", "a", ":", x, ",", "a", ":", "1", "}">> : x \in {"1", "b"}}
    \cup {<<"{", "a", ":", "1", ",", "b", ":", "[", "1", "]", "}">>,
          <<"[", "1", ",", "[", "a", ",", "b", ",", "1", "]", "]">>,
          <<"[", "{", "a", ":", "{", "}", "}", ",", "[", "]", "]">>,
          <<"[", "[", "1", "]", ",", "1", ",", "1", "]">>,
          <<"{", "a", ":", "[", "{", "}", ",", "[", "]", "]", "}">>,
          <<"[", "[", "[", "1", "]", "]", "]">>,
          <<"[", "[", "[", "[", "]", "]", "]", "]">>}

Edits(s) ==
    {s}
    \cup {RemoveAt(s, i) : i \in DOMAIN s}
    \cup {ReplaceAt(s, i, t) : i \in DOMAIN s, t \in Tokens}
    \cup {InsertAt(s, i, t) : i \in 1 .. Len(s) + 1, t \in Tokens}

MCInputs == UNION {[1 .. n -> Tokens] : n \in 0 .. 5} \cup UNION {Edits(s) : s \in Texts}
=============================================================================
