----------------------------- MODULE MCRedaction -----------------------------
(* Redaction for keys of one and two bytes, one of which UrlEncode changes, and
   for bodies put together from the key's bytes raw, percent-encoded in either
   case and escaped; and for bodies that masking makes as long as MinLimit, as
   the body, and one byte longer.                                          *)
EXTENDS Redaction

Solidus == <<47>>
K == <<75>>
X == <<120>>
Fragments == {K, Solidus, X, <<Backslash, 47>>, <<Backslash, Backslash>>,
              <<Percent, 50, 70>>, <<Percent, 50, 102>>, <<Percent, 52, 98>>,  \* %2F %2f %4b
              <<Backslash, 117, 48, 48, 52, 66>>,                              \* \u004B
              <<Backslash, 117, 48, 48, 50, 53>>}                              \* \u0025
Contents == {<<>>} \cup Fragments \cup {a \o b : a, b \in Fragments}
            \cup {a \o b \o c : a, b \in Fragments,
                                c \in {<<50, 70>>, Solidus, <<50, 102>>, <<Backslash>>, <<Quote>>}}

InQuotes(s) == <<Quote>> \o s \o <<Quote>>
Member(name, s) == InQuotes(<<name>>) \o <<58>> \o InQuotes(s)
Object(members) == <<123>> \o members \o <<125>>

Echoes ==
    UNION {{s, <<32>> \o InQuotes(s), <<Quote>> \o s, Object(Member(109, s)),
            Object(Member(110, s) \o <<44>> \o Member(109, X)),
            Object(Member(109, s) \o <<44>> \o Member(109, K))} : s \in Contents}

Copies(n, s) == FlattenSeq([i \in 1 .. n |-> s])
Long == {Copies(a, x) \o Copies(b, y) : a \in 0 .. 5, b \in 0 .. 13,
                                        x \in {K, <<Percent, 50, 70>>}, y \in {X, Solidus}}
        \cup {Copies(b, X) \o Copies(a, K) : a \in 0 .. 5, b \in 0 .. 13}

MCBodies == Echoes \cup Long
MCKeys == {<<>>, K, Solidus, K \o Solidus}
=============================================================================
