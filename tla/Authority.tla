------------------------------ MODULE Authority ------------------------------
(***************************************************************************)
(* IsValidAuthority and what it calls (src/src/internal.cpp): which hosts  *)
(* and ports a base URL and a request origin may name.  An authority is a  *)
(* sequence of characters.                                                 *)
(***************************************************************************)
EXTENDS Integers, SequencesExt

Numerals == <<"0", "1", "2", "3", "4", "5", "6", "7", "8", "9">>
IsDigit(c) == c \in Range(Numerals)
IsHexDigit(c) == IsDigit(c) \/ c \in {"a", "F"}
IsAlphaNumeric(c) == IsHexDigit(c) \/ c = "g"
All(s, Is(_)) == \A i \in DOMAIN s : Is(s[i])

(* find and rfind, with npos as 0. *)
Find(s, c) == SelectInSeq(s, LAMBDA x : x = c)
FindLast(s, c) == SelectLastInSeq(s, LAMBDA x : x = c)
From(s, i) == SubSeq(s, i, Len(s))

(* std::stoi, which throws std::out_of_range past the largest int: value of the
   first n digits.                                                         *)
IntMax == 2147483647
OutOfRange == -1
Digit(c) == Find(Numerals, c) - 1
Shifted(n, digit) ==
    IF n = OutOfRange \/ n > (IntMax - digit) \div 10 THEN OutOfRange ELSE 10 * n + digit
Stoi(digits) ==
    LET value[n \in 0 .. Len(digits)] ==
            IF n = 0 THEN 0 ELSE Shifted(value[n - 1], Digit(digits[n]))
    IN  value[Len(digits)]

(* Mutant: the number is kept in sixteen bits. *)
IsValidPortStringNarrow(s) == s # <<>> /\ All(s, IsDigit) /\ (Stoi(s) % 65536) # 0

MaxPort == 65535
IsValidPortString(s) == s # <<>> /\ All(s, IsDigit) /\ Stoi(s) \in 1 .. MaxPort

IsValidLabel(label) ==
    /\ label # <<>> /\ label[1] # "-" /\ label[Len(label)] # "-"
    /\ All(label, LAMBDA c : IsAlphaNumeric(c) \/ c = "-")

(* Whether each label, from the start and from behind each dot to the next dot
   or the end, is valid: there need be none behind the last dot.           *)
IsValidDnsOrIpv4Host(host) ==
    LET starts == {1} \cup {i + 1 : i \in {j \in DOMAIN host : host[j] = "."}}
        dot(start) == Find(From(host, start), ".")
        end(start) == IF dot(start) = 0 THEN Len(host) ELSE start + dot(start) - 2
    IN  /\ host # <<>>
        /\ \A start \in starts :
              start <= Len(host) => IsValidLabel(SubSeq(host, start, end(start)))

IsValidBracketedIpv6Host(host) ==
    Find(host, ":") # 0 /\ All(host, LAMBDA c : IsHexDigit(c) \/ c \in {":", "."})

IsValidAuthority(s) ==
    LET closing == Find(s, "]")
        colon == FindLast(s, ":")
    IN  /\ s # <<>> /\ Find(s, " ") = 0
        /\ IF s[1] = "["
           THEN /\ closing # 0
                /\ IsValidBracketedIpv6Host(SubSeq(s, 2, closing - 1))
                /\ closing < Len(s) => s[closing + 1] = ":" /\ IsValidPortString(From(s, closing + 2))
           ELSE /\ Find(s, "[") = 0 /\ closing = 0
                /\ IF colon = 0 THEN IsValidDnsOrIpv4Host(s)
                   ELSE /\ Find(s, ":") = colon
                        /\ IsValidPortString(From(s, colon + 1))
                        /\ IsValidDnsOrIpv4Host(SubSeq(s, 1, colon - 1))

-----------------------------------------------------------------------------
(* What the SDK takes for an authority, said without the parsing: a name, or
   something in brackets, and after a colon the number of a port.  Underscores
   in names and zones in addresses are not foreseen, and no more is asked of
   what is in brackets than its characters and a colon.                    *)
IsPort(s) ==
    \E zeros \in 0 .. Len(s) :
        LET digits == From(s, zeros + 1)
        IN  /\ \A i \in 1 .. zeros : s[i] = "0"
            /\ Len(digits) \in 1 .. 5 /\ All(digits, IsDigit) /\ digits[1] # "0"
            /\ Stoi(digits) <= MaxPort

(* Letters, digits, dots and hyphens, with letters or digits on both sides of
   each dot and at both ends; a dot at the end, of the root, is allowed.     *)
IsName(s) ==
    \E n \in 1 .. Len(s) :
        /\ From(s, n + 1) \in {<<>>, <<".">>}
        /\ IsAlphaNumeric(s[1]) /\ IsAlphaNumeric(s[n])
        /\ \A i \in 1 .. n : IsAlphaNumeric(s[i]) \/ s[i] \in {".", "-"}
        /\ \A i \in 2 .. n - 1 : s[i] = "." => IsAlphaNumeric(s[i - 1]) /\ IsAlphaNumeric(s[i + 1])

IsBracketed(s) ==
    /\ Len(s) >= 3 /\ s[1] = "[" /\ s[Len(s)] = "]"
    /\ \A i \in 2 .. Len(s) - 1 : IsHexDigit(s[i]) \/ s[i] \in {":", "."}
    /\ \E i \in DOMAIN s : s[i] = ":"

IsWellFormed(s) ==
    \/ IsName(s) \/ IsBracketed(s)
    \/ \E i \in DOMAIN s :
          /\ s[i] = ":" /\ IsPort(From(s, i + 1))
          /\ IsName(SubSeq(s, 1, i - 1)) \/ IsBracketed(SubSeq(s, 1, i - 1))
=============================================================================
