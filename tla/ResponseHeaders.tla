--------------------------- MODULE ResponseHeaders ---------------------------
(***************************************************************************)
(* The header fields of an answer: libcurl passes ReadHeaders              *)
(* (src/src/curl_http_transport.cpp) every header line of every response   *)
(* of the exchange, interim responses and trailers included, and           *)
(* ToMetadata (src/src/internal.cpp) reads numbers from what was gathered. *)
(*                                                                         *)
(* A field name has a spelling, numbered in the order of std::map among    *)
(* those that differ in case only.  A value is represented by the number   *)
(* it begins with, white space in front skipped and the sign included, if  *)
(* it begins with one, and by whether anything follows.                    *)
(***************************************************************************)
EXTENDS Integers, SequencesExt

CONSTANTS
    Fields,       \* field names, case aside; "" for a line that has none
    Spellings,    \* the ways each of them may be spelled
    Values,       \* field values: records with the fields front and rest
    IntMax,       \* the largest int
    MaxLines      \* bound: field lines of an exchange

ASSUME SpellingsAssumption == Spellings \subseteq Nat
ASSUME ValuesAssumption ==
    /\ IntMax \in Nat
    /\ \A v \in Values : /\ v.front \subseteq Int /\ \A m, n \in v.front : m = n
                        /\ v.rest \in BOOLEAN

VARIABLES
    part,         \* libcurl reads the "interim", the "final" response,
                  \* the "body" or the "trailers", or is "done"
    headers,      \* the map ReadHeaders fills
    received,     \* history: the fields in the order they came
    metadata      \* credits_charged and successful_records

headersVars == <<part, headers, received, metadata>>

-----------------------------------------------------------------------------
Name(field, spelling) == [field |-> field, spelling |-> spelling]
Line(name, value) == [name |-> name, value |-> value]

(* Mutant: a later value replaces the earlier ones. *)
PushOver(map, name, value) ==
    [n \in DOMAIN map \cup {name} |-> IF n = name THEN <<value>> ELSE map[n]]

Held(map, name) == IF name \in DOMAIN map THEN map[name] ELSE <<>>

(* headers[name].push_back(value) *)
PushBack(map, name, value) ==
    [n \in DOMAIN map \cup {name} |->
        IF n = name THEN Append(Held(map, name), value) ELSE map[n]]

None == {}
Int32 == -IntMax - 1 .. IntMax

(* std::stoi reads the number a value begins with, and throws when there is
   none or it is no int; what follows the number is not looked at.         *)
StoI(value) == {n \in value.front : n \in Int32}

(* The first value under the first name, in the order of the map, that matches
   whatever its case decides: a number, or none.                           *)
HeaderInt(field) ==
    LET named == {n \in DOMAIN headers : n.field = field}
    IN  StoI(headers[CHOOSE n \in named : \A m \in named : n.spelling <= m.spelling][1])

(* The places of the wanted names that are there. *)
Present(wanted) == {i \in DOMAIN wanted : \E n \in DOMAIN headers : n.field = wanted[i]}

(* Mutant: the last of the wanted names decides. *)
ParseHeaderIntLast(wanted) ==
    IF Present(wanted) = {} THEN None ELSE HeaderInt(wanted[Max(Present(wanted))])

(* The first of the wanted names that is there at all decides. *)
ParseHeaderInt(wanted) ==
    IF Present(wanted) = {} THEN None ELSE HeaderInt(wanted[Min(Present(wanted))])

ToMetadata ==
    [credits |-> ParseHeaderInt(<<"X-Credits-Charged">>),
     records |-> ParseHeaderInt(<<"X-Successful-Record", "X-Successful-Records">>)]

-----------------------------------------------------------------------------
HeadersInit ==
    /\ part = "interim"
    /\ headers = <<>>
    /\ received = <<>>
    /\ metadata = [credits |-> None, records |-> None]

(* A line without a colon or without a name, such as the status line and the
   empty line that ends a block, is passed over.                           *)
ReadHeaders(name, value) ==
    /\ part \in {"interim", "final", "trailers"}
    /\ Len(received) < MaxLines
    /\ received' = Append(received, Line(name, value))
    /\ headers' = IF name.field = "" THEN headers ELSE PushBack(headers, name, value)
    /\ UNCHANGED <<part, metadata>>

(* The status line of the final response, the end of its fields, and the end
   of its body: what was gathered stays.                                   *)
NextPart ==
    /\ part \in {"interim", "final", "body"}
    /\ part' = [interim |-> "final", final |-> "body", body |-> "trailers"][part]
    /\ UNCHANGED <<headers, received, metadata>>

ReadMetadata ==
    /\ part = "trailers"
    /\ metadata' = ToMetadata
    /\ part' = "done"
    /\ UNCHANGED <<headers, received>>

Done == part = "done" /\ UNCHANGED headersVars

HeadersNext ==
    \/ \E f \in Fields, s \in Spellings, v \in Values : ReadHeaders(Name(f, s), v)
    \/ NextPart
    \/ ReadMetadata
    \/ Done

HeadersSpec == HeadersInit /\ [][HeadersNext]_headersVars

-----------------------------------------------------------------------------
HeadersTypeOK ==
    /\ part \in {"interim", "final", "body", "trailers", "done"}
    /\ DOMAIN headers \subseteq [field : Fields \ {""}, spelling : Spellings]
    /\ \A n \in DOMAIN headers : headers[n] \in Seq(Values) /\ headers[n] # <<>>
    /\ \A m \in DOMAIN metadata : metadata[m] \subseteq Int32

(* The places of the lines with this name. *)
Under(name) == {i \in DOMAIN received : received[i].name = name}

(* The values are those of these lines, each once and in their order. *)
Lists(values, lines) ==
    \E place \in [DOMAIN values -> lines] :
        /\ \A line \in lines : \E i \in DOMAIN values : place[i] = line
        /\ \A i, j \in DOMAIN values : i < j => place[i] < place[j]
        /\ \A i \in DOMAIN values : values[i] = received[place[i]].value

(* "All response headers captured by the SDK": each name has all its values,
   from whichever response of the exchange, in the order they came, however
   the lines of different names were mixed.                                *)
HeadersLossless ==
    \A f \in Fields \ {""}, s \in Spellings :
        LET name == Name(f, s)
        IN  IF Under(name) = {} THEN name \notin DOMAIN headers
            ELSE name \in DOMAIN headers /\ Lists(headers[name], Under(name))

(* The lines of a field, however it is spelled. *)
Lines(field) == {i \in DOMAIN received : received[i].name.field = field}

(* The line that counts: of the spelling that comes first in the map the line
   that came first.                                                        *)
Counts(i, field) ==
    /\ i \in Lines(field)
    /\ \A j \in Lines(field) :
          \/ received[i].name.spelling < received[j].name.spelling
          \/ received[i].name.spelling = received[j].name.spelling /\ i <= j

(* The ints that begin the value of that line: at most one. *)
Stated(field) ==
    IF Lines(field) = {} THEN {}
    ELSE received[CHOOSE i \in Lines(field) : Counts(i, field)].value.front \cap Int32

(* A charge is reported exactly when the line that counts begins with an int,
   and it is that int: neither other fields nor trailers nor later lines of the
   field get in between.  What follows the int, and whether it is negative, is
   not looked at: "1.5" is a charge of 1.  Of the records the plural name counts
   only where the singular one is missing, not where it is unreadable.     *)
MetadataAsStated ==
    part = "done" =>
        /\ metadata.credits = Stated("X-Credits-Charged")
        /\ metadata.records = Stated(IF Lines("X-Successful-Record") # {}
                                     THEN "X-Successful-Record"
                                     ELSE "X-Successful-Records")
=============================================================================
