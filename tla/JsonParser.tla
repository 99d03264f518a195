------------------------------ MODULE JsonParser ------------------------------
(***************************************************************************)
(* The structure of ParseJson (src/src/json.cpp): a recursive descent      *)
(* whose calls of ParseObject and ParseArray that have not returned are a  *)
(* stack, with a limit on their number and one on the elements of a root   *)
(* array.  White space, and how a string or a number is spelled, are left  *)
(* out: the input is a sequence of tokens.                                 *)
(***************************************************************************)
EXTENDS Naturals, SequencesExt

CONSTANTS
    Inputs,        \* sequences of tokens
    Strings,       \* strings: keys, and values too
    Scalars,       \* null, true, false and numbers
    MaxDepth,      \* kMaxJsonNestingDepth: 256
    MaxRootItems   \* max_root_items: what a bulk request asked for

ASSUME LimitsAssumption == MaxDepth \in Nat /\ MaxRootItems \in Nat

(* The characters that give a text its structure; "end" is where it ends. *)
BeginArray == "["
EndArray == "]"
BeginObject == "{"
EndObject == "}"
Comma == ","
Colon == ":"
Marks == {BeginArray, EndArray, BeginObject, EndObject, Comma, Colon, "end"}

(* The first character of a token tells its kind: no token is of two. *)
ASSUME TokensAssumption ==
    /\ Strings \cap Scalars = {} /\ (Strings \cup Scalars) \cap Marks = {}
    /\ Inputs # {} /\ \A s \in Inputs : s \in Seq(Range(s) \ {"end"})

VARIABLES
    input,         \* input_
    index,         \* index_: the tokens consumed
    stack,         \* the containers being parsed, the innermost last
    expect,        \* what the parser wants next
    value,         \* the JsonValue of the whole input
    status         \* "parsing", "parsed" or "SerializationError"

vars == <<input, index, stack, expect, value, status>>

-----------------------------------------------------------------------------
Value(type, token, items, members) ==
    [type |-> type, token |-> token, items |-> items, members |-> members]
Leaf(token) == Value("leaf", token, <<>>, {})
ArrayValue(items) == Value("array", "", items, {})
ObjectValue(members) == Value("object", "", <<>>, members)
NoValue == Leaf("")

(* Mutant: the first of two members with one key stays. *)
InsertOnly(members, key, v) ==
    IF \E m \in members : m[1] = key THEN members ELSE members \cup {<<key, v>>}

(* A member is a key with its value; a later one replaces an earlier one. *)
InsertOrAssign(members, key, v) == {m \in members : m[1] # key} \cup {<<key, v>>}

Frame(type) == [type |-> type, items |-> <<>>, members |-> {}, key |-> ""]
Made(frame) ==
    IF frame.type = "array" THEN ArrayValue(frame.items) ELSE ObjectValue(frame.members)
Received(frame, v) ==
    IF frame.type = "array" THEN [frame EXCEPT !.items = Append(@, v)]
    ELSE [frame EXCEPT !.members = InsertOrAssign(@, frame.key, v)]

Token == IF index < Len(input) THEN input[index + 1] ELSE "end"
Within(type) == stack # <<>> /\ Last(stack).type = type

(* Mutant: the limit is checked when it is passed. *)
RootFullLate == Len(stack) = 1 /\ Within("array") /\ Len(Last(stack).items) > MaxRootItems

(* The next element of the root array would be one too many. *)
RootFull == Len(stack) = 1 /\ Within("array") /\ Len(Last(stack).items) >= MaxRootItems

(* ParseValue may begin here. *)
ValueMayBegin == expect \in {"value", "elementOrEnd"} /\ ~RootFull

MayOpen == ValueMayBegin /\ Token \in {BeginArray, BeginObject} /\ Len(stack) < MaxDepth
MayBeLeaf == ValueMayBegin /\ Token \in Strings \cup Scalars
MayBeKey == expect \in {"key", "keyOrEnd"} /\ Token \in Strings
MayBeColon == expect = "colon" /\ Token = Colon
MayBeComma == expect = "commaOrEnd" /\ Token = Comma
MayClose ==
    \/ Token = EndArray /\ Within("array") /\ expect \in {"elementOrEnd", "commaOrEnd"}
    \/ Token = EndObject /\ Within("object") /\ expect \in {"keyOrEnd", "commaOrEnd"}
MayEnd == expect = "end" /\ Token = "end"

-----------------------------------------------------------------------------
Init ==
    /\ input \in Inputs
    /\ index = 0
    /\ stack = <<>>
    /\ expect = "value"
    /\ value = NoValue
    /\ status = "parsing"

Parsing == status = "parsing"
Consume == index' = index + 1 /\ UNCHANGED <<input, status>>

(* ParseValue returns v to the container around it, or to Parse. *)
Deliver(v, outer) ==
    IF outer = <<>>
    THEN stack' = <<>> /\ value' = v /\ expect' = "end"
    ELSE /\ stack' = Append(Front(outer), Received(Last(outer), v))
         /\ expect' = "commaOrEnd"
         /\ UNCHANGED value

ReadLeaf == Parsing /\ MayBeLeaf /\ Consume /\ Deliver(Leaf(Token), stack)

OpenContainer ==
    /\ Parsing /\ MayOpen /\ Consume
    /\ stack' = Append(stack, Frame(IF Token = BeginArray THEN "array" ELSE "object"))
    /\ expect' = IF Token = BeginArray THEN "elementOrEnd" ELSE "keyOrEnd"
    /\ UNCHANGED value

CloseContainer == Parsing /\ MayClose /\ Consume /\ Deliver(Made(Last(stack)), Front(stack))

ReadKey ==
    /\ Parsing /\ MayBeKey /\ Consume
    /\ stack' = Append(Front(stack), [Last(stack) EXCEPT !.key = Token])
    /\ expect' = "colon"
    /\ UNCHANGED value

ReadColon ==
    /\ Parsing /\ MayBeColon /\ Consume
    /\ expect' = "value"
    /\ UNCHANGED <<stack, value>>

ReadComma ==
    /\ Parsing /\ MayBeComma /\ Consume
    /\ expect' = IF Within("array") THEN "value" ELSE "key"
    /\ UNCHANGED <<stack, value>>

Finish ==
    /\ Parsing /\ MayEnd
    /\ status' = "parsed"
    /\ UNCHANGED <<input, index, stack, expect, value>>

(* Every other token, and an end too early, is refused where it stands. *)
Fail ==
    /\ Parsing
    /\ ~(MayOpen \/ MayBeLeaf \/ MayBeKey \/ MayBeColon \/ MayBeComma \/ MayClose \/ MayEnd)
    /\ status' = "SerializationError"
    /\ UNCHANGED <<input, index, stack, expect, value>>

(* ParseJson has returned or thrown. *)
Done == ~Parsing /\ UNCHANGED vars

Next ==
    \/ ReadLeaf
    \/ OpenContainer
    \/ CloseContainer
    \/ ReadKey
    \/ ReadColon
    \/ ReadComma
    \/ Finish
    \/ Fail
    \/ Done

Spec == Init /\ [][Next]_vars

-----------------------------------------------------------------------------
TypeOK ==
    /\ index \in 0 .. Len(input)
    /\ \A i \in DOMAIN stack : stack[i].type \in {"array", "object"}
    /\ expect \in {"value", "elementOrEnd", "key", "keyOrEnd", "colon",
                   "commaOrEnd", "end"}
    /\ status \in {"parsing", "parsed", "SerializationError"}
    /\ expect = "end" => stack = <<>>

(* What is built at any moment is within the limits, not only at the end: an
   answer without end cannot make the parser recurse or grow first.         *)
LimitsHoldThroughout ==
    /\ Len(stack) <= MaxDepth
    /\ stack # <<>> /\ stack[1].type = "array" => Len(stack[1].items) <= MaxRootItems
=============================================================================
