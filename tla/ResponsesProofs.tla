--------------------------- MODULE ResponsesProofs ---------------------------
(***************************************************************************)
(* What a caller gets out of an answer (Responses), for answers of any     *)
(* length, any content and any nesting: bulk results, typed answers and    *)
(* the messages of errors.                                                 *)
(***************************************************************************)
EXTENDS Responses, SequenceTheorems, TLAPS

IsSequence(s) == s \in Seq(Range(s))

ReadableBulk == Successful /\ reply.typed /\ reply.bulk /\ ~Unreadable

(* A result is one of the two that an object may become. *)
Fits(result, item) ==
    LET object == item.members
    IN  /\ item.type = "object"
        /\ \/ /\ result = Result({ParseResponseObject(object)}, {})
              /\ ~ReadsAsError(object) /\ ~WrappedData(object)
           \/ /\ result.data = {} /\ result.error # {}
              /\ result.error \subseteq {NoMessage} \cup ExtractMessageFromErrorObject(object)
              /\ ReadsAsError(object)

(* So far each item has become such a result; data is that of the root, and an
   ApiError has the message of the answer.                                 *)
IInv ==
    /\ reply \in Replies
    /\ IsSequence(results)
    /\ results # <<>> => ReadableBulk /\ Len(results) <= Len(Root.items)
    /\ \A i \in DOMAIN results : Fits(results[i], Root.items[i])
    /\ outcome.kind = "results" => ReadableBulk /\ Len(results) = Len(Root.items)
    /\ outcome.kind = "data" =>
           Root.type = "object" /\ outcome.data = {ParseResponseObject(Root.members)}
    /\ outcome.kind = "ApiError" => outcome.message = ApiErrorMessage(reply.status, reply.body)

-----------------------------------------------------------------------------
(* A sequence with one more element. *)
LEMMA OneMore ==
    ASSUME NEW s, IsSequence(s), NEW e
    PROVE  /\ IsSequence(Append(s, e))
           /\ Len(s) \in Nat /\ Len(Append(s, e)) = Len(s) + 1
           /\ DOMAIN s = 1 .. Len(s) /\ DOMAIN Append(s, e) = 1 .. Len(s) + 1
           /\ Append(s, e)[Len(s) + 1] = e
           /\ \A i \in 1 .. Len(s) : Append(s, e)[i] = s[i]
<1>1. s \in Seq(Range(s) \cup {e})
  BY DEF IsSequence
<1>2. /\ Append(s, e) \in Seq(Range(s) \cup {e})
      /\ Len(s) \in Nat /\ Len(Append(s, e)) = Len(s) + 1
      /\ DOMAIN s = 1 .. Len(s) /\ DOMAIN Append(s, e) = 1 .. Len(s) + 1
      /\ Append(s, e)[Len(s) + 1] = e
      /\ \A i \in 1 .. Len(s) : Append(s, e)[i] = s[i]
  BY <1>1
<1>3. IsSequence(Append(s, e))
  BY <1>2 DEF IsSequence, Range
<1> QED
  BY <1>2, <1>3

(* A readable bulk answer is a sequence no longer than the request. *)
LEMMA Readable ==
    IInv /\ ReadableBulk => Len(Root.items) \in Nat /\ Len(Root.items) <= Requested
<1> SUFFICES ASSUME IInv, ReadableBulk
             PROVE  Len(Root.items) \in Nat /\ Len(Root.items) <= Requested
  OBVIOUS
<1>1. reply \in Replies /\ reply.body.form = "json" /\ ~(Len(Root.items) > Requested)
  BY DEF IInv, ReadableBulk, Unreadable
<1>2. Root.items \in Seq(Range(Root.items))
  BY <1>1, RepliesAssumption DEF Root
<1>3. Len(Root.items) \in Nat
  BY <1>2
<1> QED
  BY <1>1, <1>3, RequestedAssumption

(* An item that becomes a result it may become. *)
LEMMA Becomes ==
    ASSUME IInv, MoreItems, NEW r, Fits(r, Item), results' = Append(results, r),
           UNCHANGED <<reply, outcome>>
    PROVE  IInv'
<1>1. /\ ReadableBulk /\ outcome = Pending /\ Len(results) < Len(Root.items)
      /\ IsSequence(results)
      /\ Item = Root.items[Len(results) + 1]
  BY DEF MoreItems, ReadingItems, Reading, ReadableBulk, IInv, Item
<1>2. Len(Root.items) \in Nat
  BY <1>1, Readable
<1>3. /\ IsSequence(results') /\ Len(results') = Len(results) + 1 /\ Len(results) \in Nat
      /\ DOMAIN results = 1 .. Len(results) /\ DOMAIN results' = 1 .. Len(results) + 1
      /\ results'[Len(results) + 1] = r
      /\ \A i \in 1 .. Len(results) : results'[i] = results[i]
  BY <1>1, OneMore
<1>4. Root' = Root /\ ReadableBulk'
  BY <1>1 DEF Root, ReadableBulk, Successful, Unreadable
<1>5. \A i \in DOMAIN results' : Fits(results'[i], Root'.items[i])
  <2> SUFFICES ASSUME NEW i \in DOMAIN results' PROVE Fits(results'[i], Root.items[i])
    BY <1>4
  <2>1. CASE i = Len(results) + 1
    BY <1>1, <1>3, <2>1
  <2>2. CASE i # Len(results) + 1
    <3>1. i \in DOMAIN results /\ results'[i] = results[i]
      BY <1>3, <2>2
    <3> QED
      BY <3>1 DEF IInv
  <2> QED
    BY <2>1, <2>2
<1>6. outcome'.kind = "pending"
  BY <1>1 DEF Pending, Outcome
<1>7. Len(results') <= Len(Root.items)
  BY <1>1, <1>2, <1>3
<1> QED
  BY <1>3, <1>4, <1>5, <1>6, <1>7 DEF IInv

(* No result has been read. *)
LEMMA InitIInv == Init => IInv
<1>1. IsSequence(<<>>) /\ DOMAIN <<>> = {}
  BY DEF IsSequence, Range
<1>2. Pending.kind = "pending"
  BY DEF Pending, Outcome
<1> QED
  BY <1>1, <1>2 DEF Init, IInv

(* Every step keeps results and items together. *)
LEMMA Step == IInv /\ [Next]_vars => IInv'
<1> SUFFICES ASSUME IInv, [Next]_vars PROVE IInv'
  OBVIOUS
<1>1. ASSUME UNCHANGED <<reply, results>>,
             outcome'.kind = "results" => ReadableBulk /\ Len(results) = Len(Root.items),
             outcome'.kind = "data" =>
                 Root.type = "object" /\ outcome'.data = {ParseResponseObject(Root.members)},
             outcome'.kind = "ApiError" =>
                 outcome'.message = ApiErrorMessage(reply.status, reply.body)
      PROVE  IInv'
  <2>1. Root' = Root /\ (ReadableBulk' <=> ReadableBulk)
    BY <1>1 DEF Root, ReadableBulk, Successful, Unreadable
  <2> QED
    BY <1>1, <2>1 DEF IInv
<1>2. CASE ThrowApiError
  BY <1>1, <1>2 DEF ThrowApiError, Outcome
<1>3. CASE ReturnRaw
  BY <1>1, <1>3 DEF ReturnRaw, Outcome
<1>4. CASE RefuseBody \/ RefuseItem
  <2>1. outcome' = SerializationError /\ UNCHANGED <<reply, results>>
    BY <1>4 DEF RefuseBody, RefuseItem
  <2>2. SerializationError.kind = "SerializationError"
    BY DEF SerializationError, Outcome
  <2> QED
    BY <1>1, <2>1, <2>2
<1>5. CASE ReturnSingle
  <2>1. Root.type = "object"
    BY <1>5 DEF ReturnSingle, Unreadable
  <2>2. /\ UNCHANGED <<reply, results>> /\ outcome'.kind = "data"
        /\ outcome'.data = {ParseResponseObject(Root.members)}
    BY <1>5 DEF ReturnSingle, Outcome
  <2> QED
    BY <1>1, <2>1, <2>2
<1>6. CASE ReturnBulk
  <2>1. ReadableBulk /\ ~(Len(results) < Len(Root.items))
    BY <1>6 DEF ReturnBulk, MoreItems, ReadingItems, ReadableBulk
  <2>2. Len(Root.items) \in Nat /\ Len(results) \in Nat
    BY <2>1, Readable, OneMore DEF IInv
  <2>3. results = <<>> => Len(results) = 0
    OBVIOUS
  <2>4. Len(results) = Len(Root.items)
    BY <2>1, <2>2, <2>3 DEF IInv
  <2>5. UNCHANGED <<reply, results>> /\ outcome'.kind = "results"
    BY <1>6 DEF ReturnBulk, Outcome
  <2> QED
    BY <1>1, <2>1, <2>4, <2>5
<1>7. CASE ReadErrorItem
  <2> DEFINE texts == ExtractMessageFromErrorObject(Item.members)
             r == Result({}, IF texts = {} THEN {NoMessage} ELSE texts)
  <2>1. /\ MoreItems /\ ReadsAsError(Item.members) /\ results' = Append(results, r)
        /\ UNCHANGED <<reply, outcome>>
    BY <1>7 DEF ReadErrorItem
  <2>2. r.data = {} /\ r.error = IF texts = {} THEN {NoMessage} ELSE texts
    BY DEF Result
  <2>3. Fits(r, Item)
    BY <1>7, <2>1, <2>2 DEF Fits, ReadErrorItem
  <2> QED
    BY <2>1, <2>3, Becomes
<1>8. CASE ReadDataItem
  <2> DEFINE r == Result({ParseResponseObject(Item.members)}, {})
  <2>1. /\ MoreItems /\ Fits(r, Item) /\ results' = Append(results, r)
        /\ UNCHANGED <<reply, outcome>>
    BY <1>8 DEF ReadDataItem, Fits
  <2> QED
    BY <2>1, Becomes
<1>9. CASE Done \/ UNCHANGED vars
  BY <1>1, <1>9 DEF Done, vars, IInv
<1> QED
  BY <1>2, <1>3, <1>4, <1>5, <1>6, <1>7, <1>8, <1>9 DEF Next

(* The strengthened invariant: each item so far has become a result about it. *)
THEOREM ResultsInvariance == Spec => []IInv
  BY InitIInv, Step, PTL DEF Spec

(* No result is dropped, merged, shifted or made up. *)
THEOREM ByPosition == Spec => []ResultsMatchByPosition
<1>1. IInv => ResultsMatchByPosition
  <2> SUFFICES ASSUME IInv PROVE ResultsMatchByPosition
    OBVIOUS
  <2>1. Len(results) <= Requested
    <3>1. results = <<>> => Len(results) = 0
      OBVIOUS
    <3>2. Len(results) \in Nat
      BY OneMore DEF IInv
    <3> QED
      BY <3>1, <3>2, Readable, RequestedAssumption DEF IInv
  <2>2. ASSUME NEW i \in DOMAIN results
        PROVE  IF IsSuccess(results[i])
               THEN results[i].data = {ParseResponseObject(Root.items[i].members)}
               ELSE results[i].error \subseteq
                        {NoMessage} \cup ExtractMessageFromErrorObject(Root.items[i].members)
    <3>1. Fits(results[i], Root.items[i])
      BY DEF IInv
    <3> QED
      BY <3>1 DEF Fits, IsSuccess, Result
  <2> QED
    BY <2>1, <2>2 DEF IInv, ResultsMatchByPosition
<1> QED
  BY ResultsInvariance, <1>1, PTL

(* What an object without the three members says is nothing. *)
LEMMA Silent ==
    ASSUME NEW object, DOMAIN object \cap {"message", "error", "detail"} = {}
    PROVE  ExtractMessageFromErrorObject(object) = {}
<1>1. ASSUME NEW name, name \notin DOMAIN object PROVE GetMember(object, <<name>>) = {}
  BY <1>1 DEF GetMember
<1>2. \A name \in {"message", "error", "detail"} : GetMember(object, <<name>>) = {}
  BY <1>1
<1>3. ReadScalar("string", GetMember(object, <<"message">>)) = {}
  BY <1>2 DEF ReadScalar
<1>4. ReadNested(object, "error") = {} /\ ReadNested(object, "detail") = {}
  BY <1>2 DEF ReadNested, ObjectAt, ReadObject
<1> QED
  BY <1>3, <1>4 DEF ExtractMessageFromErrorObject

-----------------------------------------------------------------------------
(* Two functions in one. *)
LEMMA Both ==
    ASSUME NEW f, NEW g
    PROVE  /\ DOMAIN Joined(f, g) = DOMAIN f \cup DOMAIN g
           /\ \A x \in DOMAIN f : Joined(f, g)[x] = f[x]
           /\ \A x \in DOMAIN g : x \notin DOMAIN f => Joined(f, g)[x] = g[x]
  BY DEF Joined

(* The member of a name, if there is one. *)
Member(object, name) == IF name \in DOMAIN object THEN {object[name]} ELSE {}

LEMMA OneName ==
    ASSUME NEW object, NEW name
    PROVE  GetMember(object, <<name>>) = Member(object, name)
<1>1. DOMAIN <<name>> = {1} /\ <<name>>[1] = name
  OBVIOUS
<1> QED
  BY <1>1 DEF GetMember, Member

LEMMA TwoNames ==
    ASSUME NEW object, NEW a, NEW b
    PROVE  GetMember(object, <<a, b>>) =
               IF a \in DOMAIN object THEN Member(object, a) ELSE Member(object, b)
<1>1. PICK names : names = <<a, b>>
  OBVIOUS
<1>2. DOMAIN names = {1, 2} /\ names[1] = a /\ names[2] = b
  BY <1>1
<1> DEFINE there == {i \in DOMAIN names : names[i] \in DOMAIN object}
           first == {j \in there : \A k \in there : j <= k}
<1>3. GetMember(object, names) = {object[names[i]] : i \in first}
  BY DEF GetMember
<1>4. CASE a \in DOMAIN object
  <2>1. 1 \in there /\ \A k \in there : 1 <= k
    BY <1>2, <1>4
  <2>2. first = {1}
    BY <1>2, <2>1
  <2> QED
    BY <1>1, <1>2, <1>3, <1>4, <2>2 DEF Member
<1>5. CASE a \notin DOMAIN object /\ b \in DOMAIN object
  <2>1. first = {2}
    BY <1>2, <1>5
  <2> QED
    BY <1>1, <1>2, <1>3, <1>5, <2>1 DEF Member
<1>6. CASE a \notin DOMAIN object /\ b \notin DOMAIN object
  <2>1. first = {}
    BY <1>2, <1>6
  <2> QED
    BY <1>1, <1>2, <1>3, <1>6, <2>1 DEF Member
<1> QED
  BY <1>4, <1>5, <1>6

(* What is read is the content of what was found. *)
LEMMA ReadsContent ==
    ASSUME NEW type, NEW found
    PROVE  Read(type, found) = UNION {Content(type, v) : v \in found}
<1>1. CASE type = "strings"
  <2>1. \A v : Content(type, v) =
             IF v.type = "array"
             THEN {[i \in DOMAIN s |-> s[i].text] :
                       s \in {SelectSeq(v.items, LAMBDA x : x.type = "string")}}
             ELSE {}
    BY <1>1 DEF Content
  <2> QED
    BY <1>1, <2>1 DEF Read, ReadStringArray
<1>2. CASE type # "strings"
  <2>1. \A v : Content(type, v) = IF type = v.type THEN {v.text} ELSE {}
    BY <1>2 DEF Content
  <2> QED
    BY <1>2, <2>1 DEF Read, ReadScalar
<1> QED
  BY <1>1, <1>2

(* What stands at a path of up to three names is found name by name. *)
JsonNameByName(value, path, k) ==
    \E found :
        /\ JsonAt(value, path) = found[k] /\ found[0] = {value}
        /\ \A n \in 1 .. k : found[n] = Named(found[n - 1], path[n])

LEMMA JsonSteps ==
    ASSUME NEW value, NEW path, NEW k \in {0, 1, 2, 3}, Len(path) = k
    PROVE  JsonNameByName(value, path, k)
<1> DEFINE Follows(found) ==
               found = [n \in 0 .. Len(path) |->
                           IF n = 0 THEN {value} ELSE Named(found[n - 1], path[n])]
           one == Named({value}, path[1])
           two == Named(one, path[2])
           f == [n \in 0 .. k |->
                    CASE n = 0 -> {value} [] n = 1 -> one [] n = 2 -> two
                      [] OTHER -> Named(two, path[3])]
           found == CHOOSE g : Follows(g)
<1>1. JsonAt(value, path) = found[Len(path)]
  BY DEF JsonAt
<1>2. k \in Nat /\ \A n \in 0 .. k : n = 0 \/ n = 1 \/ n = 2 \/ n = 3
  OBVIOUS
<1>3. Follows(f)
  <2>1. Len(path) = k
    OBVIOUS
  <2>2. \A n \in 0 .. k : n # 0 => n - 1 \in 0 .. k
    BY <1>2
  <2>3. \A n \in 0 .. k : f[n] = IF n = 0 THEN {value} ELSE Named(f[n - 1], path[n])
    BY <1>2, <2>2
  <2> QED
    BY <2>1, <2>3
<1> HIDE DEF f
<1>4. Follows(found)
  BY <1>3
<1> HIDE DEF found
<1>5. found[0] = {value}
  BY <1>2, <1>4
<1>6. ASSUME NEW n \in 1 .. k PROVE found[n] = Named(found[n - 1], path[n])
  <2>1. n \in 0 .. Len(path) /\ n # 0
    BY <1>2
  <2> QED
    BY <1>4, <2>1
<1> QED
  BY <1>1, <1>5, <1>6 DEF JsonNameByName

LEMMA JsonTop ==
    ASSUME NEW value
    PROVE  JsonAt(value, <<>>) = {value}
<1>1. PICK path : path = <<>>
  OBVIOUS
<1>2. Len(path) = 0
  BY <1>1
<1>3. JsonNameByName(value, path, 0)
  BY <1>2, JsonSteps
<1>4. PICK found :
             /\ JsonAt(value, path) = found[0] /\ found[0] = {value}
             /\ \A n \in 1 .. 0 : found[n] = Named(found[n - 1], path[n])
  BY <1>3 DEF JsonNameByName
<1> QED
  BY <1>1, <1>2, <1>4

LEMMA JsonOne ==
    ASSUME NEW value, NEW a
    PROVE  JsonAt(value, <<a>>) = Named({value}, a)
<1>1. PICK path : path = <<a>>
  OBVIOUS
<1>2. Len(path) = 1 /\ path[1] = a
  BY <1>1
<1>3. JsonNameByName(value, path, 1)
  BY <1>2, JsonSteps
<1>4. PICK found :
             /\ JsonAt(value, path) = found[1] /\ found[0] = {value}
             /\ \A n \in 1 .. 1 : found[n] = Named(found[n - 1], path[n])
  BY <1>3 DEF JsonNameByName
<1>5. found[1] = Named(found[0], path[1])
  BY <1>4
<1> QED
  BY <1>1, <1>2, <1>4, <1>5

LEMMA JsonTwo ==
    ASSUME NEW value, NEW a, NEW b
    PROVE  JsonAt(value, <<a, b>>) = Named(JsonAt(value, <<a>>), b)
<1>1. PICK path : path = <<a, b>>
  OBVIOUS
<1>2. Len(path) = 2 /\ path[1] = a /\ path[2] = b
  BY <1>1
<1>3. JsonNameByName(value, path, 2)
  BY <1>2, JsonSteps
<1>4. PICK found :
             /\ JsonAt(value, path) = found[2] /\ found[0] = {value}
             /\ \A n \in 1 .. 2 : found[n] = Named(found[n - 1], path[n])
  BY <1>3 DEF JsonNameByName
<1>5. /\ found[1] = Named(found[0], path[1])
      /\ found[2] = Named(found[1], path[2])
  BY <1>4
<1>6. JsonAt(value, <<a>>) = Named({value}, a)
  BY JsonOne
<1> QED
  BY <1>1, <1>2, <1>4, <1>5, <1>6

LEMMA JsonThree ==
    ASSUME NEW value, NEW a, NEW b, NEW c
    PROVE  JsonAt(value, <<a, b, c>>) = Named(JsonAt(value, <<a, b>>), c)
<1>1. PICK path : path = <<a, b, c>>
  OBVIOUS
<1>2. Len(path) = 3 /\ path[1] = a /\ path[2] = b /\ path[3] = c
  BY <1>1
<1>3. JsonNameByName(value, path, 3)
  BY <1>2, JsonSteps
<1>4. PICK found :
             /\ JsonAt(value, path) = found[3] /\ found[0] = {value}
             /\ \A n \in 1 .. 3 : found[n] = Named(found[n - 1], path[n])
  BY <1>3 DEF JsonNameByName
<1>5. /\ found[1] = Named(found[0], path[1])
      /\ found[2] = Named(found[1], path[2])
      /\ found[3] = Named(found[2], path[3])
  BY <1>4
<1>6. JsonAt(value, <<a>>) = Named({value}, a)
  BY JsonOne
<1>7. JsonAt(value, <<a, b>>) = Named(Named({value}, a), b)
  BY <1>6, JsonTwo
<1> QED
  BY <1>1, <1>2, <1>4, <1>5, <1>7

(* So is what the typed form holds there. *)
TypedNameByName(model, path, k) ==
    \E found :
        /\ TypedAt(model, path) = found[k] /\ found[0] = {model}
        /\ \A n \in 1 .. k : found[n] = FieldOf(found[n - 1], path[n])

LEMMA TypedSteps ==
    ASSUME NEW model, NEW path, NEW k \in {0, 1, 2, 3}, Len(path) = k
    PROVE  TypedNameByName(model, path, k)
<1> DEFINE Follows(found) ==
               found = [n \in 0 .. Len(path) |->
                           IF n = 0 THEN {model} ELSE FieldOf(found[n - 1], path[n])]
           one == FieldOf({model}, path[1])
           two == FieldOf(one, path[2])
           f == [n \in 0 .. k |->
                    CASE n = 0 -> {model} [] n = 1 -> one [] n = 2 -> two
                      [] OTHER -> FieldOf(two, path[3])]
           found == CHOOSE g : Follows(g)
<1>1. TypedAt(model, path) = found[Len(path)]
  BY DEF TypedAt
<1>2. k \in Nat /\ \A n \in 0 .. k : n = 0 \/ n = 1 \/ n = 2 \/ n = 3
  OBVIOUS
<1>3. Follows(f)
  <2>1. Len(path) = k
    OBVIOUS
  <2>2. \A n \in 0 .. k : n # 0 => n - 1 \in 0 .. k
    BY <1>2
  <2>3. \A n \in 0 .. k : f[n] = IF n = 0 THEN {model} ELSE FieldOf(f[n - 1], path[n])
    BY <1>2, <2>2
  <2> QED
    BY <2>1, <2>3
<1> HIDE DEF f
<1>4. Follows(found)
  BY <1>3
<1> HIDE DEF found
<1>5. found[0] = {model}
  BY <1>2, <1>4
<1>6. ASSUME NEW n \in 1 .. k PROVE found[n] = FieldOf(found[n - 1], path[n])
  <2>1. n \in 0 .. Len(path) /\ n # 0
    BY <1>2
  <2> QED
    BY <1>4, <2>1
<1> QED
  BY <1>1, <1>5, <1>6 DEF TypedNameByName

LEMMA TypedTop ==
    ASSUME NEW model
    PROVE  TypedAt(model, <<>>) = {model}
<1>1. PICK path : path = <<>>
  OBVIOUS
<1>2. Len(path) = 0
  BY <1>1
<1>3. TypedNameByName(model, path, 0)
  BY <1>2, TypedSteps
<1>4. PICK found :
             /\ TypedAt(model, path) = found[0] /\ found[0] = {model}
             /\ \A n \in 1 .. 0 : found[n] = FieldOf(found[n - 1], path[n])
  BY <1>3 DEF TypedNameByName
<1> QED
  BY <1>1, <1>2, <1>4

LEMMA TypedOne ==
    ASSUME NEW model, NEW a
    PROVE  TypedAt(model, <<a>>) = FieldOf({model}, a)
<1>1. PICK path : path = <<a>>
  OBVIOUS
<1>2. Len(path) = 1 /\ path[1] = a
  BY <1>1
<1>3. TypedNameByName(model, path, 1)
  BY <1>2, TypedSteps
<1>4. PICK found :
             /\ TypedAt(model, path) = found[1] /\ found[0] = {model}
             /\ \A n \in 1 .. 1 : found[n] = FieldOf(found[n - 1], path[n])
  BY <1>3 DEF TypedNameByName
<1>5. found[1] = FieldOf(found[0], path[1])
  BY <1>4
<1> QED
  BY <1>1, <1>2, <1>4, <1>5

LEMMA TypedTwo ==
    ASSUME NEW model, NEW a, NEW b
    PROVE  TypedAt(model, <<a, b>>) = FieldOf(TypedAt(model, <<a>>), b)
<1>1. PICK path : path = <<a, b>>
  OBVIOUS
<1>2. Len(path) = 2 /\ path[1] = a /\ path[2] = b
  BY <1>1
<1>3. TypedNameByName(model, path, 2)
  BY <1>2, TypedSteps
<1>4. PICK found :
             /\ TypedAt(model, path) = found[2] /\ found[0] = {model}
             /\ \A n \in 1 .. 2 : found[n] = FieldOf(found[n - 1], path[n])
  BY <1>3 DEF TypedNameByName
<1>5. /\ found[1] = FieldOf(found[0], path[1])
      /\ found[2] = FieldOf(found[1], path[2])
  BY <1>4
<1>6. TypedAt(model, <<a>>) = FieldOf({model}, a)
  BY TypedOne
<1> QED
  BY <1>1, <1>2, <1>4, <1>5, <1>6

LEMMA TypedThree ==
    ASSUME NEW model, NEW a, NEW b, NEW c
    PROVE  TypedAt(model, <<a, b, c>>) = FieldOf(TypedAt(model, <<a, b>>), c)
<1>1. PICK path : path = <<a, b, c>>
  OBVIOUS
<1>2. Len(path) = 3 /\ path[1] = a /\ path[2] = b /\ path[3] = c
  BY <1>1
<1>3. TypedNameByName(model, path, 3)
  BY <1>2, TypedSteps
<1>4. PICK found :
             /\ TypedAt(model, path) = found[3] /\ found[0] = {model}
             /\ \A n \in 1 .. 3 : found[n] = FieldOf(found[n - 1], path[n])
  BY <1>3 DEF TypedNameByName
<1>5. /\ found[1] = FieldOf(found[0], path[1])
      /\ found[2] = FieldOf(found[1], path[2])
      /\ found[3] = FieldOf(found[2], path[3])
  BY <1>4
<1>6. TypedAt(model, <<a>>) = FieldOf({model}, a)
  BY TypedOne
<1>7. TypedAt(model, <<a, b>>) = FieldOf(FieldOf({model}, a), b)
  BY <1>6, TypedTwo
<1> QED
  BY <1>1, <1>2, <1>4, <1>5, <1>7

(* The models that a parser makes of objects. *)
Models(parse, objects) == {parse[o] : o \in objects}

(* The models are those of the objects found. *)
Represents(models, found, model) ==
    /\ models = {} <=> \A v \in found : v.type # "object"
    /\ \A f \in DOMAIN model :
           FieldOf(models, f) = UNION {Content(model[f], v) : v \in Named(found, f)}

(* The members of the objects found. *)
LEMMA NamedMembers ==
    ASSUME NEW found, NEW name
    PROVE  Named(found, name) = UNION {Member(o, name) : o \in ReadObject(found)}
  BY DEF Named, Member, ReadObject

LEMMA Represented ==
    ASSUME NEW found, NEW model, NEW parse,
           \A o \in ReadObject(found) : \A f \in DOMAIN model :
               parse[o][f] = Read(model[f], GetMember(o, <<f>>))
    PROVE  Represents(Models(parse, ReadObject(found)), found, model)
<1> DEFINE models == Models(parse, ReadObject(found))
<1>1. models = {} <=> \A v \in found : v.type # "object"
  BY DEF ReadObject, Models
<1>2. ASSUME NEW f \in DOMAIN model
      PROVE  FieldOf(models, f) = UNION {Content(model[f], v) : v \in Named(found, f)}
  <2>1. \A o \in ReadObject(found) :
            parse[o][f] = UNION {Content(model[f], v) : v \in Member(o, f)}
    BY <1>2, OneName, ReadsContent
  <2>2. FieldOf(models, f) = UNION {parse[o][f] : o \in ReadObject(found)}
    BY DEF FieldOf, Models
  <2> QED
    BY <2>1, <2>2, NamedMembers
<1> QED
  BY <1>1, <1>2 DEF Represents

(* The models within models are those of the objects within the objects found. *)
LEMMA Within ==
    ASSUME NEW found, NEW name, NEW outer, NEW inner,
           \A o \in ReadObject(found) :
               outer[o][name] = Models(inner, ObjectAt(o, name))
    PROVE  FieldOf(Models(outer, ReadObject(found)), name)
               = Models(inner, ReadObject(Named(found, name)))
<1>1. \A o : ObjectAt(o, name) = ReadObject(Member(o, name))
  BY OneName DEF ObjectAt
<1>2. ReadObject(Named(found, name)) = UNION {ObjectAt(o, name) : o \in ReadObject(found)}
  BY <1>1, NamedMembers DEF ReadObject
<1>3. FieldOf(Models(outer, ReadObject(found)), name)
          = UNION {outer[o][name] : o \in ReadObject(found)}
  BY DEF FieldOf, Models
<1> QED
  BY <1>2, <1>3 DEF Models

(* What is at a place of the typed form is what the place of the value holds. *)
Agrees(response, value, path, type) ==
    LET named == JsonAt(value, path)
        found == IF named = {} THEN JsonAt(value, OtherPath(path)) ELSE named
    IN  TypedAt(response, path) = UNION {Content(type, v) : v \in found}

AgreesWithin(response, value, path, model) ==
    /\ TypedAt(response, path) = {} <=> \A v \in JsonAt(value, path) : v.type # "object"
    /\ \A f \in DOMAIN model : Agrees(response, value, Append(path, f), model[f])

LEMMA FormOf ==
    ASSUME NEW response, NEW value,
           \A p \in ModelPlaces : AgreesWithin(response, value, p.path, p.model)
    PROVE  IsTypedFormOf(response, value)
<1>1. \A place \in Places : \E p \in ModelPlaces : \E f \in DOMAIN p.model :
          place = [path |-> Append(p.path, f), type |-> p.model[f]]
  BY DEF Places
<1>2. ASSUME NEW place \in Places
      PROVE  Agrees(response, value, place.path, place.type)
  <2>1. PICK p \in ModelPlaces : \E f \in DOMAIN p.model :
            place = [path |-> Append(p.path, f), type |-> p.model[f]]
    BY <1>1
  <2>2. PICK f \in DOMAIN p.model : place = [path |-> Append(p.path, f), type |-> p.model[f]]
    BY <2>1
  <2>3. place.path = Append(p.path, f) /\ place.type = p.model[f]
    BY <2>2
  <2>4. Agrees(response, value, Append(p.path, f), p.model[f])
    BY Zenon DEF AgreesWithin
  <2> QED
    BY <2>3, <2>4
<1> QED
  BY <1>2 DEF IsTypedFormOf, Agrees, AgreesWithin

(* One name more. *)
LEMMA Longer ==
    ASSUME NEW S, NEW s \in Seq(S), NEW t \in Seq(S), NEW e \in S, Len(t) = Len(s) + 1,
           \A i \in 1 .. Len(s) : t[i] = s[i], t[Len(s) + 1] = e
    PROVE  Append(s, e) = t
<1>1. /\ Append(s, e) \in Seq(S) /\ Len(Append(s, e)) = Len(s) + 1 /\ Len(s) \in Nat
      /\ \A i \in 1 .. Len(s) : Append(s, e)[i] = s[i]
      /\ Append(s, e)[Len(s) + 1] = e
  OBVIOUS
<1>2. \A i \in 1 .. Len(Append(s, e)) : Append(s, e)[i] = t[i]
  BY <1>1
<1> QED
  BY <1>1, <1>2, SeqEqual

LEMMA Appended ==
    ASSUME NEW a, NEW b, NEW f
    PROVE  /\ Append(<<>>, f) = <<f>> /\ Append(<<a>>, f) = <<a, f>>
           /\ Append(<<a, b>>, f) = <<a, b, f>>
<1>1. Append(<<>>, f) = <<f>>
  OBVIOUS
<1>2. Append(<<a>>, f) = <<a, f>>
  <2>1. PICK s : s = <<a>>
    OBVIOUS
  <2>2. PICK t : t = <<a, f>>
    OBVIOUS
  <2> PICK S : S = {a, f}
    OBVIOUS
  <2> f \in S
    OBVIOUS
  <2>3. s \in Seq(S) /\ Len(s) = 1 /\ s[1] = a
    BY <2>1
  <2>4. t \in Seq(S) /\ Len(t) = 2 /\ t[1] = a /\ t[2] = f
    BY <2>2
  <2>5. Len(t) = Len(s) + 1 /\ t[Len(s) + 1] = f /\ \A i \in 1 .. Len(s) : t[i] = s[i]
    BY <2>3, <2>4
  <2>6. Append(s, f) = t
    BY <2>3, <2>4, <2>5, Longer
  <2> QED
    BY <2>1, <2>2, <2>6
<1>3. Append(<<a, b>>, f) = <<a, b, f>>
  <2>1. PICK s : s = <<a, b>>
    OBVIOUS
  <2>2. PICK t : t = <<a, b, f>>
    OBVIOUS
  <2> PICK S : S = {a, b, f}
    OBVIOUS
  <2> f \in S
    OBVIOUS
  <2>3. s \in Seq(S) /\ Len(s) = 2 /\ s[1] = a /\ s[2] = b
    BY <2>1
  <2>4. t \in Seq(S) /\ Len(t) = 3 /\ t[1] = a /\ t[2] = b /\ t[3] = f
    BY <2>2
  <2>5. Len(t) = Len(s) + 1 /\ t[Len(s) + 1] = f /\ \A i \in 1 .. Len(s) : t[i] = s[i]
    BY <2>3, <2>4
  <2>6. Append(s, f) = t
    BY <2>3, <2>4, <2>5, Longer
  <2> QED
    BY <2>1, <2>2, <2>6
<1> QED
  BY <1>1, <1>2, <1>3

(* Only the fields of a time zone have another name. *)
LEMMA NoOtherPath ==
    ASSUME NEW a, NEW b, NEW f
    PROVE  /\ OtherPath(<<f>>) = <<f>> /\ OtherPath(<<a, b, f>>) = <<a, b, f>>
           /\ a # "time_zone" => OtherPath(<<a, f>>) = <<a, f>>
<1>1. Len(<<f>>) # 2 /\ Len(<<a, b, f>>) # 2 /\ <<a, f>>[1] = a
  OBVIOUS
<1> QED
  BY <1>1 DEF OtherPath

LEMMA AgreesAs ==
    ASSUME NEW response, NEW value, NEW path, NEW model,
           Represents(TypedAt(response, path), JsonAt(value, path), model),
           \A f \in DOMAIN model :
               /\ JsonAt(value, Append(path, f)) = Named(JsonAt(value, path), f)
               /\ TypedAt(response, Append(path, f)) = FieldOf(TypedAt(response, path), f)
               /\ OtherPath(Append(path, f)) = Append(path, f)
    PROVE  AgreesWithin(response, value, path, model)
  BY DEF AgreesWithin, Agrees, Represents

LEMMA AgreesAtTop ==
    ASSUME NEW response, NEW value, NEW model,
           Represents(TypedAt(response, <<>>), JsonAt(value, <<>>), model)
    PROVE  AgreesWithin(response, value, <<>>, model)
<1>1. PICK path : path = <<>>
  OBVIOUS
<1>2. ASSUME NEW f
      PROVE  /\ JsonAt(value, Append(path, f)) = Named(JsonAt(value, path), f)
             /\ TypedAt(response, Append(path, f)) = FieldOf(TypedAt(response, path), f)
             /\ OtherPath(Append(path, f)) = Append(path, f)
  <2>1. Append(path, f) = <<f>>
    BY <1>1, Appended
  <2>2. JsonAt(value, <<>>) = {value}
    BY JsonTop
  <2>3. TypedAt(response, <<>>) = {response}
    BY TypedTop
  <2>4. JsonAt(value, <<f>>) = Named({value}, f)
    BY JsonOne
  <2>5. TypedAt(response, <<f>>) = FieldOf({response}, f)
    BY TypedOne
  <2>6. OtherPath(<<f>>) = <<f>>
    BY NoOtherPath
  <2> QED
    BY <1>1, <2>1, <2>2, <2>3, <2>4, <2>5, <2>6
<1>3. AgreesWithin(response, value, path, model)
  BY <1>1, <1>2, AgreesAs
<1> QED
  BY <1>1, <1>3

LEMMA AgreesBelow ==
    ASSUME NEW response, NEW value, NEW model, NEW a, a # "time_zone",
           Represents(TypedAt(response, <<a>>), JsonAt(value, <<a>>), model)
    PROVE  AgreesWithin(response, value, <<a>>, model)
<1>1. PICK path : path = <<a>>
  OBVIOUS
<1>2. ASSUME NEW f
      PROVE  /\ JsonAt(value, Append(path, f)) = Named(JsonAt(value, path), f)
             /\ TypedAt(response, Append(path, f)) = FieldOf(TypedAt(response, path), f)
             /\ OtherPath(Append(path, f)) = Append(path, f)
  <2>1. Append(path, f) = <<a, f>>
    BY <1>1, Appended
  <2>2. JsonAt(value, <<a, f>>) = Named(JsonAt(value, <<a>>), f)
    BY JsonTwo
  <2>3. TypedAt(response, <<a, f>>) = FieldOf(TypedAt(response, <<a>>), f)
    BY TypedTwo
  <2>4. OtherPath(<<a, f>>) = <<a, f>>
    BY NoOtherPath
  <2> QED
    BY <1>1, <2>1, <2>2, <2>3, <2>4
<1>3. AgreesWithin(response, value, path, model)
  BY <1>1, <1>2, AgreesAs
<1> QED
  BY <1>1, <1>3

LEMMA AgreesDeepest ==
    ASSUME NEW response, NEW value, NEW model, NEW a, NEW b,
           Represents(TypedAt(response, <<a, b>>), JsonAt(value, <<a, b>>), model)
    PROVE  AgreesWithin(response, value, <<a, b>>, model)
<1>1. PICK path : path = <<a, b>>
  OBVIOUS
<1>2. ASSUME NEW f
      PROVE  /\ JsonAt(value, Append(path, f)) = Named(JsonAt(value, path), f)
             /\ TypedAt(response, Append(path, f)) = FieldOf(TypedAt(response, path), f)
             /\ OtherPath(Append(path, f)) = Append(path, f)
  <2>1. Append(path, f) = <<a, b, f>>
    BY <1>1, Appended
  <2>2. JsonAt(value, <<a, b, f>>) = Named(JsonAt(value, <<a, b>>), f)
    BY JsonThree
  <2>3. TypedAt(response, <<a, b, f>>) = FieldOf(TypedAt(response, <<a, b>>), f)
    BY TypedThree
  <2>4. OtherPath(<<a, b, f>>) = <<a, b, f>>
    BY NoOtherPath
  <2> QED
    BY <1>1, <2>1, <2>2, <2>3, <2>4
<1>3. AgreesWithin(response, value, path, model)
  BY <1>1, <1>2, AgreesAs
<1> QED
  BY <1>1, <1>3

(* The models at a name, and at a name within it. *)
LEMMA ModelsBelow ==
    ASSUME NEW response, NEW value, value.type = "object", NEW a, NEW inner,
           response[a] = Models(inner, ObjectAt(value.members, a))
    PROVE  TypedAt(response, <<a>>) = Models(inner, ReadObject(JsonAt(value, <<a>>)))
<1>1. ReadObject({value}) = {value.members}
  BY DEF ReadObject
<1> DEFINE outer == [o \in {value.members} |-> response]
<1>2. outer[value.members] = response
  OBVIOUS
<1> HIDE DEF outer
<1>3. Models(outer, ReadObject({value})) = {response}
  BY <1>1, <1>2 DEF Models
<1>4. \A o \in ReadObject({value}) : outer[o][a] = Models(inner, ObjectAt(o, a))
  BY <1>1, <1>2
<1>5. FieldOf(Models(outer, ReadObject({value})), a)
          = Models(inner, ReadObject(Named({value}, a)))
  <2>1. PICK found : found = {value}
    OBVIOUS
  <2>2. \A o \in ReadObject(found) : outer[o][a] = Models(inner, ObjectAt(o, a))
    BY <1>4, <2>1
  <2>3. FieldOf(Models(outer, ReadObject(found)), a) = Models(inner, ReadObject(Named(found, a)))
    BY <2>2, Within
  <2> QED
    BY <2>1, <2>3
<1> QED
  BY <1>3, <1>5, JsonOne, TypedOne

LEMMA ModelsDeepest ==
    ASSUME NEW response, NEW value, NEW a, NEW b, NEW outer, NEW inner,
           TypedAt(response, <<a>>) = Models(outer, ReadObject(JsonAt(value, <<a>>))),
           \A o \in ReadObject(JsonAt(value, <<a>>)) :
               outer[o][b] = Models(inner, ObjectAt(o, b))
    PROVE  TypedAt(response, <<a, b>>) = Models(inner, ReadObject(JsonAt(value, <<a, b>>)))
<1>1. FieldOf(Models(outer, ReadObject(JsonAt(value, <<a>>))), b)
          = Models(inner, ReadObject(Named(JsonAt(value, <<a>>), b)))
  BY Within
<1>2. Named(JsonAt(value, <<a>>), b) = JsonAt(value, <<a, b>>)
  BY JsonTwo
<1>3. FieldOf(TypedAt(response, <<a>>), b) = TypedAt(response, <<a, b>>)
  BY TypedTwo
<1> QED
  BY <1>1, <1>2, <1>3

(* The objects at a name of an object. *)
LEMMA ObjectsBelow ==
    ASSUME NEW value, value.type = "object", NEW a
    PROVE  /\ JsonAt(value, <<a>>) = Member(value.members, a)
           /\ ReadObject(JsonAt(value, <<a>>)) = ObjectAt(value.members, a)
<1>1. Named({value}, a) = Member(value.members, a)
  BY DEF Named, Member
<1>2. JsonAt(value, <<a>>) = Member(value.members, a)
  BY <1>1, JsonOne
<1> QED
  BY <1>2, OneName DEF ObjectAt

LEMMA ReadBelow ==
    ASSUME NEW response, NEW value, value.type = "object", NEW a, a # "time_zone", NEW model,
           NEW inner, response[a] = Models(inner, ObjectAt(value.members, a)),
           \A x \in ObjectAt(value.members, a) : \A f \in DOMAIN model :
               inner[x][f] = Read(model[f], GetMember(x, <<f>>))
    PROVE  AgreesWithin(response, value, <<a>>, model)
<1>1. PICK found : found = JsonAt(value, <<a>>)
  OBVIOUS
<1>2. \A x \in ReadObject(found) : \A f \in DOMAIN model :
          inner[x][f] = Read(model[f], GetMember(x, <<f>>))
  BY <1>1, ObjectsBelow
<1>3. Represents(Models(inner, ReadObject(found)), found, model)
  BY <1>2, Represented
<1>4. TypedAt(response, <<a>>) = Models(inner, ReadObject(found))
  BY <1>1, ModelsBelow
<1> QED
  BY <1>1, <1>3, <1>4, AgreesBelow

LEMMA ReadDeepest ==
    ASSUME NEW response, NEW value, NEW a, NEW b, NEW outer, NEW inner, NEW model,
           TypedAt(response, <<a>>) = Models(outer, ReadObject(JsonAt(value, <<a>>))),
           \A o \in ReadObject(JsonAt(value, <<a>>)) :
               outer[o][b] = Models(inner, ObjectAt(o, b)),
           \A x \in ReadObject(JsonAt(value, <<a, b>>)) : \A f \in DOMAIN model :
               inner[x][f] = Read(model[f], GetMember(x, <<f>>))
    PROVE  AgreesWithin(response, value, <<a, b>>, model)
<1>1. TypedAt(response, <<a, b>>) = Models(inner, ReadObject(JsonAt(value, <<a, b>>)))
  BY ModelsDeepest
<1>2. PICK found : found = JsonAt(value, <<a, b>>)
  OBVIOUS
<1>3. Represents(Models(inner, ReadObject(found)), found, model)
  BY <1>2, Represented
<1> QED
  BY <1>1, <1>2, <1>3, AgreesDeepest

LEMMA ReadModels ==
    ASSUME NEW response, NEW value, NEW a, NEW b, NEW outer, NEW model,
           TypedAt(response, <<a>>) = Models(outer, ReadObject(JsonAt(value, <<a>>))),
           \A x \in ReadObject(JsonAt(value, <<a>>)) :
               outer[x][b] = {ParseModel(model, o) : o \in ObjectAt(x, b)}
    PROVE  AgreesWithin(response, value, <<a, b>>, model)
<1>1. PICK within : within = UNION {ObjectAt(x, b) : x \in ReadObject(JsonAt(value, <<a>>))}
  OBVIOUS
<1> DEFINE inner == [o \in within |-> ParseModel(model, o)]
<1>2. \A x \in ReadObject(JsonAt(value, <<a>>)) :
          outer[x][b] = Models(inner, ObjectAt(x, b))
  <2> SUFFICES ASSUME NEW x \in ReadObject(JsonAt(value, <<a>>))
               PROVE  outer[x][b] = Models(inner, ObjectAt(x, b))
    OBVIOUS
  <2>1. ObjectAt(x, b) \subseteq within
    BY <1>1
  <2>2. \A o \in ObjectAt(x, b) : inner[o] = ParseModel(model, o)
    BY <2>1
  <2> HIDE DEF inner
  <2>3. Models(inner, ObjectAt(x, b)) = {ParseModel(model, o) : o \in ObjectAt(x, b)}
    BY <2>2 DEF Models
  <2> QED
    BY <2>3
<1>3. within = ReadObject(JsonAt(value, <<a, b>>))
  <2>1. JsonAt(value, <<a, b>>) = Named(JsonAt(value, <<a>>), b)
    BY JsonTwo
  <2>2. \A o : ObjectAt(o, b) = ReadObject(Member(o, b))
    BY OneName DEF ObjectAt
  <2>3. Named(JsonAt(value, <<a>>), b)
            = UNION {Member(o, b) : o \in ReadObject(JsonAt(value, <<a>>))}
    BY NamedMembers
  <2>4. PICK objects : objects = ReadObject(JsonAt(value, <<a>>))
    OBVIOUS
  <2>5. ReadObject(UNION {Member(o, b) : o \in objects})
            = UNION {ReadObject(Member(o, b)) : o \in objects}
    BY DEF ReadObject
  <2>6. within = UNION {ReadObject(Member(o, b)) : o \in objects}
    BY <1>1, <2>2, <2>4
  <2> QED
    BY <2>1, <2>3, <2>4, <2>5, <2>6
<1>4. \A x \in ReadObject(JsonAt(value, <<a, b>>)) : \A f \in DOMAIN model :
          inner[x][f] = Read(model[f], GetMember(x, <<f>>))
  BY <1>3 DEF ParseModel
<1> HIDE DEF inner
<1> QED
  BY <1>2, <1>4, ReadDeepest

(* In a time zone the newer of two names decides. *)
LEMMA ReadTimeZone ==
    ASSUME NEW response, NEW value, value.type = "object", NEW inner,
           response["time_zone"] = Models(inner, ObjectAt(value.members, "time_zone")),
           \A x \in ObjectAt(value.members, "time_zone") : \A f \in DOMAIN TimeZoneInfo :
               inner[x][f] = Read(TimeZoneInfo[f], GetMember(x, Names(f)))
    PROVE  AgreesWithin(response, value, <<"time_zone">>, TimeZoneInfo)
<1>1. PICK zone : zone = "time_zone"
  OBVIOUS
<1>2. TypedAt(response, <<zone>>) = Models(inner, ReadObject(JsonAt(value, <<zone>>)))
  BY <1>1, ModelsBelow
<1>3. /\ JsonAt(value, <<zone>>) = Member(value.members, zone)
      /\ ReadObject(JsonAt(value, <<zone>>)) = ObjectAt(value.members, zone)
  BY ObjectsBelow
<1>4. TypedAt(response, <<zone>>) = {} <=> \A v \in JsonAt(value, <<zone>>) : v.type # "object"
  BY <1>2 DEF Models, ReadObject
<1>5. ASSUME NEW f \in DOMAIN TimeZoneInfo
      PROVE  Agrees(response, value, Append(<<zone>>, f), TimeZoneInfo[f])
  <2>1. PICK type : type = TimeZoneInfo[f]
    OBVIOUS
  <2> DEFINE second == IF f \in DOMAIN SecondNames THEN SecondNames[f] ELSE f
             named == JsonAt(value, <<zone, f>>)
             other == JsonAt(value, <<zone, second>>)
  <2>2. Append(<<zone>>, f) = <<zone, f>>
    BY Appended
  <2>3. OtherPath(<<zone, f>>) = <<zone, second>>
    <3>1. PICK path : path = <<zone, f>>
      OBVIOUS
    <3>2. Len(path) = 2 /\ path[1] = zone /\ path[2] = f
      BY <3>1
    <3> QED
      BY <1>1, <3>1, <3>2 DEF OtherPath
  <2>4. named = Named(JsonAt(value, <<zone>>), f)
    BY JsonTwo
  <2>5. other = Named(JsonAt(value, <<zone>>), second)
    BY JsonTwo
  <2>6. TypedAt(response, <<zone, f>>) = FieldOf(TypedAt(response, <<zone>>), f)
    BY TypedTwo
  <2> HIDE DEF second, named, other
  <2>7. TypedAt(response, <<zone, f>>)
            = UNION {Content(type, v) : v \in IF named = {} THEN other ELSE named}
    <3>1. CASE \A v \in JsonAt(value, <<zone>>) : v.type # "object"
      <4>1. TypedAt(response, <<zone, f>>) = {}
        BY <1>4, <2>6, <3>1 DEF FieldOf
      <4>2. named = {} /\ other = {}
        BY <2>4, <2>5, <3>1 DEF Named
      <4> QED
        BY <4>1, <4>2
    <3>2. ASSUME NEW v \in JsonAt(value, <<zone>>), v.type = "object"
          PROVE  TypedAt(response, <<zone, f>>)
                     = UNION {Content(type, w) : w \in IF named = {} THEN other ELSE named}
      <4>1. JsonAt(value, <<zone>>) = {v}
        BY <1>3, <3>2 DEF Member
      <4>2. ReadObject(JsonAt(value, <<zone>>)) = {v.members}
        BY <3>2, <4>1 DEF ReadObject
      <4>3. PICK o : o = v.members
        OBVIOUS
      <4>4. named = Member(o, f) /\ other = Member(o, second)
        BY <2>4, <2>5, <3>2, <4>1, <4>3 DEF Named, Member
      <4>5. TypedAt(response, <<zone, f>>) = inner[o][f]
        <5>1. Models(inner, {o}) = {inner[o]} /\ FieldOf({inner[o]}, f) = inner[o][f]
          BY DEF Models, FieldOf
        <5> QED
          BY <1>2, <2>6, <4>2, <4>3, <5>1
      <4>6. inner[o][f] = Read(type, GetMember(o, Names(f)))
        BY <1>1, <1>3, <2>1, <4>2, <4>3
      <4>7. GetMember(o, Names(f)) = IF named = {} THEN other ELSE named
        <5>1. CASE f \in DOMAIN SecondNames
          <6>1. Names(f) = <<f, second>>
            BY <5>1 DEF Names, second
          <6>2. GetMember(o, <<f, second>>)
                    = IF f \in DOMAIN o THEN Member(o, f) ELSE Member(o, second)
            BY TwoNames
          <6> QED
            BY <4>4, <6>1, <6>2 DEF Member
        <5>2. CASE f \notin DOMAIN SecondNames
          <6>1. Names(f) = <<f>> /\ second = f
            BY <5>2 DEF Names, second
          <6>2. GetMember(o, <<f>>) = Member(o, f)
            BY OneName
          <6> QED
            BY <4>4, <6>1, <6>2
        <5> QED
          BY <5>1, <5>2
      <4>8. Read(type, GetMember(o, Names(f)))
                = UNION {Content(type, w) : w \in GetMember(o, Names(f))}
        BY ReadsContent
      <4> QED
        BY <4>5, <4>6, <4>7, <4>8
    <3> QED
      BY <3>1, <3>2
  <2>8. Agrees(response, value, <<zone, f>>, type)
    BY <2>3, <2>7 DEF Agrees, named, other
  <2> QED
    BY <2>1, <2>2, <2>8
<1>6. AgreesWithin(response, value, <<zone>>, TimeZoneInfo)
  BY <1>4, <1>5 DEF AgreesWithin
<1> QED
  BY <1>1, <1>6

-----------------------------------------------------------------------------
(* The parts of a typed answer. *)
LEMMA Parts ==
    ASSUME NEW object
    PROVE  LET response == ParseResponseObject(object)
           IN  /\ \A f \in DOMAIN IpGeolocationResponse :
                      response[f] = Read(IpGeolocationResponse[f], GetMember(object, <<f>>))
               /\ \A m \in DOMAIN PlainModels :
                      response[m] =
                          {ParseModel(PlainModels[m], o) : o \in ObjectAt(object, m)}
               /\ response["time_zone"] =
                      {ParseTimeZoneInfo(o) : o \in ObjectAt(object, "time_zone")}
               /\ response["security"] = {ParseSecurity(o) : o \in ObjectAt(object, "security")}
               /\ response["user_agent"] =
                      {ParseUserAgent(o) : o \in ObjectAt(object, "user_agent")}
               /\ response["abuse"] = {ParseAbuse(o) : o \in ObjectAt(object, "abuse")}
<1> DEFINE own == ParseModel(IpGeolocationResponse, object)
           plain == [m \in DOMAIN PlainModels |->
                        {ParseModel(PlainModels[m], o) : o \in ObjectAt(object, m)}]
           others == [time_zone |-> {ParseTimeZoneInfo(o) : o \in ObjectAt(object, "time_zone")},
                      security |-> {ParseSecurity(o) : o \in ObjectAt(object, "security")},
                      user_agent |-> {ParseUserAgent(o) : o \in ObjectAt(object, "user_agent")},
                      abuse |-> {ParseAbuse(o) : o \in ObjectAt(object, "abuse")}]
           response == ParseResponseObject(object)
<1>1. response = Joined(own, Joined(plain, others))
  BY DEF ParseResponseObject
<1>2. DOMAIN own = {"ip", "hostname", "domain"} /\ DOMAIN IpGeolocationResponse = DOMAIN own
  BY DEF ParseModel, IpGeolocationResponse, Model
<1>3. DOMAIN plain = {"location", "country_metadata", "currency", "network", "asn", "company"}
  BY DEF PlainModels
<1>4. /\ \A f \in DOMAIN IpGeolocationResponse :
             own[f] = Read(IpGeolocationResponse[f], GetMember(object, <<f>>))
      /\ DOMAIN others = {"time_zone", "security", "user_agent", "abuse"}
      /\ \A m \in DOMAIN PlainModels :
             plain[m] = {ParseModel(PlainModels[m], o) : o \in ObjectAt(object, m)}
      /\ DOMAIN plain = DOMAIN PlainModels
      /\ others["time_zone"] = {ParseTimeZoneInfo(o) : o \in ObjectAt(object, "time_zone")}
      /\ others["security"] = {ParseSecurity(o) : o \in ObjectAt(object, "security")}
      /\ others["user_agent"] = {ParseUserAgent(o) : o \in ObjectAt(object, "user_agent")}
      /\ others["abuse"] = {ParseAbuse(o) : o \in ObjectAt(object, "abuse")}
  BY DEF ParseModel
<1> HIDE DEF own, plain, others, response
<1>5. /\ DOMAIN Joined(plain, others) = DOMAIN plain \cup DOMAIN others
      /\ \A x \in DOMAIN plain : Joined(plain, others)[x] = plain[x]
      /\ \A x \in DOMAIN others : x \notin DOMAIN plain => Joined(plain, others)[x] = others[x]
  BY Both
<1>6. /\ \A x \in DOMAIN own : response[x] = own[x]
      /\ \A x \in DOMAIN Joined(plain, others) :
             x \notin DOMAIN own => response[x] = Joined(plain, others)[x]
  <2>1. PICK rest : rest = Joined(plain, others)
    OBVIOUS
  <2>2. /\ \A x \in DOMAIN own : Joined(own, rest)[x] = own[x]
        /\ \A x \in DOMAIN rest : x \notin DOMAIN own => Joined(own, rest)[x] = rest[x]
    BY Both
  <2> QED
    BY <1>1, <2>1, <2>2
<1>7. \A x \in DOMAIN plain : response[x] = plain[x]
  BY <1>2, <1>3, <1>5, <1>6
<1>8. \A x \in DOMAIN others : response[x] = others[x]
  BY <1>2, <1>3, <1>4, <1>5, <1>6
<1>9. \A f \in DOMAIN IpGeolocationResponse :
          response[f] = Read(IpGeolocationResponse[f], GetMember(object, <<f>>))
  BY <1>2, <1>4, <1>6
<1>10. \A m \in DOMAIN PlainModels :
           response[m] = {ParseModel(PlainModels[m], o) : o \in ObjectAt(object, m)}
  BY <1>4, <1>7
<1>11. /\ response["time_zone"] = others["time_zone"]
       /\ response["security"] = others["security"]
       /\ response["user_agent"] = others["user_agent"]
       /\ response["abuse"] = others["abuse"]
  BY <1>4, <1>8
<1> QED
  BY <1>4, <1>9, <1>10, <1>11 DEF response

LEMMA TimeZoneParts ==
    ASSUME NEW object
    PROVE  /\ \A f \in DOMAIN TimeZoneInfo :
                  ParseTimeZoneInfo(object)[f]
                      = Read(TimeZoneInfo[f], GetMember(object, Names(f)))
           /\ \A d \in {"dst_start", "dst_end"} :
                  ParseTimeZoneInfo(object)[d]
                      = {ParseModel(DstTransition, o) : o \in ObjectAt(object, d)}
<1> DEFINE own == [f \in DOMAIN TimeZoneInfo |->
                      Read(TimeZoneInfo[f], GetMember(object, Names(f)))]
           dst == [f \in {"dst_start", "dst_end"} |->
                      {ParseModel(DstTransition, o) : o \in ObjectAt(object, f)}]
<1>1. ParseTimeZoneInfo(object) = Joined(own, dst)
  BY Zenon DEF ParseTimeZoneInfo, ParseDstTransition
<1>2. "dst_start" \notin DOMAIN TimeZoneInfo /\ "dst_end" \notin DOMAIN TimeZoneInfo
  BY DEF TimeZoneInfo, Model
<1>3. DOMAIN own = DOMAIN TimeZoneInfo /\ DOMAIN dst = {"dst_start", "dst_end"}
  OBVIOUS
<1>4. /\ \A f \in DOMAIN TimeZoneInfo :
             own[f] = Read(TimeZoneInfo[f], GetMember(object, Names(f)))
      /\ \A d \in {"dst_start", "dst_end"} :
             dst[d] = {ParseModel(DstTransition, o) : o \in ObjectAt(object, d)}
  OBVIOUS
<1> HIDE DEF own, dst
<1>5. /\ \A f \in DOMAIN own : Joined(own, dst)[f] = own[f]
      /\ \A d \in DOMAIN dst : d \notin DOMAIN own => Joined(own, dst)[d] = dst[d]
  BY Both
<1> QED
  BY <1>1, <1>2, <1>3, <1>4, <1>5

LEMMA UserAgentPartsRead ==
    ASSUME NEW object
    PROVE  /\ \A f \in DOMAIN UserAgent :
                  ParseUserAgent(object)[f] = Read(UserAgent[f], GetMember(object, <<f>>))
           /\ \A p \in DOMAIN UserAgentParts :
                  ParseUserAgent(object)[p]
                      = {ParseModel(UserAgentParts[p], o) : o \in ObjectAt(object, p)}
<1> DEFINE own == ParseModel(UserAgent, object)
           parts == [p \in DOMAIN UserAgentParts |->
                        {ParseModel(UserAgentParts[p], o) : o \in ObjectAt(object, p)}]
<1>1. ParseUserAgent(object) = Joined(own, parts)
  BY Zenon DEF ParseUserAgent, ParseUserAgentPart
<1>2. \A p \in DOMAIN UserAgentParts : p \notin DOMAIN UserAgent
  BY DEF UserAgent, UserAgentParts, Model
<1>3. /\ DOMAIN own = DOMAIN UserAgent /\ DOMAIN parts = DOMAIN UserAgentParts
      /\ \A f \in DOMAIN UserAgent : own[f] = Read(UserAgent[f], GetMember(object, <<f>>))
  BY DEF ParseModel
<1>4. \A p \in DOMAIN UserAgentParts :
          parts[p] = {ParseModel(UserAgentParts[p], o) : o \in ObjectAt(object, p)}
  OBVIOUS
<1> HIDE DEF own, parts
<1>5. /\ \A f \in DOMAIN own : Joined(own, parts)[f] = own[f]
      /\ \A p \in DOMAIN parts : p \notin DOMAIN own => Joined(own, parts)[p] = parts[p]
  BY Both
<1> QED
  BY <1>1, <1>2, <1>3, <1>4, <1>5

(* An object is read as what it holds. *)
LEMMA TypedForm ==
    ASSUME NEW value, value.type = "object"
    PROVE  IsTypedFormOf(ParseResponseObject(value.members), value)
<1>1. PICK object : object = value.members
  OBVIOUS
<1>2. PICK response : response = ParseResponseObject(object)
  OBVIOUS
<1>3. AgreesWithin(response, value, <<>>, IpGeolocationResponse)
  <2>1. PICK found : found = {value}
    OBVIOUS
  <2>2. ReadObject(found) = {object}
    BY <1>1, <2>1 DEF ReadObject
  <2> DEFINE parse == [o \in {object} |-> response]
  <2>3. parse[object] = response
    OBVIOUS
  <2> HIDE DEF parse
  <2>4. \A f \in DOMAIN IpGeolocationResponse :
            response[f] = Read(IpGeolocationResponse[f], GetMember(object, <<f>>))
    BY <1>2, Parts
  <2>5. Represents(Models(parse, ReadObject(found)), found, IpGeolocationResponse)
    BY <2>2, <2>3, <2>4, Represented
  <2>6. Models(parse, ReadObject(found)) = {response}
    BY <2>2, <2>3 DEF Models
  <2>7. TypedAt(response, <<>>) = {response} /\ JsonAt(value, <<>>) = found
    BY <2>1, JsonTop, TypedTop
  <2> QED
    BY <2>5, <2>6, <2>7, AgreesAtTop
<1>4. ASSUME NEW a, a # "time_zone", NEW model,
             response[a] = {ParseModel(model, o) : o \in ObjectAt(object, a)}
      PROVE  AgreesWithin(response, value, <<a>>, model)
  <2> DEFINE inner == [o \in ObjectAt(object, a) |-> ParseModel(model, o)]
  <2>1. response[a] = Models(inner, ObjectAt(value.members, a))
    BY <1>1, <1>4 DEF Models
  <2>2. \A x \in ObjectAt(value.members, a) : \A f \in DOMAIN model :
            inner[x][f] = Read(model[f], GetMember(x, <<f>>))
    BY <1>1 DEF ParseModel
  <2> HIDE DEF inner
  <2> QED
    BY <1>4, <2>1, <2>2, ReadBelow
<1>5. \A m \in DOMAIN PlainModels : AgreesWithin(response, value, <<m>>, PlainModels[m])
  <2> SUFFICES ASSUME NEW m \in DOMAIN PlainModels
               PROVE  AgreesWithin(response, value, <<m>>, PlainModels[m])
    OBVIOUS
  <2>1. m # "time_zone"
    BY DEF PlainModels
  <2>2. response[m] = {ParseModel(PlainModels[m], o) : o \in ObjectAt(object, m)}
    BY <1>2, Parts
  <2> QED
    BY <1>4, <2>1, <2>2
<1>6. /\ AgreesWithin(response, value, <<"security">>, Security)
      /\ AgreesWithin(response, value, <<"abuse">>, Abuse)
  <2>1. /\ response["security"] = {ParseModel(Security, o) : o \in ObjectAt(object, "security")}
        /\ response["abuse"] = {ParseModel(Abuse, o) : o \in ObjectAt(object, "abuse")}
    BY <1>2, Parts, Zenon DEF ParseSecurity, ParseAbuse
  <2> QED
    BY <1>4, <2>1
<1>7. /\ AgreesWithin(response, value, <<"user_agent">>, UserAgent)
      /\ \A u \in DOMAIN UserAgentParts :
             AgreesWithin(response, value, <<"user_agent", u>>, UserAgentParts[u])
  <2>1. PICK agent : agent = "user_agent"
    OBVIOUS
  <2>2. PICK objects : objects = ObjectAt(object, agent)
    OBVIOUS
  <2> DEFINE outer == [o \in objects |-> ParseUserAgent(o)]
  <2>3. response[agent] = {ParseUserAgent(o) : o \in objects}
    BY <1>2, <2>1, <2>2, Parts
  <2>4. response[agent] = Models(outer, objects)
    BY <2>3 DEF Models
  <2>5. \A x \in objects : \A f \in DOMAIN UserAgent :
            outer[x][f] = Read(UserAgent[f], GetMember(x, <<f>>))
    BY UserAgentPartsRead
  <2>6. \A x \in objects : \A p \in DOMAIN UserAgentParts :
            outer[x][p] = {ParseModel(UserAgentParts[p], o) : o \in ObjectAt(x, p)}
    BY UserAgentPartsRead
  <2> HIDE DEF outer
  <2>7. AgreesWithin(response, value, <<agent>>, UserAgent)
    BY <1>1, <2>1, <2>2, <2>4, <2>5, ReadBelow
  <2>8. ReadObject(JsonAt(value, <<agent>>)) = objects
    BY <1>1, <2>2, ObjectsBelow
  <2>9. TypedAt(response, <<agent>>) = Models(outer, objects)
    BY <1>1, <2>2, <2>4, <2>8, ModelsBelow
  <2>10. ASSUME NEW u \in DOMAIN UserAgentParts
         PROVE  AgreesWithin(response, value, <<agent, u>>, UserAgentParts[u])
    <3>1. PICK model : model = UserAgentParts[u]
      OBVIOUS
    <3>2. \A x \in objects :
              outer[x][u] = {ParseModel(model, o) : o \in ObjectAt(x, u)}
      BY <2>6, <3>1
    <3> QED
      BY <2>8, <2>9, <3>1, <3>2, ReadModels
  <2> QED
    BY <2>1, <2>7, <2>10
<1>8. /\ AgreesWithin(response, value, <<"time_zone">>, TimeZoneInfo)
      /\ \A d \in {"dst_start", "dst_end"} :
             AgreesWithin(response, value, <<"time_zone", d>>, DstTransition)
  <2>1. PICK zone : zone = "time_zone"
    OBVIOUS
  <2>2. PICK objects : objects = ObjectAt(object, zone)
    OBVIOUS
  <2> DEFINE outer == [o \in objects |-> ParseTimeZoneInfo(o)]
  <2>3. response[zone] = {ParseTimeZoneInfo(o) : o \in objects}
    BY <1>2, <2>1, <2>2, Parts
  <2>4. response[zone] = Models(outer, objects)
    BY <2>3 DEF Models
  <2>5. \A x \in objects : \A f \in DOMAIN TimeZoneInfo :
            outer[x][f] = Read(TimeZoneInfo[f], GetMember(x, Names(f)))
    BY TimeZoneParts
  <2>6. \A x \in objects : \A d \in {"dst_start", "dst_end"} :
            outer[x][d] = {ParseModel(DstTransition, o) : o \in ObjectAt(x, d)}
    BY TimeZoneParts
  <2> HIDE DEF outer
  <2>7. AgreesWithin(response, value, <<zone>>, TimeZoneInfo)
    BY <1>1, <2>1, <2>2, <2>4, <2>5, ReadTimeZone
  <2>8. ReadObject(JsonAt(value, <<zone>>)) = objects
    BY <1>1, <2>2, ObjectsBelow
  <2>9. TypedAt(response, <<zone>>) = Models(outer, objects)
    BY <1>1, <2>2, <2>4, <2>8, ModelsBelow
  <2>10. ASSUME NEW d \in {"dst_start", "dst_end"}
         PROVE  AgreesWithin(response, value, <<zone, d>>, DstTransition)
    BY <2>6, <2>8, <2>9, ReadModels
  <2> QED
    BY <2>1, <2>7, <2>10
<1>9. ASSUME NEW p \in ModelPlaces PROVE AgreesWithin(response, value, p.path, p.model)
  <2>1. CASE p = ModelPlace(<<>>, IpGeolocationResponse)
    BY <1>3, <2>1 DEF ModelPlace
  <2>2. CASE p = ModelPlace(<<"time_zone">>, TimeZoneInfo)
    BY <1>8, <2>2 DEF ModelPlace
  <2>3. CASE p = ModelPlace(<<"security">>, Security)
    BY <1>6, <2>3 DEF ModelPlace
  <2>4. CASE p = ModelPlace(<<"abuse">>, Abuse)
    BY <1>6, <2>4 DEF ModelPlace
  <2>5. CASE p = ModelPlace(<<"user_agent">>, UserAgent)
    BY <1>7, <2>5 DEF ModelPlace
  <2>6. CASE \E m \in DOMAIN PlainModels : p = ModelPlace(<<m>>, PlainModels[m])
    BY <1>5, <2>6 DEF ModelPlace
  <2>7. CASE \E d \in {"dst_start", "dst_end"} :
                 p = ModelPlace(<<"time_zone", d>>, DstTransition)
    BY <1>8, <2>7 DEF ModelPlace
  <2>8. CASE \E u \in DOMAIN UserAgentParts :
                 p = ModelPlace(<<"user_agent", u>>, UserAgentParts[u])
    BY <1>7, <2>8 DEF ModelPlace
  <2> QED
    BY <2>1, <2>2, <2>3, <2>4, <2>5, <2>6, <2>7, <2>8, Zenon DEF ModelPlaces
<1> QED
  BY <1>1, <1>2, <1>9, FormOf

(* Each field of a typed answer is what the answer holds at its place, whatever
   the members, their types and their nesting.                             *)
THEOREM Typed == Spec => []TypedAsAnswered
<1>1. IInv => TypedAsAnswered
  <2> SUFFICES ASSUME IInv PROVE TypedAsAnswered
    OBVIOUS
  <2>1. outcome.kind = "data" => \A model \in outcome.data : IsTypedFormOf(model, Root)
    <3> SUFFICES ASSUME outcome.kind = "data", NEW model \in outcome.data
                 PROVE  IsTypedFormOf(model, Root)
      OBVIOUS
    <3>1. Root.type = "object" /\ model = ParseResponseObject(Root.members)
      BY DEF IInv
    <3> QED
      BY <3>1, TypedForm
  <2>2. ASSUME NEW i \in DOMAIN results, NEW model \in results[i].data
        PROVE  IsTypedFormOf(model, Root.items[i])
    <3>1. Fits(results[i], Root.items[i])
      BY DEF IInv
    <3>2. /\ Root.items[i].type = "object"
          /\ model = ParseResponseObject(Root.items[i].members)
      BY <2>2, <3>1 DEF Fits, Result
    <3> QED
      BY <3>2, TypedForm
  <2> QED
    BY <2>1, <2>2 DEF TypedAsAnswered
<1> QED
  BY ResultsInvariance, <1>1, PTL

-----------------------------------------------------------------------------
(* What the root says for itself. *)
OwnWords ==
    IF reply.body.form # "json" THEN {}
    ELSE CASE Root.type = "string" -> {Root.text}
           [] Root.type = "object" -> ExtractMessageFromErrorObject(Root.members)
           [] OTHER -> {}

(* The smallest of a set of numbers. *)
LEMMA Smallest ==
    ASSUME NEW S, NEW k \in S, \A j \in S : j \in Nat /\ k <= j
    PROVE  Min(S) = k
<1>1. Min(S) \in S /\ \A j \in S : Min(S) <= j
  BY DEF Min
<1>2. Min(S) \in Nat /\ k \in Nat /\ k <= Min(S) /\ Min(S) <= k
  BY <1>1
<1> QED
  BY <1>2

(* A member that is an object says what its message says. *)
LEMMA SaidWithin ==
    ASSUME NEW root, root.type = "object", NEW name
    PROVE  /\ SaidAt(root, <<name>>) = ReadScalar("string", GetMember(root.members, <<name>>))
           /\ SaidAt(root, <<name, "message">>) = ReadNested(root.members, name)
<1>1. JsonAt(root, <<name>>) = Member(root.members, name)
  BY ObjectsBelow
<1>2. ReadScalar("string", GetMember(root.members, <<name>>)) = SaidAt(root, <<name>>)
  <2>1. Read("string", GetMember(root.members, <<name>>))
            = UNION {Content("string", v) : v \in GetMember(root.members, <<name>>)}
    BY ReadsContent
  <2>2. Read("string", GetMember(root.members, <<name>>))
            = ReadScalar("string", GetMember(root.members, <<name>>))
    BY DEF Read
  <2>3. GetMember(root.members, <<name>>) = JsonAt(root, <<name>>)
    BY <1>1, OneName
  <2> QED
    BY <2>1, <2>2, <2>3 DEF SaidAt
<1>3. SaidAt(root, <<name, "message">>) = ReadNested(root.members, name)
  <2>1. PICK word : word = "message"
    OBVIOUS
  <2>2. JsonAt(root, <<name, word>>) = Named(JsonAt(root, <<name>>), word)
    BY JsonTwo
  <2>3. PICK objects : objects = ReadObject(JsonAt(root, <<name>>))
    OBVIOUS
  <2>4. ObjectAt(root.members, name) = objects
    BY <1>1, <2>3, OneName DEF ObjectAt
  <2>5. JsonAt(root, <<name, word>>) = UNION {Member(o, word) : o \in objects}
    BY <2>2, <2>3, NamedMembers
  <2>6. \A o : ReadScalar("string", GetMember(o, <<word>>))
                   = UNION {Content("string", v) : v \in Member(o, word)}
    <3> SUFFICES ASSUME NEW o
                 PROVE  ReadScalar("string", GetMember(o, <<word>>))
                            = UNION {Content("string", v) : v \in Member(o, word)}
      OBVIOUS
    <3>1. Read("string", GetMember(o, <<word>>))
              = UNION {Content("string", v) : v \in GetMember(o, <<word>>)}
      BY ReadsContent
    <3>2. Read("string", GetMember(o, <<word>>))
              = ReadScalar("string", GetMember(o, <<word>>))
      BY DEF Read
    <3>3. GetMember(o, <<word>>) = Member(o, word)
      BY OneName
    <3> QED
      BY <3>1, <3>2, <3>3
  <2>7. ReadNested(root.members, name)
            = UNION {UNION {Content("string", v) : v \in Member(o, word)} : o \in objects}
    <3>1. ReadNested(root.members, name)
              = UNION {ReadScalar("string", GetMember(o, <<word>>)) : o \in objects}
      BY <2>1, <2>4 DEF ReadNested
    <3> QED
      BY <2>6, <3>1
  <2>8. UNION {Content("string", v) : v \in UNION {Member(o, word) : o \in objects}}
            = UNION {UNION {Content("string", v) : v \in Member(o, word)} : o \in objects}
    OBVIOUS
  <2> QED
    BY <2>1, <2>5, <2>7, <2>8 DEF SaidAt
<1> QED
  BY <1>2, <1>3

(* At most one word is said at each place. *)
LEMMA OneWord ==
    ASSUME NEW v \in OwnWords, NEW w \in OwnWords
    PROVE  v = w
<1>1. \A object : \A name : \A a, b \in GetMember(object, <<name>>) : a = b
  BY OneName DEF Member
<1>2. \A object : \A name : \A a, b \in ReadScalar("string", GetMember(object, <<name>>)) : a = b
  BY <1>1 DEF ReadScalar
<1>3. \A object : \A name : \A a, b \in ReadNested(object, name) : a = b
  <2>1. \A object : \A name : \A a, b \in ObjectAt(object, name) : a = b
    BY <1>1 DEF ObjectAt, ReadObject
  <2> QED
    BY <1>2, <2>1 DEF ReadNested
<1>4. \A object : \A a, b \in ExtractMessageFromErrorObject(object) : a = b
  BY <1>2, <1>3 DEF ExtractMessageFromErrorObject
<1> QED
  BY <1>4 DEF OwnWords

(* The first place that says something is heard. *)
LEMMA FirstHeard ==
    ASSUME reply.body.form = "json"
    PROVE  LET said(i) == SaidAt(Root, Speakers[i])
               speaking == {i \in DOMAIN Speakers : said(i) # {}}
           IN  IF speaking = {} THEN OwnWords = {} ELSE said(Min(speaking)) = OwnWords
<1> DEFINE said(i) == SaidAt(Root, Speakers[i])
           speaking == {i \in DOMAIN Speakers : said(i) # {}}
<1>1. DOMAIN Speakers = {1, 2, 3, 4}
  BY DEF Speakers
<1>2. /\ said(1) = SaidAt(Root, <<>>) /\ said(2) = SaidAt(Root, <<"message">>)
      /\ said(3) = SaidAt(Root, <<"error", "message">>) /\ said(4) = SaidAt(Root, <<"detail", "message">>)
  BY DEF Speakers
<1>3. SaidAt(Root, <<>>) = IF Root.type = "string" THEN {Root.text} ELSE {}
  <2>1. JsonAt(Root, <<>>) = {Root}
    BY JsonTop
  <2>2. Content("string", Root) = IF Root.type = "string" THEN {Root.text} ELSE {}
    BY DEF Content
  <2> QED
    BY <2>1, <2>2 DEF SaidAt
<1>4. Root.type = "object" =>
          /\ SaidAt(Root, <<"message">>) = ReadScalar("string", GetMember(Root.members, <<"message">>))
          /\ SaidAt(Root, <<"error", "message">>) = ReadNested(Root.members, "error")
          /\ SaidAt(Root, <<"detail", "message">>) = ReadNested(Root.members, "detail")
  BY SaidWithin
<1>5. Root.type # "object" => \A name : SaidAt(Root, <<name>>) = {} /\ SaidAt(Root, <<name, "message">>) = {}
  <2> SUFFICES ASSUME Root.type # "object", NEW name
               PROVE  SaidAt(Root, <<name>>) = {} /\ SaidAt(Root, <<name, "message">>) = {}
    OBVIOUS
  <2>1. JsonAt(Root, <<name>>) = {}
    <3>1. Named({Root}, name) = {}
      BY DEF Named
    <3> QED
      BY <3>1, JsonOne
  <2>2. JsonAt(Root, <<name, "message">>) = {}
    <3>1. Named({}, "message") = {}
      BY DEF Named
    <3> QED
      BY <2>1, <3>1, JsonTwo
  <2> QED
    BY <2>1, <2>2 DEF SaidAt
<1> HIDE DEF said
<1>6. /\ said(1) = IF Root.type = "string" THEN {Root.text} ELSE {}
      /\ Root.type # "object" => said(2) = {} /\ said(3) = {} /\ said(4) = {}
      /\ Root.type = "object" =>
             ExtractMessageFromErrorObject(Root.members)
                 = IF said(2) # {} THEN said(2) ELSE IF said(3) # {} THEN said(3) ELSE said(4)
  BY <1>2, <1>3, <1>4, <1>5 DEF ExtractMessageFromErrorObject
<1>7. OwnWords = IF said(1) # {} THEN said(1) ELSE IF said(2) # {} THEN said(2)
                 ELSE IF said(3) # {} THEN said(3) ELSE said(4)
  BY <1>6 DEF OwnWords
<1>8. speaking \subseteq {1, 2, 3, 4} /\ \A i \in {1, 2, 3, 4} : i \in speaking <=> said(i) # {}
  BY <1>1
<1> HIDE DEF speaking
<1>9. IF speaking = {} THEN OwnWords = {} ELSE said(Min(speaking)) = OwnWords
  <2>1. CASE said(1) # {}
    <3>1. 1 \in speaking /\ \A j \in speaking : j \in Nat /\ 1 <= j
      BY <1>8, <2>1
    <3>2. Min(speaking) = 1
      BY <3>1, Smallest
    <3> QED
      BY <1>7, <2>1, <3>1, <3>2
  <2>2. CASE said(1) = {} /\ said(2) # {}
    <3>1. 2 \in speaking /\ \A j \in speaking : j \in Nat /\ 2 <= j
      BY <1>8, <2>2
    <3>2. Min(speaking) = 2
      BY <3>1, Smallest
    <3> QED
      BY <1>7, <2>2, <3>1, <3>2
  <2>3. CASE said(1) = {} /\ said(2) = {} /\ said(3) # {}
    <3>1. 3 \in speaking /\ \A j \in speaking : j \in Nat /\ 3 <= j
      BY <1>8, <2>3
    <3>2. Min(speaking) = 3
      BY <3>1, Smallest
    <3> QED
      BY <1>7, <2>3, <3>1, <3>2
  <2>4. CASE said(1) = {} /\ said(2) = {} /\ said(3) = {} /\ said(4) # {}
    <3>1. 4 \in speaking /\ \A j \in speaking : j = 4
      BY <1>8, <2>4
    <3>2. \A j \in speaking : j \in Nat /\ 4 <= j
      BY <3>1
    <3>3. Min(speaking) = 4
      BY <3>1, <3>2, Smallest
    <3> QED
      BY <1>7, <2>4, <3>1, <3>3
  <2>5. CASE said(1) = {} /\ said(2) = {} /\ said(3) = {} /\ said(4) = {}
    BY <1>7, <1>8, <2>5
  <2> QED
    BY <2>1, <2>2, <2>3, <2>4, <2>5
<1> QED
  BY <1>9 DEF said, speaking

LEMMA Explains ==
    ASSUME outcome.kind = "ApiError",
           outcome.message = ApiErrorMessage(reply.status, reply.body)
    PROVE  ApiErrorsExplain
<1> DEFINE said(i) == SaidAt(Root, Speakers[i])
           speaking == {i \in DOMAIN Speakers : said(i) # {}}
           words == IF reply.body.form # "json" \/ speaking = {} THEN {} ELSE said(Min(speaking))
<1>1. words = OwnWords
  <2>1. reply.body.form # "json" => OwnWords = {}
    BY DEF OwnWords
  <2> QED
    BY <2>1, FirstHeard
<1> HIDE DEF words
<1>2. ExtractApiMessage(reply.body)
          = IF OwnWords # {} THEN CHOOSE text \in OwnWords : TRUE
            ELSE IF reply.body.form = "blank" THEN "" ELSE "body"
  BY DEF ExtractApiMessage, OwnWords, Root
<1>3. OwnWords # {} => OwnWords = {ExtractApiMessage(reply.body)}
  BY <1>2, OneWord
<1>4. /\ words \ {""} # {} => words = {outcome.message}
      /\ words = {""} \/ reply.body.form = "blank" =>
             outcome.message = GenericApiErrorMessage(reply.status)
      /\ words = {} /\ reply.body.form # "blank" => outcome.message = "body"
  <2>1. reply.body.form = "blank" => OwnWords = {}
    BY DEF OwnWords
  <2> QED
    BY <1>1, <1>2, <1>3, <2>1 DEF ApiErrorMessage
<1> QED
  BY <1>4 DEF ApiErrorsExplain, words

(* An ApiError says what the API said, whatever the body. *)
THEOREM Explained == Spec => []ApiErrorsExplain
<1>1. IInv => ApiErrorsExplain
  <2>1. CASE outcome.kind = "ApiError"
    BY <2>1, Explains DEF IInv
  <2>2. CASE outcome.kind # "ApiError"
    BY <2>2 DEF ApiErrorsExplain
  <2> QED
    BY <2>1, <2>2
<1> QED
  BY ResultsInvariance, <1>1, PTL

-----------------------------------------------------------------------------
(* What an object says that has no error. *)
LEMMA Speaks ==
    ASSUME NEW item, item.type = "object", "error" \notin DOMAIN item.members
    PROVE  ExtractMessageFromErrorObject(item.members) # {} <=>
               \E path \in {<<"message">>, <<"detail", "message">>} : SaidAt(item, path) # {}
<1>1. ReadNested(item.members, "error") = {}
  BY OneName DEF ReadNested, ObjectAt, ReadObject, Member
<1>2. /\ SaidAt(item, <<"message">>)
             = ReadScalar("string", GetMember(item.members, <<"message">>))
      /\ SaidAt(item, <<"detail", "message">>) = ReadNested(item.members, "detail")
  BY SaidWithin
<1> QED
  BY <1>1, <1>2 DEF ExtractMessageFromErrorObject

(* Exactly which items become data, and that none of them is seen to be wrapped. *)
THEOREM FailuresApart == Spec => []FailuresApartFromData
<1>1. IInv => FailuresApartFromData
  <2> SUFFICES ASSUME IInv, NEW i \in DOMAIN results, NEW item, item = Root.items[i]
               PROVE  LET names == DOMAIN item.members
                          speaks == \E path \in {<<"message">>, <<"detail", "message">>} :
                                        SaidAt(item, path) # {}
                      IN  /\ IsSuccess(results[i]) <=>
                                 "error" \notin names /\ (names \cap SuccessMarkers # {} \/ ~speaks)
                          /\ names = {"data"} => item.members["data"].type # "object"
    BY DEF FailuresApartFromData
  <2> DEFINE object == item.members
             names == DOMAIN object
             success == IsSuccess(results[i])
             speaks == \E path \in {<<"message">>, <<"detail", "message">>} : SaidAt(item, path) # {}
  <2>1. item.type = "object" /\ (success => ~ReadsAsError(object) /\ ~WrappedData(object))
    BY DEF IInv, Fits, IsSuccess
  <2>2. ~success => ReadsAsError(object)
    <3>1. Fits(results[i], item)
      BY DEF IInv
    <3>2. ASSUME results[i] = Result({ParseResponseObject(object)}, {}) PROVE success
      BY <3>2 DEF IsSuccess, Result
    <3> QED
      BY <3>1, <3>2 DEF Fits
  <2> HIDE DEF success
  <2>3. "error" \notin names => (ExtractMessageFromErrorObject(object) # {} <=> speaks)
    BY <2>1, Speaks
  <2> HIDE DEF object, speaks
  <2>4. success <=> "error" \notin names /\ (names \cap SuccessMarkers # {} \/ ~speaks)
    BY <2>1, <2>2, <2>3 DEF ReadsAsError, LooksLikeSuccessfulBulkItem
  <2>5. names = {"data"} => object["data"].type # "object"
    <3> SUFFICES ASSUME names = {"data"} PROVE object["data"].type # "object"
      OBVIOUS
    <3>1. ExtractMessageFromErrorObject(object) = {}
      BY Silent
    <3>2. success
      BY <2>2, <3>1 DEF ReadsAsError
    <3> QED
      BY <2>1, <3>2 DEF WrappedData
  <2> QED
    BY <2>4, <2>5 DEF object, success, speaks
<1> QED
  BY ResultsInvariance, <1>1, PTL
=============================================================================
