--------------------------- MODULE JsonParserProofs ---------------------------
(***************************************************************************)
(* The limits of JsonParser and what it accepts, for every set of inputs   *)
(* and every value of the two limits.                                      *)
(*                                                                         *)
(* A text means what its tokens mean from the first on.  The grammar says  *)
(* so with lists of parts, the parser with a stack, a part at a time.  In  *)
(* between stands Denotes: what a text means whose tokens before i have    *)
(* been read, with what is on the stack.  The invariant GrammarInv says    *)
(* that it is what the whole text means, and no step changes it.           *)
(***************************************************************************)
EXTENDS JsonGrammar, TLAPS, NaturalsInduction, WellFoundedInduction

IsSequence(s) == s \in Seq(Range(s))

IsFrame(f) ==
    /\ f = [type |-> f.type, items |-> f.items, members |-> f.members, key |-> f.key]
    /\ f.type \in {"array", "object"}
    /\ IsSequence(f.items)

(* The stack holds frames, and what is expected next fits the innermost. *)
StackInv ==
    /\ IsSequence(stack)
    /\ \A i \in DOMAIN stack : IsFrame(stack[i])
    /\ expect \in {"key", "keyOrEnd", "colon", "elementOrEnd", "commaOrEnd"}
          => stack # <<>>

(* While an element of the root array is being parsed there is room for it. *)
RootInv ==
    /\ Len(stack) <= MaxDepth
    /\ stack # <<>> /\ stack[1].type = "array" =>
           /\ Len(stack[1].items) <= MaxRootItems
           /\ Len(stack) >= 2 => Len(stack[1].items) < MaxRootItems

IInv == StackInv /\ RootInv

-----------------------------------------------------------------------------
(* A sequence with its last element replaced. *)
LEMMA ReplaceLast ==
    ASSUME NEW s, IsSequence(s), s # <<>>, NEW f
    PROVE  /\ IsSequence(Append(Front(s), f))
           /\ Len(Append(Front(s), f)) = Len(s) /\ Len(s) \in Nat \ {0}
           /\ Append(Front(s), f)[Len(s)] = f
           /\ \A i \in 1 .. Len(s) - 1 : Append(Front(s), f)[i] = s[i]
<1> DEFINE S == Range(s)
           r == Append(Front(s), f)
<1>1. s \in Seq(S) /\ Len(s) \in Nat /\ Len(s) # 0
  BY DEF IsSequence
<1>2. /\ Front(s) \in Seq(S) /\ Len(Front(s)) = Len(s) - 1
      /\ \A i \in 1 .. Len(s) - 1 : Front(s)[i] = s[i]
  BY <1>1 DEF Front
<1>3. Front(s) \in Seq(S \cup {f})
  BY <1>2
<1>4. /\ r \in Seq(S \cup {f}) /\ Len(r) = Len(s) /\ r[Len(s)] = f
      /\ \A i \in 1 .. Len(s) - 1 : r[i] = s[i]
  BY <1>1, <1>2, <1>3
<1>5. IsSequence(r)
  BY <1>4 DEF IsSequence, Range
<1> QED
  BY <1>1, <1>4, <1>5

(* A sequence with one more element. *)
LEMMA OneMore ==
    ASSUME NEW s, IsSequence(s), NEW f
    PROVE  /\ IsSequence(Append(s, f))
           /\ Len(Append(s, f)) = Len(s) + 1 /\ Len(s) \in Nat
           /\ Append(s, f)[Len(s) + 1] = f
           /\ \A i \in 1 .. Len(s) : Append(s, f)[i] = s[i]
<1>1. s \in Seq(Range(s) \cup {f})
  BY DEF IsSequence
<1>2. /\ Append(s, f) \in Seq(Range(s) \cup {f})
      /\ Len(Append(s, f)) = Len(s) + 1 /\ Len(s) \in Nat
      /\ Append(s, f)[Len(s) + 1] = f
      /\ \A i \in 1 .. Len(s) : Append(s, f)[i] = s[i]
  BY <1>1
<1>3. IsSequence(Append(s, f))
  BY <1>2 DEF IsSequence, Range
<1> QED
  BY <1>2, <1>3

(* The sequence without its last element. *)
LEMMA OneLess ==
    ASSUME NEW s, IsSequence(s), s # <<>>
    PROVE  /\ IsSequence(Front(s))
           /\ Len(Front(s)) = Len(s) - 1 /\ Len(s) \in Nat \ {0}
           /\ \A i \in 1 .. Len(s) - 1 : Front(s)[i] = s[i]
<1>1. s \in Seq(Range(s)) /\ Len(s) \in Nat /\ Len(s) # 0
  BY DEF IsSequence
<1>2. /\ Front(s) \in Seq(Range(s)) /\ Len(Front(s)) = Len(s) - 1
      /\ \A i \in 1 .. Len(s) - 1 : Front(s)[i] = s[i]
  BY <1>1 DEF Front
<1>3. IsSequence(Front(s))
  BY <1>2 DEF IsSequence, Range
<1> QED
  BY <1>1, <1>2, <1>3

(* A container that receives a value has at most one item more. *)
LEMMA Receives ==
    ASSUME NEW f, IsFrame(f), NEW v
    PROVE  /\ IsFrame(Received(f, v))
           /\ Received(f, v).type = f.type
           /\ f.type = "array" => Len(Received(f, v).items) = Len(f.items) + 1
<1>1. CASE f.type = "array"
  <2> DEFINE g == [f EXCEPT !.items = Append(@, v)]
  <2>1. g = [type |-> f.type, items |-> Append(f.items, v), members |-> f.members,
             key |-> f.key]
    BY DEF IsFrame
  <2>2. Received(f, v) = g
    BY <1>1 DEF Received
  <2>3. IsSequence(Append(f.items, v)) /\ Len(Append(f.items, v)) = Len(f.items) + 1
    BY OneMore DEF IsFrame
  <2> HIDE DEF g
  <2> QED
    BY <1>1, <2>1, <2>2, <2>3 DEF IsFrame
<1>2. CASE f.type # "array"
  <2> DEFINE m == InsertOrAssign(f.members, f.key, v)
             g == [f EXCEPT !.members = m]
  <2>1. g = [type |-> f.type, items |-> f.items, members |-> m, key |-> f.key]
    BY DEF IsFrame
  <2>2. Received(f, v) = g
    BY <1>2 DEF Received
  <2> HIDE DEF g, m
  <2> QED
    BY <1>2, <2>1, <2>2 DEF IsFrame
<1> QED
  BY <1>1, <1>2

(* A value goes to a container that, if it is the root array, has room for it. *)
LEMMA Delivers ==
    ASSUME NEW v, NEW outer, Deliver(v, outer),
           IsSequence(outer), \A i \in DOMAIN outer : IsFrame(outer[i]),
           Len(outer) <= MaxDepth,
           outer # <<>> /\ outer[1].type = "array" => Len(outer[1].items) < MaxRootItems
    PROVE  IInv'
<1>1. CASE outer = <<>>
  <2>1. stack' = <<>> /\ expect' = "end"
    BY <1>1 DEF Deliver
  <2>2. IsSequence(<<>>) /\ DOMAIN <<>> = {} /\ Len(<<>>) = 0
    BY DEF IsSequence, Range
  <2> QED
    BY <1>1, <2>1, <2>2, LimitsAssumption DEF IInv, StackInv, RootInv
<1>2. CASE outer # <<>>
  <2> DEFINE n == Len(outer)
             f == Received(Last(outer), v)
  <2>1. stack' = Append(Front(outer), f) /\ expect' = "commaOrEnd"
    BY <1>2 DEF Deliver
  <2>2. /\ IsSequence(stack') /\ Len(stack') = n /\ n \in Nat \ {0}
        /\ stack'[n] = f /\ \A i \in 1 .. n - 1 : stack'[i] = outer[i]
    BY <1>2, <2>1, ReplaceLast
  <2>3. DOMAIN outer = 1 .. n /\ DOMAIN stack' = 1 .. n
    BY <2>2 DEF IsSequence
  <2>4. IsFrame(outer[n]) /\ Last(outer) = outer[n]
    BY <2>2, <2>3 DEF Last
  <2>5. /\ IsFrame(f) /\ f.type = outer[n].type
        /\ f.type = "array" => Len(f.items) = Len(outer[n].items) + 1
    BY <2>4, Receives
  <2> HIDE DEF n, f
  <2>6. \A i \in DOMAIN stack' : IsFrame(stack'[i])
    BY <2>2, <2>3, <2>5
  <2>7. stack' # <<>>
    BY <2>2
  <2>8. Len(outer[1].items) \in Nat
    BY <2>2, <2>3 DEF IsFrame, IsSequence
  <2>9. RootInv'
    <3>1. CASE n = 1
      BY <1>2, <2>2, <2>5, <2>8, <3>1, LimitsAssumption DEF RootInv, n
    <3>2. CASE n # 1
      BY <1>2, <2>2, <2>8, <3>2, LimitsAssumption DEF RootInv, n
    <3> QED
      BY <3>1, <3>2
  <2> QED
    BY <2>2, <2>6, <2>7, <2>9 DEF IInv, StackInv
<1> QED
  BY <1>1, <1>2

-----------------------------------------------------------------------------
(* Nothing is being parsed. *)
LEMMA InitIInv == Init => IInv
<1>1. IsSequence(<<>>) /\ DOMAIN <<>> = {} /\ Len(<<>>) = 0
  BY DEF IsSequence, Range
<1> QED
  BY <1>1, LimitsAssumption DEF Init, IInv, StackInv, RootInv

(* Every step keeps the limits. *)
LEMMA Step == IInv /\ [Next]_vars => IInv'
<1> SUFFICES ASSUME IInv, [Next]_vars PROVE IInv'
  OBVIOUS
<1>1. /\ IsSequence(stack) /\ Len(stack) \in Nat /\ DOMAIN stack = 1 .. Len(stack)
      /\ \A i \in DOMAIN stack : IsFrame(stack[i])
      /\ stack = <<>> <=> Len(stack) = 0
  <2>1. stack \in Seq(Range(stack))
    BY DEF IInv, StackInv, IsSequence
  <2>2. Len(stack) \in Nat /\ DOMAIN stack = 1 .. Len(stack)
    BY <2>1
  <2>3. stack = <<>> <=> Len(stack) = 0
    BY <2>1
  <2> QED
    BY <2>2, <2>3 DEF IInv, StackInv
<1>2. \A i \in DOMAIN stack : Len(stack[i].items) \in Nat
  BY <1>1 DEF IsFrame, IsSequence
<1>3. ASSUME UNCHANGED stack,
             expect' \in {"key", "keyOrEnd", "colon", "elementOrEnd", "commaOrEnd"}
                => stack # <<>>
      PROVE  IInv'
  BY <1>3 DEF IInv, StackInv, RootInv
<1>4. ASSUME ~RootFull, Len(stack) = 1, stack[1].type = "array"
      PROVE  Len(stack[1].items) < MaxRootItems
  BY <1>1, <1>2, <1>4, LimitsAssumption DEF RootFull, Within, Last
<1>5. ASSUME ~RootFull, stack # <<>>, stack[1].type = "array"
      PROVE  Len(stack[1].items) < MaxRootItems
  BY <1>1, <1>4, <1>5 DEF IInv, RootInv
<1>6. CASE ReadLeaf
  <2>1. ~RootFull /\ Deliver(Leaf(Token), stack)
    BY <1>6 DEF ReadLeaf, MayBeLeaf, ValueMayBegin
  <2> QED
    BY <1>1, <1>5, <2>1, Delivers DEF IInv, RootInv
<1>7. CASE OpenContainer
  <2> DEFINE f == Frame(IF Token = BeginArray THEN "array" ELSE "object")
  <2>1. ~RootFull /\ Len(stack) < MaxDepth /\ stack' = Append(stack, f)
    BY <1>7 DEF OpenContainer, MayOpen, ValueMayBegin
  <2>2. IsSequence(<<>>) /\ Len(<<>>) = 0
    BY DEF IsSequence, Range
  <2>3. IsFrame(f) /\ Len(f.items) = 0
    BY <2>2 DEF IsFrame, Frame
  <2> HIDE DEF f
  <2>4. /\ IsSequence(stack') /\ Len(stack') = Len(stack) + 1 /\ stack'[Len(stack) + 1] = f
        /\ \A i \in 1 .. Len(stack) : stack'[i] = stack[i]
    BY <1>1, <2>1, OneMore
  <2>5. DOMAIN stack' = 1 .. Len(stack) + 1 /\ stack' # <<>>
    BY <1>1, <2>4 DEF IsSequence
  <2>6. StackInv'
    <3>1. \A i \in DOMAIN stack' : IsFrame(stack'[i])
      BY <1>1, <2>3, <2>4, <2>5
    <3> QED
      BY <2>4, <2>5, <3>1 DEF StackInv
  <2>7. RootInv'
    <3>1. CASE stack = <<>>
      BY <1>1, <2>1, <2>3, <2>4, <3>1, LimitsAssumption DEF RootInv
    <3>2. CASE stack # <<>>
      BY <1>1, <1>2, <1>5, <2>1, <2>4, <3>2, LimitsAssumption DEF RootInv
    <3> QED
      BY <3>1, <3>2
  <2> QED
    BY <2>6, <2>7 DEF IInv
<1>8. CASE CloseContainer
  <2>1. stack # <<>> /\ Deliver(Made(Last(stack)), Front(stack))
    BY <1>8 DEF CloseContainer, MayClose, Within
  <2>2. /\ IsSequence(Front(stack)) /\ Len(Front(stack)) = Len(stack) - 1
        /\ \A i \in 1 .. Len(stack) - 1 : Front(stack)[i] = stack[i]
    BY <1>1, <2>1, OneLess
  <2>3. DOMAIN Front(stack) = 1 .. Len(stack) - 1
    BY <2>2 DEF IsSequence
  <2>4. \A i \in DOMAIN Front(stack) : IsFrame(Front(stack)[i])
    BY <1>1, <2>2, <2>3
  <2>5. Len(Front(stack)) <= MaxDepth
    BY <1>1, <2>2, LimitsAssumption DEF IInv, RootInv
  <2>6. ASSUME Front(stack) # <<>>, Front(stack)[1].type = "array"
        PROVE  Len(Front(stack)[1].items) < MaxRootItems
    <3>1. Len(stack) >= 2
      BY <1>1, <2>2, <2>6 DEF IsSequence
    <3>2. Front(stack)[1] = stack[1]
      BY <1>1, <2>2, <3>1
    <3> QED
      BY <2>1, <2>6, <3>1, <3>2 DEF IInv, RootInv
  <2> QED
    BY <2>1, <2>2, <2>4, <2>5, <2>6, Delivers
<1>9. CASE ReadKey
  <2> DEFINE f == [Last(stack) EXCEPT !.key = Token]
             g == Last(stack)
  <2>1. stack # <<>> /\ stack' = Append(Front(stack), f)
    BY <1>9 DEF ReadKey, MayBeKey, IInv, StackInv
  <2>2. IsFrame(g) /\ g = stack[Len(stack)]
    BY <1>1, <2>1 DEF Last
  <2>3. f = [type |-> g.type, items |-> g.items, members |-> g.members, key |-> Token]
    BY <2>2 DEF IsFrame
  <2> HIDE DEF f, g
  <2>4. IsFrame(f) /\ f.type = g.type /\ f.items = g.items
    BY <2>2, <2>3 DEF IsFrame
  <2>5. /\ IsSequence(stack') /\ Len(stack') = Len(stack) /\ stack'[Len(stack)] = f
        /\ \A i \in 1 .. Len(stack) - 1 : stack'[i] = stack[i]
    BY <1>1, <2>1, ReplaceLast
  <2>6. DOMAIN stack' = 1 .. Len(stack)
    BY <2>5 DEF IsSequence
  <2>7. StackInv'
    <3>1. \A i \in DOMAIN stack' : IsFrame(stack'[i])
      BY <1>1, <2>4, <2>5, <2>6
    <3>2. stack' # <<>>
      BY <1>1, <2>1, <2>5
    <3> QED
      BY <2>5, <3>1, <3>2 DEF StackInv
  <2>8. stack'[1].type = stack[1].type /\ stack'[1].items = stack[1].items
    BY <1>1, <2>1, <2>2, <2>4, <2>5
  <2>9. RootInv'
    BY <2>1, <2>5, <2>8 DEF IInv, RootInv
  <2> QED
    BY <2>7, <2>9 DEF IInv
<1>10. CASE ReadColon
  BY <1>3, <1>10 DEF ReadColon
<1>11. CASE ReadComma
  BY <1>3, <1>11 DEF ReadComma, MayBeComma, IInv, StackInv
<1>12. CASE Finish \/ Fail \/ Done \/ UNCHANGED vars
  BY <1>3, <1>12 DEF Finish, Fail, Done, vars, IInv, StackInv
<1> QED
  BY <1>6, <1>7, <1>8, <1>9, <1>10, <1>11, <1>12 DEF Next

(* The limits hold at every moment, whatever the input, also when it nests or
   goes on far beyond them.                                                 *)
THEOREM LimitsKept == Spec => []LimitsHoldThroughout
<1>1. IInv => LimitsHoldThroughout
  BY DEF IInv, RootInv, LimitsHoldThroughout
<1> QED
  BY InitIInv, Step, <1>1, PTL DEF Spec

-----------------------------------------------------------------------------
(* A set of numbers that holds 0 and is closed under successors holds all. *)
LEMMA Induct ==
    ASSUME NEW T, 0 \in T, \A n \in Nat : n \in T => n + 1 \in T
    PROVE  Nat \subseteq T
<1> SUFFICES ASSUME Nat \ T # {} PROVE FALSE
  OBVIOUS
<1>1. PICK n \in Nat \ T : \A m \in Nat \ T : ~(<<m, n>> \in OpToRel(<, Nat))
  BY NatLessThanWellFounded, WFMin
<1>2. \A m \in Nat : m < n => <<m, n>> \in OpToRel(<, Nat)
  BY DEF OpToRel
<1>3. n # 0
  OBVIOUS
<1>4. n - 1 \in Nat /\ n - 1 < n /\ (n - 1) + 1 = n
  BY <1>3
<1>5. n - 1 \in T
  BY <1>1, <1>2, <1>4
<1> QED
  BY <1>4, <1>5

(* The lists at i, if those at the places behind it are in f. *)
ListsBy(text, part, last, f, i) ==
    {<<x>> : x \in part[i][last]}
    \cup UNION {Longer(part[i][c - 1], f[c + 1]) : c \in Commas(text, i, last)}

(* The lists at a place depend on those at later places only. *)
LEMMA ListsByLater ==
    ASSUME NEW text, NEW part, NEW last \in Nat, NEW f, NEW g, NEW i \in Nat,
           \A k \in i + 1 .. last : f[k] = g[k]
    PROVE  ListsBy(text, part, last, f, i) = ListsBy(text, part, last, g, i)
<1>1. ASSUME NEW c \in Commas(text, i, last)
      PROVE  Longer(part[i][c - 1], f[c + 1]) = Longer(part[i][c - 1], g[c + 1])
  <2>0. c \in i + 1 .. last - 1
    BY Zenon DEF Commas
  <2>1. c + 1 \in i + 1 .. last
    BY <2>0
  <2> QED
    BY <2>1
<1>2. {Longer(part[i][c - 1], f[c + 1]) : c \in Commas(text, i, last)}
          = {Longer(part[i][c - 1], g[c + 1]) : c \in Commas(text, i, last)}
  BY <1>1
<1> QED
  BY <1>2, Zenon DEF ListsBy

(* The recursive function Lists is what its body says. *)
LEMMA ListsStep ==
    ASSUME NEW text, NEW part, NEW last \in Nat, NEW i \in 1 .. last
    PROVE  Lists(text, part, last)[i] = ListsBy(text, part, last, Lists(text, part, last), i)
<1> DEFINE Fits(f, first) == f = [k \in first .. last |-> ListsBy(text, part, last, f, k)]
           T == {n \in Nat : n <= last => \E f : Fits(f, last + 1 - n)}
<1>1. 0 \in T
  <2>1. last + 1 .. last = {}
    OBVIOUS
  <2>2. Fits([k \in {} |-> {}], last + 1 - 0)
    BY <2>1
  <2> QED
    BY <2>2
<1>2. ASSUME NEW n \in Nat, n \in T PROVE n + 1 \in T
  <2> SUFFICES ASSUME n + 1 <= last PROVE \E g : Fits(g, last - n)
    OBVIOUS
  <2>1. PICK f : Fits(f, last + 1 - n)
    BY <1>2
  <2> DEFINE g == [k \in last - n .. last |->
                      IF k = last - n THEN ListsBy(text, part, last, f, k) ELSE f[k]]
  <2>2. \A k \in last + 1 - n .. last : g[k] = f[k]
    OBVIOUS
  <2>3. ASSUME NEW k \in last - n .. last
        PROVE  ListsBy(text, part, last, f, k) = ListsBy(text, part, last, g, k)
    <3>1. k \in Nat /\ \A h \in k + 1 .. last : f[h] = g[h]
      BY <2>2
    <3> HIDE DEF g
    <3> QED
      BY <3>1, ListsByLater
  <2>4. ASSUME NEW k \in last - n .. last
        PROVE  g[k] = ListsBy(text, part, last, g, k)
    <3>1. CASE k = last - n
      BY <2>3, <3>1
    <3>2. CASE k # last - n
      <4>1. k \in last + 1 - n .. last /\ g[k] = f[k]
        BY <3>2
      <4>2. f[k] = ListsBy(text, part, last, f, k)
        BY <2>1, <4>1
      <4> QED
        BY <2>3, <4>1, <4>2
    <3> QED
      BY <3>1, <3>2
  <2>5. Fits(g, last - n)
    <3>1. g = [k \in last - n .. last |-> g[k]]
      OBVIOUS
    <3> HIDE DEF g
    <3> QED
      BY <2>4, <3>1
  <2> QED
    BY <2>5
<1>3. \E f : Fits(f, 1)
  <2>1. last \in T
    BY <1>1, <1>2, Induct
  <2>2. last + 1 - last = 1
    OBVIOUS
  <2> QED
    BY <2>1, <2>2
<1>4. Lists(text, part, last) = CHOOSE f : Fits(f, 1)
  BY SMT DEF Lists, ListsBy
<1>5. Fits(Lists(text, part, last), 1)
  <2> HIDE DEF Fits
  <2> QED
    BY <1>3, <1>4
<1> QED
  BY <1>5

-----------------------------------------------------------------------------
(* The place of a comma. *)
LEMMA CommaPlace ==
    ASSUME NEW text, NEW last \in Nat, NEW i \in Nat, NEW c
    PROVE  c \in Commas(text, i, last) <=> c \in i + 1 .. last - 1 /\ text[c] = Comma
  BY DEF Commas

(* Lists with one more part in front. *)
LEMMA LongerLists ==
    ASSUME NEW first, NEW lists, NEW l
    PROVE  l \in Longer(first, lists) <=> \E x \in first, rest \in lists : l = Cons(x, rest)
  BY DEF Longer

(* A list is one part, or a part, a comma and a list. *)
IsCut(text, part, lists, last, i, l) ==
    \/ \E x \in part[i][last] : l = <<x>>
    \/ \E p \in i .. last - 2 :
           /\ text[p + 1] = Comma
           /\ \E x \in part[i][p], rest \in lists[p + 2] : l = Cons(x, rest)

(* The lists of a text by its first comma. *)
LEMMA ListsCut ==
    ASSUME NEW text, NEW part, NEW last \in Nat, NEW i \in 1 .. last, NEW l
    PROVE  l \in Lists(text, part, last)[i]
               <=> IsCut(text, part, Lists(text, part, last), last, i, l)
<1>1. PICK lists : lists = Lists(text, part, last)
  OBVIOUS
<1>2. i \in Nat /\ lists[i] = ListsBy(text, part, last, lists, i)
  BY <1>1, ListsStep
<1>3. l \in lists[i] <=>
          \/ \E x \in part[i][last] : l = <<x>>
          \/ \E c \in Commas(text, i, last) : l \in Longer(part[i][c - 1], lists[c + 1])
  BY <1>2 DEF ListsBy
<1>4. ASSUME NEW c \in Commas(text, i, last), l \in Longer(part[i][c - 1], lists[c + 1])
      PROVE  \E p \in i .. last - 2 :
                 /\ text[p + 1] = Comma
                 /\ \E x \in part[i][p], rest \in lists[p + 2] : l = Cons(x, rest)
  <2>1. c \in i + 1 .. last - 1 /\ text[c] = Comma
    BY <1>2, CommaPlace
  <2>2. PICK p : p = c - 1
    OBVIOUS
  <2>3. p \in i .. last - 2 /\ p + 1 = c /\ p + 2 = c + 1
    <3>1. i \in Nat /\ c \in i + 1 .. last - 1
      BY <1>2, <2>1
    <3> QED
      BY <2>2, <3>1
  <2>4. \E x \in part[i][p], rest \in lists[p + 2] : l = Cons(x, rest)
    BY <1>4, <2>2, <2>3, LongerLists
  <2> QED
    BY <2>1, <2>3, <2>4
<1>5. ASSUME NEW p \in i .. last - 2, text[p + 1] = Comma,
             NEW x \in part[i][p], NEW rest \in lists[p + 2], l = Cons(x, rest)
      PROVE  \E c \in Commas(text, i, last) : l \in Longer(part[i][c - 1], lists[c + 1])
  <2>1. PICK c : c = p + 1
    OBVIOUS
  <2>2. c \in i + 1 .. last - 1 /\ c - 1 = p /\ c + 1 = p + 2
    BY <1>2, <2>1
  <2>3. c \in Commas(text, i, last)
    BY <1>2, <1>5, <2>1, <2>2, CommaPlace
  <2>4. l \in Longer(part[i][p], lists[p + 2])
    BY <1>5, LongerLists
  <2> QED
    BY <2>2, <2>3, <2>4
<1> QED
  BY <1>1, <1>3, <1>4, <1>5 DEF IsCut

(* A list is a sequence that is not empty. *)
LEMMA ListsAreSequences ==
    ASSUME NEW text, NEW part, NEW last \in Nat, NEW i \in 1 .. last,
           NEW l \in Lists(text, part, last)[i]
    PROVE  IsSequence(l) /\ Len(l) \in Nat \ {0}
<1> DEFINE lists == Lists(text, part, last)
           Good(l_) == IsSequence(l_) /\ Len(l_) \in Nat \ {0}
           T == {n \in Nat : \A k \in 1 .. last : k > last - n => \A m \in lists[k] : Good(m)}
<1>1. 0 \in T
  OBVIOUS
<1>2. ASSUME NEW n \in Nat, n \in T PROVE n + 1 \in T
  <2> SUFFICES ASSUME NEW k \in 1 .. last, k > last - (n + 1), NEW m \in lists[k]
               PROVE  Good(m)
    OBVIOUS
  <2>1. CASE \E x \in part[k][last] : m = <<x>>
    <3>1. PICK x : m = <<x>>
      BY <2>1
    <3>2. <<x>> \in Seq({x}) /\ Len(<<x>>) = 1 /\ Range(<<x>>) = {x}
      BY DEF Range
    <3> QED
      BY <3>1, <3>2 DEF IsSequence
  <2>2. CASE \E p \in k .. last - 2 : \E x \in part[k][p], rest \in lists[p + 2] : m = Cons(x, rest)
    <3>0. PICK p \in k .. last - 2 :
                   \E x \in part[k][p], rest \in lists[p + 2] : m = Cons(x, rest)
      BY <2>2
    <3>1. PICK x \in part[k][p], rest \in lists[p + 2] : m = Cons(x, rest)
      BY <3>0
    <3>2. p + 2 \in 1 .. last /\ p + 2 > last - n
      OBVIOUS
    <3>3. Good(rest)
      BY <1>2, <3>2
    <3>4. rest \in Seq(Range(rest)) /\ Len(rest) \in Nat
      BY <3>3 DEF IsSequence
    <3>5. Cons(x, rest) \in Seq(Range(rest) \cup {x}) /\ Len(Cons(x, rest)) = Len(rest) + 1
      BY <3>4 DEF Cons
    <3> HIDE DEF lists
    <3>6. IsSequence(Cons(x, rest))
      <4>1. PICK s : s = Cons(x, rest)
        OBVIOUS
      <4>2. s \in Seq(Range(rest) \cup {x})
        BY <3>5, <4>1
      <4>3. s \in Seq(Range(s))
        BY <4>2 DEF Range
      <4> QED
        BY <4>1, <4>3 DEF IsSequence
    <3> QED
      BY <3>1, <3>4, <3>5, <3>6
  <2>3. \/ \E x \in part[k][last] : m = <<x>>
        \/ \E p \in k .. last - 2 :
               \E x \in part[k][p], rest \in lists[p + 2] : m = Cons(x, rest)
    <3>1. m \in Lists(text, part, last)[k]
      OBVIOUS
    <3> HIDE DEF lists, T, Good
    <3>2. IsCut(text, part, lists, last, k, m)
      BY <3>1, ListsCut DEF lists
    <3> QED
      BY <3>2 DEF IsCut
  <2> QED
    BY <2>1, <2>2, <2>3
<1>3. last \in T
  BY <1>1, <1>2, Induct
<1> QED
  BY <1>3

(* What a text means with at most d levels follows from what it means with d - 1. *)
LEMMA MeaningsStep ==
    ASSUME NEW text, NEW d \in 0 .. MaxDepth
    PROVE  Meanings(text)[d] = IF d = 0 THEN Leaves(text) ELSE Values(text, Meanings(text)[d - 1])
<1> DEFINE By(f, n) == IF n = 0 THEN Leaves(text) ELSE Values(text, f[n - 1])
           Fits(f, top) == f = [n \in 0 .. top |-> By(f, n)]
           T == {m \in Nat : \E f : Fits(f, m)}
<1>1. 0 \in T
  <2>1. Fits([n \in 0 .. 0 |-> Leaves(text)], 0)
    <3>1. 0 .. 0 = {0}
      OBVIOUS
    <3> QED
      BY <3>1
  <2> QED
    BY <2>1
<1>2. ASSUME NEW m \in Nat, m \in T PROVE m + 1 \in T
  <2>1. PICK f : Fits(f, m)
    BY <1>2
  <2> DEFINE g == [n \in 0 .. m + 1 |-> IF n = m + 1 THEN By(f, n) ELSE f[n]]
  <2>2. \A n \in 0 .. m : g[n] = f[n]
    OBVIOUS
  <2>3. ASSUME NEW n \in 0 .. m + 1 PROVE By(f, n) = By(g, n)
    <3>1. n # 0 => f[n - 1] = g[n - 1]
      BY <2>2
    <3> HIDE DEF g
    <3> QED
      BY <3>1
  <2>4. ASSUME NEW n \in 0 .. m + 1 PROVE g[n] = By(f, n)
    <3>1. CASE n = m + 1
      BY <3>1
    <3>2. CASE n # m + 1
      <4>1. n \in 0 .. m /\ g[n] = f[n]
        BY <3>2
      <4> HIDE DEF g, By
      <4> QED
        BY <2>1, <4>1
    <3> QED
      BY <3>1, <3>2
  <2>5. Fits(g, m + 1)
    <3>1. g = [n \in 0 .. m + 1 |-> g[n]]
      OBVIOUS
    <3> HIDE DEF g, By
    <3> QED
      BY <2>3, <2>4, <3>1
  <2> HIDE DEF Fits
  <2> QED
    BY <2>5
<1>3. \E f : Fits(f, MaxDepth)
  BY <1>1, <1>2, Induct, LimitsAssumption
<1>4. Meanings(text) = CHOOSE f : Fits(f, MaxDepth)
  BY SMT DEF Meanings
<1>5. Fits(Meanings(text), MaxDepth)
  <2> HIDE DEF Fits
  <2> QED
    BY <1>3, <1>4
<1> QED
  BY <1>5

-----------------------------------------------------------------------------
(* To append an element and then a list is to append the list that begins with it. *)
LEMMA AppendCons ==
    ASSUME NEW s, IsSequence(s), NEW l, IsSequence(l), NEW x
    PROVE  Append(s, x) \o l = s \o Cons(x, l)
<1>1. PICK S : s \in Seq(S) /\ l \in Seq(S) /\ x \in S
  <2>1. s \in Seq(Range(s) \cup Range(l) \cup {x}) /\ l \in Seq(Range(s) \cup Range(l) \cup {x})
    BY DEF IsSequence
  <2> QED
    BY <2>1
<1> QED
  BY <1>1 DEF Cons

(* To append a list of one is to append its element. *)
LEMMA OneAppended ==
    ASSUME NEW s, IsSequence(s), NEW x
    PROVE  s \o <<x>> = Append(s, x)
<1>1. s \in Seq(Range(s) \cup {x})
  BY DEF IsSequence
<1> QED
  BY <1>1

(* Nothing before a list leaves it as it is. *)
LEMMA NothingBefore ==
    ASSUME NEW l, IsSequence(l)
    PROVE  <<>> \o l = l
  BY DEF IsSequence

(* The elements of a list with one more in front. *)
LEMMA ConsSequence ==
    ASSUME NEW x, NEW l, IsSequence(l)
    PROVE  /\ DOMAIN Cons(x, l) = 1 .. Len(l) + 1 /\ DOMAIN l = 1 .. Len(l) /\ Len(l) \in Nat
           /\ Cons(x, l)[1] = x
           /\ \A k \in 1 .. Len(l) : Cons(x, l)[k + 1] = l[k]
<1>1. l \in Seq(Range(l) \cup {x}) /\ <<x>> \in Seq(Range(l) \cup {x})
  BY DEF IsSequence
<1>2. /\ Cons(x, l) \in Seq(Range(l) \cup {x})
      /\ Len(Cons(x, l)) = Len(l) + 1
  BY <1>1 DEF Cons
<1>3. Cons(x, l)[1] = x /\ \A k \in 1 .. Len(l) : Cons(x, l)[k + 1] = l[k]
  BY <1>1 DEF Cons
<1> QED
  BY <1>1, <1>2, <1>3

-----------------------------------------------------------------------------
(* k is the last place of its key. *)
IsLast(l, k) == k \in DOMAIN l /\ \A h \in DOMAIN l : l[h][1] = l[k][1] => h <= k

(* A member of LastOfEach is at the last place of its key. *)
LEMMA LastPlaces ==
    ASSUME NEW l, NEW y
    PROVE  y \in LastOfEach(l) <=> \E k \in DOMAIN l : IsLast(l, k) /\ y = l[k]
  BY DEF LastOfEach, IsLast

(* Every key has a last place. *)
LEMMA LastPlace ==
    ASSUME NEW l, IsSequence(l), NEW h \in DOMAIN l
    PROVE  \E k \in DOMAIN l : IsLast(l, k) /\ l[k][1] = l[h][1]
<1> DEFINE Same(i) == \E k \in DOMAIN l : IsLast(l, k) /\ l[k][1] = l[i][1]
           T == {n \in Nat : \A i \in DOMAIN l : Len(l) - i < n => Same(i)}
<1>0. DOMAIN l = 1 .. Len(l) /\ Len(l) \in Nat
  BY DEF IsSequence
<1>1. 0 \in T
  BY <1>0
<1>2. ASSUME NEW n \in Nat, n \in T PROVE n + 1 \in T
  <2> SUFFICES ASSUME NEW i \in DOMAIN l, Len(l) - i < n + 1 PROVE Same(i)
    OBVIOUS
  <2>1. CASE IsLast(l, i)
    BY <2>1
  <2>2. CASE ~IsLast(l, i)
    <3>1. PICK j \in DOMAIN l : l[j][1] = l[i][1] /\ ~(j <= i)
      BY <2>2 DEF IsLast
    <3>2. Len(l) - j < n
      BY <1>0, <3>1
    <3>3. Same(j)
      BY <1>2, <3>2
    <3> QED
      BY <3>1, <3>3
  <2> QED
    BY <2>1, <2>2
<1>3. Nat \subseteq T
  <2> HIDE DEF T
  <2> QED
    BY <1>1, <1>2, Induct
<1>4. Len(l) - h + 1 \in T
  BY <1>0, <1>3
<1> QED
  BY <1>0, <1>4

(* The members of a list after those of m, the later ones in their stead. *)
Over(m, later) == later \cup {x \in m : \A y \in later : y[1] # x[1]}

(* A list of one member has it as the last of its key. *)
LEMMA LastOfOne ==
    ASSUME NEW x
    PROVE  LastOfEach(<<x>>) = {x}
<1>1. \A y : y \in LastOfEach(<<x>>) <=> y = x
  <2>1. DOMAIN <<x>> = {1} /\ <<x>>[1] = x
    OBVIOUS
  <2>2. IsLast(<<x>>, 1)
    BY <2>1 DEF IsLast
  <2> QED
    BY <2>1, <2>2, LastPlaces
<1> QED
  BY <1>1

(* A member in front of a list counts if its key does not come again. *)
LEMMA LastOfCons ==
    ASSUME NEW x, NEW l, IsSequence(l)
    PROVE  LastOfEach(Cons(x, l)) = Over({x}, LastOfEach(l))
<1> DEFINE s == Cons(x, l)
           n == Len(l)
<1>1. /\ DOMAIN s = 1 .. n + 1 /\ DOMAIN l = 1 .. n /\ n \in Nat /\ s[1] = x
      /\ \A k \in 1 .. n : s[k + 1] = l[k]
  BY ConsSequence
<1> HIDE DEF s, n
<1>2. \A k \in 2 .. n + 1 : k - 1 \in 1 .. n /\ s[k] = l[k - 1]
  BY <1>1
<1>3. ASSUME NEW k \in 1 .. n PROVE IsLast(s, k + 1) <=> IsLast(l, k)
  <2>1. ASSUME IsLast(s, k + 1), NEW h \in 1 .. n, l[h][1] = l[k][1] PROVE h <= k
    <3>1. h + 1 \in DOMAIN s /\ s[h + 1] = l[h] /\ s[k + 1] = l[k]
      BY <1>1
    <3>2. h + 1 <= k + 1
      BY <2>1, <3>1 DEF IsLast
    <3> QED
      BY <1>1, <3>2
  <2>2. ASSUME IsLast(l, k), NEW h \in 1 .. n + 1, s[h][1] = s[k + 1][1] PROVE h <= k + 1
    <3>1. CASE h = 1
      BY <1>1, <3>1
    <3>2. CASE h # 1
      <4>1. h - 1 \in 1 .. n /\ s[h] = l[h - 1] /\ s[k + 1] = l[k]
        BY <1>1, <1>2, <3>2
      <4>2. h - 1 <= k
        BY <1>1, <2>2, <4>1 DEF IsLast
      <4> QED
        BY <1>1, <4>1, <4>2
    <3> QED
      BY <3>1, <3>2
  <2> QED
    BY <1>1, <2>1, <2>2 DEF IsLast
<1>4. IsLast(s, 1) <=> \A k \in 1 .. n : l[k][1] # x[1]
  <2>1. ASSUME IsLast(s, 1), NEW k \in 1 .. n, l[k][1] = x[1] PROVE FALSE
    <3>1. k + 1 \in DOMAIN s /\ s[k + 1] = l[k]
      BY <1>1
    <3>2. k + 1 <= 1
      BY <1>1, <2>1, <3>1 DEF IsLast
    <3> QED
      BY <1>1, <3>2
  <2>2. ASSUME \A k \in 1 .. n : l[k][1] # x[1], NEW h \in DOMAIN s, s[h][1] = s[1][1]
        PROVE  h <= 1
    BY <1>1, <1>2, <2>2
  <2> QED
    BY <1>1, <2>1, <2>2 DEF IsLast
<1>5. (\A k \in 1 .. n : l[k][1] # x[1]) <=> \A y \in LastOfEach(l) : y[1] # x[1]
  <2>1. ASSUME NEW k \in 1 .. n, l[k][1] = x[1]
        PROVE  \E y \in LastOfEach(l) : y[1] = x[1]
    <3>1. PICK h \in DOMAIN l : IsLast(l, h) /\ l[h][1] = l[k][1]
      BY <1>1, LastPlace
    <3>2. l[h] \in LastOfEach(l)
      BY <3>1, LastPlaces
    <3> QED
      BY <2>1, <3>1, <3>2
  <2>2. ASSUME NEW y \in LastOfEach(l) PROVE \E k \in 1 .. n : y = l[k]
    BY <1>1, LastPlaces
  <2> QED
    BY <2>1, <2>2
<1>6. ASSUME NEW y PROVE y \in LastOfEach(s) <=> y \in LastOfEach(l) \/ (y = x /\ IsLast(s, 1))
  <2>1. ASSUME y \in LastOfEach(s) PROVE y \in LastOfEach(l) \/ (y = x /\ IsLast(s, 1))
    <3>1. PICK k \in DOMAIN s : IsLast(s, k) /\ y = s[k]
      BY <2>1, LastPlaces
    <3>2. CASE k = 1
      BY <1>1, <3>1, <3>2
    <3>3. CASE k # 1
      <4>1. k - 1 \in 1 .. n /\ s[k] = l[k - 1] /\ (k - 1) + 1 = k
        BY <1>1, <1>2, <3>3
      <4>2. IsLast(l, k - 1)
        BY <1>3, <3>1, <4>1
      <4> QED
        BY <1>1, <3>1, <4>1, <4>2, LastPlaces
    <3> QED
      BY <3>2, <3>3
  <2>2. ASSUME y \in LastOfEach(l) PROVE y \in LastOfEach(s)
    <3>1. PICK k \in 1 .. n : IsLast(l, k) /\ y = l[k]
      BY <1>1, <2>2, LastPlaces
    <3>2. IsLast(s, k + 1) /\ s[k + 1] = y /\ k + 1 \in DOMAIN s
      BY <1>1, <1>3, <3>1
    <3> QED
      BY <3>2, LastPlaces
  <2>3. ASSUME IsLast(s, 1) PROVE x \in LastOfEach(s)
    BY <1>1, <2>3, LastPlaces
  <2> QED
    BY <2>1, <2>2, <2>3
<1>7. \A y : y \in LastOfEach(s) <=> y \in Over({x}, LastOfEach(l))
  BY <1>4, <1>5, <1>6 DEF Over
<1>8. LastOfEach(s) = Over({x}, LastOfEach(l))
  BY <1>7
<1> QED
  BY <1>8 DEF s

-----------------------------------------------------------------------------
ClosingOf(type) == IF type = "array" THEN EndArray ELSE EndObject

(* The value that a container becomes when the parts of l follow. *)
With(f, l) ==
    IF f.type = "array" THEN ArrayValue(f.items \o l)
    ELSE ObjectValue(Over(f.members, LastOfEach(l)))

(* The container with one more part: an element, or a key and its value. *)
Keyed(f, key) == [f EXCEPT !.key = key]
Add(f, x) == IF f.type = "array" THEN Received(f, x) ELSE Received(Keyed(f, x[1]), x[2])

IsPart(f, x) == f.type = "object" => x = <<x[1], x[2]>>

(* A container with a key set is one still, otherwise unchanged. *)
LEMMA KeyedFrame ==
    ASSUME NEW f, IsFrame(f), NEW key
    PROVE  /\ IsFrame(Keyed(f, key))
           /\ Keyed(f, key) = [type |-> f.type, items |-> f.items, members |-> f.members,
                               key |-> key]
  BY DEF IsFrame, Keyed

(* What a container is with one more part. *)
LEMMA AddFrame ==
    ASSUME NEW f, IsFrame(f), NEW x
    PROVE  /\ IsFrame(Add(f, x)) /\ Add(f, x).type = f.type
           /\ f.type = "array" => Add(f, x).items = Append(f.items, x)
           /\ f.type = "object" =>
                  Add(f, x).members = {m \in f.members : m[1] # x[1]} \cup {<<x[1], x[2]>>}
<1>1. CASE f.type = "array"
  <2>1. Add(f, x) = Received(f, x)
    BY <1>1 DEF Add
  <2>2. Received(f, x) = [f EXCEPT !.items = Append(@, x)]
    BY <1>1 DEF Received
  <2>3. f = [type |-> f.type, items |-> f.items, members |-> f.members, key |-> f.key]
    BY DEF IsFrame
  <2>4. Received(f, x).items = Append(f.items, x)
    BY <2>2, <2>3
  <2> QED
    BY <1>1, <2>1, <2>4, Receives
<1>2. CASE f.type = "object"
  <2> DEFINE g == Keyed(f, x[1])
             m == InsertOrAssign(g.members, g.key, x[2])
  <2>1. /\ IsFrame(g)
        /\ g = [type |-> f.type, items |-> f.items, members |-> f.members, key |-> x[1]]
    BY KeyedFrame
  <2>2. g.type = "object" /\ g.members = f.members /\ g.key = x[1]
    BY <1>2, <2>1
  <2>3. Add(f, x) = Received(g, x[2])
    BY <1>2 DEF Add
  <2>4. m = {y \in f.members : y[1] # x[1]} \cup {<<x[1], x[2]>>}
    BY <2>2 DEF InsertOrAssign
  <2>5. Received(g, x[2]) = [g EXCEPT !.members = m]
    BY <2>2 DEF Received
  <2> HIDE DEF g, m
  <2>6. Received(g, x[2]).members = m
    BY <2>1, <2>5
  <2> QED
    BY <1>2, <2>1, <2>2, <2>3, <2>4, <2>6, Receives
<1> QED
  BY <1>1, <1>2 DEF IsFrame

(* To add a part and then others is to add all of them. *)
LEMMA AddWith ==
    ASSUME NEW f, IsFrame(f), NEW x, IsPart(f, x)
    PROVE  /\ With(f, <<x>>) = Made(Add(f, x))
           /\ \A l : IsSequence(l) => With(f, Cons(x, l)) = With(Add(f, x), l)
<1> DEFINE g == Add(f, x)
<1>1. /\ IsFrame(g) /\ g.type = f.type
      /\ f.type = "array" => g.items = Append(f.items, x)
      /\ f.type = "object" =>
             g.members = {m \in f.members : m[1] # x[1]} \cup {<<x[1], x[2]>>}
  BY AddFrame
<1> HIDE DEF g
<1>2. CASE f.type = "array"
  <2>1. With(f, <<x>>) = Made(g)
    <3>1. IsSequence(f.items)
      BY DEF IsFrame
    <3>2. f.items \o <<x>> = Append(f.items, x)
      BY <3>1, OneAppended
    <3> QED
      BY <1>1, <1>2, <3>2 DEF With, Made
  <2>2. ASSUME NEW l, IsSequence(l) PROVE With(f, Cons(x, l)) = With(g, l)
    <3>1. IsSequence(f.items)
      BY DEF IsFrame
    <3>2. Append(f.items, x) \o l = f.items \o Cons(x, l)
      BY <2>2, <3>1, AppendCons
    <3> QED
      BY <1>1, <1>2, <3>2 DEF With
  <2> QED
    BY <2>1, <2>2 DEF g
<1>3. CASE f.type = "object"
  <2>1. x = <<x[1], x[2]>>
    BY <1>3 DEF IsPart
  <2>2. g.members = Over(f.members, {x})
    BY <1>1, <1>3, <2>1 DEF Over
  <2>3. With(f, <<x>>) = Made(g)
    BY <1>1, <1>3, <2>2, LastOfOne DEF With, Made
  <2>4. ASSUME NEW l, IsSequence(l) PROVE With(f, Cons(x, l)) = With(g, l)
    <3>1. LastOfEach(Cons(x, l)) = Over({x}, LastOfEach(l))
      BY <2>4, LastOfCons
    <3>2. ASSUME NEW m, NEW later
          PROVE  Over(m, Over({x}, later)) = Over(Over(m, {x}), later)
      BY DEF Over
    <3>3. Over(f.members, LastOfEach(Cons(x, l))) = Over(g.members, LastOfEach(l))
      BY <2>2, <3>1, <3>2
    <3> QED
      BY <1>1, <1>3, <3>3 DEF With
  <2> QED
    BY <2>3, <2>4 DEF g
<1> QED
  BY <1>2, <1>3 DEF IsFrame

-----------------------------------------------------------------------------
(* The parts of a container of the type, with at most d levels in each. *)
Parts(text, type, d) ==
    IF type = "array" THEN Meanings(text)[d] ELSE Members(text, Meanings(text)[d])

(* From i to j the text denotes w; it is the part x. *)
Means(text, d, i, j, w) == w \in Meanings(text)[d][i][j]
Holds(text, type, d, i, j, x) == x \in Parts(text, type, d)[i][j]

(* A leaf is one token that is a string or a scalar. *)
LEMMA LeafMeaning ==
    ASSUME NEW text, NEW i \in DOMAIN text, NEW j \in DOMAIN text, NEW w
    PROVE  w \in Leaves(text)[i][j]
               <=> i = j /\ text[i] \in Strings \cup Scalars /\ w = Leaf(text[i])
  BY DEF Leaves

(* A text denotes a leaf or a container. *)
LEMMA Meant ==
    ASSUME NEW text, NEW d \in 0 .. MaxDepth, NEW i \in DOMAIN text, NEW j \in DOMAIN text, NEW w
    PROVE  Means(text, d, i, j, w) <=>
               \/ i = j /\ text[i] \in Strings \cup Scalars /\ w = Leaf(text[i])
               \/ /\ d # 0
                  /\ \E l \in Enclosed(text, BeginArray, EndArray, Meanings(text)[d - 1], i, j) :
                         w = ArrayValue(l)
               \/ /\ d # 0
                  /\ \E l \in Enclosed(text, BeginObject, EndObject,
                                      Members(text, Meanings(text)[d - 1]), i, j) :
                         w = ObjectValue(LastOfEach(l))
<1>1. CASE d = 0
  <2>1. Meanings(text)[d] = Leaves(text)
    BY <1>1, MeaningsStep
  <2> QED
    BY <1>1, <2>1, LeafMeaning DEF Means
<1>2. CASE d # 0
  <2>1. PICK inner : inner = Meanings(text)[d - 1]
    OBVIOUS
  <2>2. Meanings(text)[d] = Values(text, inner)
    BY <1>2, <2>1, MeaningsStep
  <2>3. Values(text, inner)[i][j]
            = Leaves(text)[i][j]
              \cup {ArrayValue(l) : l \in Enclosed(text, BeginArray, EndArray, inner, i, j)}
              \cup {ObjectValue(LastOfEach(l)) :
                       l \in Enclosed(text, BeginObject, EndObject, Members(text, inner), i, j)}
    BY DEF Values
  <2>4. PICK arrays, objects :
            /\ arrays = Enclosed(text, BeginArray, EndArray, inner, i, j)
            /\ objects = Enclosed(text, BeginObject, EndObject, Members(text, inner), i, j)
    OBVIOUS
  <2>5. w \in Values(text, inner)[i][j] <=>
            \/ w \in Leaves(text)[i][j]
            \/ \E l \in arrays : w = ArrayValue(l)
            \/ \E l \in objects : w = ObjectValue(LastOfEach(l))
    BY <2>3, <2>4
  <2> QED
    BY <1>2, <2>1, <2>2, <2>4, <2>5, LeafMeaning DEF Means
<1> QED
  BY <1>1, <1>2

(* A meaning has a first token, which tells its kind, and does not end before it. *)
LEMMA FirstToken ==
    ASSUME NEW text, IsSequence(text), NEW d \in 0 .. MaxDepth,
           NEW i \in DOMAIN text, NEW j \in DOMAIN text, NEW w, Means(text, d, i, j, w)
    PROVE  /\ i <= j
           /\ \/ text[i] \in Strings \cup Scalars
              \/ d # 0 /\ text[i] \in {BeginArray, BeginObject}
<1>1. i \in Nat /\ j \in Nat
  BY DEF IsSequence
<1>2. ASSUME NEW open, NEW close, NEW part, NEW l, l \in Enclosed(text, open, close, part, i, j)
      PROVE  i < j /\ text[i] = open
  BY <1>1, <1>2 DEF Enclosed
<1>3. CASE i = j /\ text[i] \in Strings \cup Scalars
  <2>1. i <= j
    BY <1>1, <1>3
  <2> QED
    BY <1>3, <2>1, Zenon
<1>4. ASSUME d # 0, NEW l, l \in Enclosed(text, BeginArray, EndArray, Meanings(text)[d - 1], i, j)
      PROVE  i <= j /\ text[i] \in {BeginArray, BeginObject}
  <2>1. i < j /\ text[i] = BeginArray
    BY <1>2, <1>4
  <2>2. i <= j
    BY <1>1, <2>1
  <2> QED
    BY <2>1, <2>2
<1>5. ASSUME d # 0, NEW l,
             l \in Enclosed(text, BeginObject, EndObject, Members(text, Meanings(text)[d - 1]), i, j)
      PROVE  i <= j /\ text[i] \in {BeginArray, BeginObject}
  <2>0. PICK members : members = Members(text, Meanings(text)[d - 1])
    OBVIOUS
  <2>1. l \in Enclosed(text, BeginObject, EndObject, members, i, j)
    BY <1>5, <2>0
  <2>2. i < j /\ text[i] = BeginObject
    BY <1>2, <2>1
  <2>3. i <= j
    BY <1>1, <2>2
  <2> QED
    BY <2>2, <2>3
<1> QED
  BY <1>3, <1>4, <1>5, Meant

(* A member is a key, a colon and a meaning. *)
LEMMA MemberMeaning ==
    ASSUME NEW text, NEW meaning, NEW i \in DOMAIN text, NEW j \in DOMAIN text, NEW x
    PROVE  x \in Members(text, meaning)[i][j] <=>
               /\ i + 2 <= j /\ text[i] \in Strings /\ text[i + 1] = Colon
               /\ \E y \in meaning[i + 2][j] : x = <<text[i], y>>
  BY DEF Members

(* A part of an array is a value. *)
LEMMA ElementHeld ==
    ASSUME NEW text, NEW d, NEW i \in DOMAIN text, NEW j \in DOMAIN text, NEW x
    PROVE  Holds(text, "array", d, i, j, x) <=> Means(text, d, i, j, x)
  BY DEF Holds, Parts, Means

(* A part of an object is a key, a colon and a value. *)
LEMMA MemberHeld ==
    ASSUME NEW text, NEW d, NEW i \in DOMAIN text, NEW j \in DOMAIN text, NEW x
    PROVE  Holds(text, "object", d, i, j, x) <=>
               /\ i + 2 <= j /\ text[i] \in Strings /\ text[i + 1] = Colon
               /\ \E y : Means(text, d, i + 2, j, y) /\ x = <<text[i], y>>
<1>1. PICK meaning : meaning = Meanings(text)[d]
  OBVIOUS
<1>2. Holds(text, "object", d, i, j, x) <=> x \in Members(text, meaning)[i][j]
  BY <1>1 DEF Holds, Parts
<1>3. \A y : Means(text, d, i + 2, j, y) <=> y \in meaning[i + 2][j]
  BY <1>1 DEF Means
<1> QED
  BY <1>2, <1>3, MemberMeaning

(* A part does not end before it begins, and a member is a pair. *)
LEMMA PartPlaces ==
    ASSUME NEW text, IsSequence(text), NEW d \in 0 .. MaxDepth, NEW f, IsFrame(f),
           NEW i \in DOMAIN text, NEW j \in DOMAIN text, NEW x, Holds(text, f.type, d, i, j, x)
    PROVE  i <= j /\ IsPart(f, x)
<1>1. i \in Nat /\ j \in Nat
  BY DEF IsSequence
<1>2. CASE f.type = "array"
  BY <1>2, FirstToken, ElementHeld DEF IsPart
<1>3. CASE f.type = "object"
  <2>1. i + 2 <= j /\ \E y : x = <<text[i], y>>
    BY <1>3, MemberHeld
  <2> QED
    BY <1>1, <2>1 DEF IsPart
<1> QED
  BY <1>2, <1>3 DEF IsFrame

-----------------------------------------------------------------------------
(* From i on come the rest of the parts of f, up to the bracket at q, and f
   becomes u.                                                               *)
RestAt(text, f, d, i, q, u) ==
    /\ i \in DOMAIN text /\ q \in DOMAIN text /\ i < q
    /\ text[q] = ClosingOf(f.type)
    /\ \E l \in Lists(text, Parts(text, f.type, d), q - 1)[i] : u = With(f, l)

(* The same after a part, where a comma must come first. *)
AfterPart(text, f, d, i, q, u) ==
    /\ i \in DOMAIN text /\ q \in DOMAIN text
    /\ \/ q = i /\ text[i] = ClosingOf(f.type) /\ u = Made(f)
       \/ text[i] = Comma /\ RestAt(text, f, d, i + 1, q, u)

(* The rest of the parts of a container is a part and what follows it. *)
LEMMA RestCut ==
    ASSUME NEW text, IsSequence(text), NEW d \in 0 .. MaxDepth, NEW f, IsFrame(f),
           NEW i \in DOMAIN text, NEW q, NEW u
    PROVE  RestAt(text, f, d, i, q, u) <=>
               \E p \in DOMAIN text : \E x :
                   Holds(text, f.type, d, i, p, x) /\ AfterPart(text, Add(f, x), d, p + 1, q, u)
<1> DEFINE part == Parts(text, f.type, d)
           lists == Lists(text, part, q - 1)
<1>1. DOMAIN text = 1 .. Len(text) /\ Len(text) \in Nat
  BY DEF IsSequence
<1>2. \A p, x : Holds(text, f.type, d, i, p, x) <=> x \in part[i][p]
  BY DEF Holds
<1>3. ASSUME NEW x PROVE IsFrame(Add(f, x)) /\ Add(f, x).type = f.type
  BY AddFrame
<1>4. ASSUME NEW p \in DOMAIN text, NEW x, Holds(text, f.type, d, i, p, x)
      PROVE  /\ i <= p /\ With(f, <<x>>) = Made(Add(f, x))
             /\ \A l : IsSequence(l) => With(f, Cons(x, l)) = With(Add(f, x), l)
  BY <1>4, AddWith, PartPlaces
<1>5. ASSUME q \in DOMAIN text, i < q
      PROVE  /\ q - 1 \in Nat /\ i \in 1 .. q - 1
             /\ \A k \in 1 .. q - 1 : \A l \in lists[k] : IsSequence(l)
             /\ \A l : l \in lists[i] <=> IsCut(text, part, lists, q - 1, i, l)
  <2>1. q - 1 \in Nat /\ i \in 1 .. q - 1
    BY <1>1, <1>5
  <2> HIDE DEF part
  <2>2. ASSUME NEW k \in 1 .. q - 1, NEW l \in lists[k] PROVE IsSequence(l)
    BY <2>1, ListsAreSequences
  <2>3. ASSUME NEW l PROVE l \in lists[i] <=> IsCut(text, part, lists, q - 1, i, l)
    BY <2>1, ListsCut
  <2> QED
    BY <2>1, <2>2, <2>3
<1>6. RestAt(text, f, d, i, q, u) <=>
          /\ q \in DOMAIN text /\ i < q /\ text[q] = ClosingOf(f.type)
          /\ \E l \in lists[i] : u = With(f, l)
  BY DEF RestAt
<1>7. ASSUME NEW x, NEW k \in DOMAIN text
      PROVE  RestAt(text, Add(f, x), d, k, q, u) <=>
                 /\ q \in DOMAIN text /\ k < q /\ text[q] = ClosingOf(f.type)
                 /\ \E l \in lists[k] : u = With(Add(f, x), l)
  BY <1>3 DEF RestAt
<1>8. ASSUME NEW x, NEW p \in DOMAIN text
      PROVE  AfterPart(text, Add(f, x), d, p + 1, q, u) <=>
                 /\ p + 1 \in DOMAIN text /\ q \in DOMAIN text
                 /\ \/ q = p + 1 /\ text[p + 1] = ClosingOf(f.type) /\ u = Made(Add(f, x))
                    \/ text[p + 1] = Comma /\ RestAt(text, Add(f, x), d, p + 2, q, u)
  <2>1. (p + 1) + 1 = p + 2
    BY <1>1
  <2> QED
    BY <1>3, <2>1 DEF AfterPart
<1> HIDE DEF part, lists
<1>9. ASSUME RestAt(text, f, d, i, q, u)
      PROVE  \E p \in DOMAIN text : \E x :
                 Holds(text, f.type, d, i, p, x) /\ AfterPart(text, Add(f, x), d, p + 1, q, u)
  <2>1. /\ q \in DOMAIN text /\ i < q /\ text[q] = ClosingOf(f.type)
        /\ q - 1 \in Nat /\ i \in 1 .. q - 1 /\ q \in Nat /\ i \in Nat
    BY <1>1, <1>5, <1>6, <1>9
  <2>2. PICK l \in lists[i] : u = With(f, l)
    BY <1>6, <1>9
  <2>3. IsCut(text, part, lists, q - 1, i, l)
    BY <1>5, <2>1
  <2>4. CASE \E x \in part[i][q - 1] : l = <<x>>
    <3>1. PICK x \in part[i][q - 1] : l = <<x>>
      BY <2>4
    <3>2. PICK p : p = q - 1
      OBVIOUS
    <3>3. p \in DOMAIN text /\ p + 1 = q
      BY <1>1, <2>1, <3>2
    <3>4. Holds(text, f.type, d, i, p, x)
      BY <1>2, <3>1, <3>2
    <3>5. u = Made(Add(f, x))
      BY <1>4, <2>2, <3>1, <3>3, <3>4
    <3> QED
      BY <1>8, <2>1, <3>3, <3>4, <3>5
  <2>5. CASE \E p \in i .. (q - 1) - 2 :
                 /\ text[p + 1] = Comma
                 /\ \E x \in part[i][p], rest \in lists[p + 2] : l = Cons(x, rest)
    <3>1. PICK p \in i .. (q - 1) - 2 :
              /\ text[p + 1] = Comma
              /\ \E x \in part[i][p], rest \in lists[p + 2] : l = Cons(x, rest)
      BY <2>5
    <3>2. PICK x \in part[i][p], rest \in lists[p + 2] : l = Cons(x, rest)
      BY <3>1
    <3>3. /\ p \in DOMAIN text /\ p + 1 \in DOMAIN text /\ p + 2 \in DOMAIN text
          /\ p + 2 < q /\ p + 2 \in 1 .. q - 1
      BY <1>1, <2>1
    <3>4. Holds(text, f.type, d, i, p, x)
      BY <1>2, <3>2
    <3>5. IsSequence(rest)
      BY <1>5, <2>1, <3>2, <3>3
    <3>6. u = With(Add(f, x), rest)
      BY <1>4, <2>2, <3>2, <3>3, <3>4, <3>5
    <3>7. RestAt(text, Add(f, x), d, p + 2, q, u)
      BY <1>7, <2>1, <3>2, <3>3, <3>6
    <3>8. AfterPart(text, Add(f, x), d, p + 1, q, u)
      BY <1>8, <2>1, <3>1, <3>3, <3>7
    <3> QED
      BY <3>3, <3>4, <3>8
  <2> QED
    BY <2>3, <2>4, <2>5 DEF IsCut
<1>10. ASSUME NEW p \in DOMAIN text, NEW x, Holds(text, f.type, d, i, p, x),
              AfterPart(text, Add(f, x), d, p + 1, q, u)
       PROVE  RestAt(text, f, d, i, q, u)
  <2>1. /\ p + 1 \in DOMAIN text /\ q \in DOMAIN text /\ i <= p /\ x \in part[i][p]
        /\ i \in Nat /\ p \in Nat /\ q \in Nat
    <3>1. p + 1 \in DOMAIN text /\ q \in DOMAIN text
      BY <1>8, <1>10
    <3>2. i <= p /\ x \in part[i][p]
      BY <1>2, <1>4, <1>10
    <3> QED
      BY <1>1, <3>1, <3>2
  <2>2. CASE q = p + 1 /\ text[p + 1] = ClosingOf(f.type) /\ u = Made(Add(f, x))
    <3>1. i < q /\ q - 1 = p /\ text[q] = ClosingOf(f.type)
      BY <2>1, <2>2
    <3>2. IsCut(text, part, lists, q - 1, i, <<x>>)
      BY <2>1, <3>1 DEF IsCut
    <3>3. <<x>> \in lists[i]
      BY <1>5, <2>1, <3>1, <3>2
    <3>4. u = With(f, <<x>>)
      BY <1>4, <1>10, <2>2
    <3> QED
      BY <1>6, <2>1, <3>1, <3>3, <3>4
  <2>3. CASE text[p + 1] = Comma /\ RestAt(text, Add(f, x), d, p + 2, q, u)
    <3>1. p + 2 \in DOMAIN text
      BY <2>3 DEF RestAt
    <3>2. /\ p + 2 < q /\ text[q] = ClosingOf(f.type)
          /\ \E l \in lists[p + 2] : u = With(Add(f, x), l)
      BY <1>7, <2>3, <3>1
    <3>3. PICK rest \in lists[p + 2] : u = With(Add(f, x), rest)
      BY <3>2
    <3>4. i < q /\ p \in i .. (q - 1) - 2 /\ p + 2 \in 1 .. q - 1
      BY <2>1, <3>2
    <3>5. IsCut(text, part, lists, q - 1, i, Cons(x, rest))
      BY <2>1, <2>3, <3>3, <3>4 DEF IsCut
    <3>6. Cons(x, rest) \in lists[i]
      BY <1>5, <2>1, <3>4, <3>5
    <3>7. IsSequence(rest)
      BY <1>5, <2>1, <3>3, <3>4
    <3>8. u = With(f, Cons(x, rest))
      BY <1>4, <1>10, <3>3, <3>7
    <3> QED
      BY <1>6, <2>1, <3>2, <3>4, <3>6, <3>8
  <2> QED
    BY <1>8, <1>10, <2>2, <2>3
<1> QED
  BY <1>9, <1>10

-----------------------------------------------------------------------------
(* w, which ends at p, goes to the innermost of the containers st, each of which
   becomes vals[k - 1] at ends[k - 1], the outermost v at the end of the text. *)
IsChain(text, st, ends, vals, p, w, v) ==
    /\ ends \in [0 .. Len(st) -> DOMAIN text]
    /\ ends[Len(st)] = p /\ vals[Len(st)] = w
    /\ ends[0] = Len(text) /\ vals[0] = v
    /\ \A k \in 1 .. Len(st) :
           AfterPart(text, Received(st[k], vals[k]), MaxDepth - k,
                     ends[k] + 1, ends[k - 1], vals[k - 1])
Completes(text, st, p, w, v) == \E ends, vals : IsChain(text, st, ends, vals, p, w, v)

(* With no container open a value completes the text at its last token. *)
LEMMA CompletesNone ==
    ASSUME NEW text, IsSequence(text), NEW p, NEW w, NEW v
    PROVE  Completes(text, <<>>, p, w, v) <=> p \in DOMAIN text /\ p = Len(text) /\ w = v
<1>0. Len(<<>>) = 0 /\ 0 .. 0 = {0} /\ 1 .. 0 = {}
  OBVIOUS
<1>1. ASSUME p \in DOMAIN text, p = Len(text), w = v PROVE Completes(text, <<>>, p, w, v)
  <2>1. PICK ends : ends = [k \in {0} |-> p]
    OBVIOUS
  <2>2. PICK vals : vals = [k \in {0} |-> w]
    OBVIOUS
  <2>3. ends \in [{0} -> DOMAIN text] /\ ends[0] = p /\ vals[0] = w
    BY <1>1, <2>1, <2>2
  <2>4. IsChain(text, <<>>, ends, vals, p, w, v)
    BY <1>0, <1>1, <2>3 DEF IsChain
  <2> QED
    BY <2>4 DEF Completes
<1>2. ASSUME Completes(text, <<>>, p, w, v) PROVE p \in DOMAIN text /\ p = Len(text) /\ w = v
  <2>1. PICK ends, vals : IsChain(text, <<>>, ends, vals, p, w, v)
    BY <1>2 DEF Completes
  <2>2. /\ ends \in [{0} -> DOMAIN text] /\ ends[0] = p /\ vals[0] = w
        /\ ends[0] = Len(text) /\ vals[0] = v
    BY <1>0, <2>1 DEF IsChain
  <2> QED
    BY <2>2
<1> QED
  BY <1>1, <1>2

(* With one more container it is that one first and then the others. *)
LEMMA CompletesMore ==
    ASSUME NEW text, IsSequence(text), NEW st, IsSequence(st), NEW f, NEW p, NEW w, NEW v
    PROVE  Completes(text, Append(st, f), p, w, v) <=>
               /\ p \in DOMAIN text
               /\ \E q \in DOMAIN text : \E u :
                      /\ AfterPart(text, Received(f, w), MaxDepth - (Len(st) + 1), p + 1, q, u)
                      /\ Completes(text, st, q, u, v)
<1> DEFINE more == Append(st, f)
           n == Len(st)
<1>1. /\ Len(more) = n + 1 /\ n \in Nat /\ more[n + 1] = f
      /\ \A k \in 1 .. n : more[k] = st[k]
  BY OneMore
<1> HIDE DEF more, n
<1>2. ASSUME Completes(text, more, p, w, v)
      PROVE  /\ p \in DOMAIN text
             /\ \E q \in DOMAIN text : \E u :
                    /\ AfterPart(text, Received(f, w), MaxDepth - (n + 1), p + 1, q, u)
                    /\ Completes(text, st, q, u, v)
  <2>1. PICK ends, vals : IsChain(text, more, ends, vals, p, w, v)
    BY <1>2 DEF Completes
  <2>2. /\ ends \in [0 .. n + 1 -> DOMAIN text]
        /\ ends[n + 1] = p /\ vals[n + 1] = w
        /\ ends[0] = Len(text) /\ vals[0] = v
    BY <1>1, <2>1 DEF IsChain
  <2>3. ASSUME NEW k \in 1 .. n + 1
        PROVE  AfterPart(text, Received(more[k], vals[k]), MaxDepth - k,
                         ends[k] + 1, ends[k - 1], vals[k - 1])
    BY <1>1, <2>1 DEF IsChain
  <2>4. p \in DOMAIN text /\ ends[n] \in DOMAIN text
    BY <1>1, <2>2
  <2>5. AfterPart(text, Received(f, w), MaxDepth - (n + 1), p + 1, ends[n], vals[n])
    <3>1. n + 1 \in 1 .. n + 1 /\ (n + 1) - 1 = n
      BY <1>1
    <3>2. AfterPart(text, Received(more[n + 1], vals[n + 1]), MaxDepth - (n + 1),
                    ends[n + 1] + 1, ends[(n + 1) - 1], vals[(n + 1) - 1])
      BY <2>3, <3>1
    <3> QED
      BY <1>1, <2>2, <3>1, <3>2
  <2>6. IsChain(text, st, [k \in 0 .. n |-> ends[k]], vals, ends[n], vals[n], v)
    <3>1. PICK e : e = [k \in 0 .. n |-> ends[k]]
      OBVIOUS
    <3>2. e \in [0 .. n -> DOMAIN text] /\ \A k \in 0 .. n : e[k] = ends[k]
      BY <1>1, <2>2, <3>1
    <3>3. ASSUME NEW k \in 1 .. n
          PROVE  AfterPart(text, Received(st[k], vals[k]), MaxDepth - k,
                           e[k] + 1, e[k - 1], vals[k - 1])
      <4>1. k \in 1 .. n + 1 /\ k \in 0 .. n /\ k - 1 \in 0 .. n
        BY <1>1
      <4>2. more[k] = st[k] /\ e[k] = ends[k] /\ e[k - 1] = ends[k - 1]
        BY <1>1, <3>2, <4>1
      <4>3. AfterPart(text, Received(more[k], vals[k]), MaxDepth - k,
                      ends[k] + 1, ends[k - 1], vals[k - 1])
        BY <2>3, <4>1
      <4> QED
        BY <4>2, <4>3
    <3>4. n \in 0 .. n /\ 0 \in 0 .. n
      BY <1>1
    <3>5. e[n] = ends[n] /\ e[0] = Len(text) /\ vals[0] = v
      BY <2>2, <3>2, <3>4
    <3>6. IsChain(text, st, e, vals, ends[n], vals[n], v)
      BY <3>2, <3>3, <3>5 DEF IsChain, n
    <3> QED
      BY <3>1, <3>6
  <2>7. Completes(text, st, ends[n], vals[n], v)
    BY <2>6 DEF Completes
  <2> QED
    BY <2>4, <2>5, <2>7
<1>3. ASSUME p \in DOMAIN text, NEW q \in DOMAIN text, NEW u,
             AfterPart(text, Received(f, w), MaxDepth - (n + 1), p + 1, q, u),
             Completes(text, st, q, u, v)
      PROVE  Completes(text, more, p, w, v)
  <2>1. PICK ends, vals : IsChain(text, st, ends, vals, q, u, v)
    BY <1>3 DEF Completes
  <2>2. /\ ends \in [0 .. n -> DOMAIN text]
        /\ ends[n] = q /\ vals[n] = u
        /\ ends[0] = Len(text) /\ vals[0] = v
    BY <2>1 DEF IsChain, n
  <2>3. ASSUME NEW k \in 1 .. n
        PROVE  AfterPart(text, Received(st[k], vals[k]), MaxDepth - k,
                         ends[k] + 1, ends[k - 1], vals[k - 1])
    BY <2>1 DEF IsChain, n
  <2>4. PICK e : e = [k \in 0 .. n + 1 |-> IF k = n + 1 THEN p ELSE ends[k]]
    OBVIOUS
  <2>5. PICK s : s = [k \in 0 .. n + 1 |-> IF k = n + 1 THEN w ELSE vals[k]]
    OBVIOUS
  <2>6. /\ e \in [0 .. n + 1 -> DOMAIN text]
        /\ e[n + 1] = p /\ \A k \in 0 .. n : e[k] = ends[k]
    BY <1>1, <1>3, <2>2, <2>4
  <2>7. s[n + 1] = w /\ \A k \in 0 .. n : s[k] = vals[k]
    BY <1>1, <2>5
  <2>8. ASSUME NEW k \in 1 .. n + 1
        PROVE  AfterPart(text, Received(more[k], s[k]), MaxDepth - k,
                         e[k] + 1, e[k - 1], s[k - 1])
    <3>1. CASE k = n + 1
      <4>1. k - 1 = n /\ n \in 0 .. n
        BY <1>1, <3>1
      <4>2. e[k] = p /\ s[k] = w /\ more[k] = f /\ e[k - 1] = q /\ s[k - 1] = u
        BY <1>1, <2>2, <2>6, <2>7, <3>1, <4>1
      <4> QED
        BY <1>3, <3>1, <4>2
    <3>2. CASE k # n + 1
      <4>1. k \in 1 .. n /\ k \in 0 .. n /\ k - 1 \in 0 .. n
        BY <1>1, <3>2
      <4>2. /\ more[k] = st[k] /\ e[k] = ends[k] /\ e[k - 1] = ends[k - 1]
            /\ s[k] = vals[k] /\ s[k - 1] = vals[k - 1]
        BY <1>1, <2>6, <2>7, <4>1
      <4>3. AfterPart(text, Received(st[k], vals[k]), MaxDepth - k,
                      ends[k] + 1, ends[k - 1], vals[k - 1])
        BY <2>3, <4>1
      <4> QED
        BY <4>2, <4>3
    <3> QED
      BY <3>1, <3>2
  <2>9. 0 \in 0 .. n
    BY <1>1
  <2>10. e[0] = Len(text) /\ s[0] = v
    BY <2>2, <2>6, <2>7, <2>9
  <2>11. IsChain(text, more, e, s, p, w, v)
    BY <1>1, <2>6, <2>7, <2>8, <2>10 DEF IsChain
  <2> QED
    BY <2>11 DEF Completes
<1> QED
  BY <1>2, <1>3 DEF more, n

-----------------------------------------------------------------------------
(* What a text means whose tokens before i have been read, with the containers
   st open: a value comes at i,                                             *)
ValueAt(text, i, st, v) ==
    /\ i \in DOMAIN text
    /\ \E p \in DOMAIN text : \E w :
           Means(text, MaxDepth - Len(st), i, p, w) /\ Completes(text, st, p, w, v)

(* a key with its value, *)
KeyAt(text, i, st, v) ==
    /\ i \in DOMAIN text /\ text[i] \in Strings
    /\ i + 1 \in DOMAIN text /\ text[i + 1] = Colon
    /\ ValueAt(text, i + 2, Append(Front(st), Keyed(Last(st), text[i])), v)

(* a part of the innermost container, *)
PartAt(text, i, st, v) ==
    \/ Last(st).type = "array" /\ ValueAt(text, i, st, v)
    \/ Last(st).type = "object" /\ KeyAt(text, i, st, v)

(* its end, *)
EndAt(text, i, st, v) ==
    /\ i \in DOMAIN text /\ text[i] = ClosingOf(Last(st).type)
    /\ Completes(text, Front(st), i, Made(Last(st)), v)

(* or its end or a comma and a part. *)
CommaOrEndAt(text, i, st, v) ==
    \/ EndAt(text, i, st, v)
    \/ i \in DOMAIN text /\ text[i] = Comma /\ PartAt(text, i + 1, st, v)

(* The stack with one more container, and that container taken away. *)
LEMMA Appended ==
    ASSUME NEW st, IsSequence(st), NEW f
    PROVE  /\ IsSequence(Append(st, f)) /\ Len(Append(st, f)) = Len(st) + 1 /\ Len(st) \in Nat
           /\ Front(Append(st, f)) = st /\ Last(Append(st, f)) = f
<1>1. /\ IsSequence(Append(st, f)) /\ Len(Append(st, f)) = Len(st) + 1 /\ Len(st) \in Nat
      /\ Append(st, f)[Len(st) + 1] = f
      /\ \A i \in 1 .. Len(st) : Append(st, f)[i] = st[i]
  BY OneMore
<1>2. st \in Seq(Range(st) \cup {f})
  BY DEF IsSequence
<1>3. Front(Append(st, f)) = st
  BY <1>2 DEF Front
<1>4. Last(Append(st, f)) = f
  BY <1>1 DEF Last
<1> QED
  BY <1>1, <1>3, <1>4

(* What follows in a container, told by lists, is what follows in it, told part
   by part.                                                                 *)
LEMMA RestMeans ==
    ASSUME NEW text, IsSequence(text), NEW st, IsSequence(st), Len(st) < MaxDepth,
           NEW f, IsFrame(f), NEW i \in DOMAIN text, NEW v
    PROVE  (\E q \in DOMAIN text : \E u :
                RestAt(text, f, MaxDepth - (Len(st) + 1), i, q, u) /\ Completes(text, st, q, u, v))
           <=> PartAt(text, i, Append(st, f), v)
<1> DEFINE d == MaxDepth - (Len(st) + 1)
           Follows(g, p, w) ==
               \E q \in DOMAIN text : \E u :
                   AfterPart(text, Received(g, w), d, p + 1, q, u) /\ Completes(text, st, q, u, v)
           Goes(p, x) ==
               \E q \in DOMAIN text : \E u :
                   AfterPart(text, Add(f, x), d, p + 1, q, u) /\ Completes(text, st, q, u, v)
           Whole ==
               \E q \in DOMAIN text : \E u :
                   RestAt(text, f, d, i, q, u) /\ Completes(text, st, q, u, v)
<1>1. d \in 0 .. MaxDepth /\ Len(st) \in Nat
  BY Appended, LimitsAssumption
<1>2. ASSUME NEW g
      PROVE  /\ Front(Append(st, g)) = st /\ Last(Append(st, g)) = g
             /\ MaxDepth - Len(Append(st, g)) = d
  BY Appended
<1>3. ASSUME NEW g, NEW p \in DOMAIN text, NEW w
      PROVE  Completes(text, Append(st, g), p, w, v) <=> Follows(g, p, w)
  BY CompletesMore
<1>4. DOMAIN text = 1 .. Len(text) /\ Len(text) \in Nat /\ i \in Nat
  BY DEF IsSequence
<1> HIDE DEF d
<1>5. ASSUME NEW q, NEW u
      PROVE  RestAt(text, f, d, i, q, u) <=>
                 \E p \in DOMAIN text : \E x :
                     Holds(text, f.type, d, i, p, x) /\ AfterPart(text, Add(f, x), d, p + 1, q, u)
  BY <1>1, RestCut
<1>6. Whole <=> \E p \in DOMAIN text : \E x : Holds(text, f.type, d, i, p, x) /\ Goes(p, x)
  BY <1>5
<1> HIDE DEF Whole
<1>7. ASSUME f.type = "array" PROVE Whole <=> PartAt(text, i, Append(st, f), v)
  <2>1. ASSUME NEW p \in DOMAIN text, NEW x
        PROVE  Goes(p, x) <=> Completes(text, Append(st, f), p, x, v)
    <3>1. Add(f, x) = Received(f, x)
      BY <1>7 DEF Add
    <3> QED
      BY <1>3, <3>1
  <2>2. ASSUME NEW p \in DOMAIN text, NEW x
        PROVE  Holds(text, f.type, d, i, p, x) <=> Means(text, d, i, p, x)
    BY <1>7, ElementHeld
  <2>3. PartAt(text, i, Append(st, f), v) <=> ValueAt(text, i, Append(st, f), v)
    BY <1>2, <1>7 DEF PartAt
  <2>4. ValueAt(text, i, Append(st, f), v) <=>
            \E p \in DOMAIN text : \E w :
                Means(text, d, i, p, w) /\ Completes(text, Append(st, f), p, w, v)
    BY <1>2 DEF ValueAt
  <2> HIDE DEF Goes
  <2> QED
    BY <1>6, <2>1, <2>2, <2>3, <2>4
<1>8. ASSUME f.type = "object" PROVE Whole <=> PartAt(text, i, Append(st, f), v)
  <2> DEFINE g == Keyed(f, text[i])
  <2>1. ASSUME NEW p \in DOMAIN text, NEW x, NEW y, x = <<text[i], y>>
        PROVE  Goes(p, x) <=> Completes(text, Append(st, g), p, y, v)
    <3>1. Add(f, x) = Received(g, y)
      BY <1>8, <2>1 DEF Add
    <3> HIDE DEF g
    <3> QED
      BY <1>3, <3>1
  <2> HIDE DEF g, Goes
  <2>2. ASSUME NEW p \in DOMAIN text, NEW x
        PROVE  Holds(text, f.type, d, i, p, x) <=>
                   /\ i + 2 <= p /\ text[i] \in Strings /\ text[i + 1] = Colon
                   /\ \E y : Means(text, d, i + 2, p, y) /\ x = <<text[i], y>>
    BY <1>8, MemberHeld
  <2>3. PartAt(text, i, Append(st, f), v) <=> KeyAt(text, i, Append(st, f), v)
    BY <1>2, <1>8 DEF PartAt
  <2>4. KeyAt(text, i, Append(st, f), v) <=>
            /\ text[i] \in Strings /\ i + 1 \in DOMAIN text /\ text[i + 1] = Colon
            /\ ValueAt(text, i + 2, Append(st, g), v)
    BY <1>2 DEF KeyAt, g
  <2>5. ValueAt(text, i + 2, Append(st, g), v) <=>
            /\ i + 2 \in DOMAIN text
            /\ \E p \in DOMAIN text : \E w :
                   Means(text, d, i + 2, p, w) /\ Completes(text, Append(st, g), p, w, v)
    BY <1>2 DEF ValueAt
  <2>6. ASSUME NEW p \in DOMAIN text, NEW w, i + 2 \in DOMAIN text, Means(text, d, i + 2, p, w)
        PROVE  i + 2 <= p
    BY <1>1, <2>6, FirstToken
  <2>7. ASSUME NEW p \in DOMAIN text, i + 2 <= p
        PROVE  i + 1 \in DOMAIN text /\ i + 2 \in DOMAIN text
    BY <1>4, <2>7
  <2>8. ASSUME NEW p \in DOMAIN text, NEW x, Holds(text, f.type, d, i, p, x), Goes(p, x)
        PROVE  PartAt(text, i, Append(st, f), v)
    <3>1. PICK y : Means(text, d, i + 2, p, y) /\ x = <<text[i], y>>
      BY <2>2, <2>8
    <3>2. Completes(text, Append(st, g), p, y, v)
      BY <2>1, <2>8, <3>1
    <3>3. /\ i + 2 <= p /\ text[i] \in Strings /\ text[i + 1] = Colon
      BY <2>2, <2>8
    <3>4. i + 1 \in DOMAIN text /\ i + 2 \in DOMAIN text
      BY <2>7, <3>3
    <3> QED
      BY <2>3, <2>4, <2>5, <3>1, <3>2, <3>3, <3>4
  <2>9. ASSUME PartAt(text, i, Append(st, f), v)
        PROVE  \E p \in DOMAIN text : \E x : Holds(text, f.type, d, i, p, x) /\ Goes(p, x)
    <3>1. /\ text[i] \in Strings /\ i + 1 \in DOMAIN text /\ text[i + 1] = Colon
          /\ i + 2 \in DOMAIN text
      BY <2>3, <2>4, <2>5, <2>9
    <3>0. PICK p \in DOMAIN text :
              \E w : Means(text, d, i + 2, p, w) /\ Completes(text, Append(st, g), p, w, v)
      BY <2>3, <2>4, <2>5, <2>9
    <3>2. PICK w : Means(text, d, i + 2, p, w) /\ Completes(text, Append(st, g), p, w, v)
      BY <3>0
    <3>3. PICK x : x = <<text[i], w>>
      OBVIOUS
    <3>4. Holds(text, f.type, d, i, p, x)
      BY <2>2, <2>6, <3>1, <3>2, <3>3
    <3>5. Goes(p, x)
      BY <2>1, <3>2, <3>3
    <3> QED
      BY <3>4, <3>5
  <2> QED
    BY <1>6, <2>8, <2>9
<1> QED
  BY <1>7, <1>8 DEF IsFrame, d, Whole

(* A value that is delivered to a container is followed by a comma or the end. *)
LEMMA AfterMeans ==
    ASSUME NEW text, IsSequence(text), NEW st, IsSequence(st), Len(st) < MaxDepth,
           NEW f, IsFrame(f), NEW p \in DOMAIN text, NEW w, NEW v
    PROVE  Completes(text, Append(st, f), p, w, v)
               <=> CommaOrEndAt(text, p + 1, Append(st, Received(f, w)), v)
<1> DEFINE d == MaxDepth - (Len(st) + 1)
           g == Received(f, w)
<1>1. IsFrame(g)
  BY Receives
<1>2. Completes(text, Append(st, f), p, w, v) <=>
          \E q \in DOMAIN text : \E u :
              AfterPart(text, g, d, p + 1, q, u) /\ Completes(text, st, q, u, v)
  BY CompletesMore
<1> HIDE DEF g
<1>3. Front(Append(st, g)) = st /\ Last(Append(st, g)) = g
  BY Appended
<1>4. DOMAIN text = 1 .. Len(text) /\ Len(text) \in Nat /\ p \in Nat /\ (p + 1) + 1 = p + 2
  BY DEF IsSequence
<1>5. p + 2 \in DOMAIN text =>
          ((\E q \in DOMAIN text : \E u :
                RestAt(text, g, d, p + 2, q, u) /\ Completes(text, st, q, u, v))
           <=> PartAt(text, p + 2, Append(st, g), v))
  BY <1>1, RestMeans
<1> HIDE DEF d
<1>6. PartAt(text, p + 2, Append(st, g), v) => p + 2 \in DOMAIN text
  BY DEF PartAt, ValueAt, KeyAt
<1>7. \A q, u : RestAt(text, g, d, p + 2, q, u) => p + 2 \in DOMAIN text
  BY DEF RestAt
<1>8. ASSUME NEW q \in DOMAIN text, NEW u
      PROVE  AfterPart(text, g, d, p + 1, q, u) <=>
                 /\ p + 1 \in DOMAIN text
                 /\ \/ q = p + 1 /\ text[p + 1] = ClosingOf(g.type) /\ u = Made(g)
                    \/ text[p + 1] = Comma /\ RestAt(text, g, d, p + 2, q, u)
  BY <1>4 DEF AfterPart
<1>9. EndAt(text, p + 1, Append(st, g), v) <=>
          /\ p + 1 \in DOMAIN text /\ text[p + 1] = ClosingOf(g.type)
          /\ Completes(text, st, p + 1, Made(g), v)
  BY <1>3 DEF EndAt
<1>10. CommaOrEndAt(text, p + 1, Append(st, g), v) <=>
           \/ EndAt(text, p + 1, Append(st, g), v)
           \/ p + 1 \in DOMAIN text /\ text[p + 1] = Comma /\ PartAt(text, p + 2, Append(st, g), v)
  BY <1>4 DEF CommaOrEndAt
<1> QED
  BY <1>2, <1>5, <1>6, <1>7, <1>8, <1>9, <1>10 DEF g

-----------------------------------------------------------------------------
Leading == {BeginArray, BeginObject}

(* No token is mistaken for another. *)
LEMMA TokensApart ==
    /\ BeginArray # BeginObject /\ EndArray # EndObject
    /\ EndArray \notin Leading /\ EndObject \notin Leading /\ Comma \notin Leading
    /\ Comma # EndArray /\ Comma # EndObject
    /\ (Strings \cup Scalars) \cap (Leading \cup {EndArray, EndObject, Comma, Colon, "end"}) = {}
<1>1. /\ BeginArray # BeginObject /\ EndArray # EndObject
      /\ EndArray \notin Leading /\ EndObject \notin Leading /\ Comma \notin Leading
      /\ Comma # EndArray /\ Comma # EndObject
  BY Zenon DEF Leading, BeginArray, BeginObject, EndArray, EndObject, Comma
<1>2. Leading \cup {EndArray, EndObject, Comma, Colon, "end"} = Marks
  BY Zenon DEF Leading, Marks
<1> QED
  BY <1>1, <1>2, TokensAssumption, Zenon

(* Only a leaf or an opening bracket begins a value. *)
LEMMA ValueBegins ==
    ASSUME NEW text, IsSequence(text), NEW st, IsSequence(st), Len(st) <= MaxDepth,
           NEW i, NEW v, ValueAt(text, i, st, v)
    PROVE  /\ i \in DOMAIN text
           /\ \/ text[i] \in Strings \cup Scalars
              \/ Len(st) < MaxDepth /\ text[i] \in Leading
<1>1. i \in DOMAIN text /\ \E p \in DOMAIN text : \E w : Means(text, MaxDepth - Len(st), i, p, w)
  BY DEF ValueAt
<1>2. PICK p \in DOMAIN text : \E w : Means(text, MaxDepth - Len(st), i, p, w)
  BY <1>1
<1>3. PICK w : Means(text, MaxDepth - Len(st), i, p, w)
  BY <1>2
<1>4. Len(st) \in Nat
  BY DEF IsSequence
<1>5. PICK d : d = MaxDepth - Len(st)
  OBVIOUS
<1>6. d \in 0 .. MaxDepth
  BY <1>4, <1>5, LimitsAssumption
<1>7. \/ text[i] \in Strings \cup Scalars
      \/ d # 0 /\ text[i] \in {BeginArray, BeginObject}
  BY <1>1, <1>3, <1>5, <1>6, FirstToken
<1>8. d # 0 => Len(st) < MaxDepth
  BY <1>4, <1>5, LimitsAssumption
<1> QED
  BY <1>1, <1>7, <1>8 DEF Leading

(* A leaf is a value by itself. *)
LEMMA LeafMeans ==
    ASSUME NEW text, IsSequence(text), NEW st, IsSequence(st), Len(st) <= MaxDepth,
           NEW i \in DOMAIN text, text[i] \in Strings \cup Scalars, NEW v
    PROVE  ValueAt(text, i, st, v) <=> Completes(text, st, i, Leaf(text[i]), v)
<1>1. PICK d : d = MaxDepth - Len(st)
  OBVIOUS
<1>2. d \in 0 .. MaxDepth
  <2>1. Len(st) \in Nat
    BY DEF IsSequence
  <2> QED
    BY <1>1, <2>1, LimitsAssumption
<1>3. text[i] # BeginArray /\ text[i] # BeginObject
  BY TokensApart, Zenon DEF Leading
<1>4. ASSUME NEW p \in DOMAIN text, NEW w
      PROVE  Means(text, d, i, p, w) <=> i = p /\ w = Leaf(text[i])
  <2>1. ASSUME NEW open, text[i] # open, NEW close, NEW part, NEW l
        PROVE  l \notin Enclosed(text, open, close, part, i, p)
    BY <2>1 DEF Enclosed
  <2>2. ASSUME NEW part, NEW l
        PROVE  /\ l \notin Enclosed(text, BeginArray, EndArray, part, i, p)
               /\ l \notin Enclosed(text, BeginObject, EndObject, part, i, p)
    BY <1>3, <2>1
  <2>3. PICK inner, members :
            inner = Meanings(text)[d - 1] /\ members = Members(text, Meanings(text)[d - 1])
    OBVIOUS
  <2>4. Means(text, d, i, p, w) <=>
            \/ i = p /\ text[i] \in Strings \cup Scalars /\ w = Leaf(text[i])
            \/ /\ d # 0
               /\ \E l \in Enclosed(text, BeginArray, EndArray, inner, i, p) : w = ArrayValue(l)
            \/ /\ d # 0
               /\ \E l \in Enclosed(text, BeginObject, EndObject, members, i, p) :
                      w = ObjectValue(LastOfEach(l))
    BY <1>2, <2>3, Meant
  <2> QED
    BY <2>2, <2>4
<1> QED
  BY <1>1, <1>4 DEF ValueAt

(* A pair of brackets holds nothing or a list. *)
LEMMA EnclosedLists ==
    ASSUME NEW text, NEW open, NEW close, NEW part, NEW i, NEW j, NEW l, i \in Nat, j \in Nat
    PROVE  l \in Enclosed(text, open, close, part, i, j) <=>
               /\ i < j /\ text[i] = open /\ text[j] = close
               /\ \/ j = i + 1 /\ l = <<>>
                  \/ i + 1 < j /\ l \in Lists(text, part, j - 1)[i + 1]
  BY DEF Enclosed

Opened(text, i) == IF text[i] = BeginArray THEN "array" ELSE "object"

(* A container is closed at once or has parts. *)
LEMMA ContainerMeans ==
    ASSUME NEW text, IsSequence(text), NEW d \in 0 .. MaxDepth, d # 0,
           NEW i \in DOMAIN text, text[i] \in Leading, NEW j \in DOMAIN text, NEW w,
           NEW f, f = Frame(Opened(text, i))
    PROVE  Means(text, d, i, j, w) <=>
               \/ j = i + 1 /\ text[j] = ClosingOf(f.type) /\ w = Made(f)
               \/ RestAt(text, f, d - 1, i + 1, j, w)
<1>1. DOMAIN text = 1 .. Len(text) /\ Len(text) \in Nat /\ i \in Nat /\ j \in Nat
  BY DEF IsSequence
<1>2. text[i] \notin Strings \cup Scalars
  BY TokensApart, Zenon
<1>3. PICK inner : inner = Meanings(text)[d - 1]
  OBVIOUS
<1>4. Means(text, d, i, j, w) <=>
          \/ \E l \in Enclosed(text, BeginArray, EndArray, inner, i, j) : w = ArrayValue(l)
          \/ \E l \in Enclosed(text, BeginObject, EndObject, Members(text, inner), i, j) :
                 w = ObjectValue(LastOfEach(l))
  BY <1>2, <1>3, Meant
<1>5. PICK part : part = Parts(text, f.type, d - 1)
  OBVIOUS
<1>6. PICK close : close = ClosingOf(f.type)
  OBVIOUS
<1>7. /\ f.type = Opened(text, i) /\ f.items = <<>> /\ f.members = {}
      /\ f.type \in {"array", "object"}
  BY DEF Frame, Opened
<1>8. Means(text, d, i, j, w) <=>
          \E l \in Enclosed(text, text[i], close, part, i, j) :
              w = IF f.type = "array" THEN ArrayValue(l) ELSE ObjectValue(LastOfEach(l))
  <2>1. ASSUME NEW open, text[i] # open, NEW end, NEW parts, NEW l
        PROVE  l \notin Enclosed(text, open, end, parts, i, j)
    BY <2>1 DEF Enclosed
  <2>2. CASE text[i] = BeginArray
    <3>1. f.type = "array" /\ part = inner /\ close = EndArray
      BY <1>3, <1>5, <1>6, <1>7, <2>2 DEF Opened, Parts, ClosingOf
    <3>2. \A l : l \notin Enclosed(text, BeginObject, EndObject, Members(text, inner), i, j)
      BY <2>1, <2>2, TokensApart
    <3> QED
      BY <1>4, <2>2, <3>1, <3>2
  <2>3. CASE text[i] = BeginObject
    <3>0. text[i] # BeginArray
      BY <2>3, TokensApart
    <3>1. f.type = "object" /\ part = Members(text, inner) /\ close = EndObject
      BY <1>3, <1>5, <1>6, <1>7, <3>0 DEF Opened, Parts, ClosingOf
    <3>2. \A l : l \notin Enclosed(text, BeginArray, EndArray, inner, i, j)
      BY <2>1, <3>0
    <3> QED
      BY <1>4, <2>3, <3>1, <3>2
  <2> QED
    BY <2>2, <2>3 DEF Leading
<1>9. ASSUME NEW l
      PROVE  l \in Enclosed(text, text[i], close, part, i, j) <=>
                 /\ i < j /\ text[j] = close
                 /\ \/ j = i + 1 /\ l = <<>>
                    \/ i + 1 < j /\ l \in Lists(text, part, j - 1)[i + 1]
  BY <1>1, EnclosedLists
<1>10. Made(f) = IF f.type = "array" THEN ArrayValue(<<>>) ELSE ObjectValue(LastOfEach(<<>>))
  <2>1. LastOfEach(<<>>) = {}
    BY DEF LastOfEach
  <2> QED
    BY <1>7, <2>1 DEF Made
<1>11. ASSUME NEW l, IsSequence(l)
       PROVE  With(f, l) = IF f.type = "array" THEN ArrayValue(l) ELSE ObjectValue(LastOfEach(l))
  <2>1. <<>> \o l = l
    BY <1>11, NothingBefore
  <2>2. Over({}, LastOfEach(l)) = LastOfEach(l)
    BY DEF Over
  <2> QED
    BY <1>7, <2>1, <2>2 DEF With
<1>12. ASSUME i + 1 < j, NEW l, l \in Lists(text, part, j - 1)[i + 1] PROVE IsSequence(l)
  <2>1. j - 1 \in Nat /\ i + 1 \in 1 .. j - 1
    BY <1>1, <1>12
  <2> QED
    BY <1>12, <2>1, ListsAreSequences
<1>13. RestAt(text, f, d - 1, i + 1, j, w) <=>
           /\ i + 1 < j /\ text[j] = close
           /\ \E l \in Lists(text, part, j - 1)[i + 1] : w = With(f, l)
  <2>1. i + 1 < j => i + 1 \in DOMAIN text
    BY <1>1
  <2> QED
    BY <1>5, <1>6, <2>1 DEF RestAt
<1>14. j = i + 1 => i < j
  BY <1>1
<1>15. i + 1 < j => i < j
  BY <1>1
<1> QED
  BY <1>6, <1>8, <1>9, <1>10, <1>11, <1>12, <1>13, <1>14, <1>15

-----------------------------------------------------------------------------
(* An opening bracket is followed by the end of its container or by a part. *)
LEMMA OpenMeans ==
    ASSUME NEW text, IsSequence(text), NEW st, IsSequence(st), Len(st) < MaxDepth,
           NEW i \in DOMAIN text, text[i] \in Leading, NEW v,
           NEW f, f = Frame(Opened(text, i))
    PROVE  ValueAt(text, i, st, v) <=>
               \/ EndAt(text, i + 1, Append(st, f), v)
               \/ PartAt(text, i + 1, Append(st, f), v)
<1>1. DOMAIN text = 1 .. Len(text) /\ Len(text) \in Nat /\ i \in Nat /\ Len(st) \in Nat
  BY DEF IsSequence
<1>2. PICK d : d = MaxDepth - Len(st)
  OBVIOUS
<1>3. d \in 0 .. MaxDepth /\ d # 0 /\ d - 1 = MaxDepth - (Len(st) + 1)
  BY <1>1, <1>2, LimitsAssumption
<1>4. IsFrame(f)
  <2>1. IsSequence(<<>>)
    BY DEF IsSequence, Range
  <2> QED
    BY <2>1 DEF IsFrame, Frame, Opened
<1>5. Front(Append(st, f)) = st /\ Last(Append(st, f)) = f
  BY Appended
<1>6. ASSUME NEW j \in DOMAIN text, NEW w
      PROVE  Means(text, d, i, j, w) <=>
                 \/ j = i + 1 /\ text[j] = ClosingOf(f.type) /\ w = Made(f)
                 \/ RestAt(text, f, d - 1, i + 1, j, w)
  BY <1>3, ContainerMeans
<1>7. ValueAt(text, i, st, v) <=>
          \E j \in DOMAIN text : \E w : Means(text, d, i, j, w) /\ Completes(text, st, j, w, v)
  BY <1>2 DEF ValueAt
<1>8. EndAt(text, i + 1, Append(st, f), v) <=>
          /\ i + 1 \in DOMAIN text /\ text[i + 1] = ClosingOf(f.type)
          /\ Completes(text, st, i + 1, Made(f), v)
  BY <1>5 DEF EndAt
<1>9. PartAt(text, i + 1, Append(st, f), v) <=>
          \E j \in DOMAIN text : \E w :
              RestAt(text, f, d - 1, i + 1, j, w) /\ Completes(text, st, j, w, v)
  <2>1. CASE i + 1 \in DOMAIN text
    BY <1>3, <1>4, <2>1, RestMeans
  <2>2. CASE i + 1 \notin DOMAIN text
    BY <2>2 DEF PartAt, ValueAt, KeyAt, RestAt
  <2> QED
    BY <2>1, <2>2
<1> QED
  BY <1>6, <1>7, <1>8, <1>9

(* A sequence is its last element after the others. *)
LEMMA FrontAndLast ==
    ASSUME NEW s, IsSequence(s), s # <<>>
    PROVE  /\ IsSequence(Front(s)) /\ Len(Front(s)) = Len(s) - 1 /\ Len(s) \in Nat
           /\ s = Append(Front(s), Last(s)) /\ Last(s) = s[Len(s)]
           /\ Len(s) \in DOMAIN s
           /\ \A i \in DOMAIN Front(s) : i \in DOMAIN s /\ Front(s)[i] = s[i]
<1>1. /\ IsSequence(Front(s)) /\ Len(Front(s)) = Len(s) - 1 /\ Len(s) \in Nat \ {0}
      /\ \A i \in 1 .. Len(s) - 1 : Front(s)[i] = s[i]
  BY OneLess
<1>2. DOMAIN s = 1 .. Len(s) /\ DOMAIN Front(s) = 1 .. Len(s) - 1
  BY <1>1 DEF IsSequence
<1>3. Last(s) = s[Len(s)]
  BY DEF Last
<1>4. /\ IsSequence(Append(Front(s), Last(s)))
      /\ Len(Append(Front(s), Last(s))) = Len(s)
      /\ Append(Front(s), Last(s))[Len(s)] = Last(s)
      /\ \A i \in 1 .. Len(s) - 1 : Append(Front(s), Last(s))[i] = s[i]
  BY ReplaceLast
<1>5. s = Append(Front(s), Last(s))
  <2>1. PICK r : r = Append(Front(s), Last(s))
    OBVIOUS
  <2>2. r \in Seq(Range(r)) /\ s \in Seq(Range(s)) /\ Len(r) = Len(s)
    BY <1>4, <2>1 DEF IsSequence
  <2>3. \A i \in 1 .. Len(s) : r[i] = s[i]
    BY <1>1, <1>3, <1>4, <2>1
  <2>4. r = s
    BY <2>2, <2>3
  <2> QED
    BY <2>1, <2>4
<1> QED
  BY <1>1, <1>2, <1>3, <1>5

Frames(st) == IsSequence(st) /\ \A i \in DOMAIN st : IsFrame(st[i])

(* A value that is delivered goes on in the container around it or ends the text. *)
LEMMA DeliverMeans ==
    ASSUME NEW text, IsSequence(text), NEW st, Frames(st), st # <<>>, Len(st) <= MaxDepth,
           NEW p \in DOMAIN text, NEW w, NEW v
    PROVE  Completes(text, st, p, w, v)
               <=> CommaOrEndAt(text, p + 1, Append(Front(st), Received(Last(st), w)), v)
<1>1. PICK outer, f : outer = Front(st) /\ f = Last(st)
  OBVIOUS
<1>2. IsSequence(outer) /\ st = Append(outer, f) /\ IsFrame(f) /\ Len(outer) < MaxDepth
  <2>1. Last(st) = st[Len(st)] /\ Len(st) \in DOMAIN st
    BY FrontAndLast DEF Frames
  <2>2. Len(outer) = Len(st) - 1 /\ Len(st) \in Nat /\ IsSequence(outer) /\ st = Append(outer, f)
    BY <1>1, FrontAndLast DEF Frames
  <2>3. Len(outer) < MaxDepth
    BY <2>2, LimitsAssumption
  <2> QED
    BY <1>1, <2>1, <2>2, <2>3 DEF Frames
<1>3. Completes(text, Append(outer, f), p, w, v)
          <=> CommaOrEndAt(text, p + 1, Append(outer, Received(f, w)), v)
  BY <1>2, AfterMeans
<1> QED
  BY <1>1, <1>2, <1>3

(* A value in a root array that is full makes the text one with too many elements. *)
LEMMA FullMeans ==
    ASSUME NEW text, IsSequence(text), NEW f, IsFrame(f), f.type = "array",
           MaxRootItems <= Len(f.items), NEW i, NEW v, ValueAt(text, i, <<f>>, v)
    PROVE  v.type = "array" /\ ~(Len(v.items) <= MaxRootItems)
<1>1. PICK p \in DOMAIN text : \E w : Completes(text, <<f>>, p, w, v)
  BY DEF ValueAt
<1>2. PICK w : Completes(text, <<f>>, p, w, v)
  BY <1>1
<1>3. IsSequence(<<>>) /\ <<f>> = Append(<<>>, f)
  BY DEF IsSequence, Range
<1>4. PICK g, d : g = Received(f, w) /\ d = MaxDepth - (Len(<<>>) + 1)
  OBVIOUS
<1>5. /\ IsFrame(g) /\ g.type = "array" /\ Len(g.items) = Len(f.items) + 1
      /\ Len(f.items) \in Nat /\ IsSequence(g.items)
  <2>1. IsFrame(g) /\ g.type = "array" /\ Len(g.items) = Len(f.items) + 1
    BY <1>4, Receives
  <2> QED
    BY <2>1 DEF IsFrame, IsSequence
<1>6. PICK q \in DOMAIN text :
          \E u : AfterPart(text, g, d, p + 1, q, u) /\ Completes(text, <<>>, q, u, v)
  <2>1. PICK none : none = <<>>
    OBVIOUS
  <2>2. Completes(text, Append(none, f), p, w, v)
    BY <1>2, <1>3, <2>1
  <2> QED
    BY <1>3, <1>4, <2>1, <2>2, CompletesMore
<1>7. PICK u : AfterPart(text, g, d, p + 1, q, u) /\ Completes(text, <<>>, q, u, v)
  BY <1>6
<1>8. u = v
  BY <1>7, CompletesNone
<1>9. Made(g).type = "array" /\ Made(g).items = g.items
  BY <1>5 DEF Made, ArrayValue, Value
<1>10. CASE u = Made(g)
  BY <1>5, <1>8, <1>9, <1>10, LimitsAssumption
<1>11. CASE RestAt(text, g, d, (p + 1) + 1, q, u)
  <2>1. PICK k : k = (p + 1) + 1
    OBVIOUS
  <2>2. /\ k \in DOMAIN text /\ k < q
        /\ \E l \in Lists(text, Parts(text, g.type, d), q - 1)[k] : u = With(g, l)
    BY <1>11, <2>1 DEF RestAt
  <2>3. k \in 1 .. q - 1 /\ q - 1 \in Nat
    <3>1. k \in Nat \ {0} /\ q \in Nat
      BY <2>2 DEF IsSequence
    <3> QED
      BY <2>2, <3>1
  <2>4. PICK l \in Lists(text, Parts(text, g.type, d), q - 1)[k] : u = With(g, l)
    BY <2>2
  <2>5. IsSequence(l) /\ Len(l) \in Nat
    BY <2>3, ListsAreSequences
  <2>6. PICK items : items = g.items
    OBVIOUS
  <2>7. Len(items \o l) = Len(items) + Len(l)
    <3>1. items \in Seq(Range(items) \cup Range(l)) /\ l \in Seq(Range(items) \cup Range(l))
      BY <1>5, <2>5, <2>6 DEF IsSequence
    <3> QED
      BY <3>1
  <2>8. u.type = "array" /\ u.items = items \o l
    BY <1>5, <2>4, <2>6 DEF With, ArrayValue, Value
  <2> QED
    BY <1>5, <1>8, <2>5, <2>6, <2>7, <2>8, LimitsAssumption
<1> QED
  BY <1>7, <1>10, <1>11 DEF AfterPart

-----------------------------------------------------------------------------
(* What the whole text means, *)
WholeMeans(text, v) == text # <<>> /\ Means(text, MaxDepth, 1, Len(text), v)

(* and what it means to a parser that stands before i, with the containers st
   open and the value w when it is at the end.                             *)
Denotes(text, what, i, st, w, v) ==
    \/ what = "value" /\ ValueAt(text, i, st, v)
    \/ what = "elementOrEnd" /\ (EndAt(text, i, st, v) \/ ValueAt(text, i, st, v))
    \/ what = "key" /\ KeyAt(text, i, st, v)
    \/ what = "keyOrEnd" /\ (EndAt(text, i, st, v) \/ KeyAt(text, i, st, v))
    \/ what = "colon" /\ i \in DOMAIN text /\ text[i] = Colon /\ ValueAt(text, i + 1, st, v)
    \/ what = "commaOrEnd" /\ CommaOrEndAt(text, i, st, v)
    \/ what = "end" /\ i = Len(text) + 1 /\ v = w

Limited(v) == v.type = "array" => Len(v.items) <= MaxRootItems

InputInv == IsSequence(input) /\ "end" \notin Range(input) /\ index \in 0 .. Len(input)

ExpectInv ==
    /\ expect \in {"value", "elementOrEnd", "key", "keyOrEnd", "colon", "commaOrEnd", "end"}
    /\ expect = "elementOrEnd" => Within("array")
    /\ expect \in {"key", "keyOrEnd", "colon"} => Within("object")
    /\ expect = "end" => stack = <<>> /\ Limited(value)

(* What is still to be read decides, with what was, what the input means. *)
MeaningInv ==
    status = "parsing" =>
        \A v : WholeMeans(input, v) <=> Denotes(input, expect, index + 1, stack, value, v)

GrammarInv == InputInv /\ ExpectInv /\ MeaningInv /\ AcceptsExactlyJson

-----------------------------------------------------------------------------
(* The acceptable values are the meanings of the whole within the limit. *)
LEMMA AcceptableMeans ==
    \A v : v \in Acceptable <=> WholeMeans(input, v) /\ Limited(v)
  BY DEF Acceptable, WholeMeans, Means, Limited

(* The token before which the parser stands. *)
LEMMA TokenRead ==
    ASSUME InputInv
    PROVE  /\ index + 1 \in DOMAIN input => Token = input[index + 1] /\ Token # "end"
           /\ index + 1 \notin DOMAIN input => Token = "end" /\ index = Len(input)
           /\ index \in Nat /\ Len(input) \in Nat /\ (index + 1) + 1 = index + 2
<1>1. DOMAIN input = 1 .. Len(input) /\ Len(input) \in Nat /\ index \in Nat /\ index <= Len(input)
  BY DEF InputInv, IsSequence
<1>2. index + 1 \in DOMAIN input <=> index < Len(input)
  BY <1>1
<1>3. \A i \in DOMAIN input : input[i] # "end"
  BY DEF InputInv, Range
<1>4. index + 1 \notin DOMAIN input => index = Len(input)
  <2>1. PICK n : n = Len(input)
    OBVIOUS
  <2>2. n \in Nat /\ index \in Nat /\ index <= n
    BY <1>1, <2>1
  <2>3. ~(index < n) => index = n
    BY <2>2
  <2> QED
    BY <1>2, <2>1, <2>3
<1>5. index + 1 \in DOMAIN input => Token = input[index + 1]
  BY <1>2 DEF Token
<1>6. index + 1 \notin DOMAIN input => Token = "end"
  BY <1>2 DEF Token
<1>7. (index + 1) + 1 = index + 2
  BY <1>1
<1> QED
  BY <1>1, <1>3, <1>4, <1>5, <1>6, <1>7

(* The parser that delivers a value stands where that value completes. *)
LEMMA DeliversMeaning ==
    ASSUME InputInv, index + 1 \in DOMAIN input, NEW outer, Frames(outer), Len(outer) <= MaxDepth,
           NEW w, Deliver(w, outer), index' = index + 1, NEW v
    PROVE  Completes(input, outer, index + 1, w, v)
               <=> Denotes(input, expect', index' + 1, stack', value', v)
<1>1. index \in Nat /\ Len(input) \in Nat /\ IsSequence(input)
  BY TokenRead DEF InputInv
<1>2. CASE outer = <<>>
  <2>1. expect' = "end" /\ value' = w
    BY <1>2 DEF Deliver
  <2>2. Completes(input, outer, index + 1, w, v) <=> index + 1 = Len(input) /\ w = v
    BY <1>1, <1>2, CompletesNone
  <2>3. Denotes(input, expect', index' + 1, stack', value', v)
            <=> index' + 1 = Len(input) + 1 /\ v = w
    BY <2>1 DEF Denotes
  <2> QED
    BY <1>1, <2>2, <2>3
<1>3. CASE outer # <<>>
  <2>1. expect' = "commaOrEnd" /\ stack' = Append(Front(outer), Received(Last(outer), w))
    BY <1>3 DEF Deliver
  <2>2. Denotes(input, expect', index' + 1, stack', value', v)
            <=> CommaOrEndAt(input, index' + 1, stack', v)
    BY <2>1 DEF Denotes
  <2>3. Completes(input, outer, index + 1, w, v)
            <=> CommaOrEndAt(input, (index + 1) + 1, Append(Front(outer), Received(Last(outer), w)), v)
    BY <1>1, <1>3, DeliverMeans
  <2> QED
    BY <2>1, <2>2, <2>3
<1> QED
  BY <1>2, <1>3

(* The input means what the parser has before it. *)
LEMMA InitMeaning == Init => GrammarInv
<1> SUFFICES ASSUME Init PROVE GrammarInv
  OBVIOUS
<1>1. index = 0 /\ stack = <<>> /\ expect = "value" /\ status = "parsing"
  BY DEF Init
<1>2. input \in Seq(Range(input) \ {"end"})
  BY TokensAssumption DEF Init
<1>3. IsSequence(input) /\ DOMAIN input = 1 .. Len(input) /\ Len(input) \in Nat
  <2>1. input \in Seq(Range(input))
    BY <1>2
  <2> QED
    BY <2>1 DEF IsSequence
<1>4. "end" \notin Range(input)
  BY <1>2 DEF Range
<1>5. InputInv /\ ExpectInv /\ AcceptsExactlyJson
  BY <1>1, <1>3, <1>4 DEF InputInv, ExpectInv, AcceptsExactlyJson
<1>6. ASSUME NEW v PROVE WholeMeans(input, v) <=> ValueAt(input, 1, <<>>, v)
  <2>1. MaxDepth - Len(<<>>) = MaxDepth
    BY LimitsAssumption
  <2>2. PICK none : none = <<>>
    OBVIOUS
  <2>3. ValueAt(input, 1, none, v) <=>
            /\ 1 \in DOMAIN input
            /\ \E p \in DOMAIN input : \E w :
                   Means(input, MaxDepth, 1, p, w) /\ Completes(input, none, p, w, v)
    BY <2>1, <2>2 DEF ValueAt
  <2>4. ASSUME NEW p, NEW w
        PROVE  Completes(input, none, p, w, v) <=> p \in DOMAIN input /\ p = Len(input) /\ w = v
    BY <1>3, <2>2, CompletesNone
  <2>5. input # <<>> <=> 1 \in DOMAIN input /\ Len(input) \in DOMAIN input
    <3>1. input # <<>> <=> Len(input) # 0
      BY <1>3 DEF IsSequence
    <3> QED
      BY <1>3, <3>1
  <2> QED
    BY <2>2, <2>3, <2>4, <2>5 DEF WholeMeans
<1>7. ASSUME NEW v
      PROVE  Denotes(input, expect, index + 1, stack, value, v) <=> ValueAt(input, 1, <<>>, v)
  BY <1>1 DEF Denotes
<1> QED
  BY <1>5, <1>6, <1>7 DEF GrammarInv, MeaningInv

-----------------------------------------------------------------------------
(* What the step lemmas know of the stack. *)
LEMMA StackKnown ==
    ASSUME IInv
    PROVE  /\ Frames(stack) /\ IsSequence(stack) /\ Len(stack) <= MaxDepth /\ Len(stack) \in Nat
           /\ stack # <<>> =>
                  /\ IsFrame(Last(stack)) /\ Frames(Front(stack)) /\ IsSequence(Front(stack))
                  /\ Len(Front(stack)) = Len(stack) - 1 /\ Len(Front(stack)) < MaxDepth
                  /\ stack = Append(Front(stack), Last(stack))
<1>1. Frames(stack) /\ IsSequence(stack) /\ Len(stack) <= MaxDepth /\ Len(stack) \in Nat
  BY DEF IInv, StackInv, RootInv, Frames, IsSequence
<1>2. ASSUME stack # <<>>
      PROVE  /\ IsFrame(Last(stack)) /\ Frames(Front(stack)) /\ IsSequence(Front(stack))
             /\ Len(Front(stack)) = Len(stack) - 1 /\ Len(Front(stack)) < MaxDepth
             /\ stack = Append(Front(stack), Last(stack))
  <2>1. /\ IsSequence(Front(stack)) /\ Len(Front(stack)) = Len(stack) - 1
        /\ stack = Append(Front(stack), Last(stack)) /\ Last(stack) = stack[Len(stack)]
        /\ Len(stack) \in DOMAIN stack
        /\ \A i \in DOMAIN Front(stack) : i \in DOMAIN stack /\ Front(stack)[i] = stack[i]
    BY <1>1, <1>2, FrontAndLast
  <2>2. Len(Front(stack)) < MaxDepth
    BY <1>1, <2>1, LimitsAssumption
  <2>3. IsFrame(Last(stack))
    BY <1>1, <2>1 DEF Frames
  <2>4. Frames(Front(stack))
    BY <1>1, <2>1 DEF Frames
  <2> QED
    BY <2>1, <2>2, <2>3, <2>4
<1> QED
  BY <1>1, <1>2

(* The end of a container is refused where the token is not its bracket. *)
LEMMA NotEnd ==
    ASSUME InputInv, Token \in Strings \cup Scalars \cup Leading \cup {Comma}, NEW v
    PROVE  ~EndAt(input, index + 1, stack, v)
<1>1. ASSUME NEW type PROVE ClosingOf(type) \in {EndArray, EndObject}
  BY DEF ClosingOf
<1>2. Token \notin {EndArray, EndObject}
  BY TokensApart
<1> QED
  BY <1>1, <1>2, TokenRead DEF EndAt

(* A step that keeps what the input means. *)
LEMMA Keeps ==
    ASSUME InputInv, MeaningInv, status = "parsing", UNCHANGED <<input, status>>,
           index + 1 \in DOMAIN input, index' = index + 1, ExpectInv',
           \A v : Denotes(input, expect, index + 1, stack, value, v)
                      <=> Denotes(input, expect', index' + 1, stack', value', v)
    PROVE  GrammarInv'
<1>1. InputInv'
  <2>1. DOMAIN input = 1 .. Len(input) /\ Len(input) \in Nat /\ index \in Nat
    BY TokenRead DEF InputInv, IsSequence
  <2>2. index + 1 \in 0 .. Len(input)
    BY <2>1
  <2> QED
    BY <2>2 DEF InputInv
<1>2. MeaningInv'
  BY DEF MeaningInv
<1>3. AcceptsExactlyJson'
  BY DEF AcceptsExactlyJson
<1> QED
  BY <1>1, <1>2, <1>3 DEF GrammarInv

(* A leaf is delivered for what it means. *)
LEMMA LeafStep == IInv /\ GrammarInv /\ ReadLeaf => GrammarInv'
<1> SUFFICES ASSUME IInv, GrammarInv, ReadLeaf PROVE GrammarInv'
  OBVIOUS
<1>1. /\ InputInv /\ MeaningInv /\ status = "parsing" /\ UNCHANGED <<input, status>>
      /\ index' = index + 1 /\ expect \in {"value", "elementOrEnd"}
      /\ Token \in Strings \cup Scalars /\ Deliver(Leaf(Token), stack)
  BY DEF GrammarInv, ReadLeaf, Parsing, MayBeLeaf, ValueMayBegin, Consume
<1>2. index + 1 \in DOMAIN input /\ Token = input[index + 1]
  <2>1. Token # "end"
    BY <1>1, TokensApart
  <2> QED
    BY <1>1, <2>1, TokenRead
<1>3. ASSUME NEW v
      PROVE  Denotes(input, expect, index + 1, stack, value, v)
                 <=> Denotes(input, expect', index' + 1, stack', value', v)
  <2>1. ~EndAt(input, index + 1, stack, v)
    BY <1>1, NotEnd
  <2>2. Denotes(input, expect, index + 1, stack, value, v)
            <=> ValueAt(input, index + 1, stack, v)
    BY <1>1, <2>1 DEF Denotes
  <2>3. ValueAt(input, index + 1, stack, v)
            <=> Completes(input, stack, index + 1, Leaf(Token), v)
    BY <1>1, <1>2, StackKnown, LeafMeans DEF InputInv
  <2> QED
    BY <1>1, <1>2, <2>2, <2>3, StackKnown, DeliversMeaning
<1>4. ExpectInv'
  <2>1. CASE stack = <<>>
    <3>1. stack' = <<>> /\ value' = Leaf(Token) /\ expect' = "end"
      BY <1>1, <2>1 DEF Deliver
    <3>2. Leaf(Token).type = "leaf"
      BY DEF Leaf, Value
    <3> QED
      BY <3>1, <3>2 DEF ExpectInv, Limited
  <2>2. CASE stack # <<>>
    BY <1>1, <2>2 DEF Deliver, ExpectInv
  <2> QED
    BY <2>1, <2>2
<1> QED
  BY <1>1, <1>2, <1>3, <1>4, Keeps

(* What follows an opening bracket is what the container may hold. *)
LEMMA OpenStep == IInv /\ GrammarInv /\ OpenContainer => GrammarInv'
<1> SUFFICES ASSUME IInv, GrammarInv, OpenContainer PROVE GrammarInv'
  OBVIOUS
<1>1. /\ InputInv /\ MeaningInv /\ status = "parsing" /\ UNCHANGED <<input, status>>
      /\ index' = index + 1 /\ expect \in {"value", "elementOrEnd"}
      /\ Token \in Leading /\ Len(stack) < MaxDepth
  BY DEF GrammarInv, OpenContainer, Parsing, MayOpen, ValueMayBegin, Consume, Leading
<1>2. index + 1 \in DOMAIN input /\ Token = input[index + 1]
  <2>1. Token # "end"
    BY <1>1, Zenon DEF Leading, BeginArray, BeginObject
  <2> QED
    BY <1>1, <2>1, TokenRead
<1>3. PICK f : f = Frame(Opened(input, index + 1))
  OBVIOUS
<1>4. /\ stack' = Append(stack, f)
      /\ expect' = IF Token = BeginArray THEN "elementOrEnd" ELSE "keyOrEnd"
      /\ f.type = IF Token = BeginArray THEN "array" ELSE "object"
  BY <1>2, <1>3 DEF OpenContainer, Opened, Frame
<1>5. IsSequence(stack) /\ Last(stack') = f /\ stack' # <<>>
  <2>1. IsSequence(stack)
    BY StackKnown
  <2>2. Last(stack') = f /\ Len(stack') = Len(stack) + 1 /\ Len(stack) \in Nat
    BY <1>4, <2>1, Appended
  <2> QED
    BY <2>1, <2>2
<1>6. ASSUME NEW v
      PROVE  Denotes(input, expect, index + 1, stack, value, v)
                 <=> Denotes(input, expect', index' + 1, stack', value', v)
  <2>1. ~EndAt(input, index + 1, stack, v)
    BY <1>1, NotEnd
  <2>2. Denotes(input, expect, index + 1, stack, value, v)
            <=> ValueAt(input, index + 1, stack, v)
    BY <1>1, <2>1 DEF Denotes
  <2>3. ValueAt(input, index + 1, stack, v) <=>
            \/ EndAt(input, index' + 1, stack', v)
            \/ PartAt(input, index' + 1, stack', v)
    BY <1>1, <1>2, <1>3, <1>4, <1>5, OpenMeans DEF InputInv
  <2>4. PartAt(input, index' + 1, stack', v) <=>
            \/ f.type = "array" /\ ValueAt(input, index' + 1, stack', v)
            \/ f.type = "object" /\ KeyAt(input, index' + 1, stack', v)
    BY <1>5 DEF PartAt
  <2>5. CASE Token = BeginArray
    BY <1>4, <2>2, <2>3, <2>4, <2>5 DEF Denotes
  <2>6. CASE Token # BeginArray
    BY <1>4, <2>2, <2>3, <2>4, <2>6 DEF Denotes
  <2> QED
    BY <2>5, <2>6
<1>7. ExpectInv'
  BY <1>4, <1>5 DEF ExpectInv, Within
<1> QED
  BY <1>1, <1>2, <1>6, <1>7, Keeps

(* A container that is closed is delivered for what it means. *)
LEMMA CloseStep == IInv /\ GrammarInv /\ CloseContainer => GrammarInv'
<1> SUFFICES ASSUME IInv, GrammarInv, CloseContainer PROVE GrammarInv'
  OBVIOUS
<1>1. /\ InputInv /\ MeaningInv /\ status = "parsing" /\ UNCHANGED <<input, status>>
      /\ index' = index + 1 /\ stack # <<>>
      /\ Deliver(Made(Last(stack)), Front(stack))
  BY DEF GrammarInv, CloseContainer, Parsing, MayClose, Within, Consume
<1>2. /\ Token = ClosingOf(Last(stack).type) /\ Token \in {EndArray, EndObject}
      /\ expect \in {"elementOrEnd", "keyOrEnd", "commaOrEnd"}
  BY Zenon DEF CloseContainer, MayClose, Within, ClosingOf
<1>3. index + 1 \in DOMAIN input /\ Token = input[index + 1]
  <2>1. Token # "end"
    BY <1>2, Zenon DEF EndArray, EndObject
  <2> QED
    BY <1>1, <2>1, TokenRead
<1>4. Token \notin Strings \cup Scalars /\ Token \notin Leading /\ Token # Comma
  BY <1>2, TokensApart
<1>5. ASSUME NEW v
      PROVE  Denotes(input, expect, index + 1, stack, value, v)
                 <=> Denotes(input, expect', index' + 1, stack', value', v)
  <2>1. ~ValueAt(input, index + 1, stack, v)
    BY <1>1, <1>3, <1>4, StackKnown, ValueBegins DEF InputInv
  <2>2. ~KeyAt(input, index + 1, stack, v)
    BY <1>3, <1>4 DEF KeyAt
  <2>3. CommaOrEndAt(input, index + 1, stack, v) <=> EndAt(input, index + 1, stack, v)
    BY <1>3, <1>4 DEF CommaOrEndAt
  <2>4. Denotes(input, expect, index + 1, stack, value, v) <=> EndAt(input, index + 1, stack, v)
    BY <1>2, <2>1, <2>2, <2>3 DEF Denotes
  <2>5. EndAt(input, index + 1, stack, v)
            <=> Completes(input, Front(stack), index + 1, Made(Last(stack)), v)
    BY <1>2, <1>3 DEF EndAt
  <2>6. Frames(Front(stack)) /\ Len(Front(stack)) <= MaxDepth
    BY <1>1, StackKnown, LimitsAssumption
  <2> QED
    BY <1>1, <1>3, <2>4, <2>5, <2>6, DeliversMeaning
<1>6. ExpectInv'
  <2>1. CASE Front(stack) = <<>>
    <3>1. stack' = <<>> /\ value' = Made(Last(stack)) /\ expect' = "end"
      BY <1>1, <2>1 DEF Deliver
    <3>2. Len(stack) = 1 /\ Last(stack) = stack[1]
      <4>1. Len(Front(stack)) = Len(stack) - 1 /\ Len(stack) \in Nat /\ Len(<<>>) = 0
        BY <1>1, StackKnown
      <4>2. Len(stack) = 1
        BY <2>1, <4>1
      <4> QED
        BY <4>2 DEF Last
    <3>3. Last(stack).type = "array" => Len(Last(stack).items) <= MaxRootItems
      BY <1>1, <3>2 DEF IInv, RootInv
    <3>4. Limited(Made(Last(stack)))
      BY <3>3 DEF Limited, Made, ArrayValue, ObjectValue, Value
    <3> QED
      BY <3>1, <3>4 DEF ExpectInv
  <2>2. CASE Front(stack) # <<>>
    BY <1>1, <2>2 DEF Deliver, ExpectInv
  <2> QED
    BY <2>1, <2>2
<1> QED
  BY <1>1, <1>3, <1>5, <1>6, Keeps

-----------------------------------------------------------------------------
(* A key that is read is kept with the innermost container. *)
LEMMA KeyStep == IInv /\ GrammarInv /\ ReadKey => GrammarInv'
<1> SUFFICES ASSUME IInv, GrammarInv, ReadKey PROVE GrammarInv'
  OBVIOUS
<1>1. /\ InputInv /\ MeaningInv /\ status = "parsing" /\ UNCHANGED <<input, status, value>>
      /\ index' = index + 1 /\ expect \in {"key", "keyOrEnd"} /\ Token \in Strings
      /\ stack' = Append(Front(stack), [Last(stack) EXCEPT !.key = Token])
      /\ expect' = "colon"
  BY DEF GrammarInv, ReadKey, Parsing, MayBeKey, Consume
<1>2. index + 1 \in DOMAIN input /\ Token = input[index + 1]
  <2>1. Token # "end"
    BY <1>1, TokensApart
  <2> QED
    BY <1>1, <2>1, TokenRead
<1>3. stack # <<>> /\ Last(stack).type = "object"
  BY <1>1 DEF GrammarInv, ExpectInv, Within
<1>4. stack' = Append(Front(stack), Keyed(Last(stack), input[index + 1]))
  BY <1>1, <1>2 DEF Keyed
<1>5. ASSUME NEW v
      PROVE  Denotes(input, expect, index + 1, stack, value, v)
                 <=> Denotes(input, expect', index' + 1, stack', value', v)
  <2>1. ~EndAt(input, index + 1, stack, v)
    BY <1>1, NotEnd
  <2>2. Denotes(input, expect, index + 1, stack, value, v)
            <=> KeyAt(input, index + 1, stack, v)
    BY <1>1, <2>1 DEF Denotes
  <2>3. KeyAt(input, index + 1, stack, v) <=>
            /\ (index + 1) + 1 \in DOMAIN input /\ input[(index + 1) + 1] = Colon
            /\ ValueAt(input, (index + 1) + 2, stack', v)
    BY <1>1, <1>2, <1>4 DEF KeyAt
  <2>4. index' + 1 = (index + 1) + 1 /\ (index' + 1) + 1 = (index + 1) + 2
    BY <1>1, TokenRead
  <2>5. Denotes(input, expect', index' + 1, stack', value', v) <=>
            /\ index' + 1 \in DOMAIN input /\ input[index' + 1] = Colon
            /\ ValueAt(input, (index' + 1) + 1, stack', v)
    BY <1>1 DEF Denotes
  <2> QED
    BY <2>2, <2>3, <2>4, <2>5
<1>6. ExpectInv'
  <2>1. IsSequence(Front(stack)) /\ IsFrame(Last(stack))
    BY <1>3, StackKnown
  <2>2. Last(stack') = Keyed(Last(stack), input[index + 1]) /\ stack' # <<>>
    <3>1. /\ Last(stack') = Keyed(Last(stack), input[index + 1])
          /\ Len(stack') = Len(Front(stack)) + 1 /\ Len(Front(stack)) \in Nat
      BY <1>4, <2>1, Appended
    <3> QED
      BY <3>1
  <2>3. Last(stack').type = "object"
    BY <1>3, <2>1, <2>2, KeyedFrame
  <2> QED
    BY <1>1, <2>2, <2>3 DEF ExpectInv, Within
<1> QED
  BY <1>1, <1>2, <1>5, <1>6, Keeps

(* After the colon the value of the member is what is left. *)
LEMMA ColonStep == IInv /\ GrammarInv /\ ReadColon => GrammarInv'
<1> SUFFICES ASSUME IInv, GrammarInv, ReadColon PROVE GrammarInv'
  OBVIOUS
<1>1. /\ InputInv /\ MeaningInv /\ status = "parsing" /\ UNCHANGED <<input, status, value, stack>>
      /\ index' = index + 1 /\ expect = "colon" /\ Token = Colon /\ expect' = "value"
  BY DEF GrammarInv, ReadColon, Parsing, MayBeColon, Consume
<1>2. index + 1 \in DOMAIN input /\ Token = input[index + 1]
  <2>1. Token # "end"
    BY <1>1, Zenon DEF Colon
  <2> QED
    BY <1>1, <2>1, TokenRead
<1>3. ASSUME NEW v
      PROVE  Denotes(input, expect, index + 1, stack, value, v)
                 <=> Denotes(input, expect', index' + 1, stack', value', v)
  BY <1>1, <1>2 DEF Denotes
<1>4. ExpectInv'
  BY <1>1 DEF ExpectInv
<1> QED
  BY <1>1, <1>2, <1>3, <1>4, Keeps

(* After a comma another part is what is left. *)
LEMMA CommaStep == IInv /\ GrammarInv /\ ReadComma => GrammarInv'
<1> SUFFICES ASSUME IInv, GrammarInv, ReadComma PROVE GrammarInv'
  OBVIOUS
<1>1. /\ InputInv /\ MeaningInv /\ status = "parsing" /\ UNCHANGED <<input, status, value, stack>>
      /\ index' = index + 1 /\ expect = "commaOrEnd" /\ Token = Comma
      /\ expect' = IF Within("array") THEN "value" ELSE "key"
  BY DEF GrammarInv, ReadComma, Parsing, MayBeComma, Consume
<1>2. index + 1 \in DOMAIN input /\ Token = input[index + 1]
  <2>1. Token # "end"
    BY <1>1, Zenon DEF Comma
  <2> QED
    BY <1>1, <2>1, TokenRead
<1>3. stack # <<>> /\ Last(stack).type \in {"array", "object"}
  <2>1. stack # <<>>
    BY <1>1 DEF IInv, StackInv
  <2> QED
    BY <2>1, StackKnown DEF IsFrame
<1>4. ASSUME NEW v
      PROVE  Denotes(input, expect, index + 1, stack, value, v)
                 <=> Denotes(input, expect', index' + 1, stack', value', v)
  <2>1. ~EndAt(input, index + 1, stack, v)
    BY <1>1, NotEnd
  <2>2. Denotes(input, expect, index + 1, stack, value, v)
            <=> CommaOrEndAt(input, index + 1, stack, v)
    BY <1>1 DEF Denotes
  <2>3. CommaOrEndAt(input, index + 1, stack, v) <=> PartAt(input, index' + 1, stack, v)
    BY <1>1, <1>2, <2>1 DEF CommaOrEndAt
  <2>4. CASE Last(stack).type = "array"
    BY <1>1, <1>3, <2>2, <2>3, <2>4 DEF PartAt, Within, Denotes
  <2>5. CASE Last(stack).type = "object"
    BY <1>1, <1>3, <2>2, <2>3, <2>5 DEF PartAt, Within, Denotes
  <2> QED
    BY <1>3, <2>4, <2>5
<1>5. ExpectInv'
  BY <1>1, <1>3 DEF ExpectInv, Within
<1> QED
  BY <1>1, <1>2, <1>4, <1>5, Keeps

(* At the end the value that was built is the only one the text has. *)
LEMMA FinishStep == IInv /\ GrammarInv /\ Finish => GrammarInv'
<1> SUFFICES ASSUME GrammarInv, Finish PROVE GrammarInv'
  OBVIOUS
<1>1. /\ InputInv /\ ExpectInv /\ MeaningInv /\ status = "parsing"
      /\ UNCHANGED <<input, index, stack, expect, value>>
      /\ expect = "end" /\ Token = "end" /\ status' = "parsed"
  BY DEF GrammarInv, Finish, Parsing, MayEnd
<1>2. index + 1 = Len(input) + 1
  <2>1. index + 1 \notin DOMAIN input
    BY <1>1, TokenRead
  <2> QED
    BY <1>1, <2>1, TokenRead
<1>3. ASSUME NEW v PROVE WholeMeans(input, v) <=> v = value
  <2>1. Denotes(input, expect, index + 1, stack, value, v) <=> v = value
    BY <1>1, <1>2 DEF Denotes
  <2> QED
    BY <1>1, <2>1 DEF MeaningInv
<1>4. Limited(value)
  BY <1>1 DEF ExpectInv
<1>5. \A v : v \in Acceptable <=> v = value
  BY <1>3, <1>4, AcceptableMeans
<1>6. Acceptable = {value}
  BY <1>5
<1>7. AcceptsExactlyJson'
  <2>1. Acceptable' = Acceptable
    BY <1>1 DEF Acceptable
  <2> QED
    BY <1>1, <1>6, <2>1 DEF AcceptsExactlyJson
<1>8. InputInv' /\ ExpectInv' /\ MeaningInv'
  BY <1>1 DEF InputInv, ExpectInv, Within, MeaningInv
<1> QED
  BY <1>7, <1>8 DEF GrammarInv

(* What is refused is the beginning of no text within the limits. *)
LEMMA FailStep == IInv /\ GrammarInv /\ Fail => GrammarInv'
<1> SUFFICES ASSUME IInv, GrammarInv, Fail PROVE GrammarInv'
  OBVIOUS
<1>1. /\ InputInv /\ ExpectInv /\ MeaningInv /\ status = "parsing"
      /\ UNCHANGED <<input, index, stack, expect, value>>
      /\ ~MayOpen /\ ~MayBeLeaf /\ ~MayBeKey /\ ~MayBeColon /\ ~MayBeComma /\ ~MayClose /\ ~MayEnd
      /\ status' = "SerializationError"
  BY DEF GrammarInv, Fail, Parsing
<1>2. ASSUME NEW v, EndAt(input, index + 1, stack, v),
             stack # <<>>, \/ expect = "commaOrEnd"
                           \/ expect = "elementOrEnd" /\ Last(stack).type = "array"
                           \/ expect = "keyOrEnd" /\ Last(stack).type = "object"
      PROVE  FALSE
  <2>1. Token = ClosingOf(Last(stack).type)
    BY <1>1, <1>2, TokenRead DEF EndAt
  <2>2. Last(stack).type \in {"array", "object"}
    BY <1>2, StackKnown DEF IsFrame
  <2> QED
    BY <1>1, <1>2, <2>1, <2>2 DEF MayClose, Within, ClosingOf
<1>3. ASSUME NEW v, ValueAt(input, index + 1, stack, v), expect \in {"value", "elementOrEnd"}
      PROVE  ~Limited(v)
  <2>1. /\ index + 1 \in DOMAIN input
        /\ \/ input[index + 1] \in Strings \cup Scalars
           \/ Len(stack) < MaxDepth /\ input[index + 1] \in Leading
    BY <1>1, <1>3, StackKnown, ValueBegins DEF InputInv
  <2>2. \/ Token \in Strings \cup Scalars
        \/ Len(stack) < MaxDepth /\ Token \in Leading
    <3>1. Token = input[index + 1]
      BY <1>1, <2>1, TokenRead
    <3> QED
      BY <2>1, <3>1
  <2>3. RootFull
    BY <1>1, <1>3, <2>2 DEF MayBeLeaf, MayOpen, ValueMayBegin, Leading
  <2>4. PICK f : f = Last(stack)
    OBVIOUS
  <2>5. IsFrame(f) /\ f.type = "array" /\ MaxRootItems <= Len(f.items) /\ Len(stack) = 1
    <3>1. /\ Len(stack) = 1 /\ stack # <<>> /\ f.type = "array"
          /\ Len(f.items) >= MaxRootItems
      BY <2>3, <2>4 DEF RootFull, Within
    <3>2. IsFrame(f)
      BY <2>4, <3>1, StackKnown
    <3>3. MaxRootItems <= Len(f.items)
      BY <3>1
    <3> QED
      BY <3>1, <3>2, <3>3
  <2>6. stack = <<f>>
    <3>1. stack[1] = f
      BY <2>4, <2>5 DEF Last
    <3>2. stack \in Seq(Range(stack))
      BY StackKnown DEF IsSequence
    <3> QED
      BY <2>5, <3>1, <3>2
  <2>7. ValueAt(input, index + 1, <<f>>, v)
    BY <1>3, <2>6
  <2> QED
    BY <1>1, <2>5, <2>7, FullMeans DEF InputInv, Limited
<1>4. ASSUME NEW v, KeyAt(input, index + 1, stack, v), expect \in {"key", "keyOrEnd"}
      PROVE  FALSE
  BY <1>1, <1>4, TokenRead DEF KeyAt, MayBeKey
<1>5. ASSUME NEW v, Denotes(input, expect, index + 1, stack, value, v)
      PROVE  ~Limited(v)
  <2>1. CASE expect \in {"value", "elementOrEnd"} /\ ValueAt(input, index + 1, stack, v)
    BY <1>3, <2>1
  <2>2. CASE expect \in {"key", "keyOrEnd"} /\ KeyAt(input, index + 1, stack, v)
    BY <1>4, <2>2
  <2>3. CASE expect \in {"elementOrEnd", "keyOrEnd"} /\ EndAt(input, index + 1, stack, v)
    BY <1>1, <1>2, <2>3 DEF ExpectInv, Within
  <2>4. CASE expect = "colon" /\ index + 1 \in DOMAIN input /\ input[index + 1] = Colon
    BY <1>1, <2>4, TokenRead DEF MayBeColon
  <2>5. CASE expect = "commaOrEnd" /\ CommaOrEndAt(input, index + 1, stack, v)
    <3>1. ~EndAt(input, index + 1, stack, v)
      BY <1>2, <2>5 DEF IInv, StackInv
    <3>2. index + 1 \in DOMAIN input /\ input[index + 1] = Comma
      BY <2>5, <3>1 DEF CommaOrEndAt
    <3> QED
      BY <1>1, <2>5, <3>2, TokenRead DEF MayBeComma
  <2>6. CASE expect = "end" /\ index + 1 = Len(input) + 1
    <3>1. index + 1 \notin DOMAIN input
      <4>1. DOMAIN input = 1 .. Len(input) /\ Len(input) \in Nat
        BY <1>1 DEF InputInv, IsSequence
      <4> QED
        BY <2>6, <4>1
    <3> QED
      BY <1>1, <2>6, <3>1, TokenRead DEF MayEnd
  <2> QED
    BY <1>5, <2>1, <2>2, <2>3, <2>4, <2>5, <2>6 DEF Denotes
<1>6. \A v : v \notin Acceptable
  BY <1>1, <1>5, AcceptableMeans DEF MeaningInv
<1>7. AcceptsExactlyJson'
  <2>1. Acceptable' = Acceptable
    BY <1>1 DEF Acceptable
  <2> QED
    BY <1>1, <1>6, <2>1 DEF AcceptsExactlyJson
<1>8. InputInv' /\ ExpectInv' /\ MeaningInv'
  BY <1>1 DEF InputInv, ExpectInv, Within, MeaningInv
<1> QED
  BY <1>7, <1>8 DEF GrammarInv

(* Every step keeps what the input means. *)
LEMMA GrammarStep == IInv /\ GrammarInv /\ [Next]_vars => GrammarInv'
<1>1. IInv /\ GrammarInv /\ (Done \/ UNCHANGED vars) => GrammarInv'
  BY DEF Done, vars, GrammarInv, InputInv, ExpectInv, Within, MeaningInv, AcceptsExactlyJson,
         Acceptable
<1> QED
  BY <1>1, LeafStep, OpenStep, CloseStep, KeyStep, ColonStep, CommaStep, FinishStep, FailStep
     DEF Next

(* Whatever the tokens and the limits: a text is accepted if and only if it is
   JSON within the limits, and the value returned is the one it denotes.    *)
THEOREM ExactlyJson == Spec => []AcceptsExactlyJson
<1>1. Init => IInv /\ GrammarInv
  BY InitIInv, InitMeaning
<1>2. IInv /\ GrammarInv /\ [Next]_vars => IInv' /\ GrammarInv'
  BY Step, GrammarStep
<1>3. GrammarInv => AcceptsExactlyJson
  BY DEF GrammarInv
<1> QED
  BY <1>1, <1>2, <1>3, PTL DEF Spec

(* Every variable keeps its type, whatever the tokens. *)
THEOREM WellTyped == Spec => []TypeOK
<1> DEFINE StatusInv == status \in {"parsing", "parsed", "SerializationError"}
           Inv == IInv /\ GrammarInv /\ StatusInv
<1>1. Init => Inv
  BY InitIInv, InitMeaning DEF Init
<1>2. Inv /\ [Next]_vars => Inv'
  <2>1. StatusInv /\ [Next]_vars => StatusInv'
    BY DEF Next, ReadLeaf, OpenContainer, CloseContainer, ReadKey, ReadColon, ReadComma,
           Finish, Fail, Done, Consume, vars
  <2> HIDE DEF StatusInv
  <2> QED
    BY <2>1, Step, GrammarStep
<1>3. Inv => TypeOK
  BY DEF TypeOK, IInv, StackInv, IsFrame, GrammarInv, InputInv, ExpectInv
<1> QED
  BY <1>1, <1>2, <1>3, PTL DEF Spec
=============================================================================
