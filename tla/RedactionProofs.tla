---------------------------- MODULE RedactionProofs ----------------------------
(***************************************************************************)
(* How the API key is kept out of errors (Redaction), for answers and keys *)
(* of any length and any bytes: what is masked stays within its limit, and *)
(* the key gets through neither as it is nor percent-encoded.  A key that  *)
(* a URL holds as it is gets through behind the escapes of JSON neither,   *)
(* and what does not show it is passed on (PlainKeyHidden).                *)
(*                                                                         *)
(* The functions of the model are recursive from a place of a text to the  *)
(* places behind it.  The first part proves once that such a function      *)
(* exists and how to argue about it; the others go from the bytes of a     *)
(* text over the loop of MaskMatches, percent-encoding and the strings of  *)
(* JSON, in the answer and in what is left of it, to the steps.            *)
(***************************************************************************)
EXTENDS Redaction, TLAPS, NaturalsInduction, WellFoundedInduction

(* A set of numbers that holds 0 and is closed under successors holds all. *)
LEMMA Induct ==
    ASSUME NEW T, 0 \in T, \A n \in Nat : n \in T => n + 1 \in T
    PROVE  Nat \subseteq T
<1> SUFFICES ASSUME Nat \ T # {} PROVE FALSE
  OBVIOUS
<1>1. PICK n \in Nat \ T : \A m \in Nat \ T : ~(<<m, n>> \in OpToRel(<, Nat))
  BY NatLessThanWellFounded, WFMin
<1>2. \A m \in Nat : m < n => <<m, n>> \in OpToRel(<, Nat)
  BY DEF OpToRel
<1>3. n # 0
  OBVIOUS
<1>4. n - 1 \in Nat /\ n - 1 < n /\ (n - 1) + 1 = n
  BY <1>3
<1>5. n - 1 \in T
  BY <1>1, <1>2, <1>4
<1> QED
  BY <1>4, <1>5

(* What holds of a place behind the end, and of a place before it once it holds of
   all places behind that one, holds of all.                               *)
LEMMA Backwards ==
    ASSUME NEW N \in Nat, NEW T,
           \A i \in Nat : (i <= N => \A k \in Nat : k > i => k \in T) => i \in T
    PROVE  Nat \subseteq T
<1> DEFINE U == {n \in Nat : \A i \in Nat : i + n > N => i \in T}
<1>1. 0 \in U
  <2> SUFFICES ASSUME NEW i \in Nat, i + 0 > N PROVE i \in T
    OBVIOUS
  <2>1. ~(i <= N)
    OBVIOUS
  <2> QED
    BY <2>1
<1>2. ASSUME NEW n \in Nat, n \in U PROVE n + 1 \in U
  <2> SUFFICES ASSUME NEW i \in Nat, i + (n + 1) > N PROVE i \in T
    OBVIOUS
  <2>1. ASSUME NEW k \in Nat, k > i PROVE k \in T
    <3>1. k + n > N
      BY <2>1
    <3> QED
      BY <1>2, <3>1
  <2> QED
    BY <2>1
<1> HIDE DEF U
<1>3. Nat \subseteq U
  BY <1>1, <1>2, Induct
<1>4. ASSUME NEW i \in Nat PROVE i \in T
  <2>1. N + 1 \in U /\ i + (N + 1) > N
    BY <1>3
  <2> QED
    BY <2>1 DEF U
<1> QED
  BY <1>4

(* f is what the steps make of it. *)
Solves(f, S, step) == f \in [Nat -> S] /\ \A i \in Nat : f[i] = step[i][f]

(* Steps that look further on only, and nowhere once the end is passed, have a
   function that solves them.                                              *)
LEMMA Solution ==
    ASSUME NEW N \in Nat, NEW S, NEW any \in S, NEW step \in [Nat -> [[Nat -> S] -> S]],
           \A i \in Nat : \A f, g \in [Nat -> S] :
               (i <= N => \A k \in Nat : k > i => f[k] = g[k]) => step[i][f] = step[i][g]
    PROVE  \E f : Solves(f, S, step)
<1> DEFINE From(f, n) == f \in [Nat -> S] /\ \A i \in Nat : i + n > N => f[i] = step[i][f]
           T == {n \in Nat : \E f : From(f, n)}
<1>1. 0 \in T
  <2>1. PICK g : g = [i \in Nat |-> any]
    OBVIOUS
  <2>2. PICK f : f = [i \in Nat |-> step[i][g]]
    OBVIOUS
  <2>3. g \in [Nat -> S]
    BY <2>1
  <2>4. f \in [Nat -> S]
    BY <2>2, <2>3
  <2>5. ASSUME NEW i \in Nat, i + 0 > N PROVE f[i] = step[i][f]
    <3>1. ~(i <= N)
      BY <2>5
    <3>2. step[i][f] = step[i][g]
      BY <2>3, <2>4, <3>1
    <3> QED
      BY <2>2, <3>2
  <2> QED
    BY <2>4, <2>5
<1>2. ASSUME NEW n \in Nat, n \in T PROVE n + 1 \in T
  <2>1. PICK f : From(f, n)
    BY <1>2
  <2>2. f \in [Nat -> S] /\ \A i \in Nat : i + n > N => f[i] = step[i][f]
    BY <2>1
  <2>3. CASE n > N
    <3>1. ASSUME NEW i \in Nat PROVE i + n > N
      BY <2>3
    <3>2. From(f, n + 1)
      BY <2>2, <3>1
    <3> QED
      BY <3>2
  <2>4. CASE ~(n > N)
    <3>1. PICK p : p = N - n
      OBVIOUS
    <3>2. p \in Nat
      BY <2>4, <3>1
    <3>3. PICK g : g = [f EXCEPT ![p] = step[p][f]]
      OBVIOUS
    <3>4. step[p][f] \in S
      BY <2>2, <3>2
    <3>5. g \in [Nat -> S] /\ g[p] = step[p][f] /\ \A k \in Nat : k # p => g[k] = f[k]
      BY <2>2, <3>2, <3>3, <3>4
    <3>6. ASSUME NEW i \in Nat, i + (n + 1) > N PROVE g[i] = step[i][g]
      <4>1. i >= p
        BY <3>1, <3>2, <3>6
      <4>2. ASSUME NEW k \in Nat, k > i PROVE f[k] = g[k]
        BY <3>2, <3>5, <4>1, <4>2
      <4>3. step[i][f] = step[i][g]
        BY <2>2, <3>5, <4>2
      <4>4. i # p => i + n > N
        BY <3>1, <4>1
      <4> QED
        BY <2>2, <3>5, <4>3, <4>4
    <3>7. From(g, n + 1)
      BY <3>5, <3>6
    <3> QED
      BY <3>7
  <2> QED
    BY <2>3, <2>4
<1> HIDE DEF T
<1>3. N + 1 \in T
  <2>1. Nat \subseteq T
    BY <1>1, <1>2, Induct
  <2> QED
    BY <2>1
<1>4. PICK f : From(f, N + 1)
  BY <1>3 DEF T
<1>5. \A i \in Nat : i + (N + 1) > N
  OBVIOUS
<1> QED
  BY <1>4, <1>5 DEF Solves

-----------------------------------------------------------------------------
(* Texts of any numbers; those of bytes are among them. *)
Text == Seq(Int)

(* Min returns the least. *)
LEMMA LeastOf ==
    ASSUME NEW S, S \subseteq Nat, S # {}
    PROVE  Min(S) \in S /\ \A x \in S : Min(S) <= x
<1>1. PICK n \in S : \A m \in S : ~(<<m, n>> \in OpToRel(<, Nat))
  BY NatLessThanWellFounded, WFMin
<1>2. \A m \in S : ~(m < n)
  BY <1>1 DEF OpToRel
<1>3. \A m \in S : n <= m
  BY <1>2
<1> QED
  BY <1>3 DEF Min

(* Max returns the greatest. *)
LEMMA GreatestOf ==
    ASSUME NEW N \in Nat, NEW S, S \subseteq 0 .. N, S # {}
    PROVE  Max(S) \in S /\ \A x \in S : x <= Max(S)
<1> DEFINE T == {n \in Nat : N - n \in S}
<1>1. T \subseteq Nat /\ T # {}
  <2>1. PICK x \in S : TRUE
    OBVIOUS
  <2>2. N - x \in Nat /\ N - (N - x) = x
    BY <2>1
  <2> QED
    BY <2>2
<1>2. PICK n \in T : \A m \in T : n <= m
  <2> HIDE DEF T
  <2> QED
    BY <1>1, LeastOf
<1>3. PICK y : y = N - n
  OBVIOUS
<1>4. y \in S
  BY <1>2, <1>3
<1>5. ASSUME NEW x \in S PROVE y >= x
  <2>1. N - x \in T
    <3>1. N - x \in Nat /\ N - (N - x) = x
      OBVIOUS
    <3> QED
      BY <3>1
  <2>2. n <= N - x
    BY <1>2, <2>1
  <2> QED
    BY <1>3, <2>2
<1>6. Max(S) \in S /\ \A x \in S : Max(S) >= x
  BY <1>4, <1>5 DEF Max
<1> QED
  <2>1. ASSUME NEW x \in S PROVE x <= Max(S)
    BY <1>6
  <2> QED
    BY <1>6, <2>1

(* The limit of a text is its length or MinLimit, and neither is above it. *)
LEMMA LimitOf ==
    ASSUME NEW value \in Text, MinLimit \in Nat
    PROVE  /\ Limit(value) \in Nat /\ MinLimit <= Limit(value) /\ Len(value) <= Limit(value)
           /\ Limit(value) \in {Len(value), MinLimit}
<1>1. Len(value) \in Nat
  BY DEF Text
<1>2. PICK a : a = Len(value)
  OBVIOUS
<1>3. \E x \in {a, MinLimit} : \A y \in {a, MinLimit} : x >= y
  BY <1>1, <1>2
<1>4. Max({a, MinLimit}) \in {a, MinLimit} /\ \A y \in {a, MinLimit} : Max({a, MinLimit}) >= y
  BY <1>3 DEF Max
<1> QED
  BY <1>1, <1>2, <1>4 DEF Limit

(* The first place of a text, from a place on. *)
LEMMA FindPlace ==
    ASSUME NEW value \in Text, NEW secret, NEW from \in Nat \ {0}, NEW pos,
           pos = Find(value, secret, from)
    PROVE  \/ pos = 0 /\ \A i \in from .. Len(value) : ~OccursAt(value, secret, i)
           \/ /\ pos \in from .. Len(value) /\ pos # 0 /\ OccursAt(value, secret, pos)
              /\ \A i \in from .. pos - 1 : ~OccursAt(value, secret, i)
<1>0. Len(value) \in Nat
  BY DEF Text
<1>1. PICK places : places = {i \in from .. Len(value) : OccursAt(value, secret, i)}
  OBVIOUS
<1>2. pos = IF places = {} THEN 0 ELSE Min(places)
  BY <1>1 DEF Find
<1>3. CASE places = {}
  BY <1>1, <1>2, <1>3
<1>4. CASE places # {}
  <2>1. places \subseteq Nat
    BY <1>0, <1>1
  <2>2. pos \in places /\ \A x \in places : pos <= x
    BY <1>2, <1>4, <2>1, LeastOf
  <2>3. pos \in from .. Len(value) /\ pos # 0 /\ OccursAt(value, secret, pos)
    BY <1>1, <2>2
  <2>4. ASSUME NEW i \in from .. pos - 1 PROVE ~OccursAt(value, secret, i)
    <3>1. i \in from .. Len(value) /\ ~(pos <= i)
      BY <1>0, <2>3
    <3> QED
      BY <1>1, <2>2, <3>1
  <2> QED
    BY <2>3, <2>4
<1> QED
  BY <1>3, <1>4

(* A stretch of a text. *)
LEMMA Stretch ==
    ASSUME NEW value \in Text, NEW from \in Nat \ {0}, NEW to \in Nat, to <= Len(value)
    PROVE  /\ SubSeq(value, from, to) \in Text
           /\ Len(SubSeq(value, from, to)) = IF from <= to THEN to - from + 1 ELSE 0
           /\ \A k \in 1 .. Len(SubSeq(value, from, to)) :
                  SubSeq(value, from, to)[k] = value[from + k - 1]
<1>1. value \in Seq(Int) /\ Len(value) \in Nat
  BY DEF Text
<1>2. CASE from <= to
  BY <1>1, <1>2 DEF Text
<1>3. CASE ~(from <= to)
  BY <1>1, <1>3 DEF Text
<1> QED
  BY <1>2, <1>3

(* The mask as a text. *)
LEMMA TheMask ==
    ASSUME MaskLen \in Nat
    PROVE  Mask \in Text /\ Len(Mask) = MaskLen /\ \A k \in 1 .. MaskLen : Mask[k] = MaskByte
<1>1. Mask = [i \in 1 .. MaskLen |-> MaskByte] /\ MaskByte \in Int
  BY DEF Mask, MaskByte
<1> QED
  BY <1>1 DEF Text

(* One text after another. *)
LEMMA Joined ==
    ASSUME NEW s \in Text, NEW t \in Text
    PROVE  s \o t \in Text /\ Len(s \o t) = Len(s) + Len(t) /\ Len(s) \in Nat /\ Len(t) \in Nat
  BY DEF Text

(* What the loop of MaskMatches returns, if f returns what the next round does. *)
Grown(value, from, done, pos) == done \o SubSeq(value, from + 1, pos - 1) \o Mask
Ended(value, from, done) ==
    IF Len(SubSeq(value, from + 1, Len(value))) > Limit(value) - Len(done) THEN Mask
    ELSE done \o SubSeq(value, from + 1, Len(value))
MaskRound(value, secret, f, from, done) ==
    IF Find(value, secret, from + 1) = 0 THEN Ended(value, from, done)
    ELSE IF Len(Grown(value, from, done, Find(value, secret, from + 1))) > Limit(value) THEN Mask
    ELSE f[Find(value, secret, from + 1) + Len(secret) - 1]
          [Grown(value, from, done, Find(value, secret, from + 1))]

IsMaskLoop(value, secret, loop) ==
    loop = [from \in Nat |-> [done \in Seq(Int) |-> MaskRound(value, secret, loop, from, done)]]

(* A match adds what lies before it and the mask. *)
LEMMA GrownLength ==
    ASSUME NEW value \in Text, NEW from \in Nat, NEW done \in Text,
           NEW pos \in from + 1 .. Len(value)
    PROVE  /\ Grown(value, from, done, pos) \in Text
           /\ Len(Grown(value, from, done, pos)) = Len(done) + (pos - 1 - from) + MaskLen
           /\ SubSeq(value, from + 1, pos - 1) \in Text
           /\ Len(SubSeq(value, from + 1, pos - 1)) = pos - 1 - from
<1>1. Len(value) \in Nat /\ MaskLen \in Nat /\ Len(done) \in Nat
  BY MaskAssumption DEF Text
<1>2. pos - 1 \in Nat /\ pos - 1 <= Len(value) /\ from + 1 \in Nat \ {0}
  BY <1>1
<1>3. PICK gap : gap = SubSeq(value, from + 1, pos - 1)
  OBVIOUS
<1>4. gap \in Text /\ Len(gap) = IF from + 1 <= pos - 1 THEN (pos - 1) - (from + 1) + 1 ELSE 0
  BY <1>2, <1>3, Stretch
<1>5. Len(gap) = pos - 1 - from
  BY <1>1, <1>4
<1>6. Mask \in Text /\ Len(Mask) = MaskLen
  BY <1>1, TheMask
<1>7. PICK front : front = done \o gap
  OBVIOUS
<1>8. front \in Text /\ Len(front) = Len(done) + Len(gap)
  BY <1>4, <1>7, Joined
<1>9. front \o Mask \in Text /\ Len(front \o Mask) = Len(front) + MaskLen
  BY <1>6, <1>8, Joined
<1>10. Grown(value, from, done, pos) = front \o Mask
  BY <1>3, <1>7 DEF Grown
<1> QED
  BY <1>1, <1>3, <1>4, <1>5, <1>8, <1>9, <1>10

(* What lies behind the last match keeps to the limit. *)
LEMMA EndedText ==
    ASSUME NEW value \in Text, NEW from \in Nat, NEW done \in Text
    PROVE  /\ Ended(value, from, done) \in Text
           /\ Len(done) <= Limit(value) => Len(Ended(value, from, done)) <= Limit(value)
<1>1. Len(value) \in Nat /\ MaskLen \in Nat /\ Len(done) \in Nat /\ MinLimit \in Nat
  BY MaskAssumption DEF Text
<1>2. PICK rest : rest = SubSeq(value, from + 1, Len(value))
  OBVIOUS
<1>3. rest \in Text /\ Len(rest) \in Nat
  BY <1>1, <1>2, Stretch DEF Text
<1>4. Mask \in Text /\ Len(Mask) = MaskLen
  BY <1>1, TheMask
<1>5. done \o rest \in Text /\ Len(done \o rest) = Len(done) + Len(rest)
  BY <1>3 DEF Text
<1>6. PICK limit : limit = Limit(value)
  OBVIOUS
<1>7. limit \in Nat /\ MinLimit <= limit
  BY <1>1, <1>6, LimitOf
<1>8. MaskLen <= limit
  BY <1>1, <1>7, MaskAssumption
<1>9. CASE Len(rest) > limit - Len(done)
  BY <1>2, <1>4, <1>6, <1>8, <1>9 DEF Ended
<1>10. CASE ~(Len(rest) > limit - Len(done))
  <2>1. Ended(value, from, done) = done \o rest
    BY <1>2, <1>6, <1>10 DEF Ended
  <2>2. Len(done) + Len(rest) <= limit
    BY <1>1, <1>3, <1>7, <1>10
  <2> QED
    BY <1>5, <1>6, <2>1, <2>2
<1> QED
  BY <1>9, <1>10

(* Where the next round goes on. *)
LEMMA NextPlace ==
    ASSUME NEW value \in Text, NEW secret \in Text, secret # <<>>, NEW from \in Nat,
           NEW pos, pos = Find(value, secret, from + 1), pos # 0
    PROVE  /\ pos \in from + 1 .. Len(value)
           /\ pos + Len(secret) - 1 \in Nat /\ pos + Len(secret) - 1 > from
           /\ pos + Len(secret) - 1 <= Len(value)
           /\ from <= Len(value)
<1>1. Len(value) \in Nat /\ Len(secret) \in Nat /\ Len(secret) # 0
  BY DEF Text
<1>2. from + 1 \in Nat \ {0}
  OBVIOUS
<1>3. pos \in from + 1 .. Len(value) /\ OccursAt(value, secret, pos)
  BY <1>2, FindPlace
<1>4. pos + Len(secret) - 1 <= Len(value)
  BY <1>3 DEF OccursAt
<1> QED
  BY <1>1, <1>3, <1>4

(* The loop of MaskMatches goes on behind each match, so it is a function. *)
LEMMA MaskLoopExists ==
    ASSUME NEW value \in Text, NEW secret \in Text, secret # <<>>
    PROVE  \E loop : IsMaskLoop(value, secret, loop)
<1> DEFINE S == [Text -> Text]
           F == [Nat -> S]
           R(f, i) == [done \in Text |-> MaskRound(value, secret, f, i, done)]
           step == [i \in Nat |-> [f \in F |-> R(f, i)]]
           N == Len(value)
<1>1. N \in Nat
  BY DEF Text
<1>2. MaskLen \in Nat /\ Mask \in Text
  BY TheMask, MaskAssumption
<1>3. ASSUME NEW f \in F, NEW i \in Nat, NEW done \in Text
      PROVE  MaskRound(value, secret, f, i, done) \in Text
  <2>1. PICK pos : pos = Find(value, secret, i + 1)
    OBVIOUS
  <2>2. Ended(value, i, done) \in Text
    BY EndedText
  <2>3. CASE pos = 0
    BY <2>1, <2>2, <2>3 DEF MaskRound
  <2>4. CASE pos # 0
    <3>1. pos \in i + 1 .. Len(value) /\ pos + Len(secret) - 1 \in Nat
      BY <2>1, <2>4, NextPlace
    <3>2. PICK grown : grown = Grown(value, i, done, pos)
      OBVIOUS
    <3>3. grown \in Text
      BY <3>1, <3>2, GrownLength
    <3>4. f[pos + Len(secret) - 1][grown] \in Text
      BY <3>1, <3>3
    <3> QED
      BY <1>2, <2>1, <2>4, <3>2, <3>4 DEF MaskRound
  <2> QED
    BY <2>3, <2>4
<1>4. ASSUME NEW f \in F, NEW i \in Nat PROVE R(f, i) \in S
  BY <1>3
<1>5. step \in [Nat -> [F -> S]]
  BY <1>4
<1>6. ASSUME NEW i \in Nat, NEW f \in F, NEW g \in F,
             i <= N => \A k \in Nat : k > i => f[k] = g[k]
      PROVE  step[i][f] = step[i][g]
  <2>1. ASSUME NEW done \in Text
        PROVE  MaskRound(value, secret, f, i, done) = MaskRound(value, secret, g, i, done)
    <3>1. PICK pos : pos = Find(value, secret, i + 1)
      OBVIOUS
    <3>2. CASE pos = 0
      BY <3>1, <3>2 DEF MaskRound
    <3>3. CASE pos # 0
      <4>1. pos + Len(secret) - 1 \in Nat /\ pos + Len(secret) - 1 > i /\ i <= N
        BY <3>1, <3>3, NextPlace
      <4>2. f[pos + Len(secret) - 1] = g[pos + Len(secret) - 1]
        BY <1>6, <4>1
      <4> QED
        BY <3>1, <3>3, <4>2 DEF MaskRound
    <3> QED
      BY <3>2, <3>3
  <2>2. R(f, i) = R(g, i)
    BY <2>1
  <2> QED
    BY <2>2
<1>7. [done \in Text |-> done] \in S
  OBVIOUS
<1> HIDE DEF S, step, N
<1>8. PICK any : any \in S
  BY <1>7
<1>9. PICK f : Solves(f, S, step)
  BY <1>1, <1>5, <1>6, <1>8, Solution
<1>10. f \in F /\ \A i \in Nat : f[i] = R(f, i)
  BY <1>9 DEF Solves, step
<1>11. IsMaskLoop(value, secret, f)
  BY <1>10 DEF IsMaskLoop, Text
<1> QED
  BY <1>11

(* MaskMatches is its loop. *)
LEMMA MaskMatchesLoop ==
    ASSUME NEW value \in Text, NEW secret \in Text, secret # <<>>
    PROVE  \E loop :
               /\ MaskMatches(value, secret)
                      = IF Includes(value, secret) THEN loop[0][<<>>] ELSE value
               /\ \A from \in Nat : \A done \in Text :
                      loop[from][done] = MaskRound(value, secret, loop, from, done)
<1>1. PICK loop : loop = CHOOSE l : IsMaskLoop(value, secret, l)
  OBVIOUS
<1>2. IsMaskLoop(value, secret, loop)
  BY <1>1, MaskLoopExists
<1>3. MaskMatches(value, secret) = IF Includes(value, secret) THEN loop[0][<<>>] ELSE value
  BY <1>1 DEF MaskMatches, IsMaskLoop, MaskRound, Grown, Ended
<1>4. \A from \in Nat : \A done \in Text :
          loop[from][done] = MaskRound(value, secret, loop, from, done)
  <2> DEFINE Row(from) == [done \in Text |-> MaskRound(value, secret, loop, from, done)]
  <2>1. loop = [from \in Nat |-> Row(from)]
    BY <1>2 DEF IsMaskLoop, Text
  <2> SUFFICES ASSUME NEW from \in Nat, NEW done \in Text
               PROVE  loop[from][done] = MaskRound(value, secret, loop, from, done)
    OBVIOUS
  <2>2. Row(from)[done] = MaskRound(value, secret, loop, from, done)
    OBVIOUS
  <2> HIDE DEF Row
  <2>3. loop[from] = Row(from)
    BY <2>1
  <2> QED
    BY <2>2, <2>3
<1> QED
  BY <1>3, <1>4

(* Neither the occurrences nor the rest take a text over the limit. *)
LEMMA MaskMatchesBounded ==
    ASSUME NEW value \in Text, NEW secret \in Text, secret # <<>>
    PROVE  MaskMatches(value, secret) \in Text /\ Len(MaskMatches(value, secret)) <= Limit(value)
<1>1. PICK loop :
          /\ MaskMatches(value, secret) = IF Includes(value, secret) THEN loop[0][<<>>] ELSE value
          /\ \A from \in Nat : \A done \in Text :
                 loop[from][done] = MaskRound(value, secret, loop, from, done)
  BY MaskMatchesLoop
<1>2. PICK limit : limit = Limit(value)
  OBVIOUS
<1>3. MinLimit \in Nat /\ MaskLen \in Nat /\ MaskLen <= MinLimit
  BY MaskAssumption
<1>4. limit \in Nat /\ MinLimit <= limit /\ Len(value) <= limit
  BY <1>2, <1>3, LimitOf
<1>5. Mask \in Text /\ Len(Mask) <= limit
  BY <1>3, <1>4, TheMask
<1>6. PICK N : N = Len(value) /\ N \in Nat
  BY Joined
<1> DEFINE Within(text) == text \in Text /\ Len(text) <= limit
           T == {from \in Nat : \A done \in Text : Len(done) <= limit => Within(loop[from][done])}
<1>7. ASSUME NEW i \in Nat, i <= N => \A k \in Nat : k > i => k \in T PROVE i \in T
  <2> SUFFICES ASSUME NEW done \in Text, Len(done) <= limit PROVE Within(loop[i][done])
    OBVIOUS
  <2>1. loop[i][done] = MaskRound(value, secret, loop, i, done)
    BY <1>1
  <2>2. PICK pos : pos = Find(value, secret, i + 1)
    OBVIOUS
  <2>3. CASE pos = 0
    <3>1. loop[i][done] = Ended(value, i, done)
      BY <2>1, <2>2, <2>3 DEF MaskRound
    <3> QED
      BY <1>2, <3>1, EndedText
  <2>4. CASE pos # 0
    <3>1. PICK next : next = pos + Len(secret) - 1
      OBVIOUS
    <3>2. pos \in i + 1 .. Len(value) /\ next \in Nat /\ next > i /\ i <= N
      BY <1>6, <2>2, <2>4, <3>1, NextPlace
    <3>3. PICK grown : grown = Grown(value, i, done, pos)
      OBVIOUS
    <3>4. grown \in Text
      BY <3>2, <3>3, GrownLength
    <3>5. loop[i][done] = IF Len(grown) > limit THEN Mask ELSE loop[next][grown]
      BY <1>2, <2>1, <2>2, <2>4, <3>1, <3>3 DEF MaskRound
    <3>6. next \in T
      BY <1>7, <3>2
    <3>7. Len(grown) \in Nat
      BY <3>4, Joined
    <3>8. Len(grown) <= limit => Within(loop[next][grown])
      BY <3>4, <3>6
    <3>9. CASE Len(grown) > limit
      BY <1>5, <3>5, <3>9
    <3>10. CASE ~(Len(grown) > limit)
      BY <1>4, <3>5, <3>7, <3>8, <3>10
    <3> QED
      BY <3>9, <3>10
  <2> QED
    BY <2>3, <2>4
<1>8. Nat \subseteq T
  <2> HIDE DEF T
  <2> QED
    BY <1>6, <1>7, Backwards
<1>9. Within(loop[0][<<>>])
  <2>1. <<>> \in Text /\ Len(<<>>) = 0
    BY DEF Text
  <2> QED
    BY <1>4, <1>8, <2>1
<1> QED
  BY <1>1, <1>2, <1>4, <1>9

(* Answers and keys. *)
Bytes == Seq(0 .. 255)

(* A sequence over a set is one over a larger set. *)
LEMMA SequencesGrow ==
    ASSUME NEW S, NEW B, B \subseteq S, NEW s \in Seq(B)
    PROVE  s \in Seq(S) /\ \A i \in 1 .. Len(s) : s[i] \in B
<1>1. Len(s) \in Nat /\ \A i \in 1 .. Len(s) : s[i] \in B
  OBVIOUS
<1>2. s = [i \in 1 .. Len(s) |-> s[i]]
  OBVIOUS
<1>3. [i \in 1 .. Len(s) |-> s[i]] \in Seq(S)
  BY <1>1
<1> QED
  BY <1>1, <1>2, <1>3

(* The bytes of a text are numbers. *)
LEMMA BytesAreText ==
    ASSUME NEW s \in Bytes
    PROVE  s \in Text /\ \A i \in 1 .. Len(s) : s[i] \in 0 .. 255
<1>0. \A b \in 0 .. 255 : b \in Int
  OBVIOUS
<1>4. PICK B : B = 0 .. 255
  OBVIOUS
<1>1. B = 0 .. 255 /\ \A b \in B : b \in Int
  BY <1>0, <1>4
<1>5. B \subseteq Int
  <2> SUFFICES ASSUME NEW b \in B PROVE b \in Int
    OBVIOUS
  <2> QED
    BY <1>1
<1>2. s \in Seq(B)
  BY <1>1 DEF Bytes
<1>3. s \in Seq(Int) /\ \A i \in 1 .. Len(s) : s[i] \in B
  BY <1>5, <1>2, SequencesGrow
<1> QED
  BY <1>1, <1>3 DEF Text

(* A byte becomes at least one. *)
LEMMA EncodedByte ==
    ASSUME NEW byte \in 0 .. 255
    PROVE  Encoded(byte) \in Text /\ Len(Encoded(byte)) >= 1
<1>1. byte \div 16 \in Int /\ byte % 16 \in Int
  OBVIOUS
<1>2. HexDigit(byte \div 16) \in Int /\ HexDigit(byte % 16) \in Int
  BY <1>1 DEF HexDigit
<1>3. CASE byte \in Unreserved
  BY <1>3 DEF Encoded, Text
<1>4. CASE byte \notin Unreserved
  BY <1>2, <1>4 DEF Encoded, Percent, Text
<1> QED
  BY <1>3, <1>4

(* What is encoded from a place on is the byte there, encoded, and what follows. *)
Encoding(s, f, i) == IF i >= Len(s) THEN <<>> ELSE Encoded(s[i + 1]) \o f[i + 1]
Encodes(s, f) == \A i \in Nat : f[i] \in Text /\ f[i] = Encoding(s, f, i)

(* UrlEncode goes on byte by byte, so it is a function. *)
LEMMA EncodedFrom ==
    ASSUME NEW s \in Bytes
    PROVE  \E f : UrlEncode(s) = f[0] /\ Encodes(s, f)
<1> DEFINE N == Len(s)
           F == [Nat -> Text]
           step == [i \in Nat |-> [f \in F |-> Encoding(s, f, i)]]
           IsAfter(f) == f = [n \in Nat |->
               IF n >= Len(s) THEN <<>> ELSE Encoded(s[n + 1]) \o f[n + 1]]
<1>1. s \in Text /\ N \in Nat
  BY BytesAreText, Joined
<1>2. <<>> \in Text
  BY DEF Text
<1>3. ASSUME NEW i \in Nat, ~(i >= N) PROVE Encoded(s[i + 1]) \in Text
  <2>1. i + 1 \in 1 .. N
    BY <1>1, <1>3
  <2>2. PICK byte : byte = s[i + 1]
    OBVIOUS
  <2>3. byte \in 0 .. 255
    BY <2>1, <2>2, BytesAreText
  <2> QED
    BY <2>2, <2>3, EncodedByte
<1>4. ASSUME NEW f \in F, NEW i \in Nat PROVE Encoding(s, f, i) \in Text
  <2>1. CASE i >= N
    BY <1>2, <2>1 DEF Encoding
  <2>2. CASE ~(i >= N)
    <3>1. PICK front, rest : front = Encoded(s[i + 1]) /\ rest = f[i + 1]
      OBVIOUS
    <3>2. front \in Text /\ rest \in Text
      BY <1>3, <2>2, <3>1
    <3>3. front \o rest \in Text
      BY <3>2, Joined
    <3> QED
      BY <2>2, <3>1, <3>3 DEF Encoding
  <2> QED
    BY <2>1, <2>2
<1>5. step \in [Nat -> [F -> Text]]
  BY <1>4
<1>6. ASSUME NEW i \in Nat, NEW f \in F, NEW g \in F,
             i <= N => \A k \in Nat : k > i => f[k] = g[k]
      PROVE  step[i][f] = step[i][g]
  <2>1. CASE i >= N
    BY <2>1 DEF Encoding
  <2>2. CASE ~(i >= N)
    <3>1. f[i + 1] = g[i + 1]
      BY <1>1, <1>6, <2>2
    <3> QED
      BY <2>2, <3>1 DEF Encoding
  <2> QED
    BY <2>1, <2>2
<1>7. \E f : Solves(f, Text, step)
  <2> HIDE DEF step, N
  <2> QED
    BY <1>1, <1>2, <1>5, <1>6, Solution
<1>8. \E f : IsAfter(f) /\ f \in F
  <2>1. PICK f : Solves(f, Text, step)
    BY <1>7
  <2>2. f \in F /\ \A i \in Nat : f[i] = Encoding(s, f, i)
    BY <2>1 DEF Solves
  <2> QED
    BY <2>2 DEF Encoding
<1>9. PICK after : after = CHOOSE f : IsAfter(f)
  OBVIOUS
<1>10. UrlEncode(s) = after[0]
  BY <1>9 DEF UrlEncode
<1>11. \A i \in Nat : after[i] = Encoding(s, after, i)
  <2>1. IsAfter(after)
    BY <1>8, <1>9
  <2> QED
    BY <2>1 DEF Encoding
<1>12. \A i \in Nat : after[i] \in Text
  <2> DEFINE T == {i \in Nat : after[i] \in Text}
  <2>1. ASSUME NEW i \in Nat, i <= N => \A k \in Nat : k > i => k \in T PROVE i \in T
    <3>1. CASE i >= N
      BY <1>2, <1>11, <3>1 DEF Encoding
    <3>2. CASE ~(i >= N)
      <4>1. after[i + 1] \in Text
        <5>1. i <= N /\ i + 1 \in Nat /\ i + 1 > i
          BY <1>1, <3>2
        <5> QED
          BY <2>1, <5>1
      <4>2. PICK front, rest : front = Encoded(s[i + 1]) /\ rest = after[i + 1]
        OBVIOUS
      <4>3. front \o rest \in Text
        BY <1>3, <3>2, <4>1, <4>2, Joined
      <4> QED
        BY <1>11, <3>2, <4>2, <4>3 DEF Encoding
    <3> QED
      BY <3>1, <3>2
  <2> HIDE DEF T
  <2>2. Nat \subseteq T
    BY <1>1, <2>1, Backwards
  <2> QED
    BY <2>2 DEF T
<1> QED
  BY <1>10, <1>11, <1>12 DEF Encodes

(* A text that is not empty is not empty when it is encoded. *)
LEMMA EncodedText ==
    ASSUME NEW s \in Bytes
    PROVE  UrlEncode(s) \in Text /\ (s # <<>> => UrlEncode(s) # <<>>)
<1>1. s \in Text /\ Len(s) \in Nat
  BY BytesAreText, Joined
<1>2. PICK f : UrlEncode(s) = f[0] /\ Encodes(s, f)
  BY EncodedFrom
<1>3. f[0] \in Text /\ f[1] \in Text /\ f[0] = Encoding(s, f, 0)
  <2>1. 0 \in Nat /\ 1 \in Nat
    OBVIOUS
  <2> QED
    BY <1>2, <2>1 DEF Encodes
<1>4. ASSUME s # <<>> PROVE f[0] # <<>>
  <2>1. ~(0 >= Len(s)) /\ 1 \in 1 .. Len(s)
    BY <1>1, <1>4 DEF Text
  <2>2. PICK byte : byte = s[1] /\ byte \in 0 .. 255
    BY <2>1, BytesAreText
  <2>3. PICK front, rest : front = Encoded(byte) /\ rest = f[1]
    OBVIOUS
  <2>4. f[0] = front \o rest
    <3>1. 0 + 1 = 1
      OBVIOUS
    <3> QED
      BY <1>3, <2>1, <2>2, <2>3, <3>1 DEF Encoding
  <2>5. front \in Text /\ Len(front) >= 1 /\ rest \in Text
    BY <1>3, <2>2, <2>3, EncodedByte
  <2>6. Len(front \o rest) >= 1
    BY <2>5, Joined
  <2>7. Len(<<>>) = 0
    OBVIOUS
  <2> QED
    BY <2>4, <2>6, <2>7
<1> QED
  BY <1>2, <1>3, <1>4

-----------------------------------------------------------------------------
(* A masked text is no longer than the text was, or than MinLimit. *)
LEMMA RedactBounded ==
    ASSUME NEW value \in Text, NEW secret \in Bytes
    PROVE  /\ RedactErrorText(value, secret) \in Text
           /\ Len(RedactErrorText(value, secret)) <= Limit(value)
<1>1. MinLimit \in Nat /\ MaskLen \in Nat /\ MaskLen <= MinLimit
  BY MaskAssumption
<1>2. PICK limit : limit = Limit(value)
  OBVIOUS
<1>3. limit \in Nat /\ MinLimit <= limit /\ Len(value) <= limit
  BY <1>1, <1>2, LimitOf
<1>4. CASE secret = <<>>
  BY <1>2, <1>3, <1>4 DEF RedactErrorText
<1>5. CASE secret # <<>>
  <2>1. secret \in Text
    BY BytesAreText
  <2>2. PICK encoded : encoded = UrlEncode(secret)
    OBVIOUS
  <2>3. encoded \in Text /\ encoded # <<>>
    BY <1>5, <2>2, EncodedText
  <2>4. PICK text : text = IF encoded = secret THEN value ELSE MaskMatches(value, encoded)
    OBVIOUS
  <2>5. MaskMatches(value, encoded) \in Text /\ Len(MaskMatches(value, encoded)) <= limit
    BY <1>2, <2>3, MaskMatchesBounded
  <2>6. text \in Text /\ Len(text) <= limit
    BY <1>3, <2>4, <2>5
  <2>7. PICK masked : masked = MaskMatches(text, secret)
    OBVIOUS
  <2>8. masked \in Text /\ Len(masked) <= Limit(text)
    BY <1>5, <2>1, <2>6, <2>7, MaskMatchesBounded
  <2>9. Len(masked) <= limit
    <3>1. Limit(text) \in {Len(text), MinLimit}
      BY <1>1, <2>6, LimitOf
    <3>2. Len(masked) \in Nat /\ Len(text) \in Nat
      BY <2>6, <2>8, Joined
    <3>3. CASE Limit(text) = Len(text)
      BY <1>3, <2>6, <2>8, <3>2, <3>3
    <3>4. CASE Limit(text) = MinLimit
      BY <1>1, <1>3, <2>8, <3>2, <3>4
    <3> QED
      BY <3>1, <3>3, <3>4
  <2>10. Mask \in Text /\ Len(Mask) <= limit
    BY <1>1, <1>3, TheMask
  <2>11. RedactErrorText(value, secret) \in {Mask, masked}
    BY <1>5, <2>2, <2>4, <2>7 DEF RedactErrorText
  <2> QED
    BY <1>2, <2>8, <2>9, <2>10, <2>11
<1> QED
  BY <1>4, <1>5

(* Nor is the body of an error. *)
LEMMA SafeBodyBounded ==
    ASSUME NEW value \in Text, NEW secret \in Bytes
    PROVE  /\ SafeErrorBody(value, secret) \in Text
           /\ Len(SafeErrorBody(value, secret)) <= Limit(value)
<1>1. MinLimit \in Nat /\ MaskLen \in Nat /\ MaskLen <= MinLimit
  BY MaskAssumption
<1>2. Limit(value) \in Nat /\ MinLimit <= Limit(value)
  BY <1>1, LimitOf
<1>3. Mask \in Text /\ Len(Mask) <= Limit(value)
  BY <1>1, <1>2, TheMask
<1>4. SafeErrorBody(value, secret) \in {Mask, RedactErrorText(value, secret)}
  BY DEF SafeErrorBody
<1> QED
  BY <1>3, <1>4, RedactBounded

-----------------------------------------------------------------------------
(* Peek returns a byte of the text, or AtEnd. *)
LEMMA Peeked ==
    ASSUME NEW s \in Text, NEW i \in Nat
    PROVE  Peek(s, i) \in Int /\ (Peek(s, i) # AtEnd => i \in 1 .. Len(s) /\ s[i] = Peek(s, i))
<1>1. DOMAIN s = 1 .. Len(s) /\ \A k \in 1 .. Len(s) : s[k] \in Int
  BY DEF Text
<1> QED
  BY <1>1 DEF Peek, AtEnd

(* Four hexadecimal digits are a number. *)
LEMMA CodeUnitRead ==
    ASSUME NEW s \in Text, NEW i \in Nat
    PROVE  CodeUnit(s, i) \in Int
<1>1. \A k \in 0 .. 3 : Peek(s, i + k) \in Int
  BY Peeked
<1>2. \A byte \in Int : HexValue(byte) \in Int
  BY DEF HexValue
<1>3. \A k \in 0 .. 3 : HexValue(Peek(s, i + k)) \in Int
  BY <1>1, <1>2
<1>4. PICK a, b, c, d : /\ a = HexValue(Peek(s, i + 0)) /\ b = HexValue(Peek(s, i + 1))
                        /\ c = HexValue(Peek(s, i + 2)) /\ d = HexValue(Peek(s, i + 3))
  OBVIOUS
<1>5. a \in Int /\ b \in Int /\ c \in Int /\ d \in Int
  BY <1>3, <1>4
<1>6. CodeUnit(s, i) \in {NoUnit, 4096 * a + 256 * b + 16 * c + d}
  BY <1>4 DEF CodeUnit
<1> QED
  BY <1>5, <1>6 DEF NoUnit

(* A code point takes at most four bytes. *)
LEMMA Utf8Bytes ==
    ASSUME NEW point \in Int
    PROVE  Utf8(point) \in Text /\ Len(Utf8(point)) <= 4
<1>1. /\ 128 + ((point \div 1) % 64) \in Int /\ 128 + ((point \div 64) % 64) \in Int
      /\ 128 + ((point \div 4096) % 64) \in Int /\ 192 + point \div 64 \in Int
      /\ 224 + point \div 4096 \in Int /\ 240 + point \div 262144 \in Int
  OBVIOUS
<1>2. PICK t1, t2, t3, a, b, c :
          /\ t1 = 128 + ((point \div 1) % 64) /\ t2 = 128 + ((point \div 64) % 64)
          /\ t3 = 128 + ((point \div 4096) % 64) /\ a = 192 + point \div 64
          /\ b = 224 + point \div 4096 /\ c = 240 + point \div 262144
  OBVIOUS
<1>3. t1 \in Int /\ t2 \in Int /\ t3 \in Int /\ a \in Int /\ b \in Int /\ c \in Int
  BY <1>1, <1>2
<1>4. CASE point <= 127
  BY <1>4 DEF Utf8, Text
<1>5. CASE ~(point <= 127) /\ point <= 2047
  <2>1. Utf8(point) = <<a, t1>>
    BY <1>2, <1>5 DEF Utf8
  <2> QED
    BY <1>3, <2>1 DEF Text
<1>6. CASE ~(point <= 127) /\ ~(point <= 2047) /\ point <= 65535
  <2>1. Utf8(point) = <<b, t2, t1>>
    BY <1>2, <1>6 DEF Utf8
  <2> QED
    BY <1>3, <2>1 DEF Text
<1>7. CASE ~(point <= 127) /\ ~(point <= 2047) /\ ~(point <= 65535)
  <2>1. Utf8(point) = <<c, t3, t2, t1>>
    BY <1>2, <1>7 DEF Utf8
  <2> QED
    BY <1>3, <2>1 DEF Text
<1> QED
  BY <1>4, <1>5, <1>6, <1>7

(* A piece adds no more bytes than it takes. *)
Fits(piece) ==
    /\ piece.used \in Nat \ {0} /\ piece.bytes \in Text /\ Len(piece.bytes) <= piece.used

(* A sequence of bytes of UTF-8 is taken as it is. *)
LEMMA Utf8PieceFits ==
    ASSUME NEW s \in Text, NEW i \in Nat \ {0}, Utf8Piece(s, i) # Refused
    PROVE  Fits(Utf8Piece(s, i))
<1>1. PICK length : length = Utf8Length(s[i])
  OBVIOUS
<1>2. length \in {2, 3, 4}
  BY <1>1 DEF Utf8Length
<1>3. /\ Peek(s, i + 1) \in Follower(s[i])
      /\ \A k \in 2 .. length - 1 : Peek(s, i + k) \in Continuation
      /\ Utf8Piece(s, i) = Piece(length, SubSeq(s, i, i + length - 1))
  BY <1>1 DEF Utf8Piece
<1>4. AtEnd \notin Follower(s[i]) /\ AtEnd \notin Continuation
  BY DEF AtEnd, Follower, Continuation
<1>5. i + length - 1 <= Len(s)
  <2>1. Len(s) \in Nat
    BY Joined
  <2>2. CASE length = 2
    <3>1. i + 1 \in 1 .. Len(s)
      BY <1>3, <1>4, Peeked
    <3> QED
      BY <2>1, <2>2, <3>1
  <2>3. CASE length # 2
    <3>1. length - 1 \in 2 .. length - 1 /\ i + (length - 1) \in Nat
      BY <1>2, <2>3
    <3>2. Peek(s, i + (length - 1)) # AtEnd
      BY <1>3, <1>4, <3>1
    <3>3. i + (length - 1) \in 1 .. Len(s)
      BY <3>1, <3>2, Peeked
    <3> QED
      BY <1>2, <2>1, <3>3
  <2> QED
    BY <2>2, <2>3
<1>6. PICK bytes : bytes = SubSeq(s, i, i + length - 1)
  OBVIOUS
<1>7. bytes \in Text /\ Len(bytes) = length
  <2>1. PICK to : to = i + length - 1
    OBVIOUS
  <2>2. to \in Nat /\ to <= Len(s) /\ i <= to /\ to - i + 1 = length
    BY <1>2, <1>5, <2>1
  <2> QED
    BY <1>6, <2>1, <2>2, Stretch
<1>8. Utf8Piece(s, i) = [used |-> length, bytes |-> bytes]
  BY <1>3, <1>6 DEF Piece
<1> QED
  BY <1>2, <1>7, <1>8 DEF Fits

(* Six or twelve bytes of an escape make four at most. *)
LEMMA UnicodePieceFits ==
    ASSUME NEW s \in Text, NEW i \in Nat, UnicodePiece(s, i) # Refused
    PROVE  Fits(UnicodePiece(s, i))
<1>1. PICK first, second : first = CodeUnit(s, i + 2) /\ second = CodeUnit(s, i + 8)
  OBVIOUS
<1>2. first \in Int /\ second \in Int
  BY <1>1, CodeUnitRead
<1>3. PICK point : point = 65536 + 1024 * (first - 55296) + (second - 56320)
  OBVIOUS
<1>4. point \in Int
  BY <1>2, <1>3
<1>5. \/ UnicodePiece(s, i) = Piece(6, Utf8(first))
      \/ UnicodePiece(s, i) = Piece(12, Utf8(point))
  BY <1>1, <1>3 DEF UnicodePiece
<1>6. Utf8(first) \in Text /\ Len(Utf8(first)) <= 4 /\ Utf8(point) \in Text /\ Len(Utf8(point)) <= 4
  BY <1>2, <1>4, Utf8Bytes
<1>7. PICK short, long : short = Utf8(first) /\ long = Utf8(point)
  OBVIOUS
<1>8. Fits([used |-> 6, bytes |-> short]) /\ Fits([used |-> 12, bytes |-> long])
  <2>1. Len(short) \in Nat /\ Len(long) \in Nat
    BY <1>6, <1>7, Joined
  <2> QED
    BY <1>6, <1>7, <2>1 DEF Fits
<1> QED
  BY <1>5, <1>7, <1>8 DEF Piece

(* One byte, whatever it takes. *)
LEMMA OneByte ==
    ASSUME NEW n \in Nat \ {0}, NEW byte \in Int
    PROVE  Fits(Piece(n, <<byte>>))
<1>1. <<byte>> \in Text /\ Len(<<byte>>) = 1
  BY DEF Text
<1>2. PICK bytes : bytes = <<byte>>
  OBVIOUS
<1>3. Fits([used |-> n, bytes |-> bytes])
  BY <1>1, <1>2 DEF Fits
<1> QED
  BY <1>2, <1>3 DEF Piece

(* An escape is longer than what it stands for. *)
LEMMA EscapePieceFits ==
    ASSUME NEW s \in Text, NEW i \in Nat, EscapePiece(s, i) # Refused
    PROVE  Fits(EscapePiece(s, i))
<1>1. PICK escaped : escaped = Peek(s, i + 1)
  OBVIOUS
<1>2. escaped \in Int /\ ControlOf(escaped) \in Int
  BY <1>1, Peeked DEF ControlOf
<1>3. \/ EscapePiece(s, i) = Piece(2, <<escaped>>)
      \/ EscapePiece(s, i) = Piece(2, <<ControlOf(escaped)>>)
      \/ EscapePiece(s, i) = UnicodePiece(s, i)
  BY <1>1 DEF EscapePiece
<1> QED
  BY <1>2, <1>3, OneByte, UnicodePieceFits

(* So every piece fits, and there is none behind the end. *)
LEMMA PieceFits ==
    ASSUME NEW s \in Text, NEW i \in Nat, PieceAt(s, i) # Refused
    PROVE  i \in 1 .. Len(s) /\ Fits(PieceAt(s, i))
<1>1. ~(Peek(s, i) < 32)
  BY DEF PieceAt
<1>2. i \in 1 .. Len(s) /\ s[i] = Peek(s, i) /\ Peek(s, i) \in Int
  <2>1. Peek(s, i) # AtEnd
    BY <1>1 DEF AtEnd
  <2> QED
    BY <2>1, Peeked
<1>3. \/ PieceAt(s, i) = Utf8Piece(s, i)
      \/ PieceAt(s, i) = EscapePiece(s, i)
      \/ PieceAt(s, i) = Piece(1, <<s[i]>>)
  BY <1>1 DEF PieceAt
<1>4. i \in Nat \ {0} /\ s[i] \in Int
  BY <1>2
<1> QED
  BY <1>2, <1>3, <1>4, Utf8PieceFits, EscapePieceFits, OneByte

-----------------------------------------------------------------------------
(* What ParseString returns at i, if f is what it returns further on. *)
Reads == [text : Text, next : Nat]
Ends(next) == [text |-> <<>>, next |-> next]
Onward(piece, rest) == IF piece = Refused THEN Ends(0) ELSE Before(piece.bytes, rest)
ReadRound(s, f, i) ==
    IF Peek(s, i) = Quote THEN Ends(i + 1)
    ELSE Onward(PieceAt(s, i), f[i + PieceAt(s, i).used])
IsRead(s, read) == read = [i \in Nat |-> ReadRound(s, read, i)]

(* Where the string ends nothing is added. *)
LEMMA EndsReads ==
    ASSUME NEW next \in Nat
    PROVE  Ends(next) \in Reads /\ Ends(next).next = next /\ Len(Ends(next).text) = 0
  BY DEF Ends, Reads, Text

(* A piece is put before what follows it. *)
LEMMA BeforeReads ==
    ASSUME NEW bytes \in Text, NEW rest \in Reads
    PROVE  /\ Before(bytes, rest) \in Reads /\ Before(bytes, rest).next = rest.next
           /\ Len(Before(bytes, rest).text) = Len(bytes) + Len(rest.text)
           /\ Len(bytes) \in Nat /\ Len(rest.text) \in Nat
<1>1. PICK text, next : text = rest.text /\ next = rest.next
  OBVIOUS
<1>2. text \in Text /\ next \in Nat /\ rest = [text |-> text, next |-> next]
  BY <1>1 DEF Reads
<1>3. PICK joined : joined = bytes \o text
  OBVIOUS
<1>4. /\ joined \in Text /\ Len(joined) = Len(bytes) + Len(text)
      /\ Len(bytes) \in Nat /\ Len(text) \in Nat
  BY <1>2, <1>3, Joined
<1>5. Before(bytes, rest) = [text |-> joined, next |-> next]
  <2>1. Before(bytes, rest) = [rest EXCEPT !.text = bytes \o rest.text]
    BY DEF Before
  <2>2. Before(bytes, rest) = [rest EXCEPT !.text = joined]
    BY <1>1, <1>3, <2>1
  <2> QED
    BY <1>2, <2>2
<1> QED
  BY <1>1, <1>2, <1>4, <1>5 DEF Reads

(* A round returns a reading. *)
LEMMA ReadRoundTyped ==
    ASSUME NEW s \in Text, NEW f, NEW i \in Nat, \A k \in Nat : k > i => f[k] \in Reads
    PROVE  ReadRound(s, f, i) \in Reads
<1>1. CASE Peek(s, i) = Quote
  BY <1>1, EndsReads DEF ReadRound
<1>2. CASE Peek(s, i) # Quote /\ PieceAt(s, i) = Refused
  BY <1>2, EndsReads DEF ReadRound, Onward
<1>3. CASE Peek(s, i) # Quote /\ PieceAt(s, i) # Refused
  <2>1. PICK piece : piece = PieceAt(s, i)
    OBVIOUS
  <2>2. piece.used \in Nat \ {0} /\ piece.bytes \in Text
    BY <1>3, <2>1, PieceFits DEF Fits
  <2>3. f[i + piece.used] \in Reads
    <3>1. i + piece.used \in Nat /\ i + piece.used > i
      BY <2>2
    <3> QED
      BY <3>1
  <2>4. ReadRound(s, f, i) = Before(piece.bytes, f[i + piece.used])
    BY <1>3, <2>1 DEF ReadRound, Onward
  <2> QED
    BY <2>2, <2>3, <2>4, BeforeReads
<1> QED
  BY <1>1, <1>2, <1>3

(* ParseString goes on behind each piece, so it is a function. *)
LEMMA ReadExists ==
    ASSUME NEW s \in Text
    PROVE  \E read : IsRead(s, read)
<1> DEFINE F == [Nat -> Reads]
           step == [i \in Nat |-> [f \in F |-> ReadRound(s, f, i)]]
           N == Len(s)
<1>1. N \in Nat
  BY Joined
<1>2. ASSUME NEW f \in F, NEW i \in Nat PROVE ReadRound(s, f, i) \in Reads
  BY ReadRoundTyped
<1>3. step \in [Nat -> [F -> Reads]]
  BY <1>2
<1>4. ASSUME NEW i \in Nat, NEW f \in F, NEW g \in F,
             i <= N => \A k \in Nat : k > i => f[k] = g[k]
      PROVE  step[i][f] = step[i][g]
  <2>1. CASE Peek(s, i) = Quote
    BY <2>1 DEF ReadRound
  <2>2. CASE Peek(s, i) # Quote /\ PieceAt(s, i) = Refused
    BY <2>2 DEF ReadRound, Onward
  <2>3. CASE Peek(s, i) # Quote /\ PieceAt(s, i) # Refused
    <3>1. PICK piece : piece = PieceAt(s, i)
      OBVIOUS
    <3>2. i \in 1 .. Len(s) /\ piece.used \in Nat \ {0}
      BY <2>3, <3>1, PieceFits DEF Fits
    <3>3. i <= N /\ i + piece.used \in Nat /\ i + piece.used > i
      BY <3>2
    <3>4. f[i + piece.used] = g[i + piece.used]
      BY <1>4, <3>3
    <3> QED
      BY <3>1, <3>4 DEF ReadRound
  <2> QED
    BY <2>1, <2>2, <2>3
<1>5. PICK any : any \in Reads
  BY EndsReads
<1>6. \E f : Solves(f, Reads, step)
  <2> HIDE DEF step, N
  <2> QED
    BY <1>1, <1>3, <1>4, <1>5, Solution
<1>7. PICK f : Solves(f, Reads, step)
  BY <1>6
<1>8. f \in F /\ \A i \in Nat : f[i] = ReadRound(s, f, i)
  BY <1>7 DEF Solves
<1> QED
  BY <1>8 DEF IsRead

(* A string that ends has no more bytes than were read. *)
LEMMA StringRead ==
    ASSUME NEW s \in Text, NEW start \in Nat
    PROVE  /\ ParseString(s, start).text \in Text /\ ParseString(s, start).next \in Nat
           /\ ParseString(s, start).next # 0 =>
                  /\ ParseString(s, start).next > start /\ ParseString(s, start).next <= Len(s) + 1
                  /\ Len(ParseString(s, start).text) <= ParseString(s, start).next - 1 - start
<1>1. PICK read : read = CHOOSE f : IsRead(s, f)
  OBVIOUS
<1>2. \A i \in Nat : read[i] = ReadRound(s, read, i)
  <2>1. IsRead(s, read)
    BY <1>1, ReadExists
  <2> QED
    BY <2>1 DEF IsRead
<1>3. ParseString(s, start) = read[start]
  BY <1>1 DEF ParseString, IsRead, ReadRound, Onward, Ends
<1> DEFINE N == Len(s)
           Bounded(r, i) == /\ r \in Reads
                            /\ r.next # 0 => r.next > i /\ r.next <= N + 1 /\ Len(r.text) <= r.next - 1 - i
           T == {i \in Nat : Bounded(read[i], i)}
<1>4. N \in Nat
  BY Joined
<1>5. ASSUME NEW i \in Nat, i <= N => \A k \in Nat : k > i => k \in T PROVE i \in T
  <2>1. CASE Peek(s, i) = Quote
    <3>1. i \in 1 .. N
      BY <2>1, Peeked DEF Quote, AtEnd
    <3>2. read[i] = Ends(i + 1)
      BY <1>2, <2>1 DEF ReadRound
    <3> QED
      BY <1>4, <3>1, <3>2, EndsReads
  <2>2. CASE Peek(s, i) # Quote /\ PieceAt(s, i) = Refused
    <3>1. read[i] = Ends(0)
      BY <1>2, <2>2 DEF ReadRound, Onward
    <3> QED
      BY <3>1, EndsReads
  <2>3. CASE Peek(s, i) # Quote /\ PieceAt(s, i) # Refused
    <3>1. PICK piece, to : piece = PieceAt(s, i) /\ to = i + piece.used
      OBVIOUS
    <3>2. i \in 1 .. N /\ piece.used \in Nat \ {0} /\ piece.bytes \in Text /\ Len(piece.bytes) <= piece.used
      BY <2>3, <3>1, PieceFits DEF Fits
    <3>3. to \in Nat /\ to > i /\ to - i = piece.used
      BY <3>1, <3>2
    <3>4. to \in T
      BY <1>5, <3>2, <3>3
    <3>5. PICK rest : rest = read[to]
      OBVIOUS
    <3>6. Bounded(rest, to)
      BY <3>4, <3>5
    <3>7. read[i] = Before(piece.bytes, rest)
      BY <1>2, <2>3, <3>1, <3>5 DEF ReadRound, Onward
    <3>8. PICK r : r = read[i]
      OBVIOUS
    <3>9. /\ r \in Reads /\ r.next = rest.next
          /\ Len(r.text) = Len(piece.bytes) + Len(rest.text)
          /\ Len(piece.bytes) \in Nat /\ Len(rest.text) \in Nat
      BY <3>2, <3>6, <3>7, <3>8, BeforeReads, ZenonT(40)
    <3>10. rest.next \in Nat
      BY <3>6 DEF Reads
    <3>11. ASSUME r.next # 0
           PROVE  r.next > i /\ r.next <= N + 1 /\ Len(r.text) <= r.next - 1 - i
      <4>1. rest.next > to /\ rest.next <= N + 1 /\ Len(rest.text) <= rest.next - 1 - to
        BY <3>6, <3>9, <3>11
      <4>2. r.next > i /\ r.next <= N + 1
        BY <1>4, <3>3, <3>9, <3>10, <4>1
      <4>3. PICK a, b, u, n : /\ a = Len(piece.bytes) /\ b = Len(rest.text) /\ u = piece.used
                              /\ n = rest.next
        OBVIOUS
      <4>4. /\ a \in Nat /\ b \in Nat /\ u \in Nat /\ n \in Nat
            /\ a <= u /\ b <= n - 1 - to /\ to - i = u
        BY <3>2, <3>3, <3>9, <3>10, <4>1, <4>3
      <4>5. a + b <= n - 1 - i
        BY <3>3, <4>4
      <4> QED
        BY <3>9, <4>2, <4>3, <4>5
    <3>12. Bounded(r, i)
      BY <3>9, <3>11
    <3> QED
      BY <3>8, <3>12
  <2> QED
    BY <2>1, <2>2, <2>3
<1>6. Nat \subseteq T
  <2> HIDE DEF T, N
  <2> QED
    BY <1>4, <1>5, Backwards
<1>7. PICK r : r = read[start]
  OBVIOUS
<1>8. Bounded(r, start)
  BY <1>6, <1>7
<1>9. r.text \in Text /\ r.next \in Nat
  BY <1>8 DEF Reads
<1> QED
  BY <1>3, <1>7, <1>8, <1>9

(* Texts that are no longer than s. *)
NoLonger(s) == {t \in Text : Len(t) <= Len(s)}
(* Sets of lists of members, the values of which are no longer than s. *)
Members(s) == SUBSET Seq(Text \X NoLonger(s))

(* What ParseString returns is no longer than what it reads. *)
LEMMA StringsNoLonger ==
    ASSUME NEW s \in Text, NEW start \in Nat, ParseString(s, start).next # 0
    PROVE  ParseString(s, start).text \in NoLonger(s)
<1>1. PICK r : r = ParseString(s, start)
  OBVIOUS
<1>2. /\ r.text \in Text /\ r.next \in Nat /\ r.next <= Len(s) + 1
      /\ Len(r.text) <= r.next - 1 - start
  BY <1>1, StringRead
<1>3. PICK length, next : length = Len(r.text) /\ next = r.next
  OBVIOUS
<1>4. length \in Nat /\ next \in Nat /\ Len(s) \in Nat
  BY <1>2, <1>3, Joined
<1>5. length <= Len(s)
  BY <1>2, <1>3, <1>4
<1> QED
  BY <1>1, <1>2, <1>3, <1>5 DEF NoLonger

(* A text that is one string is longer than the string. *)
LEMMA ParsedStringNoLonger ==
    ASSUME NEW s \in Text
    PROVE  ParsedString(s) \subseteq NoLonger(s)
<1>1. PICK r : r = ParseString(s, 2)
  OBVIOUS
<1>2. Len(s) \in Nat
  BY Joined
<1>3. r.next = Len(s) + 1 => r.text \in NoLonger(s)
  <2>1. r.next = Len(s) + 1 => r.next # 0
    BY <1>2
  <2> QED
    BY <1>1, <2>1, StringsNoLonger
<1>4. ParsedString(s) \subseteq IF r.next = Len(s) + 1 THEN {r.text} ELSE {}
  BY <1>1 DEF ParsedString
<1> QED
  BY <1>3, <1>4

-----------------------------------------------------------------------------
(* The members ParseJson reads at i, if f are those it reads further on. *)
OthersFrom(s, f, next) ==
    IF Peek(s, next) = 44 THEN f[next + 1]
    ELSE IF Peek(s, next) = 125 /\ next = Len(s) THEN {<<>>} ELSE {}
ValuedFrom(s, f, name, value) ==
    IF value.next = 0 THEN {}
    ELSE {<<<<name.text, value.text>>>> \o others : others \in OthersFrom(s, f, value.next)}
NamedFrom(s, f, name) ==
    IF name.next # 0 /\ Peek(s, name.next) = 58 /\ Peek(s, name.next + 1) = Quote
    THEN ValuedFrom(s, f, name, ParseString(s, name.next + 2)) ELSE {}
MembersFrom(s, f, i) ==
    IF Peek(s, i) = Quote THEN NamedFrom(s, f, ParseString(s, i + 1)) ELSE {}
IsMember(s, member) == member = [i \in Nat |-> MembersFrom(s, member, i)]

(* Where a member at i lies, when there is one. *)
HasMember(s, i) ==
    LET name == ParseString(s, i + 1)
    IN  /\ Peek(s, i) = Quote
        /\ name.next # 0 /\ Peek(s, name.next) = 58 /\ Peek(s, name.next + 1) = Quote
        /\ ParseString(s, name.next + 2).next # 0
NameAt(s, i) == ParseString(s, i + 1)
ValueAt(s, i) == ParseString(s, NameAt(s, i).next + 2)
Ahead(s, i) == [text |-> <<NameAt(s, i).text, ValueAt(s, i).text>>, next |-> ValueAt(s, i).next]

Made(s, f, one, next) == {<<one>> \o others : others \in OthersFrom(s, f, next)}

(* A member lies before those behind it, and is within the text. *)
LEMMA MembersAt ==
    ASSUME NEW s \in Text, NEW i \in Nat
    PROVE  \/ ~HasMember(s, i) /\ \A f : MembersFrom(s, f, i) = {}
           \/ /\ i <= Len(s)
              /\ Ahead(s, i).text \in Text \X NoLonger(s)
              /\ Ahead(s, i).next \in Nat /\ Ahead(s, i).next > i
              /\ \A f : MembersFrom(s, f, i) = Made(s, f, Ahead(s, i).text, Ahead(s, i).next)
<1>1. PICK name, value : name = NameAt(s, i) /\ value = ValueAt(s, i)
  OBVIOUS
<1>2. name = ParseString(s, i + 1) /\ value = ParseString(s, name.next + 2)
  BY <1>1 DEF NameAt, ValueAt
<1>3. CASE ~HasMember(s, i)
  <2>1. ASSUME NEW f PROVE MembersFrom(s, f, i) = {}
    BY <1>2, <1>3 DEF HasMember, MembersFrom, NamedFrom, ValuedFrom
  <2> QED
    BY <1>3, <2>1
<1>4. CASE HasMember(s, i)
  <2>1. /\ Peek(s, i) = Quote
        /\ name.next # 0 /\ Peek(s, name.next) = 58 /\ Peek(s, name.next + 1) = Quote
        /\ value.next # 0
    BY <1>2, <1>4 DEF HasMember
  <2>2. i \in 1 .. Len(s)
    BY <2>1, Peeked DEF Quote, AtEnd
  <2>3. name.text \in Text /\ name.next \in Nat /\ name.next > i + 1
    BY <1>2, <2>1, StringRead
  <2>4. value.text \in NoLonger(s)
    BY <1>2, <2>1, <2>3, StringsNoLonger
  <2>5. value.next \in Nat /\ value.next > name.next + 2
    <3>1. name.next + 2 \in Nat
      BY <2>3
    <3> QED
      BY <1>2, <2>1, <3>1, StringRead
  <2>6. Ahead(s, i).text = <<name.text, value.text>> /\ Ahead(s, i).next = value.next
    BY <1>1 DEF Ahead
  <2>7. ASSUME NEW f
        PROVE  MembersFrom(s, f, i) = Made(s, f, <<name.text, value.text>>, value.next)
    BY <1>2, <2>1 DEF MembersFrom, NamedFrom, ValuedFrom, Made
  <2>8. i <= Len(s)
    BY <2>2
  <2>9. value.next > i
    BY <2>3, <2>5
  <2> QED
    BY <2>3, <2>4, <2>5, <2>6, <2>7, <2>8, <2>9
<1> QED
  BY <1>3, <1>4

(* One element more, at the front. *)
LEMMA OneAhead ==
    ASSUME NEW S, NEW one \in S, NEW others \in Seq(S)
    PROVE  <<one>> \o others \in Seq(S)
<1>1. <<one>> \in Seq(S)
  OBVIOUS
<1> QED
  BY <1>1

(* A round returns members of the text. *)
LEMMA MembersTyped ==
    ASSUME NEW s \in Text, NEW f, NEW i \in Nat,
           i <= Len(s) => \A k \in Nat : k > i => f[k] \in Members(s)
    PROVE  MembersFrom(s, f, i) \in Members(s)
<1>1. {} \in Members(s) /\ {<<>>} \in Members(s)
  BY DEF Members
<1>2. PICK one, next : one = Ahead(s, i).text /\ next = Ahead(s, i).next
  OBVIOUS
<1>3. CASE MembersFrom(s, f, i) = {}
  BY <1>1, <1>3
<1>4. CASE /\ i <= Len(s) /\ one \in Text \X NoLonger(s) /\ next \in Nat /\ next > i
           /\ MembersFrom(s, f, i) = Made(s, f, one, next)
  <2>1. f[next + 1] \in Members(s)
    BY <1>4
  <2>2. OthersFrom(s, f, next) \in Members(s)
    BY <1>1, <2>1 DEF OthersFrom
  <2>3. ASSUME NEW others \in OthersFrom(s, f, next)
        PROVE  <<one>> \o others \in Seq(Text \X NoLonger(s))
    <3>1. others \in Seq(Text \X NoLonger(s))
      BY <2>2 DEF Members
    <3> QED
      BY <1>4, <3>1, OneAhead
  <2> QED
    BY <1>4, <2>3 DEF Members, Made
<1> QED
  BY <1>2, <1>3, <1>4, MembersAt

(* ParseJson goes on behind each member, so it is a function. *)
LEMMA MemberExists ==
    ASSUME NEW s \in Text
    PROVE  \E member : IsMember(s, member)
<1> DEFINE S == Members(s)
           F == [Nat -> S]
           step == [i \in Nat |-> [f \in F |-> MembersFrom(s, f, i)]]
           N == Len(s)
<1>1. N \in Nat
  BY Joined
<1>2. ASSUME NEW f \in F, NEW i \in Nat PROVE MembersFrom(s, f, i) \in S
  <2>1. \A k \in Nat : f[k] \in Members(s)
    OBVIOUS
  <2> QED
    BY <2>1, MembersTyped
<1>3. step \in [Nat -> [F -> S]]
  BY <1>2
<1>4. ASSUME NEW i \in Nat, NEW f \in F, NEW g \in F,
             i <= N => \A k \in Nat : k > i => f[k] = g[k]
      PROVE  step[i][f] = step[i][g]
  <2>1. PICK one, next : one = Ahead(s, i).text /\ next = Ahead(s, i).next
    OBVIOUS
  <2>2. CASE \A h : MembersFrom(s, h, i) = {}
    BY <2>2
  <2>3. CASE /\ i <= Len(s) /\ next \in Nat /\ next > i
             /\ \A h : MembersFrom(s, h, i) = Made(s, h, one, next)
    <3>1. f[next + 1] = g[next + 1]
      <4>1. next + 1 \in Nat /\ next + 1 > i
        BY <2>3
      <4> QED
        BY <1>4, <2>3, <4>1
    <3>2. OthersFrom(s, f, next) = OthersFrom(s, g, next)
      BY <3>1 DEF OthersFrom
    <3>3. MembersFrom(s, f, i) = MembersFrom(s, g, i)
      BY <2>3, <3>2 DEF Made
    <3> QED
      BY <3>3
  <2> QED
    BY <2>1, <2>2, <2>3, MembersAt
<1>5. {} \in S
  BY DEF Members
<1>6. \E f : Solves(f, S, step)
  <2> HIDE DEF step, N, S
  <2> QED
    BY <1>1, <1>3, <1>4, <1>5, Solution
<1>7. PICK f : Solves(f, S, step)
  BY <1>6
<1>8. f \in F /\ \A i \in Nat : f[i] = MembersFrom(s, f, i)
  BY <1>7 DEF Solves
<1> QED
  BY <1>8 DEF IsMember

(* What ParsedObject reads from a place on. *)
ReadsMembers(s, f) ==
    /\ ParsedObject(s) = IF Peek(s, 1) = 123 THEN f[2] ELSE {}
    /\ \A i \in Nat : f[i] = MembersFrom(s, f, i) /\ f[i] \in Members(s)

(* ParsedObject reads lists of members of the text. *)
LEMMA ObjectFrom ==
    ASSUME NEW s \in Text
    PROVE  \E f : ReadsMembers(s, f)
<1>1. PICK member : member = CHOOSE f : IsMember(s, f)
  OBVIOUS
<1>2. \A i \in Nat : member[i] = MembersFrom(s, member, i)
  <2>1. IsMember(s, member)
    BY <1>1, MemberExists
  <2> QED
    BY <2>1 DEF IsMember
<1>3. ParsedObject(s) = IF Peek(s, 1) = 123 THEN member[2] ELSE {}
  BY <1>1 DEF ParsedObject, IsMember, MembersFrom, NamedFrom, ValuedFrom, OthersFrom
<1> DEFINE T == {i \in Nat : member[i] \in Members(s)}
<1>4. ASSUME NEW i \in Nat, i <= Len(s) => \A k \in Nat : k > i => k \in T PROVE i \in T
  <2>1. MembersFrom(s, member, i) \in Members(s)
    BY <1>4, MembersTyped
  <2> QED
    BY <1>2, <2>1
<1>5. Nat \subseteq T
  <2>1. Len(s) \in Nat
    BY Joined
  <2> HIDE DEF T
  <2> QED
    BY <1>4, <2>1, Backwards
<1> QED
  BY <1>2, <1>3, <1>5 DEF ReadsMembers

(* The values of an object are no longer than its text. *)
LEMMA ObjectNoLonger ==
    ASSUME NEW s \in Text
    PROVE  ParsedObject(s) \in Members(s)
<1>1. PICK f : ReadsMembers(s, f)
  BY ObjectFrom
<1>2. f[2] \in Members(s) /\ {} \in Members(s)
  BY <1>1 DEF ReadsMembers, Members
<1> QED
  BY <1>1, <1>2 DEF ReadsMembers

(* The message of an object is one of its values. *)
LEMMA MessageNoLonger ==
    ASSUME NEW s \in Text
    PROVE  MessageOf(s) \subseteq NoLonger(s)
<1>1. SUFFICES ASSUME NEW text \in MessageOf(s) PROVE text \in NoLonger(s)
  OBVIOUS
<1>2. PICK m \in ParsedObject(s) : \E i \in DOMAIN m : text = m[i][2]
  BY DEF MessageOf
<1>5. PICK i \in DOMAIN m : text = m[i][2]
  BY <1>2
<1>3. m \in Seq(Text \X NoLonger(s))
  BY <1>2, ObjectNoLonger DEF Members
<1>4. m[i] \in Text \X NoLonger(s)
  BY <1>3
<1> QED
  BY <1>4, <1>5

(* Trim leaves a stretch of the text. *)
LEMMA Trimmed ==
    ASSUME NEW s \in Text
    PROVE  Trim(s) \in NoLonger(s)
<1>1. Len(s) \in Nat /\ DOMAIN s = 1 .. Len(s)
  BY DEF Text
<1>2. PICK inner : inner = {i \in DOMAIN s : s[i] \notin WhiteSpace}
  OBVIOUS
<1>3. Trim(s) = IF inner = {} THEN <<>> ELSE SubSeq(s, Min(inner), Max(inner))
  BY <1>2 DEF Trim
<1>4. CASE inner = {}
  <2>1. <<>> \in Text /\ Len(<<>>) = 0
    BY DEF Text
  <2> QED
    BY <1>1, <1>3, <1>4, <2>1 DEF NoLonger
<1>5. CASE inner # {}
  <2>1. inner \subseteq 1 .. Len(s) /\ inner \subseteq Nat /\ inner \subseteq 0 .. Len(s)
    BY <1>1, <1>2
  <2>2. PICK from, to : from = Min(inner) /\ to = Max(inner)
    OBVIOUS
  <2>3. from \in inner
    BY <1>5, <2>1, <2>2, LeastOf
  <2>4. to \in inner
    BY <1>1, <1>5, <2>1, <2>2, GreatestOf
  <2>5. from \in Nat \ {0} /\ to \in Nat /\ to <= Len(s)
    BY <2>1, <2>3, <2>4
  <2>6. PICK text : text = SubSeq(s, from, to)
    OBVIOUS
  <2>7. text \in Text /\ Len(text) = IF from <= to THEN to - from + 1 ELSE 0
    BY <2>5, <2>6, Stretch
  <2>8. Len(text) <= Len(s)
    BY <1>1, <2>5, <2>7
  <2> QED
    BY <1>3, <1>5, <2>2, <2>6, <2>7, <2>8 DEF NoLonger
<1> QED
  BY <1>4, <1>5

(* What ExtractApiMessage finds is no longer than where it looks. *)
LEMMA ExtractNoLonger ==
    ASSUME NEW s \in Text
    PROVE  ExtractApiMessage(s) \in NoLonger(s)
<1>1. PICK text : text = Trim(s)
  OBVIOUS
<1>2. text \in Text /\ Len(text) <= Len(s)
  BY <1>1, Trimmed DEF NoLonger
<1>3. PICK own : own = ParsedString(text) \cup MessageOf(text)
  OBVIOUS
<1>4. own \subseteq NoLonger(text)
  BY <1>2, <1>3, ParsedStringNoLonger, MessageNoLonger
<1>5. ExtractApiMessage(s) = IF own = {} THEN text ELSE CHOOSE t \in own : TRUE
  BY <1>1, <1>3 DEF ExtractApiMessage
<1>6. ExtractApiMessage(s) \in NoLonger(text)
  <2>1. Len(text) \in Nat
    BY <1>2, Joined
  <2>2. text \in NoLonger(text)
    BY <1>2, <2>1 DEF NoLonger
  <2> QED
    BY <1>4, <1>5, <2>2
<1>7. PICK t : t = ExtractApiMessage(s)
  OBVIOUS
<1>8. t \in Text /\ Len(t) <= Len(text) /\ Len(t) \in Nat /\ Len(text) \in Nat /\ Len(s) \in Nat
  BY <1>2, <1>6, <1>7, Joined DEF NoLonger
<1>9. Len(t) <= Len(s)
  BY <1>2, <1>8
<1> QED
  BY <1>7, <1>8, <1>9 DEF NoLonger

-----------------------------------------------------------------------------
(* Texts that agree byte by byte are the same. *)
LEMMA SameText ==
    ASSUME NEW s \in Text, NEW t \in Text, Len(s) = Len(t), \A k \in 1 .. Len(t) : s[k] = t[k]
    PROVE  s = t
<1>1. s = [k \in 1 .. Len(t) |-> s[k]]
  BY DEF Text
<1>2. t = [k \in 1 .. Len(t) |-> t[k]]
  BY DEF Text
<1>3. [k \in 1 .. Len(t) |-> s[k]] = [k \in 1 .. Len(t) |-> t[k]]
  OBVIOUS
<1> QED
  BY <1>1, <1>2, <1>3

(* Keys do not contain the byte of the mask. *)
LEMMA NoMaskByte ==
    ASSUME NEW secret \in Text, MaskByte \notin Range(secret)
    PROVE  \A k \in 1 .. Len(secret) : secret[k] # MaskByte
<1>1. DOMAIN secret = 1 .. Len(secret)
  BY DEF Text
<1>2. \A k \in DOMAIN secret : secret[k] \in Range(secret)
  BY DEF Range
<1> QED
  BY <1>1, <1>2

(* secret is in text at i, byte by byte. *)
LEMMA OccursByByte ==
    ASSUME NEW text \in Text, NEW secret \in Text, secret # <<>>, NEW i \in Nat \ {0}
    PROVE  OccursAt(text, secret, i)
               <=> /\ i + Len(secret) - 1 <= Len(text)
                   /\ \A k \in 1 .. Len(secret) : text[i + k - 1] = secret[k]
<1>1. Len(text) \in Nat /\ Len(secret) \in Nat /\ Len(secret) # 0
  BY DEF Text
<1>2. PICK to : to = i + Len(secret) - 1
  OBVIOUS
<1>3. to \in Nat /\ i <= to /\ to - i + 1 = Len(secret)
  BY <1>1, <1>2
<1>4. CASE ~(to <= Len(text))
  BY <1>2, <1>4 DEF OccursAt
<1>5. CASE to <= Len(text)
  <2>1. PICK part : part = SubSeq(text, i, to)
    OBVIOUS
  <2>2. /\ part \in Text /\ Len(part) = Len(secret)
        /\ \A k \in 1 .. Len(part) : part[k] = text[i + k - 1]
    BY <1>3, <1>5, <2>1, Stretch
  <2>3. OccursAt(text, secret, i) <=> part = secret
    BY <1>2, <1>5, <2>1 DEF OccursAt
  <2>4. part = secret <=> \A k \in 1 .. Len(secret) : part[k] = secret[k]
    BY <2>2, SameText
  <2> QED
    BY <1>2, <1>5, <2>2, <2>3, <2>4
<1> QED
  BY <1>4, <1>5

(* secret is nowhere in text. *)
Free(text, secret) == \A i \in 1 .. Len(text) : ~OccursAt(text, secret, i)

(* find looks everywhere. *)
LEMMA FreeOf ==
    ASSUME NEW text \in Text, NEW secret
    PROVE  Includes(text, secret) <=> ~Free(text, secret)
<1>1. PICK pos : pos = Find(text, secret, 1)
  OBVIOUS
<1>2. \/ pos = 0 /\ \A i \in 1 .. Len(text) : ~OccursAt(text, secret, i)
      \/ pos \in 1 .. Len(text) /\ pos # 0 /\ OccursAt(text, secret, pos)
  BY <1>1, FindPlace
<1> QED
  BY <1>1, <1>2 DEF Includes, Free

(* A secret without the byte of the mask does not reach over one. *)
LEMMA Seam ==
    ASSUME NEW front \in Text, NEW back \in Text, NEW secret \in Text, secret # <<>>,
           MaskByte \notin Range(secret), Free(front, secret), Free(back, secret),
           front = <<>> \/ front[Len(front)] = MaskByte \/ (back # <<>> /\ back[1] = MaskByte)
    PROVE  Free(front \o back, secret)
<1>1. PICK text, n, m, l : text = front \o back /\ n = Len(front) /\ m = Len(back) /\ l = Len(secret)
  OBVIOUS
<1>2. n \in Nat /\ m \in Nat /\ l \in Nat /\ l # 0 /\ text \in Text /\ Len(text) = n + m
  BY <1>1, Joined DEF Text
<1>3. /\ \A k \in 1 .. n : text[k] = front[k]
      /\ \A k \in n + 1 .. n + m : text[k] = back[k - n]
  BY <1>1 DEF Text
<1>4. \A k \in 1 .. l : secret[k] # MaskByte
  BY <1>1, NoMaskByte
<1> SUFFICES ASSUME NEW i \in 1 .. n + m, OccursAt(text, secret, i) PROVE FALSE
  BY <1>1, <1>2 DEF Free
<1>5. i \in Nat \ {0}
  BY <1>2
<1>6. i + l - 1 <= n + m /\ \A k \in 1 .. l : text[i + k - 1] = secret[k]
  BY <1>1, <1>2, <1>5, OccursByByte, ZenonT(40)
<1>7. CASE i + l - 1 <= n
  <2>1. \A k \in 1 .. l : front[i + k - 1] = secret[k]
    <3> SUFFICES ASSUME NEW k \in 1 .. l PROVE front[i + k - 1] = secret[k]
      OBVIOUS
    <3>1. i + k - 1 \in 1 .. n
      BY <1>2, <1>5, <1>7
    <3> QED
      BY <1>3, <1>6, <3>1
  <2>2. i + Len(secret) - 1 <= Len(front) /\ \A k \in 1 .. Len(secret) : front[i + k - 1] = secret[k]
    BY <1>1, <1>7, <2>1
  <2>3. OccursAt(front, secret, i)
    BY <1>5, <2>2, OccursByByte
  <2>4. i \in 1 .. n
    BY <1>2, <1>5, <1>7
  <2> QED
    BY <1>1, <2>3, <2>4 DEF Free
<1>8. CASE i > n
  <2>1. PICK j : j = i - n
    OBVIOUS
  <2>2. j \in Nat \ {0} /\ j + l - 1 <= m /\ j \in 1 .. m
    BY <1>2, <1>5, <1>6, <1>8, <2>1
  <2>3. \A k \in 1 .. l : back[j + k - 1] = secret[k]
    <3> SUFFICES ASSUME NEW k \in 1 .. l PROVE back[j + k - 1] = secret[k]
      OBVIOUS
    <3>1. i + k - 1 \in n + 1 .. n + m /\ (i + k - 1) - n = j + k - 1
      BY <1>2, <1>5, <1>6, <1>8, <2>1
    <3> QED
      BY <1>3, <1>6, <3>1
  <2>4. OccursAt(back, secret, j)
    BY <1>1, <1>2, <2>2, <2>3, OccursByByte
  <2> QED
    BY <1>1, <2>2, <2>4 DEF Free
<1>9. CASE i <= n /\ i + l - 1 > n
  <2>1. PICK k : k = n - i + 1
    OBVIOUS
  <2>2. /\ k \in 1 .. l /\ k + 1 \in 1 .. l /\ i + k - 1 = n /\ i + (k + 1) - 1 = n + 1
        /\ n \in 1 .. n /\ n + 1 \in n + 1 .. n + m /\ (n + 1) - n = 1
    BY <1>2, <1>5, <1>6, <1>9, <2>1
  <2>3. front[n] = secret[k]
    BY <1>3, <1>6, <2>2
  <2>4. back[1] = secret[k + 1]
    <3>1. text[n + 1] = back[(n + 1) - n]
      BY <1>3, <2>2
    <3>2. text[i + (k + 1) - 1] = secret[k + 1]
      BY <1>6, <2>2
    <3> QED
      BY <2>2, <3>1, <3>2
  <2>5. front # <<>>
    BY <1>1, <2>2
  <2> QED
    BY <1>1, <1>4, <2>2, <2>3, <2>4, <2>5
<1> QED
  BY <1>2, <1>5, <1>7, <1>8, <1>9

(* The mask does not hold the secret. *)
LEMMA MaskFree ==
    ASSUME MaskLen \in Nat, NEW secret \in Text, secret # <<>>, MaskByte \notin Range(secret)
    PROVE  Free(Mask, secret)
<1>1. Mask \in Text /\ Len(Mask) = MaskLen /\ \A k \in 1 .. MaskLen : Mask[k] = MaskByte
  BY TheMask
<1>2. Len(secret) \in Nat /\ 1 \in 1 .. Len(secret) /\ secret[1] # MaskByte
  BY DEF Range, Text
<1> SUFFICES ASSUME NEW i \in 1 .. MaskLen, OccursAt(Mask, secret, i) PROVE FALSE
  BY <1>1 DEF Free
<1>3. i \in Nat \ {0} /\ i + 1 - 1 = i
  OBVIOUS
<1>4. Mask[i + 1 - 1] = secret[1]
  BY <1>1, <1>2, <1>3, OccursByByte
<1> QED
  BY <1>1, <1>2, <1>3, <1>4

(* Where the secret is not found, it is not in the stretch either. *)
LEMMA StretchFree ==
    ASSUME NEW value \in Text, NEW secret \in Text, secret # <<>>, NEW from \in Nat,
           NEW to \in Nat, to <= Len(value),
           \A i \in from + 1 .. to : ~OccursAt(value, secret, i)
    PROVE  Free(SubSeq(value, from + 1, to), secret)
<1>1. PICK gap, m, l, n : /\ gap = SubSeq(value, from + 1, to) /\ m = Len(gap)
                          /\ l = Len(secret) /\ n = Len(value)
  OBVIOUS
<1>2. /\ gap \in Text /\ m = IF from + 1 <= to THEN to - (from + 1) + 1 ELSE 0
      /\ \A k \in 1 .. m : gap[k] = value[(from + 1) + k - 1]
  <2>1. from + 1 \in Nat \ {0}
    OBVIOUS
  <2> QED
    BY <1>1, <2>1, Stretch
<1>3. l \in Nat /\ l # 0 /\ m \in Nat /\ n \in Nat /\ m <= n
  BY <1>1, <1>2, Joined DEF Text
<1> SUFFICES ASSUME NEW i \in 1 .. m, OccursAt(gap, secret, i) PROVE FALSE
  BY <1>1 DEF Free
<1>4. i \in Nat \ {0} /\ from + i \in Nat \ {0}
  BY <1>3
<1>5. i + l - 1 <= m /\ \A k \in 1 .. l : gap[i + k - 1] = secret[k]
  <2>1. i + Len(secret) - 1 <= Len(gap) /\ \A k \in 1 .. Len(secret) : gap[i + k - 1] = secret[k]
    BY <1>2, <1>4, OccursByByte
  <2> QED
    BY <1>1, <2>1
<1>6. \A k \in 1 .. l : value[(from + i) + k - 1] = secret[k]
  <2> SUFFICES ASSUME NEW k \in 1 .. l PROVE value[(from + i) + k - 1] = secret[k]
    OBVIOUS
  <2>1. i + k - 1 \in 1 .. m /\ (from + 1) + (i + k - 1) - 1 = (from + i) + k - 1
    BY <1>3, <1>4, <1>5
  <2> QED
    BY <1>2, <1>5, <2>1
<1>7. from + i \in from + 1 .. to /\ (from + i) + l - 1 <= n
  BY <1>1, <1>2, <1>3, <1>4, <1>5
<1>8. OccursAt(value, secret, from + i)
  BY <1>1, <1>4, <1>6, <1>7, OccursByByte
<1> QED
  BY <1>7, <1>8

-----------------------------------------------------------------------------
(* What is done of a text: no secret, and a mask at its end. *)
Sealed(done, secret) == Free(done, secret) /\ (done = <<>> \/ done[Len(done)] = MaskByte)

(* A match leaves no secret in what is done, and a mask at its end. *)
LEMMA GrownSealed ==
    ASSUME NEW value \in Text, NEW secret \in Text, secret # <<>>,
           MaskByte \notin Range(secret), NEW from \in Nat, NEW done \in Text, Sealed(done, secret),
           NEW pos \in from + 1 .. Len(value), \A i \in from + 1 .. pos - 1 : ~OccursAt(value, secret, i)
    PROVE  Sealed(Grown(value, from, done, pos), secret)
<1>1. Len(value) \in Nat /\ MaskLen \in Nat \ {0}
  BY Joined, MaskAssumption
<1>2. PICK gap, to : gap = SubSeq(value, from + 1, pos - 1) /\ to = pos - 1
  OBVIOUS
<1>3. to \in Nat /\ to <= Len(value) /\ from + 1 \in Nat \ {0}
  BY <1>1, <1>2
<1>4. gap \in Text /\ Free(gap, secret)
  <2>1. gap \in Text
    BY <1>2, <1>3, Stretch
  <2> QED
    BY <1>2, <1>3, <2>1, StretchFree
<1>5. Mask \in Text /\ Len(Mask) = MaskLen /\ \A k \in 1 .. MaskLen : Mask[k] = MaskByte
  BY <1>1, TheMask
<1>6. Free(Mask, secret)
  BY <1>1, MaskFree
<1>7. PICK front : front = done \o gap
  OBVIOUS
<1>8. front \in Text /\ Free(front, secret)
  <2>1. front \in Text
    BY <1>4, <1>7, Joined
  <2> QED
    BY <1>4, <1>7, <2>1, Seam DEF Sealed
<1>9. PICK grown : grown = front \o Mask
  OBVIOUS
<1>10. Mask # <<>> /\ Mask[1] = MaskByte
  BY <1>1, <1>5
<1>11. Free(grown, secret)
  BY <1>5, <1>6, <1>8, <1>9, <1>10, Seam
<1>12. grown[Len(grown)] = MaskByte
  <2>1. Len(grown) = Len(front) + MaskLen /\ Len(front) \in Nat
    BY <1>5, <1>8, <1>9, Joined
  <2>2. PICK n : n = Len(front)
    OBVIOUS
  <2>3. grown[n + MaskLen] = Mask[MaskLen]
    BY <1>1, <1>5, <1>8, <1>9, <2>1, <2>2, SMTT(30) DEF Text
  <2> QED
    BY <1>1, <1>5, <2>1, <2>2, <2>3
<1>13. Grown(value, from, done, pos) = grown
  BY <1>2, <1>7, <1>9 DEF Grown
<1> QED
  BY <1>11, <1>12, <1>13 DEF Sealed

(* Nor is there one in what lies behind the last match. *)
LEMMA EndedFree ==
    ASSUME NEW value \in Text, NEW secret \in Text, secret # <<>>,
           MaskByte \notin Range(secret), NEW from \in Nat, NEW done \in Text, Sealed(done, secret),
           \A i \in from + 1 .. Len(value) : ~OccursAt(value, secret, i)
    PROVE  Free(Ended(value, from, done), secret)
<1>1. Len(value) \in Nat /\ MaskLen \in Nat /\ from + 1 \in Nat \ {0}
  BY Joined, MaskAssumption
<1>2. PICK rest : rest = SubSeq(value, from + 1, Len(value))
  OBVIOUS
<1>3. rest \in Text
  BY <1>1, <1>2, Stretch
<1>4. Free(rest, secret)
  BY <1>1, <1>2, StretchFree
<1>5. Free(done \o rest, secret)
  BY <1>3, <1>4, Seam DEF Sealed
<1>6. Free(Mask, secret)
  BY <1>1, MaskFree
<1> QED
  BY <1>2, <1>5, <1>6 DEF Ended

(* A masked text does not hold what was masked. *)
LEMMA MaskMatchesHides ==
    ASSUME NEW value \in Text, NEW secret \in Text, secret # <<>>,
           MaskByte \notin Range(secret)
    PROVE  ~Includes(MaskMatches(value, secret), secret)
<1>1. PICK loop :
          /\ MaskMatches(value, secret) = IF Includes(value, secret) THEN loop[0][<<>>] ELSE value
          /\ \A from \in Nat : \A done \in Text :
                 loop[from][done] = MaskRound(value, secret, loop, from, done)
  BY MaskMatchesLoop
<1>2. PICK N : N = Len(value) /\ N \in Nat
  BY Joined
<1>3. Free(Mask, secret)
  BY MaskFree, MaskAssumption
<1> DEFINE T == {from \in Nat : \A done \in Text : Sealed(done, secret) => Free(loop[from][done], secret)}
<1>4. ASSUME NEW i \in Nat, i <= N => \A k \in Nat : k > i => k \in T PROVE i \in T
  <2> SUFFICES ASSUME NEW done \in Text, Sealed(done, secret) PROVE Free(loop[i][done], secret)
    OBVIOUS
  <2>1. loop[i][done] = MaskRound(value, secret, loop, i, done)
    BY <1>1
  <2>2. PICK pos : pos = Find(value, secret, i + 1)
    OBVIOUS
  <2>3. \/ pos = 0 /\ \A k \in i + 1 .. Len(value) : ~OccursAt(value, secret, k)
        \/ /\ pos \in i + 1 .. Len(value) /\ pos # 0 /\ OccursAt(value, secret, pos)
           /\ \A k \in i + 1 .. pos - 1 : ~OccursAt(value, secret, k)
    <3>1. i + 1 \in Nat \ {0}
      OBVIOUS
    <3> QED
      BY <2>2, <3>1, FindPlace
  <2>4. CASE pos = 0
    <3>1. loop[i][done] = Ended(value, i, done)
      BY <2>1, <2>2, <2>4 DEF MaskRound
    <3>2. \A k \in i + 1 .. Len(value) : ~OccursAt(value, secret, k)
      BY <2>3, <2>4
    <3> QED
      BY <3>1, <3>2, EndedFree
  <2>5. CASE pos # 0
    <3>1. PICK next : next = pos + Len(secret) - 1
      OBVIOUS
    <3>2. pos \in i + 1 .. Len(value) /\ next \in Nat /\ next > i /\ i <= N
      BY <1>2, <2>2, <2>5, <3>1, NextPlace
    <3>3. PICK grown : grown = Grown(value, i, done, pos)
      OBVIOUS
    <3>4. grown \in Text
      BY <3>2, <3>3, GrownLength
    <3>5. Sealed(grown, secret)
      <4>1. \A k \in i + 1 .. pos - 1 : ~OccursAt(value, secret, k)
        BY <2>3, <2>5
      <4> QED
        BY <3>2, <3>3, <4>1, GrownSealed
    <3>6. loop[i][done] = IF Len(grown) > Limit(value) THEN Mask ELSE loop[next][grown]
      BY <2>1, <2>2, <2>5, <3>1, <3>3 DEF MaskRound
    <3>7. next \in T
      BY <1>4, <3>2
    <3> QED
      BY <1>3, <3>4, <3>5, <3>6, <3>7
  <2> QED
    BY <2>4, <2>5
<1>5. Nat \subseteq T
  <2> HIDE DEF T
  <2> QED
    BY <1>2, <1>4, Backwards
<1>6. Free(loop[0][<<>>], secret)
  <2>1. <<>> \in Text /\ Len(<<>>) = 0
    BY DEF Text
  <2>2. Sealed(<<>>, secret)
    BY <2>1 DEF Sealed, Free
  <2> QED
    BY <1>5, <2>1, <2>2
<1>7. CASE Includes(value, secret)
  <2>1. PICK text : text = MaskMatches(value, secret)
    OBVIOUS
  <2>2. text \in Text
    BY <2>1, MaskMatchesBounded
  <2>3. Free(text, secret)
    BY <1>1, <1>6, <1>7, <2>1
  <2> QED
    BY <2>1, <2>2, <2>3, FreeOf
<1>8. CASE ~Includes(value, secret)
  BY <1>1, <1>8
<1> QED
  BY <1>7, <1>8

(* Nor do the text and the body of an error hold it. *)
LEMMA RedactHides ==
    ASSUME NEW value \in Text, NEW secret \in Bytes, secret # <<>>,
           MaskByte \notin Range(secret)
    PROVE  /\ ~Includes(RedactErrorText(value, secret), secret)
           /\ ~Includes(SafeErrorBody(value, secret), secret)
<1>1. secret \in Text
  BY BytesAreText
<1>2. PICK encoded : encoded = UrlEncode(secret)
  OBVIOUS
<1>3. encoded \in Text /\ encoded # <<>>
  BY <1>2, EncodedText
<1>4. PICK text : text = IF encoded = secret THEN value ELSE MaskMatches(value, encoded)
  OBVIOUS
<1>5. text \in Text
  BY <1>3, <1>4, MaskMatchesBounded
<1>6. RedactErrorText(value, secret) \in {Mask, MaskMatches(text, secret)}
  BY <1>2, <1>4 DEF RedactErrorText
<1>7. ~Includes(Mask, secret)
  <2>1. MaskLen \in Nat
    BY MaskAssumption
  <2>2. Mask \in Text /\ Free(Mask, secret)
    BY <1>1, <2>1, TheMask, MaskFree
  <2> QED
    BY <2>2, FreeOf
<1>8. ~Includes(MaskMatches(text, secret), secret)
  BY <1>1, <1>5, MaskMatchesHides
<1>9. SafeErrorBody(value, secret) \in {Mask, RedactErrorText(value, secret)}
  BY DEF SafeErrorBody
<1> QED
  BY <1>6, <1>7, <1>8, <1>9

-----------------------------------------------------------------------------
(* An escape of percent-encoding at i: a percent sign and two digits. *)
Digit(byte) == HexValue(byte) >= 0
Escape(s, i) ==
    i \in Nat /\ i > 0 /\ i + 2 <= Len(s) /\ s[i] = Percent /\ Digit(s[i + 1]) /\ Digit(s[i + 2])

(* What PercentDecoded makes of the place i, and where it goes on. *)
Unit(s, i) == IF Escape(s, i) THEN 16 * HexValue(s[i + 1]) + HexValue(s[i + 2]) ELSE s[i]
Behind(s, i) == IF Escape(s, i) THEN i + 3 ELSE i + 1
Decoding(s, f, i) == IF i > Len(s) THEN <<>> ELSE <<Unit(s, i)>> \o f[Behind(s, i)]
Decodes(s, f) ==
    \A i \in Nat \ {0} : f[i] \in Text /\ f[i] = Decoding(s, f, i)

(* Neither the percent sign nor the byte of the mask is a digit. *)
LEMMA DigitByte ==
    ASSUME NEW byte, Digit(byte)
    PROVE  byte # Percent /\ byte # MaskByte /\ byte # AtEnd /\ HexValue(byte) \in 0 .. 15
<1>1. HexValue(Percent) = -1 /\ HexValue(MaskByte) = -1 /\ HexValue(AtEnd) = -1
  BY DEF HexValue, Percent, MaskByte, AtEnd
<1>2. HexValue(byte) \in -1 .. 15
  BY DEF HexValue
<1> QED
  BY <1>1, <1>2 DEF Digit

(* The test of PercentDecoded finds the escapes. *)
LEMMA EscapeFound ==
    ASSUME NEW s \in Text, NEW i \in 1 .. Len(s)
    PROVE  /\ Len(s) \in Nat /\ s[i] \in Int
           /\ Escape(s, i)
                  <=> s[i] = Percent /\ HexValue(Peek(s, i + 1)) >= 0 /\ HexValue(Peek(s, i + 2)) >= 0
<1>1. Len(s) \in Nat /\ DOMAIN s = 1 .. Len(s) /\ s[i] \in Int
  BY DEF Text
<1>2. \A k \in Nat : HexValue(Peek(s, k)) >= 0 => k \in 1 .. Len(s) /\ Peek(s, k) = s[k]
  <2> SUFFICES ASSUME NEW k \in Nat, HexValue(Peek(s, k)) >= 0 PROVE k \in 1 .. Len(s) /\ Peek(s, k) = s[k]
    OBVIOUS
  <2>1. Peek(s, k) # AtEnd
    BY DigitByte DEF Digit
  <2> QED
    BY <2>1, Peeked
<1>3. \A k \in 1 .. Len(s) : Peek(s, k) = s[k]
  BY <1>1 DEF Peek
<1>4. i + 1 \in Nat /\ i + 2 \in Nat
  BY <1>1
<1>5. ASSUME Escape(s, i) PROVE HexValue(Peek(s, i + 1)) >= 0 /\ HexValue(Peek(s, i + 2)) >= 0
  <2>1. i + 1 \in 1 .. Len(s) /\ i + 2 \in 1 .. Len(s)
    BY <1>1, <1>5 DEF Escape
  <2> QED
    BY <1>3, <1>5, <2>1 DEF Escape, Digit
<1>6. ASSUME s[i] = Percent, HexValue(Peek(s, i + 1)) >= 0, HexValue(Peek(s, i + 2)) >= 0
      PROVE  Escape(s, i)
  <2>1. i + 1 \in 1 .. Len(s) /\ i + 2 \in 1 .. Len(s)
    BY <1>2, <1>4, <1>6
  <2>2. HexValue(s[i + 1]) >= 0 /\ HexValue(s[i + 2]) >= 0
    BY <1>3, <1>6, <2>1
  <2> QED
    BY <1>1, <1>6, <2>1, <2>2 DEF Escape, Digit
<1>7. Escape(s, i) => s[i] = Percent
  BY DEF Escape
<1> QED
  BY <1>1, <1>5, <1>6, <1>7, Zenon

(* A place is decoded to one number, and the decoding goes on behind it. *)
LEMMA UnitTyped ==
    ASSUME NEW s \in Text, NEW i \in 1 .. Len(s)
    PROVE  Unit(s, i) \in Int /\ Behind(s, i) \in Nat \ {0} /\ Behind(s, i) > i
<1>1. s[i] \in Int /\ Len(s) \in Nat
  BY EscapeFound
<1>2. CASE Escape(s, i)
  <2>1. PICK x, y : x = HexValue(s[i + 1]) /\ y = HexValue(s[i + 2])
    OBVIOUS
  <2>2. x \in 0 .. 15 /\ y \in 0 .. 15
    BY <1>2, <2>1, DigitByte DEF Escape
  <2>3. Unit(s, i) = 16 * x + y /\ Behind(s, i) = i + 3
    BY <1>2, <2>1 DEF Unit, Behind
  <2> QED
    BY <1>1, <2>2, <2>3
<1>3. CASE ~Escape(s, i)
  BY <1>1, <1>3 DEF Unit, Behind
<1> QED
  BY <1>2, <1>3

(* One round of PercentDecoded as it is written, for the place 0, at which it
   does not begin, too.                                                    *)
PercentRound(s, f, i) ==
    IF i > Len(s) THEN <<>>
    ELSE IF s[i] = Percent /\ HexValue(Peek(s, i + 1)) >= 0 /\ HexValue(Peek(s, i + 2)) >= 0
         THEN <<16 * HexValue(s[i + 1]) + HexValue(s[i + 2])>> \o f[i + 3]
         ELSE <<s[i]>> \o f[i + 1]
IsPercent(s, f) == f = [i \in Nat |-> PercentRound(s, f, i)]

(* One number before a sequence. *)
LEMMA Before1 ==
    ASSUME NEW S, NEW x \in S, NEW t \in Seq(S)
    PROVE  <<x>> \o t \in Seq(S)
<1>1. <<x>> \in Seq(S)
  OBVIOUS
<1> QED
  BY <1>1

(* PercentDecoded goes on behind each place, so it is a function. *)
LEMMA PercentExists ==
    ASSUME NEW s \in Text
    PROVE  \E f : IsPercent(s, f)
<1> DEFINE N == Len(s)
           B == Int \cup {s[0]}
           S == Seq(B)
           F == [Nat -> S]
           step == [i \in Nat |-> [f \in F |-> PercentRound(s, f, i)]]
<1>1. N \in Nat
  BY Joined
<1>2. ASSUME NEW i \in Nat, i <= N PROVE s[i] \in B
  <2>1. i = 0 \/ i \in 1 .. N
    BY <1>1, <1>2
  <2>2. i \in 1 .. N => s[i] \in Int
    BY EscapeFound
  <2> QED
    BY <2>1, <2>2
<1>3. \A b : HexValue(b) \in Int
  BY DEF HexValue
<1>4. ASSUME NEW f \in F, NEW i \in Nat PROVE PercentRound(s, f, i) \in S
  <2>1. CASE i > N
    BY <2>1 DEF PercentRound
  <2>2. CASE ~(i > N)
    <3>1. PICK x, y : x = 16 * HexValue(s[i + 1]) + HexValue(s[i + 2]) /\ y = s[i]
      OBVIOUS
    <3>2. x \in B
      BY <1>3, <3>1
    <3>3. y \in B
      BY <1>1, <1>2, <2>2, <3>1
    <3>4. f[i + 3] \in S /\ f[i + 1] \in S
      OBVIOUS
    <3> HIDE DEF B
    <3>5. <<x>> \o f[i + 3] \in S /\ <<y>> \o f[i + 1] \in S
      BY <3>2, <3>3, <3>4, Before1
    <3> HIDE DEF S
    <3> QED
      BY <2>2, <3>1, <3>5, Zenon DEF PercentRound
  <2> QED
    BY <2>1, <2>2
<1>5. step \in [Nat -> [F -> S]]
  BY <1>4
<1>6. ASSUME NEW i \in Nat, NEW f \in F, NEW g \in F,
             i <= N => \A k \in Nat : k > i => f[k] = g[k]
      PROVE  step[i][f] = step[i][g]
  <2>1. CASE i > N
    BY <2>1 DEF PercentRound
  <2>2. CASE ~(i > N)
    <3>1. f[i + 1] = g[i + 1] /\ f[i + 3] = g[i + 3]
      <4> HIDE DEF F
      <4>1. \A k \in Nat : k > i => f[k] = g[k]
        BY <1>1, <1>6, <2>2
      <4>2. i + 1 \in Nat /\ i + 1 > i /\ i + 3 \in Nat /\ i + 3 > i
        OBVIOUS
      <4> QED
        BY <4>1, <4>2
    <3>2. PercentRound(s, f, i) = PercentRound(s, g, i)
      BY <3>1, Zenon DEF PercentRound
    <3> HIDE DEF S
    <3> QED
      BY <3>2
  <2> QED
    BY <2>1, <2>2
<1>7. <<>> \in S
  OBVIOUS
<1>8. \E f : Solves(f, S, step)
  <2> HIDE DEF S, step, N
  <2> QED
    BY <1>1, <1>5, <1>6, <1>7, Solution
<1>9. PICK f : Solves(f, S, step)
  BY <1>8
<1>10. f \in F /\ \A i \in Nat : f[i] = PercentRound(s, f, i)
  <2> HIDE DEF S
  <2> QED
    BY <1>9 DEF Solves
<1> QED
  <2> HIDE DEF S
  <2> QED
    BY <1>10 DEF IsPercent

(* PercentDecoded decodes from the first place on. *)
LEMMA DecodedFrom ==
    ASSUME NEW s \in Text
    PROVE  \E f : PercentDecoded(s) = f[1] /\ Decodes(s, f)
<1>1. PICK f : f = CHOOSE g : IsPercent(s, g)
  OBVIOUS
<1>2. IsPercent(s, f)
  BY <1>1, PercentExists
<1>3. PercentDecoded(s) = f[1]
  BY <1>1 DEF PercentDecoded, IsPercent, PercentRound
<1>4. \A i \in Nat : f[i] = PercentRound(s, f, i)
  BY <1>2 DEF IsPercent
<1>5. PICK N : N = Len(s) /\ N \in Nat
  BY Joined
<1>6. ASSUME NEW i \in Nat \ {0} PROVE f[i] = Decoding(s, f, i)
  <2>1. f[i] = PercentRound(s, f, i)
    BY <1>4
  <2>2. CASE i > N
    BY <1>5, <2>1, <2>2 DEF PercentRound, Decoding
  <2>3. CASE ~(i > N)
    <3>1. i \in 1 .. Len(s)
      BY <1>5, <2>3
    <3>2. Escape(s, i)
              <=> s[i] = Percent /\ HexValue(Peek(s, i + 1)) >= 0 /\ HexValue(Peek(s, i + 2)) >= 0
      BY <3>1, EscapeFound
    <3> QED
      BY <1>5, <2>1, <2>3, <3>2, Zenon DEF PercentRound, Decoding, Unit, Behind
  <2> QED
    BY <2>2, <2>3
<1> DEFINE T == {i \in Nat : i # 0 => f[i] \in Text}
<1>7. ASSUME NEW i \in Nat, i <= N => \A k \in Nat : k > i => k \in T PROVE i \in T
  <2> SUFFICES ASSUME i # 0 PROVE f[i] \in Text
    OBVIOUS
  <2>1. f[i] = Decoding(s, f, i)
    BY <1>6
  <2>2. CASE i > N
    BY <1>5, <2>1, <2>2 DEF Decoding, Text
  <2>3. CASE ~(i > N)
    <3>1. PICK x, k : x = Unit(s, i) /\ k = Behind(s, i)
      OBVIOUS
    <3>2. x \in Int /\ k \in Nat /\ k # 0 /\ k > i
      <4>1. i \in 1 .. Len(s)
        BY <1>5, <2>3
      <4> QED
        BY <3>1, <4>1, UnitTyped
    <3>3. k \in T
      BY <1>5, <1>7, <2>3, <3>2
    <3>4. f[k] \in Seq(Int)
      BY <3>2, <3>3 DEF Text
    <3>5. <<x>> \o f[k] \in Seq(Int)
      BY <3>2, <3>4, Before1
    <3> QED
      BY <1>5, <2>1, <2>3, <3>1, <3>5 DEF Decoding, Text
  <2> QED
    BY <2>2, <2>3
<1>8. Nat \subseteq T
  <2> HIDE DEF T
  <2> QED
    BY <1>5, <1>7, Backwards
<1>9. \A i \in Nat \ {0} : f[i] \in Text
  BY <1>8
<1>10. Decodes(s, f)
  BY <1>6, <1>9, Zenon DEF Decodes
<1> QED
  BY <1>3, <1>10

(* text is t with one number before it. *)
OneMore(text, t) == Len(text) = Len(t) + 1 /\ \A e \in 1 .. Len(t) : text[e + 1] = t[e]

(* What is decoded at a place is its number and what is decoded behind it. *)
LEMMA DecodedAhead ==
    ASSUME NEW s \in Text, NEW f, Decodes(s, f), NEW i \in 1 .. Len(s)
    PROVE  /\ f[i] \in Text /\ f[Behind(s, i)] \in Text
           /\ f[i][1] = Unit(s, i) /\ OneMore(f[i], f[Behind(s, i)])
<1>1. PICK x, k : x = Unit(s, i) /\ k = Behind(s, i)
  OBVIOUS
<1>2. x \in Int /\ k \in Nat \ {0} /\ i \in Nat \ {0} /\ ~(i > Len(s))
  <2>1. Len(s) \in Nat
    BY Joined
  <2> QED
    BY <1>1, <2>1, UnitTyped
<1>3. f[i] \in Text /\ f[k] \in Text /\ f[i] = <<x>> \o f[k]
  BY <1>1, <1>2 DEF Decodes, Decoding
<1>4. PICK t : t = f[k]
  OBVIOUS
<1>5. t \in Seq(Int) /\ f[i] = <<x>> \o t
  BY <1>3, <1>4 DEF Text
<1>6. Len(<<x>> \o t) = Len(t) + 1 /\ (<<x>> \o t)[1] = x /\ \A e \in 1 .. Len(t) : (<<x>> \o t)[e + 1] = t[e]
  BY <1>2, <1>5
<1>7. f[i][1] = x /\ OneMore(f[i], t)
  BY <1>5, <1>6 DEF OneMore
<1> QED
  BY <1>1, <1>3, <1>4, <1>7

(* The end is decoded to nothing. *)
LEMMA DecodedEnd ==
    ASSUME NEW s \in Text, NEW f, Decodes(s, f), NEW i \in Nat \ {0}, i > Len(s)
    PROVE  f[i] \in Text /\ f[i] = <<>> /\ Len(f[i]) = 0
<1>1. f[i] = <<>> /\ f[i] \in Text
  BY DEF Decodes, Decoding
<1> QED
  BY <1>1

(* A secret is one place further in the longer text. *)
LEMMA OneFurther ==
    ASSUME NEW text \in Text, NEW t \in Text, OneMore(text, t), NEW secret \in Text, secret # <<>>,
           NEW e \in Nat \ {0}
    PROVE  OccursAt(text, secret, e + 1) <=> OccursAt(t, secret, e)
<1>1. PICK l, m : l = Len(secret) /\ m = Len(t)
  OBVIOUS
<1>2. l \in Nat /\ m \in Nat /\ l # 0 /\ Len(text) = m + 1 /\ \A k \in 1 .. m : text[k + 1] = t[k]
  BY <1>1, Joined DEF OneMore, Text
<1>3. OccursAt(t, secret, e) <=> e + l - 1 <= m /\ \A k \in 1 .. l : t[e + k - 1] = secret[k]
  BY <1>1, OccursByByte
<1>4. OccursAt(text, secret, e + 1)
          <=> (e + 1) + l - 1 <= m + 1 /\ \A k \in 1 .. l : text[(e + 1) + k - 1] = secret[k]
  <2>1. PICK d : d = e + 1
    OBVIOUS
  <2>2. d \in Nat \ {0}
    BY <2>1
  <2>3. OccursAt(text, secret, d)
            <=> d + l - 1 <= Len(text) /\ \A k \in 1 .. l : text[d + k - 1] = secret[k]
    BY <1>1, <2>2, OccursByByte
  <2> QED
    BY <1>2, <2>1, <2>3
<1>5. (e + 1) + l - 1 <= m + 1 <=> e + l - 1 <= m
  BY <1>2
<1>6. ASSUME e + l - 1 <= m, NEW k \in 1 .. l PROVE text[(e + 1) + k - 1] = t[e + k - 1]
  <2>1. e + k - 1 \in 1 .. m /\ (e + k - 1) + 1 = (e + 1) + k - 1
    BY <1>2, <1>6
  <2> QED
    BY <1>2, <2>1
<1> QED
  BY <1>3, <1>4, <1>5, <1>6

(* So what is behind a place is found from that place on. *)
LEMMA FreeAhead ==
    ASSUME NEW s \in Text, NEW f, Decodes(s, f), NEW i \in 1 .. Len(s),
           NEW secret \in Text, secret # <<>>
    PROVE  Free(f[i], secret) <=> ~OccursAt(f[i], secret, 1) /\ Free(f[Behind(s, i)], secret)
<1>1. PICK text, t : text = f[i] /\ t = f[Behind(s, i)]
  OBVIOUS
<1>2. text \in Text /\ t \in Text /\ OneMore(text, t)
  BY <1>1, DecodedAhead
<1>3. PICK m : m = Len(t)
  OBVIOUS
<1>4. m \in Nat /\ Len(text) = m + 1
  BY <1>2, <1>3, Joined DEF OneMore
<1>5. \A e \in 1 .. m : OccursAt(text, secret, e + 1) <=> OccursAt(t, secret, e)
  BY <1>2, <1>3, OneFurther
<1>6. ASSUME Free(text, secret) PROVE ~OccursAt(text, secret, 1) /\ Free(t, secret)
  <2>1. 1 \in 1 .. Len(text) /\ \A e \in 1 .. m : e + 1 \in 1 .. Len(text)
    BY <1>4
  <2> QED
    BY <1>3, <1>5, <1>6, <2>1 DEF Free
<1>7. ASSUME ~OccursAt(text, secret, 1), Free(t, secret) PROVE Free(text, secret)
  <2> SUFFICES ASSUME NEW d \in 1 .. Len(text) PROVE ~OccursAt(text, secret, d)
    BY DEF Free
  <2>1. CASE d = 1
    BY <1>7, <2>1
  <2>2. CASE d # 1
    <3>1. PICK e : e = d - 1
      OBVIOUS
    <3>2. e \in 1 .. m /\ d = e + 1
      BY <1>4, <2>2, <3>1
    <3> QED
      BY <1>3, <1>5, <1>7, <3>2 DEF Free
  <2> QED
    BY <2>1, <2>2
<1> QED
  BY <1>1, <1>6, <1>7

-----------------------------------------------------------------------------
(* PercentDecoded comes by the places that are not within an escape. *)
Passed(s, i) == i \in Nat /\ i > 0 /\ ~Escape(s, i - 1) /\ ~Escape(s, i - 2)

(* An escape is not within another, and the place behind a passed one is passed. *)
LEMMA PassedAhead ==
    ASSUME NEW s \in Text, NEW i \in 1 .. Len(s)
    PROVE  /\ Escape(s, i) => Passed(s, i)
           /\ Passed(s, i) => Passed(s, Behind(s, i))
<1>0. i \in Nat /\ i > 0
  OBVIOUS
<1>1. ASSUME NEW p \in Int, Escape(s, p) PROVE ~Escape(s, p + 1) /\ ~Escape(s, p + 2)
  BY <1>1, DigitByte DEF Escape
<1>2. (i - 1) + 1 = i /\ (i - 2) + 2 = i /\ i - 1 \in Int /\ i - 2 \in Int
  OBVIOUS
<1>3. Escape(s, i) => ~Escape(s, i - 1) /\ ~Escape(s, i - 2)
  BY <1>1, <1>2
<1>4. ASSUME Passed(s, i) PROVE Passed(s, Behind(s, i))
  <2>1. CASE Escape(s, i)
    <3>1. Behind(s, i) = i + 3 /\ i + 3 \in Nat /\ i + 3 > 0 /\ (i + 3) - 1 = i + 2 /\ (i + 3) - 2 = i + 1
      BY <2>1, <1>0 DEF Behind
    <3>2. ~Escape(s, i + 1) /\ ~Escape(s, i + 2)
      BY <1>0, <1>1, <2>1
    <3> QED
      BY <3>1, <3>2 DEF Passed
  <2>2. CASE ~Escape(s, i)
    <3>1. Behind(s, i) = i + 1 /\ i + 1 \in Nat /\ i + 1 > 0 /\ (i + 1) - 1 = i /\ (i + 1) - 2 = i - 1
      BY <2>2, <1>0 DEF Behind
    <3> QED
      BY <1>4, <2>2, <3>1 DEF Passed
  <2> QED
    BY <2>1, <2>2
<1> QED
  BY <1>0, <1>3, <1>4 DEF Passed

(* A passed place other than the first is behind a passed place. *)
LEMMA PassedBefore ==
    ASSUME NEW s \in Text, NEW i \in Nat, i > 1, i <= Len(s), Passed(s, i)
    PROVE  \E p \in 1 .. i - 1 : Passed(s, p) /\ Behind(s, p) = i
<1>0. Len(s) \in Nat
  BY Joined
<1>1. ~Escape(s, i - 1) /\ ~Escape(s, i - 2)
  BY DEF Passed
<1>2. CASE Escape(s, i - 3)
  <2>1. PICK p : p = i - 3
    OBVIOUS
  <2>2. p \in 1 .. Len(s) /\ p \in 1 .. i - 1 /\ p + 3 = i /\ Escape(s, p)
    BY <1>0, <1>2, <2>1 DEF Escape
  <2>3. Passed(s, p)
    BY <2>2, PassedAhead
  <2> QED
    BY <2>2, <2>3 DEF Behind
<1>3. CASE ~Escape(s, i - 3)
  <2>1. PICK p : p = i - 1
    OBVIOUS
  <2>2. p \in Nat /\ p > 0 /\ p \in 1 .. i - 1 /\ p + 1 = i /\ p - 1 = i - 2 /\ p - 2 = i - 3
    BY <2>1
  <2>3. Passed(s, p) /\ Behind(s, p) = i
    BY <1>1, <1>3, <2>1, <2>2 DEF Passed, Behind
  <2> QED
    BY <2>2, <2>3
<1> QED
  BY <1>2, <1>3

(* What is decoded from a passed place on is decoded from the first place on. *)
LEMMA PassedDecoded ==
    ASSUME NEW s \in Text, NEW f, Decodes(s, f), NEW secret \in Text, secret # <<>>,
           Free(f[1], secret), NEW i \in 1 .. Len(s), Passed(s, i)
    PROVE  Free(f[i], secret)
<1> DEFINE T == {n \in Nat : \A k \in 1 .. Len(s) : k <= n /\ Passed(s, k) => Free(f[k], secret)}
<1>1. 0 \in T
  OBVIOUS
<1>2. ASSUME NEW n \in Nat, n \in T PROVE n + 1 \in T
  <2> SUFFICES ASSUME NEW k \in 1 .. Len(s), k <= n + 1, Passed(s, k) PROVE Free(f[k], secret)
    OBVIOUS
  <2>1. CASE k = 1
    BY <2>1
  <2>2. CASE k # 1
    <3>1. PICK p \in 1 .. k - 1 : Passed(s, p) /\ Behind(s, p) = k
      <4>1. k \in Nat /\ k > 1 /\ k <= Len(s)
        BY <2>2
      <4> QED
        BY <4>1, PassedBefore
    <3>2. p \in 1 .. Len(s) /\ p <= n
      <4>1. Len(s) \in Nat
        BY Joined
      <4> QED
        BY <4>1
    <3>3. Free(f[p], secret)
      BY <1>2, <3>1, <3>2
    <3> QED
      BY <3>1, <3>2, <3>3, FreeAhead
  <2> QED
    BY <2>1, <2>2
<1>3. i \in T
  <2> HIDE DEF T
  <2>1. Nat \subseteq T
    BY <1>1, <1>2, Induct
  <2> QED
    BY <2>1
<1> QED
  BY <1>3

(* And what is decoded begins at a passed place. *)
LEMMA DecodedStart ==
    ASSUME NEW s \in Text, NEW f, Decodes(s, f), NEW secret \in Text, secret # <<>>,
           \A i \in 1 .. Len(s) : Passed(s, i) => ~OccursAt(f[i], secret, 1)
    PROVE  Free(f[1], secret)
<1>1. PICK N : N = Len(s) /\ N \in Nat
  BY Joined
<1> DEFINE T == {i \in Nat : Passed(s, i) => Free(f[i], secret)}
<1>2. ASSUME NEW i \in Nat, i <= N => \A k \in Nat : k > i => k \in T PROVE i \in T
  <2> SUFFICES ASSUME Passed(s, i) PROVE Free(f[i], secret)
    OBVIOUS
  <2>1. i \in Nat \ {0}
    BY DEF Passed
  <2>2. CASE i > N
    <3>1. Len(f[i]) = 0
      BY <1>1, <2>1, <2>2, DecodedEnd
    <3> QED
      BY <3>1 DEF Free
  <2>3. CASE ~(i > N)
    <3>1. i \in 1 .. Len(s)
      BY <1>1, <2>1, <2>3
    <3>2. PICK k : k = Behind(s, i)
      OBVIOUS
    <3>3. k \in Nat /\ k > i
      BY <3>1, <3>2, UnitTyped
    <3>4. k \in T
      BY <1>1, <1>2, <2>3, <3>3
    <3>5. Passed(s, k)
      BY <3>1, <3>2, PassedAhead
    <3> QED
      BY <3>1, <3>2, <3>4, <3>5, FreeAhead
  <2> QED
    BY <2>2, <2>3
<1>3. Nat \subseteq T
  <2> HIDE DEF T
  <2> QED
    BY <1>1, <1>2, Backwards
<1>4. Passed(s, 1)
  <2>1. ~Escape(s, 1 - 1) /\ ~Escape(s, 1 - 2)
    BY DEF Escape
  <2> QED
    BY <2>1 DEF Passed
<1> QED
  BY <1>3, <1>4

(* An escape makes the decoded text shorter. *)
LEMMA EscapeShortens ==
    ASSUME NEW s \in Text, NEW f, Decodes(s, f), f[1] = s, NEW j
    PROVE  ~Escape(s, j)
<1> SUFFICES ASSUME Escape(s, j) PROVE FALSE
  OBVIOUS
<1>1. PICK N : N = Len(s) /\ N \in Nat
  BY Joined
<1>2. j \in 1 .. N /\ j + 2 <= N
  BY <1>1 DEF Escape
<1> DEFINE Room(i) == IF i > N THEN 0 ELSE N - i + 1
           T == {i \in Nat : i # 0 => Len(f[i]) <= Room(i) /\ (i <= j => Len(f[i]) < Room(i))}
<1>3. ASSUME NEW i \in Nat, i <= N => \A k \in Nat : k > i => k \in T PROVE i \in T
  <2> SUFFICES ASSUME i # 0 PROVE Len(f[i]) <= Room(i) /\ (i <= j => Len(f[i]) < Room(i))
    OBVIOUS
  <2>1. CASE i > N
    <3>1. Len(f[i]) = 0
      BY <1>1, <2>1, DecodedEnd
    <3> QED
      BY <1>1, <1>2, <2>1, <3>1
  <2>2. CASE ~(i > N)
    <3>1. i \in 1 .. Len(s)
      BY <1>1, <2>2
    <3>2. PICK k : k = Behind(s, i)
      OBVIOUS
    <3>3. k \in Nat /\ k > i /\ k # 0
      BY <3>1, <3>2, UnitTyped
    <3>4. k \in T
      BY <1>1, <1>3, <2>2, <3>3
    <3>5. Len(f[k]) <= Room(k) /\ (k <= j => Len(f[k]) < Room(k))
      BY <3>3, <3>4
    <3>6. PICK m, n : m = Len(f[i]) /\ n = Len(f[k])
      OBVIOUS
    <3>7. m = n + 1 /\ n \in Nat
      BY <3>1, <3>2, <3>6, DecodedAhead, Joined DEF OneMore
    <3>8. CASE Escape(s, i)
      <4>1. k = i + 3 /\ i + 2 <= N
        BY <1>1, <3>2, <3>8 DEF Behind, Escape
      <4> QED
        BY <1>1, <3>5, <3>6, <3>7, <4>1
    <3>9. CASE ~Escape(s, i)
      <4>1. k = i + 1 /\ i # j
        BY <3>2, <3>9 DEF Behind
      <4> QED
        BY <1>1, <1>2, <2>2, <3>5, <3>6, <3>7, <4>1
    <3> QED
      BY <3>8, <3>9
  <2> QED
    BY <2>1, <2>2
<1>4. Nat \subseteq T
  <2> HIDE DEF T
  <2> QED
    BY <1>1, <1>3, Backwards
<1>5. Len(f[1]) < Room(1)
  <2>1. 1 \in T
    BY <1>4
  <2> QED
    BY <1>2, <2>1
<1> QED
  BY <1>1, <1>2, <1>5

-----------------------------------------------------------------------------
(* A match of secret ends at n. *)
MatchEnds(value, secret, n) ==
    \E i \in 1 .. Len(value) : OccursAt(value, secret, i) /\ i + Len(secret) - 1 = n

(* Where the byte at j of a masked text was in the text, 0 for a byte of the mask.
   Before it is what was before it, unless that was the end of a match.    *)
ComesFrom(value, secret, text, o, j) ==
    /\ o[j] = 0 => text[j] = MaskByte
    /\ o[j] # 0 =>
           /\ o[j] \in 1 .. Len(value) /\ text[j] = value[o[j]]
           /\ \/ o[j] = 1
              \/ MatchEnds(value, secret, o[j] - 1)
              \/ j > 1 /\ o[j - 1] = o[j] - 1
           /\ j < Len(text) /\ o[j + 1] # 0 => o[j + 1] = o[j] + 1
Origin(value, secret, text, o) ==
    o \in [1 .. Len(text) -> Nat] /\ \A j \in 1 .. Len(text) : ComesFrom(value, secret, text, o, j)

(* Up to `from` it is done, and what is done ends with a mask. *)
Traced(value, secret, done, from) ==
    /\ from = 0 \/ MatchEnds(value, secret, from)
    /\ \E o : Origin(value, secret, done, o) /\ (Len(done) = 0 \/ o[Len(done)] = 0)

(* The text itself comes from itself. *)
LEMMA OriginItself ==
    ASSUME NEW value \in Text, NEW secret
    PROVE  \E o : Origin(value, secret, value, o)
<1>1. PICK n : n = Len(value) /\ n \in Nat
  BY Joined
<1>2. PICK o : o = [j \in 1 .. n |-> j]
  OBVIOUS
<1>3. o \in [1 .. n -> Nat] /\ \A j \in 1 .. n : o[j] = j
  BY <1>1, <1>2
<1>4. ASSUME NEW j \in 1 .. n PROVE ComesFrom(value, secret, value, o, j)
  <2>1. j \in Nat /\ o[j] = j /\ j # 0 /\ value[o[j]] = value[j]
    BY <1>3
  <2>2. j > 1 => o[j - 1] = j - 1
    BY <1>1, <1>3
  <2>3. j < n => o[j + 1] = j + 1
    BY <1>1, <1>3
  <2>4. j > 1 \/ j = 1
    OBVIOUS
  <2> QED
    BY <1>1, <2>1, <2>2, <2>3, <2>4 DEF ComesFrom
<1> QED
  BY <1>1, <1>3, <1>4 DEF Origin

(* Every byte of the mask comes from nowhere. *)
LEMMA OriginMask ==
    ASSUME NEW value \in Text, NEW secret
    PROVE  \E o : Origin(value, secret, Mask, o)
<1>1. MaskLen \in Nat
  BY MaskAssumption
<1>2. Len(Mask) = MaskLen /\ \A k \in 1 .. MaskLen : Mask[k] = MaskByte
  BY <1>1, TheMask
<1>3. PICK o : o = [j \in 1 .. MaskLen |-> 0]
  OBVIOUS
<1>4. o \in [1 .. MaskLen -> Nat] /\ \A j \in 1 .. MaskLen : o[j] = 0
  BY <1>3
<1>5. \A j \in 1 .. MaskLen : ComesFrom(value, secret, Mask, o, j)
  BY <1>2, <1>4 DEF ComesFrom
<1> QED
  BY <1>2, <1>4, <1>5 DEF Origin

(* What is left of the text comes from behind the last match. *)
LEMMA OriginStretch ==
    ASSUME NEW value \in Text, NEW secret, NEW done \in Text, NEW from \in Nat,
           Traced(value, secret, done, from), NEW to \in Nat, to <= Len(value)
    PROVE  \E o : Origin(value, secret, done \o SubSeq(value, from + 1, to), o)
<1>1. PICK o : Origin(value, secret, done, o) /\ (Len(done) = 0 \/ o[Len(done)] = 0)
  BY DEF Traced
<1>2. PICK gap, n, m : gap = SubSeq(value, from + 1, to) /\ n = Len(done) /\ m = Len(gap)
  OBVIOUS
<1>3. Len(value) \in Nat /\ from + 1 \in Nat \ {0}
  BY Joined
<1>4. /\ gap \in Text /\ m = IF from + 1 <= to THEN to - (from + 1) + 1 ELSE 0
      /\ \A k \in 1 .. m : gap[k] = value[(from + 1) + k - 1]
  BY <1>2, <1>3, Stretch
<1>5. PICK text : text = done \o gap
  OBVIOUS
<1>6. n \in Nat /\ m \in Nat /\ Len(text) = n + m
  BY <1>2, <1>4, <1>5, Joined
<1>7. /\ \A j \in 1 .. n : text[j] = done[j]
      /\ \A j \in n + 1 .. n + m : text[j] = gap[j - n]
  <2>1. n = Len(done) /\ m = Len(gap) /\ gap \in Text
    BY <1>2, <1>4
  <2> QED
    BY <2>1, <1>5 DEF Text
<1>8. PICK p : p = [j \in 1 .. n + m |-> IF j <= n THEN o[j] ELSE from + (j - n)]
  OBVIOUS
<1>9. o \in [1 .. n -> Nat] /\ \A j \in 1 .. n : ComesFrom(value, secret, done, o, j)
  BY <1>1, <1>2 DEF Origin
<1>10. /\ \A j \in 1 .. n : p[j] = o[j]
       /\ \A j \in n + 1 .. n + m : p[j] = from + (j - n)
  BY <1>6, <1>8
<1>11. p \in [1 .. n + m -> Nat]
  <2>1. ASSUME NEW j \in 1 .. n + m PROVE (IF j <= n THEN o[j] ELSE from + (j - n)) \in Nat
    BY <1>6, <1>9
  <2> QED
    BY <1>8, <2>1
<1>12. n = 0 \/ o[n] = 0
  BY <1>1, <1>2
<1>13. ASSUME NEW j \in 1 .. n PROVE ComesFrom(value, secret, text, p, j)
  <2>1. ComesFrom(value, secret, done, o, j)
    BY <1>9
  <2>2. p[j] = o[j] /\ text[j] = done[j]
    BY <1>7, <1>10
  <2>3. j > 1 => p[j - 1] = o[j - 1]
    BY <1>6, <1>10
  <2>4. j < n => p[j + 1] = o[j + 1]
    BY <1>6, <1>10
  <2>5. j = n => o[j] = 0
    BY <1>6, <1>12
  <2>6. j < n \/ j = n
    BY <1>6
  <2>7. o[j] # 0 => j < n
    BY <2>5, <2>6
  <2>8. o[j] = 0 => text[j] = MaskByte
    BY <2>1, <2>2 DEF ComesFrom
  <2>9. ASSUME o[j] # 0
        PROVE  /\ o[j] \in 1 .. Len(value) /\ text[j] = value[o[j]]
               /\ o[j] = 1 \/ MatchEnds(value, secret, o[j] - 1) \/ (j > 1 /\ p[j - 1] = o[j] - 1)
    BY <2>1, <2>2, <2>3, <2>9, Zenon DEF ComesFrom
  <2>10. ASSUME o[j] # 0, p[j + 1] # 0 PROVE p[j + 1] = o[j] + 1
    BY <1>2, <2>1, <2>4, <2>7, <2>10, Zenon DEF ComesFrom
  <2> QED
    BY <2>2, <2>8, <2>9, <2>10, Zenon DEF ComesFrom
<1>14. ASSUME NEW j \in n + 1 .. n + m PROVE ComesFrom(value, secret, text, p, j)
  <2>1. PICK k : k = j - n
    OBVIOUS
  <2>2. k \in 1 .. m /\ p[j] = from + k /\ text[j] = gap[k]
    BY <1>6, <1>7, <1>10, <2>1
  <2>3. from + k \in 1 .. Len(value) /\ from + k # 0 /\ text[j] = value[from + k]
    <3>1. (from + 1) + k - 1 = from + k
      BY <1>6, <2>2
    <3>2. from + k <= to
      BY <1>4, <1>6, <2>2
    <3> QED
      BY <1>3, <1>4, <1>6, <2>2, <3>1, <3>2
  <2>4. from + k = 1 \/ MatchEnds(value, secret, (from + k) - 1) \/ (j > 1 /\ p[j - 1] = (from + k) - 1)
    <3>1. CASE k = 1
      <4>1. (from + k) - 1 = from
        BY <3>1
      <4>2. CASE from = 0
        BY <3>1, <4>2
      <4>3. CASE from # 0
        BY <4>1, <4>3 DEF Traced
      <4> QED
        BY <4>2, <4>3
    <3>2. CASE k # 1
      <4>1. j - 1 \in n + 1 .. n + m /\ j > 1 /\ from + ((j - 1) - n) = (from + k) - 1
        BY <1>6, <2>1, <2>2, <3>2
      <4> QED
        BY <1>10, <4>1
    <3> QED
      BY <3>1, <3>2
  <2>5. j < Len(text) => p[j + 1] = (from + k) + 1
    <3> SUFFICES ASSUME j < n + m PROVE p[j + 1] = (from + k) + 1
      BY <1>6
    <3>1. j + 1 \in n + 1 .. n + m /\ from + ((j + 1) - n) = (from + k) + 1
      BY <1>6, <2>1, <2>2
    <3> QED
      BY <1>10, <3>1
  <2> QED
    BY <2>2, <2>3, <2>4, <2>5, Zenon DEF ComesFrom
<1>15. Origin(value, secret, text, p)
  <2>1. \A j \in 1 .. n + m : j \in 1 .. n \/ j \in n + 1 .. n + m
    BY <1>6
  <2> QED
    BY <1>6, <1>11, <1>13, <1>14, <2>1 DEF Origin
<1> QED
  BY <1>2, <1>5, <1>15

(* Then the mask follows. *)
LEMMA OriginSealed ==
    ASSUME NEW value \in Text, NEW secret, NEW front \in Text, NEW o, Origin(value, secret, front, o)
    PROVE  \E p : Origin(value, secret, front \o Mask, p) /\ p[Len(front \o Mask)] = 0
<1>1. PICK text, n, m : text = front \o Mask /\ n = Len(front) /\ m = MaskLen
  OBVIOUS
<1>2. m \in Nat \ {0}
  BY <1>1, MaskAssumption
<1>3. Mask \in Text /\ Len(Mask) = m /\ \A k \in 1 .. m : Mask[k] = MaskByte
  BY <1>1, <1>2, TheMask
<1>4. n \in Nat /\ Len(text) = n + m
  BY <1>1, <1>3, Joined
<1>5. /\ \A j \in 1 .. n : text[j] = front[j]
      /\ \A j \in n + 1 .. n + m : text[j] = Mask[j - n]
  BY <1>1, <1>3 DEF Text
<1>6. PICK p : p = [j \in 1 .. n + m |-> IF j <= n THEN o[j] ELSE 0]
  OBVIOUS
<1>7. o \in [1 .. n -> Nat] /\ \A j \in 1 .. n : ComesFrom(value, secret, front, o, j)
  BY <1>1 DEF Origin
<1>8. (\A j \in 1 .. n : p[j] = o[j]) /\ \A j \in n + 1 .. n + m : p[j] = 0
  BY <1>2, <1>4, <1>6
<1>9. p \in [1 .. n + m -> Nat]
  BY <1>2, <1>4, <1>6, <1>7
<1>10. ASSUME NEW j \in 1 .. n PROVE ComesFrom(value, secret, text, p, j)
  <2>1. ComesFrom(value, secret, front, o, j)
    BY <1>7
  <2>2. p[j] = o[j] /\ text[j] = front[j]
    BY <1>5, <1>8
  <2>3. j > 1 => p[j - 1] = o[j - 1]
    BY <1>4, <1>8
  <2>4. j < n => p[j + 1] = o[j + 1]
    BY <1>4, <1>8
  <2>5. ~(j < n) => p[j + 1] = 0
    <3>1. ~(j < n) => j + 1 \in n + 1 .. n + m
      BY <1>2, <1>4
    <3> QED
      BY <1>8, <3>1
  <2>6. o[j] = 0 => text[j] = MaskByte
    BY <2>1, <2>2 DEF ComesFrom
  <2>7. ASSUME o[j] # 0
        PROVE  /\ o[j] \in 1 .. Len(value) /\ text[j] = value[o[j]]
               /\ o[j] = 1 \/ MatchEnds(value, secret, o[j] - 1) \/ (j > 1 /\ p[j - 1] = o[j] - 1)
    BY <2>1, <2>2, <2>3, <2>7, Zenon DEF ComesFrom
  <2>8. ASSUME o[j] # 0, p[j + 1] # 0 PROVE p[j + 1] = o[j] + 1
    BY <1>1, <2>1, <2>4, <2>5, <2>8, Zenon DEF ComesFrom
  <2> QED
    BY <2>2, <2>6, <2>7, <2>8, Zenon DEF ComesFrom
<1>11. ASSUME NEW j \in n + 1 .. n + m PROVE ComesFrom(value, secret, text, p, j)
  <2>1. p[j] = 0
    BY <1>8
  <2>2. j - n \in 1 .. m
    BY <1>2, <1>4
  <2>3. text[j] = MaskByte
    BY <1>3, <1>5, <2>2
  <2> QED
    BY <2>1, <2>3 DEF ComesFrom
<1>12. Origin(value, secret, text, p)
  <2>1. \A j \in 1 .. n + m : j \in 1 .. n \/ j \in n + 1 .. n + m
    BY <1>2, <1>4
  <2> QED
    BY <1>4, <1>9, <1>10, <1>11, <2>1 DEF Origin
<1>13. p[n + m] = 0
  <2>1. n + m \in n + 1 .. n + m
    BY <1>2, <1>4
  <2> QED
    BY <1>8, <2>1
<1> QED
  BY <1>1, <1>4, <1>12, <1>13

(* What MaskMatches returns comes from the text, its masks from the matches. *)
LEMMA MaskMatchesTraced ==
    ASSUME NEW value \in Text, NEW secret \in Text, secret # <<>>
    PROVE  \E o : Origin(value, secret, MaskMatches(value, secret), o)
<1>1. PICK loop :
          /\ MaskMatches(value, secret) = IF Includes(value, secret) THEN loop[0][<<>>] ELSE value
          /\ \A from \in Nat : \A done \in Text :
                 loop[from][done] = MaskRound(value, secret, loop, from, done)
  BY MaskMatchesLoop
<1>2. PICK N : N = Len(value) /\ N \in Nat
  BY Joined
<1> DEFINE From(text) == \E o : Origin(value, secret, text, o)
           T == {from \in Nat : \A done \in Text :
                     Traced(value, secret, done, from) => From(loop[from][done])}
<1>3. From(Mask) /\ From(value)
  BY OriginMask, OriginItself
<1>4. ASSUME NEW i \in Nat, i <= N => \A k \in Nat : k > i => k \in T PROVE i \in T
  <2> SUFFICES ASSUME NEW done \in Text, Traced(value, secret, done, i) PROVE From(loop[i][done])
    OBVIOUS
  <2>1. loop[i][done] = MaskRound(value, secret, loop, i, done)
    BY <1>1
  <2>2. PICK pos : pos = Find(value, secret, i + 1)
    OBVIOUS
  <2>3. CASE pos = 0
    <3>1. loop[i][done] = Ended(value, i, done)
      BY <2>1, <2>2, <2>3 DEF MaskRound
    <3>2. From(done \o SubSeq(value, i + 1, Len(value)))
      BY <1>2, OriginStretch
    <3> QED
      BY <1>3, <3>1, <3>2 DEF Ended
  <2>4. CASE pos # 0
    <3>1. PICK next : next = pos + Len(secret) - 1
      OBVIOUS
    <3>2. pos \in i + 1 .. Len(value) /\ next \in Nat /\ next > i /\ i <= N
      BY <1>2, <2>2, <2>4, <3>1, NextPlace
    <3>3. PICK grown, front : /\ grown = Grown(value, i, done, pos)
                              /\ front = done \o SubSeq(value, i + 1, pos - 1)
      OBVIOUS
    <3>4. grown \in Text /\ front \in Text
      <4>1. grown \in Text /\ SubSeq(value, i + 1, pos - 1) \in Text
        BY <3>2, <3>3, GrownLength
      <4> QED
        BY <3>3, <4>1, Joined
    <3>5. grown = front \o Mask
      BY <3>3 DEF Grown
    <3>6. PICK o : Origin(value, secret, front, o)
      <4>1. pos - 1 \in Nat /\ pos - 1 <= Len(value)
        BY <1>2, <3>2
      <4> QED
        BY <3>3, <4>1, OriginStretch
    <3>7. \E p : Origin(value, secret, grown, p) /\ p[Len(grown)] = 0
      BY <3>4, <3>5, <3>6, OriginSealed
    <3>8. MatchEnds(value, secret, next)
      <4>1. i + 1 \in Nat \ {0}
        OBVIOUS
      <4>2. OccursAt(value, secret, pos)
        BY <2>2, <2>4, <4>1, FindPlace
      <4>3. pos \in 1 .. Len(value)
        BY <1>2, <3>2
      <4> QED
        BY <3>1, <4>2, <4>3 DEF MatchEnds
    <3>9. Traced(value, secret, grown, next)
      BY <3>7, <3>8 DEF Traced
    <3>10. loop[i][done] = IF Len(grown) > Limit(value) THEN Mask ELSE loop[next][grown]
      BY <2>1, <2>2, <2>4, <3>1, <3>3 DEF MaskRound
    <3>11. next \in T
      BY <1>4, <3>2
    <3> HIDE DEF From
    <3>12. From(loop[next][grown])
      BY <3>4, <3>9, <3>11
    <3> QED
      BY <1>3, <3>10, <3>12
  <2> QED
    BY <2>3, <2>4
<1>5. Nat \subseteq T
  <2> HIDE DEF T
  <2> QED
    BY <1>2, <1>4, Backwards
<1>6. From(loop[0][<<>>])
  <2>1. <<>> \in Text /\ Len(<<>>) = 0
    BY DEF Text
  <2>2. Origin(value, secret, <<>>, <<>>)
    BY <2>1 DEF Origin
  <2>3. Traced(value, secret, <<>>, 0)
    BY <2>1, <2>2 DEF Traced
  <2> HIDE DEF From
  <2> QED
    BY <1>5, <2>1, <2>3
<1> HIDE DEF From
<1>7. From(MaskMatches(value, secret))
  BY <1>1, <1>3, <1>6
<1> QED
  BY <1>7 DEF From

-----------------------------------------------------------------------------
(* A byte that is not the mask's is a byte of the text, and so is the next. *)
LEMMA ByteKept ==
    ASSUME NEW value \in Text, NEW secret, NEW text \in Text, NEW o, Origin(value, secret, text, o),
           NEW j \in 1 .. Len(text), text[j] # MaskByte
    PROVE  /\ o[j] \in 1 .. Len(value) /\ o[j] \in Nat /\ o[j] # 0 /\ text[j] = value[o[j]]
           /\ o[j] = 1 \/ MatchEnds(value, secret, o[j] - 1) \/ (j > 1 /\ o[j - 1] = o[j] - 1)
           /\ j < Len(text) /\ text[j + 1] # MaskByte => o[j + 1] = o[j] + 1
<1>1. ComesFrom(value, secret, text, o, j) /\ o[j] \in Nat
  BY DEF Origin
<1>2. /\ o[j] \in 1 .. Len(value) /\ o[j] # 0 /\ text[j] = value[o[j]]
      /\ o[j] = 1 \/ MatchEnds(value, secret, o[j] - 1) \/ (j > 1 /\ o[j - 1] = o[j] - 1)
      /\ j < Len(text) /\ o[j + 1] # 0 => o[j + 1] = o[j] + 1
  BY <1>1, Zenon DEF ComesFrom
<1>3. ASSUME j < Len(text), text[j + 1] # MaskByte PROVE o[j + 1] # 0
  <2>1. j + 1 \in 1 .. Len(text)
    BY <1>3, Joined
  <2>2. ComesFrom(value, secret, text, o, j + 1)
    BY <2>1 DEF Origin
  <2> QED
    BY <1>3, <2>2, Zenon DEF ComesFrom
<1> QED
  BY <1>1, <1>2, <1>3, Zenon

(* An escape of the masked text is one of the text. *)
LEMMA EscapeKept ==
    ASSUME NEW value \in Text, NEW secret, NEW text \in Text, NEW o, Origin(value, secret, text, o),
           NEW j, Escape(text, j)
    PROVE  /\ Escape(value, o[j]) /\ Unit(value, o[j]) = Unit(text, j)
           /\ j + 3 <= Len(text) /\ text[j + 3] # MaskByte => o[j + 3] = o[j] + 3
<1>1. /\ j \in Nat /\ j > 0 /\ j + 2 <= Len(text) /\ text[j] = Percent
      /\ Digit(text[j + 1]) /\ Digit(text[j + 2])
  BY DEF Escape
<1>2. Len(text) \in Nat /\ Len(value) \in Nat /\ Percent # MaskByte
  BY Joined DEF Percent, MaskByte
<1>3. text[j] # MaskByte /\ text[j + 1] # MaskByte /\ text[j + 2] # MaskByte
  BY <1>1, <1>2, DigitByte
<1>4. PICK a : a = j + 1
  OBVIOUS
<1>5. PICK b : b = j + 2
  OBVIOUS
<1>6. /\ j \in 1 .. Len(text) /\ a \in 1 .. Len(text) /\ b \in 1 .. Len(text)
      /\ j < Len(text) /\ a < Len(text) /\ a + 1 = b /\ j + 1 = a /\ b + 1 = j + 3
      /\ b < Len(text) <=> j + 3 <= Len(text)
  BY <1>1, <1>2, <1>4, <1>5
<1>7. o[j] \in Nat /\ o[j] # 0 /\ text[j] = value[o[j]] /\ o[a] = o[j] + 1
  BY <1>3, <1>4, <1>6, ByteKept
<1>8. text[a] = value[o[a]] /\ o[b] = o[a] + 1
  <2>1. text[a + 1] # MaskByte /\ text[a] # MaskByte
    BY <1>3, <1>4, <1>5, <1>6
  <2> QED
    BY <1>6, <2>1, ByteKept
<1>9. /\ text[b] = value[o[b]] /\ o[b] \in 1 .. Len(value)
      /\ b < Len(text) /\ text[b + 1] # MaskByte => o[b + 1] = o[b] + 1
  <2>1. text[b] # MaskByte
    BY <1>3, <1>5
  <2> QED
    BY <1>6, <2>1, ByteKept
<1>10. PICK p : p = o[j]
  OBVIOUS
<1>11. /\ p \in Nat /\ p > 0 /\ p + 2 <= Len(value)
       /\ value[p] = Percent /\ value[p + 1] = text[j + 1] /\ value[p + 2] = text[j + 2]
  <2>1. o[a] = p + 1 /\ o[b] = p + 2
    BY <1>7, <1>8, <1>10
  <2> QED
    BY <1>1, <1>2, <1>4, <1>5, <1>7, <1>8, <1>9, <1>10, <2>1
<1>12. Escape(value, p)
  BY <1>1, <1>11 DEF Escape
<1>13. Unit(value, p) = Unit(text, j)
  BY <1>11, <1>12 DEF Unit
<1>14. j + 3 <= Len(text) /\ text[j + 3] # MaskByte => o[j + 3] = p + 3
  <2>1. o[b] = p + 2 /\ p \in Nat
    BY <1>7, <1>8, <1>10
  <2>2. o[b] + 1 = p + 3
    BY <2>1
  <2> QED
    BY <1>6, <1>9, <2>2
<1> QED
  BY <1>10, <1>12, <1>13, <1>14

(* A number that a key has can be neither the mask nor a percent sign. *)
Told(number) == number # Percent /\ number # MaskByte

(* Where the masked text is decoded to such a number, the text is too, and both
   decodings go on at places that belong together.                         *)
LEMMA UnitKept ==
    ASSUME NEW value \in Text, NEW secret, NEW text \in Text, NEW o, Origin(value, secret, text, o),
           NEW j \in 1 .. Len(text), Told(Unit(text, j))
    PROVE  /\ o[j] \in 1 .. Len(value) /\ text[j] # MaskByte /\ Unit(value, o[j]) = Unit(text, j)
           /\ \A k : k = Behind(text, j) /\ k <= Len(text) /\ text[k] # MaskByte
                         => o[k] = Behind(value, o[j])
<1>0. Percent # MaskByte /\ j \in Nat /\ Len(text) \in Nat
  BY Joined DEF Percent, MaskByte
<1>1. CASE Escape(text, j)
  <2>1. text[j] # MaskByte
    BY <1>0, <1>1 DEF Escape
  <2>2. o[j] \in 1 .. Len(value)
    BY <2>1, ByteKept
  <2>3. /\ Escape(value, o[j]) /\ Unit(value, o[j]) = Unit(text, j)
        /\ j + 3 <= Len(text) /\ text[j + 3] # MaskByte => o[j + 3] = o[j] + 3
    BY <1>1, EscapeKept
  <2>4. Behind(text, j) = j + 3 /\ Behind(value, o[j]) = o[j] + 3
    BY <1>1, <2>3 DEF Behind
  <2> QED
    BY <2>1, <2>2, <2>3, <2>4
<1>2. CASE ~Escape(text, j)
  <2>1. Unit(text, j) = text[j] /\ Behind(text, j) = j + 1
    BY <1>2 DEF Unit, Behind
  <2>2. text[j] # MaskByte /\ text[j] # Percent
    BY <2>1 DEF Told
  <2>3. /\ o[j] \in 1 .. Len(value) /\ text[j] = value[o[j]]
        /\ j < Len(text) /\ text[j + 1] # MaskByte => o[j + 1] = o[j] + 1
    BY <2>2, ByteKept
  <2>4. ~Escape(value, o[j])
    BY <2>2, <2>3 DEF Escape
  <2>5. Unit(value, o[j]) = text[j] /\ Behind(value, o[j]) = o[j] + 1
    BY <2>3, <2>4 DEF Unit, Behind
  <2>6. j + 1 <= Len(text) => j < Len(text)
    BY <1>0
  <2> QED
    BY <2>1, <2>2, <2>3, <2>5, <2>6
<1> QED
  BY <1>1, <1>2

(* The first n numbers of a text are some that a key has. *)
AllTold(t, n) == n <= Len(t) /\ \A e \in 1 .. n : Told(t[e])
(* Those of s are the same. *)
Alike(s, t, n) == n <= Len(s) /\ \A e \in 1 .. n : s[e] = t[e]

(* So the decodings agree as far as they are such numbers. *)
LEMMA DecodingKept ==
    ASSUME NEW value \in Text, NEW secret, NEW text \in Text, NEW o, Origin(value, secret, text, o),
           NEW f, Decodes(value, f), NEW g, Decodes(text, g),
           NEW j \in 1 .. Len(text), NEW n \in Nat, n # 0, AllTold(g[j], n)
    PROVE  text[j] # MaskByte /\ o[j] \in 1 .. Len(value) /\ Alike(f[o[j]], g[j], n)
<1>0. Len(text) \in Nat /\ Len(value) \in Nat
  BY Joined
<1> DEFINE Kept(i, m) == text[i] # MaskByte /\ o[i] \in 1 .. Len(value) /\ Alike(f[o[i]], g[i], m)
           T == {m \in Nat : \A i \in 1 .. Len(text) : m # 0 /\ AllTold(g[i], m) => Kept(i, m)}
<1>1. 0 \in T
  OBVIOUS
<1>2. ASSUME NEW m \in Nat, m \in T PROVE m + 1 \in T
  <2> SUFFICES ASSUME NEW i \in 1 .. Len(text), AllTold(g[i], m + 1) PROVE Kept(i, m + 1)
    OBVIOUS
  <2>1. PICK k, x, s, t : k = Behind(text, i) /\ x = Unit(text, i) /\ s = g[i] /\ t = g[k]
    OBVIOUS
  <2>2. /\ s \in Text /\ t \in Text /\ s[1] = x
        /\ Len(s) = Len(t) + 1 /\ \A e \in 1 .. Len(t) : s[e + 1] = t[e]
    BY <2>1, DecodedAhead DEF OneMore
  <2>3. Len(t) \in Nat /\ m + 1 <= Len(s) /\ \A e \in 1 .. m + 1 : Told(s[e])
    BY <2>1, <2>2, Joined DEF AllTold
  <2>4. Told(x)
    <3>1. 1 \in 1 .. m + 1
      OBVIOUS
    <3> QED
      BY <2>2, <2>3, <3>1
  <2>5. /\ o[i] \in 1 .. Len(value) /\ text[i] # MaskByte /\ Unit(value, o[i]) = x
        /\ k <= Len(text) /\ text[k] # MaskByte => o[k] = Behind(value, o[i])
    <3>1. Told(Unit(text, i))
      BY <2>1, <2>4
    <3> QED
      <4>1. /\ o[i] \in 1 .. Len(value) /\ text[i] # MaskByte /\ Unit(value, o[i]) = Unit(text, i)
            /\ \A d : d = Behind(text, i) /\ d <= Len(text) /\ text[d] # MaskByte
                         => o[d] = Behind(value, o[i])
        BY <3>1, UnitKept
      <4> QED
        BY <2>1, <4>1
  <2>6. PICK p, u, v : p = o[i] /\ u = f[p] /\ v = f[Behind(value, p)]
    OBVIOUS
  <2>7. /\ u \in Text /\ v \in Text /\ u[1] = x
        /\ Len(u) = Len(v) + 1 /\ Len(v) \in Nat /\ \A e \in 1 .. Len(v) : u[e + 1] = v[e]
    <3>1. p \in 1 .. Len(value) /\ Unit(value, p) = x
      BY <2>5, <2>6
    <3>2. u \in Text /\ v \in Text /\ u[1] = x /\ OneMore(u, v)
      BY <2>6, <3>1, DecodedAhead
    <3> QED
      BY <3>2, Joined DEF OneMore
  <2>8. m <= Len(v) /\ \A e \in 1 .. m : v[e] = t[e]
    <3>1. CASE m = 0
      BY <2>7, <3>1
    <3>2. CASE m # 0
      <4>1. AllTold(t, m)
        <5>1. m <= Len(t)
          BY <2>2, <2>3
        <5>2. ASSUME NEW e \in 1 .. m PROVE Told(t[e])
          <6>1. e + 1 \in 1 .. m + 1 /\ e \in 1 .. Len(t)
            BY <2>3, <5>1
          <6> QED
            BY <2>2, <2>3, <6>1
        <5> QED
          BY <5>1, <5>2 DEF AllTold
      <4>2. k \in Nat \ {0}
        BY <2>1, UnitTyped
      <4>3. k \in 1 .. Len(text)
        <5>1. CASE k > Len(text)
          <6>1. Len(t) = 0
            BY <2>1, <4>2, <5>1, DecodedEnd
          <6> QED
            BY <3>2, <4>1, <6>1 DEF AllTold
        <5> QED
          BY <1>0, <4>2, <5>1
      <4>4. Kept(k, m)
        BY <1>2, <2>1, <3>2, <4>1, <4>3
      <4>5. o[k] = Behind(value, o[i])
        BY <1>0, <2>5, <4>3, <4>4
      <4> QED
        BY <2>1, <2>6, <4>4, <4>5 DEF Alike
    <3> QED
      BY <3>1, <3>2
  <2>9. m + 1 <= Len(u) /\ \A e \in 1 .. m + 1 : u[e] = s[e]
    <3>1. m + 1 <= Len(u)
      BY <2>7, <2>8
    <3>2. ASSUME NEW e \in 1 .. m + 1 PROVE u[e] = s[e]
      <4>1. CASE e = 1
        BY <2>2, <2>7, <4>1
      <4>2. CASE e # 1
        <5>1. PICK d : d = e - 1
          OBVIOUS
        <5>2. d \in 1 .. m /\ e = d + 1 /\ d \in 1 .. Len(v) /\ d \in 1 .. Len(t)
          BY <2>2, <2>3, <2>7, <2>8, <4>2, <5>1
        <5> QED
          BY <2>2, <2>7, <2>8, <5>2
      <4> QED
        BY <4>1, <4>2
    <3> QED
      BY <3>1, <3>2
  <2> QED
    BY <2>1, <2>5, <2>6, <2>9 DEF Alike
<1>3. Nat \subseteq T
  <2> HIDE DEF T
  <2> QED
    BY <1>1, <1>2, Induct
<1>4. Kept(j, n)
  BY <1>3
<1> QED
  BY <1>4

-----------------------------------------------------------------------------
(* Keys without percent signs. *)
LEMMA NoPercent ==
    ASSUME NEW secret \in Text, Percent \notin Range(secret)
    PROVE  \A k \in 1 .. Len(secret) : secret[k] # Percent
<1>1. DOMAIN secret = 1 .. Len(secret)
  BY DEF Text
<1>2. \A k \in DOMAIN secret : secret[k] \in Range(secret)
  BY DEF Range
<1> QED
  BY <1>1, <1>2

(* Such a key has no percent sign at its end, nor before it. *)
LEMMA MatchBytes ==
    ASSUME NEW value \in Text, NEW secret \in Text, secret # <<>>, Percent \notin Range(secret),
           NEW n, MatchEnds(value, secret, n)
    PROVE  value[n] # Percent /\ (Len(secret) > 1 => value[n - 1] # Percent)
<1>1. PICK l : l = Len(secret) /\ l \in Nat
  BY Joined
<1>2. l # 0
  BY <1>1 DEF Text
<1>3. PICK i \in 1 .. Len(value) : OccursAt(value, secret, i) /\ i + Len(secret) - 1 = n
  BY DEF MatchEnds
<1>4. i \in Nat \ {0}
  OBVIOUS
<1>5. \A k \in 1 .. l : value[i + k - 1] = secret[k] /\ secret[k] # Percent
  BY <1>1, <1>3, <1>4, OccursByByte, NoPercent
<1>6. l \in 1 .. l /\ i + l - 1 = n /\ (l > 1 => l - 1 \in 1 .. l /\ i + (l - 1) - 1 = n - 1)
  BY <1>1, <1>2, <1>3, <1>4
<1>7. value[n] # Percent
  BY <1>5, <1>6
<1>8. l > 1 => value[n - 1] # Percent
  BY <1>5, <1>6
<1> QED
  BY <1>1, <1>7, <1>8

(* What comes from the text is its byte there, and comes behind what was before
   it or behind a match.                                                   *)
LEMMA OriginByte ==
    ASSUME NEW value, NEW secret, NEW text, NEW o, Origin(value, secret, text, o),
           NEW j \in 1 .. Len(text), o[j] # 0
    PROVE  /\ text[j] = value[o[j]]
           /\ o[j] = 1 \/ MatchEnds(value, secret, o[j] - 1) \/ (j > 1 /\ o[j - 1] = o[j] - 1)
<1>1. ComesFrom(value, secret, text, o, j)
  BY DEF Origin
<1> QED
  BY <1>1, Zenon DEF ComesFrom

(* Where such a key begins in what a masked text is decoded to, when the key as it
   is is not in the masked text, the decoding of the text comes by too: a match
   that took bytes of an escape away would have had to hold its percent sign,
   or to be one digit of it, and then the key were in the masked text.     *)
LEMMA PassedKept ==
    ASSUME NEW value \in Text, NEW secret \in Text, secret # <<>>, Percent \notin Range(secret),
           NEW text \in Text, NEW o, Origin(value, secret, text, o), Free(text, secret),
           NEW f, Decodes(value, f), NEW g, Decodes(text, g),
           NEW j \in 1 .. Len(text), Passed(text, j), OccursAt(g[j], secret, 1),
           AllTold(g[j], Len(secret))
    PROVE  Passed(value, o[j])
<1>1. PICK l : l = Len(secret) /\ l \in Nat
  BY Joined
<1>2. l # 0 /\ Len(text) \in Nat /\ Len(value) \in Nat /\ j \in Nat
  BY <1>1, Joined DEF Text
<1>3. PICK p : p = o[j]
  OBVIOUS
<1>4. text[j] # MaskByte /\ p \in 1 .. Len(value)
  <2>1. AllTold(g[j], l)
    BY <1>1
  <2>2. l \in Nat /\ l # 0
    BY <1>1, <1>2
  <2>3. text[j] # MaskByte /\ o[j] \in 1 .. Len(value)
    BY <2>1, <2>2, DecodingKept, Zenon
  <2> QED
    BY <1>3, <2>3
<1>5. p \in Nat /\ p > 0 /\ text[j] = value[p]
  BY <1>2, <1>3, <1>4, ByteKept
<1>6. p = 1 \/ MatchEnds(value, secret, p - 1) \/ (j > 1 /\ o[j - 1] = p - 1)
  BY <1>3, <1>4, ByteKept
<1> SUFFICES ASSUME Escape(value, p - 1) \/ Escape(value, p - 2) PROVE FALSE
  BY <1>3, <1>5 DEF Passed
<1>7. Digit(text[j]) /\ p # 1
  <2>1. CASE Escape(value, p - 1)
    <3>1. (p - 1) + 1 = p /\ p - 1 > 0
      BY <1>5, <2>1 DEF Escape
    <3> QED
      BY <1>5, <2>1, <3>1 DEF Escape
  <2>2. CASE Escape(value, p - 2)
    <3>1. (p - 2) + 2 = p /\ p - 2 > 0
      BY <1>5, <2>2 DEF Escape
    <3> QED
      BY <1>5, <2>2, <3>1 DEF Escape
  <2> QED
    BY <2>1, <2>2
<1>8. ~Escape(text, j) /\ Unit(text, j) = text[j] /\ Behind(text, j) = j + 1
  BY <1>7, DigitByte DEF Escape, Unit, Behind
<1>9. PICK s, t : s = g[j] /\ t = g[j + 1]
  OBVIOUS
<1>10. s \in Text /\ t \in Text /\ s[1] = text[j] /\ OneMore(s, t)
  BY <1>8, <1>9, DecodedAhead
<1>11. l <= Len(s) /\ (\A e \in 1 .. l : Told(s[e])) /\ Len(s) = Len(t) + 1
       /\ Len(t) \in Nat /\ \A e \in 1 .. Len(t) : s[e + 1] = t[e]
  BY <1>1, <1>9, <1>10, Joined DEF AllTold, OneMore
<1>12. l > 1
  <2> SUFFICES ASSUME l = 1 PROVE FALSE
    BY <1>1, <1>2
  <2>1. s[1 + 1 - 1] = secret[1]
    <3>1. 1 \in 1 .. Len(secret) /\ 1 \in Nat \ {0}
      BY <1>1
    <3>2. \A k \in 1 .. Len(secret) : s[1 + k - 1] = secret[k]
      BY <1>9, <1>10, <3>1, OccursByByte
    <3> QED
      BY <3>1, <3>2
  <2>2. text[j] = secret[1]
    BY <1>10, <2>1
  <2>3. OccursAt(text, secret, j)
    <3>1. j + Len(secret) - 1 <= Len(text)
      <4>1. j + 1 - 1 <= Len(text)
        BY <1>2
      <4> QED
        BY <1>1, <4>1
    <3>2. ASSUME NEW k \in 1 .. Len(secret) PROVE text[j + k - 1] = secret[k]
      <4>1. k = 1 /\ j + k - 1 = j
        <5>1. k \in 1 .. 1
          BY <1>1
        <5> QED
          BY <1>2, <5>1
      <4> QED
        BY <2>2, <4>1
    <3>3. j \in Nat \ {0}
      OBVIOUS
    <3> QED
      BY <3>1, <3>2, <3>3, OccursByByte
  <2> QED
    BY <2>3 DEF Free
<1>13. j > 1 /\ o[j - 1] = p - 1 /\ o[j - 1] # 0
  <2>1. ~MatchEnds(value, secret, p - 1)
    <3>1. (p - 1) - 1 = p - 2
      BY <1>5
    <3>2. value[p - 1] = Percent \/ value[p - 2] = Percent
      BY DEF Escape
    <3> QED
      BY <1>1, <1>12, <3>1, <3>2, MatchBytes
  <2> QED
    BY <1>5, <1>6, <1>7, <2>1
<1>14. PICK i : i = j - 1
  OBVIOUS
<1>15. i \in 1 .. Len(text) /\ i + 1 = j
  BY <1>2, <1>13, <1>14
<1>16. o[i] = p - 1 /\ o[i] # 0
  BY <1>13, <1>14
<1>17. /\ text[i] = value[p - 1]
       /\ p - 1 = 1 \/ MatchEnds(value, secret, (p - 1) - 1) \/ (i > 1 /\ o[i - 1] = (p - 1) - 1)
  <2>1. PICK q : q = p - 1
    OBVIOUS
  <2>2. o[i] = q /\ o[i] # 0
    BY <1>16, <2>1
  <2>3. text[i] = value[o[i]] /\ (o[i] = 1 \/ MatchEnds(value, secret, o[i] - 1) \/ (i > 1 /\ o[i - 1] = o[i] - 1))
    BY <1>15, <2>2, OriginByte
  <2> QED
    BY <2>1, <2>2, <2>3
<1>18. ~Escape(text, j - 1) /\ ~Escape(text, j - 2)
  BY DEF Passed
<1>19. CASE Escape(value, p - 1)
  <2>1. PICK k : k = j + 1
    OBVIOUS
  <2>2. k \in 1 .. Len(text)
    <3>1. CASE k > Len(text)
      <4>1. k \in Nat \ {0}
        BY <1>2, <2>1
      <4>2. Len(t) = 0
        BY <1>9, <2>1, <3>1, <4>1, DecodedEnd
      <4> QED
        BY <1>1, <1>11, <1>12, <4>2
    <3> QED
      BY <1>2, <2>1, <3>1
  <2>3. AllTold(g[k], 1)
    <3>1. 1 <= Len(t) /\ 1 \in 1 .. Len(t) /\ 1 + 1 \in 1 .. l
      BY <1>1, <1>11, <1>12
    <3>2. Told(t[1])
      BY <1>11, <3>1
    <3>3. \A e \in 1 .. 1 : e = 1
      OBVIOUS
    <3> QED
      BY <1>9, <2>1, <3>1, <3>2, <3>3 DEF AllTold
  <2>4. text[k] # MaskByte
    <3>1. 1 \in Nat /\ 1 # 0
      OBVIOUS
    <3> QED
      BY <2>2, <2>3, <3>1, DecodingKept
  <2>5. o[k] = p + 1
    <3>1. j < Len(text) /\ text[j + 1] # MaskByte
      BY <1>2, <2>1, <2>2, <2>4
    <3> QED
      BY <1>3, <1>4, <2>1, <3>1, ByteKept
  <2>6. text[k] = value[p + 1]
    BY <2>2, <2>4, <2>5, ByteKept
  <2>7. value[p - 1] = Percent /\ Digit(value[p + 1])
    <3>1. (p - 1) + 2 = p + 1
      BY <1>5
    <3> QED
      BY <1>19, <3>1 DEF Escape
  <2>8. Escape(text, i)
    <3>1. i \in Nat /\ i > 0 /\ i + 2 <= Len(text) /\ i + 2 = k
      BY <1>2, <1>15, <2>1, <2>2
    <3>2. text[i] = Percent /\ Digit(text[i + 1]) /\ Digit(text[i + 2])
      BY <1>7, <1>15, <1>17, <2>6, <2>7, <3>1
    <3> QED
      BY <3>1, <3>2 DEF Escape
  <2> QED
    BY <1>14, <1>18, <2>8
<1>20. CASE Escape(value, p - 2)
  <2>1. p - 2 > 0 /\ value[p - 2] = Percent /\ Digit(value[p - 1])
    <3>1. (p - 2) + 1 = p - 1
      BY <1>5
    <3> QED
      BY <1>20, <3>1 DEF Escape
  <2>2. (p - 1) - 1 = p - 2
    BY <1>5
  <2>3. ~MatchEnds(value, secret, p - 2)
    BY <2>1, MatchBytes
  <2>4. i > 1 /\ o[i - 1] = p - 2 /\ p - 2 # 0
    BY <1>5, <1>17, <2>1, <2>2, <2>3
  <2>5. PICK h : h = i - 1
    OBVIOUS
  <2>6. h \in 1 .. Len(text) /\ h = j - 2 /\ h + 1 = i /\ h + 2 = j
    BY <1>2, <1>14, <1>15, <2>4, <2>5
  <2>7. text[h] = Percent
    <3>1. o[h] # 0
      BY <2>4, <2>5
    <3>2. text[h] = value[o[h]]
      BY <2>6, <3>1, OriginByte
    <3> QED
      BY <2>1, <2>4, <2>5, <3>2
  <2>8. Escape(text, h)
    <3>1. h \in Nat /\ h > 0 /\ h + 2 <= Len(text)
      BY <1>2, <2>6
    <3>2. Digit(text[h + 1]) /\ Digit(text[h + 2])
      BY <1>7, <1>17, <2>1, <2>6
    <3> QED
      BY <2>7, <3>1, <3>2 DEF Escape
  <2> QED
    BY <1>18, <2>6, <2>8
<1> QED
  BY <1>19, <1>20

(* A key that a text is not decoded to is not what the masked text is decoded to. *)
LEMMA MaskedUndecoded ==
    ASSUME NEW value \in Text, NEW secret \in Text, secret # <<>>, Percent \notin Range(secret),
           MaskByte \notin Range(secret),
           NEW text \in Text, NEW o, Origin(value, secret, text, o), Free(text, secret),
           NEW f, Decodes(value, f), NEW g, Decodes(text, g), Free(f[1], secret)
    PROVE  Free(g[1], secret)
<1>1. PICK l : l = Len(secret) /\ l \in Nat
  BY Joined
<1>2. l # 0
  BY <1>1 DEF Text
<1> SUFFICES ASSUME NEW j \in 1 .. Len(text), Passed(text, j), OccursAt(g[j], secret, 1) PROVE FALSE
  BY DecodedStart
<1>3. PICK s : s = g[j]
  OBVIOUS
<1>4. s \in Text
  BY <1>3, DecodedAhead
<1>5. 1 + l - 1 <= Len(s) /\ \A k \in 1 .. l : s[1 + k - 1] = secret[k]
  <2>1. 1 \in Nat \ {0}
    OBVIOUS
  <2> QED
    BY <1>1, <1>3, <1>4, <2>1, OccursByByte
<1>6. l <= Len(s) /\ \A k \in 1 .. l : s[k] = secret[k]
  <2>1. \A k \in 1 .. l : 1 + k - 1 = k
    OBVIOUS
  <2>2. Len(s) \in Nat
    BY <1>4, Joined
  <2>3. l <= Len(s)
    BY <1>1, <1>5, <2>2
  <2> QED
    BY <1>5, <2>1, <2>3
<1>7. AllTold(g[j], Len(secret))
  <2>1. \A k \in 1 .. l : secret[k] # Percent /\ secret[k] # MaskByte
    BY <1>1, NoPercent, NoMaskByte
  <2> QED
    BY <1>1, <1>3, <1>6, <2>1 DEF AllTold, Told
<1>8. PICK p, u : p = o[j] /\ u = f[p]
  OBVIOUS
<1>9. p \in 1 .. Len(value) /\ l <= Len(u) /\ \A e \in 1 .. l : u[e] = s[e]
  <2>1. AllTold(g[j], l)
    BY <1>1, <1>7
  <2>2. l \in Nat /\ l # 0
    BY <1>1, <1>2
  <2>3. o[j] \in 1 .. Len(value) /\ Alike(f[o[j]], g[j], l)
    BY <2>1, <2>2, DecodingKept, Zenon
  <2> QED
    BY <1>3, <1>8, <2>3 DEF Alike
<1>10. Passed(value, p)
  BY <1>7, <1>8, PassedKept
<1>11. Free(u, secret)
  BY <1>8, <1>9, <1>10, PassedDecoded
<1>12. u \in Text
  BY <1>8, <1>9, DecodedAhead
<1>13. OccursAt(u, secret, 1)
  <2>1. 1 + Len(secret) - 1 <= Len(u) /\ \A k \in 1 .. Len(secret) : u[1 + k - 1] = secret[k]
    <3>1. \A k \in 1 .. l : 1 + k - 1 = k
      OBVIOUS
    <3>2. 1 + l - 1 = l
      BY <1>1
    <3> QED
      BY <1>1, <1>6, <1>9, <3>1, <3>2
  <2>2. 1 \in Nat \ {0}
    OBVIOUS
  <2> QED
    BY <1>12, <2>1, <2>2, OccursByByte
<1>14. 1 \in 1 .. Len(u)
  BY <1>1, <1>2, <1>9, <1>12, Joined
<1> QED
  BY <1>11, <1>13, <1>14 DEF Free

(* A text without escapes is decoded to itself. *)
LEMMA NothingToDecode ==
    ASSUME NEW s \in Text, \A i \in 1 .. Len(s) : ~Escape(s, i)
    PROVE  PercentDecoded(s) = s
<1>1. PICK f : PercentDecoded(s) = f[1] /\ Decodes(s, f)
  BY DecodedFrom
<1>2. PICK N : N = Len(s) /\ N \in Nat
  BY Joined
<1> DEFINE Rest(i) == Len(f[i]) = N - i + 1 /\ \A e \in 1 .. N - i + 1 : f[i][e] = s[i + e - 1]
           T == {i \in Nat : i \in 1 .. N + 1 => Rest(i)}
<1>3. ASSUME NEW i \in Nat, i <= N => \A k \in Nat : k > i => k \in T PROVE i \in T
  <2> SUFFICES ASSUME i \in 1 .. N + 1 PROVE Rest(i)
    OBVIOUS
  <2>1. CASE i = N + 1
    <3>1. Len(f[i]) = 0
      <4>1. i \in Nat \ {0} /\ i > Len(s)
        BY <1>2, <2>1
      <4> QED
        BY <1>1, <4>1, DecodedEnd
    <3> QED
      BY <1>2, <2>1, <3>1
  <2>2. CASE i # N + 1
    <3>1. i \in 1 .. Len(s) /\ i <= N /\ i + 1 \in 1 .. N + 1 /\ i + 1 > i
      BY <1>2, <2>2
    <3>2. ~Escape(s, i)
      BY <3>1
    <3>3. Behind(s, i) = i + 1 /\ Unit(s, i) = s[i]
      BY <3>2 DEF Behind, Unit
    <3>4. PICK u, v : u = f[i] /\ v = f[i + 1]
      OBVIOUS
    <3>5. u[1] = s[i] /\ OneMore(u, v)
      BY <1>1, <3>1, <3>3, <3>4, DecodedAhead
    <3>6. Rest(i + 1)
      BY <1>3, <3>1
    <3>7. Len(v) = N - i /\ \A e \in 1 .. N - i : v[e] = s[(i + 1) + e - 1]
      <4>1. N - (i + 1) + 1 = N - i
        BY <1>2
      <4> QED
        BY <3>4, <3>6, <4>1
    <3>8. Len(u) = N - i + 1 /\ \A e \in 1 .. N - i : u[e + 1] = v[e]
      BY <3>5, <3>7 DEF OneMore
    <3>9. ASSUME NEW e \in 1 .. N - i + 1 PROVE u[e] = s[i + e - 1]
      <4>1. CASE e = 1
        BY <3>5, <4>1
      <4>2. CASE e # 1
        <5>1. PICK d : d = e - 1
          OBVIOUS
        <5>2. d \in 1 .. N - i /\ e = d + 1 /\ (i + 1) + d - 1 = i + e - 1
          BY <1>2, <4>2, <5>1
        <5> QED
          BY <3>7, <3>8, <5>2
      <4> QED
        BY <4>1, <4>2
    <3> QED
      BY <3>4, <3>8, <3>9
  <2> QED
    BY <2>1, <2>2
<1>4. Nat \subseteq T
  <2> HIDE DEF T
  <2> QED
    BY <1>2, <1>3, Backwards
<1>5. Rest(1)
  <2>1. 1 \in T
    <3> HIDE DEF T
    <3> QED
      BY <1>4
  <2>2. 1 \in 1 .. N + 1
    BY <1>2
  <2> QED
    BY <2>1, <2>2
<1>6. PICK t : t = f[1]
  OBVIOUS
<1>7. t \in Text
  BY <1>1, <1>6 DEF Decodes
<1>8. Len(t) = N /\ \A e \in 1 .. N : t[e] = s[e]
  <2>1. N - 1 + 1 = N /\ \A e \in 1 .. N : 1 + e - 1 = e
    BY <1>2
  <2> QED
    BY <1>5, <1>6, <2>1
<1>9. t = s
  BY <1>2, <1>7, <1>8, SameText
<1> QED
  BY <1>1, <1>6, <1>9

(* Nor does a key without percent signs get through as what the texts of an error
   are decoded to: it was not what the text was decoded to, or that took the
   whole text away, or the text had no escapes at all.                     *)
LEMMA RedactHidesDecoded ==
    ASSUME NEW value \in Text, NEW secret \in Bytes, secret # <<>>,
           MaskByte \notin Range(secret), Percent \notin Range(secret)
    PROVE  /\ ~Includes(PercentDecoded(RedactErrorText(value, secret)), secret)
           /\ ~Includes(PercentDecoded(SafeErrorBody(value, secret)), secret)
<1>1. secret \in Text
  BY BytesAreText
<1>2. PICK encoded : encoded = UrlEncode(secret)
  OBVIOUS
<1>3. encoded \in Text /\ encoded # <<>>
  BY <1>2, EncodedText
<1>4. PICK text : text = IF encoded = secret THEN value ELSE MaskMatches(value, encoded)
  OBVIOUS
<1>5. text \in Text
  BY <1>3, <1>4, MaskMatchesBounded
<1>6. PICK decoded : decoded = PercentDecoded(text)
  OBVIOUS
<1>7. RedactErrorText(value, secret)
          = IF decoded # text /\ Includes(decoded, secret) THEN Mask ELSE MaskMatches(text, secret)
  BY <1>2, <1>4, <1>6 DEF RedactErrorText
<1>8. ~Includes(PercentDecoded(Mask), secret)
  <2>1. MaskLen \in Nat
    BY MaskAssumption
  <2>2. Mask \in Text /\ Free(Mask, secret) /\ Len(Mask) = MaskLen /\ \A k \in 1 .. MaskLen : Mask[k] = MaskByte
    BY <1>1, <2>1, TheMask, MaskFree
  <2>3. \A i \in 1 .. Len(Mask) : ~Escape(Mask, i)
    BY <2>2 DEF Escape, Percent, MaskByte
  <2>4. PercentDecoded(Mask) = Mask
    BY <2>2, <2>3, NothingToDecode
  <2> QED
    BY <2>2, <2>4, FreeOf
<1>9. PICK f : decoded = f[1] /\ Decodes(text, f)
  BY <1>5, <1>6, DecodedFrom
<1>10. decoded \in Text
  BY <1>9 DEF Decodes
<1>11. PICK masked : masked = MaskMatches(text, secret)
  OBVIOUS
<1>12. masked \in Text /\ Free(masked, secret)
  <2>1. masked \in Text
    BY <1>1, <1>5, <1>11, MaskMatchesBounded
  <2>2. ~Includes(masked, secret)
    BY <1>1, <1>5, <1>11, MaskMatchesHides
  <2> QED
    BY <2>1, <2>2, FreeOf
<1>13. PICK o : Origin(text, secret, masked, o)
  BY <1>1, <1>5, <1>11, MaskMatchesTraced
<1>14. ASSUME decoded = text PROVE ~Includes(PercentDecoded(masked), secret)
  <2>1. \A i \in 1 .. Len(masked) : ~Escape(masked, i)
    <3> SUFFICES ASSUME NEW i \in 1 .. Len(masked), Escape(masked, i) PROVE FALSE
      OBVIOUS
    <3>1. Escape(text, o[i])
      BY <1>5, <1>12, <1>13, EscapeKept
    <3> QED
      BY <1>5, <1>9, <1>14, <3>1, EscapeShortens
  <2>2. PercentDecoded(masked) = masked
    BY <1>12, <2>1, NothingToDecode
  <2> QED
    BY <1>12, <2>2, FreeOf
<1>15. ASSUME ~Includes(decoded, secret) PROVE ~Includes(PercentDecoded(masked), secret)
  <2>1. PICK g : PercentDecoded(masked) = g[1] /\ Decodes(masked, g)
    BY <1>12, DecodedFrom
  <2>2. Free(f[1], secret)
    BY <1>9, <1>10, <1>15, FreeOf
  <2>3. Free(g[1], secret)
    BY <1>1, <1>5, <1>9, <1>12, <1>13, <2>1, <2>2, MaskedUndecoded
  <2>4. g[1] \in Text
    BY <2>1 DEF Decodes
  <2> QED
    BY <2>1, <2>3, <2>4, FreeOf
<1>16. ~Includes(PercentDecoded(RedactErrorText(value, secret)), secret)
  BY <1>7, <1>8, <1>11, <1>14, <1>15
<1>17. SafeErrorBody(value, secret) \in {Mask, RedactErrorText(value, secret)}
  BY DEF SafeErrorBody
<1> QED
  BY <1>8, <1>16, <1>17

-----------------------------------------------------------------------------
(* Keys that a URL holds as they are. *)
Plain(secret) == Range(secret) \subseteq Unreserved

(* Their bytes mean nothing to JSON, and none is the mask's or a percent sign. *)
LEMMA PlainByte ==
    ASSUME NEW byte \in Unreserved
    PROVE  /\ byte \in 45 .. 126 /\ byte # Quote /\ byte # Backslash /\ byte # Percent
           /\ byte # MaskByte
  BY DEF Unreserved, Quote, Backslash, Percent, MaskByte

(* So it is with all bytes of such a key. *)
LEMMA PlainBytes ==
    ASSUME NEW secret \in Text, Plain(secret)
    PROVE  /\ \A k \in 1 .. Len(secret) : secret[k] \in Unreserved
           /\ MaskByte \notin Range(secret) /\ Percent \notin Range(secret)
<1>1. DOMAIN secret = 1 .. Len(secret)
  BY DEF Text
<1>2. \A k \in DOMAIN secret : secret[k] \in Range(secret)
  BY DEF Range
<1>3. Range(secret) \subseteq Unreserved
  BY DEF Plain
<1> QED
  BY <1>1, <1>2, <1>3, PlainByte

(* The next places of TokenEnd, which is a function as it goes on. *)
TokenRound(s, f, i) ==
    CASE Peek(s, i) = AtEnd -> 0
      [] Peek(s, i) = Quote -> i
      [] Peek(s, i) = Backslash -> IF i = Len(s) THEN 0 ELSE f[i + 2]
      [] OTHER -> f[i + 1]
IsTokenEnd(s, f) == f = [i \in Nat |-> TokenRound(s, f, i)]

(* TokenEnd goes on from byte to byte, so it is a function. *)
LEMMA TokenExists ==
    ASSUME NEW s \in Text
    PROVE  \E f : IsTokenEnd(s, f)
<1> DEFINE N == Len(s)
           F == [Nat -> Nat]
           step == [i \in Nat |-> [f \in F |-> TokenRound(s, f, i)]]
<1>1. N \in Nat
  BY Joined
<1>2. ASSUME NEW f \in F, NEW i \in Nat PROVE TokenRound(s, f, i) \in Nat
  <2>1. f[i + 1] \in Nat /\ f[i + 2] \in Nat
    OBVIOUS
  <2> HIDE DEF F
  <2>2. TokenRound(s, f, i) \in {0, i, f[i + 1], f[i + 2]}
    BY DEF TokenRound, AtEnd, Quote, Backslash
  <2> QED
    BY <2>1, <2>2
<1>3. step \in [Nat -> [F -> Nat]]
  BY <1>2
<1>4. ASSUME NEW i \in Nat, NEW f \in F, NEW g \in F,
             i <= N => \A k \in Nat : k > i => f[k] = g[k]
      PROVE  step[i][f] = step[i][g]
  <2>1. CASE Peek(s, i) = AtEnd
    <3>1. TokenRound(s, f, i) = 0 /\ TokenRound(s, g, i) = 0
      BY <2>1 DEF TokenRound, AtEnd, Quote, Backslash
    <3> QED
      BY <3>1
  <2>2. CASE Peek(s, i) # AtEnd
    <3>1. i \in 1 .. N
      BY <2>2, Peeked
    <3>2. \A k \in Nat : k > i => f[k] = g[k]
      BY <1>1, <1>4, <3>1
    <3>3. i + 1 \in Nat /\ i + 1 > i /\ i + 2 \in Nat /\ i + 2 > i
      OBVIOUS
    <3> HIDE DEF F
    <3>4. f[i + 1] = g[i + 1] /\ f[i + 2] = g[i + 2]
      BY <3>2, <3>3
    <3>5. TokenRound(s, f, i) = TokenRound(s, g, i)
      BY <3>4 DEF TokenRound
    <3> QED
      BY <3>5
  <2> QED
    BY <2>1, <2>2
<1>5. 0 \in Nat
  OBVIOUS
<1>6. \E f : Solves(f, Nat, step)
  <2> HIDE DEF step, N
  <2> QED
    BY <1>1, <1>3, <1>4, <1>5, Solution
<1>7. PICK f : Solves(f, Nat, step)
  BY <1>6
<1>8. f \in F /\ \A i \in Nat : f[i] = TokenRound(s, f, i)
  BY <1>7 DEF Solves
<1> QED
  BY <1>8 DEF IsTokenEnd

(* TokenEnd looks for the quote, over an escaped byte. *)
LEMMA TokenEndAt ==
    ASSUME NEW s \in Text, NEW i \in Nat
    PROVE  /\ Peek(s, i) = Quote => TokenEnd(s, i) = i
           /\ Peek(s, i) \notin {AtEnd, Quote, Backslash} => TokenEnd(s, i) = TokenEnd(s, i + 1)
           /\ Peek(s, i) = Backslash /\ i # Len(s) => TokenEnd(s, i) = TokenEnd(s, i + 2)
           /\ TokenEnd(s, i) \in Nat /\ (TokenEnd(s, i) # 0 => TokenEnd(s, i) >= i)
<1>1. PICK f : f = CHOOSE g : IsTokenEnd(s, g)
  OBVIOUS
<1>2. \A k \in Nat : f[k] = TokenRound(s, f, k)
  <2>1. IsTokenEnd(s, f)
    BY <1>1, TokenExists
  <2> QED
    BY <2>1 DEF IsTokenEnd
<1>3. \A k : TokenEnd(s, k) = f[k]
  BY <1>1 DEF TokenEnd, IsTokenEnd, TokenRound
<1>4. f[i] = TokenRound(s, f, i)
  BY <1>2
<1>5. Peek(s, i) = Quote => f[i] = i
  BY <1>4 DEF TokenRound, AtEnd, Quote, Backslash
<1>6. Peek(s, i) \notin {AtEnd, Quote, Backslash} => f[i] = f[i + 1]
  BY <1>4 DEF TokenRound, AtEnd, Quote, Backslash
<1>7. Peek(s, i) = Backslash /\ i # Len(s) => f[i] = f[i + 2]
  BY <1>4 DEF TokenRound, AtEnd, Quote, Backslash
<1> DEFINE T == {k \in Nat : f[k] \in Nat /\ (f[k] # 0 => f[k] >= k)}
<1>8. PICK N : N = Len(s) /\ N \in Nat
  BY Joined
<1>9. ASSUME NEW k \in Nat, k <= N => \A m \in Nat : m > k => m \in T PROVE k \in T
  <2>1. f[k] = TokenRound(s, f, k)
    BY <1>2
  <2>2. CASE Peek(s, k) = AtEnd
    <3>1. f[k] = 0
      BY <2>1, <2>2 DEF TokenRound, AtEnd, Quote, Backslash
    <3> QED
      BY <3>1
  <2>3. CASE Peek(s, k) # AtEnd
    <3>1. k <= N
      BY <1>8, <2>3, Peeked
    <3>2. k + 1 \in T /\ k + 2 \in T
      <4>1. k + 1 \in Nat /\ k + 1 > k /\ k + 2 \in Nat /\ k + 2 > k
        OBVIOUS
      <4> HIDE DEF T
      <4> QED
        BY <1>9, <3>1, <4>1
    <3>3. f[k] \in {k, 0, f[k + 1], f[k + 2]}
      BY <2>1 DEF TokenRound
    <3> QED
      BY <3>2, <3>3
  <2> QED
    BY <2>2, <2>3
<1>10. Nat \subseteq T
  <2> HIDE DEF T
  <2> QED
    BY <1>8, <1>9, Backwards
<1>11. f[i] \in Nat /\ (f[i] # 0 => f[i] >= i)
  BY <1>10
<1> QED
  BY <1>3, <1>5, <1>6, <1>7, <1>11

(* ParseString reads a piece and goes on behind it. *)
LEMMA ReadAt ==
    ASSUME NEW s \in Text, NEW i \in Nat
    PROVE  /\ Peek(s, i) = Quote => ParseString(s, i) = Ends(i + 1)
           /\ Peek(s, i) # Quote /\ PieceAt(s, i) = Refused => ParseString(s, i) = Ends(0)
           /\ Peek(s, i) # Quote /\ PieceAt(s, i) # Refused =>
                  ParseString(s, i) = Before(PieceAt(s, i).bytes, ParseString(s, i + PieceAt(s, i).used))
<1>1. PICK read : read = CHOOSE f : IsRead(s, f)
  OBVIOUS
<1>2. \A k \in Nat : read[k] = ReadRound(s, read, k)
  <2>1. IsRead(s, read)
    BY <1>1, ReadExists
  <2> QED
    BY <2>1 DEF IsRead
<1>3. \A k : ParseString(s, k) = read[k]
  BY <1>1 DEF ParseString, IsRead, ReadRound, Onward, Ends
<1>4. read[i] = ReadRound(s, read, i)
  BY <1>2
<1> QED
  BY <1>3, <1>4, Zenon DEF ReadRound, Onward

(* What is read is a text, and a place or none. *)
LEMMA ReadsTyped ==
    ASSUME NEW s \in Text
    PROVE  \A i \in Nat : ParseString(s, i) \in Reads
<1>1. PICK read : read = CHOOSE f : IsRead(s, f)
  OBVIOUS
<1>2. \A i \in Nat : read[i] = ReadRound(s, read, i)
  <2>1. IsRead(s, read)
    BY <1>1, ReadExists
  <2> QED
    BY <2>1 DEF IsRead
<1>3. \A i : ParseString(s, i) = read[i]
  BY <1>1 DEF ParseString, IsRead, ReadRound, Onward, Ends
<1> DEFINE T == {i \in Nat : read[i] \in Reads}
<1>4. PICK N : N = Len(s) /\ N \in Nat
  BY Joined
<1>5. ASSUME NEW i \in Nat, i <= N => \A k \in Nat : k > i => k \in T PROVE i \in T
  <2>1. CASE i <= N
    <3>1. \A k \in Nat : k > i => read[k] \in Reads
      BY <1>5, <2>1
    <3>2. ReadRound(s, read, i) \in Reads
      BY <3>1, ReadRoundTyped
    <3> QED
      BY <1>2, <3>2
  <2>2. CASE ~(i <= N)
    <3>1. Peek(s, i) = AtEnd
      BY <1>4, <2>2, Peeked
    <3>2. PieceAt(s, i) = Refused
      BY <3>1 DEF PieceAt, AtEnd
    <3>3. read[i] = Ends(0)
      BY <1>2, <3>1, <3>2 DEF ReadRound, Onward, AtEnd, Quote
    <3> QED
      BY <3>3, EndsReads
  <2> QED
    BY <2>1, <2>2
<1>6. Nat \subseteq T
  <2> HIDE DEF T
  <2> QED
    BY <1>4, <1>5, Backwards
<1> QED
  BY <1>3, <1>6

(* The bytes of a piece come before what is read behind it. *)
LEMMA ReadBehind ==
    ASSUME NEW s \in Text, NEW i \in Nat, NEW u, NEW bytes,
           Peek(s, i) # Quote, PieceAt(s, i) # Refused,
           PieceAt(s, i).used = u, PieceAt(s, i).bytes = bytes
    PROVE  /\ ParseString(s, i).next = ParseString(s, i + u).next
           /\ ParseString(s, i).text = bytes \o ParseString(s, i + u).text
           /\ bytes \in Text /\ ParseString(s, i + u).text \in Text
           /\ u \in Nat \ {0} /\ i \in 1 .. Len(s) /\ ParseString(s, i + u).next \in Nat
<1>1. u \in Nat \ {0} /\ bytes \in Text /\ i \in 1 .. Len(s)
  BY PieceFits DEF Fits
<1>2. PICK rest : rest = ParseString(s, i + u)
  OBVIOUS
<1>3. rest \in Reads
  <2>1. i + u \in Nat
    BY <1>1
  <2> QED
    BY <1>2, <2>1, ReadsTyped
<1>4. ParseString(s, i) = Before(bytes, rest)
  BY <1>2, ReadAt
<1>5. ParseString(s, i) = [rest EXCEPT !.text = bytes \o rest.text]
  BY <1>4 DEF Before
<1> QED
  BY <1>1, <1>2, <1>3, <1>5 DEF Reads

-----------------------------------------------------------------------------
(* The kinds of pieces, by the bytes they are read from. *)
Ordinary == Int \ {AtEnd, Quote, Backslash}
Simple == 32 .. 127 \ {Quote, Backslash}
Run(s, i, n, S) == \A k \in 0 .. n - 1 : Peek(s, i + k) \in S
Hex == {byte \in Int : HexValue(byte) >= 0}
Raw(s, i, u) == PieceAt(s, i) = Piece(u, SubSeq(s, i, i + u - 1))
Single(s, i, u) == u = 1 /\ Peek(s, i) \in Simple
Several(s, i, u) ==
    /\ Peek(s, i) \in 194 .. 244 /\ u = Utf8Length(Peek(s, i))
    /\ Run(s, i + 1, u - 1, 128 .. 191)
Letter(s, i, u) ==
    /\ Peek(s, i) = Backslash /\ u = 2
    /\ Peek(s, i + 1) \in {Quote, Backslash, Slash} \cup EscapeLetters
Opens(s, i) == Peek(s, i) = Backslash /\ Peek(s, i + 1) = 117 /\ Run(s, i + 2, 4, Hex)
Point(s, i, u) == Opens(s, i) /\ u = 6 /\ CodeUnit(s, i + 2) \notin HighSurrogates
Pair(s, i, u) == Opens(s, i) /\ Opens(s, i + 6) /\ u = 12 /\ CodeUnit(s, i + 2) \in HighSurrogates

(* A hexadecimal digit is an ordinary byte, and not the one of the mask. *)
LEMMA HexByte ==
    ASSUME NEW byte \in Hex
    PROVE  byte \in Ordinary /\ byte # MaskByte /\ byte \in 48 .. 102
  BY DEF Hex, HexValue, Ordinary, AtEnd, Quote, Backslash, MaskByte

(* A code unit is read from four digits. *)
LEMMA UnitDigits ==
    ASSUME NEW s \in Text, NEW i \in Nat, CodeUnit(s, i) # NoUnit
    PROVE  Run(s, i, 4, Hex)
<1>1. \A k \in 0 .. 3 : HexValue(Peek(s, i + k)) >= 0
  BY DEF CodeUnit
<1>2. ASSUME NEW k \in 0 .. 3 PROVE Peek(s, i + k) \in Hex
  <2>1. i + k \in Nat
    OBVIOUS
  <2>2. Peek(s, i + k) \in Int
    BY <2>1, Peeked
  <2> QED
    BY <1>1, <2>2 DEF Hex
<1> QED
  BY <1>2 DEF Run

(* A piece that begins with a byte of UTF-8 is taken as it is. *)
LEMMA Utf8Kind ==
    ASSUME NEW s \in Text, NEW i \in Nat, NEW u, Peek(s, i) >= 128,
           PieceAt(s, i) # Refused, PieceAt(s, i).used = u
    PROVE  Several(s, i, u) /\ Raw(s, i, u)
<1>1. PICK byte : byte = Peek(s, i) /\ byte \in Int
  BY Peeked
<1>2. PieceAt(s, i) = Utf8Piece(s, i) /\ byte >= 128
  BY <1>1 DEF PieceAt
<1>3. s[i] = byte /\ i \in 1 .. Len(s)
  BY <1>1, <1>2, Peeked DEF AtEnd
<1>4. PICK n : n = Utf8Length(byte)
  OBVIOUS
<1>5. n \in {2, 3, 4}
  BY <1>4 DEF Utf8Length
<1>6. /\ byte \in 194 .. 244 /\ Peek(s, i + 1) \in Follower(byte)
      /\ \A k \in 2 .. n - 1 : Peek(s, i + k) \in Continuation
      /\ PieceAt(s, i) = Piece(n, SubSeq(s, i, i + n - 1))
  <2>1. Utf8Piece(s, i) = IF /\ s[i] \in 194 .. 244
                            /\ Peek(s, i + 1) \in Follower(s[i])
                            /\ \A k \in 2 .. n - 1 : Peek(s, i + k) \in Continuation
                         THEN Piece(n, SubSeq(s, i, i + n - 1))
                         ELSE Refused
    BY <1>3, <1>4 DEF Utf8Piece
  <2> QED
    BY <1>2, <1>3, <2>1
<1>7. u = n
  BY <1>6 DEF Piece
<1>8. Peek(s, i + 1) \in 128 .. 191
  BY <1>6 DEF Follower, Continuation
<1>9. ASSUME NEW k \in 0 .. (n - 1) - 1 PROVE Peek(s, (i + 1) + k) \in 128 .. 191
  <2>1. CASE k = 0
    BY <1>8, <2>1
  <2>2. CASE k # 0
    <3>1. k + 1 \in 2 .. n - 1 /\ (i + 1) + k = i + (k + 1)
      BY <1>5, <2>2
    <3> QED
      BY <1>6, <3>1 DEF Continuation
  <2> QED
    BY <2>1, <2>2
<1>10. Run(s, i + 1, n - 1, 128 .. 191)
  BY <1>9 DEF Run
<1> QED
  BY <1>1, <1>4, <1>6, <1>7, <1>10 DEF Several, Raw

(* A piece that begins with a backslash is a letter, a code point or a pair. *)
LEMMA EscapeKind ==
    ASSUME NEW s \in Text, NEW i \in Nat, NEW u, Peek(s, i) = Backslash,
           PieceAt(s, i) # Refused, PieceAt(s, i).used = u
    PROVE  Letter(s, i, u) \/ Point(s, i, u) \/ Pair(s, i, u)
<1>1. PieceAt(s, i) = EscapePiece(s, i)
  BY DEF PieceAt, Backslash
<1>2. PICK byte : byte = Peek(s, i + 1)
  OBVIOUS
<1>3. CASE byte \in {Quote, Backslash, Slash}
  <2>1. PieceAt(s, i) = Piece(2, <<byte>>)
    BY <1>1, <1>2, <1>3 DEF EscapePiece
  <2> QED
    BY <1>2, <1>3, <2>1 DEF Piece, Letter
<1>4. CASE byte \notin {Quote, Backslash, Slash} /\ byte \in EscapeLetters
  <2>1. PieceAt(s, i) = Piece(2, <<ControlOf(byte)>>)
    BY <1>1, <1>2, <1>4 DEF EscapePiece
  <2> QED
    BY <1>2, <1>4, <2>1 DEF Piece, Letter
<1>5. CASE byte \notin {Quote, Backslash, Slash} \cup EscapeLetters
  <2>1. byte = 117 /\ PieceAt(s, i) = UnicodePiece(s, i)
    BY <1>1, <1>2, <1>5 DEF EscapePiece
  <2>2. PICK first, second : first = CodeUnit(s, i + 2) /\ second = CodeUnit(s, i + 8)
    OBVIOUS
  <2>3. first \notin LowSurrogates \cup {NoUnit}
    BY <2>1, <2>2 DEF UnicodePiece
  <2>4. Opens(s, i)
    <3>1. i + 2 \in Nat /\ CodeUnit(s, i + 2) # NoUnit
      BY <2>2, <2>3
    <3>2. Run(s, i + 2, 4, Hex)
      BY <3>1, UnitDigits
    <3> QED
      BY <1>2, <2>1, <3>2 DEF Opens
  <2>5. CASE first \notin HighSurrogates
    <3>1. PieceAt(s, i) = Piece(6, Utf8(first))
      BY <2>1, <2>2, <2>3, <2>5 DEF UnicodePiece
    <3>2. u = 6
      BY <3>1 DEF Piece
    <3> QED
      BY <2>2, <2>4, <2>5, <3>2 DEF Point
  <2>6. CASE first \in HighSurrogates
    <3>1. /\ Peek(s, i + 6) = Backslash /\ Peek(s, i + 7) = 117 /\ second \in LowSurrogates
          /\ PieceAt(s, i) = Piece(12, Utf8(65536 + 1024 * (first - 55296) + (second - 56320)))
      BY <2>1, <2>2, <2>3, <2>6 DEF UnicodePiece
    <3>2. u = 12
      BY <3>1 DEF Piece
    <3>3. i + 8 \in Nat /\ CodeUnit(s, i + 8) # NoUnit
      BY <2>2, <3>1 DEF LowSurrogates, NoUnit
    <3>4. Run(s, i + 8, 4, Hex)
      BY <3>3, UnitDigits
    <3>5. (i + 6) + 2 = i + 8 /\ (i + 6) + 1 = i + 7
      OBVIOUS
    <3>6. Opens(s, i + 6)
      BY <3>1, <3>4, <3>5 DEF Opens
    <3> QED
      BY <2>2, <2>4, <2>6, <3>2, <3>6 DEF Pair
  <2> QED
    BY <2>5, <2>6
<1> QED
  BY <1>3, <1>4, <1>5

(* Pieces that are not escapes are handed out as they are. *)
LEMMA Kinds ==
    ASSUME NEW s \in Text, NEW i \in Nat, NEW u, Peek(s, i) # Quote,
           PieceAt(s, i) # Refused, PieceAt(s, i).used = u
    PROVE  \/ (Single(s, i, u) \/ Several(s, i, u)) /\ Raw(s, i, u)
           \/ Letter(s, i, u) \/ Point(s, i, u) \/ Pair(s, i, u)
<1>1. PICK byte : byte = Peek(s, i) /\ byte \in Int
  BY Peeked
<1>2. CASE byte >= 128
  BY <1>1, <1>2, Utf8Kind
<1>3. CASE byte = Backslash
  BY <1>1, <1>3, EscapeKind
<1>4. CASE ~(byte >= 128) /\ byte # Backslash
  <2>1. ~(byte < 32) /\ PieceAt(s, i) = Piece(1, <<s[i]>>)
    BY <1>1, <1>4 DEF PieceAt
  <2>2. u = 1
    BY <2>1 DEF Piece
  <2>3. i \in 1 .. Len(s) /\ s[i] = byte
    BY <1>1, <2>1, Peeked DEF AtEnd
  <2>4. byte \in Simple
    BY <1>1, <1>4, <2>1 DEF Simple
  <2>5. SubSeq(s, i, (i + 1) - 1) = <<s[i]>>
    <3>1. (i + 1) - 1 = i
      OBVIOUS
    <3>2. PICK t : t = SubSeq(s, i, i)
      OBVIOUS
    <3>3. t \in Text /\ Len(t) = 1 /\ t[1] = s[i]
      <4>1. i \in Nat \ {0} /\ i <= Len(s) /\ i + 1 - 1 = i
        BY <2>3, Joined
      <4> QED
        BY <3>2, <4>1, Stretch
    <3>4. <<s[i]>> \in Text /\ Len(<<s[i]>>) = 1 /\ <<s[i]>>[1] = s[i]
      BY <1>1, <2>3 DEF Text
    <3>5. t = <<s[i]>>
      BY <3>3, <3>4, SameText
    <3> QED
      BY <3>1, <3>2, <3>5
  <2>6. SubSeq(s, i, i + u - 1) = <<s[i]>>
    BY <2>2, <2>5
  <2>7. Raw(s, i, u)
    BY <2>1, <2>2, <2>6, Zenon DEF Raw
  <2>8. Single(s, i, u)
    BY <1>1, <2>2, <2>4 DEF Single
  <2> QED
    BY <2>7, <2>8
<1> QED
  BY <1>2, <1>3, <1>4

(* The bytes at p are those at i. *)
Window(value, p, text, i, u) == \A k \in 0 .. u - 1 : Peek(value, p + k) = Peek(text, i + k)

(* The code unit at a place depends on the four bytes there. *)
LEMMA UnitKeptHere ==
    ASSUME NEW value, NEW p \in Nat, NEW text, NEW i \in Nat, Window(value, p, text, i, 4)
    PROVE  CodeUnit(value, p) = CodeUnit(text, i)
<1>1. \A k \in 0 .. 3 : Peek(value, p + k) = Peek(text, i + k)
  BY DEF Window
<1>2. PICK a, b, c, d : /\ a = HexValue(Peek(text, i + 0)) /\ b = HexValue(Peek(text, i + 1))
                        /\ c = HexValue(Peek(text, i + 2)) /\ d = HexValue(Peek(text, i + 3))
  OBVIOUS
<1>3. /\ HexValue(Peek(value, p + 0)) = a /\ HexValue(Peek(value, p + 1)) = b
      /\ HexValue(Peek(value, p + 2)) = c /\ HexValue(Peek(value, p + 3)) = d
  <2>1. 0 \in 0 .. 3 /\ 1 \in 0 .. 3 /\ 2 \in 0 .. 3 /\ 3 \in 0 .. 3
    OBVIOUS
  <2> QED
    BY <1>1, <1>2, <2>1
<1>4. (\A k \in 0 .. 3 : HexValue(Peek(value, p + k)) >= 0)
          <=> (\A k \in 0 .. 3 : HexValue(Peek(text, i + k)) >= 0)
  BY <1>1
<1>5. CodeUnit(value, p) = IF \A k \in 0 .. 3 : HexValue(Peek(text, i + k)) >= 0
                           THEN 4096 * a + 256 * b + 16 * c + d ELSE NoUnit
  BY <1>3, <1>4 DEF CodeUnit
<1>6. CodeUnit(text, i) = IF \A k \in 0 .. 3 : HexValue(Peek(text, i + k)) >= 0
                          THEN 4096 * a + 256 * b + 16 * c + d ELSE NoUnit
  BY <1>2 DEF CodeUnit
<1> QED
  BY <1>5, <1>6

(* What agrees agrees in each part. *)
LEMMA WindowPart ==
    ASSUME NEW value, NEW p \in Nat, NEW text, NEW i \in Nat, NEW u \in Nat,
           Window(value, p, text, i, u), NEW d \in Nat, NEW n \in Nat, d + n <= u
    PROVE  Window(value, p + d, text, i + d, n)
<1>1. ASSUME NEW k \in 0 .. n - 1 PROVE Peek(value, (p + d) + k) = Peek(text, (i + d) + k)
  <2>1. d + k \in 0 .. u - 1 /\ (p + d) + k = p + (d + k) /\ (i + d) + k = i + (d + k)
    OBVIOUS
  <2>2. Peek(value, p + (d + k)) = Peek(text, i + (d + k))
    BY <2>1 DEF Window
  <2> QED
    BY <2>1, <2>2
<1> QED
  BY <1>1 DEF Window

(* The first half of a pair is no second half. *)
LEMMA HalvesApart ==
    ASSUME NEW unit \in HighSurrogates
    PROVE  unit \notin LowSurrogates \cup {NoUnit}
<1>1. unit \in Int /\ unit >= 55296 /\ unit <= 56319
  BY DEF HighSurrogates
<1>2. unit # NoUnit
  BY <1>1 DEF NoUnit
<1>3. unit \notin LowSurrogates
  BY <1>1 DEF LowSurrogates
<1> QED
  BY <1>2, <1>3

(* A piece is told by its own bytes. *)
LEMMA PieceKept ==
    ASSUME NEW text \in Text, NEW i \in Nat, Peek(text, i) # Quote, PieceAt(text, i) # Refused,
           NEW u, u = PieceAt(text, i).used,
           NEW value \in Text, NEW p \in Nat, Window(value, p, text, i, u)
    PROVE  PieceAt(value, p) = PieceAt(text, i)
<1>1. u \in Nat \ {0} /\ i \in 1 .. Len(text) /\ PieceAt(text, i).bytes \in Text
  BY PieceFits DEF Fits
<1>2. \A k \in 0 .. u - 1 : Peek(value, p + k) = Peek(text, i + k)
  BY DEF Window
<1>3. Peek(value, p) = Peek(text, i)
  <2>1. 0 \in 0 .. u - 1 /\ p + 0 = p /\ i + 0 = i
    BY <1>1
  <2> QED
    BY <1>2, <2>1
<1>4. text[i] = Peek(text, i) /\ text[i] \in Int /\ text[i] # AtEnd
  <2>1. Peek(text, i) # AtEnd
    BY <1>1 DEF PieceAt, AtEnd, Refused
  <2> QED
    BY <2>1, Peeked
<1>5. p \in 1 .. Len(value) /\ value[p] = text[i]
  BY <1>3, <1>4, Peeked
<1>6. CASE Single(text, i, u)
  <2>1. PICK byte : byte = text[i]
    OBVIOUS
  <2>2. byte \in Int /\ ~(byte < 32) /\ ~(byte >= 128) /\ byte # Backslash
    BY <1>4, <1>6, <2>1 DEF Single, Simple
  <2>3. Peek(text, i) = byte /\ Peek(value, p) = byte /\ value[p] = byte
    BY <1>3, <1>4, <1>5, <2>1
  <2>4. PieceAt(text, i) = Piece(1, <<byte>>)
    BY <2>1, <2>2, <2>3 DEF PieceAt
  <2>5. PieceAt(value, p) = Piece(1, <<byte>>)
    BY <2>2, <2>3 DEF PieceAt
  <2> QED
    BY <2>4, <2>5
<1>7. CASE Several(text, i, u) /\ Raw(text, i, u)
  <2>1. u \in 2 .. 4 /\ u = Utf8Length(text[i]) /\ text[i] \in 194 .. 244
    BY <1>4, <1>7 DEF Several, Utf8Length
  <2>2. PieceAt(text, i) = Utf8Piece(text, i) /\ PieceAt(value, p) = Utf8Piece(value, p)
    BY <1>3, <1>4, <2>1 DEF PieceAt
  <2>3. Peek(text, i + 1) \in Follower(text[i])
        /\ \A k \in 2 .. u - 1 : Peek(text, i + k) \in Continuation
    BY <2>1, <2>2 DEF Utf8Piece
  <2>4. Peek(value, p + 1) \in Follower(value[p])
        /\ \A k \in 2 .. u - 1 : Peek(value, p + k) \in Continuation
    <3>1. 1 \in 0 .. u - 1 /\ \A k \in 2 .. u - 1 : k \in 0 .. u - 1
      BY <2>1
    <3> QED
      BY <1>2, <1>5, <2>3, <3>1
  <2>5. SubSeq(value, p, p + u - 1) = SubSeq(text, i, i + u - 1)
    <3>1. PICK a, b : a = SubSeq(value, p, p + u - 1) /\ b = SubSeq(text, i, i + u - 1)
      OBVIOUS
    <3>2. ASSUME NEW k \in 0 .. u - 1
          PROVE  /\ p + k \in 1 .. Len(value) /\ i + k \in 1 .. Len(text)
                 /\ value[p + k] = text[i + k]
      <4>1. Peek(value, p + k) = Peek(text, i + k) /\ p + k \in Nat /\ i + k \in Nat
        BY <1>2, <2>1
      <4>2. Peek(text, i + k) # AtEnd
        <5>1. CASE k = 0
          <6>1. i + k = i
            BY <5>1
          <6> QED
            BY <1>4, <6>1
        <5>2. CASE k # 0
          <6>1. k - 1 \in 0 .. (u - 1) - 1 /\ (i + 1) + (k - 1) = i + k
            BY <2>1, <5>2
          <6>2. Peek(text, i + k) \in 128 .. 191
            BY <1>7, <6>1 DEF Several, Run
          <6> QED
            BY <6>2 DEF AtEnd
        <5> QED
          BY <5>1, <5>2
      <4> QED
        BY <4>1, <4>2, Peeked
    <3>3. p + u - 1 \in Nat /\ i + u - 1 \in Nat /\ p + u - 1 <= Len(value) /\ i + u - 1 <= Len(text)
      <4>1. u - 1 \in 0 .. u - 1 /\ p + (u - 1) = p + u - 1 /\ i + (u - 1) = i + u - 1
        BY <2>1
      <4>2. p + (u - 1) \in 1 .. Len(value) /\ i + (u - 1) \in 1 .. Len(text)
        BY <3>2, <4>1
      <4>3. PICK m, n : m = Len(value) /\ n = Len(text) /\ m \in Nat /\ n \in Nat
        BY Joined
      <4> QED
        BY <2>1, <4>2, <4>3
    <3>4. /\ a \in Text /\ Len(a) = IF p <= p + u - 1 THEN (p + u - 1) - p + 1 ELSE 0
          /\ \A k \in 1 .. Len(a) : a[k] = value[p + k - 1]
      <4>1. p \in Nat \ {0}
        BY <1>5
      <4> QED
        BY <3>1, <3>3, <4>1, Stretch
    <3>5. /\ b \in Text /\ Len(b) = IF i <= i + u - 1 THEN (i + u - 1) - i + 1 ELSE 0
          /\ \A k \in 1 .. Len(b) : b[k] = text[i + k - 1]
      <4>1. i \in Nat \ {0}
        BY <1>1
      <4> QED
        BY <3>1, <3>3, <4>1, Stretch
    <3>6. Len(a) = u /\ Len(b) = u
      BY <2>1, <3>4, <3>5
    <3>7. ASSUME NEW k \in 1 .. u PROVE a[k] = b[k]
      <4>1. k - 1 \in 0 .. u - 1 /\ p + (k - 1) = p + k - 1 /\ i + (k - 1) = i + k - 1
        BY <2>1
      <4>2. value[p + (k - 1)] = text[i + (k - 1)]
        BY <3>2, <4>1
      <4> QED
        BY <3>4, <3>5, <3>6, <4>1, <4>2
    <3>8. a = b
      BY <3>4, <3>5, <3>6, <3>7, SameText
    <3> QED
      BY <3>1, <3>8
  <2>6. Utf8Piece(value, p) = Utf8Piece(text, i)
    BY <1>5, <2>1, <2>3, <2>4, <2>5 DEF Utf8Piece
  <2> QED
    BY <2>2, <2>6
<1>8. CASE Letter(text, i, u)
  <2>1. Peek(value, p + 1) = Peek(text, i + 1)
    BY <1>2, <1>8 DEF Letter
  <2>2. PieceAt(text, i) = EscapePiece(text, i) /\ PieceAt(value, p) = EscapePiece(value, p)
    BY <1>3, <1>8 DEF Letter, PieceAt, Backslash
  <2>3. Peek(text, i + 1) # 117
    BY <1>8 DEF Letter, Quote, Backslash, Slash, EscapeLetters
  <2>4. EscapePiece(text, i) = EscapePiece(value, p)
    BY <2>1, <2>3 DEF EscapePiece
  <2> QED
    BY <2>2, <2>4
<1>9. CASE Point(text, i, u) \/ Pair(text, i, u)
  <2>1. Opens(text, i) /\ u \in {6, 12}
    BY <1>9 DEF Point, Pair
  <2>2. Peek(value, p + 1) = Peek(text, i + 1)
    <3>1. 1 \in 0 .. u - 1
      BY <2>1
    <3> QED
      BY <1>2, <3>1
  <2>3. PieceAt(text, i) = UnicodePiece(text, i) /\ PieceAt(value, p) = UnicodePiece(value, p)
    BY <1>3, <2>1, <2>2 DEF Opens, PieceAt, Backslash, EscapePiece, Quote, Slash, EscapeLetters
  <2>4. CodeUnit(value, p + 2) = CodeUnit(text, i + 2)
    <3>1. 2 + 4 <= u /\ u \in Nat /\ p + 2 \in Nat /\ i + 2 \in Nat
      BY <2>1
    <3>2. Window(value, p + 2, text, i + 2, 4)
      BY <3>1, WindowPart
    <3> QED
      BY <3>1, <3>2, UnitKeptHere
  <2>5. CASE Point(text, i, u)
    <3>1. CodeUnit(text, i + 2) \notin HighSurrogates
      BY <2>5 DEF Point
    <3> QED
      BY <2>3, <2>4, <3>1 DEF UnicodePiece
  <2>6. CASE Pair(text, i, u)
    <3>1. u = 12
      BY <2>6 DEF Pair
    <3>2. CodeUnit(value, p + 8) = CodeUnit(text, i + 8)
      <4>1. 8 + 4 <= u /\ u \in Nat /\ p + 8 \in Nat /\ i + 8 \in Nat
        BY <3>1
      <4>2. Window(value, p + 8, text, i + 8, 4)
        BY <4>1, WindowPart
      <4> QED
        BY <4>1, <4>2, UnitKeptHere
    <3>3. Peek(value, p + 6) = Peek(text, i + 6) /\ Peek(value, p + 7) = Peek(text, i + 7)
      <4>1. 6 \in 0 .. u - 1 /\ 7 \in 0 .. u - 1
        BY <3>1
      <4> QED
        BY <1>2, <4>1
    <3>4. PICK first, second : first = CodeUnit(text, i + 2) /\ second = CodeUnit(text, i + 8)
      OBVIOUS
    <3>5. CodeUnit(value, p + 2) = first /\ CodeUnit(value, p + 8) = second
      BY <2>4, <3>2, <3>4
    <3>6. PICK more : more <=> /\ Peek(text, i + 6) = Backslash /\ Peek(text, i + 7) = 117
                               /\ second \in LowSurrogates
      OBVIOUS
    <3>7. first \in HighSurrogates /\ first \notin LowSurrogates \cup {NoUnit}
      <4>1. first \in HighSurrogates
        BY <2>6, <3>4 DEF Pair
      <4> QED
        BY <4>1, HalvesApart
    <3>8. UnicodePiece(text, i) =
              IF more THEN Piece(12, Utf8(65536 + 1024 * (first - 55296) + (second - 56320)))
              ELSE Refused
      BY <3>4, <3>6, <3>7 DEF UnicodePiece
    <3>9. UnicodePiece(value, p) =
              IF more THEN Piece(12, Utf8(65536 + 1024 * (first - 55296) + (second - 56320)))
              ELSE Refused
      BY <3>3, <3>5, <3>6, <3>7 DEF UnicodePiece
    <3> QED
      BY <2>3, <3>8, <3>9
  <2> QED
    BY <1>9, <2>5, <2>6
<1> QED
  BY <1>6, <1>7, <1>8, <1>9, Kinds

-----------------------------------------------------------------------------
(* Bytes that are neither quotes nor backslashes are passed over one by one. *)
LEMMA TokenAlong ==
    ASSUME NEW s \in Text, NEW i \in Nat, NEW n \in Nat, Run(s, i, n, Ordinary)
    PROVE  TokenEnd(s, i) = TokenEnd(s, i + n)
<1> DEFINE T == {m \in Nat : m <= n => TokenEnd(s, i) = TokenEnd(s, i + m)}
<1>1. 0 \in T
  <2>1. i + 0 = i
    OBVIOUS
  <2> QED
    BY <2>1
<1>2. ASSUME NEW m \in Nat, m \in T PROVE m + 1 \in T
  <2> SUFFICES ASSUME m + 1 <= n PROVE TokenEnd(s, i) = TokenEnd(s, i + (m + 1))
    OBVIOUS
  <2>1. TokenEnd(s, i) = TokenEnd(s, i + m)
    BY <1>2
  <2>2. m \in 0 .. n - 1
    OBVIOUS
  <2>3. Peek(s, i + m) \notin {AtEnd, Quote, Backslash}
    BY <2>2 DEF Run, Ordinary
  <2>4. i + m \in Nat /\ (i + m) + 1 = i + (m + 1)
    OBVIOUS
  <2>5. TokenEnd(s, i + m) = TokenEnd(s, (i + m) + 1)
    BY <2>3, <2>4, TokenEndAt
  <2> QED
    BY <2>1, <2>4, <2>5
<1> HIDE DEF T
<1>3. Nat \subseteq T
  BY <1>1, <1>2, Induct
<1> QED
  BY <1>3 DEF T

(* A run of bytes of a kind is one of every wider kind. *)
LEMMA RunWithin ==
    ASSUME NEW s, NEW i \in Nat, NEW n \in Nat, NEW S, NEW R, S \subseteq R, Run(s, i, n, S)
    PROVE  Run(s, i, n, R)
  BY DEF Run

(* A unicode escape holds no quote. *)
LEMMA OpensOver ==
    ASSUME NEW s \in Text, NEW i \in Nat, Opens(s, i)
    PROVE  TokenEnd(s, i) = TokenEnd(s, i + 6)
<1>1. i \in 1 .. Len(s) /\ i + 1 \in 1 .. Len(s)
  <2>1. Peek(s, i) # AtEnd /\ Peek(s, i + 1) # AtEnd
    BY DEF Opens, AtEnd, Backslash
  <2>2. i + 1 \in Nat
    OBVIOUS
  <2> QED
    BY <2>1, <2>2, Peeked
<1>2. i # Len(s)
  BY <1>1, Joined
<1>3. TokenEnd(s, i) = TokenEnd(s, i + 2)
  BY <1>2, TokenEndAt DEF Opens
<1>4. Run(s, i + 2, 4, Ordinary)
  <2>1. Hex \subseteq Ordinary
    BY HexByte
  <2>2. i + 2 \in Nat /\ 4 \in Nat
    OBVIOUS
  <2> QED
    BY <2>1, <2>2, RunWithin DEF Opens
<1>5. TokenEnd(s, i + 2) = TokenEnd(s, (i + 2) + 4)
  <2>1. i + 2 \in Nat /\ 4 \in Nat
    OBVIOUS
  <2> QED
    BY <1>4, <2>1, TokenAlong
<1>6. (i + 2) + 4 = i + 6
  OBVIOUS
<1> QED
  BY <1>3, <1>5, <1>6

(* The end of the token is looked for over whole pieces. *)
LEMMA TokenOver ==
    ASSUME NEW s \in Text, NEW i \in Nat, NEW u, Peek(s, i) # Quote,
           PieceAt(s, i) # Refused, PieceAt(s, i).used = u
    PROVE  TokenEnd(s, i) = TokenEnd(s, i + u)
<1>1. u \in Nat \ {0}
  BY PieceFits DEF Fits
<1>2. CASE Single(s, i, u) \/ Several(s, i, u)
  <2>1. Peek(s, i) \in Ordinary
    BY <1>2 DEF Single, Several, Simple, Ordinary, AtEnd, Quote, Backslash
  <2>2. ASSUME NEW k \in 0 .. u - 1 PROVE Peek(s, i + k) \in Ordinary
    <3>1. CASE k = 0
      BY <2>1, <3>1
    <3>2. CASE k # 0
      <4>1. u # 1
        BY <3>2
      <4>2. Run(s, i + 1, u - 1, 128 .. 191)
        BY <1>2, <4>1 DEF Single, Several
      <4>3. k - 1 \in 0 .. (u - 1) - 1 /\ (i + 1) + (k - 1) = i + k
        BY <1>1, <3>2
      <4>4. Peek(s, i + k) \in 128 .. 191
        BY <4>2, <4>3 DEF Run
      <4> QED
        BY <4>4 DEF Ordinary, AtEnd, Quote, Backslash
    <3> QED
      BY <3>1, <3>2
  <2>3. Run(s, i, u, Ordinary)
    BY <2>2 DEF Run
  <2> QED
    BY <1>1, <2>3, TokenAlong
<1>3. CASE Letter(s, i, u)
  <2>1. Peek(s, i + 1) # AtEnd /\ Peek(s, i) = Backslash /\ u = 2
    BY <1>3 DEF Letter, AtEnd, Quote, Backslash, Slash, EscapeLetters
  <2>2. i + 1 \in 1 .. Len(s)
    <3>1. i + 1 \in Nat
      OBVIOUS
    <3> QED
      BY <2>1, <3>1, Peeked
  <2>3. i # Len(s)
    BY <2>2, Joined
  <2> QED
    BY <2>1, <2>3, TokenEndAt
<1>4. CASE Point(s, i, u)
  BY <1>4, OpensOver DEF Point
<1>5. CASE Pair(s, i, u)
  <2>1. u = 12 /\ TokenEnd(s, i) = TokenEnd(s, i + 6)
    BY <1>5, OpensOver DEF Pair
  <2>2. i + 6 \in Nat /\ (i + 6) + 6 = i + 12
    OBVIOUS
  <2>3. TokenEnd(s, i + 6) = TokenEnd(s, (i + 6) + 6)
    BY <1>5, <2>2, OpensOver DEF Pair
  <2> QED
    BY <2>1, <2>2, <2>3
<1> QED
  BY <1>2, <1>3, <1>4, <1>5, Kinds

(* No piece holds the byte of a mask behind its first byte. *)
LEMMA LaterBytes ==
    ASSUME NEW s \in Text, NEW i \in Nat, NEW u, Peek(s, i) # Quote,
           PieceAt(s, i) # Refused, PieceAt(s, i).used = u, NEW k \in 1 .. u - 1
    PROVE  Peek(s, i + k) \notin {AtEnd, MaskByte}
<1>1. CASE Single(s, i, u)
  BY <1>1 DEF Single
<1>2. CASE Several(s, i, u)
  <2>1. u \in {2, 3, 4}
    BY <1>2 DEF Several, Utf8Length
  <2>2. k - 1 \in 0 .. (u - 1) - 1 /\ (i + 1) + (k - 1) = i + k
    BY <2>1
  <2>3. Peek(s, i + k) \in 128 .. 191
    BY <1>2, <2>2 DEF Several, Run
  <2> QED
    BY <2>3 DEF AtEnd, MaskByte
<1>3. CASE Letter(s, i, u)
  <2>1. k = 1
    BY <1>3 DEF Letter
  <2> QED
    BY <1>3, <2>1 DEF Letter, AtEnd, MaskByte, Quote, Backslash, Slash, EscapeLetters
<1>4. ASSUME NEW j \in Nat, Opens(s, j), NEW d \in 0 .. 5
      PROVE  Peek(s, j + d) \notin {AtEnd, MaskByte}
  <2>1. CASE d = 0
    <3>1. j + d = j
      BY <2>1
    <3> QED
      BY <1>4, <3>1 DEF Opens, AtEnd, MaskByte, Backslash
  <2>2. CASE d = 1
    BY <1>4, <2>2 DEF Opens, AtEnd, MaskByte
  <2>3. CASE d \in 2 .. 5
    <3>1. d - 2 \in 0 .. 4 - 1 /\ (j + 2) + (d - 2) = j + d
      BY <2>3
    <3>2. Peek(s, j + d) \in Hex
      BY <1>4, <3>1 DEF Opens, Run
    <3> QED
      BY <3>2, HexByte DEF Ordinary
  <2> QED
    BY <2>1, <2>2, <2>3
<1>5. CASE Point(s, i, u)
  <2>1. k \in 0 .. 5
    BY <1>5 DEF Point
  <2> QED
    BY <1>4, <1>5, <2>1 DEF Point
<1>6. CASE Pair(s, i, u)
  <2>1. CASE k \in 0 .. 5
    BY <1>4, <1>6, <2>1 DEF Pair
  <2>2. CASE k \notin 0 .. 5
    <3>1. k - 6 \in 0 .. 5 /\ i + 6 \in Nat /\ (i + 6) + (k - 6) = i + k
      BY <1>6, <2>2 DEF Pair
    <3>2. Peek(s, (i + 6) + (k - 6)) \notin {AtEnd, MaskByte}
      BY <1>4, <1>6, <3>1 DEF Pair
    <3> QED
      BY <3>1, <3>2
  <2> QED
    BY <2>1, <2>2
<1> QED
  BY <1>1, <1>2, <1>3, <1>5, <1>6, Kinds

-----------------------------------------------------------------------------
(* The end that TokenEnd finds is the quote that ParseString ends at. *)
SpanOf(s, i) ==
    ParseString(s, i).next # 0 =>
        /\ TokenEnd(s, i) = ParseString(s, i).next - 1
        /\ Peek(s, ParseString(s, i).next - 1) = Quote

(* Where ParseString returns, TokenEnd has stopped at its closing quote. *)
LEMMA TokenSpan ==
    ASSUME NEW s \in Text
    PROVE  \A i \in Nat : SpanOf(s, i)
<1> DEFINE T == {i \in Nat : SpanOf(s, i)}
<1>1. PICK N : N = Len(s) /\ N \in Nat
  BY Joined
<1>2. ASSUME NEW i \in Nat, i <= N => \A k \in Nat : k > i => k \in T PROVE SpanOf(s, i)
  <2>1. CASE Peek(s, i) = Quote
    <3>1. ParseString(s, i).next = i + 1
      BY <2>1, ReadAt DEF Ends
    <3>2. TokenEnd(s, i) = i
      BY <2>1, TokenEndAt
    <3>3. (i + 1) - 1 = i
      OBVIOUS
    <3> QED
      BY <2>1, <3>1, <3>2, <3>3 DEF SpanOf
  <2>2. CASE Peek(s, i) # Quote /\ PieceAt(s, i) = Refused
    <3>1. ParseString(s, i).next = 0
      BY <2>2, ReadAt DEF Ends
    <3> QED
      BY <3>1 DEF SpanOf
  <2>3. CASE Peek(s, i) # Quote /\ PieceAt(s, i) # Refused
    <3>1. PICK u, bytes : u = PieceAt(s, i).used /\ bytes = PieceAt(s, i).bytes
      OBVIOUS
    <3>2. /\ ParseString(s, i).next = ParseString(s, i + u).next
          /\ ParseString(s, i).text = bytes \o ParseString(s, i + u).text
          /\ bytes \in Text /\ ParseString(s, i + u).text \in Text
          /\ u \in Nat \ {0} /\ i \in 1 .. Len(s) /\ ParseString(s, i + u).next \in Nat
      BY <2>3, <3>1, ReadBehind, ZenonT(40)
    <3>3. TokenEnd(s, i) = TokenEnd(s, i + u)
      BY <2>3, <3>1, TokenOver
    <3>4. i <= N /\ i + u \in Nat /\ i + u > i
      BY <1>1, <3>2
    <3>5. SpanOf(s, i + u)
      BY <1>2, <3>4
    <3> QED
      BY <3>2, <3>3, <3>5 DEF SpanOf
  <2> QED
    BY <2>1, <2>2, <2>3
<1>3. Nat \subseteq T
  <2>1. \A i \in Nat : (i <= N => \A k \in Nat : k > i => k \in T) => i \in T
    BY <1>2
  <2> HIDE DEF T
  <2> QED
    BY <1>1, <2>1, Backwards
<1> QED
  BY <1>3

-----------------------------------------------------------------------------
(* What joins two texts has the bytes of the one and then of the other. *)
LEMMA JoinedAt ==
    ASSUME NEW s \in Text, NEW t \in Text, NEW n, n = Len(s), NEW m, m = Len(t),
           NEW j, j = s \o t
    PROVE  /\ \A k \in 1 .. n : j[k] = s[k]
           /\ \A k \in n + 1 .. n + m : j[k] = t[k - n]
BY DEF Text

(* Three texts are joined from either side. *)
LEMMA JoinedTwice ==
    ASSUME NEW a \in Text, NEW b \in Text, NEW c \in Text
    PROVE  (a \o b) \o c = a \o (b \o c)
<1>1. PICK l, m, n : l = Len(a) /\ m = Len(b) /\ n = Len(c)
  OBVIOUS
<1>2. PICK ab, bc : ab = a \o b /\ bc = b \o c
  OBVIOUS
<1>3. /\ ab \in Text /\ bc \in Text /\ Len(ab) = l + m /\ Len(bc) = m + n
      /\ l \in Nat /\ m \in Nat /\ n \in Nat
  BY <1>1, <1>2, Joined
<1>4. PICK x, y : x = ab \o c /\ y = a \o bc
  OBVIOUS
<1>5. x \in Text /\ y \in Text /\ Len(x) = (l + m) + n /\ Len(y) = l + (m + n)
  <2>1. x \in Text /\ Len(x) = Len(ab) + Len(c)
    BY <1>3, <1>4, Joined
  <2>2. y \in Text /\ Len(y) = Len(a) + Len(bc)
    BY <1>3, <1>4, Joined
  <2> QED
    BY <1>1, <1>3, <2>1, <2>2
<1>6. /\ \A k \in 1 .. l : ab[k] = a[k]
      /\ \A k \in l + 1 .. l + m : ab[k] = b[k - l]
  BY <1>1, <1>2, JoinedAt
<1>7. /\ \A k \in 1 .. m : bc[k] = b[k]
      /\ \A k \in m + 1 .. m + n : bc[k] = c[k - m]
  BY <1>1, <1>2, JoinedAt
<1>8. /\ \A k \in 1 .. l + m : x[k] = ab[k]
      /\ \A k \in (l + m) + 1 .. (l + m) + n : x[k] = c[k - (l + m)]
  BY <1>1, <1>3, <1>4, JoinedAt
<1>9. /\ \A k \in 1 .. l : y[k] = a[k]
      /\ \A k \in l + 1 .. l + (m + n) : y[k] = bc[k - l]
  BY <1>1, <1>3, <1>4, JoinedAt
<1>10. ASSUME NEW k \in 1 .. Len(y) PROVE x[k] = y[k]
  <2>1. CASE k <= l
    <3>1. k \in 1 .. l /\ k \in 1 .. l + m
      BY <1>3, <2>1
    <3> QED
      BY <1>6, <1>8, <1>9, <3>1
  <2>2. CASE k > l /\ k <= l + m
    <3>1. k \in l + 1 .. l + m /\ k \in 1 .. l + m /\ k - l \in 1 .. m /\ k \in l + 1 .. l + (m + n)
      BY <1>3, <2>2
    <3> QED
      BY <1>6, <1>7, <1>8, <1>9, <3>1
  <2>3. CASE k > l + m
    <3>1. /\ k \in (l + m) + 1 .. (l + m) + n /\ k \in l + 1 .. l + (m + n)
          /\ k - l \in m + 1 .. m + n /\ (k - l) - m = k - (l + m)
      BY <1>3, <1>5, <2>3
    <3> QED
      BY <1>7, <1>8, <1>9, <3>1
  <2> QED
    BY <1>3, <1>5, <2>1, <2>2, <2>3
<1>11. Len(x) = Len(y)
  BY <1>3, <1>5
<1>12. x = y
  BY <1>5, <1>10, <1>11, SameText
<1> QED
  BY <1>2, <1>4, <1>12

(* Two stretches next to each other are one. *)
LEMMA StretchesJoined ==
    ASSUME NEW s \in Text, NEW i \in Nat \ {0}, NEW m \in Nat, NEW n \in Nat,
           i <= m + 1, m <= n, n <= Len(s)
    PROVE  SubSeq(s, i, m) \o SubSeq(s, m + 1, n) = SubSeq(s, i, n)
<1>1. PICK a, b, c : a = SubSeq(s, i, m) /\ b = SubSeq(s, m + 1, n) /\ c = SubSeq(s, i, n)
  OBVIOUS
<1>2. PICK N : N = Len(s) /\ N \in Nat
  BY Joined
<1>3. /\ a \in Text /\ Len(a) = (m - i) + 1
      /\ \A k \in 1 .. Len(a) : a[k] = s[i + k - 1]
  <2>1. m <= Len(s)
    BY <1>2
  <2>2. a \in Text /\ Len(a) = (IF i <= m THEN m - i + 1 ELSE 0)
        /\ \A k \in 1 .. Len(a) : a[k] = s[i + k - 1]
    BY <1>1, <2>1, Stretch
  <2> QED
    BY <2>2
<1>4. /\ b \in Text /\ Len(b) = n - m
      /\ \A k \in 1 .. Len(b) : b[k] = s[(m + 1) + k - 1]
  <2>1. m + 1 \in Nat \ {0}
    OBVIOUS
  <2>2. b \in Text /\ Len(b) = (IF m + 1 <= n THEN n - (m + 1) + 1 ELSE 0)
        /\ \A k \in 1 .. Len(b) : b[k] = s[(m + 1) + k - 1]
    BY <1>1, <2>1, Stretch
  <2> QED
    BY <2>2
<1>5. /\ c \in Text /\ Len(c) = (n - i) + 1
      /\ \A k \in 1 .. Len(c) : c[k] = s[i + k - 1]
  <2>1. c \in Text /\ Len(c) = (IF i <= n THEN n - i + 1 ELSE 0)
        /\ \A k \in 1 .. Len(c) : c[k] = s[i + k - 1]
    BY <1>1, Stretch
  <2> QED
    BY <2>1
<1>6. PICK x, l : x = a \o b /\ l = Len(a)
  OBVIOUS
<1>7. x \in Text /\ l \in Nat /\ Len(x) = l + (n - m) /\ l = (m - i) + 1
  BY <1>3, <1>4, <1>6, Joined
<1>8. /\ \A k \in 1 .. l : x[k] = a[k]
      /\ \A k \in l + 1 .. l + (n - m) : x[k] = b[k - l]
  <2>1. PICK d : d = n - m
    OBVIOUS
  <2>2. a \in Text /\ b \in Text /\ Len(a) = l /\ Len(b) = d
    BY <1>3, <1>4, <1>6, <2>1
  <2>3. /\ \A k \in 1 .. l : x[k] = a[k]
        /\ \A k \in l + 1 .. l + d : x[k] = b[k - l]
    BY <1>6, <2>2 DEF Text
  <2> QED
    BY <2>1, <2>3
<1>9. ASSUME NEW k \in 1 .. Len(c) PROVE x[k] = c[k]
  <2>1. c[k] = s[i + k - 1]
    BY <1>5
  <2>2. CASE k <= l
    <3>1. k \in 1 .. l
      BY <1>5, <1>7, <2>2
    <3> QED
      BY <1>3, <1>6, <1>8, <2>1, <3>1
  <2>3. CASE k > l
    <3>1. k \in l + 1 .. l + (n - m) /\ k - l \in 1 .. Len(b) /\ (m + 1) + (k - l) - 1 = i + k - 1
      BY <1>4, <1>5, <1>7, <2>3
    <3> QED
      BY <1>4, <1>8, <2>1, <3>1
  <2> QED
    BY <1>5, <1>7, <2>2, <2>3
<1>10. Len(x) = Len(c)
  BY <1>5, <1>7
<1>11. x = c
  BY <1>5, <1>7, <1>9, <1>10, SameText
<1> QED
  BY <1>1, <1>6, <1>11

-----------------------------------------------------------------------------
(* A string without escapes is handed out as it is. *)
RawFrom(s, i) ==
    LET n == ParseString(s, i).next
    IN  n # 0 /\ (\A m \in i .. n - 1 : Peek(s, m) # Backslash)
            => ParseString(s, i).text = SubSeq(s, i, n - 2)

(* It is so from every place on, by induction from the end of the text. *)
LEMMA RawToken ==
    ASSUME NEW s \in Text
    PROVE  \A i \in Nat : RawFrom(s, i)
<1> DEFINE T == {i \in Nat : RawFrom(s, i)}
<1>1. PICK N : N = Len(s) /\ N \in Nat
  BY Joined
<1>2. ASSUME NEW i \in Nat, i <= N => \A k \in Nat : k > i => k \in T PROVE RawFrom(s, i)
  <2>1. PICK n : n = ParseString(s, i).next
    OBVIOUS
  <2> SUFFICES ASSUME n # 0, \A m \in i .. n - 1 : Peek(s, m) # Backslash
               PROVE  ParseString(s, i).text = SubSeq(s, i, n - 2)
    BY <2>1 DEF RawFrom
  <2>2. n \in Nat /\ n > i /\ n <= N + 1
    BY <1>1, <2>1, StringRead
  <2>3. CASE Peek(s, i) = Quote
    <3>1. ParseString(s, i).text = <<>> /\ n = i + 1
      BY <2>1, <2>3, ReadAt DEF Ends
    <3>2. SubSeq(s, i, n - 2) = <<>>
      <4>1. i \in 1 .. N
        BY <1>1, <2>3, Peeked DEF Quote, AtEnd
      <4>2. n - 2 \in Nat /\ n - 2 <= Len(s) /\ ~(i <= n - 2) /\ i \in Nat \ {0}
        BY <1>1, <3>1, <4>1
      <4>3. SubSeq(s, i, n - 2) \in Text /\ Len(SubSeq(s, i, n - 2)) = 0
        BY <4>2, Stretch
      <4> QED
        BY <4>3 DEF Text
    <3> QED
      BY <3>1, <3>2
  <2>4. CASE Peek(s, i) # Quote /\ PieceAt(s, i) = Refused
    <3>1. n = 0
      BY <2>1, <2>4, ReadAt DEF Ends
    <3> QED
      BY <3>1
  <2>5. CASE Peek(s, i) # Quote /\ PieceAt(s, i) # Refused
    <3>1. PICK u, bytes : u = PieceAt(s, i).used /\ bytes = PieceAt(s, i).bytes
      OBVIOUS
    <3>2. /\ ParseString(s, i).next = ParseString(s, i + u).next
          /\ ParseString(s, i).text = bytes \o ParseString(s, i + u).text
          /\ bytes \in Text /\ ParseString(s, i + u).text \in Text
          /\ u \in Nat \ {0} /\ i \in 1 .. Len(s) /\ ParseString(s, i + u).next \in Nat
      BY <2>5, <3>1, ReadBehind, ZenonT(40)
    <3>3. Peek(s, i) # Backslash
      BY <2>2
    <3>4. Raw(s, i, u)
      <4>1. ~Letter(s, i, u) /\ ~Point(s, i, u) /\ ~Pair(s, i, u)
        BY <3>3 DEF Letter, Point, Pair, Opens
      <4> QED
        BY <2>5, <3>1, <4>1, Kinds
    <3>5. bytes = SubSeq(s, i, i + u - 1)
      <4>1. PICK t : t = SubSeq(s, i, i + u - 1)
        OBVIOUS
      <4>2. PieceAt(s, i) = Piece(u, t)
        BY <3>4, <4>1 DEF Raw
      <4>3. Piece(u, t).bytes = t
        BY DEF Piece
      <4> QED
        BY <3>1, <4>1, <4>2, <4>3
    <3>6. i <= N /\ i + u \in Nat /\ i + u > i
      BY <1>1, <3>2
    <3>7. RawFrom(s, i + u)
      BY <1>2, <3>6
    <3>8. n > i + u
      BY <2>1, <3>2, <3>6, StringRead
    <3>9. ParseString(s, i + u).text = SubSeq(s, i + u, n - 2)
      <4>1. \A m \in i + u .. n - 1 : m \in i .. n - 1
        BY <2>2, <3>2
      <4> QED
        BY <2>1, <3>2, <3>7, <4>1 DEF RawFrom
    <3>10. PICK m : m = i + u - 1
      OBVIOUS
    <3>11. m \in Nat /\ n - 2 \in Nat /\ i <= m + 1 /\ m <= n - 2 /\ n - 2 <= Len(s) /\ i \in Nat \ {0}
           /\ m + 1 = i + u
      BY <1>1, <2>2, <3>2, <3>8, <3>10
    <3>12. SubSeq(s, i, m) \o SubSeq(s, m + 1, n - 2) = SubSeq(s, i, n - 2)
      BY <3>11, StretchesJoined
    <3> QED
      BY <3>2, <3>5, <3>9, <3>10, <3>11, <3>12
  <2> QED
    BY <2>3, <2>4, <2>5
<1>3. Nat \subseteq T
  <2>1. \A i \in Nat : (i <= N => \A k \in Nat : k > i => k \in T) => i \in T
    BY <1>2
  <2> HIDE DEF T
  <2> QED
    BY <1>1, <2>1, Backwards
<1> QED
  BY <1>3

-----------------------------------------------------------------------------
(* Bytes that are pieces of their own are read one by one. *)
Spelled(s, i, n, front) ==
    front \in Text /\ Len(front) = n /\ \A k \in 1 .. n : front[k] = s[i + k - 1]
Skips(s, i, n) ==
    /\ ParseString(s, i).next = ParseString(s, i + n).next
    /\ \E front : /\ Spelled(s, i, n, front)
                  /\ ParseString(s, i).text = front \o ParseString(s, i + n).text

(* A printable byte other than the quote and the backslash stands for itself. *)
LEMMA SimplePiece ==
    ASSUME NEW s \in Text, NEW i \in Nat, Peek(s, i) \in Simple
    PROVE  PieceAt(s, i) = Piece(1, <<s[i]>>) /\ PieceAt(s, i) # Refused /\ s[i] \in Int
<1>1. PICK byte : byte = Peek(s, i)
  OBVIOUS
<1>2. byte \in Int /\ ~(byte < 32) /\ ~(byte >= 128) /\ byte # Backslash /\ byte # AtEnd
  BY <1>1 DEF Simple, AtEnd
<1>3. PieceAt(s, i) = Piece(1, <<s[i]>>)
  BY <1>1, <1>2 DEF PieceAt
<1>4. PieceAt(s, i).used = 1 /\ Refused.used = 0
  BY <1>3 DEF Piece, Refused
<1>5. s[i] = byte
  BY <1>1, <1>2, Peeked
<1> QED
  BY <1>2, <1>3, <1>4, <1>5

(* And a run of such bytes for themselves. *)
LEMMA PlainRun ==
    ASSUME NEW s \in Text
    PROVE  \A n \in Nat : \A i \in Nat : Run(s, i, n, Simple) => Skips(s, i, n)
<1> DEFINE T == {n \in Nat : \A i \in Nat : Run(s, i, n, Simple) => Skips(s, i, n)}
<1>1. 0 \in T
  <2> SUFFICES ASSUME NEW i \in Nat PROVE Skips(s, i, 0)
    OBVIOUS
  <2>1. Spelled(s, i, 0, <<>>)
    BY DEF Spelled, Text
  <2>2. PICK t : t = ParseString(s, i).text
    OBVIOUS
  <2>3. t \in Text
    BY <2>2, StringRead
  <2>4. t = <<>> \o t
    BY <2>3 DEF Text
  <2>5. i + 0 = i
    OBVIOUS
  <2> QED
    BY <2>1, <2>2, <2>4, <2>5 DEF Skips
<1>2. ASSUME NEW n \in Nat, n \in T PROVE n + 1 \in T
  <2> SUFFICES ASSUME NEW i \in Nat, Run(s, i, n + 1, Simple) PROVE Skips(s, i, n + 1)
    OBVIOUS
  <2>1. \A k \in 0 .. n : Peek(s, i + k) \in Simple
    BY DEF Run
  <2>2. Peek(s, i) \in Simple
    <3>1. 0 \in 0 .. n /\ i + 0 = i
      OBVIOUS
    <3> QED
      BY <2>1, <3>1
  <2>3. PICK bytes : bytes = <<s[i]>>
    OBVIOUS
  <2>4. /\ Peek(s, i) # Quote /\ PieceAt(s, i) # Refused /\ s[i] \in Int
        /\ PieceAt(s, i).used = 1 /\ PieceAt(s, i).bytes = bytes
    BY <2>2, <2>3, SimplePiece DEF Simple, Piece
  <2>5. /\ ParseString(s, i).next = ParseString(s, i + 1).next
        /\ ParseString(s, i).text = bytes \o ParseString(s, i + 1).text
        /\ bytes \in Text /\ ParseString(s, i + 1).text \in Text
        /\ 1 \in Nat \ {0} /\ i \in 1 .. Len(s) /\ ParseString(s, i + 1).next \in Nat
    BY <2>4, ReadBehind, ZenonT(40)
  <2>6. Run(s, i + 1, n, Simple)
    <3>1. ASSUME NEW k \in 0 .. n - 1 PROVE Peek(s, (i + 1) + k) \in Simple
      <4>1. k + 1 \in 0 .. n /\ i + (k + 1) = (i + 1) + k
        OBVIOUS
      <4>2. Peek(s, i + (k + 1)) \in Simple
        BY <2>1, <4>1
      <4> QED
        BY <4>1, <4>2
    <3> QED
      BY <3>1 DEF Run
  <2>7. Skips(s, i + 1, n)
    BY <1>2, <2>6
  <2>8. PICK front : /\ Spelled(s, i + 1, n, front)
                     /\ ParseString(s, i + 1).text = front \o ParseString(s, (i + 1) + n).text
    BY <2>7 DEF Skips
  <2>9. PICK t : t = ParseString(s, (i + 1) + n).text
    OBVIOUS
  <2>10. t \in Text /\ front \in Text /\ bytes \in Text /\ Len(bytes) = 1 /\ bytes[1] = s[i]
    <3>1. (i + 1) + n \in Nat
      OBVIOUS
    <3>2. t \in Text
      BY <2>9, <3>1, StringRead
    <3>3. bytes \in Text /\ Len(bytes) = 1 /\ bytes[1] = s[i]
      BY <2>3, <2>4 DEF Text
    <3> QED
      BY <2>8, <3>2, <3>3 DEF Spelled
  <2>11. PICK more : more = bytes \o front
    OBVIOUS
  <2>12. more \in Text /\ Len(more) = n + 1
    <3>1. Len(front) = n
      BY <2>8 DEF Spelled
    <3>2. more \in Text /\ Len(more) = Len(bytes) + Len(front)
      BY <2>10, <2>11, Joined
    <3> QED
      BY <2>10, <3>1, <3>2
  <2>13. ASSUME NEW k \in 1 .. n + 1 PROVE more[k] = s[i + k - 1]
    <3>1. Len(front) = n /\ \A m \in 1 .. n : front[m] = s[(i + 1) + m - 1]
      BY <2>8 DEF Spelled
    <3>2. more[1] = s[i] /\ \A m \in 1 .. n : more[m + 1] = front[m]
      <4>1. PICK x : x = s[i] /\ x \in Int
        BY <2>4
      <4>2. front \in Seq(Int) /\ more = <<x>> \o front
        BY <2>3, <2>10, <2>11, <4>1 DEF Text
      <4>3. (<<x>> \o front)[1] = x /\ \A m \in 1 .. Len(front) : (<<x>> \o front)[m + 1] = front[m]
        BY <4>1, <4>2
      <4> QED
        BY <3>1, <4>1, <4>2, <4>3
    <3>3. CASE k = 1
      <4>1. i + 1 - 1 = i
        OBVIOUS
      <4> QED
        BY <2>10, <3>2, <3>3, <4>1
    <3>4. CASE k # 1
      <4>1. k - 1 \in 1 .. n /\ (k - 1) + 1 = k /\ (i + 1) + (k - 1) - 1 = i + k - 1
        BY <3>4
      <4>2. more[(k - 1) + 1] = front[k - 1] /\ front[k - 1] = s[(i + 1) + (k - 1) - 1]
        BY <3>1, <3>2, <4>1
      <4> QED
        BY <4>1, <4>2
    <3> QED
      BY <3>3, <3>4
  <2>14. Spelled(s, i, n + 1, more)
    BY <2>12, <2>13 DEF Spelled
  <2>15. more \o t = bytes \o (front \o t)
    BY <2>10, <2>11, JoinedTwice
  <2>16. ParseString(s, i).text = more \o t
    BY <2>5, <2>8, <2>9, <2>15
  <2>17. ParseString(s, i).next = ParseString(s, (i + 1) + n).next
    BY <2>5, <2>7 DEF Skips
  <2>18. (i + 1) + n = i + (n + 1)
    OBVIOUS
  <2> QED
    BY <2>9, <2>14, <2>16, <2>17, <2>18 DEF Skips
<1> HIDE DEF T
<1>3. Nat \subseteq T
  BY <1>1, <1>2, Induct
<1> QED
  BY <1>3 DEF T

(* What holds a key holds it with bytes in front as well. *)
LEMMA IncludesBehind ==
    ASSUME NEW front \in Text, NEW t \in Text, NEW secret \in Text, secret # <<>>
    PROVE  /\ Includes(t, secret) => Includes(front \o t, secret)
           /\ front = secret => Includes(front \o t, secret)
<1>1. PICK x, l, m, n : x = front \o t /\ l = Len(front) /\ m = Len(t) /\ n = Len(secret)
  OBVIOUS
<1>2. x \in Text /\ Len(x) = l + m /\ l \in Nat /\ m \in Nat /\ n \in Nat /\ n # 0
  <2>1. n # 0
    BY <1>1 DEF Text
  <2> QED
    BY <1>1, <2>1, Joined
<1>3. /\ \A k \in 1 .. l : x[k] = front[k]
      /\ \A k \in l + 1 .. l + m : x[k] = t[k - l]
  BY <1>1 DEF Text
<1>4. ASSUME NEW i \in 1 .. Len(t), OccursAt(t, secret, i) PROVE Includes(x, secret)
  <2>1. i \in Nat \ {0} /\ l + i \in Nat \ {0}
    BY <1>2
  <2>2. i + n - 1 <= m /\ \A k \in 1 .. n : t[i + k - 1] = secret[k]
    BY <1>1, <1>4, <2>1, OccursByByte
  <2>3. ASSUME NEW k \in 1 .. n PROVE x[(l + i) + k - 1] = secret[k]
    <3>1. PICK q : q = (l + i) + k - 1
      OBVIOUS
    <3>2. q \in l + 1 .. l + m /\ q - l = i + k - 1
      BY <1>1, <1>2, <2>2, <3>1
    <3>3. x[q] = t[q - l]
      BY <1>3, <3>2
    <3> QED
      BY <2>2, <3>1, <3>2, <3>3
  <2>4. (l + i) + n - 1 <= Len(x) /\ l + i \in 1 .. Len(x)
    BY <1>1, <1>2, <2>2
  <2>5. OccursAt(x, secret, l + i)
    BY <1>1, <1>2, <2>1, <2>3, <2>4, OccursByByte
  <2>6. ~Free(x, secret)
    BY <2>4, <2>5 DEF Free
  <2> QED
    BY <1>2, <2>6, FreeOf
<1>5. Includes(t, secret) => Includes(x, secret)
  <2>1. Includes(t, secret) => \E i \in 1 .. Len(t) : OccursAt(t, secret, i)
    BY FreeOf DEF Free
  <2> QED
    BY <1>4, <2>1
<1>6. ASSUME front = secret PROVE Includes(x, secret)
  <2>1. l = n /\ 1 \in 1 .. Len(x) /\ 1 + n - 1 <= Len(x) /\ 1 \in Nat \ {0}
    BY <1>1, <1>2, <1>6
  <2>2. ASSUME NEW k \in 1 .. n PROVE x[1 + k - 1] = secret[k]
    <3>1. 1 + k - 1 = k /\ k \in 1 .. l
      BY <2>1
    <3> QED
      BY <1>3, <1>6, <3>1
  <2>3. OccursAt(x, secret, 1)
    BY <1>1, <1>2, <2>1, <2>2, OccursByByte
  <2>4. ~Free(x, secret)
    BY <2>1, <2>3 DEF Free
  <2> QED
    BY <1>2, <2>4, FreeOf
<1> QED
  BY <1>1, <1>5, <1>6

-----------------------------------------------------------------------------
(* w says of the places of a masked text where in the value they come from, in
   their order: a byte that was kept, or the first byte of a mask and that of the
   key it stands for.  The other bytes of a mask come from nowhere.        *)
Copied(value, text, w, j) ==
    w[j] \in 1 .. Len(value) /\ text[j] = value[w[j]] /\ w[j + 1] = w[j] + 1
Masked(value, secret, text, w, j) ==
    /\ j + MaskLen - 1 <= Len(text) /\ \A k \in 0 .. MaskLen - 1 : text[j + k] = MaskByte
    /\ w[j] \in 1 .. Len(value) /\ OccursAt(value, secret, w[j])
    /\ w[j + MaskLen] = w[j] + Len(secret)
Follows(value, secret, text, w) ==
    /\ w \in [1 .. Len(text) + 1 -> Nat]
    /\ \A j \in 1 .. Len(text) :
           w[j] # 0 => Copied(value, text, w, j) \/ Masked(value, secret, text, w, j)

(* What is no byte of the mask is copied. *)
LEMMA CopiedAt ==
    ASSUME NEW value \in Text, NEW secret, NEW text \in Text, NEW w,
           Follows(value, secret, text, w), NEW j \in 1 .. Len(text), w[j] # 0, text[j] # MaskByte
    PROVE  Copied(value, text, w, j) /\ w[j] \in Nat
<1>1. w[j] \in Nat
  <2>1. j \in 1 .. Len(text) + 1
    BY Joined
  <2> QED
    BY <2>1 DEF Follows
<1>2. ~Masked(value, secret, text, w, j)
  <2>1. 0 \in 0 .. MaskLen - 1 /\ j + 0 = j
    BY MaskAssumption
  <2> QED
    BY <2>1 DEF Masked
<1> QED
  BY <1>1, <1>2 DEF Follows

(* Where no mask begins the bytes are those of the value. *)
LEMMA CopiedRun ==
    ASSUME NEW value \in Text, NEW secret, NEW text \in Text, NEW w,
           Follows(value, secret, text, w), NEW i \in 1 .. Len(text), NEW u \in Nat \ {0},
           i + u - 1 <= Len(text), Copied(value, text, w, i),
           \A k \in 1 .. u - 1 : text[i + k] # MaskByte
    PROVE  /\ Window(value, w[i], text, i, u) /\ w[i + u] = w[i] + u
           /\ w[i] \in Nat \ {0} /\ w[i] + u - 1 <= Len(value)
<1>1. PICK p : p = w[i] /\ p \in 1 .. Len(value)
  BY DEF Copied
<1>2. PICK N, M : N = Len(text) /\ M = Len(value) /\ N \in Nat /\ M \in Nat
  BY Joined
<1> DEFINE Step(k) == /\ w[i + k] = p + k
                      /\ k < u => Copied(value, text, w, i + k)
           T == {k \in Nat : k <= u => Step(k)}
<1>3. 0 \in T
  <2>1. i + 0 = i /\ p + 0 = p
    BY <1>1, <1>2
  <2> QED
    BY <1>1, <2>1
<1>4. ASSUME NEW k \in Nat, k \in T PROVE k + 1 \in T
  <2> SUFFICES ASSUME k + 1 <= u PROVE Step(k + 1)
    OBVIOUS
  <2>1. w[i + k] = p + k /\ Copied(value, text, w, i + k)
    BY <1>4
  <2>2. (i + k) + 1 = i + (k + 1) /\ (p + k) + 1 = p + (k + 1)
    BY <1>1, <1>2
  <2>3. w[i + (k + 1)] = p + (k + 1)
    <3>1. w[(i + k) + 1] = w[i + k] + 1
      BY <2>1 DEF Copied
    <3> QED
      BY <2>1, <2>2, <3>1
  <2>4. ASSUME k + 1 < u PROVE Copied(value, text, w, i + (k + 1))
    <3>1. k + 1 \in 1 .. u - 1 /\ i + (k + 1) \in 1 .. Len(text) /\ p + (k + 1) # 0
      BY <1>1, <1>2, <2>4
    <3>2. text[i + (k + 1)] # MaskByte /\ w[i + (k + 1)] # 0
      BY <2>3, <3>1
    <3> QED
      BY <3>1, <3>2, CopiedAt
  <2> QED
    BY <2>3, <2>4
<1>5. Nat \subseteq T
  <2> HIDE DEF T
  <2> QED
    BY <1>3, <1>4, Induct
<1>6. \A k \in Nat : k <= u => Step(k)
  BY <1>5
<1> HIDE DEF Step
<1>7. ASSUME NEW k \in 0 .. u - 1
      PROVE  /\ p + k \in 1 .. M /\ i + k \in 1 .. N /\ text[i + k] = value[p + k]
             /\ Peek(value, p + k) = Peek(text, i + k)
  <2>1. k \in Nat /\ k <= u /\ k < u
    OBVIOUS
  <2>2. w[i + k] = p + k /\ Copied(value, text, w, i + k)
    BY <1>6, <2>1 DEF Step
  <2>3. p + k \in 1 .. M /\ text[i + k] = value[p + k]
    BY <1>2, <2>2 DEF Copied
  <2>4. i + k \in 1 .. N
    BY <1>2
  <2>5. DOMAIN value = 1 .. M /\ DOMAIN text = 1 .. N
    BY <1>2 DEF Text
  <2> QED
    BY <2>3, <2>4, <2>5 DEF Peek
<1>8. Window(value, p, text, i, u)
  BY <1>7 DEF Window
<1>9. w[i + u] = p + u
  BY <1>6 DEF Step
<1>10. p + u - 1 <= M
  <2>1. u - 1 \in 0 .. u - 1 /\ p + (u - 1) = p + u - 1
    BY <1>1, <1>2
  <2>2. p + (u - 1) \in 1 .. M
    BY <1>7, <2>1
  <2> QED
    BY <2>1, <2>2
<1> QED
  BY <1>1, <1>2, <1>8, <1>9, <1>10

(* The bytes of a mask are read one by one, and so are those of a plain key. *)
LEMMA MaskRun ==
    ASSUME NEW value \in Text, NEW secret, NEW text \in Text, NEW w, NEW j \in 1 .. Len(text),
           Masked(value, secret, text, w, j)
    PROVE  Run(text, j, MaskLen, Simple)
<1>1. ASSUME NEW k \in 0 .. MaskLen - 1 PROVE Peek(text, j + k) \in Simple
  <2>1. text[j + k] = MaskByte
    BY DEF Masked
  <2>2. j + k \in 1 .. Len(text)
    <3>1. PICK n : n = Len(text) /\ n \in Nat
      BY Joined
    <3> QED
      BY <3>1, MaskAssumption DEF Masked
  <2>3. DOMAIN text = 1 .. Len(text)
    BY DEF Text
  <2>4. Peek(text, j + k) = MaskByte
    BY <2>1, <2>2, <2>3 DEF Peek
  <2> QED
    BY <2>4 DEF Simple, MaskByte, Quote, Backslash
<1> QED
  BY <1>1 DEF Run

(* Where the key occurs there is a run of bytes that stand for themselves. *)
LEMMA KeyRun ==
    ASSUME NEW value \in Text, NEW secret \in Text, secret # <<>>, Plain(secret),
           NEW p \in 1 .. Len(value), OccursAt(value, secret, p)
    PROVE  /\ Run(value, p, Len(secret), Simple)
           /\ \A front : Spelled(value, p, Len(secret), front) => front = secret
<1>1. PICK n : n = Len(secret) /\ n \in Nat
  BY Joined
<1>2. /\ p \in Nat \ {0} /\ p + n - 1 <= Len(value)
      /\ \A k \in 1 .. n : value[p + k - 1] = secret[k]
  <2>1. p \in Nat \ {0}
    OBVIOUS
  <2> QED
    BY <1>1, <2>1, OccursByByte
<1>3. ASSUME NEW k \in 0 .. n - 1 PROVE Peek(value, p + k) \in Simple
  <2>1. k + 1 \in 1 .. n /\ p + (k + 1) - 1 = p + k
    BY <1>1, <1>2
  <2>2. value[p + (k + 1) - 1] = secret[k + 1] /\ secret[k + 1] \in Unreserved
    BY <1>1, <1>2, <2>1, PlainBytes
  <2>3. value[p + k] \in Unreserved
    <3>1. value[p + (k + 1) - 1] \in Unreserved
      BY <2>2
    <3> QED
      BY <2>1, <3>1
  <2>4. p + k \in 1 .. Len(value)
    <3>1. PICK m : m = Len(value) /\ m \in Nat
      BY Joined
    <3> QED
      BY <1>1, <1>2, <3>1
  <2>5. DOMAIN value = 1 .. Len(value)
    BY DEF Text
  <2>6. Peek(value, p + k) = value[p + k]
    BY <2>4, <2>5 DEF Peek
  <2>7. \A byte \in Unreserved : byte \in Simple
    BY PlainByte DEF Simple
  <2> QED
    BY <2>3, <2>6, <2>7
<1>4. Run(value, p, n, Simple)
  BY <1>3 DEF Run
<1>5. ASSUME NEW front, Spelled(value, p, n, front) PROVE front = secret
  <2>1. front \in Text /\ Len(front) = Len(secret) /\ \A k \in 1 .. n : front[k] = value[p + k - 1]
    BY <1>1, <1>5 DEF Spelled
  <2>2. \A k \in 1 .. Len(secret) : front[k] = secret[k]
    BY <1>1, <1>2, <2>1
  <2> QED
    BY <2>1, <2>2, SameText
<1> QED
  BY <1>1, <1>4, <1>5

-----------------------------------------------------------------------------
(* A string of a masked text is one of the value, which ends where it ends, holds
   a backslash if it does, and has the same bytes or holds the key.        *)
Slashed(s, a, b) == \E m \in a .. b : Peek(s, m) = Backslash
SameRead(value, secret, text, p, i) ==
    \/ ParseString(value, p).text = ParseString(text, i).text
    \/ Includes(ParseString(value, p).text, secret) /\ Includes(value, secret)
TrackedTo(value, secret, text, w, i, n) ==
    /\ n \in 2 .. Len(text) + 1 /\ w[n - 1] # 0 /\ w[n] = w[n - 1] + 1 /\ Peek(text, n - 1) = Quote
    /\ ParseString(value, w[i]).next = w[n]
    /\ SameRead(value, secret, text, w[i], i)
    /\ Slashed(text, i, n - 1) => Slashed(value, w[i], w[n - 1])
Tracked(value, secret, text, w, i) ==
    i \in 1 .. Len(text) /\ w[i] # 0 /\ ParseString(text, i).next # 0
        => TrackedTo(value, secret, text, w, i, ParseString(text, i).next)

PieceIs(s, i, u, bytes) ==
    /\ Peek(s, i) # Quote /\ PieceAt(s, i) # Refused
    /\ PieceAt(s, i).used = u /\ PieceAt(s, i).bytes = bytes
ReadsOn(s, i, u, bytes) ==
    /\ ParseString(s, i).next = ParseString(s, i + u).next
    /\ ParseString(s, i).text = bytes \o ParseString(s, i + u).text
    /\ bytes \in Text /\ ParseString(s, i + u).text \in Text /\ u \in Nat \ {0}

(* ReadBehind, by these names. *)
LEMMA ReadsBehind ==
    ASSUME NEW s \in Text, NEW i \in Nat, NEW u, NEW bytes, PieceIs(s, i, u, bytes)
    PROVE  ReadsOn(s, i, u, bytes)
<1>1. /\ Peek(s, i) # Quote /\ PieceAt(s, i) # Refused
      /\ PieceAt(s, i).used = u /\ PieceAt(s, i).bytes = bytes
  BY DEF PieceIs
<1>2. /\ ParseString(s, i).next = ParseString(s, i + u).next
      /\ ParseString(s, i).text = bytes \o ParseString(s, i + u).text
      /\ bytes \in Text /\ ParseString(s, i + u).text \in Text
      /\ u \in Nat \ {0} /\ i \in 1 .. Len(s) /\ ParseString(s, i + u).next \in Nat
  BY <1>1, ReadBehind, ZenonT(40)
<1> QED
  BY <1>2, Zenon DEF ReadsOn

(* A string that ends at once ends in both texts. *)
LEMMA TrackedQuote ==
    ASSUME NEW value \in Text, NEW secret, NEW text \in Text, NEW w,
           Follows(value, secret, text, w), NEW i \in 1 .. Len(text), w[i] # 0,
           Peek(text, i) = Quote
    PROVE  TrackedTo(value, secret, text, w, i, ParseString(text, i).next)
<1>1. DOMAIN text = 1 .. Len(text) /\ DOMAIN value = 1 .. Len(value) /\ Len(text) \in Nat
  BY Joined DEF Text
<1>2. text[i] = Quote /\ i \in Nat
  BY <1>1 DEF Peek
<1>3. Copied(value, text, w, i) /\ w[i] \in Nat
  BY <1>2, CopiedAt DEF Quote, MaskByte
<1>4. Peek(value, w[i]) = Quote
  BY <1>1, <1>2, <1>3 DEF Copied, Peek
<1>5. ParseString(text, i) = Ends(i + 1) /\ ParseString(value, w[i]) = Ends(w[i] + 1)
  BY <1>2, <1>3, <1>4, ReadAt
<1>6. ParseString(text, i).next = i + 1 /\ ParseString(value, w[i]).next = w[i] + 1
      /\ ParseString(value, w[i]).text = ParseString(text, i).text
  BY <1>5 DEF Ends
<1>7. (i + 1) - 1 = i /\ i + 1 \in 2 .. Len(text) + 1 /\ w[i + 1] = w[i] + 1
  BY <1>1, <1>2, <1>3 DEF Copied
<1>8. ~Slashed(text, i, i)
  <2>1. \A m \in i .. i : m = i
    BY <1>2
  <2> QED
    BY <2>1 DEF Slashed, Quote, Backslash
<1> QED
  BY <1>6, <1>7, <1>8 DEF TrackedTo, SameRead

(* A mask is read as itself, and the key in its place as the key. *)
LEMMA TrackedMask ==
    ASSUME NEW value \in Text, NEW secret \in Text, secret # <<>>, Plain(secret),
           NEW text \in Text, NEW w, Follows(value, secret, text, w), NEW i \in 1 .. Len(text),
           Masked(value, secret, text, w, i), ParseString(text, i).next # 0,
           \A k \in Nat : k > i => Tracked(value, secret, text, w, k)
    PROVE  TrackedTo(value, secret, text, w, i, ParseString(text, i).next)
<1>1. PICK j, p, q, l : /\ j = i + MaskLen /\ p = w[i] /\ l = Len(secret) /\ q = p + l
  OBVIOUS
<1>2. l \in Nat /\ l # 0 /\ p \in 1 .. Len(value) /\ OccursAt(value, secret, p) /\ w[j] = q
  <2>1. l # 0
    BY <1>1 DEF Text
  <2> QED
    BY <1>1, <2>1, Joined DEF Masked
<1>3. j \in Nat /\ j > i /\ MaskLen \in Nat /\ i \in Nat /\ p \in Nat /\ q \in Nat /\ q # 0 /\ q > p
  BY <1>1, <1>2, MaskAssumption
<1>4. Skips(text, i, MaskLen)
  BY <1>3, MaskRun, PlainRun
<1>5. Skips(value, p, l)
  <2>1. Run(value, p, l, Simple)
    BY <1>1, <1>2, KeyRun
  <2> QED
    BY <1>2, <1>3, <2>1, PlainRun
<1>6. PICK n : n = ParseString(text, i).next
  OBVIOUS
<1>7. n = ParseString(text, j).next /\ ParseString(value, p).next = ParseString(value, q).next
  BY <1>1, <1>4, <1>5, <1>6 DEF Skips
<1>8. n \in Nat /\ n # 0 /\ n > j /\ n <= Len(text) + 1
  BY <1>3, <1>6, <1>7, StringRead
<1>9. j \in 1 .. Len(text) /\ w[j] # 0
  <2>1. PICK N : N = Len(text) /\ N \in Nat
    BY Joined
  <2> QED
    BY <1>2, <1>3, <1>8, <2>1
<1>10. TrackedTo(value, secret, text, w, j, n)
  BY <1>3, <1>7, <1>8, <1>9 DEF Tracked
<1>11. ParseString(value, p).next = w[n]
  BY <1>2, <1>7, <1>10 DEF TrackedTo
<1>12. Includes(ParseString(value, p).text, secret) /\ Includes(value, secret)
  <2>1. PICK front : /\ Spelled(value, p, l, front)
                     /\ ParseString(value, p).text = front \o ParseString(value, q).text
    BY <1>1, <1>5 DEF Skips
  <2>2. front = secret
    BY <1>1, <1>2, <2>1, KeyRun
  <2>3. PICK t : t = ParseString(value, q).text
    OBVIOUS
  <2>4. t \in Text /\ front \in Text
    BY <1>3, <2>2, <2>3, StringRead
  <2>5. Includes(front \o t, secret)
    BY <2>2, <2>4, IncludesBehind
  <2>6. ~Free(value, secret)
    BY <1>2 DEF Free
  <2> QED
    BY <2>1, <2>3, <2>5, <2>6, FreeOf
<1>13. SameRead(value, secret, text, p, i)
  BY <1>12 DEF SameRead
<1>14. ASSUME Slashed(text, i, n - 1) PROVE Slashed(value, p, w[n - 1])
  <2>1. PICK m \in i .. n - 1 : Peek(text, m) = Backslash
    BY <1>14 DEF Slashed
  <2>2. m \in j .. n - 1
    <3>1. CASE m < j
      <4>1. m - i \in 0 .. MaskLen - 1 /\ i + (m - i) = m
        BY <1>1, <1>3, <3>1
      <4>2. Peek(text, i + (m - i)) \in Simple
        BY <4>1, MaskRun DEF Run
      <4> QED
        BY <2>1, <4>1, <4>2 DEF Simple
    <3>2. CASE ~(m < j)
      BY <1>3, <1>8, <3>2
    <3> QED
      BY <3>1, <3>2
  <2>3. Slashed(text, j, n - 1)
    BY <2>1, <2>2 DEF Slashed
  <2>4. Slashed(value, q, w[n - 1])
    BY <1>2, <1>10, <2>3 DEF TrackedTo
  <2>5. \A x \in q .. w[n - 1] : x \in p .. w[n - 1]
    BY <1>3
  <2> QED
    BY <2>4, <2>5 DEF Slashed
<1> QED
  BY <1>1, <1>6, <1>10, <1>11, <1>13, <1>14 DEF TrackedTo

(* A piece that is copied is the same piece of the other text. *)
LEMMA TrackedPiece ==
    ASSUME NEW value \in Text, NEW secret \in Text, secret # <<>>,
           NEW text \in Text, NEW w, Follows(value, secret, text, w), NEW i \in 1 .. Len(text),
           Copied(value, text, w, i), ParseString(text, i).next # 0, Peek(text, i) # Quote,
           \A k \in Nat : k > i => Tracked(value, secret, text, w, k)
    PROVE  TrackedTo(value, secret, text, w, i, ParseString(text, i).next)
<1>1. PICK n, u, bytes, p : /\ n = ParseString(text, i).next /\ p = w[i]
                            /\ u = PieceAt(text, i).used /\ bytes = PieceAt(text, i).bytes
  OBVIOUS
<1>2. i \in Nat /\ n # 0 /\ PieceAt(text, i) # Refused
  <2>1. i \in Nat
    OBVIOUS
  <2>2. PieceAt(text, i) = Refused => ParseString(text, i).next = 0
    BY <2>1, ReadAt DEF Ends
  <2> QED
    BY <1>1, <2>1, <2>2
<1>3. PICK j : j = i + u
  OBVIOUS
<1>4. /\ n = ParseString(text, j).next /\ ParseString(text, i).text = bytes \o ParseString(text, j).text
      /\ bytes \in Text /\ u \in Nat \ {0} /\ ParseString(text, j).text \in Text
  <2>1. PieceIs(text, i, u, bytes)
    BY <1>1, <1>2 DEF PieceIs
  <2>2. ReadsOn(text, i, u, bytes)
    BY <1>2, <2>1, ReadsBehind
  <2> QED
    BY <1>1, <1>3, <2>2 DEF ReadsOn
<1>5. j \in Nat /\ j > i
  BY <1>2, <1>3, <1>4
<1>6. n \in Nat /\ n > j /\ n <= Len(text) + 1
  BY <1>2, <1>4, <1>5, StringRead
<1>7. j \in 1 .. Len(text) /\ i + u - 1 <= Len(text)
  <2>1. PICK N : N = Len(text) /\ N \in Nat
    BY Joined
  <2> QED
    BY <1>2, <1>3, <1>4, <1>5, <1>6, <2>1
<1>8. ASSUME NEW k \in 1 .. u - 1 PROVE text[i + k] # MaskByte
  <2>1. Peek(text, i + k) \notin {AtEnd, MaskByte}
    BY <1>1, <1>2, LaterBytes
  <2>2. i + k \in Nat
    BY <1>2
  <2> QED
    BY <2>1, <2>2, Peeked
<1>9. Window(value, p, text, i, u) /\ w[j] = p + u /\ p \in Nat \ {0}
  <2>1. /\ Window(value, w[i], text, i, u) /\ w[i + u] = w[i] + u
        /\ w[i] \in Nat \ {0} /\ w[i] + u - 1 <= Len(value)
    BY <1>4, <1>7, <1>8, CopiedRun
  <2> QED
    BY <1>1, <1>3, <2>1
<1>10. PieceAt(value, p) = PieceAt(text, i)
  BY <1>1, <1>2, <1>9, PieceKept
<1>11. Peek(value, p) = Peek(text, i)
  <2>1. 0 \in 0 .. u - 1 /\ p + 0 = p /\ i + 0 = i
    BY <1>2, <1>4, <1>9
  <2>2. Peek(value, p + 0) = Peek(text, i + 0)
    BY <1>9, <2>1 DEF Window
  <2> QED
    BY <2>1, <2>2
<1>12. PICK q : q = p + u
  OBVIOUS
<1>13. /\ ParseString(value, p).next = ParseString(value, q).next
       /\ ParseString(value, p).text = bytes \o ParseString(value, q).text
       /\ ParseString(value, q).text \in Text
  <2>1. PieceIs(value, p, u, bytes)
    BY <1>1, <1>2, <1>10, <1>11 DEF PieceIs
  <2>2. ReadsOn(value, p, u, bytes)
    BY <1>9, <2>1, ReadsBehind
  <2> QED
    BY <1>12, <2>2 DEF ReadsOn
<1>14. w[j] = q /\ q \in Nat /\ q # 0 /\ q > p
  BY <1>4, <1>9, <1>12
<1>15. TrackedTo(value, secret, text, w, j, n)
  BY <1>2, <1>4, <1>5, <1>7, <1>14 DEF Tracked
<1>16. ParseString(value, p).next = w[n]
  BY <1>13, <1>14, <1>15 DEF TrackedTo
<1>17. SameRead(value, secret, text, p, i)
  <2>1. PICK s, t : s = ParseString(value, q).text /\ t = ParseString(text, j).text
    OBVIOUS
  <2>2. s = t \/ (Includes(s, secret) /\ Includes(value, secret))
    BY <1>14, <1>15, <2>1 DEF TrackedTo, SameRead
  <2>3. Includes(s, secret) => Includes(bytes \o s, secret)
    BY <1>4, <1>13, <2>1, IncludesBehind
  <2>4. ParseString(value, p).text = bytes \o s /\ ParseString(text, i).text = bytes \o t
    BY <1>4, <1>13, <2>1
  <2> QED
    BY <2>2, <2>3, <2>4 DEF SameRead
<1>18. ASSUME Slashed(text, i, n - 1) PROVE Slashed(value, p, w[n - 1])
  <2>1. PICK m \in i .. n - 1 : Peek(text, m) = Backslash
    BY <1>18 DEF Slashed
  <2>2. PICK last : last = w[n - 1]
    OBVIOUS
  <2>3. last \in Nat /\ last >= q
    <3>1. n - 1 \in 1 .. Len(text) + 1
      BY <1>15 DEF TrackedTo
    <3>2. last \in Nat
      BY <2>2, <3>1 DEF Follows
    <3>3. ParseString(value, q).next = last + 1
      BY <1>14, <1>15, <2>2 DEF TrackedTo
    <3>4. last + 1 > q
      BY <1>14, <3>2, <3>3, StringRead
    <3> QED
      BY <1>14, <3>2, <3>4
  <2>4. CASE m < j
    <3>1. m - i \in 0 .. u - 1 /\ i + (m - i) = m /\ p + (m - i) \in p .. last
      BY <1>2, <1>3, <1>4, <1>9, <1>12, <2>3, <2>4
    <3>2. Peek(value, p + (m - i)) = Peek(text, i + (m - i))
      BY <1>9, <3>1 DEF Window
    <3>3. Peek(value, p + (m - i)) = Backslash
      BY <2>1, <3>1, <3>2
    <3> QED
      BY <2>2, <3>1, <3>3 DEF Slashed
  <2>5. CASE ~(m < j)
    <3>1. m \in j .. n - 1
      BY <1>5, <1>6, <2>5
    <3>2. Slashed(text, j, n - 1)
      BY <2>1, <3>1 DEF Slashed
    <3>3. Slashed(value, q, last)
      BY <1>14, <1>15, <2>2, <3>2 DEF TrackedTo
    <3>4. \A x \in q .. last : x \in p .. last
      BY <1>9, <1>14, <2>3
    <3> QED
      BY <2>2, <3>3, <3>4 DEF Slashed
  <2> QED
    BY <2>4, <2>5
<1> QED
  BY <1>1, <1>15, <1>16, <1>17, <1>18 DEF TrackedTo

(* So what ParseString reads of a masked text it reads of the text, but for the key. *)
LEMMA Tracks ==
    ASSUME NEW value \in Text, NEW secret \in Text, secret # <<>>, Plain(secret),
           NEW text \in Text, NEW w, Follows(value, secret, text, w)
    PROVE  \A i \in Nat : Tracked(value, secret, text, w, i)
<1> DEFINE T == {i \in Nat : Tracked(value, secret, text, w, i)}
<1>1. PICK N : N = Len(text) /\ N \in Nat
  BY Joined
<1>2. ASSUME NEW i \in Nat, i <= N => \A k \in Nat : k > i => k \in T
      PROVE  Tracked(value, secret, text, w, i)
  <2> SUFFICES ASSUME i \in 1 .. Len(text), w[i] # 0, ParseString(text, i).next # 0
               PROVE  TrackedTo(value, secret, text, w, i, ParseString(text, i).next)
    BY DEF Tracked
  <2>1. \A k \in Nat : k > i => Tracked(value, secret, text, w, k)
    BY <1>1, <1>2
  <2>2. CASE Peek(text, i) = Quote
    BY <2>2, TrackedQuote
  <2>3. CASE Masked(value, secret, text, w, i)
    BY <2>1, <2>3, TrackedMask
  <2>4. CASE Peek(text, i) # Quote /\ Copied(value, text, w, i)
    BY <2>1, <2>4, TrackedPiece
  <2> QED
    BY <2>2, <2>3, <2>4 DEF Follows
<1>3. Nat \subseteq T
  <2>1. \A i \in Nat : (i <= N => \A k \in Nat : k > i => k \in T) => i \in T
    BY <1>2
  <2> HIDE DEF T
  <2> QED
    BY <1>1, <2>1, Backwards
<1> QED
  BY <1>3

-----------------------------------------------------------------------------
(* What is done of a text when `from` of its bytes are. *)
Led(value, secret, done, from) ==
    \E w : Follows(value, secret, done, w) /\ w[Len(done) + 1] = from + 1 /\ w[1] = 1
LedWhole(value, secret, text) == \E w : Follows(value, secret, text, w) /\ w[1] = 1

(* At first nothing is done. *)
LEMMA LedNothing ==
    ASSUME NEW value \in Text, NEW secret
    PROVE  Led(value, secret, <<>>, 0)
<1>1. PICK w : w = [j \in 1 .. 1 |-> 1]
  OBVIOUS
<1>2. Len(<<>>) = 0 /\ 0 + 1 = 1 /\ w[1] = 1 /\ w \in [1 .. 0 + 1 -> Nat]
  BY <1>1
<1>3. Follows(value, secret, <<>>, w)
  BY <1>2 DEF Follows
<1> QED
  BY <1>2, <1>3 DEF Led

(* A stretch of the text is copied. *)
LEMMA LedStretch ==
    ASSUME NEW value \in Text, NEW secret, NEW done \in Text, NEW from \in Nat,
           Led(value, secret, done, from), NEW to \in Nat, from <= to, to <= Len(value)
    PROVE  Led(value, secret, done \o SubSeq(value, from + 1, to), to)
<1>1. PICK w : Follows(value, secret, done, w) /\ w[Len(done) + 1] = from + 1 /\ w[1] = 1
  BY DEF Led
<1>2. PICK gap, n, m : gap = SubSeq(value, from + 1, to) /\ n = Len(done) /\ m = Len(gap)
  OBVIOUS
<1>3. Len(value) \in Nat /\ from + 1 \in Nat \ {0}
  BY Joined
<1>4. /\ gap \in Text /\ m = to - from
      /\ \A k \in 1 .. m : gap[k] = value[from + k]
  <2>1. /\ gap \in Text /\ m = IF from + 1 <= to THEN to - (from + 1) + 1 ELSE 0
        /\ \A k \in 1 .. m : gap[k] = value[(from + 1) + k - 1]
    BY <1>2, <1>3, Stretch
  <2>2. m = to - from
    BY <2>1
  <2>3. \A k \in 1 .. m : (from + 1) + k - 1 = from + k
    OBVIOUS
  <2> QED
    BY <2>1, <2>2, <2>3
<1>5. PICK text : text = done \o gap
  OBVIOUS
<1>6. n \in Nat /\ m \in Nat /\ Len(text) = n + m
  BY <1>2, <1>4, <1>5, Joined
<1>7. /\ \A j \in 1 .. n : text[j] = done[j]
      /\ \A j \in n + 1 .. n + m : text[j] = gap[j - n]
  <2>1. n = Len(done) /\ m = Len(gap) /\ gap \in Text
    BY <1>2, <1>4
  <2> QED
    BY <2>1, <1>5 DEF Text
<1>8. PICK x : x = [j \in 1 .. (n + m) + 1 |-> IF j <= n + 1 THEN w[j] ELSE from + (j - n)]
  OBVIOUS
<1>9. /\ w \in [1 .. n + 1 -> Nat] /\ w[n + 1] = from + 1
      /\ \A j \in 1 .. n : w[j] # 0 => Copied(value, done, w, j) \/ Masked(value, secret, done, w, j)
  BY <1>1, <1>2 DEF Follows
<1>10. /\ \A j \in 1 .. n + 1 : x[j] = w[j]
       /\ \A j \in n + 1 .. (n + m) + 1 : x[j] = from + (j - n)
  <2>1. \A j \in 1 .. n + 1 : x[j] = w[j]
    BY <1>6, <1>8
  <2>2. ASSUME NEW j \in n + 1 .. (n + m) + 1 PROVE x[j] = from + (j - n)
    <3>1. CASE j = n + 1
      BY <1>6, <1>9, <2>1, <3>1
    <3>2. CASE j # n + 1
      BY <1>6, <1>8, <3>2
    <3> QED
      BY <3>1, <3>2
  <2> QED
    BY <2>1, <2>2
<1>11. x \in [1 .. Len(text) + 1 -> Nat]
  <2>1. ASSUME NEW j \in 1 .. (n + m) + 1 PROVE (IF j <= n + 1 THEN w[j] ELSE from + (j - n)) \in Nat
    BY <1>6, <1>9
  <2> QED
    BY <1>6, <1>8, <2>1
<1>12. ASSUME NEW j \in 1 .. n, x[j] # 0
       PROVE  Copied(value, text, x, j) \/ Masked(value, secret, text, x, j)
  <2>1. x[j] = w[j] /\ x[j + 1] = w[j + 1] /\ text[j] = done[j] /\ j \in 1 .. n + 1
    BY <1>6, <1>7, <1>10
  <2>2. CASE Copied(value, done, w, j)
    BY <2>1, <2>2 DEF Copied
  <2>3. CASE Masked(value, secret, done, w, j)
    <3>1. j + MaskLen - 1 <= n /\ \A k \in 0 .. MaskLen - 1 : done[j + k] = MaskByte
      BY <1>2, <2>3 DEF Masked
    <3>2. MaskLen \in Nat \ {0} /\ j + MaskLen \in 1 .. n + 1 /\ j + MaskLen - 1 <= Len(text)
      BY <1>6, <3>1, MaskAssumption
    <3>3. ASSUME NEW k \in 0 .. MaskLen - 1 PROVE text[j + k] = MaskByte
      <4>1. j + k \in 1 .. n
        BY <1>6, <3>1, <3>2
      <4> QED
        BY <1>7, <3>1, <4>1
    <3>4. x[j + MaskLen] = w[j + MaskLen]
      BY <1>10, <3>2
    <3> QED
      BY <2>1, <2>3, <3>2, <3>3, <3>4 DEF Masked
  <2> QED
    BY <1>9, <1>12, <2>1, <2>2, <2>3
<1>13. ASSUME NEW j \in n + 1 .. n + m PROVE Copied(value, text, x, j)
  <2>1. x[j] = from + (j - n) /\ x[j + 1] = from + ((j + 1) - n)
    BY <1>6, <1>10
  <2>2. j - n \in 1 .. m /\ text[j] = gap[j - n]
    BY <1>6, <1>7
  <2>3. text[j] = value[from + (j - n)]
    BY <1>4, <2>2
  <2>4. from + (j - n) \in 1 .. Len(value) /\ from + ((j + 1) - n) = (from + (j - n)) + 1
    BY <1>3, <1>4, <1>6, <2>2
  <2> QED
    BY <2>1, <2>3, <2>4 DEF Copied
<1>14. Follows(value, secret, text, x)
  <2>1. ASSUME NEW j \in 1 .. Len(text), x[j] # 0
        PROVE  Copied(value, text, x, j) \/ Masked(value, secret, text, x, j)
    <3>1. CASE j <= n
      <4>1. j \in 1 .. n
        BY <1>6, <3>1
      <4> QED
        BY <1>12, <2>1, <4>1
    <3>2. CASE ~(j <= n)
      <4>1. j \in n + 1 .. n + m
        BY <1>6, <3>2
      <4> QED
        BY <1>13, <4>1
    <3> QED
      BY <3>1, <3>2
  <2> QED
    BY <1>11, <2>1 DEF Follows
<1>15. x[Len(text) + 1] = to + 1 /\ x[1] = 1
  <2>1. (n + m) + 1 \in n + 1 .. (n + m) + 1 /\ from + (((n + m) + 1) - n) = to + 1
    BY <1>4, <1>6
  <2>2. x[(n + m) + 1] = to + 1
    BY <1>10, <2>1
  <2>3. 1 \in 1 .. n + 1
    BY <1>6
  <2> QED
    BY <1>1, <1>6, <1>10, <2>2, <2>3
<1> QED
  BY <1>2, <1>5, <1>14, <1>15 DEF Led

(* A mask stands for a match. *)
LEMMA LedMask ==
    ASSUME NEW value \in Text, NEW secret \in Text, NEW front \in Text, NEW pos \in 1 .. Len(value),
           Led(value, secret, front, pos - 1), OccursAt(value, secret, pos)
    PROVE  Led(value, secret, front \o Mask, pos + Len(secret) - 1)
<1>1. PICK w : Follows(value, secret, front, w) /\ w[Len(front) + 1] = (pos - 1) + 1 /\ w[1] = 1
  BY DEF Led
<1>2. PICK n, l : n = Len(front) /\ l = Len(secret)
  OBVIOUS
<1>3. n \in Nat /\ l \in Nat /\ pos \in Nat /\ MaskLen \in Nat \ {0}
  BY <1>2, Joined, MaskAssumption
<1>4. Mask \in Text /\ Len(Mask) = MaskLen /\ \A k \in 1 .. MaskLen : Mask[k] = MaskByte
  BY <1>3, TheMask
<1>5. PICK text : text = front \o Mask
  OBVIOUS
<1>6. text \in Text /\ Len(text) = n + MaskLen
  BY <1>2, <1>4, <1>5, Joined
<1>7. /\ \A j \in 1 .. n : text[j] = front[j]
      /\ \A j \in n + 1 .. n + MaskLen : text[j] = MaskByte
  <2>1. PICK m : m = MaskLen
    OBVIOUS
  <2>2. n = Len(front) /\ m = Len(Mask) /\ Mask \in Text
    BY <1>2, <1>4, <2>1
  <2>3. /\ \A j \in 1 .. n : text[j] = front[j]
        /\ \A j \in n + 1 .. n + m : text[j] = Mask[j - n]
    BY <2>2, <1>5 DEF Text
  <2>4. ASSUME NEW j \in n + 1 .. n + m PROVE Mask[j - n] = MaskByte
    <3>1. j - n \in 1 .. MaskLen
      BY <1>3, <2>1
    <3> QED
      BY <1>4, <3>1
  <2> QED
    BY <2>1, <2>3, <2>4
<1>8. PICK last : last = (n + MaskLen) + 1
  OBVIOUS
<1>9. PICK x : x = [j \in 1 .. last |-> IF j <= n + 1 THEN w[j] ELSE IF j = last THEN pos + l ELSE 0]
  OBVIOUS
<1>10. /\ w \in [1 .. n + 1 -> Nat] /\ w[n + 1] = pos
       /\ \A j \in 1 .. n : w[j] # 0 => Copied(value, front, w, j) \/ Masked(value, secret, front, w, j)
  BY <1>1, <1>2 DEF Follows
<1>11. last \in Nat /\ last > n + 1 /\ last = Len(text) + 1
  BY <1>3, <1>6, <1>8
<1>12. /\ \A j \in 1 .. n + 1 : x[j] = w[j]
       /\ x[last] = pos + l
       /\ \A j \in n + 2 .. n + MaskLen : x[j] = 0
  BY <1>3, <1>8, <1>9, <1>11
<1>13. x \in [1 .. Len(text) + 1 -> Nat]
  <2>1. ASSUME NEW j \in 1 .. last
        PROVE  (IF j <= n + 1 THEN w[j] ELSE IF j = last THEN pos + l ELSE 0) \in Nat
    BY <1>3, <1>10
  <2>2. x \in [1 .. last -> Nat]
    BY <1>9, <2>1
  <2>3. last = Len(text) + 1
    BY <1>11
  <2> QED
    BY <2>2, <2>3, Zenon
<1>14. ASSUME NEW j \in 1 .. n, x[j] # 0
       PROVE  Copied(value, text, x, j) \/ Masked(value, secret, text, x, j)
  <2>1. x[j] = w[j] /\ x[j + 1] = w[j + 1] /\ text[j] = front[j] /\ j \in 1 .. n + 1
    <3>1. j \in 1 .. n + 1 /\ j + 1 \in 1 .. n + 1
      BY <1>3
    <3> QED
      BY <1>7, <1>12, <3>1
  <2>2. CASE Copied(value, front, w, j)
    BY <2>1, <2>2 DEF Copied
  <2>3. CASE Masked(value, secret, front, w, j)
    <3>1. j + MaskLen - 1 <= n /\ \A k \in 0 .. MaskLen - 1 : front[j + k] = MaskByte
      BY <1>2, <2>3 DEF Masked
    <3>2. j + MaskLen \in 1 .. n + 1 /\ j + MaskLen - 1 <= Len(text)
      BY <1>3, <1>6, <3>1
    <3>3. ASSUME NEW k \in 0 .. MaskLen - 1 PROVE text[j + k] = MaskByte
      <4>1. j + k \in 1 .. n
        BY <1>3, <3>1
      <4> QED
        BY <1>7, <3>1, <4>1
    <3>4. x[j + MaskLen] = w[j + MaskLen]
      BY <1>12, <3>2
    <3> QED
      BY <2>1, <2>3, <3>2, <3>3, <3>4 DEF Masked
  <2> QED
    BY <1>10, <1>14, <2>1, <2>2, <2>3
<1>15. Masked(value, secret, text, x, n + 1)
  <2>1. n + 1 \in 1 .. n + 1 /\ x[n + 1] = pos
    BY <1>3, <1>10, <1>12
  <2>2. (n + 1) + MaskLen = last /\ (n + 1) + MaskLen - 1 <= Len(text)
    BY <1>3, <1>6, <1>8
  <2>3. ASSUME NEW k \in 0 .. MaskLen - 1 PROVE text[(n + 1) + k] = MaskByte
    <3>1. (n + 1) + k \in n + 1 .. n + MaskLen
      BY <1>3
    <3> QED
      BY <1>7, <3>1
  <2> QED
    BY <1>2, <1>12, <2>1, <2>2, <2>3 DEF Masked
<1>16. Follows(value, secret, text, x)
  <2>1. ASSUME NEW j \in 1 .. Len(text), x[j] # 0
        PROVE  Copied(value, text, x, j) \/ Masked(value, secret, text, x, j)
    <3>1. CASE j <= n
      <4>1. j \in 1 .. n
        BY <1>3, <3>1
      <4> QED
        BY <1>14, <2>1, <4>1
    <3>2. CASE j = n + 1
      BY <1>15, <3>2
    <3>3. CASE j > n + 1
      <4>1. j \in n + 2 .. n + MaskLen
        BY <1>3, <1>6, <3>3
      <4> QED
        BY <1>12, <2>1, <4>1
    <3> QED
      BY <1>3, <3>1, <3>2, <3>3
  <2> QED
    BY <1>13, <2>1 DEF Follows
<1>17. x[Len(text) + 1] = (pos + l - 1) + 1 /\ x[1] = 1
  <2>1. (pos + l - 1) + 1 = pos + l /\ 1 \in 1 .. n + 1
    BY <1>3
  <2> QED
    BY <1>1, <1>11, <1>12, <2>1
<1> QED
  BY <1>2, <1>5, <1>16, <1>17 DEF Led

(* What follows the last match is copied. *)
LEMMA LedEnds ==
    ASSUME NEW value \in Text, NEW secret, NEW done \in Text, NEW from \in Nat, from <= Len(value),
           Led(value, secret, done, from)
    PROVE  LedWhole(value, secret, done \o SubSeq(value, from + 1, Len(value)))
<1>1. Len(value) \in Nat
  BY Joined
<1>2. Led(value, secret, done \o SubSeq(value, from + 1, Len(value)), Len(value))
  BY <1>1, LedStretch
<1> QED
  BY <1>2 DEF Led, LedWhole

(* The text itself follows itself. *)
LEMMA LedItself ==
    ASSUME NEW value \in Text, NEW secret
    PROVE  LedWhole(value, secret, value)
<1>1. PICK n : n = Len(value) /\ n \in Nat
  BY Joined
<1>2. PICK w : w = [j \in 1 .. n + 1 |-> j]
  OBVIOUS
<1>3. w \in [1 .. n + 1 -> Nat] /\ \A j \in 1 .. n + 1 : w[j] = j
  BY <1>1, <1>2
<1>4. ASSUME NEW j \in 1 .. n PROVE Copied(value, value, w, j)
  <2>1. j \in 1 .. n + 1 /\ j + 1 \in 1 .. n + 1
    BY <1>1
  <2>2. w[j] = j /\ w[j + 1] = j + 1
    BY <1>3, <2>1
  <2> QED
    BY <1>1, <2>2 DEF Copied
<1>5. Follows(value, secret, value, w)
  BY <1>1, <1>3, <1>4 DEF Follows
<1>6. w[1] = 1
  BY <1>1, <1>3
<1> QED
  BY <1>5, <1>6 DEF LedWhole

(* What MaskMatches returns follows the text, unless it is the mask alone. *)
LEMMA MaskMatchesLed ==
    ASSUME NEW value \in Text, NEW secret \in Text, secret # <<>>
    PROVE  \/ MaskMatches(value, secret) = Mask
           \/ LedWhole(value, secret, MaskMatches(value, secret))
<1>1. PICK loop :
          /\ MaskMatches(value, secret) = IF Includes(value, secret) THEN loop[0][<<>>] ELSE value
          /\ \A from \in Nat : \A done \in Text :
                 loop[from][done] = MaskRound(value, secret, loop, from, done)
  BY MaskMatchesLoop
<1>2. PICK N : N = Len(value) /\ N \in Nat
  BY Joined
<1> DEFINE Fine(text) == text = Mask \/ LedWhole(value, secret, text)
           T == {from \in Nat : \A done \in Text :
                     from <= N /\ Led(value, secret, done, from) => Fine(loop[from][done])}
<1>3. Fine(Mask) /\ Fine(value)
  BY LedItself
<1>4. ASSUME NEW i \in Nat, i <= N => \A k \in Nat : k > i => k \in T PROVE i \in T
  <2> SUFFICES ASSUME NEW done \in Text, i <= N, Led(value, secret, done, i)
               PROVE  Fine(loop[i][done])
    OBVIOUS
  <2>1. loop[i][done] = MaskRound(value, secret, loop, i, done)
    BY <1>1
  <2>2. PICK pos : pos = Find(value, secret, i + 1)
    OBVIOUS
  <2>3. CASE pos = 0
    <3>1. loop[i][done] = Ended(value, i, done)
      BY <2>1, <2>2, <2>3 DEF MaskRound
    <3>2. Fine(done \o SubSeq(value, i + 1, Len(value)))
      BY <1>2, LedEnds
    <3> QED
      BY <1>3, <3>1, <3>2 DEF Ended
  <2>4. CASE pos # 0
    <3>1. PICK next : next = pos + Len(secret) - 1
      OBVIOUS
    <3>2. pos \in i + 1 .. Len(value) /\ next \in Nat /\ next > i /\ next <= N
      BY <1>2, <2>2, <2>4, <3>1, NextPlace
    <3>3. PICK grown, front : /\ grown = Grown(value, i, done, pos)
                              /\ front = done \o SubSeq(value, i + 1, pos - 1)
      OBVIOUS
    <3>4. grown \in Text /\ front \in Text
      <4>1. grown \in Text /\ SubSeq(value, i + 1, pos - 1) \in Text
        BY <3>2, <3>3, GrownLength
      <4> QED
        BY <3>3, <4>1, Joined
    <3>5. grown = front \o Mask
      BY <3>3 DEF Grown
    <3>6. Led(value, secret, front, pos - 1)
      <4>1. pos - 1 \in Nat /\ i <= pos - 1 /\ pos - 1 <= Len(value)
        BY <1>2, <3>2
      <4> QED
        BY <3>3, <4>1, LedStretch
    <3>7. Led(value, secret, grown, next)
      <4>1. i + 1 \in Nat \ {0}
        OBVIOUS
      <4>2. OccursAt(value, secret, pos)
        BY <2>2, <2>4, <4>1, FindPlace
      <4>3. pos \in 1 .. Len(value)
        BY <1>2, <3>2
      <4>4. Led(value, secret, front \o Mask, pos + Len(secret) - 1)
        BY <3>4, <3>6, <4>2, <4>3, LedMask
      <4> QED
        BY <3>1, <3>5, <4>4
    <3>8. loop[i][done] = IF Len(grown) > Limit(value) THEN Mask ELSE loop[next][grown]
      BY <2>1, <2>2, <2>4, <3>1, <3>3 DEF MaskRound
    <3>9. next \in T
      BY <1>4, <3>2
    <3> HIDE DEF Fine
    <3>10. Fine(loop[next][grown])
      BY <3>2, <3>4, <3>7, <3>9
    <3> QED
      BY <1>3, <3>8, <3>10
  <2> QED
    BY <2>3, <2>4
<1>5. Nat \subseteq T
  <2> HIDE DEF T
  <2> QED
    BY <1>2, <1>4, Backwards
<1>6. Fine(loop[0][<<>>])
  <2>1. <<>> \in Text /\ 0 <= N
    BY <1>2 DEF Text
  <2>2. Led(value, secret, <<>>, 0)
    BY LedNothing
  <2> HIDE DEF Fine
  <2> QED
    BY <1>5, <2>1, <2>2
<1> HIDE DEF Fine
<1>7. Fine(MaskMatches(value, secret))
  BY <1>1, <1>3, <1>6
<1> QED
  BY <1>7 DEF Fine

-----------------------------------------------------------------------------
(* What Trim leaves: the bytes from a to b, with white space before and behind. *)
TrimmedTo(v, a, b) ==
    /\ a \in 1 .. b /\ b \in 1 .. Len(v) /\ Trim(v) = SubSeq(v, a, b)
    /\ \A m \in 1 .. a - 1 : v[m] \in WhiteSpace
    /\ \A m \in b + 1 .. Len(v) : v[m] \in WhiteSpace

(* Trim takes white space away, and nothing else. *)
LEMMA TrimPlaces ==
    ASSUME NEW v \in Text, Trim(v) # <<>>
    PROVE  \E a, b : TrimmedTo(v, a, b)
<1>1. Len(v) \in Nat /\ DOMAIN v = 1 .. Len(v)
  BY DEF Text
<1>2. PICK inner : inner = {i \in DOMAIN v : v[i] \notin WhiteSpace}
  OBVIOUS
<1>3. Trim(v) = IF inner = {} THEN <<>> ELSE SubSeq(v, Min(inner), Max(inner))
  BY <1>2 DEF Trim
<1>4. inner # {}
  BY <1>3
<1>5. inner \subseteq 1 .. Len(v) /\ inner \subseteq Nat /\ inner \subseteq 0 .. Len(v)
  BY <1>1, <1>2
<1>6. PICK a, b : a = Min(inner) /\ b = Max(inner)
  OBVIOUS
<1>7. a \in inner /\ \A x \in inner : a <= x
  BY <1>4, <1>5, <1>6, LeastOf
<1>8. b \in inner /\ \A x \in inner : x <= b
  BY <1>1, <1>4, <1>5, <1>6, GreatestOf
<1>9. a \in 1 .. b /\ b \in 1 .. Len(v)
  BY <1>5, <1>7, <1>8
<1>10. ASSUME NEW m \in 1 .. Len(v), m < a \/ m > b PROVE v[m] \in WhiteSpace
  <2>1. m \notin inner
    BY <1>7, <1>8, <1>9, <1>10
  <2> QED
    BY <1>1, <1>2, <2>1
<1>11. ASSUME NEW m \in 1 .. a - 1 PROVE v[m] \in WhiteSpace
  <2>1. m \in 1 .. Len(v) /\ m < a
    BY <1>1, <1>9
  <2> QED
    BY <1>10, <2>1
<1>12. ASSUME NEW m \in b + 1 .. Len(v) PROVE v[m] \in WhiteSpace
  <2>1. m \in 1 .. Len(v) /\ m > b
    BY <1>1, <1>9
  <2> QED
    BY <1>10, <2>1
<1> QED
  BY <1>3, <1>4, <1>6, <1>9, <1>11, <1>12 DEF TrimmedTo

(* The value has no quote before the text that is followed, or behind it. *)
Placed(value, secret, text, x) ==
    /\ Follows(value, secret, text, x) /\ text \in Text /\ Len(text) # 0 /\ x[1] # 0
    /\ \A m \in 1 .. x[1] - 1 : value[m] # Quote
TailFree(value, text, x) == \A m \in x[Len(text) + 1] .. Len(value) : value[m] # Quote

(* What Trim leaves of a text that follows another follows that one. *)
LEMMA TrimPlaced ==
    ASSUME NEW value \in Text, NEW secret, NEW v \in Text, NEW w,
           Follows(value, secret, v, w), w[1] = 1, NEW a, NEW b, TrimmedTo(v, a, b)
    PROVE  \E x : Placed(value, secret, Trim(v), x) /\ x[Len(Trim(v)) + 1] = w[b + 1]
<1>1. PICK N : N = Len(v) /\ N \in Nat
  BY Joined
<1>2. /\ a \in 1 .. b /\ b \in 1 .. N /\ Trim(v) = SubSeq(v, a, b)
      /\ \A m \in 1 .. a - 1 : v[m] \in WhiteSpace
  BY <1>1 DEF TrimmedTo
<1>3. PICK text, n : text = Trim(v) /\ n = Len(text)
  OBVIOUS
<1>4. /\ text \in Text /\ n = (b - a) + 1 /\ \A k \in 1 .. n : text[k] = v[a + k - 1]
  <2>1. a \in Nat \ {0} /\ b \in Nat /\ b <= Len(v) /\ a <= b
    BY <1>1, <1>2
  <2>2. /\ SubSeq(v, a, b) \in Text
        /\ Len(SubSeq(v, a, b)) = IF a <= b THEN b - a + 1 ELSE 0
        /\ \A k \in 1 .. Len(SubSeq(v, a, b)) : SubSeq(v, a, b)[k] = v[a + k - 1]
    BY <2>1, Stretch
  <2> QED
    BY <1>2, <1>3, <2>1, <2>2
<1>5. /\ w \in [1 .. N + 1 -> Nat]
      /\ \A j \in 1 .. N : w[j] # 0 => Copied(value, v, w, j) \/ Masked(value, secret, v, w, j)
  BY <1>1 DEF Follows
<1> DEFINE T == {j \in Nat : j + 1 <= a => w[j + 1] = j + 1}
<1>6. \A m \in 1 .. a - 1 : v[m] # MaskByte /\ v[m] # Quote
  <2>1. MaskByte \notin WhiteSpace /\ Quote \notin WhiteSpace
    BY DEF MaskByte, Quote, WhiteSpace
  <2> QED
    BY <1>2, <2>1
<1>7. ASSUME NEW j \in Nat, j \in T, (j + 1) + 1 <= a
      PROVE  w[(j + 1) + 1] = (j + 1) + 1 /\ value[j + 1] = v[j + 1]
  <2>1. w[j + 1] = j + 1 /\ j + 1 \in 1 .. Len(v) /\ j + 1 \in 1 .. a - 1 /\ j + 1 # 0
    BY <1>1, <1>2, <1>7
  <2>2. Copied(value, v, w, j + 1)
    BY <1>6, <2>1, CopiedAt
  <2> QED
    BY <2>1, <2>2 DEF Copied
<1>8. Nat \subseteq T
  <2>1. 0 \in T
    OBVIOUS
  <2>2. \A j \in Nat : j \in T => j + 1 \in T
    BY <1>2, <1>7
  <2> HIDE DEF T
  <2> QED
    BY <2>1, <2>2, Induct
<1>9. w[a] = a
  <2>1. a - 1 \in Nat /\ (a - 1) + 1 = a /\ a <= a
    BY <1>2
  <2>2. a - 1 \in T
    BY <1>8, <2>1
  <2> QED
    BY <2>1, <2>2
<1>10. ASSUME NEW m \in 1 .. a - 1 PROVE value[m] # Quote
  <2>1. m - 1 \in Nat /\ (m - 1) + 1 = m /\ ((m - 1) + 1) + 1 <= a
    BY <1>2
  <2>2. m - 1 \in T
    BY <1>8, <2>1
  <2>3. value[m] = v[m]
    BY <1>7, <2>1, <2>2
  <2> QED
    BY <1>6, <2>3
<1> HIDE DEF T
<1>11. PICK x : x = [j \in 1 .. n + 1 |-> w[(a + j) - 1]]
  OBVIOUS
<1>12. \A j \in 1 .. n + 1 : x[j] = w[(a + j) - 1]
  BY <1>11
<1>13. x \in [1 .. n + 1 -> Nat]
  <2>1. ASSUME NEW j \in 1 .. n + 1 PROVE w[(a + j) - 1] \in Nat
    <3>1. (a + j) - 1 \in 1 .. N + 1
      BY <1>1, <1>2, <1>4
    <3> QED
      BY <1>5, <3>1
  <2> QED
    BY <1>11, <2>1
<1>14. ASSUME NEW j \in 1 .. n, x[j] # 0
       PROVE  Copied(value, text, x, j) \/ Masked(value, secret, text, x, j)
  <2>1. PICK i : i = (a + j) - 1
    OBVIOUS
  <2>2. i \in 1 .. N /\ j \in 1 .. n + 1 /\ j + 1 \in 1 .. n + 1 /\ (a + (j + 1)) - 1 = i + 1
    BY <1>1, <1>2, <1>4, <2>1
  <2>3. x[j] = w[i] /\ x[j + 1] = w[i + 1] /\ text[j] = v[i]
    <3>1. x[j] = w[(a + j) - 1] /\ x[j + 1] = w[(a + (j + 1)) - 1]
      BY <1>12, <2>2
    <3>2. text[j] = v[a + j - 1]
      BY <1>4
    <3>3. x[j] = w[i]
      BY <2>1, <3>1
    <3>4. x[j + 1] = w[i + 1]
      BY <2>2, <3>1
    <3>5. text[j] = v[i]
      BY <2>1, <1>2, <3>2
    <3> QED
      BY <3>3, <3>4, <3>5
  <2>4. CASE Copied(value, v, w, i)
    BY <2>3, <2>4 DEF Copied
  <2>5. CASE Masked(value, secret, v, w, i)
    <3>1. i + MaskLen - 1 <= N /\ \A k \in 0 .. MaskLen - 1 : v[i + k] = MaskByte
      BY <1>1, <2>5 DEF Masked
    <3>2. MaskLen \in Nat \ {0}
      BY MaskAssumption
    <3>3. i + MaskLen - 1 <= b
      <4>1. CASE i + MaskLen - 1 > b
        <5>1. MaskLen - 1 \in 0 .. MaskLen - 1 /\ i + (MaskLen - 1) \in b + 1 .. Len(v)
          BY <1>1, <1>2, <2>2, <3>1, <3>2, <4>1
        <5>2. v[i + (MaskLen - 1)] = MaskByte /\ v[i + (MaskLen - 1)] \in WhiteSpace
          BY <3>1, <5>1 DEF TrimmedTo
        <5> QED
          BY <5>2 DEF MaskByte, WhiteSpace
      <4> QED
        BY <1>2, <2>2, <3>2, <4>1
    <3>4. j + MaskLen - 1 <= n /\ j + MaskLen \in 1 .. n + 1 /\ (a + (j + MaskLen)) - 1 = i + MaskLen
      BY <1>2, <1>4, <2>1, <3>2, <3>3
    <3>5. ASSUME NEW k \in 0 .. MaskLen - 1 PROVE text[j + k] = MaskByte
      <4>1. j + k \in 1 .. n /\ a + (j + k) - 1 = i + k
        <5>1. k \in Nat /\ k <= MaskLen - 1 /\ j \in Nat /\ j >= 1 /\ a \in Nat /\ n \in Nat
          BY <1>2, <1>4, <3>2
        <5>2. j + k \in 1 .. n
          BY <3>2, <3>4, <5>1
        <5> QED
          BY <2>1, <5>1, <5>2
      <4> QED
        BY <1>4, <3>1, <4>1
    <3>6. x[j + MaskLen] = w[i + MaskLen]
      BY <1>12, <3>4
    <3> QED
      BY <1>3, <2>3, <2>5, <3>4, <3>5, <3>6 DEF Masked
  <2> QED
    BY <1>5, <1>14, <2>2, <2>3, <2>4, <2>5
<1>15. Follows(value, secret, text, x)
  BY <1>3, <1>13, <1>14 DEF Follows
<1>16. n # 0 /\ 1 \in 1 .. n + 1 /\ (a + 1) - 1 = a /\ n + 1 \in 1 .. n + 1 /\ (a + (n + 1)) - 1 = b + 1
  BY <1>2, <1>4
<1>17. x[1] = a /\ x[n + 1] = w[b + 1]
  BY <1>9, <1>12, <1>16
<1>18. a # 0
  BY <1>2
<1>19. Placed(value, secret, text, x)
  BY <1>3, <1>4, <1>10, <1>15, <1>16, <1>17, <1>18 DEF Placed
<1> QED
  BY <1>3, <1>17, <1>19

(* So what Trim leaves of a masked text is placed in the text. *)
LEMMA TrimLed ==
    ASSUME NEW value \in Text, NEW secret, NEW v \in Text, LedWhole(value, secret, v), Trim(v) # <<>>
    PROVE  \E x : Placed(value, secret, Trim(v), x)
<1>1. PICK w : Follows(value, secret, v, w) /\ w[1] = 1
  BY DEF LedWhole
<1>2. PICK a, b : TrimmedTo(v, a, b)
  BY TrimPlaces
<1> QED
  BY <1>1, <1>2, TrimPlaced

(* So is what it leaves of the text itself, with no quote behind it. *)
LEMMA TrimSelf ==
    ASSUME NEW v \in Text, NEW secret, Trim(v) # <<>>
    PROVE  \E x : Placed(v, secret, Trim(v), x) /\ TailFree(v, Trim(v), x)
<1>1. PICK w : w = [j \in 1 .. Len(v) + 1 |-> j]
  OBVIOUS
<1>2. PICK n : n = Len(v) /\ n \in Nat
  BY Joined
<1>3. w \in [1 .. n + 1 -> Nat] /\ \A j \in 1 .. n + 1 : w[j] = j
  BY <1>1, <1>2
<1>4. ASSUME NEW j \in 1 .. n PROVE Copied(v, v, w, j)
  <2>1. j \in 1 .. n + 1 /\ j + 1 \in 1 .. n + 1
    BY <1>2
  <2>2. w[j] = j /\ w[j + 1] = j + 1
    BY <1>3, <2>1
  <2> QED
    BY <1>2, <2>2 DEF Copied
<1>5. Follows(v, secret, v, w)
  BY <1>2, <1>3, <1>4 DEF Follows
<1>6. w[1] = 1
  BY <1>2, <1>3
<1>7. PICK a, b : TrimmedTo(v, a, b)
  BY TrimPlaces
<1>8. PICK x : Placed(v, secret, Trim(v), x) /\ x[Len(Trim(v)) + 1] = w[b + 1]
  BY <1>5, <1>6, <1>7, TrimPlaced
<1>9. w[b + 1] = b + 1
  <2>1. b + 1 \in 1 .. n + 1
    BY <1>2, <1>7 DEF TrimmedTo
  <2> QED
    BY <1>3, <2>1
<1>10. ASSUME NEW m \in b + 1 .. Len(v) PROVE v[m] # Quote
  <2>1. v[m] \in WhiteSpace
    BY <1>7 DEF TrimmedTo
  <2> QED
    BY <2>1 DEF WhiteSpace, Quote
<1>11. TailFree(v, Trim(v), x)
  BY <1>8, <1>9, <1>10 DEF TailFree
<1> QED
  BY <1>8, <1>11

-----------------------------------------------------------------------------
(* A stretch between two quotes gives no more away than the whole text. *)
Good(t, secret) == Free(t, secret) /\ Free(PercentDecoded(t), secret)

(* A stretch behind a quote comes from the text, as one masked by that quote would. *)
LEMMA StretchOrigin ==
    ASSUME NEW s \in Text, NEW a \in 1 .. Len(s), s[a] = Quote,
           NEW t \in Text, a + Len(t) <= Len(s), \A k \in 1 .. Len(t) : t[k] = s[a + k],
           NEW o, o = [j \in 1 .. Len(t) |-> a + j]
    PROVE  Origin(s, <<Quote>>, t, o)
<1>1. PICK n, N : n = Len(t) /\ N = Len(s) /\ n \in Nat /\ N \in Nat
  BY Joined
<1>2. \A j \in 1 .. n : o[j] = a + j
  BY <1>1
<1>3. o \in [1 .. n -> Nat]
  BY <1>1
<1>4. MatchEnds(s, <<Quote>>, a)
  <2>1. Len(<<Quote>>) = 1 /\ <<Quote>>[1] = Quote /\ <<Quote>> \in Text /\ <<Quote>> # <<>>
    BY DEF Quote, Text
  <2>2. PICK q : q = <<Quote>>
    OBVIOUS
  <2>3. a \in Nat \ {0} /\ a + 1 - 1 = a /\ a <= Len(s)
    BY <1>1
  <2>4. \A k \in 1 .. 1 : s[a + k - 1] = q[k]
    <3>1. ASSUME NEW k \in 1 .. 1 PROVE k = 1 /\ a + k - 1 = a
      BY <2>3
    <3> QED
      BY <2>1, <2>2, <3>1
  <2>5. OccursAt(s, q, a)
    BY <2>1, <2>2, <2>3, <2>4, OccursByByte
  <2> QED
    BY <2>1, <2>2, <2>3, <2>5 DEF MatchEnds
<1>5. ASSUME NEW j \in 1 .. n PROVE ComesFrom(s, <<Quote>>, t, o, j)
  <2>1. o[j] = a + j /\ o[j] # 0 /\ o[j] \in 1 .. Len(s) /\ t[j] = s[o[j]]
    BY <1>1, <1>2
  <2>2. j > 1 => o[j - 1] = o[j] - 1
    BY <1>1, <1>2
  <2>3. j = 1 => o[j] - 1 = a
    BY <1>1, <1>2
  <2>4. j < n => o[j + 1] = o[j] + 1
    BY <1>1, <1>2
  <2>5. j > 1 \/ j = 1
    OBVIOUS
  <2>6. MatchEnds(s, <<Quote>>, o[j] - 1) \/ (j > 1 /\ o[j - 1] = o[j] - 1)
    BY <1>4, <2>2, <2>3, <2>5
  <2> QED
    BY <1>1, <2>1, <2>4, <2>6, Zenon DEF ComesFrom
<1> QED
  BY <1>1, <1>3, <1>5 DEF Origin

(* A stretch of a text without the key has no key. *)
LEMMA StretchFreeToo ==
    ASSUME NEW s \in Text, NEW a \in Nat, NEW t \in Text, a + Len(t) <= Len(s),
           \A k \in 1 .. Len(t) : t[k] = s[a + k],
           NEW secret \in Text, secret # <<>>, Free(s, secret)
    PROVE  Free(t, secret)
<1>1. PICK n, N, l : n = Len(t) /\ N = Len(s) /\ l = Len(secret) /\ n \in Nat /\ N \in Nat /\ l \in Nat
  BY Joined
<1> SUFFICES ASSUME NEW i \in 1 .. Len(t), OccursAt(t, secret, i) PROVE FALSE
  BY DEF Free
<1>2. i \in Nat \ {0} /\ i + l - 1 <= n /\ \A k \in 1 .. l : t[i + k - 1] = secret[k]
  <2>1. i \in Nat \ {0}
    OBVIOUS
  <2> QED
    BY <1>1, <2>1, OccursByByte
<1>3. l # 0
  BY <1>1 DEF Text
<1>4. PICK p : p = a + i
  OBVIOUS
<1>5. p \in Nat \ {0} /\ p + l - 1 <= N /\ p \in 1 .. Len(s)
  BY <1>1, <1>2, <1>3, <1>4
<1>6. ASSUME NEW k \in 1 .. l PROVE s[p + k - 1] = secret[k]
  <2>1. i + k - 1 \in 1 .. n /\ a + (i + k - 1) = p + k - 1
    BY <1>1, <1>2, <1>4
  <2>2. t[i + k - 1] = s[a + (i + k - 1)]
    BY <1>1, <2>1
  <2> QED
    BY <1>2, <2>1, <2>2
<1>7. OccursAt(s, secret, p)
  BY <1>1, <1>5, <1>6, OccursByByte
<1> QED
  BY <1>5, <1>7 DEF Free

(* A stretch between two quotes shows the key in no reading when the text does not. *)
LEMMA StretchHides ==
    ASSUME NEW s \in Text, NEW a \in 1 .. Len(s), s[a] = Quote, NEW b \in a + 1 .. Len(s), s[b] = Quote,
           NEW t \in Text, Len(t) = b - a - 1, \A k \in 1 .. Len(t) : t[k] = s[a + k],
           NEW secret \in Text, secret # <<>>, Plain(secret), Good(s, secret)
    PROVE  Good(t, secret)
<1>1. PICK n, N : n = Len(t) /\ N = Len(s) /\ n \in Nat /\ N \in Nat
  BY Joined
<1>2. a + Len(t) <= Len(s) /\ a \in Nat /\ a + n + 1 = b
  BY <1>1
<1>3. Free(t, secret)
  BY <1>2, StretchFreeToo DEF Good
<1>4. PICK f : PercentDecoded(s) = f[1] /\ Decodes(s, f)
  BY DecodedFrom
<1>5. PICK g : PercentDecoded(t) = g[1] /\ Decodes(t, g)
  BY DecodedFrom
<1>6. Free(f[1], secret)
  BY <1>4 DEF Good
<1>7. PICK o : o = [j \in 1 .. Len(t) |-> a + j]
  OBVIOUS
<1>8. Origin(s, <<Quote>>, t, o)
  BY <1>2, <1>7, StretchOrigin
<1>9. PICK l : l = Len(secret) /\ l \in Nat /\ l # 0
  <2>1. Len(secret) # 0 /\ Len(secret) \in Nat
    BY DEF Text
  <2> QED
    BY <2>1
<1>10. ASSUME NEW j \in 1 .. Len(t), Passed(t, j), OccursAt(g[j], secret, 1) PROVE FALSE
  <2>1. PICK h : h = g[j] /\ h \in Text
    BY <1>5, DecodedAhead
  <2>2. l <= Len(h) /\ \A k \in 1 .. l : h[k] = secret[k]
    <3>1. 1 \in Nat \ {0}
      OBVIOUS
    <3>2. 1 + l - 1 <= Len(h) /\ \A k \in 1 .. l : h[1 + k - 1] = secret[k]
      BY <1>9, <1>10, <2>1, <3>1, OccursByByte
    <3>3. (\A k \in 1 .. l : 1 + k - 1 = k) /\ 1 + l - 1 = l
      BY <1>9
    <3> QED
      BY <3>2, <3>3
  <2>3. AllTold(g[j], l)
    <3>1. \A k \in 1 .. l : secret[k] # Percent /\ secret[k] # MaskByte
      <4>1. \A k \in 1 .. l : secret[k] \in Unreserved
        BY <1>9, PlainBytes
      <4> QED
        BY <4>1, PlainByte
    <3> QED
      BY <2>1, <2>2, <3>1 DEF AllTold, Told
  <2>4. PICK p, u : p = o[j] /\ u = f[p]
    OBVIOUS
  <2>5. p \in 1 .. Len(s) /\ l <= Len(u) /\ \A e \in 1 .. l : u[e] = h[e]
    <3>1. o[j] \in 1 .. Len(s) /\ Alike(f[o[j]], g[j], l)
      BY <1>4, <1>5, <1>8, <1>9, <2>3, DecodingKept, ZenonT(40)
    <3> QED
      BY <2>1, <2>4, <3>1 DEF Alike
  <2>6. p = a + j /\ j \in 1 .. n
    BY <1>1, <1>7, <2>4
  <2>7. ASSUME NEW d \in {1, 2}, Escape(s, p - d) PROVE FALSE
    <3>1. /\ p - d \in Nat /\ p - d > 0 /\ p - d + 2 <= N /\ s[p - d] = Percent
          /\ Digit(s[p - d + 1]) /\ Digit(s[p - d + 2])
      BY <1>1, <2>7 DEF Escape
    <3>2. ~Digit(Quote) /\ Quote # Percent
      BY DEF Digit, Quote, HexValue, Percent
    <3>3. p - d # a /\ p - d + 1 # a /\ p - d + 2 # b /\ p - d + 1 # b
      BY <3>1, <3>2
    <3>4. PICK q : q = j - d
      OBVIOUS
    <3>5. q \in Nat /\ q > 0 /\ q + 2 <= n /\ p - d = a + q /\ p - d + 1 = a + (q + 1)
          /\ p - d + 2 = a + (q + 2)
      BY <1>1, <1>2, <2>6, <3>3, <3>4
    <3>6. t[q] = s[a + q] /\ t[q + 1] = s[a + (q + 1)] /\ t[q + 2] = s[a + (q + 2)]
      BY <1>1, <3>5
    <3>7. Escape(t, q)
      BY <1>1, <3>1, <3>5, <3>6 DEF Escape
    <3> QED
      BY <1>10, <3>4, <3>7 DEF Passed
  <2>8. Passed(s, p)
    <3>1. ~Escape(s, p - 1) /\ ~Escape(s, p - 2)
      BY <2>7
    <3>2. p \in Nat /\ p > 0
      BY <1>2, <2>6
    <3> QED
      BY <3>1, <3>2 DEF Passed
  <2>9. Free(u, secret)
    BY <1>4, <1>6, <2>4, <2>5, <2>8, PassedDecoded
  <2>10. u \in Text
    BY <1>4, <2>4, <2>5, DecodedAhead
  <2>11. OccursAt(u, secret, 1)
    <3>1. 1 + Len(secret) - 1 <= Len(u) /\ \A k \in 1 .. Len(secret) : u[1 + k - 1] = secret[k]
      <4>1. \A k \in 1 .. l : 1 + k - 1 = k
        OBVIOUS
      <4>2. 1 + l - 1 = l
        BY <1>9
      <4> QED
        BY <1>9, <2>2, <2>5, <4>1, <4>2
    <3>2. 1 \in Nat \ {0}
      OBVIOUS
    <3> QED
      BY <2>10, <3>1, <3>2, OccursByByte
  <2>12. 1 \in 1 .. Len(u)
    BY <1>9, <2>5, <2>10, Joined
  <2> QED
    BY <2>9, <2>11, <2>12 DEF Free
<1>11. Free(g[1], secret)
  BY <1>5, <1>10, DecodedStart
<1> QED
  BY <1>3, <1>5, <1>11 DEF Good

-----------------------------------------------------------------------------
(* A key of bytes that need no encoding is encoded as it is. *)
LEMMA PlainEncode ==
    ASSUME NEW s \in Bytes, Plain(s)
    PROVE  UrlEncode(s) = s
<1>1. s \in Text /\ Len(s) \in Nat
  BY BytesAreText, Joined
<1>2. PICK N : N = Len(s) /\ N \in Nat
  BY <1>1
<1>3. PICK f : UrlEncode(s) = f[0] /\ Encodes(s, f)
  BY EncodedFrom
<1>4. \A k \in 1 .. N : s[k] \in Unreserved
  BY <1>1, <1>2, PlainBytes
<1> DEFINE SpelledOn(i) == Spelled(s, i + 1, N - i, f[i])
           T == {i \in Nat : i <= N => SpelledOn(i)}
<1>5. ASSUME NEW i \in Nat, i <= N => \A k \in Nat : k > i => k \in T PROVE i \in T
  <2> SUFFICES ASSUME i <= N PROVE SpelledOn(i)
    OBVIOUS
  <2>1. f[i] \in Text /\ f[i] = Encoding(s, f, i) /\ f[i + 1] \in Text
    BY <1>3 DEF Encodes
  <2>2. CASE i >= N
    <3>1. f[i] = <<>> /\ N - i = 0
      BY <1>2, <2>1, <2>2 DEF Encoding
    <3> QED
      BY <2>1, <3>1 DEF Spelled
  <2>3. CASE ~(i >= N)
    <3>1. i + 1 \in Nat /\ i + 1 > i /\ i + 1 <= N /\ i + 1 \in 1 .. N /\ N - (i + 1) = N - i - 1
      BY <1>2, <2>3
    <3>2. i + 1 \in T
      <4> HIDE DEF T
      <4> QED
        BY <1>5, <3>1
    <3>3. PICK t : t = f[i + 1] /\ t \in Text
      BY <2>1
    <3>4. Len(t) = N - (i + 1) /\ \A k \in 1 .. N - (i + 1) : t[k] = s[(i + 1) + 1 + k - 1]
      BY <3>1, <3>2, <3>3 DEF Spelled
    <3>5. PICK x : x = s[i + 1] /\ x \in Int
      BY <1>1, <1>2, <3>1 DEF Text
    <3>6. f[i] = <<x>> \o t
      <4>1. Encoded(x) = <<x>>
        BY <1>4, <3>1, <3>5 DEF Encoded
      <4> QED
        BY <1>2, <2>1, <2>3, <3>3, <3>5, <4>1 DEF Encoding
    <3>7. <<x>> \in Text /\ Len(<<x>>) = 1 /\ <<x>>[1] = x
      BY <3>5 DEF Text
    <3>8. Len(f[i]) = N - i
      <4>1. Len(<<x>> \o t) = 1 + Len(t)
        BY <3>3, <3>7, Joined
      <4> QED
        BY <1>2, <3>1, <3>4, <3>6, <4>1
    <3>9. ASSUME NEW k \in 1 .. N - i PROVE f[i][k] = s[i + 1 + k - 1]
      <4>1. (<<x>> \o t)[k] = IF k <= 1 THEN x ELSE t[k - 1]
        <5>1. t \in Seq(Int) /\ Len(t) = N - i - 1
          BY <3>1, <3>3, <3>4 DEF Text
        <5> QED
          BY <1>2, <3>5, <5>1
      <4>2. CASE k = 1
        BY <3>5, <3>6, <4>1, <4>2
      <4>3. CASE k # 1
        <5>1. k - 1 \in 1 .. N - (i + 1) /\ (i + 1) + 1 + (k - 1) - 1 = i + 1 + k - 1 /\ ~(k <= 1)
          BY <1>2, <3>1, <4>3
        <5>2. t[k - 1] = s[(i + 1) + 1 + (k - 1) - 1]
          BY <3>4, <5>1
        <5> QED
          BY <3>6, <4>1, <5>1, <5>2
      <4> QED
        BY <4>2, <4>3
    <3> QED
      BY <2>1, <3>8, <3>9 DEF Spelled
  <2> QED
    BY <2>2, <2>3
<1> HIDE DEF T
<1>6. Nat \subseteq T
  BY <1>2, <1>5, Backwards
<1>7. Spelled(s, 1, N, f[0])
  <2>1. 0 \in T /\ 0 <= N /\ 0 + 1 = 1 /\ N - 0 = N
    BY <1>2, <1>6
  <2>2. Spelled(s, 0 + 1, N - 0, f[0])
    BY <2>1 DEF T
  <2> QED
    BY <2>1, <2>2
<1>8. PICK e : e = f[0]
  OBVIOUS
<1>9. e \in Text /\ Len(e) = Len(s) /\ \A k \in 1 .. Len(s) : e[k] = s[k]
  <2>1. e \in Text /\ Len(e) = N /\ \A k \in 1 .. N : e[k] = s[1 + k - 1]
    BY <1>7, <1>8 DEF Spelled
  <2> QED
    BY <1>2, <2>1
<1> QED
  BY <1>1, <1>3, <1>8, <1>9, SameText

(* So it is masked where it is, or takes the text that decodes to it with it. *)
LEMMA RedactPlain ==
    ASSUME NEW value \in Text, NEW secret \in Bytes, secret # <<>>, Plain(secret)
    PROVE  RedactErrorText(value, secret)
               = IF PercentDecoded(value) # value /\ Includes(PercentDecoded(value), secret)
                 THEN Mask ELSE MaskMatches(value, secret)
<1>1. UrlEncode(secret) = secret
  BY PlainEncode
<1> QED
  BY <1>1 DEF RedactErrorText

(* What PercentDecoded returns is a text. *)
LEMMA DecodedText ==
    ASSUME NEW s \in Text
    PROVE  PercentDecoded(s) \in Text
<1>1. PICK f : PercentDecoded(s) = f[1] /\ Decodes(s, f)
  BY DecodedFrom
<1> QED
  BY <1>1 DEF Decodes

(* A text is left as it is when and only when it shows the key neither as it is nor
   decoded.                                                                *)
LEMMA GoodRedact ==
    ASSUME NEW value \in Text, NEW secret \in Bytes, secret # <<>>, Plain(secret)
    PROVE  RedactErrorText(value, secret) = value <=> Good(value, secret)
<1>1. secret \in Text
  BY BytesAreText
<1>2. MaskByte \notin Range(secret) /\ Percent \notin Range(secret)
  BY <1>1, PlainBytes
<1>3. PICK decoded : decoded = PercentDecoded(value) /\ decoded \in Text
  BY DecodedText
<1>4. /\ Includes(value, secret) <=> ~Free(value, secret)
      /\ Includes(decoded, secret) <=> ~Free(decoded, secret)
  BY <1>3, FreeOf
<1>5. ASSUME RedactErrorText(value, secret) = value PROVE Good(value, secret)
  <2>1. ~Includes(value, secret) /\ ~Includes(PercentDecoded(value), secret)
    BY <1>2, <1>5, RedactHides, RedactHidesDecoded
  <2> QED
    BY <1>3, <1>4, <2>1 DEF Good
<1>6. ASSUME Good(value, secret) PROVE RedactErrorText(value, secret) = value
  <2>1. ~Includes(value, secret) /\ ~Includes(PercentDecoded(value), secret)
    BY <1>3, <1>4, <1>6 DEF Good
  <2>2. MaskMatches(value, secret) = value
    <3>1. \E loop : MaskMatches(value, secret) = IF Includes(value, secret) THEN loop[0][<<>>] ELSE value
      BY <1>1, MaskMatchesLoop
    <3> QED
      BY <2>1, <3>1
  <2> QED
    BY <2>1, <2>2, RedactPlain
<1> QED
  BY <1>5, <1>6

(* A redacted text is the mask or follows the text. *)
LEMMA RedactLed ==
    ASSUME NEW value \in Text, NEW secret \in Bytes, secret # <<>>, Plain(secret)
    PROVE  /\ RedactErrorText(value, secret) \in Text
           /\ \/ RedactErrorText(value, secret) = Mask
              \/ LedWhole(value, secret, RedactErrorText(value, secret))
<1>1. secret \in Text
  BY BytesAreText
<1>2. RedactErrorText(value, secret) \in {Mask, MaskMatches(value, secret)}
  BY RedactPlain
<1> QED
  BY <1>1, <1>2, MaskMatchesLed, RedactBounded

(* What lies between two quotes of the text. *)
Between(text, a, b) == SubSeq(text, a + 1, b - 1)
StretchesGood(text, secret) ==
    \A a, b \in 1 .. Len(text) :
        a < b /\ text[a] = Quote /\ text[b] = Quote => Good(Between(text, a, b), secret)

(* No stretch between two quotes of what Trim leaves shows what the text does not. *)
LEMMA TrimGood ==
    ASSUME NEW v \in Text, NEW secret \in Text, secret # <<>>, Plain(secret), Good(v, secret),
           Trim(v) # <<>>
    PROVE  StretchesGood(Trim(v), secret)
<1>1. PICK c, d : TrimmedTo(v, c, d)
  BY TrimPlaces
<1>2. PICK text : text = Trim(v)
  OBVIOUS
<1>3. c \in 1 .. d /\ d \in 1 .. Len(v) /\ text = SubSeq(v, c, d) /\ Len(v) \in Nat
  <2>1. Len(v) \in Nat
    BY Joined
  <2> QED
    BY <1>1, <1>2, <2>1 DEF TrimmedTo
<1>4. text \in Text /\ Len(text) = d - c + 1 /\ \A k \in 1 .. Len(text) : text[k] = v[c + k - 1]
  <2>1. c \in Nat \ {0} /\ d \in Nat /\ d <= Len(v) /\ c <= d
    BY <1>3
  <2> QED
    BY <1>3, <2>1, Stretch
<1>5. ASSUME NEW a \in 1 .. Len(text), NEW b \in 1 .. Len(text),
             a < b, text[a] = Quote, text[b] = Quote
      PROVE  Good(Between(text, a, b), secret)
  <2>1. PICK t : t = SubSeq(text, a + 1, b - 1)
    OBVIOUS
  <2>2. t \in Text /\ Len(t) = b - a - 1 /\ \A k \in 1 .. Len(t) : t[k] = text[(a + 1) + k - 1]
    <3>1. a + 1 \in Nat \ {0} /\ b - 1 \in Nat /\ b - 1 <= Len(text)
      BY <1>3, <1>4, <1>5
    <3>2. /\ t \in Text /\ Len(t) = IF a + 1 <= b - 1 THEN (b - 1) - (a + 1) + 1 ELSE 0
          /\ \A k \in 1 .. Len(t) : t[k] = text[(a + 1) + k - 1]
      BY <1>4, <2>1, <3>1, Stretch
    <3> QED
      BY <1>3, <1>4, <1>5, <3>2
  <2>3. PICK p, q : p = c + a - 1 /\ q = c + b - 1
    OBVIOUS
  <2>4. p \in 1 .. Len(v) /\ q \in p + 1 .. Len(v) /\ Len(t) = q - p - 1 /\ v[p] = Quote /\ v[q] = Quote
    BY <1>3, <1>4, <1>5, <2>2, <2>3
  <2>5. ASSUME NEW k \in 1 .. Len(t) PROVE t[k] = v[p + k]
    <3>1. a + k \in 1 .. Len(text) /\ (a + 1) + k - 1 = a + k /\ c + (a + k) - 1 = p + k
      BY <1>3, <1>4, <1>5, <2>2, <2>3
    <3> QED
      BY <1>4, <2>2, <3>1
  <2>6. Good(t, secret)
    BY <2>2, <2>4, <2>5, StretchHides
  <2> QED
    BY <2>1, <2>6 DEF Between
<1> QED
  BY <1>2, <1>5 DEF StretchesGood

-----------------------------------------------------------------------------
(* The rounds of HiddenByEscapes: from one token to what is behind it. *)
TokenHides(s, secret, f, start, end) == end = 0 \/ Suspicious(s, start, end, secret) \/ f[end + 1]
HidRound(s, secret, f, i) ==
    /\ Find(s, <<Quote>>, i) # 0
    /\ TokenHides(s, secret, f, Find(s, <<Quote>>, i), TokenEnd(s, Find(s, <<Quote>>, i) + 1))
IsHid(s, secret, f) == f = [i \in Nat |-> HidRound(s, secret, f, i)]
Hid(s, secret) == CHOOSE f : IsHid(s, secret, f)

(* The next quote and the end of its token lie ahead. *)
LEMMA QuoteAhead ==
    ASSUME NEW s \in Text, NEW i \in Nat, NEW q, q = Find(s, <<Quote>>, i), q # 0,
           NEW e, e = TokenEnd(s, q + 1)
    PROVE  q \in i .. Len(s) /\ q \in Nat /\ e \in Nat /\ (e # 0 => e + 1 \in Nat /\ e + 1 > i)
<1>1. PICK places : places = {j \in i .. Len(s) : OccursAt(s, <<Quote>>, j)}
  OBVIOUS
<1>2. Len(s) \in Nat
  BY Joined
<1>3. q = IF places = {} THEN 0 ELSE Min(places)
  BY <1>1 DEF Find
<1>4. places \subseteq Nat
  BY <1>1, <1>2
<1>5. q \in places
  BY <1>3, <1>4, LeastOf
<1>6. q \in i .. Len(s) /\ q \in Nat /\ q + 1 \in Nat
  BY <1>1, <1>4, <1>5
<1>7. e \in Nat /\ (e # 0 => e >= q + 1)
  BY <1>6, TokenEndAt
<1> QED
  BY <1>6, <1>7

(* HiddenByEscapes goes on behind each token, so it is a function. *)
LEMMA HidExists ==
    ASSUME NEW s \in Text, NEW secret
    PROVE  \E f : IsHid(s, secret, f)
<1> DEFINE N == Len(s)
           F == [Nat -> BOOLEAN]
           step == [i \in Nat |-> [f \in F |-> HidRound(s, secret, f, i)]]
<1>1. N \in Nat
  BY Joined
<1>2. ASSUME NEW f \in F, NEW i \in Nat PROVE HidRound(s, secret, f, i) \in BOOLEAN
  BY DEF HidRound
<1>3. step \in [Nat -> [F -> BOOLEAN]]
  BY <1>2
<1>4. ASSUME NEW i \in Nat, NEW f \in F, NEW g \in F,
             i <= N => \A k \in Nat : k > i => f[k] = g[k]
      PROVE  step[i][f] = step[i][g]
  <2>1. PICK q : q = Find(s, <<Quote>>, i)
    OBVIOUS
  <2>2. PICK e : e = TokenEnd(s, q + 1)
    OBVIOUS
  <2>3. CASE q = 0
    <3>1. HidRound(s, secret, f, i) = FALSE /\ HidRound(s, secret, g, i) = FALSE
      BY <2>1, <2>3 DEF HidRound
    <3> QED
      BY <3>1
  <2>4. CASE q # 0
    <3>1. q \in i .. N /\ q \in Nat /\ e \in Nat /\ (e # 0 => e + 1 \in Nat /\ e + 1 > i)
      BY <2>1, <2>2, <2>4, QuoteAhead
    <3>2. e # 0 => f[e + 1] = g[e + 1]
      BY <1>1, <1>4, <3>1
    <3>3. TokenHides(s, secret, f, q, e) = TokenHides(s, secret, g, q, e)
      BY <3>2 DEF TokenHides
    <3>4. HidRound(s, secret, f, i) = HidRound(s, secret, g, i)
      BY <2>1, <2>2, <3>3 DEF HidRound
    <3> QED
      BY <3>4
  <2> QED
    BY <2>3, <2>4
<1>5. \E f : Solves(f, BOOLEAN, step)
  <2> HIDE DEF step, N
  <2>1. FALSE \in BOOLEAN
    OBVIOUS
  <2> QED
    BY <1>1, <1>3, <1>4, <2>1, Solution
<1>6. PICK f : Solves(f, BOOLEAN, step)
  BY <1>5
<1>7. f \in F /\ \A i \in Nat : f[i] = HidRound(s, secret, f, i)
  BY <1>6 DEF Solves
<1> QED
  BY <1>7 DEF IsHid

(* What HiddenByEscapes returns from a place on: nothing is hidden behind the last
   quote, and a token hides what it is or what is behind it.               *)
LEMMA HidAt ==
    ASSUME NEW s \in Text, NEW secret, NEW i \in Nat, NEW q, q = Find(s, <<Quote>>, i)
    PROVE  /\ q = 0 => ~Hid(s, secret)[i]
           /\ \A e : q # 0 /\ e = TokenEnd(s, q + 1) /\ e # 0 =>
                  (Hid(s, secret)[i] <=> Suspicious(s, q, e, secret) \/ Hid(s, secret)[e + 1])
<1>1. PICK f : f = Hid(s, secret)
  OBVIOUS
<1>2. IsHid(s, secret, f)
  BY <1>1, HidExists DEF Hid
<1>3. f[i] = HidRound(s, secret, f, i)
  BY <1>2 DEF IsHid
<1>4. q = 0 => ~f[i]
  BY <1>3 DEF HidRound
<1>5. ASSUME NEW e, q # 0, e = TokenEnd(s, q + 1), e # 0
      PROVE  f[i] <=> Suspicious(s, q, e, secret) \/ f[e + 1]
  <2>1. f[i] <=> TokenHides(s, secret, f, q, e)
    BY <1>3, <1>5 DEF HidRound
  <2> QED
    BY <1>5, <2>1 DEF TokenHides
<1> QED
  BY <1>1, <1>4, <1>5

(* It begins at the first byte. *)
LEMMA HidWhole ==
    ASSUME NEW s, NEW secret
    PROVE  HiddenByEscapes(s, secret) = Hid(s, secret)[1]
BY DEF HiddenByEscapes, Hid, IsHid, HidRound, TokenHides

(* A quote is what find finds of it. *)
LEMMA QuoteFound ==
    ASSUME NEW s \in Text, NEW i \in Nat \ {0}, NEW q, q = Find(s, <<Quote>>, i)
    PROVE  \/ q = 0 /\ \A m \in i .. Len(s) : s[m] # Quote
           \/ /\ q \in i .. Len(s) /\ s[q] = Quote /\ q # 0
              /\ \A m \in i .. q - 1 : s[m] # Quote
<1>1. ASSUME NEW m \in Nat \ {0} PROVE OccursAt(s, <<Quote>>, m) <=> m <= Len(s) /\ s[m] = Quote
  <2>1. PICK t : t = <<Quote>>
    OBVIOUS
  <2>2. t \in Text /\ Len(t) = 1 /\ t[1] = Quote /\ t # <<>>
    BY <2>1 DEF Text, Quote
  <2>3. OccursAt(s, t, m)
           <=> m + Len(t) - 1 <= Len(s) /\ \A k \in 1 .. Len(t) : s[m + k - 1] = t[k]
    BY <2>2, OccursByByte
  <2>4. m + Len(t) - 1 = m /\ m + 1 - 1 = m
    BY <2>2
  <2>5. (\A k \in 1 .. Len(t) : s[m + k - 1] = t[k]) <=> s[m] = Quote
    <3>1. 1 .. Len(t) = {1}
      BY <2>2
    <3> QED
      BY <2>2, <2>4, <3>1
  <2> QED
    BY <2>1, <2>3, <2>4, <2>5
<1>2. Len(s) \in Nat
  BY Joined
<1>3. \/ q = 0 /\ \A m \in i .. Len(s) : ~OccursAt(s, <<Quote>>, m)
      \/ /\ q \in i .. Len(s) /\ q # 0 /\ OccursAt(s, <<Quote>>, q)
         /\ \A m \in i .. q - 1 : ~OccursAt(s, <<Quote>>, m)
  BY FindPlace
<1>4. CASE q = 0 /\ \A m \in i .. Len(s) : ~OccursAt(s, <<Quote>>, m)
  <2>1. ASSUME NEW m \in i .. Len(s) PROVE s[m] # Quote
    <3>1. m \in Nat \ {0} /\ m <= Len(s)
      BY <1>2
    <3> QED
      BY <1>1, <1>4, <3>1
  <2> QED
    BY <1>4, <2>1
<1>5. CASE /\ q \in i .. Len(s) /\ q # 0 /\ OccursAt(s, <<Quote>>, q)
           /\ \A m \in i .. q - 1 : ~OccursAt(s, <<Quote>>, m)
  <2>1. s[q] = Quote
    <3>1. q \in Nat \ {0} /\ q <= Len(s)
      BY <1>2, <1>5
    <3> QED
      BY <1>1, <1>5, <3>1
  <2>2. ASSUME NEW m \in i .. q - 1 PROVE s[m] # Quote
    <3>1. m \in Nat \ {0} /\ m <= Len(s)
      BY <1>2, <1>5
    <3> QED
      BY <1>1, <1>5, <3>1
  <2> QED
    BY <1>5, <2>1, <2>2
<1> QED
  BY <1>3, <1>4, <1>5

(* Where the next quote is, when all before it is known. *)
LEMMA QuoteNext ==
    ASSUME NEW s \in Text, NEW i \in Nat \ {0}, NEW n \in Nat, n >= i,
           \A m \in i .. n - 1 : s[m] # Quote
    PROVE  /\ n <= Len(s) /\ s[n] = Quote => Find(s, <<Quote>>, i) = n
           /\ n > Len(s) => Find(s, <<Quote>>, i) = 0
<1>1. PICK q : q = Find(s, <<Quote>>, i)
  OBVIOUS
<1>2. Len(s) \in Nat
  BY Joined
<1>3. \/ q = 0 /\ \A m \in i .. Len(s) : s[m] # Quote
      \/ q \in i .. Len(s) /\ s[q] = Quote /\ q # 0 /\ \A m \in i .. q - 1 : s[m] # Quote
  BY <1>1, QuoteFound
<1>4. CASE q = 0 /\ \A m \in i .. Len(s) : s[m] # Quote
  <2>1. ~(n <= Len(s) /\ s[n] = Quote)
    BY <1>2, <1>4
  <2> QED
    BY <1>1, <1>4, <2>1
<1>5. CASE q \in i .. Len(s) /\ s[q] = Quote /\ q # 0 /\ \A m \in i .. q - 1 : s[m] # Quote
  <2>1. q >= n
    BY <1>2, <1>5
  <2>2. n <= Len(s)
    BY <1>2, <1>5, <2>1
  <2>3. s[n] = Quote => q = n
    BY <1>2, <1>5, <2>1
  <2> QED
    BY <1>1, <1>2, <2>2, <2>3
<1> QED
  BY <1>3, <1>4, <1>5

-----------------------------------------------------------------------------
(* A text that follows another, and a key of plain bytes. *)
Setting(value, secret, text, x) ==
    /\ value \in Text /\ secret \in Bytes /\ secret # <<>> /\ Plain(secret)
    /\ text \in Text /\ Follows(value, secret, text, x)

(* The quote at i is the one HiddenByEscapes comes to from p. *)
QuoteAt(value, text, x, i, p) ==
    /\ i \in 1 .. Len(text) /\ x[i] # 0 /\ text[i] = Quote
    /\ p \in Nat \ {0} /\ Find(value, <<Quote>>, p) = x[i]

(* The string token behind the quote at i, up to n, is one of both texts. *)
Token(value, secret, text, x, i, n) ==
    /\ n \in i + 2 .. Len(text) + 1 /\ text[n - 1] = Quote
    /\ x[i] \in 1 .. Len(value) /\ x[n - 1] \in 1 .. Len(value) /\ x[n] = x[n - 1] + 1
    /\ TokenEnd(value, x[i] + 1) = x[n - 1] /\ ParseString(value, x[i] + 1).next = x[n]
    /\ SameRead(value, secret, text, x[i] + 1, i + 1)
    /\ Slashed(text, i + 1, n - 1) => Slashed(value, x[i] + 1, x[n - 1])

(* A token of the masked text is a token of the text, and is read alike. *)
LEMMA TokenTracked ==
    ASSUME NEW value, NEW secret, NEW text, NEW x, Setting(value, secret, text, x),
           NEW i \in 1 .. Len(text), x[i] # 0, text[i] = Quote,
           NEW n, n = ParseString(text, i + 1).next, n # 0
    PROVE  Token(value, secret, text, x, i, n)
<1>1. /\ value \in Text /\ secret \in Text /\ secret # <<>> /\ Plain(secret)
      /\ text \in Text /\ Follows(value, secret, text, x)
  BY BytesAreText DEF Setting
<1>2. PICK N : N = Len(text) /\ N \in Nat
  BY <1>1, Joined
<1>3. Copied(value, text, x, i) /\ x[i] \in Nat
  BY <1>1, CopiedAt DEF Quote, MaskByte
<1>4. x[i] \in 1 .. Len(value) /\ x[i + 1] = x[i] + 1 /\ x[i + 1] # 0 /\ i + 1 \in Nat
  BY <1>2, <1>3 DEF Copied
<1>5. n \in Nat /\ n > i + 1 /\ n <= N + 1
  BY <1>1, <1>2, <1>4, StringRead
<1>6. i + 1 \in 1 .. N /\ n - 1 \in 1 .. N /\ n \in i + 2 .. N + 1 /\ n - 1 \in 1 .. N + 1
  BY <1>2, <1>5
<1>7. Tracked(value, secret, text, x, i + 1)
  BY <1>1, <1>4, Tracks
<1>8. TrackedTo(value, secret, text, x, i + 1, n)
  BY <1>2, <1>4, <1>6, <1>7 DEF Tracked
<1>9. /\ x[n - 1] # 0 /\ x[n] = x[n - 1] + 1 /\ Peek(text, n - 1) = Quote
      /\ ParseString(value, x[i] + 1).next = x[n]
      /\ SameRead(value, secret, text, x[i] + 1, i + 1)
      /\ Slashed(text, i + 1, n - 1) => Slashed(value, x[i] + 1, x[n - 1])
  BY <1>4, <1>8 DEF TrackedTo
<1>10. text[n - 1] = Quote
  BY <1>2, <1>6, <1>9 DEF Peek, Quote, AtEnd
<1>11. x[n - 1] \in 1 .. Len(value)
  <2>1. Copied(value, text, x, n - 1)
    BY <1>1, <1>2, <1>6, <1>9, <1>10, CopiedAt DEF Quote, MaskByte
  <2> QED
    BY <2>1 DEF Copied
<1>12. TokenEnd(value, x[i] + 1) = x[n - 1]
  <2>1. x[i] + 1 \in Nat /\ x[n - 1] \in Nat /\ x[n] # 0 /\ x[n] - 1 = x[n - 1]
    <3>1. Len(value) \in Nat
      BY <1>1, Joined
    <3> QED
      BY <1>3, <1>9, <1>11, <3>1
  <2>2. SpanOf(value, x[i] + 1)
    BY <1>1, <2>1, TokenSpan, SMTT(30)
  <2> QED
    BY <1>9, <2>1, <2>2 DEF SpanOf
<1> QED
  BY <1>2, <1>4, <1>6, <1>9, <1>10, <1>11, <1>12 DEF Token

(* When it is not suspicious what it reads shows nothing: escapes have been looked
   into, and without them it is a stretch of the text.                     *)
LEMMA TokenGood ==
    ASSUME NEW value, NEW secret, NEW text, NEW x, Setting(value, secret, text, x),
           StretchesGood(text, secret), NEW i \in 1 .. Len(text), text[i] = Quote,
           NEW n, n = ParseString(text, i + 1).next, Token(value, secret, text, x, i, n),
           ~Suspicious(value, x[i], x[n - 1], secret)
    PROVE  Good(ParseString(text, i + 1).text, secret)
<1>1. value \in Text /\ secret \in Bytes /\ secret # <<>> /\ Plain(secret) /\ text \in Text /\ secret \in Text
  BY BytesAreText DEF Setting
<1>2. PICK N, M : N = Len(text) /\ N \in Nat /\ M = Len(value) /\ M \in Nat
  BY <1>1, Joined
<1>3. PICK a, b : a = x[i] /\ b = x[n - 1]
  OBVIOUS
<1>4. /\ n \in i + 2 .. N + 1 /\ text[n - 1] = Quote
      /\ a \in 1 .. M /\ b \in 1 .. M
      /\ SameRead(value, secret, text, a + 1, i + 1)
      /\ Slashed(text, i + 1, n - 1) => Slashed(value, a + 1, b)
  BY <1>2, <1>3 DEF Token
<1>5. PICK read : read = ParseString(value, a + 1)
  OBVIOUS
<1>6. PICK own : own = ParseString(text, i + 1).text
  OBVIOUS
<1>7. ASSUME Slashed(text, i + 1, n - 1) PROVE Good(own, secret)
  <2>1. PICK m \in a + 1 .. b : Peek(value, m) = Backslash
    BY <1>4, <1>7 DEF Slashed
  <2>2. m \in a .. b /\ m \in Nat
    BY <1>2, <1>4
  <2>3. value[m] = Backslash
    <3>1. Peek(value, m) # AtEnd
      BY <2>1 DEF Backslash, AtEnd
    <3>2. value[m] = Peek(value, m)
      BY <1>1, <2>2, <3>1, Peeked
    <3> QED
      BY <2>1, <3>2
  <2>4. Backslash \in {value[k] : k \in a .. b}
    BY <2>2, <2>3
  <2>5. RedactErrorText(read.text, secret) = read.text
    BY <1>3, <1>5, <2>4 DEF Suspicious
  <2>6. read.text \in Text
    <3>1. a + 1 \in Nat
      BY <1>2, <1>4
    <3> QED
      BY <1>1, <1>5, <3>1, StringRead
  <2>7. Good(read.text, secret)
    BY <1>1, <2>5, <2>6, GoodRedact
  <2>8. ~Includes(read.text, secret)
    BY <2>6, <2>7, FreeOf DEF Good
  <2>9. read.text = own
    BY <1>4, <1>5, <1>6, <2>8 DEF SameRead
  <2> QED
    BY <2>7, <2>9
<1>8. ASSUME ~Slashed(text, i + 1, n - 1) PROVE Good(own, secret)
  <2>1. i + 1 \in Nat /\ n # 0 /\ i < n - 1 /\ n - 1 \in 1 .. N /\ (n - 1) - 1 = n - 2
    BY <1>2, <1>4
  <2>2. RawFrom(text, i + 1)
    BY <1>1, <2>1, RawToken
  <2>3. \A m \in i + 1 .. n - 1 : Peek(text, m) # Backslash
    BY <1>8 DEF Slashed
  <2>4. own = SubSeq(text, i + 1, n - 2)
    BY <1>6, <2>1, <2>2, <2>3 DEF RawFrom
  <2>5. own = Between(text, i, n - 1)
    BY <2>1, <2>4 DEF Between
  <2>6. Good(Between(text, i, n - 1), secret)
    BY <1>2, <1>4, <2>1 DEF StretchesGood
  <2> QED
    BY <2>5, <2>6
<1> QED
  BY <1>6, <1>7, <1>8

(* And when what it reads shows nothing it is not suspicious, in a text without the
   key.                                                                    *)
LEMMA TokenCalm ==
    ASSUME NEW value, NEW secret, NEW text, NEW x, Setting(value, secret, text, x),
           ~Includes(value, secret), NEW i \in 1 .. Len(text),
           NEW n, n = ParseString(text, i + 1).next, Token(value, secret, text, x, i, n),
           Good(ParseString(text, i + 1).text, secret)
    PROVE  ~Suspicious(value, x[i], x[n - 1], secret)
<1>1. value \in Text /\ secret \in Bytes /\ secret # <<>> /\ Plain(secret)
  BY DEF Setting
<1>2. PICK M : M = Len(value) /\ M \in Nat
  BY <1>1, Joined
<1>3. PICK a : a = x[i]
  OBVIOUS
<1>4. PICK read : read = ParseString(value, a + 1)
  OBVIOUS
<1>5. a \in 1 .. M /\ read.next # 0 /\ SameRead(value, secret, text, a + 1, i + 1)
  BY <1>2, <1>3, <1>4 DEF Token
<1>6. read.text = ParseString(text, i + 1).text
  BY <1>4, <1>5 DEF SameRead
<1>7. read.text \in Text
  <2>1. a + 1 \in Nat
    BY <1>2, <1>5
  <2> QED
    BY <1>1, <1>4, <2>1, StringRead
<1>8. RedactErrorText(read.text, secret) = read.text
  BY <1>1, <1>6, <1>7, GoodRedact
<1> QED
  BY <1>3, <1>4, <1>5, <1>8 DEF Suspicious

(* Nothing is hidden from p on, or there are no escapes to hide it. *)
Silent(value, secret, p) ==
    (\A m \in 1 .. Len(value) : value[m] # Backslash) \/ ~Hid(value, secret)[p]

(* Where nothing is hidden the next token is not, nor is anything behind it. *)
LEMMA TokenSilent ==
    ASSUME NEW value, NEW secret, NEW text, NEW x, Setting(value, secret, text, x),
           NEW i, NEW n, Token(value, secret, text, x, i, n),
           NEW p, QuoteAt(value, text, x, i, p), Silent(value, secret, p)
    PROVE  ~Suspicious(value, x[i], x[n - 1], secret) /\ Silent(value, secret, x[n])
<1>1. value \in Text
  BY DEF Setting
<1>2. PICK M : M = Len(value) /\ M \in Nat
  BY <1>1, Joined
<1>3. PICK a, b : a = x[i] /\ b = x[n - 1]
  OBVIOUS
<1>4. a \in 1 .. M /\ b \in 1 .. M /\ x[n] = b + 1 /\ TokenEnd(value, a + 1) = b
  BY <1>2, <1>3 DEF Token
<1>5. p \in Nat /\ a = Find(value, <<Quote>>, p)
  BY <1>3 DEF QuoteAt
<1>6. CASE \A m \in 1 .. Len(value) : value[m] # Backslash
  <2>1. Backslash \notin {value[k] : k \in a .. b}
    BY <1>2, <1>4, <1>6
  <2> QED
    BY <1>3, <1>6, <2>1 DEF Suspicious, Silent
<1>7. CASE ~Hid(value, secret)[p]
  <2>1. a # 0 /\ b # 0
    BY <1>4
  <2>2. Hid(value, secret)[p] <=> Suspicious(value, a, b, secret) \/ Hid(value, secret)[b + 1]
    BY <1>1, <1>4, <1>5, <2>1, HidAt
  <2> QED
    BY <1>3, <1>4, <1>7, <2>2 DEF Silent
<1> QED
  BY <1>6, <1>7 DEF Silent

(* And the other way round. *)
LEMMA TokenBehind ==
    ASSUME NEW value, NEW secret, NEW text, NEW x, Setting(value, secret, text, x),
           NEW i, NEW n, Token(value, secret, text, x, i, n),
           NEW p, QuoteAt(value, text, x, i, p),
           ~Suspicious(value, x[i], x[n - 1], secret), ~Hid(value, secret)[x[n]]
    PROVE  ~Hid(value, secret)[p]
<1>1. value \in Text
  BY DEF Setting
<1>2. PICK a, b : a = x[i] /\ b = x[n - 1]
  OBVIOUS
<1>3. a # 0 /\ b # 0 /\ x[n] = b + 1 /\ TokenEnd(value, a + 1) = b
  <2>1. Len(value) \in Nat
    BY <1>1, Joined
  <2> QED
    BY <1>2, <2>1 DEF Token
<1>4. p \in Nat /\ a = Find(value, <<Quote>>, p)
  BY <1>2 DEF QuoteAt
<1>5. Hid(value, secret)[p] <=> Suspicious(value, a, b, secret) \/ Hid(value, secret)[b + 1]
  BY <1>1, <1>3, <1>4, HidAt
<1> QED
  BY <1>2, <1>3, <1>5

(* Behind another byte the next quote is the next one of both texts. *)
LEMMA NextQuote ==
    ASSUME NEW value, NEW secret, NEW text, NEW x, Setting(value, secret, text, x),
           NEW j \in 1 .. Len(text), x[j] # 0, text[j] # Quote, text[j] # MaskByte,
           j + 1 \in 1 .. Len(text), text[j + 1] = Quote
    PROVE  QuoteAt(value, text, x, j + 1, x[j])
<1>1. value \in Text /\ text \in Text /\ Follows(value, secret, text, x)
  BY DEF Setting
<1>2. PICK M : M = Len(value) /\ M \in Nat
  BY <1>1, Joined
<1>3. Copied(value, text, x, j) /\ x[j] \in Nat
  BY <1>1, CopiedAt
<1>4. PICK a : a = x[j]
  OBVIOUS
<1>5. a \in 1 .. M /\ value[a] # Quote /\ x[j + 1] = a + 1 /\ x[j + 1] # 0
  BY <1>2, <1>3, <1>4 DEF Copied
<1>6. Copied(value, text, x, j + 1)
  BY <1>1, <1>5, CopiedAt DEF Quote, MaskByte
<1>7. a + 1 \in 1 .. M /\ value[a + 1] = Quote
  BY <1>2, <1>5, <1>6 DEF Copied
<1>8. a \in Nat \ {0} /\ a + 1 \in Nat /\ a + 1 >= a /\ a + 1 <= M
  BY <1>2, <1>5, <1>7
<1>9. \A m \in a .. (a + 1) - 1 : value[m] # Quote
  BY <1>5, <1>8
<1>10. Find(value, <<Quote>>, a) = a + 1
  BY <1>1, <1>2, <1>7, <1>8, <1>9, QuoteNext
<1> QED
  BY <1>4, <1>5, <1>8, <1>10 DEF QuoteAt

-----------------------------------------------------------------------------
(* No name and no value shows the key. *)
MembersGood(m, secret) == \A k \in 1 .. Len(m) : Good(m[k][1], secret) /\ Good(m[k][2], secret)

(* A list shows the key when its first member or one of the others does. *)
LEMMA MadeGood ==
    ASSUME NEW S, NEW one \in S, NEW others \in Seq(S), NEW secret
    PROVE  MembersGood(<<one>> \o others, secret)
               <=> /\ Good(one[1], secret) /\ Good(one[2], secret)
                   /\ MembersGood(others, secret)
<1>1. PICK m : m = <<one>> \o others
  OBVIOUS
<1>2. PICK n : n = Len(others) /\ n \in Nat
  OBVIOUS
<1>3. Len(m) = n + 1 /\ m[1] = one /\ \A k \in 1 .. n : m[k + 1] = others[k]
  BY <1>1, <1>2
<1>4. ASSUME MembersGood(m, secret)
      PROVE  Good(one[1], secret) /\ Good(one[2], secret) /\ MembersGood(others, secret)
  <2>1. \A k \in 1 .. n + 1 : Good(m[k][1], secret) /\ Good(m[k][2], secret)
    BY <1>3, <1>4 DEF MembersGood
  <2>2. 1 \in 1 .. n + 1 /\ \A k \in 1 .. n : k + 1 \in 1 .. n + 1
    BY <1>2
  <2>3. \A k \in 1 .. n : Good(others[k][1], secret) /\ Good(others[k][2], secret)
    BY <1>3, <2>1, <2>2
  <2> QED
    BY <1>2, <1>3, <2>1, <2>2, <2>3 DEF MembersGood
<1>5. ASSUME Good(one[1], secret), Good(one[2], secret), MembersGood(others, secret)
      PROVE  MembersGood(m, secret)
  <2>1. ASSUME NEW k \in 1 .. n + 1 PROVE Good(m[k][1], secret) /\ Good(m[k][2], secret)
    <3>1. CASE k = 1
      BY <1>3, <1>5, <3>1
    <3>2. CASE k # 1
      <4>1. k - 1 \in 1 .. n /\ (k - 1) + 1 = k
        BY <1>2, <3>2
      <4>2. m[k] = others[k - 1]
        BY <1>3, <4>1
      <4>3. Good(others[k - 1][1], secret) /\ Good(others[k - 1][2], secret)
        BY <1>2, <1>5, <4>1 DEF MembersGood
      <4> QED
        BY <4>2, <4>3
    <3> QED
      BY <3>1, <3>2
  <2> QED
    BY <1>3, <2>1 DEF MembersGood
<1> QED
  BY <1>1, <1>4, <1>5

(* A member of the text at i, up to v, is one of both texts. *)
Member(value, secret, text, x, i, nm, v) ==
    /\ i \in 1 .. Len(text) /\ text[i] = Quote
    /\ nm = ParseString(text, i + 1).next /\ Token(value, secret, text, x, i, nm)
    /\ nm + 1 \in 1 .. Len(text) /\ text[nm + 1] = Quote
    /\ QuoteAt(value, text, x, nm + 1, x[nm])
    /\ v = ParseString(text, (nm + 1) + 1).next /\ Token(value, secret, text, x, nm + 1, v)

(* A member is a name and a value, two tokens of both texts. *)
LEMMA MemberTracked ==
    ASSUME NEW value, NEW secret, NEW text, NEW x, Setting(value, secret, text, x),
           NEW i \in Nat, HasMember(text, i), x[i] # 0,
           NEW nm, nm = NameAt(text, i).next, NEW v, v = ValueAt(text, i).next
    PROVE  Member(value, secret, text, x, i, nm, v)
<1>1. value \in Text /\ text \in Text
  BY DEF Setting
<1>2. PICK N : N = Len(text) /\ N \in Nat
  BY <1>1, Joined
<1>3. /\ Peek(text, i) = Quote /\ nm = ParseString(text, i + 1).next /\ nm # 0
      /\ Peek(text, nm) = 58 /\ Peek(text, nm + 1) = Quote
      /\ v = ParseString(text, nm + 2).next /\ v # 0
  BY DEF HasMember, NameAt, ValueAt
<1>4. i \in 1 .. N /\ text[i] = Quote
  <2>1. Peek(text, i) # AtEnd
    BY <1>3 DEF Quote, AtEnd
  <2> QED
    BY <1>1, <1>2, <1>3, <2>1, Peeked
<1>5. Token(value, secret, text, x, i, nm)
  BY <1>2, <1>3, <1>4, TokenTracked
<1>6. nm \in Nat /\ nm + 1 \in Nat /\ nm + 2 = (nm + 1) + 1 /\ x[nm] # 0
  <2>1. nm \in i + 2 .. N + 1 /\ x[nm - 1] \in 1 .. Len(value) /\ x[nm] = x[nm - 1] + 1
    BY <1>2, <1>5 DEF Token
  <2>2. Len(value) \in Nat
    BY <1>1, Joined
  <2> QED
    BY <1>2, <2>1, <2>2
<1>7. /\ nm \in 1 .. N /\ text[nm] = 58
      /\ nm + 1 \in 1 .. N /\ text[nm + 1] = Quote
  <2>1. Peek(text, nm) # AtEnd /\ Peek(text, nm + 1) # AtEnd
    BY <1>3 DEF Quote, AtEnd
  <2> QED
    BY <1>1, <1>2, <1>3, <1>6, <2>1, Peeked
<1>8. QuoteAt(value, text, x, nm + 1, x[nm])
  <2>1. text[nm] # Quote /\ text[nm] # MaskByte
    BY <1>7 DEF Quote, MaskByte
  <2>2. nm \in 1 .. Len(text) /\ nm + 1 \in 1 .. Len(text)
    BY <1>2, <1>7
  <2> QED
    BY <1>6, <1>7, <2>1, <2>2, NextQuote
<1>9. x[nm + 1] # 0
  BY <1>8 DEF QuoteAt
<1>10. Token(value, secret, text, x, nm + 1, v)
  BY <1>2, <1>3, <1>6, <1>7, <1>9, TokenTracked, ZenonT(40)
<1> QED
  BY <1>2, <1>3, <1>4, <1>5, <1>6, <1>7, <1>8, <1>10 DEF Member

(* Where nothing is hidden neither shows the key, nor is anything behind them. *)
LEMMA MemberGood ==
    ASSUME NEW value, NEW secret, NEW text, NEW x, Setting(value, secret, text, x),
           StretchesGood(text, secret),
           NEW i, NEW nm, NEW v, Member(value, secret, text, x, i, nm, v),
           NEW p, QuoteAt(value, text, x, i, p), Silent(value, secret, p)
    PROVE  /\ Good(ParseString(text, i + 1).text, secret)
           /\ Good(ParseString(text, (nm + 1) + 1).text, secret)
           /\ Silent(value, secret, x[v])
<1>1. /\ i \in 1 .. Len(text) /\ text[i] = Quote
      /\ nm = ParseString(text, i + 1).next /\ Token(value, secret, text, x, i, nm)
      /\ nm + 1 \in 1 .. Len(text) /\ text[nm + 1] = Quote
      /\ QuoteAt(value, text, x, nm + 1, x[nm])
      /\ v = ParseString(text, (nm + 1) + 1).next /\ Token(value, secret, text, x, nm + 1, v)
  BY DEF Member
<1>2. ~Suspicious(value, x[i], x[nm - 1], secret) /\ Silent(value, secret, x[nm])
  BY <1>1, TokenSilent
<1>3. ~Suspicious(value, x[nm + 1], x[v - 1], secret) /\ Silent(value, secret, x[v])
  BY <1>1, <1>2, TokenSilent
<1>4. Good(ParseString(text, i + 1).text, secret)
  BY <1>1, <1>2, TokenGood
<1>5. Good(ParseString(text, (nm + 1) + 1).text, secret)
  BY <1>1, <1>3, TokenGood
<1> QED
  BY <1>3, <1>4, <1>5

(* And the other way round, in a text without the key. *)
LEMMA MemberCalm ==
    ASSUME NEW value, NEW secret, NEW text, NEW x, Setting(value, secret, text, x),
           ~Includes(value, secret),
           NEW i, NEW nm, NEW v, Member(value, secret, text, x, i, nm, v),
           NEW p, QuoteAt(value, text, x, i, p), ~Hid(value, secret)[x[v]],
           Good(ParseString(text, i + 1).text, secret),
           Good(ParseString(text, (nm + 1) + 1).text, secret)
    PROVE  ~Hid(value, secret)[p]
<1>1. /\ i \in 1 .. Len(text) /\ text[i] = Quote
      /\ nm = ParseString(text, i + 1).next /\ Token(value, secret, text, x, i, nm)
      /\ nm + 1 \in 1 .. Len(text) /\ text[nm + 1] = Quote
      /\ QuoteAt(value, text, x, nm + 1, x[nm])
      /\ v = ParseString(text, (nm + 1) + 1).next /\ Token(value, secret, text, x, nm + 1, v)
  BY DEF Member
<1>2. ~Suspicious(value, x[nm + 1], x[v - 1], secret)
  BY <1>1, TokenCalm
<1>3. ~Hid(value, secret)[x[nm]]
  BY <1>1, <1>2, TokenBehind
<1>4. ~Suspicious(value, x[i], x[nm - 1], secret)
  BY <1>1, TokenCalm
<1> QED
  BY <1>1, <1>3, <1>4, TokenBehind

(* What is behind a member: the comma and the next one, or the end. *)
LEMMA BehindMember ==
    ASSUME NEW value, NEW secret, NEW text, NEW x, Setting(value, secret, text, x),
           NEW i, NEW nm, NEW v, Member(value, secret, text, x, i, nm, v),
           NEW f, ReadsMembers(text, f), Peek(text, v) = 44, f[v + 1] # {}
    PROVE  QuoteAt(value, text, x, v + 1, x[v])
<1>1. value \in Text /\ text \in Text
  BY DEF Setting
<1>2. PICK N : N = Len(text) /\ N \in Nat
  BY <1>1, Joined
<1>3. v \in Nat /\ v + 1 \in Nat /\ x[v] # 0
  <2>1. /\ v \in (nm + 1) + 2 .. N + 1 /\ x[v - 1] \in 1 .. Len(value) /\ x[v] = x[v - 1] + 1
        /\ nm + 1 \in 1 .. N
    BY <1>2 DEF Member, Token
  <2>2. Len(value) \in Nat
    BY <1>1, Joined
  <2> QED
    BY <1>2, <2>1, <2>2
<1>4. v \in 1 .. N /\ text[v] = 44
  <2>1. Peek(text, v) # AtEnd
    BY DEF AtEnd
  <2> QED
    BY <1>1, <1>2, <1>3, <2>1, Peeked
<1>5. f[v + 1] = MembersFrom(text, f, v + 1)
  BY <1>3 DEF ReadsMembers
<1>6. Peek(text, v + 1) = Quote
  BY <1>5 DEF MembersFrom
<1>7. v + 1 \in 1 .. N /\ text[v + 1] = Quote
  <2>1. Peek(text, v + 1) # AtEnd
    BY <1>6 DEF Quote, AtEnd
  <2> QED
    BY <1>1, <1>2, <1>3, <1>6, <2>1, Peeked
<1> QED
  BY <1>2, <1>3, <1>4, <1>7, NextQuote DEF Quote, MaskByte

-----------------------------------------------------------------------------
(* The members from i on: none shows the key when nothing is hidden from p on ... *)
ShownFrom(value, secret, text, x, f, i) ==
    \A p, m : QuoteAt(value, text, x, i, p) /\ Silent(value, secret, p) /\ m \in f[i]
        => MembersGood(m, secret)
(* ... and nothing is hidden when none does. *)
CalmFrom(value, secret, text, x, f, i) ==
    \A p, m : QuoteAt(value, text, x, i, p) /\ m \in f[i] /\ MembersGood(m, secret)
        => ~Hid(value, secret)[p]

(* A list of members from i on is the first and the list of the others. *)
FirstOf(value, secret, text, x, f, i, nm, v, m, others) ==
    /\ Member(value, secret, text, x, i, nm, v)
    /\ v \in Nat /\ v + 1 \in Nat /\ v + 1 > i /\ i <= Len(text)
    /\ MembersGood(m, secret)
           <=> /\ Good(ParseString(text, i + 1).text, secret)
               /\ Good(ParseString(text, (nm + 1) + 1).text, secret)
               /\ MembersGood(others, secret)
    /\ \/ Peek(text, v) = 44 /\ others \in f[v + 1]
       \/ Peek(text, v) = 125 /\ v = Len(text) /\ others = <<>>

(* Each list of members from a place on has a first one, of both texts. *)
LEMMA FirstMember ==
    ASSUME NEW value, NEW secret, NEW text, NEW x, Setting(value, secret, text, x),
           NEW f, ReadsMembers(text, f), NEW i \in Nat, x[i] # 0, NEW m \in f[i]
    PROVE  \E nm, v, others : FirstOf(value, secret, text, x, f, i, nm, v, m, others)
<1>1. text \in Text
  BY DEF Setting
<1>2. PICK one, v : one = Ahead(text, i).text /\ v = Ahead(text, i).next
  OBVIOUS
<1>3. m \in MembersFrom(text, f, i)
  BY DEF ReadsMembers
<1>4. /\ i <= Len(text) /\ one \in Text \X NoLonger(text) /\ v \in Nat /\ v > i
      /\ MembersFrom(text, f, i) = Made(text, f, one, v)
  BY <1>1, <1>2, <1>3, MembersAt
<1>5. HasMember(text, i)
  BY <1>3 DEF MembersFrom, NamedFrom, ValuedFrom, HasMember
<1>6. PICK others \in OthersFrom(text, f, v) : m = <<one>> \o others
  BY <1>3, <1>4 DEF Made
<1>7. PICK nm : nm = NameAt(text, i).next
  OBVIOUS
<1>8. v = ValueAt(text, i).next
  BY <1>2 DEF Ahead
<1>9. Member(value, secret, text, x, i, nm, v)
  BY <1>5, <1>7, <1>8, MemberTracked
<1>10. v + 1 \in Nat /\ v + 1 > i
  BY <1>4
<1>11. \/ Peek(text, v) = 44 /\ others \in f[v + 1]
       \/ Peek(text, v) = 125 /\ v = Len(text) /\ others = <<>>
  BY <1>6 DEF OthersFrom
<1>12. others \in Seq(Text \X NoLonger(text))
  <2>1. PICK lists : lists = Seq(Text \X NoLonger(text))
    OBVIOUS
  <2>2. f[v + 1] \in SUBSET lists
    BY <1>10, <2>1 DEF ReadsMembers, Members
  <2>3. <<>> \in lists
    BY <2>1
  <2>4. CASE others \in f[v + 1]
    BY <2>1, <2>2, <2>4
  <2>5. CASE others = <<>>
    BY <2>1, <2>3, <2>5
  <2> QED
    BY <1>11, <2>4, <2>5
<1>13. one[1] = ParseString(text, i + 1).text /\ one[2] = ParseString(text, (nm + 1) + 1).text
  <2>1. one = <<NameAt(text, i).text, ValueAt(text, i).text>>
    BY <1>2 DEF Ahead
  <2>2. one[1] = NameAt(text, i).text /\ one[2] = ValueAt(text, i).text
    BY <2>1
  <2>3. ValueAt(text, i) = ParseString(text, nm + 2)
    BY <1>7 DEF ValueAt
  <2>4. nm + 2 = (nm + 1) + 1
    <3>1. nm + 1 \in 1 .. Len(text)
      BY <1>9 DEF Member
    <3>2. nm = ParseString(text, i + 1).next
      BY <1>7 DEF NameAt
    <3>3. nm \in Nat
      <4>1. i + 1 \in Nat
        OBVIOUS
      <4> QED
        BY <1>1, <3>2, <4>1, StringRead
    <3> QED
      BY <3>3
  <2> QED
    BY <2>2, <2>3, <2>4 DEF NameAt
<1>14. MembersGood(m, secret)
           <=> Good(one[1], secret) /\ Good(one[2], secret) /\ MembersGood(others, secret)
  BY <1>4, <1>6, <1>12, MadeGood
<1>15. FirstOf(value, secret, text, x, f, i, nm, v, m, others)
  BY <1>4, <1>9, <1>10, <1>11, <1>13, <1>14 DEF FirstOf
<1> QED
  BY <1>15

(* The first holds of every place, by induction from the end of the text. *)
LEMMA MembersShown ==
    ASSUME NEW value, NEW secret, NEW text, NEW x, Setting(value, secret, text, x),
           StretchesGood(text, secret), NEW f, ReadsMembers(text, f)
    PROVE  \A i \in Nat : ShownFrom(value, secret, text, x, f, i)
<1> DEFINE T == {i \in Nat : ShownFrom(value, secret, text, x, f, i)}
<1>1. PICK N : N = Len(text) /\ N \in Nat
  <2>1. text \in Text
    BY DEF Setting
  <2> QED
    BY <2>1, Joined
<1>2. ASSUME NEW i \in Nat, i <= N => \A k \in Nat : k > i => k \in T PROVE i \in T
  <2> SUFFICES ASSUME NEW p, NEW m, QuoteAt(value, text, x, i, p), Silent(value, secret, p),
                      m \in f[i]
               PROVE  MembersGood(m, secret)
    BY DEF ShownFrom
  <2>1. x[i] # 0
    BY DEF QuoteAt
  <2>2. PICK nm, v, others : FirstOf(value, secret, text, x, f, i, nm, v, m, others)
    BY <2>1, FirstMember
  <2>3. /\ Member(value, secret, text, x, i, nm, v)
        /\ v + 1 \in Nat /\ v + 1 > i /\ i <= Len(text)
        /\ MembersGood(m, secret)
               <=> /\ Good(ParseString(text, i + 1).text, secret)
                   /\ Good(ParseString(text, (nm + 1) + 1).text, secret)
                   /\ MembersGood(others, secret)
        /\ \/ Peek(text, v) = 44 /\ others \in f[v + 1]
           \/ Peek(text, v) = 125 /\ v = Len(text) /\ others = <<>>
    BY <2>2 DEF FirstOf
  <2>4. /\ Good(ParseString(text, i + 1).text, secret)
        /\ Good(ParseString(text, (nm + 1) + 1).text, secret)
        /\ Silent(value, secret, x[v])
    BY <2>3, MemberGood
  <2>5. CASE Peek(text, v) = 44 /\ others \in f[v + 1]
    <3>1. QuoteAt(value, text, x, v + 1, x[v])
      BY <2>3, <2>5, BehindMember
    <3>2. v + 1 \in T
      <4> HIDE DEF T
      <4> QED
        BY <1>1, <1>2, <2>3
    <3>3. ShownFrom(value, secret, text, x, f, v + 1)
      BY <3>2
    <3>4. MembersGood(others, secret)
      BY <2>4, <2>5, <3>1, <3>3 DEF ShownFrom
    <3> QED
      BY <2>3, <2>4, <3>4
  <2>6. CASE others = <<>>
    <3>1. MembersGood(others, secret)
      BY <2>6 DEF MembersGood
    <3> QED
      BY <2>3, <2>4, <3>1
  <2> QED
    BY <2>3, <2>5, <2>6
<1> HIDE DEF T
<1>3. Nat \subseteq T
  BY <1>1, <1>2, Backwards
<1> QED
  BY <1>3 DEF T

(* From where no quote is left nothing is hidden. *)
LEMMA NothingBehind ==
    ASSUME NEW value \in Text, NEW secret, NEW p \in Nat \ {0},
           \A m \in p .. Len(value) : value[m] # Quote
    PROVE  ~Hid(value, secret)[p]
<1>1. PICK q : q = Find(value, <<Quote>>, p)
  OBVIOUS
<1>2. q = 0
  BY <1>1, QuoteFound
<1> QED
  BY <1>1, <1>2, HidAt

(* Behind the last byte of the trimmed text nothing is hidden. *)
LEMMA LastByte ==
    ASSUME NEW value, NEW secret, NEW text, NEW x, Setting(value, secret, text, x),
           TailFree(value, text, x), NEW v \in 1 .. Len(text), v = Len(text), x[v] # 0,
           text[v] # Quote, text[v] # MaskByte
    PROVE  ~Hid(value, secret)[x[v]]
<1>1. value \in Text /\ text \in Text /\ Follows(value, secret, text, x)
  BY DEF Setting
<1>2. Copied(value, text, x, v) /\ x[v] \in Nat
  BY <1>1, CopiedAt
<1>3. PICK a : a = x[v]
  OBVIOUS
<1>4. a \in Nat \ {0} /\ value[a] # Quote /\ x[v + 1] = a + 1
  BY <1>2, <1>3 DEF Copied
<1>5. \A m \in a + 1 .. Len(value) : value[m] # Quote
  BY <1>4 DEF TailFree
<1>6. Len(value) \in Nat
  BY <1>1, Joined
<1>7. \A m \in a .. Len(value) : value[m] # Quote
  <2>1. ASSUME NEW m \in a .. Len(value) PROVE m = a \/ m \in a + 1 .. Len(value)
    BY <1>4, <1>6
  <2> QED
    BY <1>4, <1>5, <2>1
<1> QED
  BY <1>1, <1>3, <1>4, <1>7, NothingBehind

(* And so does the second. *)
LEMMA MembersCalm ==
    ASSUME NEW value, NEW secret, NEW text, NEW x, Setting(value, secret, text, x),
           TailFree(value, text, x), ~Includes(value, secret), NEW f, ReadsMembers(text, f)
    PROVE  \A i \in Nat : CalmFrom(value, secret, text, x, f, i)
<1> DEFINE T == {i \in Nat : CalmFrom(value, secret, text, x, f, i)}
<1>1. PICK N : N = Len(text) /\ N \in Nat
  <2>1. text \in Text
    BY DEF Setting
  <2> QED
    BY <2>1, Joined
<1>2. ASSUME NEW i \in Nat, i <= N => \A k \in Nat : k > i => k \in T PROVE i \in T
  <2> SUFFICES ASSUME NEW p, NEW m, QuoteAt(value, text, x, i, p), m \in f[i],
                      MembersGood(m, secret)
               PROVE  ~Hid(value, secret)[p]
    BY DEF CalmFrom
  <2>1. x[i] # 0
    BY DEF QuoteAt
  <2>2. PICK nm, v, others : FirstOf(value, secret, text, x, f, i, nm, v, m, others)
    BY <2>1, FirstMember
  <2>3. /\ Member(value, secret, text, x, i, nm, v)
        /\ v \in Nat /\ v + 1 \in Nat /\ v + 1 > i /\ i <= Len(text)
        /\ Good(ParseString(text, i + 1).text, secret)
        /\ Good(ParseString(text, (nm + 1) + 1).text, secret)
        /\ MembersGood(others, secret)
        /\ \/ Peek(text, v) = 44 /\ others \in f[v + 1]
           \/ Peek(text, v) = 125 /\ v = Len(text) /\ others = <<>>
    BY <2>2 DEF FirstOf
  <2>4. SUFFICES ~Hid(value, secret)[x[v]]
    BY <2>3, MemberCalm
  <2>5. CASE Peek(text, v) = 44 /\ others \in f[v + 1]
    <3>1. QuoteAt(value, text, x, v + 1, x[v])
      BY <2>3, <2>5, BehindMember
    <3>2. v + 1 \in T
      <4> HIDE DEF T
      <4> QED
        BY <1>1, <1>2, <2>3
    <3>3. CalmFrom(value, secret, text, x, f, v + 1)
      BY <3>2
    <3> QED
      BY <2>3, <2>5, <3>1, <3>3 DEF CalmFrom
  <2>6. CASE Peek(text, v) = 125 /\ v = Len(text)
    <3>1. x[v] # 0
      <4>1. x[v - 1] \in 1 .. Len(value) /\ x[v] = x[v - 1] + 1
        BY <2>3 DEF Member, Token
      <4> QED
        BY <4>1
    <3>2. v \in 1 .. Len(text) /\ text[v] = 125
      <4>1. Peek(text, v) # AtEnd /\ text \in Text
        BY <2>6 DEF AtEnd, Setting
      <4> QED
        BY <2>3, <2>6, <4>1, Peeked
    <3>3. text[v] # Quote /\ text[v] # MaskByte
      BY <3>2 DEF Quote, MaskByte
    <3> QED
      BY <2>6, <3>1, <3>2, <3>3, LastByte
  <2> QED
    BY <2>3, <2>5, <2>6
<1> HIDE DEF T
<1>3. Nat \subseteq T
  BY <1>1, <1>2, Backwards
<1> QED
  BY <1>3 DEF T

-----------------------------------------------------------------------------
(* The first quote of a placed text, when that begins with one ... *)
LEMMA StartsWithQuote ==
    ASSUME NEW value, NEW secret, NEW text, NEW x, Setting(value, secret, text, x),
           Placed(value, secret, text, x), Peek(text, 1) = Quote
    PROVE  QuoteAt(value, text, x, 1, 1)
<1>1. value \in Text /\ text \in Text /\ Follows(value, secret, text, x) /\ x[1] # 0
  BY DEF Setting, Placed
<1>2. 1 \in 1 .. Len(text) /\ text[1] = Quote
  <2>1. Peek(text, 1) # AtEnd
    BY DEF Quote, AtEnd
  <2> QED
    BY <1>1, <2>1, Peeked
<1>3. Copied(value, text, x, 1)
  BY <1>1, <1>2, CopiedAt DEF Quote, MaskByte
<1>4. PICK a : a = x[1]
  OBVIOUS
<1>5. a \in 1 .. Len(value) /\ value[a] = Quote /\ \A m \in 1 .. a - 1 : value[m] # Quote
  BY <1>2, <1>3, <1>4 DEF Copied, Placed
<1>6. a \in Nat /\ a >= 1 /\ a <= Len(value)
  <2>1. Len(value) \in Nat
    BY <1>1, Joined
  <2> QED
    BY <1>5, <2>1
<1>7. Find(value, <<Quote>>, 1) = a
  <2>1. 1 \in Nat \ {0}
    OBVIOUS
  <2> QED
    BY <1>1, <1>5, <1>6, <2>1, QuoteNext
<1> QED
  BY <1>1, <1>2, <1>4, <1>7 DEF QuoteAt

(* ... and when it begins with a brace. *)
LEMMA StartsWithBrace ==
    ASSUME NEW value, NEW secret, NEW text, NEW x, Setting(value, secret, text, x),
           Placed(value, secret, text, x), Peek(text, 1) = 123, Peek(text, 2) = Quote
    PROVE  QuoteAt(value, text, x, 2, 1)
<1>1. value \in Text /\ text \in Text /\ Follows(value, secret, text, x) /\ x[1] # 0
  BY DEF Setting, Placed
<1>2. 1 \in 1 .. Len(text) /\ text[1] = 123 /\ 2 \in 1 .. Len(text) /\ text[2] = Quote
  <2>1. Peek(text, 1) # AtEnd /\ Peek(text, 2) # AtEnd
    BY DEF Quote, AtEnd
  <2> QED
    BY <1>1, <2>1, Peeked
<1>3. Copied(value, text, x, 1)
  <2>1. text[1] # MaskByte
    BY <1>2 DEF MaskByte
  <2> QED
    BY <1>1, <1>2, <2>1, CopiedAt
<1>4. PICK a : a = x[1]
  OBVIOUS
<1>5. /\ a \in 1 .. Len(value) /\ value[a] = 123 /\ x[2] = a + 1
      /\ \A m \in 1 .. a - 1 : value[m] # Quote
  <2>1. 1 + 1 = 2
    OBVIOUS
  <2> QED
    BY <1>2, <1>3, <1>4, <2>1 DEF Copied, Placed
<1>6. a \in Nat /\ a >= 1 /\ a + 1 \in Nat /\ x[2] # 0
  <2>1. Len(value) \in Nat
    BY <1>1, Joined
  <2> QED
    BY <1>5, <2>1
<1>7. Copied(value, text, x, 2)
  <2>1. text[2] # MaskByte
    BY <1>2 DEF Quote, MaskByte
  <2> QED
    BY <1>1, <1>2, <1>6, <2>1, CopiedAt
<1>8. a + 1 <= Len(value) /\ value[a + 1] = Quote
  <2>1. Len(value) \in Nat
    BY <1>1, Joined
  <2>2. a + 1 \in 1 .. Len(value) /\ value[a + 1] = Quote
    BY <1>2, <1>5, <1>7 DEF Copied
  <2> QED
    BY <2>1, <2>2
<1>9. \A m \in 1 .. (a + 1) - 1 : value[m] # Quote
  <2>1. value[a] # Quote
    BY <1>5 DEF Quote
  <2>2. ASSUME NEW m \in 1 .. (a + 1) - 1 PROVE m = a \/ m \in 1 .. a - 1
    BY <1>6
  <2> QED
    BY <1>5, <2>1, <2>2
<1>10. Find(value, <<Quote>>, 1) = a + 1
  <2>1. 1 \in Nat \ {0} /\ a + 1 >= 1
    BY <1>6
  <2> QED
    BY <1>1, <1>6, <1>8, <1>9, <2>1, QuoteNext
<1> QED
  BY <1>2, <1>5, <1>6, <1>10 DEF QuoteAt

(* What is between braces begins with a quote. *)
LEMMA BraceThenQuote ==
    ASSUME NEW text, NEW f, ReadsMembers(text, f), NEW m \in ParsedObject(text)
    PROVE  Peek(text, 1) = 123 /\ Peek(text, 2) = Quote /\ m \in f[2]
<1>1. Peek(text, 1) = 123 /\ m \in f[2]
  BY DEF ReadsMembers
<1>2. f[2] = MembersFrom(text, f, 2)
  BY DEF ReadsMembers
<1> QED
  BY <1>1, <1>2 DEF MembersFrom

(* The strings of an object are its names and values. *)
StringsIn(m) == UNION {Range(m[i]) : i \in DOMAIN m}

(* They show the key when and only when the list does. *)
LEMMA StringsOfMembers ==
    ASSUME NEW s, NEW m \in Seq(Text \X NoLonger(s)), NEW secret
    PROVE  (\A r \in StringsIn(m) : Good(r, secret)) <=> MembersGood(m, secret)
<1>1. DOMAIN m = 1 .. Len(m)
  OBVIOUS
<1>2. ASSUME NEW k \in 1 .. Len(m) PROVE Range(m[k]) = {m[k][1], m[k][2]}
  <2>1. m[k] \in Text \X NoLonger(s)
    OBVIOUS
  <2>2. PICK a, b : m[k] = <<a, b>>
    BY <2>1
  <2>3. DOMAIN <<a, b>> = {1, 2} /\ <<a, b>>[1] = a /\ <<a, b>>[2] = b
    OBVIOUS
  <2> QED
    BY <2>2, <2>3 DEF Range
<1>3. \A r : r \in StringsIn(m) <=> \E k \in 1 .. Len(m) : r \in Range(m[k])
  BY <1>1 DEF StringsIn
<1>4. ASSUME \A r \in StringsIn(m) : Good(r, secret) PROVE MembersGood(m, secret)
  <2>1. ASSUME NEW k \in 1 .. Len(m) PROVE m[k][1] \in StringsIn(m) /\ m[k][2] \in StringsIn(m)
    BY <1>2, <1>3
  <2> QED
    BY <1>4, <2>1 DEF MembersGood
<1>5. ASSUME MembersGood(m, secret), NEW r \in StringsIn(m) PROVE Good(r, secret)
  <2>1. PICK k \in 1 .. Len(m) : r \in Range(m[k])
    BY <1>3
  <2>2. r = m[k][1] \/ r = m[k][2]
    BY <1>2, <2>1
  <2> QED
    BY <1>5, <2>2 DEF MembersGood
<1> QED
  BY <1>4, <1>5

(* The strings of a text are those of the string or of the object that it is. *)
LEMMA StringsOf ==
    ASSUME NEW s, NEW r
    PROVE  r \in Strings(s)
               <=> r \in ParsedString(s) \/ \E m \in ParsedObject(s) : r \in StringsIn(m)
BY DEF Strings, StringsIn

(* A text that is a string has that one. *)
LEMMA WholeString ==
    ASSUME NEW s, NEW r
    PROVE  r \in ParsedString(s)
               => /\ Peek(s, 1) = Quote /\ r = ParseString(s, 2).text
                  /\ ParseString(s, 2).next = Len(s) + 1
BY DEF ParsedString

(* The strings of a text of which nothing is hidden do not show the key. *)
LEMMA StringsShown ==
    ASSUME NEW value, NEW secret, NEW text, NEW x, Setting(value, secret, text, x),
           Placed(value, secret, text, x), StretchesGood(text, secret), Silent(value, secret, 1),
           NEW r \in Strings(text)
    PROVE  Good(r, secret)
<1>1. text \in Text
  BY DEF Setting
<1>2. CASE r \in ParsedString(text)
  <2>1. Peek(text, 1) = Quote /\ r = ParseString(text, 2).text /\ ParseString(text, 2).next = Len(text) + 1
    BY <1>2, WholeString
  <2>2. QuoteAt(value, text, x, 1, 1)
    BY <2>1, StartsWithQuote
  <2>3. PICK n : n = ParseString(text, 2).next
    OBVIOUS
  <2>4. n = ParseString(text, 1 + 1).next /\ n # 0 /\ r = ParseString(text, 1 + 1).text
    <3>1. Len(text) \in Nat /\ 1 + 1 = 2
      BY <1>1, Joined
    <3> QED
      BY <2>1, <2>3, <3>1
  <2>5. 1 \in 1 .. Len(text) /\ x[1] # 0 /\ text[1] = Quote
    BY <2>2 DEF QuoteAt
  <2>6. Token(value, secret, text, x, 1, n)
    BY <2>4, <2>5, TokenTracked
  <2>7. ~Suspicious(value, x[1], x[n - 1], secret)
    BY <2>2, <2>6, TokenSilent
  <2> QED
    BY <2>4, <2>5, <2>6, <2>7, TokenGood
<1>3. CASE \E m \in ParsedObject(text) : r \in StringsIn(m)
  <2>1. PICK m \in ParsedObject(text) : r \in StringsIn(m)
    BY <1>3
  <2>2. PICK f : ReadsMembers(text, f)
    BY <1>1, ObjectFrom
  <2>3. Peek(text, 1) = 123 /\ Peek(text, 2) = Quote /\ m \in f[2]
    BY <2>2, BraceThenQuote
  <2>4. QuoteAt(value, text, x, 2, 1)
    BY <2>3, StartsWithBrace
  <2>5. ShownFrom(value, secret, text, x, f, 2)
    BY <2>2, MembersShown
  <2>6. MembersGood(m, secret)
    BY <2>3, <2>4, <2>5 DEF ShownFrom
  <2>7. m \in Seq(Text \X NoLonger(text))
    BY <1>1, ObjectNoLonger DEF Members
  <2> QED
    BY <2>1, <2>6, <2>7, StringsOfMembers
<1> QED
  BY <1>2, <1>3, StringsOf

(* And of a JSON text none of the strings of which shows it nothing is hidden. *)
LEMMA StringsCalm ==
    ASSUME NEW value, NEW secret, NEW text, NEW x, Setting(value, secret, text, x),
           Placed(value, secret, text, x), TailFree(value, text, x), ~Includes(value, secret),
           Strings(text) # {}, \A r \in Strings(text) : Good(r, secret)
    PROVE  ~Hid(value, secret)[1]
<1>1. text \in Text /\ value \in Text
  BY DEF Setting
<1>2. CASE \E r : r \in ParsedString(text)
  <2>1. PICK r : r \in ParsedString(text)
    BY <1>2
  <2>2. Peek(text, 1) = Quote /\ r = ParseString(text, 2).text /\ ParseString(text, 2).next = Len(text) + 1
    BY <2>1, WholeString
  <2>3. Good(r, secret)
    BY <2>1, StringsOf
  <2>4. QuoteAt(value, text, x, 1, 1)
    BY <2>2, StartsWithQuote
  <2>5. PICK n : n = ParseString(text, 2).next
    OBVIOUS
  <2>6. n = ParseString(text, 1 + 1).next /\ n # 0 /\ r = ParseString(text, 1 + 1).text
    <3>1. Len(text) \in Nat /\ 1 + 1 = 2
      BY <1>1, Joined
    <3> QED
      BY <2>2, <2>5, <3>1
  <2>7. 1 \in 1 .. Len(text) /\ x[1] # 0 /\ text[1] = Quote
    BY <2>4 DEF QuoteAt
  <2>8. Token(value, secret, text, x, 1, n)
    BY <2>6, <2>7, TokenTracked
  <2>9. ~Suspicious(value, x[1], x[n - 1], secret)
    BY <2>3, <2>6, <2>7, <2>8, TokenCalm
  <2>10. ~Hid(value, secret)[x[n]]
    <3>1. x[n] \in Nat \ {0}
      <4>1. x[n - 1] \in 1 .. Len(value) /\ x[n] = x[n - 1] + 1
        BY <2>8 DEF Token
      <4> QED
        BY <4>1
    <3>2. \A m \in x[n] .. Len(value) : value[m] # Quote
      BY <2>2, <2>5 DEF TailFree
    <3> QED
      BY <1>1, <3>1, <3>2, NothingBehind
  <2> QED
    BY <2>4, <2>8, <2>9, <2>10, TokenBehind
<1>3. CASE \E m : m \in ParsedObject(text)
  <2>1. PICK m : m \in ParsedObject(text)
    BY <1>3
  <2>2. PICK f : ReadsMembers(text, f)
    BY <1>1, ObjectFrom
  <2>3. Peek(text, 1) = 123 /\ Peek(text, 2) = Quote /\ m \in f[2]
    BY <2>1, <2>2, BraceThenQuote
  <2>4. QuoteAt(value, text, x, 2, 1)
    BY <2>3, StartsWithBrace
  <2>5. m \in Seq(Text \X NoLonger(text))
    BY <1>1, <2>1, ObjectNoLonger DEF Members
  <2>6. \A r \in StringsIn(m) : Good(r, secret)
    BY <2>1, StringsOf
  <2>7. MembersGood(m, secret)
    BY <2>5, <2>6, StringsOfMembers
  <2>8. CalmFrom(value, secret, text, x, f, 2)
    BY <2>2, MembersCalm
  <2> QED
    BY <2>3, <2>4, <2>7, <2>8 DEF CalmFrom
<1>4. \E r : r \in Strings(text)
  OBVIOUS
<1> QED
  BY <1>2, <1>3, <1>4, StringsOf

-----------------------------------------------------------------------------
(* The mask alone is no JSON text, nor is the empty text. *)
LEMMA NoStrings ==
    ASSUME NEW t, Peek(t, 1) # Quote, Peek(t, 1) # 123
    PROVE  Strings(t) = {}
<1>1. ParsedString(t) = {} /\ ParsedObject(t) = {}
  BY DEF ParsedString, ParsedObject
<1> QED
  BY <1>1 DEF Strings

(* So neither has strings. *)
LEMMA MaskNoStrings == Strings(Trim(Mask)) = {} /\ Strings(<<>>) = {}
<1>1. Mask \in Text /\ Len(Mask) = MaskLen /\ \A k \in 1 .. MaskLen : Mask[k] = MaskByte
  BY MaskAssumption, TheMask
<1>2. Strings(<<>>) = {}
  <2>1. Peek(<<>>, 1) = AtEnd
    BY DEF Peek
  <2> QED
    BY <2>1, NoStrings DEF AtEnd, Quote
<1>3. CASE Trim(Mask) = <<>>
  BY <1>2, <1>3
<1>4. CASE Trim(Mask) # <<>>
  <2>1. PICK a, b : TrimmedTo(Mask, a, b)
    BY <1>1, <1>4, TrimPlaces
  <2>2. a \in 1 .. b /\ b \in 1 .. MaskLen /\ Trim(Mask) = SubSeq(Mask, a, b)
    BY <1>1, <2>1 DEF TrimmedTo
  <2>3. a \in Nat \ {0} /\ b \in Nat /\ a <= b /\ b <= MaskLen /\ a \in 1 .. MaskLen
    BY <2>2, MaskAssumption
  <2>4. PICK t : t = SubSeq(Mask, a, b)
    OBVIOUS
  <2>5. t \in Text /\ Len(t) = b - a + 1 /\ \A k \in 1 .. Len(t) : t[k] = Mask[a + k - 1]
    BY <1>1, <2>3, <2>4, Stretch
  <2>6. 1 \in 1 .. Len(t) /\ a + 1 - 1 = a
    BY <2>3, <2>5
  <2>7. t[1] = MaskByte
    BY <1>1, <2>3, <2>5, <2>6
  <2>8. Peek(t, 1) = MaskByte
    <3>1. DOMAIN t = 1 .. Len(t)
      BY <2>5 DEF Text
    <3> QED
      BY <2>6, <2>7, <3>1 DEF Peek
  <2>9. Strings(t) = {}
    BY <2>8, NoStrings DEF MaskByte, Quote
  <2> QED
    BY <1>2, <2>2, <2>4, <2>9
<1> QED
  BY <1>2, <1>3, <1>4

(* The strings of a text are texts. *)
LEMMA StringsAreText ==
    ASSUME NEW s \in Text
    PROVE  Strings(Trim(s)) \subseteq Text
<1>1. PICK t : t = Trim(s) /\ t \in Text
  BY Trimmed DEF NoLonger
<1>2. ASSUME NEW r \in Strings(t) PROVE r \in Text
  <2>1. CASE r \in ParsedString(t)
    BY <1>1, <2>1, ParsedStringNoLonger DEF NoLonger
  <2>2. CASE \E m \in ParsedObject(t) : r \in StringsIn(m)
    <3>1. PICK m \in ParsedObject(t) : r \in StringsIn(m)
      BY <2>2
    <3>2. m \in Seq(Text \X NoLonger(t))
      BY <1>1, <3>1, ObjectNoLonger DEF Members
    <3>3. PICK k \in 1 .. Len(m) : r \in Range(m[k])
      <4>1. DOMAIN m = 1 .. Len(m)
        BY <3>2
      <4> QED
        BY <3>1, <4>1 DEF StringsIn
    <3>4. m[k] \in Text \X NoLonger(t)
      BY <3>2
    <3>5. PICK a, b : m[k] = <<a, b>> /\ a \in Text /\ b \in Text
      BY <3>4 DEF NoLonger
    <3>6. r \in {a, b}
      <4>1. DOMAIN <<a, b>> = {1, 2} /\ <<a, b>>[1] = a /\ <<a, b>>[2] = b
        OBVIOUS
      <4> QED
        BY <3>3, <3>5, <4>1 DEF Range
    <3> QED
      BY <3>5, <3>6
  <2> QED
    BY <2>1, <2>2, StringsOf
<1> QED
  BY <1>1, <1>2

(* A text and its strings show the key in no reading when all of them are good. *)
Plainly(s) == {s} \cup Strings(Trim(s))

(* So it is, reading by reading. *)
LEMMA ReadingsGood ==
    ASSUME NEW s \in Text, NEW secret \in Text
    PROVE  (\A r \in Readings(s) : ~Includes(r, secret))
               <=> \A r \in Plainly(s) : Good(r, secret)
<1>1. Readings(s) = Plainly(s) \cup {PercentDecoded(r) : r \in Plainly(s)}
  BY DEF Readings, Plainly
<1>2. ASSUME NEW r \in Plainly(s)
      PROVE  Good(r, secret) <=> ~Includes(r, secret) /\ ~Includes(PercentDecoded(r), secret)
  <2>1. r \in Text
    BY StringsAreText DEF Plainly
  <2>2. PercentDecoded(r) \in Text
    BY <2>1, DecodedText
  <2> QED
    BY <2>1, <2>2, FreeOf DEF Good
<1> HIDE DEF Plainly
<1>3. ASSUME \A r \in Readings(s) : ~Includes(r, secret), NEW r \in Plainly(s) PROVE Good(r, secret)
  <2>1. r \in Readings(s) /\ PercentDecoded(r) \in Readings(s)
    BY <1>1
  <2> QED
    BY <1>2, <1>3, <2>1
<1>4. ASSUME \A r \in Plainly(s) : Good(r, secret), NEW q \in Readings(s) PROVE ~Includes(q, secret)
  <2>1. q \in Plainly(s) \/ \E r \in Plainly(s) : q = PercentDecoded(r)
    BY <1>1
  <2> QED
    BY <1>2, <1>4, <2>1
<1> QED
  BY <1>3, <1>4

(* Without escapes there is no backslash anywhere. *)
LEMMA NoBackslash ==
    ASSUME NEW s \in Text, ~Includes(s, <<Backslash>>)
    PROVE  \A m \in 1 .. Len(s) : s[m] # Backslash
<1>1. PICK t : t = <<Backslash>>
  OBVIOUS
<1>2. t \in Text /\ Len(t) = 1 /\ t[1] = Backslash /\ t # <<>>
  BY <1>1 DEF Text, Backslash
<1>3. Free(s, t)
  BY <1>1, FreeOf
<1>4. ASSUME NEW m \in 1 .. Len(s), s[m] = Backslash PROVE FALSE
  <2>1. m \in Nat \ {0} /\ m <= Len(s) /\ m + Len(t) - 1 = m /\ m + 1 - 1 = m
    <3>1. Len(s) \in Nat
      BY Joined
    <3> QED
      BY <1>2, <3>1
  <2>2. \A k \in 1 .. Len(t) : s[m + k - 1] = t[k]
    <3>1. 1 .. Len(t) = {1}
      BY <1>2
    <3> QED
      BY <1>2, <1>4, <2>1, <3>1
  <2>3. OccursAt(s, t, m)
    BY <1>2, <2>1, <2>2, OccursByByte
  <2> QED
    BY <1>3, <2>3 DEF Free
<1> QED
  BY <1>4

(* What SafeErrorBody returns shows the key in no reading ... *)
LEMMA SafeShowsNothing ==
    ASSUME NEW s \in Text, NEW secret \in Bytes, secret # <<>>, Plain(secret),
           NEW made, made = SafeErrorBody(s, secret)
    PROVE  \A r \in Plainly(made) : Good(r, secret)
<1>1. secret \in Text
  BY BytesAreText
<1>2. MaskByte \notin Range(secret) /\ Percent \notin Range(secret)
  BY <1>1, PlainBytes
<1>3. made \in Text
  BY SafeBodyBounded
<1>4. Good(made, secret)
  <2>1. ~Includes(made, secret) /\ ~Includes(PercentDecoded(made), secret)
    BY <1>2, RedactHides, RedactHidesDecoded
  <2>2. PercentDecoded(made) \in Text
    BY <1>3, DecodedText
  <2> QED
    BY <1>3, <2>1, <2>2, FreeOf DEF Good
<1>5. ASSUME NEW r \in Strings(Trim(made)) PROVE Good(r, secret)
  <2>1. Trim(made) # <<>> /\ made # Mask
    BY <1>5, MaskNoStrings
  <2>2. made = RedactErrorText(s, secret) /\ ~(Includes(s, <<Backslash>>) /\ HiddenByEscapes(s, secret))
    BY <2>1 DEF SafeErrorBody
  <2>3. LedWhole(s, secret, made)
    BY <2>1, <2>2, RedactLed
  <2>4. PICK x : Placed(s, secret, Trim(made), x)
    BY <1>3, <2>1, <2>3, TrimLed
  <2>5. Setting(s, secret, Trim(made), x)
    BY <2>4 DEF Placed, Setting
  <2>6. Silent(s, secret, 1)
    <3>1. CASE ~Includes(s, <<Backslash>>)
      BY <3>1, NoBackslash DEF Silent
    <3>2. CASE ~HiddenByEscapes(s, secret)
      BY <3>2, HidWhole DEF Silent
    <3> QED
      BY <2>2, <3>1, <3>2
  <2>7. StretchesGood(Trim(made), secret)
    BY <1>1, <1>3, <1>4, <2>1, TrimGood
  <2> QED
    BY <1>5, <2>4, <2>5, <2>6, <2>7, StringsShown
<1> QED
  BY <1>4, <1>5 DEF Plainly

(* ... and an answer that does not is passed on, unless it has escapes and is no JSON. *)
LEMMA SafePasses ==
    ASSUME NEW s \in Text, NEW secret \in Bytes, secret # <<>>, Plain(secret),
           \A r \in Plainly(s) : Good(r, secret),
           Strings(Trim(s)) # {} \/ ~Includes(s, <<Backslash>>)
    PROVE  SafeErrorBody(s, secret) = s
<1>1. Good(s, secret) /\ \A r \in Strings(Trim(s)) : Good(r, secret)
  BY DEF Plainly
<1>2. RedactErrorText(s, secret) = s
  BY <1>1, GoodRedact
<1>3. CASE ~Includes(s, <<Backslash>>)
  BY <1>2, <1>3 DEF SafeErrorBody
<1>4. CASE Strings(Trim(s)) # {}
  <2>1. Trim(s) # <<>>
    BY <1>4, MaskNoStrings
  <2>2. PICK x : Placed(s, secret, Trim(s), x) /\ TailFree(s, Trim(s), x)
    BY <2>1, TrimSelf
  <2>3. Setting(s, secret, Trim(s), x)
    BY <2>2 DEF Placed, Setting
  <2>4. ~Includes(s, secret)
    BY <1>1, FreeOf DEF Good
  <2>5. ~Hid(s, secret)[1]
    BY <1>1, <1>4, <2>2, <2>3, <2>4, StringsCalm
  <2>6. ~HiddenByEscapes(s, secret)
    BY <2>5, HidWhole
  <2> QED
    BY <1>2, <2>6 DEF SafeErrorBody
<1> QED
  BY <1>3, <1>4

(* Shows, the other way round. *)
LEMMA ShowsNot ==
    ASSUME NEW readings
    PROVE  ~Shows(readings) <=> (key # <<>> => \A r \in readings : ~Includes(r, key))
BY DEF Shows

-----------------------------------------------------------------------------
(* One text of an error, made of one of at most the length of the answer. *)
LEMMA OneText ==
    ASSUME NEW answer \in Bytes, NEW text \in Text, NEW secret \in Bytes,
           Len(text) <= Limit(answer)
    PROVE  Len(RedactErrorText(OrGeneric(text), secret)) <= Limit(answer)
<1>1. MinLimit \in Nat /\ MaskLen \in Nat \ {0} /\ MaskLen <= MinLimit
  BY MaskAssumption
<1>2. Limit(answer) \in Nat /\ MinLimit <= Limit(answer)
  BY <1>1, BytesAreText, LimitOf
<1>3. PICK told : told = OrGeneric(text)
  OBVIOUS
<1>4. told \in Text /\ Len(told) <= Limit(answer)
  <2>1. Generic \in Text /\ Len(Generic) = 1
    BY DEF Generic, Text
  <2>2. Len(Generic) <= Limit(answer)
    BY <1>1, <1>2, <2>1
  <2> QED
    BY <1>3, <2>1, <2>2 DEF OrGeneric
<1>5. PICK masked : masked = RedactErrorText(told, secret)
  OBVIOUS
<1>6. masked \in Text /\ Len(masked) <= Limit(told)
  BY <1>4, <1>5, RedactBounded
<1>7. Limit(told) \in {Len(told), MinLimit}
  BY <1>1, <1>4, LimitOf
<1>8. Len(masked) \in Nat /\ Len(told) \in Nat
  BY <1>4, <1>6, Joined
<1> QED
  BY <1>1, <1>2, <1>3, <1>4, <1>5, <1>6, <1>7, <1>8

(* "If an error includes your API key, the SDK hides it": the key as it is, the
   part of ErrorsHideTheKeyOnly that holds of every key and every answer.  *)
KeyOut == key # <<>> /\ phase # "received" => ~Includes(safe, key) /\ ~Includes(message, key)

(* What both texts are decoded to does not show the key either, the part of it
   that holds of every key without percent signs.                          *)
KeyUndecoded ==
    phase # "received" /\ Percent \notin Range(key) =>
        ~Shows({PercentDecoded(safe), PercentDecoded(message)})

(* The errors made so far keep to the limit and do not hold the key, decoded or not. *)
IInv ==
    /\ body \in Bytes /\ key \in Bytes /\ MaskByte \notin Range(key)
    /\ safe \in Text /\ message \in Text
    /\ phase = "received" => safe = <<>>
    /\ phase # "received" => Len(safe) <= Limit(body) /\ Len(message) <= Limit(body)
    /\ KeyOut /\ KeyUndecoded

(* Nothing is in an empty text. *)
LEMMA EmptyHides ==
    ASSUME NEW secret \in Bytes, secret # <<>>
    PROVE  ~Includes(<<>>, secret) /\ ~Includes(PercentDecoded(<<>>), secret)
<1>1. <<>> \in Text /\ Len(<<>>) = 0
  BY DEF Text
<1>2. Free(<<>>, secret)
  BY <1>1 DEF Free
<1>3. PercentDecoded(<<>>) = <<>>
  BY <1>1, NothingToDecode
<1> QED
  BY <1>1, <1>2, <1>3, FreeOf

(* At first there is no error. *)
LEMMA InitHolds == Init => IInv
<1> SUFFICES ASSUME Init PROVE IInv
  OBVIOUS
<1>1. body \in Bytes /\ key \in Bytes /\ MaskByte \notin Range(key)
  BY MaskAssumption DEF Init, Bytes
<1>2. <<>> \in Text
  BY DEF Text
<1> QED
  BY <1>1, <1>2 DEF Init, IInv, KeyOut, KeyUndecoded

(* Every error that is made is masked within the limit. *)
LEMMA StepHolds == IInv /\ [Next]_vars => IInv'
<1> SUFFICES ASSUME IInv, [Next]_vars PROVE IInv'
  OBVIOUS
<1>0. body \in Bytes /\ body \in Text /\ key \in Bytes /\ MaskByte \notin Range(key)
  BY BytesAreText DEF IInv
<1>1. MinLimit \in Nat /\ MaskLen \in Nat \ {0} /\ MaskLen <= MinLimit
  BY MaskAssumption
<1>2. Limit(body) \in Nat /\ Len(body) <= Limit(body) /\ Len(body) \in Nat
  BY <1>0, <1>1, LimitOf, Joined
<1>3. CASE ToApiError
  <2>1. /\ body' = body /\ key' = key /\ phase' = "ApiError"
        /\ safe' = SafeErrorBody(body, key)
        /\ message' = RedactErrorText(OrGeneric(ExtractApiMessage(safe')), key)
    BY <1>3 DEF ToApiError
  <2>2. safe' \in Text /\ Len(safe') <= Limit(body) /\ Len(safe') \in Nat
    BY <1>0, <2>1, SafeBodyBounded, Joined
  <2>3. PICK text : text = ExtractApiMessage(safe')
    OBVIOUS
  <2>4. text \in Text /\ Len(text) <= Len(safe') /\ Len(text) \in Nat
    BY <2>2, <2>3, ExtractNoLonger, Joined DEF NoLonger
  <2>5. Len(text) <= Limit(body)
    BY <1>2, <2>2, <2>4
  <2>6. Len(message') <= Limit(body)
    BY <1>0, <2>1, <2>3, <2>4, <2>5, OneText
  <2>7. OrGeneric(text) \in Text
    BY <2>4 DEF OrGeneric, Generic, Text
  <2>8. key # <<>> => ~Includes(safe', key) /\ ~Includes(message', key)
    BY <1>0, <2>1, <2>3, <2>7, RedactHides
  <2>9. message' \in Text
    BY <1>0, <2>1, <2>3, <2>7, RedactBounded
  <2>10. KeyUndecoded'
    <3>1. ASSUME key # <<>>, Percent \notin Range(key)
          PROVE  ~Includes(PercentDecoded(safe'), key) /\ ~Includes(PercentDecoded(message'), key)
      BY <1>0, <2>1, <2>3, <2>7, <3>1, RedactHidesDecoded
    <3> QED
      BY <2>1, <3>1 DEF KeyUndecoded, Shows
  <2> QED
    BY <1>0, <2>1, <2>2, <2>6, <2>8, <2>9, <2>10 DEF IInv, KeyOut, Limit
<1>4. CASE ReadBulkError
  <2>1. PICK text \in IF MessageOf(body) = {} THEN {Generic} ELSE MessageOf(body) :
            message' = RedactErrorText(text, key)
    BY <1>4 DEF ReadBulkError
  <2>2. /\ body' = body /\ key' = key /\ phase' = "BulkLookupError" /\ safe' = safe
        /\ key # <<>> /\ phase = "received"
    BY <1>4 DEF ReadBulkError
  <2>3. text \in Text /\ Len(text) <= Limit(body)
    <3>1. Generic \in Text /\ Len(Generic) = 1
      BY DEF Generic, Text
    <3>2. Len(Generic) <= Limit(body)
      BY <1>0, <1>1, <1>2, <3>1, LimitOf
    <3>3. text = Generic \/ (text \in Text /\ Len(text) <= Len(body))
      BY <1>0, <2>1, MessageNoLonger DEF NoLonger
    <3>4. CASE text = Generic
      BY <3>1, <3>2, <3>4
    <3>5. CASE text \in Text /\ Len(text) <= Len(body)
      <4>1. Len(text) \in Nat
        BY <3>5, Joined
      <4> QED
        BY <1>2, <3>5, <4>1
    <3> QED
      BY <3>3, <3>4, <3>5
  <2>4. PICK masked : masked = RedactErrorText(text, key)
    OBVIOUS
  <2>5. masked \in Text /\ Len(masked) <= Limit(text) /\ Len(masked) \in Nat /\ Len(text) \in Nat
    BY <1>0, <2>3, <2>4, RedactBounded, Joined
  <2>6. Len(masked) <= Limit(body)
    <3>1. Limit(text) \in {Len(text), MinLimit} /\ MinLimit <= Limit(body)
      BY <1>0, <1>1, <2>3, LimitOf
    <3> QED
      BY <1>1, <1>2, <2>3, <2>5, <3>1
  <2>7. ~Includes(message', key)
    BY <1>0, <2>1, <2>2, <2>3, RedactHides
  <2>8. safe = <<>> /\ ~Includes(safe, key)
    BY <1>0, <2>2, EmptyHides DEF IInv
  <2>9. Len(safe) <= Limit(body)
    <3>1. Len(<<>>) = 0
      OBVIOUS
    <3> QED
      BY <1>2, <2>8, <3>1
  <2>10. message' \in Text /\ safe' \in Text /\ Len(message') <= Limit(body)
    BY <2>1, <2>2, <2>4, <2>5, <2>6 DEF IInv
  <2>11. KeyUndecoded'
    <3>1. ASSUME Percent \notin Range(key)
          PROVE  ~Includes(PercentDecoded(safe), key) /\ ~Includes(PercentDecoded(message'), key)
      <4>1. ~Includes(PercentDecoded(message'), key)
        BY <1>0, <2>1, <2>2, <2>3, <3>1, RedactHidesDecoded
      <4> QED
        BY <1>0, <2>2, <2>8, <4>1, EmptyHides
    <3> QED
      BY <2>2, <3>1 DEF KeyUndecoded, Shows
  <2> QED
    BY <1>0, <2>2, <2>7, <2>8, <2>9, <2>10, <2>11 DEF IInv, KeyOut, Limit
<1>5. CASE UNCHANGED vars
  BY <1>5 DEF vars, IInv, KeyOut, KeyUndecoded, Shows, Limit
<1> QED
  BY <1>3, <1>4, <1>5 DEF Next, Done

(* The invariant that both theorems follow from. *)
THEOREM RedactionInvariance == Spec => []IInv
  BY InitHolds, StepHolds, PTL DEF Spec

(* However often and however short a key occurs in an answer, in whatever
   encoding, neither text of the error is longer than the answer or MinLimit. *)
THEOREM MaskedWithinLimit == Spec => []MaskBounded
<1>1. IInv => MaskBounded
  <2> SUFFICES ASSUME IInv, phase # "received" PROVE Max({Len(safe), Len(message)}) <= Limit(body)
    BY DEF MaskBounded
  <2>1. PICK a, b : a = Len(safe) /\ b = Len(message)
    OBVIOUS
  <2>2. a \in Nat /\ b \in Nat /\ a <= Limit(body) /\ b <= Limit(body)
    BY <2>1, Joined DEF IInv
  <2>3. PICK n : n = IF a <= b THEN b ELSE a
    OBVIOUS
  <2>4. {a, b} \subseteq 0 .. n /\ n \in Nat
    BY <2>2, <2>3
  <2>5. Max({a, b}) \in {a, b}
    BY <2>4, GreatestOf
  <2> QED
    BY <2>1, <2>2, <2>5
<1> QED
  BY <1>1, RedactionInvariance, PTL

(* The key as it is occurs in no text of an error, whatever the answer is and
   wherever the key is in it, one mask next to another included.           *)
THEOREM KeyHidden == Spec => []KeyOut
<1>1. IInv => KeyOut
  BY DEF IInv
<1> QED
  BY <1>1, RedactionInvariance, PTL

(* Nor does a key without percent signs occur in what either text is decoded to:
   where the key takes bytes of an escape away, what is left is no escape. *)
THEOREM KeyHiddenDecoded == Spec => []KeyUndecoded
<1>1. IInv => KeyUndecoded
  BY DEF IInv
<1> QED
  BY <1>1, RedactionInvariance, PTL

(* The body of an error is what SafeErrorBody made of the answer. *)
SafeMade == phase = "ApiError" => safe = SafeErrorBody(body, key)

(* ToApiError makes it so, and nothing changes it later. *)
LEMMA SafeMadeHolds == Spec => []SafeMade
<1>1. Init => SafeMade
  BY DEF Init, SafeMade
<1>2. SafeMade /\ [Next]_vars => SafeMade'
  <2> SUFFICES ASSUME SafeMade, [Next]_vars PROVE SafeMade'
    OBVIOUS
  <2>1. CASE ToApiError
    BY <2>1 DEF ToApiError, SafeMade
  <2>2. CASE ReadBulkError
    BY <2>2 DEF ReadBulkError, SafeMade
  <2>3. CASE UNCHANGED vars
    BY <2>3 DEF vars, SafeMade
  <2> QED
    BY <2>1, <2>2, <2>3 DEF Next, Done
<1> QED
  BY <1>1, <1>2, PTL DEF Spec

(* Of a key of letters, digits and "-._~": no reading of an error shows it, be it a
   string of the body with its escapes and percent-encoding undone, and an answer
   no reading of which shows it is passed on as it is.                     *)
THEOREM PlainKeyHidden == Spec => [](Plain(key) => ErrorsHideTheKeyOnly)
<1>1. IInv /\ SafeMade => (Plain(key) => ErrorsHideTheKeyOnly)
  <2> SUFFICES ASSUME IInv, SafeMade, Plain(key) PROVE ErrorsHideTheKeyOnly
    OBVIOUS
  <2>1. body \in Text /\ key \in Bytes /\ key \in Text /\ safe \in Text /\ KeyOut /\ KeyUndecoded
    BY BytesAreText DEF IInv
  <2>2. Percent \notin Range(key)
    BY <2>1, PlainBytes
  <2>3. ASSUME phase = "ApiError" PROVE ~Shows(Readings(safe))
    <3>1. safe = SafeErrorBody(body, key)
      BY <2>3 DEF SafeMade
    <3>2. key # <<>> => \A r \in Plainly(safe) : Good(r, key)
      BY <2>1, <3>1, SafeShowsNothing
    <3>3. key # <<>> => \A r \in Readings(safe) : ~Includes(r, key)
      BY <2>1, <3>2, ReadingsGood
    <3> QED
      BY <3>3, ShowsNot
  <2>4. ASSUME phase = "ApiError", ~Shows(Readings(body)),
               IsJson(body) \/ ~Includes(body, <<Backslash>>)
        PROVE  safe = body
    <3>1. safe = SafeErrorBody(body, key)
      BY <2>4 DEF SafeMade
    <3>2. CASE key = <<>>
      BY <3>1, <3>2 DEF SafeErrorBody, RedactErrorText
    <3>3. CASE key # <<>>
      <4>1. \A r \in Readings(body) : ~Includes(r, key)
        BY <2>4, <3>3, ShowsNot
      <4>2. \A r \in Plainly(body) : Good(r, key)
        BY <2>1, <4>1, ReadingsGood
      <4>3. Strings(Trim(body)) # {} \/ ~Includes(body, <<Backslash>>)
        BY <2>4 DEF IsJson
      <4> QED
        BY <2>1, <3>1, <3>3, <4>2, <4>3, SafePasses
    <3> QED
      BY <3>2, <3>3
  <2>5. ASSUME phase # "received" PROVE ~Shows({message, PercentDecoded(message)})
    <3>1. key # <<>> => ~Includes(message, key)
      BY <2>1, <2>5 DEF KeyOut
    <3>2. key # <<>> => ~Includes(PercentDecoded(message), key)
      BY <2>1, <2>2, <2>5 DEF KeyUndecoded, Shows
    <3> QED
      BY <3>1, <3>2, ShowsNot
  <2> QED
    BY <2>3, <2>4, <2>5 DEF ErrorsHideTheKeyOnly
<1> QED
  BY <1>1, RedactionInvariance, SafeMadeHolds, PTL
=============================================================================
