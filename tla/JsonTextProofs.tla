---------------------------- MODULE JsonTextProofs ----------------------------
(***************************************************************************)
(* JsonText reads each string, number and keyword for what JsonTextGrammar *)
(* says it denotes, for texts of any length.                               *)
(*                                                                         *)
(* The grammar cuts a string into pieces in any way; the parser cuts it in *)
(* one.  The first part argues about functions that are recursive from a   *)
(* place of a text to the places behind it.  Then come the forms of UTF-8, *)
(* the escapes, numbers, and at last the steps of the parser.              *)
(***************************************************************************)
EXTENDS JsonTextGrammar, TLAPS, NaturalsInduction, WellFoundedInduction

(* A set of numbers that holds 0 and is closed under successors holds all. *)
LEMMA Induct ==
    ASSUME NEW T, 0 \in T, \A n \in Nat : n \in T => n + 1 \in T
    PROVE  Nat \subseteq T
<1> SUFFICES ASSUME Nat \ T # {} PROVE FALSE
  OBVIOUS
<1>1. PICK n \in Nat \ T : \A m \in Nat \ T : ~(<<m, n>> \in OpToRel(<, Nat))
  BY NatLessThanWellFounded, WFMin
<1>2. \A m \in Nat : m < n => <<m, n>> \in OpToRel(<, Nat)
  BY DEF OpToRel
<1>3. n # 0
  OBVIOUS
<1>4. n - 1 \in Nat /\ n - 1 < n /\ (n - 1) + 1 = n
  BY <1>3
<1>5. n - 1 \in T
  BY <1>1, <1>2, <1>4
<1> QED
  BY <1>4, <1>5

(* What holds of a place behind the end, and of a place before it once it holds of
   all places behind that one, holds of all.                               *)
LEMMA Backwards ==
    ASSUME NEW N \in Nat, NEW T,
           \A i \in Nat : (i <= N => \A k \in Nat : k > i => k \in T) => i \in T
    PROVE  Nat \subseteq T
<1> DEFINE U == {n \in Nat : \A i \in Nat : i + n > N => i \in T}
<1>1. 0 \in U
  <2> SUFFICES ASSUME NEW i \in Nat, i + 0 > N PROVE i \in T
    OBVIOUS
  <2>1. ~(i <= N)
    OBVIOUS
  <2> QED
    BY <2>1
<1>2. ASSUME NEW n \in Nat, n \in U PROVE n + 1 \in U
  <2> SUFFICES ASSUME NEW i \in Nat, i + (n + 1) > N PROVE i \in T
    OBVIOUS
  <2>1. ASSUME NEW k \in Nat, k > i PROVE k \in T
    <3>1. k + n > N
      BY <2>1
    <3> QED
      BY <1>2, <3>1
  <2> QED
    BY <2>1
<1> HIDE DEF U
<1>3. Nat \subseteq U
  BY <1>1, <1>2, Induct
<1>4. ASSUME NEW i \in Nat PROVE i \in T
  <2>1. N + 1 \in U /\ i + (N + 1) > N
    BY <1>3
  <2> QED
    BY <2>1 DEF U
<1> QED
  BY <1>4

(* f is what the steps make of it. *)
Solves(f, S, step) == f \in [Nat -> S] /\ \A i \in Nat : f[i] = step[i][f]

(* Steps that look further on only, and nowhere once the end is passed, have a
   function that solves them.                                              *)
LEMMA Solution ==
    ASSUME NEW N \in Nat, NEW S, NEW any \in S, NEW step \in [Nat -> [[Nat -> S] -> S]],
           \A i \in Nat : \A f, g \in [Nat -> S] :
               (i <= N => \A k \in Nat : k > i => f[k] = g[k]) => step[i][f] = step[i][g]
    PROVE  \E f : Solves(f, S, step)
<1> DEFINE From(f, n) == f \in [Nat -> S] /\ \A i \in Nat : i + n > N => f[i] = step[i][f]
           T == {n \in Nat : \E f : From(f, n)}
<1>1. 0 \in T
  <2>1. PICK g : g = [i \in Nat |-> any]
    OBVIOUS
  <2>2. PICK f : f = [i \in Nat |-> step[i][g]]
    OBVIOUS
  <2>3. g \in [Nat -> S]
    BY <2>1
  <2>4. f \in [Nat -> S]
    BY <2>2, <2>3
  <2>5. ASSUME NEW i \in Nat, i + 0 > N PROVE f[i] = step[i][f]
    <3>1. ~(i <= N)
      BY <2>5
    <3>2. step[i][f] = step[i][g]
      BY <2>3, <2>4, <3>1
    <3> QED
      BY <2>2, <3>2
  <2> QED
    BY <2>4, <2>5
<1>2. ASSUME NEW n \in Nat, n \in T PROVE n + 1 \in T
  <2>1. PICK f : From(f, n)
    BY <1>2
  <2>2. f \in [Nat -> S] /\ \A i \in Nat : i + n > N => f[i] = step[i][f]
    BY <2>1
  <2>3. CASE n > N
    <3>1. ASSUME NEW i \in Nat PROVE i + n > N
      BY <2>3
    <3>2. From(f, n + 1)
      BY <2>2, <3>1
    <3> QED
      BY <3>2
  <2>4. CASE ~(n > N)
    <3>1. PICK p : p = N - n
      OBVIOUS
    <3>2. p \in Nat
      BY <2>4, <3>1
    <3>3. PICK g : g = [f EXCEPT ![p] = step[p][f]]
      OBVIOUS
    <3>4. step[p][f] \in S
      BY <2>2, <3>2
    <3>5. g \in [Nat -> S] /\ g[p] = step[p][f] /\ \A k \in Nat : k # p => g[k] = f[k]
      BY <2>2, <3>2, <3>3, <3>4
    <3>6. ASSUME NEW i \in Nat, i + (n + 1) > N PROVE g[i] = step[i][g]
      <4>1. i >= p
        BY <3>1, <3>2, <3>6
      <4>2. ASSUME NEW k \in Nat, k > i PROVE f[k] = g[k]
        BY <3>2, <3>5, <4>1, <4>2
      <4>3. step[i][f] = step[i][g]
        BY <2>2, <3>5, <4>2
      <4>4. i # p => i + n > N
        BY <3>1, <4>1
      <4> QED
        BY <2>2, <3>5, <4>3, <4>4
    <3>7. From(g, n + 1)
      BY <3>5, <3>6
    <3> QED
      BY <3>7
  <2> QED
    BY <2>3, <2>4
<1> HIDE DEF T
<1>3. N + 1 \in T
  <2>1. Nat \subseteq T
    BY <1>1, <1>2, Induct
  <2> QED
    BY <2>1
<1>4. PICK f : From(f, N + 1)
  BY <1>3 DEF T
<1>5. \A i \in Nat : i + (N + 1) > N
  OBVIOUS
<1> QED
  BY <1>4, <1>5 DEF Solves

-----------------------------------------------------------------------------
(* Min returns the least. *)
LEMMA LeastOf ==
    ASSUME NEW S, S \subseteq Nat, S # {}
    PROVE  Min(S) \in S /\ \A x \in S : Min(S) <= x
<1>1. PICK n \in S : \A m \in S : ~(<<m, n>> \in OpToRel(<, Nat))
  BY NatLessThanWellFounded, WFMin
<1>2. \A m \in S : ~(m < n)
  BY <1>1 DEF OpToRel
<1>3. \A m \in S : n <= m
  BY <1>2
<1> QED
  BY <1>3 DEF Min

(* Max returns the greatest. *)
LEMMA GreatestOf ==
    ASSUME NEW N \in Nat, NEW S, S \subseteq 0 .. N, S # {}
    PROVE  Max(S) \in S /\ \A x \in S : x <= Max(S)
<1> DEFINE T == {n \in Nat : N - n \in S}
<1>1. T \subseteq Nat /\ T # {}
  <2>1. PICK x \in S : TRUE
    OBVIOUS
  <2>2. N - x \in Nat /\ N - (N - x) = x
    BY <2>1
  <2> QED
    BY <2>2
<1>2. PICK n \in T : \A m \in T : n <= m
  <2> HIDE DEF T
  <2> QED
    BY <1>1, LeastOf
<1>3. PICK y : y = N - n
  OBVIOUS
<1>4. y \in S
  BY <1>2, <1>3
<1>5. ASSUME NEW x \in S PROVE y >= x
  <2>1. N - x \in T
    <3>1. N - x \in Nat /\ N - (N - x) = x
      OBVIOUS
    <3> QED
      BY <3>1
  <2>2. n <= N - x
    BY <1>2, <2>1
  <2> QED
    BY <1>3, <2>2
<1>6. Max(S) \in S /\ \A x \in S : Max(S) >= x
  BY <1>4, <1>5 DEF Max
<1> QED
  <2>1. ASSUME NEW x \in S PROVE x <= Max(S)
    BY <1>6
  <2> QED
    BY <1>6, <2>1

(* The bytes of a text are numbers. *)
LEMMA OfBytes ==
    ASSUME NEW s \in Bytes
    PROVE  /\ Len(s) \in Nat /\ DOMAIN s = 1 .. Len(s) /\ s \in Seq(Int)
           /\ \A i \in 1 .. Len(s) : s[i] \in Int /\ 0 <= s[i] /\ s[i] <= 255
<1>0. PICK B : B = 0 .. 255
  OBVIOUS
<1>1. s \in Seq(B)
  BY <1>0 DEF Bytes
<1>2. Len(s) \in Nat /\ DOMAIN s = 1 .. Len(s) /\ \A i \in 1 .. Len(s) : s[i] \in B
  BY <1>1
<1>3. \A b \in B : b \in Int /\ 0 <= b /\ b <= 255
  BY <1>0
<1>4. s = [i \in 1 .. Len(s) |-> s[i]]
  BY <1>1
<1>5. [i \in 1 .. Len(s) |-> s[i]] \in Seq(Int)
  BY <1>2, <1>3
<1> QED
  BY <1>0, <1>2, <1>3, <1>4, <1>5

LEMMA ByteAt ==
    ASSUME NEW s \in Bytes, NEW i \in 1 .. Len(s)
    PROVE  s[i] \in Int /\ 0 <= s[i] /\ s[i] <= 255
  BY OfBytes

(* So are those of a stretch of it. *)
LEMMA Part ==
    ASSUME NEW s \in Bytes, NEW i \in Nat \ {0}, NEW m \in Nat, i + m - 1 <= Len(s)
    PROVE  /\ SubSeq(s, i, i + m - 1) \in Bytes /\ Len(SubSeq(s, i, i + m - 1)) = m
           /\ \A k \in 1 .. m : SubSeq(s, i, i + m - 1)[k] = s[i + k - 1]
<1>0. PICK B : B = 0 .. 255
  OBVIOUS
<1>1. s \in Seq(B) /\ Len(s) \in Nat
  BY <1>0 DEF Bytes
<1>2. PICK j : j = i + m - 1
  OBVIOUS
<1>3. j \in Int /\ j <= Len(s) /\ m = j - i + 1 /\ j >= i - 1
  BY <1>2
<1>4. SubSeq(s, i, j) = [k \in 1 .. m |-> s[i + k - 1]]
  BY <1>1, <1>3
<1>5. \A k \in 1 .. m : i + k - 1 \in 1 .. Len(s)
  BY <1>1, <1>3
<1>6. [k \in 1 .. m |-> s[i + k - 1]] \in Seq(B)
  BY <1>1, <1>5
<1>7. PICK part : part = SubSeq(s, i, j)
  OBVIOUS
<1>8. part \in Bytes /\ Len(part) = m /\ \A k \in 1 .. m : part[k] = s[i + k - 1]
  BY <1>0, <1>4, <1>6, <1>7 DEF Bytes
<1> QED
  BY <1>2, <1>7, <1>8

(* Short sequences of bytes. *)
LEMMA Spell ==
    ASSUME NEW a \in 0 .. 255, NEW b \in 0 .. 255, NEW c \in 0 .. 255, NEW d \in 0 .. 255
    PROVE  /\ <<a>> \in Bytes /\ <<a, b>> \in Bytes
           /\ <<a, b, c>> \in Bytes /\ <<a, b, c, d>> \in Bytes
  BY DEF Bytes

-----------------------------------------------------------------------------
(* The forms of UTF-8 of each length, by the limits that the parser checks. *)
LEMMA OneForm ==
    ASSUME NEW u \in Bytes, Len(u) = 1
    PROVE  Utf8Points(u) = IF u[1] <= 127 THEN {u[1]} ELSE {}
<1>0. 1 \in 1 .. Len(u)
  OBVIOUS
<1>1. /\ u[1] \in Int /\ 0 <= u[1] /\ u[1] <= 255
  BY <1>0, ByteAt
<1>2. LeadOf[1] = 0 .. 127 /\ Shortest[1] = 0 /\ Bits(u) = u[1]
  BY SMT DEF LeadOf, Shortest, Bits
<1>3. PICK a : a = u[1]
  OBVIOUS
<1>4. \A k \in 2 .. 1 : u[k] \in Continuation
  OBVIOUS
<1>5. Utf8Points(u) = IF a \in 0 .. 127 THEN {p \in {a} : 0 <= p /\ p <= LastPoint /\ ~IsSurrogate(p)} ELSE {}
  BY SMT, <1>2, <1>3, <1>4 DEF Utf8Points
<1> QED
  BY SMT, <1>1, <1>3, <1>5 DEF LastPoint, IsSurrogate, IsHigh, IsLow

LEMMA TwoForm ==
    ASSUME NEW u \in Bytes, Len(u) = 2
    PROVE  Utf8Points(u) = IF u[1] \in 194 .. 223 /\ u[2] \in Continuation
                           THEN {64 * (u[1] - 192) + (u[2] - 128)} ELSE {}
<1>0. 1 \in 1 .. Len(u) /\ 2 \in 1 .. Len(u)
  OBVIOUS
<1>1. /\ u[1] \in Int /\ 0 <= u[1] /\ u[1] <= 255
      /\ u[2] \in Int /\ 0 <= u[2] /\ u[2] <= 255
  <2>1. u[1] \in Int /\ 0 <= u[1] /\ u[1] <= 255
    BY <1>0, ByteAt, ZenonT(40)
  <2>2. u[2] \in Int /\ 0 <= u[2] /\ u[2] <= 255
    BY <1>0, ByteAt, ZenonT(40)
  <2> QED
    BY <2>1, <2>2
<1>2. LeadOf[2] = 192 .. 223 /\ Shortest[2] = 128
  BY SMT DEF LeadOf, Shortest
<1>3. PICK a, b : a = u[1] /\ b = u[2]
  OBVIOUS
<1>4. Bits(u) = 64 * (a - 192) + (b - 128)
  BY SMT, <1>3 DEF Bits
<1>5. PICK q : q = 64 * (a - 192) + (b - 128)
  OBVIOUS
<1>6. (\A k \in 2 .. 2 : u[k] \in Continuation) <=> b \in Continuation
  BY SMT, <1>3
<1>7. Utf8Points(u) = IF a \in 192 .. 223 /\ b \in Continuation
                      THEN {p \in {q} : 128 <= p /\ p <= LastPoint /\ ~IsSurrogate(p)} ELSE {}
  BY SMT, <1>2, <1>3, <1>4, <1>5, <1>6 DEF Utf8Points
<1>8. ASSUME a \in 192 .. 223, b \in Continuation
      PROVE  128 <= q /\ q <= LastPoint /\ ~IsSurrogate(q) <=> a \in 194 .. 223
  BY SMT, <1>1, <1>3, <1>5, <1>8 DEF LastPoint, IsSurrogate, IsHigh, IsLow, Continuation
<1>9. {p \in {q} : 128 <= p /\ p <= LastPoint /\ ~IsSurrogate(p)} =
          IF 128 <= q /\ q <= LastPoint /\ ~IsSurrogate(q) THEN {q} ELSE {}
  OBVIOUS
<1>10. a \in 194 .. 223 => a \in 192 .. 223
  BY SMT, <1>1, <1>3
<1> QED
  BY SMT, <1>3, <1>5, <1>7, <1>8, <1>9, <1>10

LEMMA ThreeForm ==
    ASSUME NEW u \in Bytes, Len(u) = 3
    PROVE  Utf8Points(u) = IF u[1] \in 224 .. 239 /\ u[2] \in Follower(u[1]) /\ u[3] \in Continuation
                           THEN {4096 * (u[1] - 224) + 64 * (u[2] - 128) + (u[3] - 128)} ELSE {}
<1>0. 1 \in 1 .. Len(u) /\ 2 \in 1 .. Len(u) /\ 3 \in 1 .. Len(u)
  OBVIOUS
<1>1. /\ u[1] \in Int /\ 0 <= u[1] /\ u[1] <= 255
      /\ u[2] \in Int /\ 0 <= u[2] /\ u[2] <= 255
      /\ u[3] \in Int /\ 0 <= u[3] /\ u[3] <= 255
  BY <1>0, ByteAt
<1>2. LeadOf[3] = 224 .. 239 /\ Shortest[3] = 2048
  BY SMT DEF LeadOf, Shortest
<1>3. PICK a, b, c : a = u[1] /\ b = u[2] /\ c = u[3]
  OBVIOUS
<1>4. Bits(u) = 4096 * (a - 224) + 64 * (b - 128) + (c - 128)
  BY SMT, <1>3 DEF Bits
<1>5. PICK q : q = 4096 * (a - 224) + 64 * (b - 128) + (c - 128)
  OBVIOUS
<1>6. (\A k \in 2 .. 3 : u[k] \in Continuation) <=> b \in Continuation /\ c \in Continuation
  BY SMT, <1>3
<1>7. Utf8Points(u) = IF a \in 224 .. 239 /\ b \in Continuation /\ c \in Continuation
                      THEN {p \in {q} : 2048 <= p /\ p <= LastPoint /\ ~IsSurrogate(p)} ELSE {}
  BY SMT, <1>2, <1>3, <1>4, <1>5, <1>6 DEF Utf8Points
<1>8. ASSUME a \in 224 .. 239, b \in Continuation, c \in Continuation
      PROVE  2048 <= q /\ q <= LastPoint /\ ~IsSurrogate(q) <=> b \in Follower(a)
  BY SMT, <1>1, <1>3, <1>5, <1>8 DEF LastPoint, IsSurrogate, IsHigh, IsLow, Continuation, Follower
<1>9. {p \in {q} : 2048 <= p /\ p <= LastPoint /\ ~IsSurrogate(p)} =
          IF 2048 <= q /\ q <= LastPoint /\ ~IsSurrogate(q) THEN {q} ELSE {}
  OBVIOUS
<1>10. a \in 224 .. 239 /\ b \in Follower(a) => b \in Continuation
  BY SMT, <1>1, <1>3 DEF Continuation, Follower
<1> QED
  BY SMT, <1>3, <1>5, <1>7, <1>8, <1>9, <1>10

LEMMA FourForm ==
    ASSUME NEW u \in Bytes, Len(u) = 4
    PROVE  Utf8Points(u) = IF /\ u[1] \in 240 .. 244 /\ u[2] \in Follower(u[1])
                              /\ u[3] \in Continuation /\ u[4] \in Continuation
                           THEN {262144 * (u[1] - 240) + 4096 * (u[2] - 128)
                                     + 64 * (u[3] - 128) + (u[4] - 128)} ELSE {}
<1>0. 1 \in 1 .. Len(u) /\ 2 \in 1 .. Len(u) /\ 3 \in 1 .. Len(u) /\ 4 \in 1 .. Len(u)
  OBVIOUS
<1>1. /\ u[1] \in Int /\ 0 <= u[1] /\ u[1] <= 255
      /\ u[2] \in Int /\ 0 <= u[2] /\ u[2] <= 255
      /\ u[3] \in Int /\ 0 <= u[3] /\ u[3] <= 255
      /\ u[4] \in Int /\ 0 <= u[4] /\ u[4] <= 255
  <2>1. u[1] \in Int /\ 0 <= u[1] /\ u[1] <= 255
    BY <1>0, ByteAt, ZenonT(40)
  <2>2. u[2] \in Int /\ 0 <= u[2] /\ u[2] <= 255
    BY <1>0, ByteAt, ZenonT(40)
  <2>3. u[3] \in Int /\ 0 <= u[3] /\ u[3] <= 255
    BY <1>0, ByteAt, ZenonT(40)
  <2>4. u[4] \in Int /\ 0 <= u[4] /\ u[4] <= 255
    BY <1>0, ByteAt, ZenonT(40)
  <2> QED
    BY <2>1, <2>2, <2>3, <2>4
<1>2. LeadOf[4] = 240 .. 247 /\ Shortest[4] = 65536
  BY SMT DEF LeadOf, Shortest
<1>3. PICK a, b, c, d : a = u[1] /\ b = u[2] /\ c = u[3] /\ d = u[4]
  OBVIOUS
<1>4. Bits(u) = 262144 * (a - 240) + 4096 * (b - 128) + 64 * (c - 128) + (d - 128)
  BY SMT, <1>3 DEF Bits
<1>5. PICK q : q = 262144 * (a - 240) + 4096 * (b - 128) + 64 * (c - 128) + (d - 128)
  OBVIOUS
<1>6. (\A k \in 2 .. 4 : u[k] \in Continuation) <=> b \in Continuation /\ c \in Continuation /\ d \in Continuation
  BY SMT, <1>3
<1>7. Utf8Points(u) = IF a \in 240 .. 247 /\ b \in Continuation /\ c \in Continuation /\ d \in Continuation
                      THEN {p \in {q} : 65536 <= p /\ p <= LastPoint /\ ~IsSurrogate(p)} ELSE {}
  BY SMT, <1>2, <1>3, <1>4, <1>5, <1>6 DEF Utf8Points
<1>8. ASSUME a \in 240 .. 247, b \in Continuation, c \in Continuation, d \in Continuation
      PROVE  65536 <= q /\ q <= LastPoint /\ ~IsSurrogate(q) <=> a \in 240 .. 244 /\ b \in Follower(a)
  <2>1. /\ 240 <= a /\ a <= 247 /\ 128 <= b /\ b <= 191
        /\ 128 <= c /\ c <= 191 /\ 128 <= d /\ d <= 191
    BY SMT, <1>8 DEF Continuation
  <2>2. q \in Int /\ a \in Int /\ b \in Int /\ c \in Int /\ d \in Int
    BY SMT, <1>1, <1>3, <1>5
  <2>3. 65536 <= q => ~IsSurrogate(q)
    BY SMT, <2>2 DEF IsSurrogate, IsHigh, IsLow
  <2>4. CASE a = 240
    <3>1. b \in Follower(a) <=> 144 <= b
      BY SMT, <2>1, <2>2, <2>4 DEF Follower
    <3>2. 65536 <= q /\ q <= LastPoint <=> 144 <= b
      BY SMT, <1>5, <2>1, <2>2, <2>4 DEF LastPoint
    <3> QED
      BY SMT, <2>3, <2>4, <3>1, <3>2
  <2>5. CASE a = 244
    <3>1. b \in Follower(a) <=> b <= 143
      BY SMT, <2>1, <2>2, <2>5 DEF Follower
    <3>2. 65536 <= q /\ q <= LastPoint <=> b <= 143
      BY SMT, <1>5, <2>1, <2>2, <2>5 DEF LastPoint
    <3> QED
      BY SMT, <2>3, <2>5, <3>1, <3>2
  <2>6. CASE 240 < a /\ a < 244
    <3>1. b \in Follower(a)
      BY SMT, <1>8, <2>1, <2>2, <2>6 DEF Follower
    <3>2. 65536 <= q /\ q <= LastPoint
      BY SMT, <1>5, <2>1, <2>2, <2>6 DEF LastPoint
    <3> QED
      BY SMT, <2>2, <2>3, <2>6, <3>1, <3>2
  <2>7. CASE 244 < a
    <3>1. ~(q <= LastPoint)
      BY SMT, <1>5, <2>1, <2>2, <2>7 DEF LastPoint
    <3> QED
      BY SMT, <2>2, <2>7, <3>1
  <2> QED
    BY SMT, <2>1, <2>2, <2>4, <2>5, <2>6, <2>7
<1>9. {p \in {q} : 65536 <= p /\ p <= LastPoint /\ ~IsSurrogate(p)} =
          IF 65536 <= q /\ q <= LastPoint /\ ~IsSurrogate(q) THEN {q} ELSE {}
  OBVIOUS
<1>10. a \in 240 .. 244 => a \in 240 .. 247
  BY SMT, <1>1, <1>3
<1>11. a \in 240 .. 244 /\ b \in Follower(a) => b \in Continuation
  BY SMT, <1>1, <1>3 DEF Continuation, Follower
<1> QED
  BY SMT, <1>3, <1>5, <1>7, <1>8, <1>9, <1>10, <1>11

(* No other length has a form. *)
LEMMA NoForm ==
    ASSUME NEW u \in Bytes, Len(u) \notin 1 .. 4
    PROVE  Utf8Points(u) = {}
  BY SMT DEF Utf8Points

(* The lead byte says how long a form is, and the others cannot lead. *)
FormLength(lead) == IF lead <= 127 THEN 1 ELSE Utf8Length(lead)

LEMMA FormOnce ==
    ASSUME NEW u \in Bytes, NEW q \in Utf8Points(u)
    PROVE  /\ Len(u) \in 1 .. 4 /\ u[1] \in Int /\ Len(u) = FormLength(u[1]) /\ u[1] \notin Continuation
           /\ \A k \in 2 .. Len(u) : u[k] \in Continuation
           /\ Utf8Points(u) = {q} /\ q \in Int
           /\ u[1] <= 127 => q = u[1]
           /\ ~(u[1] <= 127) => q >= 128
<1>1. Len(u) \in 1 .. 4
  BY NoForm
<1>2. CASE Len(u) = 1
  <2>0. 1 \in 1 .. Len(u)
    BY <1>2
  <2>1. u[1] \in Int /\ 0 <= u[1] /\ u[1] <= 255
    BY <2>0, ByteAt
  <2>2. u[1] <= 127 /\ q = u[1] /\ Utf8Points(u) = {q}
    BY SMT, <1>2, OneForm
  <2>3. FormLength(u[1]) = 1
    BY <2>2 DEF FormLength
  <2>4. u[1] \notin Continuation
    BY SMT, <2>1, <2>2 DEF Continuation
  <2>5. \A k \in 2 .. Len(u) : u[k] \in Continuation
    BY <1>2
  <2> QED
    BY <1>1, <1>2, <2>1, <2>2, <2>3, <2>4, <2>5
<1>3. CASE Len(u) = 2
  <2>0. 1 \in 1 .. Len(u) /\ 2 \in 1 .. Len(u)
    BY <1>3
  <2>1. u[1] \in Int /\ u[2] \in Int
    BY <2>0, ByteAt
  <2>2. /\ u[1] \in 194 .. 223 /\ u[2] \in Continuation
        /\ q = 64 * (u[1] - 192) + (u[2] - 128) /\ Utf8Points(u) = {q}
    BY SMT, <1>3, TwoForm
  <2>3. PICK a, b : a = u[1] /\ b = u[2]
    OBVIOUS
  <2>4. FormLength(a) = 2 /\ a \notin Continuation /\ ~(a <= 127) /\ q \in Int /\ q >= 128
    BY SMT, <2>1, <2>2, <2>3 DEF FormLength, Utf8Length, Continuation
  <2>5. \A k \in 2 .. Len(u) : u[k] \in Continuation
    BY <1>3, <2>2
  <2> QED
    BY <1>1, <1>3, <2>1, <2>2, <2>3, <2>4, <2>5
<1>4. CASE Len(u) = 3
  <2>0. 1 \in 1 .. Len(u) /\ 2 \in 1 .. Len(u) /\ 3 \in 1 .. Len(u)
    BY <1>4
  <2>1. u[1] \in Int /\ u[2] \in Int /\ u[3] \in Int
    BY <2>0, ByteAt
  <2>3. PICK a, b, c : a = u[1] /\ b = u[2] /\ c = u[3]
    OBVIOUS
  <2>2. /\ a \in 224 .. 239 /\ b \in Follower(a) /\ c \in Continuation
        /\ q = 4096 * (a - 224) + 64 * (b - 128) + (c - 128) /\ Utf8Points(u) = {q}
    BY SMT, <1>4, <2>3, ThreeForm
  <2>10. a \in Int /\ b \in Int /\ c \in Int /\ 224 <= a /\ a <= 239
    BY SMT, <2>1, <2>2, <2>3
  <2>11. b \in Follower(a) /\ c \in Continuation
    BY <2>2
  <2>12. b \in Continuation /\ (a = 224 => b >= 160)
    BY SMT, <2>10, <2>11 DEF Continuation, Follower
  <2>4. /\ FormLength(a) = 3 /\ a \notin Continuation /\ ~(a <= 127)
        /\ b \in Continuation /\ (a = 224 => b >= 160)
    BY SMT, <2>10, <2>12 DEF FormLength, Utf8Length, Continuation
  <2>7. a \in Int /\ b \in Int /\ c \in Int /\ a >= 224 /\ b >= 128 /\ c >= 128
    BY SMT, <2>10, <2>11, <2>12 DEF Continuation
  <2>8. q = 4096 * (a - 224) + 64 * (b - 128) + (c - 128)
    BY <2>2
  <2>9. a = 224 \/ a >= 225
    BY SMT, <2>7
  <2>6. q \in Int /\ q >= 128
    BY SMT, <2>4, <2>7, <2>8, <2>9
  <2>5. \A k \in 2 .. Len(u) : u[k] \in Continuation
    BY <1>4, <2>2, <2>3, <2>4
  <2> QED
    BY <1>1, <1>4, <2>1, <2>2, <2>3, <2>4, <2>5, <2>6
<1>5. CASE Len(u) = 4
  <2>0. 1 \in 1 .. Len(u) /\ 2 \in 1 .. Len(u) /\ 3 \in 1 .. Len(u) /\ 4 \in 1 .. Len(u)
    BY <1>5
  <2>1. u[1] \in Int /\ u[2] \in Int /\ u[3] \in Int /\ u[4] \in Int
    BY <2>0, ByteAt
  <2>3. PICK a, b, c, d : a = u[1] /\ b = u[2] /\ c = u[3] /\ d = u[4]
    OBVIOUS
  <2>2. /\ a \in 240 .. 244 /\ b \in Follower(a) /\ c \in Continuation /\ d \in Continuation
        /\ q = 262144 * (a - 240) + 4096 * (b - 128) + 64 * (c - 128) + (d - 128) /\ Utf8Points(u) = {q}
    BY SMT, <1>5, <2>3, FourForm
  <2>8. a \in Int /\ b \in Int /\ c \in Int /\ d \in Int /\ 240 <= a /\ a <= 244
    BY SMT, <2>1, <2>2, <2>3
  <2>9. b \in Follower(a) /\ c \in Continuation /\ d \in Continuation
    BY <2>2
  <2>10. b \in Continuation /\ (a = 240 => b >= 144)
    BY SMT, <2>8, <2>9 DEF Continuation, Follower
  <2>4. FormLength(a) = 4 /\ a \notin Continuation /\ ~(a <= 127)
    BY SMT, <2>8 DEF FormLength, Utf8Length, Continuation
  <2>11. q = 262144 * (a - 240) + 4096 * (b - 128) + 64 * (c - 128) + (d - 128)
    BY <2>2
  <2>12. b >= 128 /\ c >= 128 /\ d >= 128
    BY SMT, <2>8, <2>9, <2>10 DEF Continuation
  <2>13. a = 240 \/ a >= 241
    BY SMT, <2>8
  <2>6. q \in Int /\ q >= 128
    BY SMT, <2>8, <2>10, <2>11, <2>12, <2>13
  <2>5. \A k \in 2 .. Len(u) : u[k] \in Continuation
    BY SMT, <1>5, <2>2, <2>3, <2>10
  <2>7. Utf8Points(u) = {q}
    BY <2>2
  <2> QED
    BY SMT, <1>1, <1>5, <2>1, <2>3, <2>4, <2>5, <2>6, <2>7
<1> QED
  BY <1>1, <1>2, <1>3, <1>4, <1>5

(* AppendUnicodeCodePoint writes the form of the point. *)
LEMMA Utf8Back ==
    ASSUME NEW p \in Int, 0 <= p, p <= LastPoint, ~IsSurrogate(p)
    PROVE  Utf8(p) \in Bytes /\ Utf8(p) # <<>> /\ Utf8Points(Utf8(p)) = {p}
<1>0. PICK u : u = Utf8(p)
  OBVIOUS
<1>1. CASE p <= 127
  <2>1. u = <<p>>
    BY SMT, <1>0, <1>1 DEF Utf8
  <2>2. p \in 0 .. 255
    BY <1>1, SMTT(40)
  <2>3. u \in Bytes /\ u # <<>> /\ Len(u) = 1 /\ u[1] = p
    BY <2>1, <2>2, Spell, ZenonT(40)
  <2> QED
    BY SMT, <1>0, <1>1, <2>3, OneForm
<1>2. CASE ~(p <= 127) /\ p <= 2047
  <2>1. PICK h, l : h = p \div 64 /\ l = p % 64
    OBVIOUS
  <2>2. h \in Int /\ l \in Int /\ 0 <= l /\ l <= 63 /\ p = 64 * h + l
    BY SMT, <2>1
  <2>3. 2 <= h /\ h <= 31
    BY SMT, <1>2, <2>2
  <2>4. PICK a, b : a = 192 + h /\ b = 128 + l
    OBVIOUS
  <2>5. u = <<a, b>>
    BY SMT, <1>0, <1>2, <2>1, <2>4 DEF Utf8
  <2>6. a \in 0 .. 255 /\ b \in 0 .. 255
    BY <2>2, <2>3, <2>4, SMTT(40)
  <2>7. u \in Bytes /\ u # <<>> /\ Len(u) = 2 /\ u[1] = a /\ u[2] = b
    BY <2>5, <2>6, Spell, ZenonT(40)
  <2>8. a \in 194 .. 223 /\ b \in Continuation /\ 64 * (a - 192) + (b - 128) = p
    BY SMT, <2>2, <2>3, <2>4 DEF Continuation
  <2> QED
    <3>1. Utf8Points(u) = {64 * (u[1] - 192) + (u[2] - 128)}
      BY <2>7, <2>8, TwoForm
    <3> QED
      BY <1>0, <2>7, <2>8, <3>1
<1>3. CASE ~(p <= 127) /\ ~(p <= 2047) /\ p <= 65535
  <2>1. PICK g, h, l : g = p \div 4096 /\ h = (p \div 64) % 64 /\ l = p % 64
    OBVIOUS
  <2>2. /\ g \in Int /\ h \in Int /\ l \in Int /\ 0 <= l /\ l <= 63 /\ 0 <= h /\ h <= 63
        /\ p = 4096 * g + 64 * h + l
    BY SMT, <2>1
  <2>3. 0 <= g /\ g <= 15 /\ (g = 0 => h >= 32)
    BY SMT, <1>3, <2>2
  <2>4. PICK a, b, c : a = 224 + g /\ b = 128 + h /\ c = 128 + l
    OBVIOUS
  <2>5. u = <<a, b, c>>
    BY SMT, <1>0, <1>3, <2>1, <2>4 DEF Utf8
  <2>6. a \in 0 .. 255 /\ b \in 0 .. 255 /\ c \in 0 .. 255
    BY SMT, <2>2, <2>3, <2>4
  <2>7. u \in Bytes /\ u # <<>> /\ Len(u) = 3 /\ u[1] = a /\ u[2] = b /\ u[3] = c
    BY <2>5, <2>6, Spell, ZenonT(40)
  <2>8. g = 13 => h <= 31
    BY SMT, <2>2 DEF IsSurrogate, IsHigh, IsLow
  <2>9. /\ a \in 224 .. 239 /\ b \in Follower(a) /\ c \in Continuation
        /\ 4096 * (a - 224) + 64 * (b - 128) + (c - 128) = p
    BY SMT, <2>2, <2>3, <2>4, <2>8 DEF Continuation, Follower
  <2> QED
    BY <1>0, <2>7, <2>9, ThreeForm, SMTT(40)
<1>4. CASE ~(p <= 127) /\ ~(p <= 2047) /\ ~(p <= 65535)
  <2>1. PICK f, g, h, l : /\ f = p \div 262144 /\ g = (p \div 4096) % 64
                          /\ h = (p \div 64) % 64 /\ l = p % 64
    OBVIOUS
  <2>2. /\ f \in Int /\ g \in Int /\ h \in Int /\ l \in Int
        /\ 0 <= l /\ l <= 63 /\ 0 <= h /\ h <= 63 /\ 0 <= g /\ g <= 63
        /\ p = 262144 * f + 4096 * g + 64 * h + l
    BY SMT, <2>1
  <2>3. 0 <= f /\ f <= 4 /\ (f = 0 => g >= 16) /\ (f = 4 => g <= 15)
    BY SMT, <1>4, <2>2 DEF LastPoint
  <2>4. PICK a, b, c, d : a = 240 + f /\ b = 128 + g /\ c = 128 + h /\ d = 128 + l
    OBVIOUS
  <2>5. u = <<a, b, c, d>>
    BY SMT, <1>0, <1>4, <2>1, <2>4 DEF Utf8
  <2>6. a \in 0 .. 255 /\ b \in 0 .. 255 /\ c \in 0 .. 255 /\ d \in 0 .. 255
    BY <2>2, <2>3, <2>4, SMTT(40)
  <2>7. u \in Bytes /\ u # <<>> /\ Len(u) = 4 /\ u[1] = a /\ u[2] = b /\ u[3] = c /\ u[4] = d
    BY <2>5, <2>6, Spell, ZenonT(40)
  <2>8. /\ a \in 240 .. 244 /\ b \in Follower(a) /\ c \in Continuation /\ d \in Continuation
    BY SMT, <2>2, <2>3, <2>4 DEF Continuation, Follower
  <2>9. 262144 * (a - 240) + 4096 * (b - 128) + 64 * (c - 128) + (d - 128) = p
    BY SMT, <2>2, <2>4
  <2> QED
    BY SMT, <1>0, <2>7, <2>8, <2>9, FourForm
<1> QED
  BY SMT, <1>1, <1>2, <1>3, <1>4

-----------------------------------------------------------------------------
(* A hexadecimal digit is worth what HexValue says, and no other byte is worth
   anything.                                                               *)
LEMMA HexDigit ==
    ASSUME NEW b \in Int
    PROVE  /\ HexValue(b) \in Int /\ -1 <= HexValue(b) /\ HexValue(b) <= 15
           /\ \A v \in 0 .. 15 : b \in Hex[v + 1] <=> HexValue(b) = v
<1>1. HexValue(b) \in Int /\ -1 <= HexValue(b) /\ HexValue(b) <= 15
  BY SMT DEF HexValue
<1>2. ASSUME NEW v \in 0 .. 15 PROVE b \in Hex[v + 1] <=> HexValue(b) = v
  <2>1. CASE v = 0
    <3>1. Hex[1] = {48}
      BY DEF Hex
    <3> QED
      BY SMT, <2>1, <3>1 DEF HexValue
  <2>2. CASE v = 1
    <3>1. Hex[2] = {49}
      BY DEF Hex
    <3> QED
      BY SMT, <2>2, <3>1 DEF HexValue
  <2>3. CASE v = 2
    <3>1. Hex[3] = {50}
      BY DEF Hex
    <3> QED
      BY SMT, <2>3, <3>1 DEF HexValue
  <2>4. CASE v = 3
    <3>1. Hex[4] = {51}
      BY DEF Hex
    <3> QED
      BY SMT, <2>4, <3>1 DEF HexValue
  <2>5. CASE v = 4
    <3>1. Hex[5] = {52}
      BY DEF Hex
    <3> QED
      BY SMT, <2>5, <3>1 DEF HexValue
  <2>6. CASE v = 5
    <3>1. Hex[6] = {53}
      BY DEF Hex
    <3> QED
      BY SMT, <2>6, <3>1 DEF HexValue
  <2>7. CASE v = 6
    <3>1. Hex[7] = {54}
      BY DEF Hex
    <3> QED
      BY SMT, <2>7, <3>1 DEF HexValue
  <2>8. CASE v = 7
    <3>1. Hex[8] = {55}
      BY DEF Hex
    <3> QED
      BY SMT, <2>8, <3>1 DEF HexValue
  <2>9. CASE v = 8
    <3>1. Hex[9] = {56}
      BY DEF Hex
    <3> QED
      BY SMT, <2>9, <3>1 DEF HexValue
  <2>10. CASE v = 9
    <3>1. Hex[10] = {57}
      BY DEF Hex
    <3> QED
      BY SMT, <2>10, <3>1 DEF HexValue
  <2>11. CASE v = 10
    <3>1. Hex[11] = {65, 97}
      BY DEF Hex
    <3> QED
      BY SMT, <2>11, <3>1 DEF HexValue
  <2>12. CASE v = 11
    <3>1. Hex[12] = {66, 98}
      BY DEF Hex
    <3> QED
      BY SMT, <2>12, <3>1 DEF HexValue
  <2>13. CASE v = 12
    <3>1. Hex[13] = {67, 99}
      BY DEF Hex
    <3> QED
      BY SMT, <2>13, <3>1 DEF HexValue
  <2>14. CASE v = 13
    <3>1. Hex[14] = {68, 100}
      BY DEF Hex
    <3> QED
      BY SMT, <2>14, <3>1 DEF HexValue
  <2>15. CASE v = 14
    <3>1. Hex[15] = {69, 101}
      BY DEF Hex
    <3> QED
      BY SMT, <2>15, <3>1 DEF HexValue
  <2>16. CASE v = 15
    <3>1. Hex[16] = {70, 102}
      BY DEF Hex
    <3> QED
      BY SMT, <2>16, <3>1 DEF HexValue
  <2> QED
    BY <2>1, <2>2, <2>3, <2>4, <2>5, <2>6, <2>7, <2>8, <2>9, <2>10, <2>11, <2>12, <2>13, <2>14, <2>15, <2>16
<1> QED
  BY <1>1, <1>2

LEMMA NibbleIs ==
    ASSUME NEW b \in Int
    PROVE  Nibbles(b) = IF HexValue(b) >= 0 THEN {HexValue(b)} ELSE {}
<1>1. PICK h : h = HexValue(b)
  OBVIOUS
<1>2. h \in Int /\ h <= 15
  BY <1>1, HexDigit
<1>3. Nibbles(b) = {v \in 0 .. 15 : h = v}
  BY <1>1, HexDigit, Zenon DEF Nibbles
<1> QED
  BY SMT, <1>1, <1>2, <1>3

(* The value of four digits. *)
Four(a, b, c, d) == 4096 * a + 256 * b + 16 * c + d
AllHex(a, b, c, d) == HexValue(a) >= 0 /\ HexValue(b) >= 0 /\ HexValue(c) >= 0 /\ HexValue(d) >= 0

LEMMA UnitsOf ==
    ASSUME NEW u \in Bytes, Len(u) = 6, u[1] = Backslash, u[2] = 117
    PROVE  Units(u) = IF AllHex(u[3], u[4], u[5], u[6])
                      THEN {Four(HexValue(u[3]), HexValue(u[4]), HexValue(u[5]), HexValue(u[6]))} ELSE {}
<1>1. u[3] \in Int /\ u[4] \in Int /\ u[5] \in Int /\ u[6] \in Int
  <2>1. 3 \in 1 .. Len(u) /\ 4 \in 1 .. Len(u) /\ 5 \in 1 .. Len(u) /\ 6 \in 1 .. Len(u)
    OBVIOUS
  <2>2. u[3] \in Int
    BY <2>1, ByteAt, ZenonT(90)
  <2>3. u[4] \in Int
    BY <2>1, ByteAt, ZenonT(90)
  <2>4. u[5] \in Int
    BY <2>1, ByteAt, ZenonT(90)
  <2>5. u[6] \in Int
    BY <2>1, ByteAt, ZenonT(90)
  <2> QED
    BY <2>2, <2>3, <2>4, <2>5
<1>4. PICK h, j, k, l : h = HexValue(u[3]) /\ j = HexValue(u[4]) /\ k = HexValue(u[5]) /\ l = HexValue(u[6])
  OBVIOUS
<1>5. /\ Nibbles(u[3]) = IF h >= 0 THEN {h} ELSE {}
      /\ Nibbles(u[4]) = IF j >= 0 THEN {j} ELSE {}
      /\ Nibbles(u[5]) = IF k >= 0 THEN {k} ELSE {}
      /\ Nibbles(u[6]) = IF l >= 0 THEN {l} ELSE {}
  BY <1>1, <1>4, NibbleIs
<1>2. PICK A, B, C, D : A = Nibbles(u[3]) /\ B = Nibbles(u[4]) /\ C = Nibbles(u[5]) /\ D = Nibbles(u[6])
  OBVIOUS
<1>3. Units(u) = {4096 * a + 256 * b + 16 * c + d : a \in A, b \in B, c \in C, d \in D}
  BY SMT, <1>2 DEF Units
<1>6. CASE AllHex(u[3], u[4], u[5], u[6])
  <2>1. A = {h} /\ B = {j} /\ C = {k} /\ D = {l}
    BY <1>2, <1>4, <1>5, <1>6 DEF AllHex
  <2>2. Units(u) = {Four(h, j, k, l)}
    BY SMT, <1>3, <2>1 DEF Four
  <2> QED
    BY <1>4, <1>6, <2>2
<1>7. CASE ~AllHex(u[3], u[4], u[5], u[6])
  <2>1. A = {} \/ B = {} \/ C = {} \/ D = {}
    BY <1>2, <1>4, <1>5, <1>7 DEF AllHex
  <2>2. \A x : x \notin Units(u)
    BY SMT, <1>3, <2>1
  <2>3. Units(u) = {}
    BY <2>2, Zenon
  <2> QED
    BY <1>7, <2>3
<1> QED
  BY <1>6, <1>7, Zenon

(* \u at a place of a text. *)
Unicode(s, i) == Peek(s, i) = Backslash /\ Peek(s, i + 1) = 117

LEMMA PeekIs ==
    ASSUME NEW s \in Bytes, NEW i \in Nat \ {0}
    PROVE  /\ Peek(s, i) \in Int /\ Peek(s, i) <= 255
           /\ Peek(s, i) >= 0 <=> i <= Len(s)
           /\ i <= Len(s) => Peek(s, i) = s[i]
           /\ ~(i <= Len(s)) => Peek(s, i) = -1
<1>1. CASE i <= Len(s)
  <2>1. i \in 1 .. Len(s) /\ DOMAIN s = 1 .. Len(s)
    BY <1>1, OfBytes
  <2>2. s[i] \in Int /\ 0 <= s[i] /\ s[i] <= 255
    BY <2>1, ByteAt
  <2> QED
    BY SMT, <1>1, <2>1, <2>2 DEF Peek
<1>2. CASE ~(i <= Len(s))
  <2>1. i \notin DOMAIN s
    BY <1>2, OfBytes
  <2>2. Peek(s, i) = -1
    BY <2>1 DEF Peek, AtEnd
  <2> QED
    BY SMT, <1>2, <2>2
<1> QED
  BY <1>1, <1>2

LEMMA CodeUnitIs ==
    ASSUME NEW s \in Bytes, NEW i \in Nat \ {0}
    PROVE  /\ CodeUnit(s, i) \in Int /\ -1 <= CodeUnit(s, i) /\ CodeUnit(s, i) <= 65535
           /\ CodeUnit(s, i) # NoUnit => i + 3 <= Len(s)
           /\ i + 3 <= Len(s) =>
                 CodeUnit(s, i) = IF AllHex(s[i], s[i + 1], s[i + 2], s[i + 3])
                                  THEN Four(HexValue(s[i]), HexValue(s[i + 1]), HexValue(s[i + 2]), HexValue(s[i + 3]))
                                  ELSE NoUnit
<1>1. PICK a, b, c, d : a = Peek(s, i) /\ b = Peek(s, i + 1) /\ c = Peek(s, i + 2) /\ d = Peek(s, i + 3)
  OBVIOUS
<1>2. a \in Int /\ b \in Int /\ c \in Int /\ d \in Int
  <2>1. i + 1 \in Nat \ {0} /\ i + 2 \in Nat \ {0} /\ i + 3 \in Nat \ {0}
    OBVIOUS
  <2> QED
    BY <1>1, <2>1, PeekIs
<1>3. i + 0 = i /\ 0 .. 3 = {0, 1, 2, 3}
  BY SMT
<1>4. CodeUnit(s, i) = IF AllHex(a, b, c, d)
                       THEN Four(HexValue(a), HexValue(b), HexValue(c), HexValue(d)) ELSE NoUnit
  BY <1>1, <1>3, SMT DEF CodeUnit, AllHex, Four
<1>5. PICK h, j, k, l : h = HexValue(a) /\ j = HexValue(b) /\ k = HexValue(c) /\ l = HexValue(d)
  OBVIOUS
<1>6. /\ h \in Int /\ j \in Int /\ k \in Int /\ l \in Int
      /\ h <= 15 /\ j <= 15 /\ k <= 15 /\ l <= 15
  BY <1>2, <1>5, HexDigit
<1>7. CodeUnit(s, i) = IF h >= 0 /\ j >= 0 /\ k >= 0 /\ l >= 0 THEN Four(h, j, k, l) ELSE NoUnit
  BY <1>4, <1>5, Zenon DEF AllHex
<1>8. CodeUnit(s, i) \in Int /\ -1 <= CodeUnit(s, i) /\ CodeUnit(s, i) <= 65535
  BY SMT, <1>6, <1>7 DEF Four, NoUnit
<1>9. ASSUME ~(i + 3 <= Len(s)) PROVE CodeUnit(s, i) = NoUnit
  <2>1. d = -1
    <3>1. i + 3 \in Nat \ {0}
      OBVIOUS
    <3> QED
      BY <1>1, <1>9, <3>1, PeekIs
  <2>2. l = -1
    BY SMT, <1>5, <2>1 DEF HexValue
  <2> QED
    BY SMT, <1>7, <2>2
<1>10. ASSUME i + 3 <= Len(s) PROVE a = s[i] /\ b = s[i + 1] /\ c = s[i + 2] /\ d = s[i + 3]
  <2>1. /\ i + 1 \in Nat \ {0} /\ i + 2 \in Nat \ {0} /\ i + 3 \in Nat \ {0}
        /\ i <= Len(s) /\ i + 1 <= Len(s) /\ i + 2 <= Len(s)
    BY <1>10, OfBytes
  <2> QED
    BY <1>1, <1>10, <2>1, PeekIs
<1> QED
  <2>1. ASSUME i + 3 <= Len(s)
        PROVE  CodeUnit(s, i) = IF AllHex(s[i], s[i + 1], s[i + 2], s[i + 3])
                                THEN Four(HexValue(s[i]), HexValue(s[i + 1]), HexValue(s[i + 2]), HexValue(s[i + 3]))
                                ELSE NoUnit
    BY <1>4, <1>10, <2>1, Zenon
  <2> QED
    BY <1>8, <1>9, <2>1

(* The code units of a stretch of a text are the one that the parser reads there. *)
LEMMA UnitAt ==
    ASSUME NEW s \in Bytes, NEW i \in Nat \ {0}, i + 5 <= Len(s)
    PROVE  Units(SubSeq(s, i, i + 5)) =
               IF Unicode(s, i) /\ CodeUnit(s, i + 2) # NoUnit THEN {CodeUnit(s, i + 2)} ELSE {}
<1>1. PICK u : u = SubSeq(s, i, i + 5)
  OBVIOUS
<1>2. i + 6 - 1 = i + 5 /\ Len(s) \in Nat
  BY OfBytes
<1>3. u \in Bytes /\ Len(u) = 6 /\ \A k \in 1 .. 6 : u[k] = s[i + k - 1]
  BY <1>1, <1>2, Part
<1>4. u[1] = s[i] /\ u[2] = s[i + 1] /\ u[3] = s[i + 2] /\ u[4] = s[i + 3] /\ u[5] = s[i + 4] /\ u[6] = s[i + 5]
  <2>1. i + 1 - 1 = i /\ i + 2 - 1 = i + 1 /\ i + 3 - 1 = i + 2 /\ i + 4 - 1 = i + 3 /\ i + 5 - 1 = i + 4
    OBVIOUS
  <2>2. 1 \in 1 .. 6 /\ 2 \in 1 .. 6 /\ 3 \in 1 .. 6 /\ 4 \in 1 .. 6 /\ 5 \in 1 .. 6 /\ 6 \in 1 .. 6
    OBVIOUS
  <2> QED
    BY <1>2, <1>3, <2>1, <2>2, Zenon
<1>5. Unicode(s, i) <=> u[1] = Backslash /\ u[2] = 117
  <2>1. i \in Nat \ {0} /\ i + 1 \in Nat \ {0} /\ i <= Len(s) /\ i + 1 <= Len(s)
    BY <1>2
  <2>2. Peek(s, i) = s[i] /\ Peek(s, i + 1) = s[i + 1]
    BY <2>1, PeekIs
  <2> QED
    BY <1>4, <2>2 DEF Unicode
<1>6. CASE ~Unicode(s, i)
  BY <1>1, <1>3, <1>5, <1>6, SMTT(40) DEF Units
<1>7. CASE Unicode(s, i)
  <2>1. /\ i + 2 \in Nat \ {0} /\ (i + 2) + 3 <= Len(s)
        /\ (i + 2) + 1 = i + 3 /\ (i + 2) + 2 = i + 4 /\ (i + 2) + 3 = i + 5
    BY <1>2
  <2>2. CodeUnit(s, i + 2) = IF AllHex(u[3], u[4], u[5], u[6])
                             THEN Four(HexValue(u[3]), HexValue(u[4]), HexValue(u[5]), HexValue(u[6])) ELSE NoUnit
    <3>1. CodeUnit(s, i + 2) = IF AllHex(s[i + 2], s[(i + 2) + 1], s[(i + 2) + 2], s[(i + 2) + 3])
                  THEN Four(HexValue(s[i + 2]), HexValue(s[(i + 2) + 1]), HexValue(s[(i + 2) + 2]), HexValue(s[(i + 2) + 3]))
                  ELSE NoUnit
      BY <2>1, CodeUnitIs
    <3> QED
      BY <1>4, <2>1, <3>1, Zenon
  <2>3. Units(u) = IF AllHex(u[3], u[4], u[5], u[6])
                   THEN {Four(HexValue(u[3]), HexValue(u[4]), HexValue(u[5]), HexValue(u[6]))} ELSE {}
    BY <1>3, <1>5, <1>7, UnitsOf
  <2>4. AllHex(u[3], u[4], u[5], u[6]) =>
            Four(HexValue(u[3]), HexValue(u[4]), HexValue(u[5]), HexValue(u[6])) # NoUnit
    <3>1. u[3] \in Int /\ u[4] \in Int /\ u[5] \in Int /\ u[6] \in Int
      <4>1. 3 \in 1 .. Len(u) /\ 4 \in 1 .. Len(u) /\ 5 \in 1 .. Len(u) /\ 6 \in 1 .. Len(u)
        BY <1>3
      <4> QED
        BY <1>3, <4>1, ByteAt
    <3>2. PICK h, j, k, l : h = HexValue(u[3]) /\ j = HexValue(u[4]) /\ k = HexValue(u[5]) /\ l = HexValue(u[6])
      OBVIOUS
    <3>3. h \in Int /\ j \in Int /\ k \in Int /\ l \in Int
      BY <3>1, <3>2, HexDigit
    <3>4. h >= 0 /\ j >= 0 /\ k >= 0 /\ l >= 0 => Four(h, j, k, l) # NoUnit
      BY SMT, <3>3 DEF Four, NoUnit
    <3> QED
      BY <3>2, <3>4, Zenon DEF AllHex
  <2> QED
    BY <1>1, <1>7, <2>2, <2>3, <2>4, Zenon
<1> QED
  BY <1>6, <1>7, Zenon

-----------------------------------------------------------------------------
(* What a piece of a string at a place of a text spells, by its length. *)
Lengths == {1, 2, 3, 4, 6, 12}
SpelledAt(s, i, m) == Spelled(SubSeq(s, i, i + m - 1))

(* No piece spells anything; one piece does, and it spells one code point, whose
   form the parser adds to the string.                                     *)
Nothing(s, i) == \A m \in Lengths : i + m - 1 <= Len(s) => SpelledAt(s, i, m) = {}
Spells(s, i, piece) ==
    /\ piece.used \in Lengths /\ i + piece.used - 1 <= Len(s)
    /\ piece.bytes \in Bytes /\ piece.bytes # <<>>
    /\ \E p \in Int : SpelledAt(s, i, piece.used) = {p} /\ Utf8Points(piece.bytes) = {p}
    /\ \A m \in Lengths \ {piece.used} : i + m - 1 <= Len(s) => SpelledAt(s, i, m) = {}
ReadAs(s, i, piece) == IF piece = Refused THEN Nothing(s, i) ELSE Spells(s, i, piece)

LEMMA LengthsTyped == \A m \in Lengths : m \in Nat /\ m # 0 /\ m <= 12
  BY SMT DEF Lengths

LEMMA PieceFields ==
    ASSUME NEW n \in Nat, n # 0, NEW bytes
    PROVE  Piece(n, bytes).used = n /\ Piece(n, bytes).bytes = bytes /\ Piece(n, bytes) # Refused
<1>1. Piece(n, bytes).used = n /\ Piece(n, bytes).bytes = bytes
  BY DEF Piece
<1>2. Refused.used = 0
  BY DEF Piece, Refused
<1> QED
  BY <1>1, <1>2

(* A piece that is no escape is a form of UTF-8. *)
LEMMA RawAt ==
    ASSUME NEW s \in Bytes, NEW i \in 1 .. Len(s), NEW m \in Nat \ {0}, i + m - 1 <= Len(s),
           s[i] # Backslash
    PROVE  /\ SubSeq(s, i, i + m - 1) \in Bytes /\ Len(SubSeq(s, i, i + m - 1)) = m
           /\ SubSeq(s, i, i + m - 1)[1] = s[i]
           /\ SpelledAt(s, i, m) = {p \in Utf8Points(SubSeq(s, i, i + m - 1)) : p >= 32 /\ p # Quote}
<1>1. PICK u : u = SubSeq(s, i, i + m - 1)
  OBVIOUS
<1>2. i \in Nat \ {0} /\ 1 \in 1 .. m /\ i + 1 - 1 = i
  OBVIOUS
<1>3. u \in Bytes /\ Len(u) = m /\ \A k \in 1 .. m : u[k] = s[i + k - 1]
  BY <1>1, <1>2, Part
<1>4. u[1] = s[i]
  <2>1. u[1] = s[i + 1 - 1]
    BY <1>2, <1>3
  <2> QED
    BY <1>2, <2>1
<1>5. Spelled(u) = {p \in Utf8Points(u) : p >= 32 /\ p # Quote}
  BY <1>4 DEF Spelled
<1> QED
  BY <1>1, <1>3, <1>4, <1>5 DEF SpelledAt

LEMMA RawElsewhere ==
    ASSUME NEW s \in Bytes, NEW i \in 1 .. Len(s), NEW m \in Nat \ {0}, i + m - 1 <= Len(s),
           s[i] # Backslash, m # FormLength(s[i])
    PROVE  SpelledAt(s, i, m) = {}
<1>1. PICK u : u = SubSeq(s, i, i + m - 1)
  OBVIOUS
<1>2. u \in Bytes /\ Len(u) = m /\ u[1] = s[i]
  BY <1>1, RawAt
<1>3. ASSUME NEW q \in Utf8Points(u) PROVE FALSE
  <2>1. Len(u) = FormLength(u[1])
    BY <1>2, FormOnce
  <2> QED
    BY <1>2, <2>1
<1>4. SpelledAt(s, i, m) = {p \in Utf8Points(u) : p >= 32 /\ p # Quote}
  BY <1>1, RawAt
<1> QED
  BY <1>3, <1>4

(* A byte that is below 128 stands for itself. *)
LEMMA RawByte ==
    ASSUME NEW s \in Bytes, NEW i \in 1 .. Len(s), s[i] # Backslash, s[i] <= 127
    PROVE  /\ SpelledAt(s, i, 1) = IF s[i] >= 32 /\ s[i] # Quote THEN {s[i]} ELSE {}
           /\ \A m \in Lengths \ {1} : i + m - 1 <= Len(s) => SpelledAt(s, i, m) = {}
<1>1. PICK u : u = SubSeq(s, i, i + 1 - 1)
  OBVIOUS
<1>2. 1 \in Nat \ {0} /\ i + 1 - 1 <= Len(s)
  BY OfBytes
<1>3. u \in Bytes /\ Len(u) = 1 /\ u[1] = s[i] /\ SpelledAt(s, i, 1) = {p \in Utf8Points(u) : p >= 32 /\ p # Quote}
  BY <1>1, <1>2, RawAt
<1>4. Utf8Points(u) = {s[i]}
  BY <1>3, OneForm
<1>5. SpelledAt(s, i, 1) = IF s[i] >= 32 /\ s[i] # Quote THEN {s[i]} ELSE {}
  BY <1>3, <1>4
<1>6. ASSUME NEW m \in Lengths \ {1}, i + m - 1 <= Len(s) PROVE SpelledAt(s, i, m) = {}
  <2>1. m \in Nat \ {0}
    BY LengthsTyped
  <2>2. FormLength(s[i]) = 1
    BY DEF FormLength
  <2> QED
    BY <1>6, <2>1, <2>2, RawElsewhere
<1> QED
  BY <1>5, <1>6

LEMMA NothingAt ==
    ASSUME NEW s \in Bytes, NEW i \in 1 .. Len(s), s[i] < 32 \/ s[i] = Quote
    PROVE  Nothing(s, i)
<1>1. s[i] \in Int
  BY ByteAt
<1>2. s[i] # Backslash /\ s[i] <= 127 /\ ~(s[i] >= 32 /\ s[i] # Quote)
  BY SMT, <1>1 DEF Backslash, Quote
<1>3. SpelledAt(s, i, 1) = {} /\ \A m \in Lengths \ {1} : i + m - 1 <= Len(s) => SpelledAt(s, i, m) = {}
  BY <1>2, RawByte
<1> QED
  BY <1>3 DEF Nothing

LEMMA PlainByte ==
    ASSUME NEW s \in Bytes, NEW i \in 1 .. Len(s), s[i] # Backslash, s[i] # Quote, 32 <= s[i], s[i] <= 127
    PROVE  Spells(s, i, Piece(1, <<s[i]>>))
<1>1. PICK b : b = <<s[i]>>
  OBVIOUS
<1>2. s[i] \in Int /\ 0 <= s[i] /\ s[i] <= 255
  BY ByteAt
<1>3. b \in Bytes /\ b # <<>> /\ Len(b) = 1 /\ b[1] = s[i]
  <2>1. PICK x : x = s[i]
    OBVIOUS
  <2>2. x \in Int /\ 0 <= x /\ x <= 255
    BY <1>2, <2>1
  <2>3. x \in 0 .. 255
    BY SMT, <2>2
  <2>4. b = <<x>>
    BY <1>1, <2>1, SMTT(40)
  <2>5. b \in Bytes
    BY <2>3, <2>4, Spell, ZenonT(40)
  <2> QED
    BY <2>1, <2>4, <2>5
<1>4. Utf8Points(b) = {s[i]}
  BY <1>3, OneForm
<1>5. SpelledAt(s, i, 1) = {s[i]}
  BY <1>2, RawByte
<1>6. \A m \in Lengths \ {1} : i + m - 1 <= Len(s) => SpelledAt(s, i, m) = {}
  BY RawByte
<1>7. 1 \in Lengths /\ i + 1 - 1 <= Len(s)
  BY OfBytes DEF Lengths
<1>8. Piece(1, b).used = 1 /\ Piece(1, b).bytes = b
  BY PieceFields
<1> QED
  BY <1>1, <1>2, <1>3, <1>4, <1>5, <1>6, <1>7, <1>8 DEF Spells

(* The form at a place of a text, by the bytes there. *)
FormAt(s, i) ==
    /\ s[i] \in 194 .. 244
    /\ i + Utf8Length(s[i]) - 1 <= Len(s)
    /\ s[i + 1] \in Follower(s[i])
    /\ \A k \in 2 .. Utf8Length(s[i]) - 1 : s[i + k] \in Continuation

LEMMA LengthIs ==
    ASSUME NEW lead \in Int
    PROVE  /\ Utf8Length(lead) \in {2, 3, 4}
           /\ Utf8Length(lead) = 2 <=> lead < 224
           /\ Utf8Length(lead) = 3 <=> (224 <= lead /\ lead < 240)
           /\ Utf8Length(lead) = 4 <=> 240 <= lead
  BY SMT DEF Utf8Length

LEMMA NotBeyond ==
    ASSUME NEW lead \in Int
    PROVE  AtEnd \notin Follower(lead) /\ AtEnd \notin Continuation
<1>1. \A x \in Continuation : x >= 128
  BY SMT DEF Continuation
<1>2. \A x \in Follower(lead) : x >= 128
  BY SMT DEF Follower, Continuation
<1> QED
  BY <1>1, <1>2, SMT DEF AtEnd

LEMMA Utf8PieceIs ==
    ASSUME NEW s \in Bytes, NEW i \in 1 .. Len(s)
    PROVE  /\ FormAt(s, i) => Utf8Piece(s, i) = Piece(Utf8Length(s[i]), SubSeq(s, i, i + Utf8Length(s[i]) - 1))
           /\ ~FormAt(s, i) => Utf8Piece(s, i) = Refused
<1>1. PICK L : L = Utf8Length(s[i])
  OBVIOUS
<1>2. L \in {2, 3, 4}
  BY <1>1, ByteAt, LengthIs
<1>3. \A k \in Nat : i + k \in Nat \ {0}
  OBVIOUS
<1>4. \A k \in Nat : i + k <= Len(s) => Peek(s, i + k) = s[i + k]
  BY <1>3, PeekIs
<1>5. \A k \in Nat : ~(i + k <= Len(s)) => Peek(s, i + k) = AtEnd
  BY <1>3, PeekIs DEF AtEnd
<1>6. AtEnd \notin Follower(s[i]) /\ AtEnd \notin Continuation
  BY ByteAt, NotBeyond
<1>7. i \in Nat /\ Len(s) \in Nat
  BY OfBytes
<1> DEFINE reads == /\ s[i] \in 194 .. 244
                    /\ Peek(s, i + 1) \in Follower(s[i])
                    /\ \A k \in 2 .. L - 1 : Peek(s, i + k) \in Continuation
<1>8. ASSUME i + L - 1 <= Len(s) PROVE reads <=> FormAt(s, i)
  <2>1. i + 1 <= Len(s) /\ \A k \in 2 .. L - 1 : k \in Nat /\ i + k <= Len(s)
    BY <1>2, <1>7, <1>8
  <2>2. Peek(s, i + 1) = s[i + 1] /\ \A k \in 2 .. L - 1 : Peek(s, i + k) = s[i + k]
    BY <1>4, <2>1
  <2> QED
    BY <1>1, <1>8, <2>2, Zenon DEF FormAt
<1>9. ASSUME ~(i + L - 1 <= Len(s)) PROVE ~reads /\ ~FormAt(s, i)
  <2>1. ~FormAt(s, i)
    BY <1>1, <1>9, Zenon DEF FormAt
  <2>2. L - 1 \in Nat /\ (L - 1 = 1 \/ L - 1 \in 2 .. L - 1) /\ ~(i + (L - 1) <= Len(s))
    BY <1>2, <1>7, <1>9
  <2>3. Peek(s, i + (L - 1)) = AtEnd
    BY <1>5, <2>2
  <2> QED
    BY <1>6, <2>1, <2>2, <2>3, Zenon
<1>10. Utf8Piece(s, i) = IF reads THEN Piece(L, SubSeq(s, i, i + L - 1)) ELSE Refused
  BY <1>1, Zenon DEF Utf8Piece
<1> HIDE DEF reads
<1> QED
  BY <1>1, <1>8, <1>9, <1>10, Zenon

(* A form at a place is a form by the definition of UTF-8. *)
LEMMA FormThere ==
    ASSUME NEW s \in Bytes, NEW i \in 1 .. Len(s), s[i] >= 128, i + Utf8Length(s[i]) - 1 <= Len(s)
    PROVE  FormAt(s, i) <=> Utf8Points(SubSeq(s, i, i + Utf8Length(s[i]) - 1)) # {}
<1>1. PICK L, u : L = Utf8Length(s[i]) /\ u = SubSeq(s, i, i + L - 1)
  OBVIOUS
<1>2. s[i] \in Int /\ i \in Nat \ {0} /\ i \in Int
  BY ByteAt
<1>3. /\ L \in {2, 3, 4} /\ (L = 2 <=> s[i] < 224)
      /\ (L = 3 <=> (224 <= s[i] /\ s[i] < 240)) /\ (L = 4 <=> 240 <= s[i])
  BY <1>1, <1>2, LengthIs
<1>4. u \in Bytes /\ Len(u) = L /\ \A k \in 1 .. L : u[k] = s[i + k - 1]
  <2>1. L \in Nat
    BY <1>3
  <2> QED
    BY <1>1, <1>2, <2>1, Part
<1>5. u[1] = s[i] /\ u[2] = s[i + 1] /\ (L > 2 => u[3] = s[i + 2]) /\ (L > 3 => u[4] = s[i + 3])
  <2>1. i + 1 - 1 = i /\ i + 2 - 1 = i + 1 /\ i + 3 - 1 = i + 2 /\ i + 4 - 1 = i + 3
    BY <1>2
  <2>2. 1 \in 1 .. L /\ 2 \in 1 .. L /\ (L > 2 => 3 \in 1 .. L) /\ (L > 3 => 4 \in 1 .. L)
    BY <1>3
  <2> QED
    BY <1>4, <2>1, <2>2, Zenon
<1>6. FormAt(s, i) <=> /\ s[i] \in 194 .. 244 /\ s[i + 1] \in Follower(s[i])
                       /\ \A k \in 2 .. L - 1 : s[i + k] \in Continuation
  BY <1>1, Zenon DEF FormAt
<1>7. PICK a, b : a = s[i] /\ b = s[i + 1]
  OBVIOUS
<1>11. a \in Int /\ (L = 2 <=> a < 224) /\ (L = 3 <=> (224 <= a /\ a < 240)) /\ (L = 4 <=> 240 <= a) /\ a >= 128
  BY <1>2, <1>3, <1>7, ZenonT(40)
<1>8. CASE L = 2
  <2>1. \A k \in 2 .. L - 1 : s[i + k] \in Continuation
    BY <1>8
  <2>2. Follower(a) = Continuation
    BY SMT, <1>11, <1>8 DEF Follower
  <2>3. a \in 194 .. 244 <=> a \in 194 .. 223
    BY SMT, <1>11, <1>8
  <2>4. Utf8Points(u) # {} <=> a \in 194 .. 223 /\ b \in Continuation
    <3>1. Utf8Points(u) = IF a \in 194 .. 223 /\ b \in Continuation
                          THEN {64 * (a - 192) + (b - 128)} ELSE {}
      BY <1>4, <1>5, <1>7, <1>8, TwoForm, ZenonT(40)
    <3> QED
      BY <3>1, Zenon
  <2> QED
    BY <1>1, <1>6, <1>7, <2>1, <2>2, <2>3, <2>4, Zenon
<1>9. CASE L = 3
  <2>1. (\A k \in 2 .. L - 1 : s[i + k] \in Continuation) <=> s[i + 2] \in Continuation
    <3>1. \A k : k \in 2 .. L - 1 <=> k = 2
      BY <1>9
    <3> QED
      BY <3>1, Zenon
  <2>3. a \in 194 .. 244 <=> a \in 224 .. 239
    BY SMT, <1>11, <1>9
  <2>4. Utf8Points(u) # {} <=> a \in 224 .. 239 /\ b \in Follower(a) /\ s[i + 2] \in Continuation
    <3>1. u[3] = s[i + 2]
      BY <1>5, <1>9
    <3>2. PICK q : q = 4096 * (u[1] - 224) + 64 * (u[2] - 128) + (u[3] - 128)
      OBVIOUS
    <3>3. Utf8Points(u) = IF u[1] \in 224 .. 239 /\ u[2] \in Follower(u[1]) /\ u[3] \in Continuation
                          THEN {q} ELSE {}
      BY <1>4, <1>9, <3>2, ThreeForm
    <3> QED
      BY <1>5, <1>7, <3>1, <3>3, Zenon
  <2> QED
    BY <1>1, <1>6, <1>7, <2>1, <2>3, <2>4, Zenon
<1>10. CASE L = 4
  <2>1. (\A k \in 2 .. L - 1 : s[i + k] \in Continuation) <=> s[i + 2] \in Continuation /\ s[i + 3] \in Continuation
    <3>1. \A k : k \in 2 .. L - 1 <=> k = 2 \/ k = 3
      BY <1>10
    <3> QED
      BY <3>1, Zenon
  <2>3. a \in 194 .. 244 <=> a \in 240 .. 244
    BY SMT, <1>11, <1>10
  <2>5. PICK q : q = 262144 * (a - 240) + 4096 * (b - 128) + 64 * (u[3] - 128) + (u[4] - 128)
    OBVIOUS
  <2>4. Utf8Points(u) # {} <=> a \in 240 .. 244 /\ b \in Follower(a) /\ s[i + 2] \in Continuation /\ s[i + 3] \in Continuation
    <3>1. u[3] = s[i + 2] /\ u[4] = s[i + 3]
      BY <1>5, <1>10
    <3>2. Utf8Points(u) = IF a \in 240 .. 244 /\ b \in Follower(a) /\ u[3] \in Continuation /\ u[4] \in Continuation
                          THEN {q} ELSE {}
      BY <1>4, <1>5, <1>7, <1>10, <2>5, FourForm, SMTT(40)
    <3> QED
      BY <3>1, <3>2, Zenon
  <2> QED
    BY <1>1, <1>6, <1>7, <2>1, <2>3, <2>4, Zenon
<1> QED
  BY <1>3, <1>8, <1>9, <1>10

LEMMA MultiByte ==
    ASSUME NEW s \in Bytes, NEW i \in 1 .. Len(s), s[i] >= 128
    PROVE  ReadAs(s, i, Utf8Piece(s, i))
<1>1. PICK L : L = Utf8Length(s[i])
  OBVIOUS
<1>2. s[i] \in Int
  BY ByteAt
<1>3. L \in {2, 3, 4} /\ L \in Lengths /\ L \in Nat \ {0} /\ L = FormLength(s[i]) /\ s[i] # Backslash
  <2>1. L \in {2, 3, 4}
    BY <1>1, <1>2, LengthIs
  <2>2. L = FormLength(s[i]) /\ s[i] # Backslash
    BY SMT, <1>1, <1>2 DEF FormLength, Backslash
  <2> QED
    BY <2>1, <2>2 DEF Lengths
<1>4. ASSUME NEW m \in Lengths \ {L}, i + m - 1 <= Len(s) PROVE SpelledAt(s, i, m) = {}
  <2>1. m \in Nat \ {0}
    BY LengthsTyped
  <2> QED
    BY <1>3, <1>4, <2>1, RawElsewhere
<1>5. CASE FormAt(s, i)
  <2>1. i + L - 1 <= Len(s)
    BY <1>1, <1>5 DEF FormAt
  <2>2. PICK u : u = SubSeq(s, i, i + L - 1)
    OBVIOUS
  <2>3. u \in Bytes /\ Len(u) = L /\ u[1] = s[i] /\ SpelledAt(s, i, L) = {p \in Utf8Points(u) : p >= 32 /\ p # Quote}
    <3>1. L \in Nat \ {0} /\ s[i] # Backslash
      BY <1>3
    <3> QED
      BY <2>1, <2>2, <3>1, RawAt, Zenon
  <2>4. PICK q : q \in Utf8Points(u)
    BY <1>1, <1>5, <2>1, <2>2, FormThere
  <2>5. Utf8Points(u) = {q} /\ q \in Int /\ (~(u[1] <= 127) => q >= 128)
    BY <2>3, <2>4, FormOnce
  <2>6. q >= 32 /\ q # Quote
    BY SMT, <1>2, <2>3, <2>5 DEF Quote
  <2>7. SpelledAt(s, i, L) = {q}
    BY <2>3, <2>5, <2>6
  <2>8. Utf8Piece(s, i) = Piece(L, u)
    BY <1>1, <1>5, <2>2, Utf8PieceIs
  <2>9. Piece(L, u).used = L /\ Piece(L, u).bytes = u /\ Piece(L, u) # Refused
    BY <1>3, PieceFields
  <2>10. u # <<>>
    BY <1>3, <2>3
  <2> QED
    BY <1>3, <1>4, <2>1, <2>3, <2>5, <2>7, <2>8, <2>9, <2>10 DEF ReadAs, Spells
<1>6. CASE ~FormAt(s, i)
  <2>1. Utf8Piece(s, i) = Refused
    BY <1>6, Utf8PieceIs
  <2>2. ASSUME i + L - 1 <= Len(s) PROVE SpelledAt(s, i, L) = {}
    <3>1. Utf8Points(SubSeq(s, i, i + L - 1)) = {}
      BY <1>1, <1>6, <2>2, FormThere
    <3>2. SpelledAt(s, i, L) = {p \in Utf8Points(SubSeq(s, i, i + L - 1)) : p >= 32 /\ p # Quote}
      BY <1>3, <2>2, RawAt, ZenonT(90)
    <3> QED
      BY <3>1, <3>2
  <2> QED
    BY <1>4, <2>1, <2>2 DEF ReadAs, Nothing
<1> QED
  BY <1>5, <1>6

-----------------------------------------------------------------------------
(* Two texts of the same bytes are the same. *)
LEMMA SameBytes ==
    ASSUME NEW u \in Bytes, NEW v \in Bytes, Len(u) = Len(v), \A k \in 1 .. Len(u) : u[k] = v[k]
    PROVE  u = v
<1>0. PICK B : B = 0 .. 255
  OBVIOUS
<1>1. u \in Seq(B) /\ v \in Seq(B)
  BY <1>0 DEF Bytes
<1> QED
  BY <1>1

LEMMA PartOfPart ==
    ASSUME NEW s \in Bytes, NEW i \in Nat \ {0}, NEW m \in Nat, i + m - 1 <= Len(s),
           NEW a \in Nat \ {0}, NEW n \in Nat, a + n - 1 <= m
    PROVE  SubSeq(SubSeq(s, i, i + m - 1), a, a + n - 1) = SubSeq(s, (i + a - 1), (i + a - 1) + n - 1)
<1>1. PICK u : u = SubSeq(s, i, i + m - 1)
  OBVIOUS
<1>2. u \in Bytes /\ Len(u) = m /\ \A k \in 1 .. m : u[k] = s[i + k - 1]
  BY <1>1, Part
<1>3. PICK v : v = SubSeq(u, a, a + n - 1)
  OBVIOUS
<1>4. v \in Bytes /\ Len(v) = n /\ \A k \in 1 .. n : v[k] = u[a + k - 1]
  BY <1>2, <1>3, Part, ZenonT(40)
<1>5. PICK j : j = i + a - 1
  OBVIOUS
<1>6. j \in Nat \ {0} /\ j + n - 1 <= Len(s)
  BY <1>5, OfBytes
<1>7. PICK w : w = SubSeq(s, j, j + n - 1)
  OBVIOUS
<1>8. w \in Bytes /\ Len(w) = n /\ \A k \in 1 .. n : w[k] = s[j + k - 1]
  BY <1>6, <1>7, Part
<1>9. ASSUME NEW k \in 1 .. n PROVE v[k] = w[k]
  <2>1. a + k - 1 \in 1 .. m /\ i + (a + k - 1) - 1 = j + k - 1
    BY <1>5
  <2>2. v[k] = u[a + k - 1] /\ w[k] = s[j + k - 1]
    BY <1>4, <1>8
  <2>3. u[a + k - 1] = s[i + (a + k - 1) - 1]
    BY <1>2, <2>1, Zenon
  <2> QED
    BY <2>1, <2>2, <2>3, Zenon
<1>10. v = w
  BY <1>4, <1>8, <1>9, SameBytes
<1> QED
  BY <1>1, <1>3, <1>5, <1>7, <1>10, Zenon

LEMMA Surrogates ==
    ASSUME NEW p \in Int
    PROVE  /\ p \in HighSurrogates <=> IsHigh(p)
           /\ p \in LowSurrogates <=> IsLow(p)
           /\ ~(IsHigh(p) /\ IsLow(p))
           /\ IsHigh(p) \/ IsLow(p) => p # NoUnit
<1>1. p \in HighSurrogates <=> IsHigh(p)
  BY SMT DEF HighSurrogates, IsHigh
<1>2. p \in LowSurrogates <=> IsLow(p)
  BY SMT DEF LowSurrogates, IsLow
<1>3. ~(IsHigh(p) /\ IsLow(p)) /\ (IsHigh(p) \/ IsLow(p) => p # NoUnit)
  BY SMT DEF IsHigh, IsLow, NoUnit
<1> QED
  BY <1>1, <1>2, <1>3

(* The point of a pair of surrogates. *)
Paired(high, low) == 65536 + 1024 * (high - 55296) + (low - 56320)

LEMMA PairedIs ==
    ASSUME NEW high \in Int, NEW low \in Int, IsHigh(high), IsLow(low)
    PROVE  /\ Paired(high, low) \in Int /\ 0 <= Paired(high, low)
           /\ Paired(high, low) <= LastPoint /\ ~IsSurrogate(Paired(high, low))
  BY SMT DEF Paired, LastPoint, IsSurrogate, IsHigh, IsLow

(* The halves of pairs at a place of a text. *)
Highs(s, i) == {p \in Units(SubSeq(s, i, i + 5)) : IsHigh(p)}
Lows(s, i) == {p \in Units(SubSeq(s, i, i + 5)) : IsLow(p)}
Pairs(H, L) == {Paired(high, low) : high \in H, low \in L}

LEMMA PairsOf ==
    ASSUME NEW H, NEW L
    PROVE  /\ H = {} \/ L = {} => Pairs(H, L) = {}
           /\ \A h, l : H = {h} /\ L = {l} => Pairs(H, L) = {Paired(h, l)}
<1>1. ASSUME H = {} \/ L = {} PROVE Pairs(H, L) = {}
  <2>1. \A x : x \notin Pairs(H, L)
    BY <1>1 DEF Pairs
  <2> QED
    BY <2>1, Zenon
<1>2. ASSUME NEW h, NEW l, H = {h}, L = {l} PROVE Pairs(H, L) = {Paired(h, l)}
  BY <1>2 DEF Pairs
<1> QED
  BY <1>1, <1>2

(* What an escape spells, by its length. *)
LEMMA EscapeAt ==
    ASSUME NEW s \in Bytes, NEW i \in 1 .. Len(s), s[i] = Backslash, NEW m \in Lengths, i + m - 1 <= Len(s)
    PROVE  /\ m = 2 => SpelledAt(s, i, m) = {Lettered(c) : c \in {s[i + 1]} \cap Letters}
           /\ m = 6 => SpelledAt(s, i, m) = {p \in Units(SubSeq(s, i, i + 5)) : ~IsSurrogate(p)}
           /\ m = 12 => SpelledAt(s, i, m) = Pairs(Highs(s, i), Lows(s, i + 6))
           /\ m \in {1, 3, 4} => SpelledAt(s, i, m) = {}
<1>0. m \in Nat \ {0} /\ i \in Nat \ {0} /\ 1 \in 1 .. m /\ i + 1 - 1 = i
  BY LengthsTyped
<1>1. PICK u : u = SubSeq(s, i, i + m - 1)
  OBVIOUS
<1>2. u \in Bytes /\ Len(u) = m /\ \A k \in 1 .. m : u[k] = s[i + k - 1]
  BY <1>0, <1>1, Part
<1>3. u[1] = Backslash
  <2>1. u[1] = s[i + 1 - 1]
    BY <1>0, <1>2
  <2> QED
    BY <1>0, <2>1
<1>4. SpelledAt(s, i, m) = Escaped(u)
  BY <1>1, <1>3 DEF SpelledAt, Spelled
<1>5. ASSUME m = 2 PROVE SpelledAt(s, i, m) = {Lettered(c) : c \in {s[i + 1]} \cap Letters}
  <2>1. 2 \in 1 .. m /\ i + 2 - 1 = i + 1
    BY <1>5
  <2>2. u[2] = s[i + 1]
    BY <1>2, <2>1, Zenon
  <2>3. Escaped(u) = {Lettered(c) : c \in {u[2]} \cap Letters}
    BY <1>2, <1>5 DEF Escaped
  <2> QED
    BY <1>4, <2>2, <2>3
<1>6. ASSUME m = 6 PROVE SpelledAt(s, i, m) = {p \in Units(SubSeq(s, i, i + 5)) : ~IsSurrogate(p)}
  <2>1. i + m - 1 = i + 5
    BY <1>6
  <2>2. Escaped(u) = {p \in Units(u) : ~IsSurrogate(p)}
    BY <1>2, <1>6 DEF Escaped
  <2> QED
    BY <1>1, <1>4, <2>1, <2>2
<1>7. ASSUME m = 12
      PROVE  SpelledAt(s, i, m) = Pairs(Highs(s, i), Lows(s, i + 6))
  <2>1. SubSeq(u, 1, 6) = SubSeq(s, i, i + 5)
    <3>1. 1 + 6 - 1 = 6 /\ i + 1 - 1 = i /\ i + 6 - 1 = i + 5 /\ 1 + 6 - 1 <= m
      BY <1>7
    <3>2. SubSeq(SubSeq(s, i, i + m - 1), 1, 1 + 6 - 1) = SubSeq(s, (i + 1 - 1), (i + 1 - 1) + 6 - 1)
      BY <1>0, <3>1, PartOfPart
    <3> QED
      BY <1>1, <3>1, <3>2, Zenon
  <2>2. SubSeq(u, 7, 12) = SubSeq(s, i + 6, (i + 6) + 5)
    <3>1. 7 + 6 - 1 = 12 /\ i + 7 - 1 = i + 6 /\ (i + 6) + 6 - 1 = (i + 6) + 5 /\ 7 + 6 - 1 <= m
      BY <1>7
    <3>2. SubSeq(SubSeq(s, i, i + m - 1), 7, 7 + 6 - 1) = SubSeq(s, (i + 7 - 1), (i + 7 - 1) + 6 - 1)
      BY <1>0, <3>1, PartOfPart
    <3> QED
      BY <1>1, <3>1, <3>2, Zenon
  <2>3. Escaped(u) = {65536 + 1024 * (high - 55296) + (low - 56320) :
                          high \in {p \in Units(SubSeq(u, 1, 6)) : IsHigh(p)},
                          low \in {p \in Units(SubSeq(u, 7, 12)) : IsLow(p)}}
    BY SMT, <1>2, <1>7 DEF Escaped
  <2>4. PICK H, L : /\ H = {p \in Units(SubSeq(u, 1, 6)) : IsHigh(p)}
                    /\ L = {p \in Units(SubSeq(u, 7, 12)) : IsLow(p)}
    OBVIOUS
  <2>5. Escaped(u) = {65536 + 1024 * (high - 55296) + (low - 56320) : high \in H, low \in L}
    BY SMT, <2>3, <2>4
  <2>6. Escaped(u) = {Paired(high, low) : high \in H, low \in L}
    BY SMT, <2>5 DEF Paired
  <2>7. H = Highs(s, i) /\ L = Lows(s, i + 6)
    BY <2>1, <2>2, <2>4 DEF Highs, Lows
  <2>8. Escaped(u) = Pairs(H, L)
    BY <2>6 DEF Pairs
  <2> QED
    BY <1>4, <2>7, <2>8, Zenon
<1>8. ASSUME m \in {1, 3, 4} PROVE SpelledAt(s, i, m) = {}
  BY <1>2, <1>4, <1>8 DEF Escaped
<1> QED
  BY <1>5, <1>6, <1>7, <1>8

(* Behind a backslash that no u follows there is a letter of the table, or nothing. *)
LEMMA LetterEscape ==
    ASSUME NEW s \in Bytes, NEW i \in 1 .. Len(s), s[i] = Backslash, ~Unicode(s, i)
    PROVE  ReadAs(s, i, EscapePiece(s, i))
<1>0. i \in Nat \ {0} /\ i + 1 \in Nat \ {0} /\ Len(s) \in Nat /\ i <= Len(s)
  BY OfBytes
<1>1. Peek(s, i) = Backslash
  BY <1>0, PeekIs
<1>2. PICK c : c = Peek(s, i + 1)
  OBVIOUS
<1>3. c \in Int /\ c # 117 /\ (c >= 0 <=> i + 1 <= Len(s)) /\ (i + 1 <= Len(s) => c = s[i + 1])
  BY <1>0, <1>1, <1>2, PeekIs DEF Unicode
<1>4. ASSUME NEW m \in Lengths, m # 2, i + m - 1 <= Len(s) PROVE SpelledAt(s, i, m) = {}
  <2>1. CASE m \in {1, 3, 4}
    BY <1>4, <2>1, EscapeAt
  <2>2. CASE m = 6 \/ m = 12
    <3>1. i + 5 <= Len(s)
      BY <1>0, <1>4, <2>2
    <3>2. Units(SubSeq(s, i, i + 5)) = {}
      BY <1>0, <3>1, UnitAt
    <3>3. CASE m = 6
      <4>1. SpelledAt(s, i, m) = {p \in Units(SubSeq(s, i, i + 5)) : ~IsSurrogate(p)}
        BY <1>4, <3>3, EscapeAt
      <4> QED
        BY <3>2, <4>1
    <3>4. CASE m = 12
      <4>1. SpelledAt(s, i, m) = Pairs(Highs(s, i), Lows(s, i + 6))
        BY <1>4, <3>4, EscapeAt
      <4>2. Highs(s, i) = {}
        BY <3>2 DEF Highs
      <4> QED
        BY <4>1, <4>2, PairsOf
    <3> QED
      BY <2>2, <3>3, <3>4
  <2> QED
    BY <1>4, <2>1, <2>2 DEF Lengths
<1>5. i + 2 - 1 = i + 1 /\ 2 \in Lengths
  BY <1>0 DEF Lengths
<1>6. CASE c \in Letters
  <2>1. PICK x : x = Lettered(c)
    OBVIOUS
  <2>2. x \in Int /\ 0 <= x /\ x <= 127
    BY SMT, <1>3, <1>6, <2>1 DEF Lettered, Letters, Quote, Backslash, Slash
  <2>3. EscapePiece(s, i) = Piece(2, <<x>>)
    <3>1. CASE c \in {Quote, Backslash, Slash}
      <4>1. x = c
        BY <2>1, <3>1 DEF Lettered, Quote, Backslash, Slash
      <4> QED
        BY <1>2, <3>1, <4>1 DEF EscapePiece
    <3>2. CASE c \notin {Quote, Backslash, Slash}
      <4>1. c \in EscapeLetters
        BY <1>6, <3>2 DEF Letters, EscapeLetters
      <4>2. x = ControlOf(c)
        BY <2>1, <4>1 DEF Lettered, ControlOf, EscapeLetters
      <4> QED
        BY <1>2, <3>2, <4>1, <4>2 DEF EscapePiece
    <3> QED
      BY <3>1, <3>2
  <2>4. c >= 0 /\ i + 1 <= Len(s) /\ c = s[i + 1]
    BY <1>3, <1>6 DEF Letters, Quote, Backslash, Slash
  <2>5. SpelledAt(s, i, 2) = {x}
    <3>1. SpelledAt(s, i, 2) = {Lettered(d) : d \in {s[i + 1]} \cap Letters}
      BY <1>5, <2>4, EscapeAt
    <3>2. {s[i + 1]} \cap Letters = {c}
      BY <1>6, <2>4
    <3>3. {Lettered(d) : d \in {c}} = {Lettered(c)}
      OBVIOUS
    <3> QED
      BY <2>1, <3>1, <3>2, <3>3
  <2>6. PICK b : b = <<x>>
    OBVIOUS
  <2>7. b \in Bytes /\ b # <<>> /\ Utf8Points(b) = {x}
    <3>1. x \in 0 .. 255
      BY SMT, <2>2
    <3>2. b \in Bytes /\ b # <<>> /\ Len(b) = 1 /\ b[1] = x
      BY <2>6, <3>1, Spell, ZenonT(40)
    <3> QED
      BY <2>2, <3>2, OneForm
  <2>8. Piece(2, b).used = 2 /\ Piece(2, b).bytes = b /\ Piece(2, b) # Refused
    BY PieceFields
  <2> QED
    BY <1>4, <1>5, <2>2, <2>3, <2>4, <2>5, <2>6, <2>7, <2>8 DEF ReadAs, Spells
<1>7. CASE c \notin Letters
  <2>1. c \notin {Quote, Backslash, Slash} /\ c \notin EscapeLetters
    BY <1>7 DEF Letters, EscapeLetters
  <2>2. EscapePiece(s, i) = Refused
    BY <1>2, <1>3, <2>1 DEF EscapePiece
  <2>3. ASSUME i + 2 - 1 <= Len(s) PROVE SpelledAt(s, i, 2) = {}
    <3>1. SpelledAt(s, i, 2) = {Lettered(d) : d \in {s[i + 1]} \cap Letters}
      BY <1>5, <2>3, EscapeAt
    <3>2. {s[i + 1]} \cap Letters = {}
      BY <1>3, <1>5, <1>7, <2>3
    <3> QED
      BY <3>1, <3>2
  <2> QED
    BY <1>4, <2>2, <2>3 DEF ReadAs, Nothing
<1> QED
  BY <1>6, <1>7

(* \u with a code unit, or with the two of a pair. *)
LEMMA UnicodeEscape ==
    ASSUME NEW s \in Bytes, NEW i \in 1 .. Len(s), s[i] = Backslash, Unicode(s, i)
    PROVE  ReadAs(s, i, UnicodePiece(s, i))
<1>0. i \in Nat \ {0} /\ i + 1 \in Nat \ {0} /\ Len(s) \in Nat /\ i <= Len(s)
  BY OfBytes
<1>1. PICK first, second : first = CodeUnit(s, i + 2) /\ second = CodeUnit(s, i + 8)
  OBVIOUS
<1>2. /\ first \in Int /\ -1 <= first /\ first <= 65535 /\ (first # NoUnit => i + 5 <= Len(s))
      /\ second \in Int /\ (second # NoUnit => i + 11 <= Len(s))
  <2>1. i + 2 \in Nat \ {0} /\ i + 8 \in Nat \ {0} /\ (i + 2) + 3 = i + 5 /\ (i + 8) + 3 = i + 11
    BY <1>0
  <2> QED
    BY <1>1, <2>1, CodeUnitIs
<1>3. ASSUME NEW m \in Lengths, m \notin {6, 12}, i + m - 1 <= Len(s) PROVE SpelledAt(s, i, m) = {}
  <2>1. CASE m \in {1, 3, 4}
    BY <1>3, <2>1, EscapeAt
  <2>2. CASE m = 2
    <3>1. SpelledAt(s, i, m) = {Lettered(d) : d \in {s[i + 1]} \cap Letters}
      BY <1>3, <2>2, EscapeAt
    <3>2. s[i + 1] = 117
      <4>1. i + 1 <= Len(s)
        BY <1>3, <2>2
      <4> QED
        BY <1>0, <4>1, PeekIs DEF Unicode
    <3>3. {s[i + 1]} \cap Letters = {}
      BY <3>2 DEF Letters, Quote, Backslash, Slash
    <3> QED
      BY <3>1, <3>3
  <2> QED
    BY <1>3, <2>1, <2>2 DEF Lengths
<1>4. ASSUME i + 5 <= Len(s)
      PROVE  SpelledAt(s, i, 6) = IF first # NoUnit /\ ~IsSurrogate(first) THEN {first} ELSE {}
  <2>1. i + 6 - 1 <= Len(s) /\ 6 \in Lengths
    BY <1>4 DEF Lengths
  <2>2. SpelledAt(s, i, 6) = {p \in Units(SubSeq(s, i, i + 5)) : ~IsSurrogate(p)}
    BY <2>1, EscapeAt
  <2>3. Units(SubSeq(s, i, i + 5)) = IF first # NoUnit THEN {first} ELSE {}
    BY <1>0, <1>1, <1>4, UnitAt
  <2> QED
    BY <2>2, <2>3
<1> DEFINE pairs == first # NoUnit /\ IsHigh(first) /\ Unicode(s, i + 6) /\ second # NoUnit /\ IsLow(second)
<1>5. ASSUME i + 11 <= Len(s)
      PROVE  SpelledAt(s, i, 12) = IF pairs THEN {Paired(first, second)} ELSE {}
  <2>1. i + 12 - 1 <= Len(s) /\ 12 \in Lengths /\ i + 6 \in Nat \ {0} /\ (i + 6) + 2 = i + 8
        /\ i + 5 <= Len(s) /\ (i + 6) + 5 <= Len(s)
    BY <1>0, <1>5 DEF Lengths
  <2>2. PICK H, L : H = Highs(s, i) /\ L = Lows(s, i + 6)
    OBVIOUS
  <2>3. SpelledAt(s, i, 12) = Pairs(H, L)
    BY <2>1, <2>2, EscapeAt
  <2>4. Units(SubSeq(s, i, i + 5)) = IF first # NoUnit THEN {first} ELSE {}
    BY <1>0, <1>1, <2>1, UnitAt
  <2>5. Units(SubSeq(s, i + 6, (i + 6) + 5)) = IF Unicode(s, i + 6) /\ second # NoUnit THEN {second} ELSE {}
    <3>1. Units(SubSeq(s, i + 6, (i + 6) + 5)) =
              IF Unicode(s, i + 6) /\ CodeUnit(s, (i + 6) + 2) # NoUnit THEN {CodeUnit(s, (i + 6) + 2)} ELSE {}
      BY <2>1, UnitAt
    <3> QED
      BY <1>1, <2>1, <3>1, Zenon
  <2>6. /\ H = IF first # NoUnit /\ IsHigh(first) THEN {first} ELSE {}
        /\ L = IF Unicode(s, i + 6) /\ second # NoUnit /\ IsLow(second) THEN {second} ELSE {}
    BY <2>2, <2>4, <2>5 DEF Highs, Lows
  <2>7. CASE pairs
    <3>1. H = {first} /\ L = {second}
      BY <2>6, <2>7
    <3> QED
      BY <2>3, <2>7, <3>1, PairsOf
  <2>8. CASE ~pairs
    <3>1. H = {} \/ L = {}
      BY <2>6, <2>8
    <3> QED
      BY <2>3, <2>8, <3>1, PairsOf
  <2> QED
    BY <2>7, <2>8
<1>6. i + 6 - 1 = i + 5 /\ i + 12 - 1 = i + 11 /\ 6 \in Lengths /\ 12 \in Lengths
  BY <1>0 DEF Lengths
<1>7. /\ first \in HighSurrogates <=> IsHigh(first)
      /\ first \in LowSurrogates <=> IsLow(first)
      /\ ~(IsHigh(first) /\ IsLow(first))
      /\ IsHigh(first) \/ IsLow(first) => first # NoUnit
      /\ second \in LowSurrogates <=> IsLow(second)
      /\ IsLow(second) => second # NoUnit
  BY <1>2, Surrogates
<1>8. CASE first = NoUnit \/ IsLow(first)
  <2>1. UnicodePiece(s, i) = Refused
    BY SMT, <1>1, <1>7, <1>8 DEF UnicodePiece
  <2>2. first = NoUnit \/ IsSurrogate(first)
    BY <1>8 DEF IsSurrogate
  <2>3. i + 5 <= Len(s) => SpelledAt(s, i, 6) = {}
    BY <1>4, <2>2
  <2>4. ~pairs
    BY <1>7, <1>8
  <2>5. i + 11 <= Len(s) => SpelledAt(s, i, 12) = {}
    BY <1>5, <2>4
  <2> QED
    BY <1>3, <1>6, <2>1, <2>3, <2>5, Zenon DEF ReadAs, Nothing
<1>9. CASE first # NoUnit /\ ~IsLow(first) /\ ~IsHigh(first)
  <2>1. UnicodePiece(s, i) = Piece(6, Utf8(first))
    BY SMT, <1>1, <1>7, <1>9 DEF UnicodePiece
  <2>2. PICK b : b = Utf8(first)
    OBVIOUS
  <2>3. 0 <= first /\ first <= LastPoint /\ ~IsSurrogate(first)
    BY SMT, <1>2, <1>9 DEF NoUnit, LastPoint, IsSurrogate
  <2>4. b \in Bytes /\ b # <<>> /\ Utf8Points(b) = {first}
    BY <1>2, <2>2, <2>3, Utf8Back
  <2>5. i + 5 <= Len(s) /\ SpelledAt(s, i, 6) = {first}
    BY <1>2, <1>4, <1>9, <2>3
  <2>6. i + 11 <= Len(s) => SpelledAt(s, i, 12) = {}
    BY <1>5, <1>9
  <2>7. Piece(6, b).used = 6 /\ Piece(6, b).bytes = b /\ Piece(6, b) # Refused
    BY PieceFields
  <2>8. \A m \in Lengths \ {6} : i + m - 1 <= Len(s) => SpelledAt(s, i, m) = {}
    BY <1>3, <1>6, <2>6, Zenon
  <2>9. Spells(s, i, Piece(6, b))
    BY <1>2, <1>6, <2>4, <2>5, <2>7, <2>8 DEF Spells
  <2> QED
    BY <2>1, <2>2, <2>7, <2>9 DEF ReadAs
<1>10. CASE first # NoUnit /\ IsHigh(first)
  <2>1. IsSurrogate(first)
    BY <1>10 DEF IsSurrogate
  <2>2. i + 5 <= Len(s) => SpelledAt(s, i, 6) = {}
    BY <1>4, <2>1
  <2>3. CASE pairs
    <3>1. PICK b : b = Utf8(Paired(first, second))
      OBVIOUS
    <3>2. UnicodePiece(s, i) = Piece(12, b)
      <4>1. Peek(s, i + 6) = Backslash /\ Peek(s, i + 7) = 117
        <5>1. (i + 6) + 1 = i + 7
          BY <1>0
        <5> QED
          BY <2>3, <5>1 DEF Unicode
      <4>2. second \in LowSurrogates /\ first \notin LowSurrogates \cup {NoUnit} /\ first \in HighSurrogates
        BY <1>7, <1>10, <2>3
      <4> QED
        BY <1>1, <3>1, <4>1, <4>2, SMT DEF UnicodePiece, Paired
    <3>3. PICK p : p = Paired(first, second)
      OBVIOUS
    <3>4. p \in Int /\ 0 <= p /\ p <= LastPoint /\ ~IsSurrogate(p)
      BY <1>2, <2>3, <3>3, PairedIs
    <3>5. b \in Bytes /\ b # <<>> /\ Utf8Points(b) = {p}
      BY <3>1, <3>3, <3>4, Utf8Back
    <3>6. i + 11 <= Len(s) /\ SpelledAt(s, i, 12) = {p}
      BY <1>2, <1>5, <2>3, <3>3
    <3>7. Piece(12, b).used = 12 /\ Piece(12, b).bytes = b /\ Piece(12, b) # Refused
      BY PieceFields
    <3>8. \A m \in Lengths \ {12} : i + m - 1 <= Len(s) => SpelledAt(s, i, m) = {}
      BY <1>3, <1>6, <2>2, Zenon
    <3>9. Spells(s, i, Piece(12, b))
      BY <1>6, <3>4, <3>5, <3>6, <3>7, <3>8 DEF Spells
    <3> QED
      BY <3>2, <3>7, <3>9 DEF ReadAs
  <2>4. CASE ~pairs
    <3>1. UnicodePiece(s, i) = Refused
      <4>1. ~(Peek(s, i + 6) = Backslash /\ Peek(s, i + 7) = 117 /\ second \in LowSurrogates)
        <5>1. (i + 6) + 1 = i + 7
          BY <1>0
        <5> QED
          BY <1>7, <1>10, <2>4, <5>1 DEF Unicode
      <4>2. first \notin LowSurrogates \cup {NoUnit} /\ first \in HighSurrogates
        BY <1>7, <1>10
      <4> QED
        BY <1>1, <4>1, <4>2, SMT DEF UnicodePiece
    <3>2. i + 11 <= Len(s) => SpelledAt(s, i, 12) = {}
      BY <1>5, <2>4
    <3> QED
      BY <1>3, <1>6, <2>2, <3>1, <3>2, Zenon DEF ReadAs, Nothing
  <2> QED
    BY <2>3, <2>4
<1> QED
  BY <1>8, <1>9, <1>10

(* Every piece of the parser is the one way to read on, and it reads the code
   point that is spelled there.                                            *)
LEMMA PieceSpelled ==
    ASSUME NEW s \in Bytes, NEW i \in 1 .. Len(s), s[i] # Quote
    PROVE  ReadAs(s, i, PieceAt(s, i))
<1>0. i \in Nat \ {0} /\ i <= Len(s) /\ s[i] \in Int
  BY ByteAt
<1>1. Peek(s, i) = s[i]
  BY <1>0, PeekIs
<1>2. CASE s[i] < 32
  <2>1. PieceAt(s, i) = Refused
    BY <1>1, <1>2 DEF PieceAt
  <2> QED
    BY <1>2, <2>1, NothingAt DEF ReadAs
<1>3. CASE s[i] >= 128
  <2>1. PieceAt(s, i) = Utf8Piece(s, i)
    BY <1>0, <1>1, <1>3 DEF PieceAt
  <2> QED
    BY <1>3, <2>1, MultiByte
<1>4. CASE s[i] = Backslash
  <2>1. PieceAt(s, i) = EscapePiece(s, i)
    BY <1>1, <1>4 DEF PieceAt, Backslash
  <2>2. CASE Unicode(s, i)
    <3>1. EscapePiece(s, i) = UnicodePiece(s, i)
      BY <2>2 DEF Unicode, EscapePiece, Quote, Backslash, Slash, EscapeLetters
    <3> QED
      BY <1>4, <2>1, <2>2, <3>1, UnicodeEscape
  <2> QED
    BY <1>4, <2>1, <2>2, LetterEscape
<1>5. CASE 32 <= s[i] /\ s[i] < 128 /\ s[i] # Backslash
  <2>1. PieceAt(s, i) = Piece(1, <<s[i]>>)
    BY <1>0, <1>1, <1>5 DEF PieceAt
  <2>2. Piece(1, <<s[i]>>) # Refused
    BY PieceFields
  <2>3. s[i] <= 127
    BY <1>0, <1>5
  <2> QED
    BY <1>5, <2>1, <2>2, <2>3, PlainByte DEF ReadAs
<1> QED
  BY <1>0, <1>2, <1>3, <1>4, <1>5

-----------------------------------------------------------------------------
(* What may be read behind n bytes, when f is what may be read behind more. *)
Followed(P, R) == {<<p>> \o rest : p \in P, rest \in R}
OneWay(s, points, f, n, m) == Followed(points[SubSeq(s, n + 1, n + m)], f[n + m])
Reach(s, n) == {k \in {1, 2, 3, 4, 6, 12} : n + k <= Len(s)}
Ways(s, points, f, n) ==
    IF n >= Len(s) THEN {<<>>} ELSE UNION {OneWay(s, points, f, n, m) : m \in Reach(s, n)}
IsFrom(s, points, f) == f = [n \in Nat |-> Ways(s, points, f, n)]

LEMMA InReach ==
    ASSUME NEW s \in Bytes, NEW n \in Nat, NEW m
    PROVE  m \in Reach(s, n) <=> m \in Lengths /\ n + m <= Len(s)
  BY DEF Reach, Lengths

Follows(x, P, R) == \E p \in P : \E rest \in R : x = <<p>> \o rest

LEMMA FollowedIs ==
    ASSUME NEW P, NEW R, NEW x
    PROVE  x \in Followed(P, R) <=> Follows(x, P, R)
  BY DEF Followed, Follows

(* Each round looks further on only. *)
LEMMA WaysAgree ==
    ASSUME NEW s \in Bytes, NEW points, NEW n \in Nat, NEW f, NEW g,
           n <= Len(s) => \A k \in Nat : k > n => f[k] = g[k]
    PROVE  Ways(s, points, f, n) = Ways(s, points, g, n)
<1>1. CASE n >= Len(s)
  BY <1>1 DEF Ways
<1>2. CASE ~(n >= Len(s))
  <2>1. ASSUME NEW m \in Reach(s, n) PROVE OneWay(s, points, f, n, m) = OneWay(s, points, g, n, m)
    <3>1. m \in Nat /\ m # 0
      BY InReach, LengthsTyped
    <3>2. n + m \in Nat /\ n + m > n /\ n <= Len(s)
      BY <1>2, <3>1, OfBytes
    <3>3. f[n + m] = g[n + m]
      BY <3>2
    <3> QED
      BY <3>3 DEF OneWay
  <2>2. {OneWay(s, points, f, n, m) : m \in Reach(s, n)} = {OneWay(s, points, g, n, m) : m \in Reach(s, n)}
    BY <2>1
  <2> QED
    BY <1>2, <2>2 DEF Ways
<1> QED
  BY <1>1, <1>2

LEMMA WaysTyped ==
    ASSUME NEW s \in Bytes, NEW A, NEW points, \A u \in Bytes : points[u] \subseteq A,
           NEW f \in [Nat -> SUBSET Seq(A)], NEW n \in Nat
    PROVE  Ways(s, points, f, n) \in SUBSET Seq(A)
<1>1. CASE n >= Len(s)
  BY <1>1 DEF Ways
<1>2. CASE ~(n >= Len(s))
  <2>1. ASSUME NEW m \in Reach(s, n) PROVE OneWay(s, points, f, n, m) \subseteq Seq(A)
    <3>1. m \in Nat /\ m # 0 /\ n + m <= Len(s)
      BY InReach, LengthsTyped
    <3>2. n + 1 \in Nat \ {0} /\ (n + 1) + m - 1 = n + m /\ n + m \in Nat
      BY <3>1
    <3>3. SubSeq(s, n + 1, n + m) \in Bytes
      <4>1. SubSeq(s, n + 1, (n + 1) + m - 1) \in Bytes
        BY <3>1, <3>2, Part
      <4> QED
        BY <3>2, <4>1
    <3>4. PICK P, R : P = points[SubSeq(s, n + 1, n + m)] /\ R = f[n + m]
      OBVIOUS
    <3>5. P \subseteq A /\ R \subseteq Seq(A)
      BY <3>2, <3>3, <3>4
    <3>6. Followed(P, R) \subseteq Seq(A)
      <4>1. ASSUME NEW x \in Followed(P, R) PROVE x \in Seq(A)
        <5>1. Follows(x, P, R)
          BY <4>1, FollowedIs
        <5>2. PICK p \in P, rest \in R : x = <<p>> \o rest
          BY <5>1 DEF Follows
        <5> QED
          BY <3>5, <5>2
      <4> QED
        BY <4>1
    <3> QED
      BY <3>4, <3>6 DEF OneWay
  <2>2. UNION {OneWay(s, points, f, n, m) : m \in Reach(s, n)} \subseteq Seq(A)
    BY <2>1
  <2> QED
    BY <1>2, <2>2 DEF Ways
<1> QED
  BY <1>1, <1>2

LEMMA FromExists ==
    ASSUME NEW s \in Bytes, NEW A, NEW points, \A u \in Bytes : points[u] \subseteq A
    PROVE  \E f : IsFrom(s, points, f)
<1> DEFINE S == SUBSET Seq(A)
           F == [Nat -> S]
           step == [i \in Nat |-> [f \in F |-> Ways(s, points, f, i)]]
           N == Len(s)
<1>1. N \in Nat
  BY OfBytes
<1>2. ASSUME NEW f \in F, NEW i \in Nat PROVE Ways(s, points, f, i) \in S
  BY WaysTyped
<1>3. step \in [Nat -> [F -> S]]
  BY <1>2
<1>4. ASSUME NEW i \in Nat, NEW f \in F, NEW g \in F,
             i <= N => \A k \in Nat : k > i => f[k] = g[k]
      PROVE  step[i][f] = step[i][g]
  <2>1. Ways(s, points, f, i) = Ways(s, points, g, i)
    BY <1>4, WaysAgree
  <2> QED
    BY <2>1
<1>5. PICK any : any \in S
  OBVIOUS
<1>6. \E f : Solves(f, S, step)
  <2> HIDE DEF step, N, S
  <2> QED
    BY <1>1, <1>3, <1>4, <1>5, Solution
<1>7. PICK f : Solves(f, S, step)
  BY <1>6
<1>8. f \in F /\ \A i \in Nat : f[i] = Ways(s, points, f, i)
  BY <1>7 DEF Solves
<1> QED
  BY <1>8 DEF IsFrom

(* One of the pieces at a place, and what may be read behind it. *)
OnPiece(x, s, points, F, n) ==
    \E m \in Lengths : n + m <= Len(s) /\ x \in Followed(points[SubSeq(s, n + 1, n + m)], F[n + m])

(* The readings of a text, place by place. *)
LEMMA ReadingsUnfold ==
    ASSUME NEW s \in Bytes, NEW A, NEW points, \A u \in Bytes : points[u] \subseteq A, NEW n \in Nat
    PROVE  /\ ReadingsFrom(s, points)[n] \subseteq Seq(A)
           /\ n >= Len(s) => ReadingsFrom(s, points)[n] = {<<>>}
           /\ n < Len(s) => \A x : x \in ReadingsFrom(s, points)[n] <=>
                                    OnPiece(x, s, points, ReadingsFrom(s, points), n)
<1>1. PICK f : f = CHOOSE g : IsFrom(s, points, g)
  OBVIOUS
<1>2. f = ReadingsFrom(s, points)
  BY <1>1 DEF ReadingsFrom, IsFrom, Ways, OneWay, Reach, Followed
<1>3. IsFrom(s, points, f)
  BY <1>1, FromExists
<1>4. \A k \in Nat : f[k] = Ways(s, points, f, k)
  BY <1>3 DEF IsFrom
<1>5. n >= Len(s) => f[n] = {<<>>}
  BY <1>4 DEF Ways
<1>6. ASSUME n < Len(s), NEW x
      PROVE  x \in f[n] <=> OnPiece(x, s, points, f, n)
  <2>1. ~(n >= Len(s))
    BY <1>6, OfBytes
  <2>2. f[n] = UNION {OneWay(s, points, f, n, m) : m \in Reach(s, n)}
    BY <1>4, <2>1 DEF Ways
  <2>3. x \in f[n] <=> \E m \in Reach(s, n) : x \in OneWay(s, points, f, n, m)
    BY <2>2
  <2>4. \A m : m \in Reach(s, n) <=> m \in Lengths /\ n + m <= Len(s)
    BY InReach
  <2> QED
    BY <2>3, <2>4, Zenon DEF OneWay, OnPiece
<1>7. \A k \in Nat : f[k] \subseteq Seq(A)
  <2> DEFINE T == {k \in Nat : f[k] \subseteq Seq(A)}
             N == Len(s)
  <2>1. N \in Nat
    BY OfBytes
  <2>2. ASSUME NEW i \in Nat, i <= N => \A k \in Nat : k > i => k \in T PROVE i \in T
    <3>1. PICK g : g = [k \in Nat |-> IF k \in T THEN f[k] ELSE {}]
      OBVIOUS
    <3>2. g \in [Nat -> SUBSET Seq(A)]
      BY <3>1
    <3>3. i <= Len(s) => \A k \in Nat : k > i => f[k] = g[k]
      BY <2>2, <3>1
    <3>4. Ways(s, points, f, i) = Ways(s, points, g, i)
      BY <3>3, WaysAgree
    <3>5. Ways(s, points, g, i) \in SUBSET Seq(A)
      BY <3>2, WaysTyped
    <3> QED
      BY <1>4, <3>4, <3>5
  <2> HIDE DEF T, N
  <2>3. Nat \subseteq T
    BY <2>1, <2>2, Backwards
  <2> QED
    BY <2>3 DEF T
<1> QED
  BY <1>2, <1>5, <1>6, <1>7

(* A stretch of a text, by its first and its last place. *)
LEMMA Stretch ==
    ASSUME NEW s \in Bytes, NEW i \in Nat \ {0}, NEW j \in Int, i - 1 <= j, j <= Len(s)
    PROVE  /\ SubSeq(s, i, j) \in Bytes /\ Len(SubSeq(s, i, j)) = j - i + 1
           /\ \A k \in 1 .. j - i + 1 : SubSeq(s, i, j)[k] = s[i + k - 1]
<1>1. PICK m : m = j - i + 1
  OBVIOUS
<1>2. m \in Nat /\ i + m - 1 = j
  BY <1>1
<1>3. i + m - 1 <= Len(s)
  BY <1>2
<1>4. /\ SubSeq(s, i, i + m - 1) \in Bytes /\ Len(SubSeq(s, i, i + m - 1)) = m
      /\ \A k \in 1 .. m : SubSeq(s, i, i + m - 1)[k] = s[i + k - 1]
  BY <1>2, <1>3, Part
<1> QED
  BY <1>1, <1>2, <1>4, Zenon

-----------------------------------------------------------------------------
(* Code points are numbers. *)
LEMMA UnitsTyped ==
    ASSUME NEW u \in Bytes
    PROVE  Units(u) \subseteq Int
<1>1. CASE Len(u) = 6 /\ u[1] = Backslash /\ u[2] = 117
  <2>1. u[3] \in Int /\ u[4] \in Int /\ u[5] \in Int /\ u[6] \in Int
    <3>1. 3 \in 1 .. Len(u) /\ 4 \in 1 .. Len(u) /\ 5 \in 1 .. Len(u) /\ 6 \in 1 .. Len(u)
      BY <1>1
    <3> QED
      BY <3>1, ByteAt
  <2>2. PICK h, j, k, l : h = HexValue(u[3]) /\ j = HexValue(u[4]) /\ k = HexValue(u[5]) /\ l = HexValue(u[6])
    OBVIOUS
  <2>3. h \in Int /\ j \in Int /\ k \in Int /\ l \in Int
    BY <2>1, <2>2, HexDigit
  <2>4. Four(h, j, k, l) \in Int
    BY <2>3 DEF Four
  <2>5. Units(u) = IF AllHex(u[3], u[4], u[5], u[6]) THEN {Four(h, j, k, l)} ELSE {}
    BY <1>1, <2>2, UnitsOf
  <2> QED
    BY <2>4, <2>5
<1>2. CASE ~(Len(u) = 6 /\ u[1] = Backslash /\ u[2] = 117)
  <2>1. Units(u) = {}
    BY SMT, <1>2 DEF Units
  <2> QED
    BY <2>1
<1> QED
  BY <1>1, <1>2

LEMMA Utf8Typed ==
    ASSUME NEW u \in Bytes
    PROVE  Utf8Points(u) \subseteq Int
  BY FormOnce

LEMMA SpelledTyped ==
    ASSUME NEW u \in Bytes
    PROVE  Spelled(u) \subseteq Int
<1>1. CASE u[1] # Backslash
  <2>1. Spelled(u) = {p \in Utf8Points(u) : p >= 32 /\ p # Quote}
    BY <1>1 DEF Spelled
  <2> QED
    BY <2>1, Utf8Typed
<1>2. CASE u[1] = Backslash
  <2>0. Spelled(u) = Escaped(u)
    BY <1>2 DEF Spelled
  <2>1. CASE Len(u) = 2
    <3>1. Spelled(u) = {Lettered(c) : c \in {u[2]} \cap Letters}
      BY <2>0, <2>1 DEF Escaped
    <3>2. \A c \in Letters : Lettered(c) \in Int
      BY DEF Letters, Lettered, Quote, Backslash, Slash
    <3> QED
      BY <3>1, <3>2
  <2>2. CASE Len(u) = 6
    <3>1. Spelled(u) = {p \in Units(u) : ~IsSurrogate(p)}
      BY <2>0, <2>2 DEF Escaped
    <3> QED
      BY <3>1, UnitsTyped
  <2>3. CASE Len(u) = 12
    <3>1. PICK H, L : /\ H = {p \in Units(SubSeq(u, 1, 6)) : IsHigh(p)}
                      /\ L = {p \in Units(SubSeq(u, 7, 12)) : IsLow(p)}
      OBVIOUS
    <3>2. Spelled(u) = {65536 + 1024 * (high - 55296) + (low - 56320) : high \in H, low \in L}
      BY SMT, <2>0, <2>3, <3>1 DEF Escaped
    <3>3. SubSeq(u, 1, 6) \in Bytes /\ SubSeq(u, 7, 12) \in Bytes
      <4>1. /\ 1 \in Nat \ {0} /\ 6 \in Int /\ 1 - 1 <= 6 /\ 6 <= Len(u)
            /\ 7 \in Nat \ {0} /\ 12 \in Int /\ 7 - 1 <= 12 /\ 12 <= Len(u)
        BY <2>3
      <4> QED
        BY <4>1, Stretch
    <3>4. H \subseteq Int /\ L \subseteq Int
      BY <3>1, <3>3, UnitsTyped
    <3> QED
      BY SMT, <3>2, <3>4
  <2>4. CASE Len(u) \notin {2, 6, 12}
    <3>1. Spelled(u) = {}
      BY <2>0, <2>4 DEF Escaped
    <3> QED
      BY <3>1
  <2> QED
    BY <2>1, <2>2, <2>3, <2>4
<1> QED
  BY <1>1, <1>2

LEMMA PointsTyped ==
    /\ \A u \in Bytes : Raw[u] = Utf8Points(u) /\ Raw[u] \subseteq Int
    /\ \A u \in Bytes : InString[u] = Spelled(u) /\ InString[u] \subseteq Int
<1>1. ASSUME NEW u \in Bytes PROVE Raw[u] = Utf8Points(u) /\ Raw[u] \subseteq Int
  <2>1. Raw[u] = Utf8Points(u)
    BY DEF Raw
  <2> QED
    BY <2>1, Utf8Typed
<1>2. ASSUME NEW u \in Bytes PROVE InString[u] = Spelled(u) /\ InString[u] \subseteq Int
  <2>1. InString[u] = Spelled(u)
    BY DEF InString
  <2> QED
    BY <2>1, SpelledTyped
<1> QED
  BY <1>1, <1>2

-----------------------------------------------------------------------------
(* The bytes of two texts in a row. *)
LEMMA Appended ==
    ASSUME NEW a \in Bytes, NEW b \in Bytes
    PROVE  /\ a \o b \in Bytes /\ Len(a \o b) = Len(a) + Len(b)
           /\ \A k \in 1 .. Len(a) : (a \o b)[k] = a[k]
           /\ \A k \in 1 .. Len(b) : (a \o b)[Len(a) + k] = b[k]
<1>0. PICK B : B = 0 .. 255
  OBVIOUS
<1>1. a \in Seq(B) /\ b \in Seq(B)
  BY <1>0 DEF Bytes
<1>2. a \o b \in Seq(B)
  BY <1>1
<1>3. a \o b \in Bytes
  BY <1>0, <1>2 DEF Bytes
<1>4. Len(a \o b) = Len(a) + Len(b)
  BY <1>1
<1>5. \A k \in 1 .. Len(a) : (a \o b)[k] = a[k]
  BY <1>1
<1>6. \A k \in 1 .. Len(b) : (a \o b)[Len(a) + k] = b[k]
  BY <1>1
<1> QED
  BY <1>3, <1>4, <1>5, <1>6

(* A stretch of the first of them is a stretch of both. *)
LEMMA PartOfFirst ==
    ASSUME NEW a \in Bytes, NEW b \in Bytes, NEW i \in Nat \ {0}, NEW m \in Nat, i + m - 1 <= Len(a)
    PROVE  SubSeq(a \o b, i, i + m - 1) = SubSeq(a, i, i + m - 1)
<1>1. PICK s : s = a \o b
  OBVIOUS
<1>2. s \in Bytes /\ Len(s) = Len(a) + Len(b) /\ \A k \in 1 .. Len(a) : s[k] = a[k]
  BY <1>1, Appended
<1>3. Len(a) \in Nat /\ Len(b) \in Nat
  BY OfBytes
<1>4. i + m - 1 <= Len(s)
  BY <1>2, <1>3
<1>5. PICK u, v : u = SubSeq(s, i, i + m - 1) /\ v = SubSeq(a, i, i + m - 1)
  OBVIOUS
<1>6. u \in Bytes /\ Len(u) = m /\ \A k \in 1 .. m : u[k] = s[i + k - 1]
  BY <1>2, <1>4, <1>5, Part
<1>7. v \in Bytes /\ Len(v) = m /\ \A k \in 1 .. m : v[k] = a[i + k - 1]
  BY <1>5, Part
<1>8. ASSUME NEW k \in 1 .. m PROVE u[k] = v[k]
  <2>1. i + k - 1 \in 1 .. Len(a)
    BY <1>3
  <2>2. s[i + k - 1] = a[i + k - 1]
    BY <1>2, <2>1
  <2> QED
    BY <1>6, <1>7, <2>2
<1>9. u = v
  BY <1>6, <1>7, <1>8, SameBytes
<1> QED
  BY <1>1, <1>5, <1>9

(* So is the beginning of the second. *)
LEMMA PartOfSecond ==
    ASSUME NEW a \in Bytes, NEW b \in Bytes, NEW m \in Nat, m <= Len(b)
    PROVE  SubSeq(a \o b, Len(a) + 1, Len(a) + m) = SubSeq(b, 1, m)
<1>1. PICK s, N : s = a \o b /\ N = Len(a)
  OBVIOUS
<1>2. s \in Bytes /\ Len(s) = N + Len(b) /\ \A k \in 1 .. Len(b) : s[N + k] = b[k]
  BY <1>1, Appended
<1>3. N \in Nat /\ Len(b) \in Nat
  BY <1>1, OfBytes
<1>4. N + 1 \in Nat \ {0} /\ (N + 1) + m - 1 = N + m /\ N + m <= Len(s) /\ 1 + m - 1 = m
  BY <1>2, <1>3
<1>5. PICK u, v : u = SubSeq(s, N + 1, N + m) /\ v = SubSeq(b, 1, m)
  OBVIOUS
<1>6. u \in Bytes /\ Len(u) = m /\ \A k \in 1 .. m : u[k] = s[(N + 1) + k - 1]
  <2>1. u = SubSeq(s, N + 1, (N + 1) + m - 1)
    BY <1>4, <1>5
  <2>2. (N + 1) + m - 1 <= Len(s)
    BY <1>4
  <2> QED
    BY <1>2, <1>4, <2>1, <2>2, Part
<1>7. v \in Bytes /\ Len(v) = m /\ \A k \in 1 .. m : v[k] = b[1 + k - 1]
  <2>1. 1 \in Nat \ {0} /\ m \in Int /\ 1 - 1 <= m /\ m - 1 + 1 = m
    OBVIOUS
  <2> QED
    BY <1>5, <2>1, Stretch
<1>8. ASSUME NEW k \in 1 .. m PROVE u[k] = v[k]
  <2>1. k \in 1 .. Len(b) /\ (N + 1) + k - 1 = N + k /\ 1 + k - 1 = k
    BY <1>3
  <2>2. u[k] = s[(N + 1) + k - 1] /\ v[k] = b[1 + k - 1] /\ s[N + k] = b[k]
    BY <1>2, <1>6, <1>7, <2>1
  <2> QED
    BY <2>1, <2>2, Zenon
<1>9. u = v
  BY <1>6, <1>7, <1>8, SameBytes
<1> QED
  BY <1>1, <1>5, <1>9

-----------------------------------------------------------------------------
(* Sequences of code points, and one more at their end. *)
Then(X, p) == {x \o <<p>> : x \in X}

EndsIn(y, X, p) == \E x \in X : y = x \o <<p>>

LEMMA ThenIs ==
    ASSUME NEW X, NEW p, NEW y
    PROVE  y \in Then(X, p) <=> EndsIn(y, X, p)
  BY DEF Then, EndsIn

LEMMA Regroup ==
    ASSUME NEW x \in Seq(Int), NEW y \in Seq(Int), NEW z \in Seq(Int)
    PROVE  x \o y \in Seq(Int) /\ (x \o y) \o z = x \o (y \o z)
  OBVIOUS

(* A point before and a point behind do not mind each other. *)
LEMMA FollowsThen ==
    ASSUME NEW P, P \subseteq Int, NEW X, X \subseteq Seq(Int), NEW p \in Int
    PROVE  Followed(P, Then(X, p)) = Then(Followed(P, X), p)
<1>0. PICK e : e = <<p>>
  OBVIOUS
<1>1. e \in Seq(Int)
  BY <1>0
<1>2. ASSUME NEW y, y \in Followed(P, Then(X, p)) PROVE y \in Then(Followed(P, X), p)
  <2>1. Follows(y, P, Then(X, p))
    BY <1>2, FollowedIs
  <2>2. PICK q \in P, z \in Then(X, p) : y = <<q>> \o z
    BY <2>1 DEF Follows
  <2>3. EndsIn(z, X, p)
    BY ThenIs
  <2>4. PICK x \in X : z = x \o <<p>>
    BY <2>3 DEF EndsIn
  <2>5. q \in Int /\ x \in Seq(Int)
    OBVIOUS
  <2>6. (<<q>> \o x) \o e = <<q>> \o (x \o e)
    <3>1. PICK d : d = <<q>>
      OBVIOUS
    <3>2. d \in Seq(Int)
      BY <2>5, <3>1
    <3>3. (d \o x) \o e = d \o (x \o e)
      BY <1>1, <2>5, <3>2, Regroup
    <3> QED
      BY <3>1, <3>3
  <2>7. PICK w : w = <<q>> \o x
    OBVIOUS
  <2>8. y = w \o <<p>>
    BY <1>0, <2>2, <2>4, <2>6, <2>7
  <2>9. Follows(w, P, X)
    BY <2>7 DEF Follows
  <2>10. w \in Followed(P, X)
    BY <2>9, FollowedIs
  <2>11. EndsIn(y, Followed(P, X), p)
    BY <2>8, <2>10 DEF EndsIn
  <2> QED
    BY <2>11, ThenIs
<1>3. ASSUME NEW y, y \in Then(Followed(P, X), p) PROVE y \in Followed(P, Then(X, p))
  <2>1. EndsIn(y, Followed(P, X), p)
    BY <1>3, ThenIs
  <2>2. PICK w \in Followed(P, X) : y = w \o <<p>>
    BY <2>1 DEF EndsIn
  <2>3. Follows(w, P, X)
    BY FollowedIs
  <2>4. PICK q \in P, x \in X : w = <<q>> \o x
    BY <2>3 DEF Follows
  <2>5. q \in Int /\ x \in Seq(Int)
    OBVIOUS
  <2>6. (<<q>> \o x) \o e = <<q>> \o (x \o e)
    <3>1. PICK d : d = <<q>>
      OBVIOUS
    <3>2. d \in Seq(Int)
      BY <2>5, <3>1
    <3>3. (d \o x) \o e = d \o (x \o e)
      BY <1>1, <2>5, <3>2, Regroup
    <3> QED
      BY <3>1, <3>3
  <2>7. PICK z : z = x \o <<p>>
    OBVIOUS
  <2>8. y = <<q>> \o z
    BY <1>0, <2>2, <2>4, <2>6, <2>7
  <2>9. EndsIn(z, X, p)
    BY <2>7 DEF EndsIn
  <2>10. z \in Then(X, p)
    BY <2>9, ThenIs
  <2>11. Follows(y, P, Then(X, p))
    BY <2>8, <2>10 DEF Follows
  <2> QED
    BY <2>11, FollowedIs
<1> QED
  BY <1>2, <1>3

(* A text that ends in the form of a code point reads as what is before it, and
   that point.                                                             *)
LEMMA AppendPoint ==
    ASSUME NEW a \in Bytes, NEW b \in Bytes, NEW p \in Int, Utf8Points(b) = {p}
    PROVE  Readings(a \o b, Raw) = Then(Readings(a, Raw), p)
<1>1. PICK s, N, M : s = a \o b /\ N = Len(a) /\ M = Len(b)
  OBVIOUS
<1>2. s \in Bytes /\ Len(s) = N + M /\ N \in Nat /\ M \in Nat
  BY <1>1, Appended, OfBytes
<1>3. M \in 1 .. 4 /\ M = FormLength(b[1]) /\ b[1] \notin Continuation
  BY <1>1, FormOnce
<1>4. s[N + 1] = b[1]
  <2>1. 1 \in 1 .. M
    BY <1>3
  <2> QED
    BY <1>1, <2>1, Appended
<1>5. PICK Fa, Fs : Fa = ReadingsFrom(a, Raw) /\ Fs = ReadingsFrom(s, Raw)
  OBVIOUS
<1>6. \A u \in Bytes : Raw[u] = Utf8Points(u) /\ Raw[u] \subseteq Int
  BY PointsTyped
<1>7. ASSUME NEW n \in Nat
      PROVE  /\ Fa[n] \subseteq Seq(Int) /\ (n >= N => Fa[n] = {<<>>})
             /\ n < N => \A x : x \in Fa[n] <=> OnPiece(x, a, Raw, Fa, n)
  BY <1>1, <1>5, <1>6, ReadingsUnfold
<1>8. ASSUME NEW n \in Nat
      PROVE  /\ Fs[n] \subseteq Seq(Int) /\ (n >= Len(s) => Fs[n] = {<<>>})
             /\ n < Len(s) => \A x : x \in Fs[n] <=> OnPiece(x, s, Raw, Fs, n)
  BY <1>2, <1>5, <1>6, ReadingsUnfold
<1> DEFINE T == {n \in Nat : n <= N => Fs[n] = Then(Fa[n], p)}
<1>9. N \in T
  <2>1. Fa[N] = {<<>>} /\ Fs[N + M] = {<<>>}
    <3>1. N + M \in Nat /\ N + M >= Len(s) /\ N >= N
      BY <1>2
    <3> QED
      BY <1>2, <1>7, <1>8, <3>1
  <2>2. ASSUME NEW m \in Lengths, N + m <= Len(s), m # M PROVE Raw[SubSeq(s, N + 1, N + m)] = {}
    <3>1. m \in Nat /\ m # 0 /\ m <= M
      BY <1>2, <2>2, LengthsTyped
    <3>2. PICK u : u = SubSeq(b, 1, m)
      OBVIOUS
    <3>3. u \in Bytes /\ Len(u) = m /\ u[1] = b[1]
      <4>1. 1 \in Nat \ {0} /\ m \in Int /\ 1 - 1 <= m /\ m - 1 + 1 = m /\ 1 \in 1 .. m /\ 1 + 1 - 1 = 1 /\ m <= Len(b)
        BY <1>1, <3>1
      <4>2. u \in Bytes /\ Len(u) = m - 1 + 1 /\ \A k \in 1 .. m - 1 + 1 : u[k] = b[1 + k - 1]
        BY <3>2, <4>1, Stretch
      <4> QED
        BY <4>1, <4>2, Zenon
    <3>4. u = SubSeq(s, N + 1, N + m)
      BY <1>1, <3>1, <3>2, PartOfSecond
    <3>5. ASSUME NEW q \in Utf8Points(u) PROVE FALSE
      BY <1>3, <2>2, <3>3, <3>5, FormOnce
    <3> QED
      BY <1>6, <3>3, <3>4, <3>5
  <2>3. Raw[SubSeq(s, N + 1, N + M)] = {p} /\ M \in Lengths
    <3>1. SubSeq(b, 1, M) = b
      <4>1. 1 \in Nat \ {0} /\ M \in Int /\ 1 - 1 <= M /\ M - 1 + 1 = M /\ M <= Len(b)
        BY <1>1, <1>3
      <4>2. SubSeq(b, 1, M) \in Bytes /\ Len(SubSeq(b, 1, M)) = M /\ \A k \in 1 .. M : SubSeq(b, 1, M)[k] = b[1 + k - 1]
        BY <4>1, Stretch
      <4>3. \A k \in 1 .. M : SubSeq(b, 1, M)[k] = b[k]
        <5>1. \A k \in 1 .. M : 1 + k - 1 = k
          OBVIOUS
        <5> QED
          BY <4>2, <5>1
      <4> QED
        BY <1>1, <4>2, <4>3, SameBytes
    <3>2. SubSeq(s, N + 1, N + M) = b
      <4>1. M <= Len(b) /\ M \in Nat
        BY <1>1, <1>2
      <4> QED
        BY <1>1, <3>1, <4>1, PartOfSecond
    <3>3. M \in Lengths
      BY <1>3 DEF Lengths
    <3>4. Raw[b] = {p}
      BY <1>6
    <3> QED
      BY <3>2, <3>3, <3>4
  <2>4. Fs[N] = Followed({p}, {<<>>})
    <3>1. N < Len(s) /\ N + M <= Len(s)
      BY <1>2, <1>3
    <3>2. \A x : x \in Fs[N] <=>
              \E m \in Lengths : N + m <= Len(s) /\ x \in Followed(Raw[SubSeq(s, N + 1, N + m)], Fs[N + m])
      BY <1>2, <1>8, <3>1, Zenon DEF OnPiece
    <3>3. \A x, R : x \notin Followed({}, R)
      <4>1. \A x, R : ~Follows(x, {}, R)
        BY DEF Follows
      <4> QED
        BY <4>1, FollowedIs
    <3>4. \A x : x \in Fs[N] <=> x \in Followed({p}, {<<>>})
      BY <2>1, <2>2, <2>3, <3>1, <3>2, <3>3, Zenon
    <3> QED
      BY <3>4, Zenon
  <2>5. Followed({p}, {<<>>}) = {<<p>>}
    BY DEF Followed
  <2>6. Then({<<>>}, p) = {<<p>>}
    <3>1. <<>> \o <<p>> = <<p>>
      OBVIOUS
    <3>2. Then({<<>>}, p) = {<<>> \o <<p>>}
      BY DEF Then
    <3> QED
      BY <3>1, <3>2
  <2> QED
    BY <1>2, <2>1, <2>4, <2>5, <2>6
<1>10. ASSUME NEW n \in Nat, n <= N => \A k \in Nat : k > n => k \in T PROVE n \in T
  <2>1. CASE n = N
    BY <1>9, <2>1
  <2>2. CASE n > N
    BY <1>2, <2>2
  <2>3. CASE n < N
    <3>1. ASSUME NEW m \in Lengths, n + m <= N
          PROVE  /\ SubSeq(s, n + 1, n + m) = SubSeq(a, n + 1, n + m)
                 /\ Followed(Raw[SubSeq(s, n + 1, n + m)], Fs[n + m])
                        = Then(Followed(Raw[SubSeq(a, n + 1, n + m)], Fa[n + m]), p)
      <4>1. m \in Nat /\ m # 0 /\ n + m \in Nat /\ n + m > n /\ n + 1 \in Nat \ {0} /\ (n + 1) + m - 1 = n + m
        BY LengthsTyped
      <4>2. SubSeq(s, n + 1, n + m) = SubSeq(a, n + 1, n + m) /\ SubSeq(a, n + 1, n + m) \in Bytes
        <5>1. n + m <= Len(a) /\ (n + 1) + m - 1 <= Len(a)
          BY <1>1, <3>1, <4>1
        <5>2. SubSeq(s, n + 1, (n + 1) + m - 1) = SubSeq(a, n + 1, (n + 1) + m - 1)
          BY <1>1, <4>1, <5>1, PartOfFirst
        <5>3. SubSeq(a, n + 1, (n + 1) + m - 1) \in Bytes
          BY <4>1, <5>1, Part
        <5> QED
          BY <4>1, <5>2, <5>3, Zenon
      <4>3. n + m \in T
        <5>1. n <= N
          BY <1>2, <2>3
        <5> HIDE DEF T
        <5> QED
          BY <1>10, <4>1, <5>1
      <4>4. Fs[n + m] = Then(Fa[n + m], p)
        BY <3>1, <4>3
      <4>5. PICK P, X : P = Raw[SubSeq(a, n + 1, n + m)] /\ X = Fa[n + m]
        OBVIOUS
      <4>6. P \subseteq Int /\ X \subseteq Seq(Int)
        BY <1>6, <1>7, <4>1, <4>2, <4>5
      <4>7. Followed(P, Then(X, p)) = Then(Followed(P, X), p)
        BY <4>6, FollowsThen, ZenonT(40)
      <4> QED
        BY <4>2, <4>4, <4>5, <4>7
    <3>2. ASSUME NEW m \in Lengths, n + m <= Len(s), ~(n + m <= N) PROVE Raw[SubSeq(s, n + 1, n + m)] = {}
      <4>1. m \in Nat /\ m # 0 /\ n + m > N
        BY <1>2, <3>2, LengthsTyped
      <4>2. PICK u : u = SubSeq(s, n + 1, n + m)
        OBVIOUS
      <4>3. PICK k : k = N - n + 1
        OBVIOUS
      <4>4. k \in 2 .. m /\ (n + 1) + k - 1 = N + 1 /\ k \in 1 .. m
        BY <1>2, <2>3, <4>1, <4>3
      <4>5. u \in Bytes /\ Len(u) = m /\ u[k] = b[1]
        <5>0. PICK a1, j1 : a1 = n + 1 /\ j1 = n + m
          OBVIOUS
        <5>1. a1 \in Nat \ {0} /\ j1 \in Int /\ a1 - 1 <= j1 /\ j1 <= Len(s) /\ j1 - a1 + 1 = m
          BY <1>2, <3>2, <4>1, <5>0
        <5>4. SubSeq(s, a1, j1) \in Bytes /\ Len(SubSeq(s, a1, j1)) = j1 - a1 + 1
              /\ \A j \in 1 .. j1 - a1 + 1 : SubSeq(s, a1, j1)[j] = s[a1 + j - 1]
          BY <1>2, <5>1, Stretch, ZenonT(40)
        <5>2. u \in Bytes /\ Len(u) = m /\ \A j \in 1 .. m : u[j] = s[(n + 1) + j - 1]
          BY <4>2, <5>0, <5>1, <5>4, ZenonT(40)
        <5>3. u[k] = s[(n + 1) + k - 1]
          BY <4>4, <5>2
        <5> QED
          BY <1>4, <4>4, <5>2, <5>3
      <4>6. ASSUME NEW q \in Utf8Points(u) PROVE FALSE
        <5>1. \A j \in 2 .. Len(u) : u[j] \in Continuation
          BY <4>5, FormOnce
        <5> QED
          BY <1>3, <4>4, <4>5, <5>1
      <4> QED
        BY <1>6, <4>2, <4>5, <4>6
    <3>3. \A R : Followed({}, R) = {}
      <4>1. \A x, R : ~Follows(x, {}, R)
        BY DEF Follows
      <4>2. \A x, R : x \notin Followed({}, R)
        BY <4>1, FollowedIs
      <4> QED
        BY <4>2, Zenon
    <3>4. \A x : x \in Fs[n] <=>
              \E m \in Lengths : n + m <= N /\ x \in Then(Followed(Raw[SubSeq(a, n + 1, n + m)], Fa[n + m]), p)
      <4>1. n < Len(s)
        BY <1>2, <2>3
      <4>2. \A x : x \in Fs[n] <=>
                \E m \in Lengths : n + m <= Len(s) /\ x \in Followed(Raw[SubSeq(s, n + 1, n + m)], Fs[n + m])
        BY <1>2, <1>8, <4>1, Zenon DEF OnPiece
      <4>3. \A m \in Lengths : n + m <= N => n + m <= Len(s)
        BY <1>2, LengthsTyped
      <4> QED
        <5>1. \A x : \A m \in Lengths : n + m <= Len(s) /\ ~(n + m <= N) =>
                  x \notin Followed(Raw[SubSeq(s, n + 1, n + m)], Fs[n + m])
          BY <3>2, <3>3, Zenon
        <5>2. ASSUME NEW x, NEW m \in Lengths
              PROVE  n + m <= Len(s) /\ x \in Followed(Raw[SubSeq(s, n + 1, n + m)], Fs[n + m])
                         <=> n + m <= N /\ x \in Then(Followed(Raw[SubSeq(a, n + 1, n + m)], Fa[n + m]), p)
          <6>1. CASE n + m <= N
            BY <3>1, <4>3, <6>1, Zenon
          <6>2. CASE ~(n + m <= N)
            BY <5>1, <6>2, Zenon
          <6> QED
            BY <6>1, <6>2, Zenon
        <5> QED
          BY <4>2, <5>2, Zenon
    <3>5. ASSUME NEW y, y \in Fs[n] PROVE y \in Then(Fa[n], p)
      <4>1. PICK m \in Lengths : n + m <= N /\ y \in Then(Followed(Raw[SubSeq(a, n + 1, n + m)], Fa[n + m]), p)
        BY <3>4, <3>5
      <4>2. EndsIn(y, Followed(Raw[SubSeq(a, n + 1, n + m)], Fa[n + m]), p)
        BY <4>1, ThenIs
      <4>3. PICK x \in Followed(Raw[SubSeq(a, n + 1, n + m)], Fa[n + m]) : y = x \o <<p>>
        BY <4>2 DEF EndsIn
      <4>4. x \in Fa[n]
        BY <1>1, <1>7, <2>3, <4>1, <4>3, Zenon DEF OnPiece
      <4>5. EndsIn(y, Fa[n], p)
        BY <4>3, <4>4 DEF EndsIn
      <4> QED
        BY <4>5, ThenIs
    <3>6. ASSUME NEW y, y \in Then(Fa[n], p) PROVE y \in Fs[n]
      <4>1. EndsIn(y, Fa[n], p)
        BY <3>6, ThenIs
      <4>2. PICK x \in Fa[n] : y = x \o <<p>>
        BY <4>1 DEF EndsIn
      <4>3. PICK m \in Lengths : n + m <= N /\ x \in Followed(Raw[SubSeq(a, n + 1, n + m)], Fa[n + m])
        BY <1>1, <1>7, <2>3, <4>2, Zenon DEF OnPiece
      <4>4. EndsIn(y, Followed(Raw[SubSeq(a, n + 1, n + m)], Fa[n + m]), p)
        BY <4>2, <4>3 DEF EndsIn
      <4>5. y \in Then(Followed(Raw[SubSeq(a, n + 1, n + m)], Fa[n + m]), p)
        BY <4>4, ThenIs
      <4> QED
        BY <3>4, <4>3, <4>5, Zenon
    <3>7. Fs[n] = Then(Fa[n], p)
      BY <3>5, <3>6, Zenon
    <3> QED
      BY <3>7
  <2> QED
    BY <1>2, <2>1, <2>2, <2>3
<1>11. 0 \in T
  <2> HIDE DEF T
  <2>1. Nat \subseteq T
    BY <1>2, <1>10, Backwards
  <2> QED
    BY <2>1
<1> QED
  BY <1>1, <1>2, <1>5, <1>11 DEF Readings

-----------------------------------------------------------------------------
(* What the text between the quotes at lo and at hi spells from the place i on. *)
Left(s, lo, hi, i) ==
    IF lo < i /\ i <= hi /\ s[hi] = Quote THEN ReadingsFrom(SubSeq(s, lo + 1, hi - 1), InString)[i - lo - 1]
    ELSE {}

(* The places of a text and of the string in it. *)
LEMMA LeftUnfold ==
    ASSUME NEW s \in Bytes, NEW lo \in Nat \ {0}, NEW hi \in Nat, lo < hi, hi <= Len(s), s[hi] = Quote,
           NEW i \in Nat, lo < i, i <= hi
    PROVE  /\ Left(s, lo, hi, i) \subseteq Seq(Int)
           /\ i = hi => Left(s, lo, hi, i) = {<<>>}
           /\ i < hi => \A x : x \in Left(s, lo, hi, i) <=>
                  \E m \in Lengths : i + m <= hi /\ x \in Followed(SpelledAt(s, i, m), Left(s, lo, hi, i + m))
<1>1. PICK t : t = SubSeq(s, lo + 1, hi - 1)
  OBVIOUS
<1>2. t \in Bytes /\ Len(t) = hi - lo - 1
  <2>1. lo + 1 \in Nat \ {0} /\ hi - 1 \in Int /\ (lo + 1) - 1 <= hi - 1 /\ hi - 1 <= Len(s)
        /\ (hi - 1) - (lo + 1) + 1 = hi - lo - 1
    OBVIOUS
  <2> QED
    BY <1>1, <2>1, Stretch
<1>3. PICK G : G = ReadingsFrom(t, InString)
  OBVIOUS
<1>4. PICK n : n = i - lo - 1
  OBVIOUS
<1>5. n \in Nat /\ n <= Len(t) /\ (n >= Len(t) <=> i = hi) /\ (n < Len(t) <=> i < hi) /\ n + 1 = i - lo
  BY <1>2, <1>4
<1>6. \A u \in Bytes : InString[u] = Spelled(u) /\ InString[u] \subseteq Int
  BY PointsTyped
<1>7. /\ G[n] \subseteq Seq(Int) /\ (n >= Len(t) => G[n] = {<<>>})
      /\ n < Len(t) => \A x : x \in G[n] <=> OnPiece(x, t, InString, G, n)
  BY <1>2, <1>3, <1>5, <1>6, ReadingsUnfold
<1>8. Left(s, lo, hi, i) = G[n]
  BY <1>1, <1>3, <1>4 DEF Left
<1>9. ASSUME NEW m \in Lengths
      PROVE  /\ n + m <= Len(t) <=> i + m <= hi
             /\ i + m <= hi => /\ InString[SubSeq(t, n + 1, n + m)] = SpelledAt(s, i, m)
                               /\ G[n + m] = Left(s, lo, hi, i + m)
  <2>1. m \in Nat /\ m # 0 /\ (n + m <= Len(t) <=> i + m <= hi)
    BY <1>2, <1>4, LengthsTyped
  <2>2. ASSUME i + m <= hi PROVE InString[SubSeq(t, n + 1, n + m)] = SpelledAt(s, i, m)
    <3>1. PICK k : k = hi - lo - 1
      OBVIOUS
    <3>2. PICK a, b : a = lo + 1 /\ b = n + 1
      OBVIOUS
    <3>3. /\ k \in Nat /\ a \in Nat \ {0} /\ b \in Nat \ {0}
          /\ a + k - 1 <= Len(s) /\ b + m - 1 <= k
          /\ a + k - 1 = hi - 1 /\ b + m - 1 = n + m /\ a + b - 1 = i
      BY <1>4, <1>5, <2>1, <2>2, <3>1, <3>2
    <3>4. SubSeq(SubSeq(s, a, a + k - 1), b, b + m - 1) = SubSeq(s, (a + b - 1), (a + b - 1) + m - 1)
      BY <2>1, <3>3, PartOfPart
    <3>5. SubSeq(t, n + 1, n + m) = SubSeq(s, i, i + m - 1)
      BY <1>1, <3>2, <3>3, <3>4, Zenon
    <3>6. i \in Nat \ {0} /\ i + m - 1 <= Len(s)
      BY <2>1, <2>2
    <3>7. SubSeq(s, i, i + m - 1) \in Bytes
      BY <2>1, <3>6, Part
    <3> QED
      BY <1>6, <3>5, <3>7 DEF SpelledAt
  <2>3. ASSUME i + m <= hi PROVE G[n + m] = Left(s, lo, hi, i + m)
    <3>1. lo < i + m /\ (i + m) - lo - 1 = n + m
      BY <1>4, <2>1
    <3> QED
      BY <1>1, <1>3, <2>3, <3>1 DEF Left
  <2> QED
    BY <2>1, <2>2, <2>3
<1>10. ASSUME i < hi, NEW x
       PROVE  x \in G[n] <=> \E m \in Lengths : i + m <= hi /\ x \in Followed(SpelledAt(s, i, m), Left(s, lo, hi, i + m))
  <2>1. x \in G[n] <=> \E m \in Lengths : n + m <= Len(t) /\ x \in Followed(InString[SubSeq(t, n + 1, n + m)], G[n + m])
    BY <1>5, <1>7, <1>10, Zenon DEF OnPiece
  <2>2. ASSUME NEW m \in Lengths
        PROVE  n + m <= Len(t) /\ x \in Followed(InString[SubSeq(t, n + 1, n + m)], G[n + m])
                   <=> i + m <= hi /\ x \in Followed(SpelledAt(s, i, m), Left(s, lo, hi, i + m))
    BY <1>9, Zenon
  <2> QED
    BY <2>1, <2>2, Zenon
<1> QED
  BY <1>5, <1>7, <1>8, <1>10, Zenon

LEMMA FollowedNothing ==
    ASSUME NEW R
    PROVE  Followed({}, R) = {} /\ Followed(R, {}) = {}
<1>1. \A x : ~Follows(x, {}, R) /\ ~Follows(x, R, {})
  BY DEF Follows
<1>2. \A x : x \notin Followed({}, R) /\ x \notin Followed(R, {})
  BY <1>1, FollowedIs
<1> QED
  BY <1>2, Zenon

(* Nothing is left where nothing is spelled. *)
LEMMA LeftNothing ==
    ASSUME NEW s \in Bytes, NEW lo \in Nat \ {0}, NEW hi \in Nat, lo <= hi, hi <= Len(s),
           NEW i \in Nat, lo < i, i # hi, i <= Len(s) => Nothing(s, i)
    PROVE  Left(s, lo, hi, i) = {}
<1>1. CASE i > hi
  <2>1. ~(i <= hi)
    BY <1>1
  <2> QED
    BY <2>1 DEF Left
<1>2. CASE s[hi] # Quote
  BY <1>2 DEF Left
<1>3. CASE i < hi /\ s[hi] = Quote
  <2>1. i <= hi /\ lo < hi /\ i < hi /\ Nothing(s, i)
    BY <1>3, OfBytes
  <2>2. ASSUME NEW m \in Lengths, i + m <= hi PROVE SpelledAt(s, i, m) = {}
    <3>1. i + m - 1 <= Len(s)
      BY <2>2, LengthsTyped, OfBytes
    <3> QED
      BY <2>1, <3>1 DEF Nothing
  <2>3. \A x : x \in Left(s, lo, hi, i) <=>
            \E m \in Lengths : i + m <= hi /\ x \in Followed(SpelledAt(s, i, m), Left(s, lo, hi, i + m))
    BY <1>3, <2>1, LeftUnfold
  <2>4. \A x : x \notin Left(s, lo, hi, i)
    BY <2>2, <2>3, FollowedNothing, Zenon
  <2> QED
    BY <2>4, Zenon
<1> QED
  BY <1>1, <1>2, <1>3

(* The one piece at i that spells anything spells p and ends at e. *)
OnePoint(s, i, e, p) ==
    \E piece : Spells(s, i, piece) /\ SpelledAt(s, i, piece.used) = {p} /\ e = i + piece.used

(* Where one piece spells a point, what is left is that point and what is left
   behind the piece.                                                       *)
LEMMA LeftPiece ==
    ASSUME NEW s \in Bytes, NEW lo \in Nat \ {0}, NEW hi \in Nat, lo <= hi, hi <= Len(s),
           NEW i \in Nat, lo < i, i # hi, i <= Len(s), NEW e, NEW p, OnePoint(s, i, e, p)
    PROVE  Left(s, lo, hi, i) = Followed({p}, Left(s, lo, hi, e))
<1>0. PICK piece : Spells(s, i, piece) /\ SpelledAt(s, i, piece.used) = {p} /\ e = i + piece.used
  BY DEF OnePoint
<1>1. PICK used : used = piece.used /\ e = i + used
  BY <1>0
<1>2. /\ used \in Lengths /\ used \in Nat /\ used # 0
      /\ \A m \in Lengths \ {used} : i + m - 1 <= Len(s) => SpelledAt(s, i, m) = {}
  BY <1>0, <1>1, LengthsTyped DEF Spells
<1>3. CASE i > hi \/ s[hi] # Quote
  <2>1. ~(i <= hi /\ s[hi] = Quote) /\ ~(i + used <= hi /\ s[hi] = Quote)
    BY <1>2, <1>3
  <2>2. Left(s, lo, hi, i) = {} /\ Left(s, lo, hi, i + used) = {}
    BY <2>1 DEF Left
  <2> QED
    BY <1>1, <2>2, FollowedNothing
<1>4. CASE i < hi /\ s[hi] = Quote
  <2>1. \A x : x \in Left(s, lo, hi, i) <=>
            \E m \in Lengths : i + m <= hi /\ x \in Followed(SpelledAt(s, i, m), Left(s, lo, hi, i + m))
    <3>1. i <= hi /\ lo < hi
      BY <1>4
    <3> QED
      BY <1>4, <3>1, LeftUnfold
  <2>2. ASSUME NEW m \in Lengths, i + m <= hi, m # used PROVE SpelledAt(s, i, m) = {}
    <3>1. i + m - 1 <= Len(s)
      BY <2>2, LengthsTyped, OfBytes
    <3> QED
      BY <1>2, <2>2, <3>1
  <2>3. CASE i + used <= hi
    <3>1. \A x : x \in Left(s, lo, hi, i) <=> x \in Followed({p}, Left(s, lo, hi, i + used))
      BY <1>0, <1>1, <1>2, <2>1, <2>2, <2>3, FollowedNothing, Zenon
    <3>2. Left(s, lo, hi, i) = Followed({p}, Left(s, lo, hi, i + used))
      BY <3>1, Zenon
    <3> QED
      BY <1>1, <3>2
  <2>4. CASE ~(i + used <= hi)
    <3>1. \A x : x \notin Left(s, lo, hi, i)
      BY <2>1, <2>2, <2>4, FollowedNothing, Zenon
    <3>2. Left(s, lo, hi, i + used) = {}
      BY <2>4 DEF Left
    <3>3. Left(s, lo, hi, i) = {}
      BY <3>1, Zenon
    <3> QED
      BY <1>1, <3>2, <3>3, FollowedNothing
  <2> QED
    BY <2>3, <2>4
<1> QED
  BY <1>3, <1>4

-----------------------------------------------------------------------------
(* SkipAll stops at the first byte that is not of the set. *)
LEMMA SkipTo ==
    ASSUME NEW s \in Bytes, NEW i \in Nat \ {0}, i <= Len(s) + 1, NEW bytes, AtEnd \notin bytes
    PROVE  /\ SkipAll(s, i, bytes) \in Nat /\ i <= SkipAll(s, i, bytes) /\ SkipAll(s, i, bytes) <= Len(s) + 1
           /\ Peek(s, SkipAll(s, i, bytes)) \notin bytes
           /\ \A j \in Nat : i <= j /\ j < SkipAll(s, i, bytes) => j <= Len(s) /\ Peek(s, j) \in bytes
<1>0. Len(s) \in Nat
  BY OfBytes
<1>1. PICK S : S = {j \in i .. Len(s) + 1 : Peek(s, j) \notin bytes}
  OBVIOUS
<1>2. Peek(s, Len(s) + 1) = AtEnd
  <2>1. Len(s) + 1 \in Nat \ {0} /\ ~(Len(s) + 1 <= Len(s))
    BY <1>0
  <2> QED
    BY <2>1, PeekIs DEF AtEnd
<1>3. S \subseteq Nat /\ S # {}
  <2>1. Len(s) + 1 \in S
    BY <1>0, <1>1, <1>2
  <2> QED
    BY <1>1, <2>1
<1>4. Min(S) \in S /\ \A x \in S : Min(S) <= x
  BY <1>3, LeastOf
<1>5. PICK e : e = Min(S)
  OBVIOUS
<1>6. e = SkipAll(s, i, bytes)
  BY <1>1, <1>5 DEF SkipAll
<1>7. e \in Nat /\ i <= e /\ e <= Len(s) + 1 /\ Peek(s, e) \notin bytes
  BY <1>0, <1>1, <1>4, <1>5
<1>8. ASSUME NEW j \in Nat, i <= j, j < e PROVE j <= Len(s) /\ Peek(s, j) \in bytes
  <2>1. j \in i .. Len(s) + 1 /\ j <= Len(s) /\ ~(e <= j)
    BY <1>0, <1>7, <1>8
  <2>2. j \notin S
    BY <1>4, <1>5, <2>1
  <2> QED
    BY <1>1, <2>1, <2>2
<1> QED
  BY <1>6, <1>7, <1>8

LEMMA SkipIs ==
    ASSUME NEW s \in Bytes, NEW i \in Nat \ {0}, NEW bytes, AtEnd \notin bytes,
           NEW e \in Nat, i <= e, e <= Len(s) + 1, Peek(s, e) \notin bytes,
           \A j \in Nat : i <= j /\ j < e => Peek(s, j) \in bytes
    PROVE  SkipAll(s, i, bytes) = e
<1>1. PICK f : f = SkipAll(s, i, bytes)
  OBVIOUS
<1>2. i <= Len(s) + 1
  BY OfBytes
<1>3. /\ f \in Nat /\ i <= f /\ Peek(s, f) \notin bytes
      /\ \A j \in Nat : i <= j /\ j < f => Peek(s, j) \in bytes
  BY <1>1, <1>2, SkipTo
<1>4. ~(f < e) /\ ~(e < f)
  BY <1>3
<1> QED
  BY <1>1, <1>3, <1>4

LEMMA NotSets == AtEnd \notin WhiteSpace /\ AtEnd \notin Digits
  BY SMT DEF AtEnd, WhiteSpace, Digits

(* The first and the last byte that are no white space. *)
First(s) == SkipWhitespace(s, 1)
Last(s) == Max({i \in DOMAIN s : s[i] \notin WhiteSpace})

LEMMA BareIs ==
    ASSUME NEW s \in Bytes
    PROVE  /\ First(s) \in Nat \ {0} /\ First(s) <= Len(s) + 1
           /\ First(s) = Len(s) + 1 => Bare(s) = <<>>
           /\ First(s) <= Len(s) =>
                  /\ s[First(s)] \notin WhiteSpace
                  /\ Last(s) \in Nat /\ First(s) <= Last(s) /\ Last(s) <= Len(s)
                  /\ s[Last(s)] \notin WhiteSpace
                  /\ \A j \in Nat : Last(s) < j /\ j <= Len(s) => s[j] \in WhiteSpace
                  /\ Bare(s) = SubSeq(s, First(s), Last(s))
<1>0. Len(s) \in Nat /\ DOMAIN s = 1 .. Len(s)
  BY OfBytes
<1>1. PICK lo : lo = First(s)
  OBVIOUS
<1>2. /\ lo \in Nat \ {0} /\ lo <= Len(s) + 1 /\ Peek(s, lo) \notin WhiteSpace
      /\ \A j \in Nat : 1 <= j /\ j < lo => Peek(s, j) \in WhiteSpace
  <2>1. 1 \in Nat \ {0} /\ 1 <= Len(s) + 1
    BY <1>0
  <2>2. /\ lo \in Nat /\ 1 <= lo /\ lo <= Len(s) + 1 /\ Peek(s, lo) \notin WhiteSpace
        /\ \A j \in Nat : 1 <= j /\ j < lo => Peek(s, j) \in WhiteSpace
    BY <1>1, <2>1, NotSets, SkipTo DEF First, SkipWhitespace
  <2> QED
    BY <2>2
<1>3. \A j \in 1 .. Len(s) : Peek(s, j) = s[j]
  <2>1. ASSUME NEW j \in 1 .. Len(s) PROVE Peek(s, j) = s[j]
    <3>1. j \in Nat \ {0} /\ j <= Len(s)
      BY <1>0
    <3> QED
      BY <3>1, PeekIs
  <2> QED
    BY <2>1
<1>4. PICK inner : inner = {i \in DOMAIN s : s[i] \notin WhiteSpace}
  OBVIOUS
<1>5. Bare(s) = IF inner = {} THEN <<>> ELSE SubSeq(s, Min(inner), Max(inner))
  BY <1>4, Zenon DEF Bare
<1>6. \A j : j \in inner <=> j \in 1 .. Len(s) /\ Peek(s, j) \notin WhiteSpace
  BY <1>0, <1>3, <1>4
<1>7. CASE lo = Len(s) + 1
  <2>1. \A j \in 1 .. Len(s) : Peek(s, j) \in WhiteSpace
    BY <1>0, <1>2, <1>7
  <2>2. inner = {}
    BY <1>6, <2>1, Zenon
  <2>3. ~(lo <= Len(s))
    BY <1>0, <1>7
  <2> QED
    BY <1>1, <1>2, <1>5, <2>2, <2>3
<1>8. CASE lo # Len(s) + 1
  <2>1. lo \in 1 .. Len(s)
    BY <1>0, <1>2, <1>8
  <2>2. lo \in inner
    BY <1>2, <1>6, <2>1
  <2>3. Min(inner) = lo
    <3>1. inner \subseteq Nat /\ inner # {}
      BY <1>0, <1>6, <2>2
    <3>2. Min(inner) \in inner /\ \A x \in inner : Min(inner) <= x
      BY <3>1, LeastOf
    <3>3. PICK n : n = Min(inner)
      OBVIOUS
    <3>4. n \in Nat /\ 1 <= n /\ n <= lo /\ Peek(s, n) \notin WhiteSpace
      BY <1>6, <2>2, <3>2, <3>3
    <3>5. ~(n < lo)
      BY <1>2, <3>4
    <3> QED
      BY <1>2, <3>3, <3>4, <3>5
  <2>4. PICK hi : hi = Max(inner)
    OBVIOUS
  <2>5. hi \in inner /\ \A x \in inner : x <= hi
    <3>1. PICK N : N = Len(s)
      OBVIOUS
    <3>2. N \in Nat /\ inner \subseteq 0 .. N /\ inner # {}
      BY <1>0, <1>6, <2>2, <3>1
    <3> QED
      BY <2>4, <3>2, GreatestOf
  <2>6. hi \in Nat /\ lo <= hi /\ hi <= Len(s) /\ Peek(s, hi) \notin WhiteSpace
    BY <1>6, <2>2, <2>5
  <2>7. hi = Last(s)
    BY <1>4, <2>4 DEF Last
  <2>8. ASSUME NEW j \in Nat, hi < j, j <= Len(s) PROVE s[j] \in WhiteSpace
    <3>1. j \in 1 .. Len(s)
      BY <1>0, <2>6, <2>8
    <3>2. j \notin inner
      BY <1>0, <2>5, <2>6, <2>8
    <3> QED
      BY <1>3, <1>6, <3>1, <3>2
  <2>9. Peek(s, lo) = s[lo] /\ Peek(s, hi) = s[hi]
    <3>1. hi \in 1 .. Len(s)
      BY <1>0, <1>2, <2>6
    <3> QED
      BY <1>3, <2>1, <3>1
  <2>10. Bare(s) = SubSeq(s, lo, hi)
    BY <1>5, <2>2, <2>3, <2>4
  <2> QED
    BY <1>1, <1>2, <1>8, <2>1, <2>6, <2>7, <2>8, <2>9, <2>10
<1> QED
  BY <1>7, <1>8

(* Behind a place there is white space only, or the text goes on. *)
LEMMA WholeIs ==
    ASSUME NEW s \in Bytes, First(s) <= Len(s), NEW e \in Nat, First(s) < e, e <= Len(s) + 1
    PROVE  /\ SkipWhitespace(s, e) \in Nat /\ e <= SkipWhitespace(s, e) /\ SkipWhitespace(s, e) <= Len(s) + 1
           /\ SkipWhitespace(s, e) = Len(s) + 1 => Last(s) < e
           /\ SkipWhitespace(s, e) # Len(s) + 1 => Last(s) >= e
           /\ Peek(s, SkipWhitespace(s, e)) = AtEnd <=> SkipWhitespace(s, e) = Len(s) + 1
<1>0. Len(s) \in Nat /\ First(s) \in Nat \ {0}
  BY OfBytes, BareIs
<1>1. PICK f : f = SkipWhitespace(s, e)
  OBVIOUS
<1>2. e \in Nat \ {0}
  BY <1>0
<1>3. /\ f \in Nat /\ e <= f /\ f <= Len(s) + 1 /\ Peek(s, f) \notin WhiteSpace
      /\ \A j \in Nat : e <= j /\ j < f => j <= Len(s) /\ Peek(s, j) \in WhiteSpace
  BY <1>1, <1>2, NotSets, SkipTo DEF SkipWhitespace
<1>4. PICK hi : hi = Last(s)
  OBVIOUS
<1>5. /\ hi \in Nat \ {0} /\ hi <= Len(s) /\ s[hi] \notin WhiteSpace
      /\ \A j \in Nat : hi < j /\ j <= Len(s) => s[j] \in WhiteSpace
  <2>1. /\ hi \in Nat /\ First(s) <= hi /\ hi <= Len(s) /\ s[hi] \notin WhiteSpace
        /\ \A j \in Nat : hi < j /\ j <= Len(s) => s[j] \in WhiteSpace
    BY <1>4, BareIs
  <2> QED
    BY <1>0, <2>1
<1>6. Peek(s, hi) \notin WhiteSpace
  BY <1>5, PeekIs
<1>7. f = Len(s) + 1 => hi < e
  BY <1>0, <1>3, <1>5, <1>6
<1>8. ASSUME f # Len(s) + 1 PROVE hi >= e
  <2>1. f \in Nat \ {0} /\ f <= Len(s)
    BY <1>0, <1>2, <1>3, <1>8
  <2>2. Peek(s, f) = s[f]
    BY <2>1, PeekIs
  <2>3. ~(hi < f)
    BY <1>3, <1>5, <2>1, <2>2
  <2> QED
    BY <1>3, <1>5, <2>3
<1>9. Peek(s, f) = AtEnd <=> f = Len(s) + 1
  <2>1. f \in Nat \ {0}
    BY <1>2, <1>3
  <2>2. /\ Peek(s, f) \in Int /\ (Peek(s, f) >= 0 <=> f <= Len(s)) /\ (~(f <= Len(s)) => Peek(s, f) = -1)
    BY <2>1, PeekIs
  <2> QED
    BY <1>0, <1>3, <2>2 DEF AtEnd
<1> QED
  BY <1>1, <1>3, <1>4, <1>7, <1>8, <1>9

-----------------------------------------------------------------------------
(* Digits from i on, and up to the place before e. *)
DigitRun(s, i, e) == i < e /\ e <= Len(s) + 1 /\ \A j \in Nat : i <= j /\ j < e => Peek(s, j) \in Digits

LEMMA DigitIs ==
    ASSUME NEW x \in Int
    PROVE  x \in Digits <=> 48 <= x /\ x <= 57
  BY SMT DEF Digits

LEMMA Consumed ==
    ASSUME NEW s \in Bytes, NEW i \in Nat \ {0}, i <= Len(s) + 1
    PROVE  /\ ConsumeDigits(s, i) \in Nat
           /\ ConsumeDigits(s, i) # 0 => DigitRun(s, i, ConsumeDigits(s, i)) /\ Peek(s, ConsumeDigits(s, i)) \notin Digits
           /\ ConsumeDigits(s, i) = 0 => Peek(s, i) \notin Digits
<1>1. PICK e : e = SkipAll(s, i, Digits)
  OBVIOUS
<1>2. /\ e \in Nat /\ i <= e /\ e <= Len(s) + 1 /\ Peek(s, e) \notin Digits
      /\ \A j \in Nat : i <= j /\ j < e => j <= Len(s) /\ Peek(s, j) \in Digits
  BY <1>1, NotSets, SkipTo
<1>3. ConsumeDigits(s, i) = IF e > i THEN e ELSE 0
  BY <1>1 DEF ConsumeDigits
<1>4. CASE e > i
  <2>1. ConsumeDigits(s, i) = e /\ e # 0
    BY <1>2, <1>3, <1>4
  <2>2. DigitRun(s, i, e)
    BY <1>2, <1>4 DEF DigitRun
  <2> QED
    BY <1>2, <2>1, <2>2
<1>5. CASE ~(e > i)
  <2>1. ConsumeDigits(s, i) = 0 /\ e = i
    BY <1>2, <1>3, <1>5
  <2> QED
    BY <1>2, <2>1
<1> QED
  BY <1>4, <1>5

LEMMA ConsumedIs ==
    ASSUME NEW s \in Bytes, NEW i \in Nat \ {0}, NEW e \in Nat, DigitRun(s, i, e), Peek(s, e) \notin Digits
    PROVE  ConsumeDigits(s, i) = e
<1>1. i <= e /\ i < e /\ e <= Len(s) + 1 /\ \A j \in Nat : i <= j /\ j < e => Peek(s, j) \in Digits
  BY DEF DigitRun
<1>2. SkipAll(s, i, Digits) = e
  BY <1>1, NotSets, SkipIs
<1> QED
  BY <1>1, <1>2 DEF ConsumeDigits

LEMMA DigitsOf ==
    ASSUME NEW s \in Bytes, NEW i \in Nat \ {0}, NEW e \in Nat, i <= e, e <= Len(s) + 1
    PROVE  IsDigits(SubSeq(s, i, e - 1)) <=> DigitRun(s, i, e)
<1>1. PICK u : u = SubSeq(s, i, e - 1)
  OBVIOUS
<1>2. u \in Bytes /\ Len(u) = e - i /\ DOMAIN u = 1 .. e - i /\ \A k \in 1 .. e - i : u[k] = s[i + k - 1]
  <2>1. e - 1 \in Int /\ i - 1 <= e - 1 /\ e - 1 <= Len(s) /\ (e - 1) - i + 1 = e - i
    BY OfBytes
  <2>2. u \in Bytes /\ Len(u) = e - i /\ \A k \in 1 .. e - i : u[k] = s[i + k - 1]
    BY <1>1, <2>1, Stretch
  <2> QED
    BY <2>2, OfBytes
<1>3. u # <<>> <=> i < e
  BY <1>2
<1>4. ASSUME NEW k \in 1 .. e - i PROVE u[k] = Peek(s, i + k - 1) /\ i + k - 1 \in Nat /\ i <= i + k - 1 /\ i + k - 1 < e
  <2>1. i + k - 1 \in Nat \ {0} /\ i + k - 1 <= Len(s)
    BY OfBytes
  <2>2. Peek(s, i + k - 1) = s[i + k - 1]
    BY <2>1, PeekIs
  <2> QED
    BY <1>2, <2>1, <2>2
<1>5. ASSUME NEW j \in Nat, i <= j, j < e PROVE j - i + 1 \in 1 .. e - i /\ i + (j - i + 1) - 1 = j
  BY <1>5
<1>6. (\A k \in DOMAIN u : u[k] \in Digits) <=> (\A j \in Nat : i <= j /\ j < e => Peek(s, j) \in Digits)
  <2>1. ASSUME \A k \in DOMAIN u : u[k] \in Digits, NEW j \in Nat, i <= j, j < e PROVE Peek(s, j) \in Digits
    <3>1. PICK k : k = j - i + 1
      OBVIOUS
    <3>2. k \in 1 .. e - i /\ i + k - 1 = j
      BY <1>5, <2>1, <3>1
    <3>3. u[k] = Peek(s, i + k - 1)
      BY <1>4, <3>2
    <3> QED
      BY <1>2, <2>1, <3>2, <3>3
  <2>2. ASSUME \A j \in Nat : i <= j /\ j < e => Peek(s, j) \in Digits, NEW k \in DOMAIN u PROVE u[k] \in Digits
    <3>1. k \in 1 .. e - i
      BY <1>2
    <3> QED
      BY <1>4, <2>2, <3>1
  <2> QED
    BY <2>1, <2>2
<1> QED
  BY <1>1, <1>3, <1>6 DEF IsDigits, DigitRun

(* A stretch of a stretch. *)
LEMMA StretchOf ==
    ASSUME NEW s \in Bytes, NEW lo \in Nat \ {0}, NEW hi \in Nat, lo - 1 <= hi, hi <= Len(s),
           NEW a \in Nat \ {0}, NEW b \in Int, a - 1 <= b, b <= hi - lo + 1
    PROVE  SubSeq(SubSeq(s, lo, hi), a, b) = SubSeq(s, lo + a - 1, lo + b - 1)
<1>1. PICK m, n : m = hi - lo + 1 /\ n = b - a + 1
  OBVIOUS
<1>2. /\ m \in Nat /\ n \in Nat /\ lo + m - 1 <= Len(s) /\ a + n - 1 <= m
      /\ lo + m - 1 = hi /\ a + n - 1 = b /\ (lo + a - 1) + n - 1 = lo + b - 1
  BY <1>1
<1>3. SubSeq(SubSeq(s, lo, lo + m - 1), a, a + n - 1) = SubSeq(s, (lo + a - 1), (lo + a - 1) + n - 1)
  BY <1>2, PartOfPart
<1> QED
  BY <1>2, <1>3, Zenon

LEMMA TailOf ==
    ASSUME NEW s \in Bytes, NEW i \in Nat \ {0}, NEW j \in Nat, i <= j, j <= Len(s)
    PROVE  Tail(SubSeq(s, i, j)) = SubSeq(s, i + 1, j)
<1>1. PICK u, v : u = SubSeq(s, i, j) /\ v = SubSeq(s, i + 1, j)
  OBVIOUS
<1>2. u \in Bytes /\ Len(u) = j - i + 1 /\ \A k \in 1 .. j - i + 1 : u[k] = s[i + k - 1]
  <2>1. i - 1 <= j /\ j \in Int
    OBVIOUS
  <2> QED
    BY <1>1, <2>1, Stretch
<1>3. v \in Bytes /\ Len(v) = j - i /\ \A k \in 1 .. j - i : v[k] = s[(i + 1) + k - 1]
  <2>1. i + 1 \in Nat \ {0} /\ j \in Int /\ (i + 1) - 1 <= j /\ j - (i + 1) + 1 = j - i
    OBVIOUS
  <2> QED
    BY <1>1, <2>1, Stretch
<1>4. Tail(u) \in Bytes /\ Len(Tail(u)) = j - i /\ \A k \in 1 .. j - i : Tail(u)[k] = u[k + 1]
  <2>1. PICK B : B = 0 .. 255
    OBVIOUS
  <2>2. u \in Seq(B)
    BY <1>2, <2>1 DEF Bytes
  <2>3. u # <<>>
    BY <1>2
  <2>4. Tail(u) \in Seq(B) /\ Len(Tail(u)) = Len(u) - 1 /\ \A k \in 1 .. Len(u) - 1 : Tail(u)[k] = u[k + 1]
    BY <2>2, <2>3
  <2>5. Len(u) - 1 = j - i
    BY <1>2
  <2>6. Tail(u) \in Bytes
    BY <2>1, <2>4 DEF Bytes
  <2> QED
    BY <2>4, <2>5, <2>6
<1>5. ASSUME NEW k \in 1 .. j - i PROVE Tail(u)[k] = v[k]
  <2>1. k + 1 \in 1 .. j - i + 1 /\ i + (k + 1) - 1 = (i + 1) + k - 1
    OBVIOUS
  <2>2. u[k + 1] = s[i + (k + 1) - 1]
    BY <1>2, <2>1
  <2> QED
    BY <1>3, <1>4, <2>1, <2>2
<1>6. Tail(u) = v
  BY <1>3, <1>4, <1>5, SameBytes
<1> QED
  BY <1>1, <1>6

-----------------------------------------------------------------------------
(* The parts of a number, by the places at which they begin. *)
Parts(s, lo, hi, a, b, c) ==
    /\ lo <= a /\ a < b /\ b <= c /\ c <= hi + 1
    /\ a = lo \/ (a = lo + 1 /\ Peek(s, lo) = Minus)
    /\ DigitRun(s, a, b) /\ (Peek(s, a) = Zero => b = a + 1)
    /\ c = b \/ (Peek(s, b) = Point /\ DigitRun(s, b + 1, c))
    /\ \/ c = hi + 1
       \/ /\ Peek(s, c) \in Exponents
          /\ \/ DigitRun(s, c + 1, hi + 1)
             \/ Peek(s, c + 1) \in {Plus, Minus} /\ DigitRun(s, c + 2, hi + 1)

LEMMA SignIs ==
    ASSUME NEW s \in Bytes, NEW lo \in Nat \ {0}, NEW a \in Nat, lo <= a, a <= Len(s) + 1
    PROVE  SubSeq(s, lo, a - 1) \in Sign <=> a = lo \/ (a = lo + 1 /\ Peek(s, lo) = Minus)
<1>1. PICK u : u = SubSeq(s, lo, a - 1)
  OBVIOUS
<1>2. u \in Bytes /\ Len(u) = a - lo /\ \A k \in 1 .. a - lo : u[k] = s[lo + k - 1]
  <2>1. a - 1 \in Int /\ lo - 1 <= a - 1 /\ a - 1 <= Len(s) /\ (a - 1) - lo + 1 = a - lo
    BY OfBytes
  <2> QED
    BY <1>1, <2>1, Stretch
<1>3. CASE a = lo
  <2>1. Len(u) = 0
    BY <1>2, <1>3
  <2>2. u = <<>>
    BY <1>2, <2>1 DEF Bytes
  <2> QED
    BY <1>1, <1>3, <2>2 DEF Sign
<1>4. CASE a = lo + 1
  <2>1. Len(u) = 1 /\ u[1] = s[lo] /\ Peek(s, lo) = s[lo]
    <3>1. 1 \in 1 .. a - lo /\ lo + 1 - 1 = lo /\ lo <= Len(s) /\ a - lo = 1
      BY <1>4, OfBytes
    <3>2. u[1] = s[lo + 1 - 1]
      BY <1>2, <3>1
    <3> QED
      BY <1>2, <3>1, <3>2, PeekIs
  <2>2. u \in Sign <=> u[1] = Minus
    <3>1. u # <<>>
      BY <2>1
    <3>2. <<Minus>>[1] = Minus
      OBVIOUS
    <3>3. u[1] = Minus => u = <<Minus>>
      BY <1>2, <2>1 DEF Bytes
    <3> QED
      BY <3>1, <3>2, <3>3 DEF Sign
  <2> QED
    BY <1>1, <1>4, <2>1, <2>2
<1>5. CASE a # lo /\ a # lo + 1
  <2>1. Len(u) # 0 /\ Len(u) # 1
    BY <1>2, <1>5
  <2>2. Len(<<>>) = 0 /\ Len(<<Minus>>) = 1
    OBVIOUS
  <2>3. u \notin Sign
    BY <2>1, <2>2 DEF Sign
  <2> QED
    BY <1>1, <1>5, <2>3
<1> QED
  BY <1>3, <1>4, <1>5

LEMMA IntegerIs ==
    ASSUME NEW s \in Bytes, NEW a \in Nat \ {0}, NEW b \in Nat, a <= b, b <= Len(s) + 1
    PROVE  IsInteger(SubSeq(s, a, b - 1)) <=> DigitRun(s, a, b) /\ (Peek(s, a) = Zero => b = a + 1)
<1>1. PICK u : u = SubSeq(s, a, b - 1)
  OBVIOUS
<1>2. u \in Bytes /\ Len(u) = b - a /\ \A k \in 1 .. b - a : u[k] = s[a + k - 1]
  <2>1. b - 1 \in Int /\ a - 1 <= b - 1 /\ b - 1 <= Len(s) /\ (b - 1) - a + 1 = b - a
    BY OfBytes
  <2> QED
    BY <1>1, <2>1, Stretch
<1>3. IsDigits(u) <=> DigitRun(s, a, b)
  BY <1>1, DigitsOf
<1>4. ASSUME a < b PROVE u[1] = Peek(s, a)
  <2>1. 1 \in 1 .. b - a /\ a + 1 - 1 = a /\ a <= Len(s)
    BY <1>4, OfBytes
  <2>2. u[1] = s[a + 1 - 1]
    BY <1>2, <2>1
  <2> QED
    BY <2>1, <2>2, PeekIs
<1>5. DigitRun(s, a, b) => a < b
  BY DEF DigitRun
<1>6. Len(u) = 1 <=> b = a + 1
  BY <1>2
<1> QED
  BY <1>1, <1>3, <1>4, <1>5, <1>6 DEF IsInteger

LEMMA FractionIs ==
    ASSUME NEW s \in Bytes, NEW b \in Nat \ {0}, NEW c \in Nat, b <= c, c <= Len(s) + 1
    PROVE  IsFraction(SubSeq(s, b, c - 1)) <=> c = b \/ (Peek(s, b) = Point /\ DigitRun(s, b + 1, c))
<1>1. PICK u : u = SubSeq(s, b, c - 1)
  OBVIOUS
<1>2. u \in Bytes /\ Len(u) = c - b /\ \A k \in 1 .. c - b : u[k] = s[b + k - 1]
  <2>1. c - 1 \in Int /\ b - 1 <= c - 1 /\ c - 1 <= Len(s) /\ (c - 1) - b + 1 = c - b
    BY OfBytes
  <2> QED
    BY <1>1, <2>1, Stretch
<1>3. CASE b = c
  <2>1. u = <<>>
    BY <1>2, <1>3 DEF Bytes
  <2> QED
    BY <1>1, <1>3, <2>1 DEF IsFraction
<1>4. CASE b < c
  <2>1. u # <<>> /\ u[1] = Peek(s, b)
    <3>1. 1 \in 1 .. c - b /\ b + 1 - 1 = b /\ b <= Len(s)
      BY <1>4, OfBytes
    <3>2. u[1] = s[b + 1 - 1]
      BY <1>2, <3>1
    <3>3. Peek(s, b) = s[b]
      BY <3>1, PeekIs
    <3>4. Len(u) # 0 /\ Len(<<>>) = 0
      BY <1>2, <1>4
    <3>5. u # <<>>
      BY <3>4
    <3> QED
      BY <3>1, <3>2, <3>3, <3>5
  <2>2. IsDigits(Tail(u)) <=> DigitRun(s, b + 1, c)
    <3>1. c - 1 \in Nat /\ b <= c - 1 /\ c - 1 <= Len(s) /\ b + 1 \in Nat \ {0} /\ b + 1 <= c
      BY <1>4, OfBytes
    <3>2. Tail(u) = SubSeq(s, b + 1, c - 1)
      BY <1>1, <3>1, TailOf
    <3> QED
      BY <3>1, <3>2, DigitsOf
  <2> QED
    BY <1>1, <1>4, <2>1, <2>2 DEF IsFraction
<1> QED
  BY <1>3, <1>4

LEMMA ExponentIs ==
    ASSUME NEW s \in Bytes, NEW c \in Nat \ {0}, NEW hi \in Nat, c <= hi + 1, hi <= Len(s)
    PROVE  IsExponent(SubSeq(s, c, hi)) <=>
               \/ c = hi + 1
               \/ /\ Peek(s, c) \in Exponents
                  /\ \/ DigitRun(s, c + 1, hi + 1)
                     \/ Peek(s, c + 1) \in {Plus, Minus} /\ DigitRun(s, c + 2, hi + 1)
<1>1. PICK u : u = SubSeq(s, c, hi)
  OBVIOUS
<1>2. u \in Bytes /\ Len(u) = hi - c + 1 /\ \A k \in 1 .. hi - c + 1 : u[k] = s[c + k - 1]
  <2>1. hi \in Int /\ c - 1 <= hi
    OBVIOUS
  <2> QED
    BY <1>1, <2>1, Stretch
<1>3. CASE c = hi + 1
  <2>1. u = <<>>
    BY <1>2, <1>3 DEF Bytes
  <2> QED
    BY <1>1, <1>3, <2>1 DEF IsExponent
<1>4. CASE c <= hi
  <2>1. u # <<>> /\ u[1] = Peek(s, c)
    <3>1. 1 \in 1 .. hi - c + 1 /\ c + 1 - 1 = c /\ c <= Len(s)
      BY <1>4, OfBytes
    <3>2. u[1] = s[c + 1 - 1]
      BY <1>2, <3>1
    <3>3. Peek(s, c) = s[c]
      BY <3>1, PeekIs
    <3>4. Len(u) # 0 /\ Len(<<>>) = 0
      BY <1>2, <1>4
    <3>5. u # <<>>
      BY <3>4
    <3> QED
      BY <3>1, <3>2, <3>3, <3>5
  <2>2. ASSUME NEW n \in {2, 3}, n <= Len(u) PROVE IsDigits(SubSeq(u, n, Len(u))) <=> DigitRun(s, c + n - 1, hi + 1)
    <3>1. /\ n \in Nat \ {0} /\ Len(u) \in Int /\ n - 1 <= Len(u) /\ Len(u) <= hi - c + 1
          /\ c - 1 <= hi /\ c + Len(u) - 1 = hi /\ c + n - 1 \in Nat \ {0} /\ c + n - 1 <= hi + 1
          /\ (hi + 1) - 1 = hi /\ hi + 1 \in Nat /\ hi + 1 <= Len(s) + 1
      BY <1>2, <1>4, <2>2, OfBytes
    <3>2. PICK N : N = Len(u)
      OBVIOUS
    <3>3. SubSeq(SubSeq(s, c, hi), n, N) = SubSeq(s, c + n - 1, c + N - 1)
      BY <3>1, <3>2, StretchOf
    <3>4. SubSeq(u, n, Len(u)) = SubSeq(s, c + n - 1, (hi + 1) - 1)
      BY <1>1, <3>1, <3>2, <3>3, Zenon
    <3>5. IsDigits(SubSeq(s, c + n - 1, (hi + 1) - 1)) <=> DigitRun(s, c + n - 1, hi + 1)
      BY <3>1, DigitsOf
    <3> QED
      BY <3>4, <3>5
  <2>3. ASSUME NEW n \in {2, 3}, DigitRun(s, c + n - 1, hi + 1) PROVE n <= Len(u)
    BY <1>2, <2>3 DEF DigitRun
  <2>4. ASSUME 2 <= Len(u) PROVE u[2] = Peek(s, c + 1)
    <3>1. 2 \in 1 .. hi - c + 1 /\ c + 2 - 1 = c + 1 /\ c + 1 <= Len(s) /\ c + 1 \in Nat \ {0}
      BY <1>2, <2>4, OfBytes
    <3>2. u[2] = s[c + 2 - 1]
      BY <1>2, <3>1
    <3> QED
      BY <3>1, <3>2, PeekIs
  <2>5. c + 2 - 1 = c + 1 /\ c + 3 - 1 = c + 2
    OBVIOUS
  <2>6. (\E n \in {2, 3} : /\ n <= Len(u) /\ IsDigits(SubSeq(u, n, Len(u)))
                           /\ n = 3 => u[2] \in {Plus, Minus})
            <=> \/ DigitRun(s, c + 1, hi + 1)
                \/ Peek(s, c + 1) \in {Plus, Minus} /\ DigitRun(s, c + 2, hi + 1)
    <3>1. 2 <= Len(u) /\ IsDigits(SubSeq(u, 2, Len(u))) <=> DigitRun(s, c + 1, hi + 1)
      <4>1. 2 \in {2, 3}
        OBVIOUS
      <4> QED
        BY <2>2, <2>3, <2>5, <4>1
    <3>2. 3 <= Len(u) /\ IsDigits(SubSeq(u, 3, Len(u))) <=> DigitRun(s, c + 2, hi + 1)
      <4>1. 3 \in {2, 3}
        OBVIOUS
      <4> QED
        BY <2>2, <2>3, <2>5, <4>1
    <3>3. DigitRun(s, c + 2, hi + 1) => u[2] = Peek(s, c + 1)
      <4>1. 3 <= Len(u) => 2 <= Len(u)
        BY <1>2
      <4> QED
        BY <2>4, <3>2, <4>1
    <3> QED
      BY <3>1, <3>2, <3>3
  <2>7. ~(c = hi + 1)
    BY <1>4
  <2> QED
    BY <1>1, <2>1, <2>6, <2>7 DEF IsExponent
<1> QED
  BY <1>3, <1>4

CutAt(u, a, b, c) ==
    /\ SubSeq(u, 1, a - 1) \in Sign
    /\ IsInteger(SubSeq(u, a, b - 1))
    /\ IsFraction(SubSeq(u, b, c - 1))
    /\ IsExponent(SubSeq(u, c, Len(u)))

(* A stretch is a number when it has the parts of one. *)
LEMMA NumberParts ==
    ASSUME NEW s \in Bytes, NEW lo \in Nat \ {0}, NEW hi \in Nat, lo <= hi, hi <= Len(s)
    PROVE  IsNumber(SubSeq(s, lo, hi)) <=> \E a, b, c \in Nat : Parts(s, lo, hi, a, b, c)
<1>0. Len(s) \in Nat
  BY OfBytes
<1>1. PICK u, n : u = SubSeq(s, lo, hi) /\ n = Len(u)
  OBVIOUS
<1>2. n = hi - lo + 1 /\ n \in Nat
  <2>1. lo - 1 <= hi /\ hi \in Int
    OBVIOUS
  <2> QED
    BY <1>1, <2>1, Stretch
<1>3. ASSUME NEW a \in 1 .. n + 1, NEW b \in a .. n + 1, NEW c \in b .. n + 1,
             NEW A, NEW B, NEW C, A = lo + a - 1, B = lo + b - 1, C = lo + c - 1
      PROVE  CutAt(u, a, b, c) <=> Parts(s, lo, hi, A, B, C)
  <2>1. /\ A \in Nat \ {0} /\ B \in Nat \ {0} /\ C \in Nat \ {0}
        /\ lo <= A /\ A <= B /\ B <= C /\ C <= hi + 1
        /\ A <= Len(s) + 1 /\ B <= Len(s) + 1 /\ C <= Len(s) + 1
    BY <1>0, <1>2, <1>3
  <2>2. SubSeq(u, 1, a - 1) = SubSeq(s, lo, A - 1)
    <3>1. /\ 1 \in Nat \ {0} /\ a - 1 \in Int /\ 1 - 1 <= a - 1 /\ a - 1 <= hi - lo + 1
          /\ lo + 1 - 1 = lo /\ lo + (a - 1) - 1 = A - 1 /\ lo - 1 <= hi
      BY <1>2, <1>3
    <3>2. SubSeq(SubSeq(s, lo, hi), 1, a - 1) = SubSeq(s, lo + 1 - 1, lo + (a - 1) - 1)
      BY <3>1, StretchOf
    <3> QED
      BY <1>1, <3>1, <3>2, Zenon
  <2>3. SubSeq(u, a, b - 1) = SubSeq(s, A, B - 1)
    <3>1. /\ a \in Nat \ {0} /\ b - 1 \in Int /\ a - 1 <= b - 1 /\ b - 1 <= hi - lo + 1
          /\ lo + (b - 1) - 1 = B - 1 /\ lo - 1 <= hi
      BY <1>2, <1>3
    <3>2. SubSeq(SubSeq(s, lo, hi), a, b - 1) = SubSeq(s, lo + a - 1, lo + (b - 1) - 1)
      BY <3>1, StretchOf
    <3> QED
      BY <1>1, <1>3, <3>1, <3>2, Zenon
  <2>4. SubSeq(u, b, c - 1) = SubSeq(s, B, C - 1)
    <3>1. /\ b \in Nat \ {0} /\ c - 1 \in Int /\ b - 1 <= c - 1 /\ c - 1 <= hi - lo + 1
          /\ lo + (c - 1) - 1 = C - 1 /\ lo - 1 <= hi
      BY <1>2, <1>3
    <3>2. SubSeq(SubSeq(s, lo, hi), b, c - 1) = SubSeq(s, lo + b - 1, lo + (c - 1) - 1)
      BY <3>1, StretchOf
    <3> QED
      BY <1>1, <1>3, <3>1, <3>2, Zenon
  <2>5. SubSeq(u, c, Len(u)) = SubSeq(s, C, hi)
    <3>1. /\ c \in Nat \ {0} /\ n \in Int /\ c - 1 <= n /\ n <= hi - lo + 1 /\ lo + n - 1 = hi /\ lo - 1 <= hi
      BY <1>2, <1>3
    <3>2. SubSeq(SubSeq(s, lo, hi), c, n) = SubSeq(s, lo + c - 1, lo + n - 1)
      BY <3>1, StretchOf
    <3> QED
      BY <1>1, <1>3, <3>1, <3>2, Zenon
  <2>6. SubSeq(s, lo, A - 1) \in Sign <=> A = lo \/ (A = lo + 1 /\ Peek(s, lo) = Minus)
    BY <2>1, SignIs
  <2>7. IsInteger(SubSeq(s, A, B - 1)) <=> DigitRun(s, A, B) /\ (Peek(s, A) = Zero => B = A + 1)
    BY <2>1, IntegerIs
  <2>8. IsFraction(SubSeq(s, B, C - 1)) <=> C = B \/ (Peek(s, B) = Point /\ DigitRun(s, B + 1, C))
    BY <2>1, FractionIs
  <2>9. IsExponent(SubSeq(s, C, hi)) <=>
            \/ C = hi + 1
            \/ /\ Peek(s, C) \in Exponents
               /\ \/ DigitRun(s, C + 1, hi + 1)
                  \/ Peek(s, C + 1) \in {Plus, Minus} /\ DigitRun(s, C + 2, hi + 1)
    BY <2>1, ExponentIs
  <2>10. DigitRun(s, A, B) => A < B
    BY DEF DigitRun
  <2> QED
    <3>1. SubSeq(u, 1, a - 1) \in Sign <=> A = lo \/ (A = lo + 1 /\ Peek(s, lo) = Minus)
      BY <2>2, <2>6, Zenon
    <3>2. IsInteger(SubSeq(u, a, b - 1)) <=> DigitRun(s, A, B) /\ (Peek(s, A) = Zero => B = A + 1)
      BY <2>3, <2>7, Zenon
    <3>3. IsFraction(SubSeq(u, b, c - 1)) <=> C = B \/ (Peek(s, B) = Point /\ DigitRun(s, B + 1, C))
      BY <2>4, <2>8, Zenon
    <3>4. IsExponent(SubSeq(u, c, Len(u))) <=>
              \/ C = hi + 1
              \/ /\ Peek(s, C) \in Exponents
                 /\ \/ DigitRun(s, C + 1, hi + 1)
                    \/ Peek(s, C + 1) \in {Plus, Minus} /\ DigitRun(s, C + 2, hi + 1)
      BY <2>5, <2>9, Zenon
    <3>5. DigitRun(s, A, B) => A < B
      BY <2>10
    <3> QED
      BY <2>1, <3>1, <3>2, <3>3, <3>4, <3>5 DEF Parts, CutAt
<1>4. ASSUME IsNumber(u) PROVE \E a, b, c \in Nat : Parts(s, lo, hi, a, b, c)
  <2>1. PICK a \in 1 .. n + 1 : \E b \in a .. n + 1 : \E c \in b .. n + 1 : CutAt(u, a, b, c)
    BY <1>1, <1>4, Zenon DEF IsNumber, CutAt
  <2>2. PICK b \in a .. n + 1 : \E c \in b .. n + 1 : CutAt(u, a, b, c)
    BY <2>1, Zenon
  <2>3. PICK c \in b .. n + 1 : CutAt(u, a, b, c)
    BY <2>2, Zenon
  <2>4. PICK A, B, C : A = lo + a - 1 /\ B = lo + b - 1 /\ C = lo + c - 1
    OBVIOUS
  <2>5. Parts(s, lo, hi, A, B, C)
    BY <1>3, <2>3, <2>4, Zenon
  <2>6. A \in Nat /\ B \in Nat /\ C \in Nat
    BY <1>2, <2>4
  <2> QED
    BY <2>5, <2>6, Zenon
<1>5. ASSUME NEW A \in Nat, NEW B \in Nat, NEW C \in Nat, Parts(s, lo, hi, A, B, C) PROVE IsNumber(u)
  <2>1. lo <= A /\ A < B /\ B <= C /\ C <= hi + 1
    BY <1>5 DEF Parts
  <2>2. PICK a, b, c : a = A - lo + 1 /\ b = B - lo + 1 /\ c = C - lo + 1
    OBVIOUS
  <2>3. a \in 1 .. n + 1 /\ b \in a .. n + 1 /\ c \in b .. n + 1 /\ A = lo + a - 1 /\ B = lo + b - 1 /\ C = lo + c - 1
    BY <1>2, <2>1, <2>2
  <2>4. CutAt(u, a, b, c)
    BY <1>3, <1>5, <2>3, Zenon
  <2> QED
    BY <1>1, <2>3, <2>4, Zenon DEF IsNumber, CutAt
<1> QED
  BY <1>1, <1>4, <1>5, Zenon

(* No byte is of two kinds. *)
LEMMA KindsApart ==
    ASSUME NEW x
    PROVE  /\ x \in Digits => x # Minus /\ x # Plus /\ x # Point /\ x \notin Exponents
           /\ x \in Exponents => x # Point /\ x \notin Digits
           /\ x = Point => x \notin Digits
           /\ x = Zero => x \in Digits
           /\ x \in WhiteSpace \cup {AtEnd} => x \notin Digits /\ x # Point /\ x \notin Exponents
  BY SMT DEF Digits, Minus, Plus, Point, Zero, Exponents, WhiteSpace, AtEnd

(* NumberEnd, part by part. *)
LEMMA NumberEndIs ==
    ASSUME NEW s, NEW lo
    PROVE  \E unsigned, integer, fraction :
               /\ unsigned = IF Peek(s, lo) = Minus THEN lo + 1 ELSE lo
               /\ integer = IF Peek(s, unsigned) = Zero THEN unsigned + 1 ELSE ConsumeDigits(s, unsigned)
               /\ fraction = IF Peek(s, integer) = Point THEN ConsumeDigits(s, integer + 1) ELSE integer
               /\ NumberEnd(s, lo) =
                      IF Peek(s, fraction) \notin Exponents THEN fraction
                      ELSE ConsumeDigits(s, IF Peek(s, fraction + 1) \in {Plus, Minus}
                                            THEN fraction + 2 ELSE fraction + 1)
<1>1. PICK unsigned : unsigned = IF Peek(s, lo) = Minus THEN lo + 1 ELSE lo
  OBVIOUS
<1>2. PICK integer : integer = IF Peek(s, unsigned) = Zero THEN unsigned + 1 ELSE ConsumeDigits(s, unsigned)
  OBVIOUS
<1>3. PICK fraction : fraction = IF Peek(s, integer) = Point THEN ConsumeDigits(s, integer + 1) ELSE integer
  OBVIOUS
<1> QED
  BY <1>1, <1>2, <1>3, Zenon DEF NumberEnd

(* The parser reads the whole number. *)
LEMMA NumberRead ==
    ASSUME NEW s \in Bytes, NEW lo \in Nat \ {0}, NEW hi \in Nat, lo <= hi, hi <= Len(s),
           NEW a \in Nat, NEW b \in Nat, NEW c \in Nat, Parts(s, lo, hi, a, b, c),
           Peek(s, hi + 1) \in WhiteSpace \cup {AtEnd}
    PROVE  NumberEnd(s, lo) = hi + 1
<1>1. /\ lo <= a /\ a < b /\ b <= c /\ c <= hi + 1
      /\ a = lo \/ (a = lo + 1 /\ Peek(s, lo) = Minus)
      /\ DigitRun(s, a, b) /\ (Peek(s, a) = Zero => b = a + 1)
      /\ c = b \/ (Peek(s, b) = Point /\ DigitRun(s, b + 1, c))
      /\ \/ c = hi + 1
         \/ /\ Peek(s, c) \in Exponents
            /\ \/ DigitRun(s, c + 1, hi + 1)
               \/ Peek(s, c + 1) \in {Plus, Minus} /\ DigitRun(s, c + 2, hi + 1)
  BY DEF Parts
<1>2. PICK unsigned, integer, fraction :
          /\ unsigned = IF Peek(s, lo) = Minus THEN lo + 1 ELSE lo
          /\ integer = IF Peek(s, unsigned) = Zero THEN unsigned + 1 ELSE ConsumeDigits(s, unsigned)
          /\ fraction = IF Peek(s, integer) = Point THEN ConsumeDigits(s, integer + 1) ELSE integer
          /\ NumberEnd(s, lo) =
                 IF Peek(s, fraction) \notin Exponents THEN fraction
                 ELSE ConsumeDigits(s, IF Peek(s, fraction + 1) \in {Plus, Minus}
                                       THEN fraction + 2 ELSE fraction + 1)
  BY NumberEndIs
<1>3. \A i, e \in Nat : DigitRun(s, i, e) => Peek(s, i) \in Digits
  BY DEF DigitRun
<1>4. unsigned = a
  <2>1. Peek(s, a) # Minus
    BY <1>1, <1>3, KindsApart
  <2> QED
    BY <1>1, <1>2, <2>1
<1>5. Peek(s, c) \notin Digits
  <2>1. CASE c = hi + 1
    BY <2>1, KindsApart
  <2>2. CASE c # hi + 1
    BY <1>1, <2>2, KindsApart
  <2> QED
    BY <2>1, <2>2
<1>6. Peek(s, b) \notin Digits
  <2>1. CASE c = b
    BY <1>5, <2>1
  <2>2. CASE c # b
    BY <1>1, <2>2, KindsApart
  <2> QED
    BY <2>1, <2>2
<1>7. integer = b
  <2>1. CASE Peek(s, a) = Zero
    BY <1>1, <1>2, <1>4, <2>1
  <2>2. CASE Peek(s, a) # Zero
    <3>1. a \in Nat \ {0}
      BY <1>1
    <3>2. ConsumeDigits(s, a) = b
      BY <1>1, <1>6, <3>1, ConsumedIs
    <3> QED
      BY <1>2, <1>4, <2>2, <3>2
  <2> QED
    BY <2>1, <2>2
<1>8. fraction = c
  <2>1. CASE c = b
    <3>1. Peek(s, b) # Point
      <4>1. CASE c = hi + 1
        BY <2>1, <4>1, KindsApart
      <4>2. CASE c # hi + 1
        BY <1>1, <2>1, <4>2, KindsApart
      <4> QED
        BY <4>1, <4>2
    <3> QED
      BY <1>2, <1>7, <2>1, <3>1
  <2>2. CASE c # b
    <3>1. b + 1 \in Nat \ {0} /\ DigitRun(s, b + 1, c) /\ Peek(s, b) = Point
      BY <1>1, <2>2
    <3>2. ConsumeDigits(s, b + 1) = c
      BY <1>5, <3>1, ConsumedIs
    <3> QED
      BY <1>2, <1>7, <3>1, <3>2
  <2> QED
    BY <2>1, <2>2
<1>9. CASE c = hi + 1
  <2>1. Peek(s, c) \notin Exponents
    BY <1>9, KindsApart
  <2> QED
    BY <1>2, <1>8, <1>9, <2>1
<1>10. CASE c # hi + 1
  <2>0. Peek(s, hi + 1) \notin Digits /\ Peek(s, c) \in Exponents /\ hi + 1 \in Nat
    BY <1>1, <1>10, KindsApart
  <2>1. CASE DigitRun(s, c + 1, hi + 1)
    <3>1. Peek(s, c + 1) \notin {Plus, Minus} /\ c + 1 \in Nat \ {0}
      BY <1>3, <2>0, <2>1, KindsApart
    <3>2. ConsumeDigits(s, c + 1) = hi + 1
      BY <2>0, <2>1, <3>1, ConsumedIs
    <3> QED
      BY <1>2, <1>8, <2>0, <3>1, <3>2
  <2>2. CASE Peek(s, c + 1) \in {Plus, Minus} /\ DigitRun(s, c + 2, hi + 1)
    <3>1. c + 2 \in Nat \ {0}
      OBVIOUS
    <3>2. ConsumeDigits(s, c + 2) = hi + 1
      BY <2>0, <2>2, <3>1, ConsumedIs
    <3> QED
      BY <1>2, <1>8, <2>0, <2>2, <3>2
  <2> QED
    BY <1>1, <1>10, <2>1, <2>2
<1> QED
  BY <1>9, <1>10

(* What the parser reads as a number has the parts of one. *)
LEMMA NumberFound ==
    ASSUME NEW s \in Bytes, NEW lo \in Nat \ {0}, lo <= Len(s), NumberEnd(s, lo) # 0
    PROVE  /\ NumberEnd(s, lo) \in Nat /\ lo < NumberEnd(s, lo) /\ NumberEnd(s, lo) <= Len(s) + 1
           /\ Peek(s, NumberEnd(s, lo) - 1) \in Digits
           /\ \E a, b, c \in Nat : Parts(s, lo, NumberEnd(s, lo) - 1, a, b, c)
<1>0. Len(s) \in Nat /\ DOMAIN s = 1 .. Len(s)
  BY OfBytes
<1>1. PICK a, b, c :
          /\ a = IF Peek(s, lo) = Minus THEN lo + 1 ELSE lo
          /\ b = IF Peek(s, a) = Zero THEN a + 1 ELSE ConsumeDigits(s, a)
          /\ c = IF Peek(s, b) = Point THEN ConsumeDigits(s, b + 1) ELSE b
          /\ NumberEnd(s, lo) =
                 IF Peek(s, c) \notin Exponents THEN c
                 ELSE ConsumeDigits(s, IF Peek(s, c + 1) \in {Plus, Minus} THEN c + 2 ELSE c + 1)
  BY NumberEndIs
<1>2. PICK e : e = NumberEnd(s, lo)
  OBVIOUS
<1>3. Peek(s, 0) \notin Exponents /\ Peek(s, 0) # Point
  <2>1. 0 \notin DOMAIN s
    BY <1>0
  <2>2. Peek(s, 0) = AtEnd
    BY <2>1 DEF Peek
  <2> QED
    BY <2>2, KindsApart
<1>4. \A i \in Nat \ {0} : ~(i <= Len(s)) => Peek(s, i) = AtEnd
  BY PeekIs DEF AtEnd
<1>5. \A i, f \in Nat : DigitRun(s, i, f) => i < f /\ f <= Len(s) + 1 /\ Peek(s, f - 1) \in Digits
  <2>1. ASSUME NEW i \in Nat, NEW f \in Nat, DigitRun(s, i, f)
        PROVE  i < f /\ f <= Len(s) + 1 /\ Peek(s, f - 1) \in Digits
    <3>1. i < f /\ f <= Len(s) + 1 /\ \A j \in Nat : i <= j /\ j < f => Peek(s, j) \in Digits
      BY <2>1 DEF DigitRun
    <3>2. f - 1 \in Nat /\ i <= f - 1 /\ f - 1 < f
      BY <3>1
    <3> QED
      BY <3>1, <3>2
  <2> QED
    BY <2>1
<1>6. a \in Nat \ {0} /\ lo <= a /\ a <= Len(s) + 1 /\ (a = lo \/ (a = lo + 1 /\ Peek(s, lo) = Minus))
  BY <1>0, <1>1
<1>7. b # 0 /\ c # 0
  <2>1. CASE b = 0
    <3>1. c = 0
      BY <1>1, <1>3, <2>1
    <3> QED
      BY <1>1, <1>3, <3>1
  <2>2. CASE b # 0
    BY <1>1, <1>3, <2>2
  <2> QED
    BY <2>1, <2>2
<1>8. b \in Nat \ {0} /\ DigitRun(s, a, b) /\ (Peek(s, a) = Zero => b = a + 1)
  <2>1. CASE Peek(s, a) = Zero
    <3>1. b = a + 1
      BY <1>1, <2>1
    <3>2. a <= Len(s)
      BY <1>4, <1>6, <2>1, KindsApart, SMT DEF Zero, AtEnd
    <3>3. Peek(s, a) \in Digits
      BY <2>1, KindsApart
    <3>4. DigitRun(s, a, b)
      BY <1>0, <1>6, <3>1, <3>2, <3>3 DEF DigitRun
    <3> QED
      BY <1>6, <3>1, <3>4
  <2>2. CASE Peek(s, a) # Zero
    <3>1. b = ConsumeDigits(s, a)
      BY <1>1, <2>2
    <3> QED
      BY <1>6, <1>7, <2>2, <3>1, Consumed
  <2> QED
    BY <2>1, <2>2
<1>9. a < b /\ b <= Len(s) + 1 /\ Peek(s, b - 1) \in Digits
  BY <1>5, <1>6, <1>8
<1>10. /\ c \in Nat \ {0} /\ b <= c /\ c <= Len(s) + 1 /\ Peek(s, c - 1) \in Digits
       /\ c = b \/ (Peek(s, b) = Point /\ DigitRun(s, b + 1, c))
  <2>1. CASE Peek(s, b) = Point
    <3>1. c = ConsumeDigits(s, b + 1)
      BY <1>1, <2>1
    <3>2. b <= Len(s)
      BY <1>4, <1>8, <2>1, SMT DEF Point, AtEnd
    <3>3. b + 1 \in Nat \ {0} /\ b + 1 <= Len(s) + 1
      BY <1>8, <3>2
    <3>4. c \in Nat /\ DigitRun(s, b + 1, c)
      BY <1>7, <3>1, <3>3, Consumed
    <3>5. b + 1 < c /\ c <= Len(s) + 1 /\ Peek(s, c - 1) \in Digits
      BY <1>5, <3>3, <3>4
    <3> QED
      BY <1>8, <2>1, <3>4, <3>5
  <2>2. CASE Peek(s, b) # Point
    <3>1. c = b
      BY <1>1, <2>2
    <3> QED
      BY <1>8, <1>9, <3>1
  <2> QED
    BY <2>1, <2>2
<1>11. /\ e \in Nat \ {0} /\ c <= e /\ e <= Len(s) + 1 /\ Peek(s, e - 1) \in Digits
       /\ \/ c = e
          \/ /\ Peek(s, c) \in Exponents
             /\ \/ DigitRun(s, c + 1, e)
                \/ Peek(s, c + 1) \in {Plus, Minus} /\ DigitRun(s, c + 2, e)
  <2>1. CASE Peek(s, c) \notin Exponents
    <3>1. e = c
      BY <1>1, <1>2, <2>1
    <3> QED
      BY <1>10, <3>1
  <2>2. CASE Peek(s, c) \in Exponents
    <3>1. c <= Len(s)
      BY <1>4, <1>10, <2>2, KindsApart
    <3>2. CASE Peek(s, c + 1) \in {Plus, Minus}
      <4>1. e = ConsumeDigits(s, c + 2)
        BY <1>1, <1>2, <2>2, <3>2
      <4>2. c + 1 <= Len(s)
        <5>1. c + 1 \in Nat \ {0}
          BY <1>10
        <5> QED
          BY <1>4, <3>2, <5>1, SMT DEF Plus, Minus, AtEnd
      <4>3. c + 2 \in Nat \ {0} /\ c + 2 <= Len(s) + 1
        BY <1>10, <4>2
      <4>4. e \in Nat /\ DigitRun(s, c + 2, e)
        BY <1>2, <4>1, <4>3, Consumed
      <4>5. c + 2 < e /\ e <= Len(s) + 1 /\ Peek(s, e - 1) \in Digits
        BY <1>5, <4>3, <4>4
      <4> QED
        BY <1>10, <2>2, <3>2, <4>4, <4>5
    <3>3. CASE Peek(s, c + 1) \notin {Plus, Minus}
      <4>1. e = ConsumeDigits(s, c + 1)
        BY <1>1, <1>2, <2>2, <3>3
      <4>2. c + 1 \in Nat \ {0} /\ c + 1 <= Len(s) + 1
        BY <1>10, <3>1
      <4>3. e \in Nat /\ DigitRun(s, c + 1, e)
        BY <1>2, <4>1, <4>2, Consumed
      <4>4. c + 1 < e /\ e <= Len(s) + 1 /\ Peek(s, e - 1) \in Digits
        BY <1>5, <4>2, <4>3
      <4> QED
        BY <1>10, <2>2, <4>3, <4>4
    <3> QED
      BY <3>2, <3>3
  <2> QED
    BY <2>1, <2>2
<1>12. Parts(s, lo, e - 1, a, b, c)
  <2>1. (e - 1) + 1 = e
    BY <1>11
  <2>2. c <= (e - 1) + 1
    BY <1>10, <1>11
  <2> QED
    BY <1>6, <1>8, <1>9, <1>10, <1>11, <2>1, <2>2 DEF Parts
<1>13. lo < e
  <2>1. lo \in Nat /\ a \in Nat /\ b \in Nat /\ c \in Nat /\ e \in Nat
    BY <1>6, <1>8, <1>10, <1>11
  <2>2. lo <= a /\ a < b /\ b <= c /\ c <= e
    BY <1>6, <1>9, <1>10, <1>11
  <2> QED
    BY <2>1, <2>2
<1> QED
  BY <1>2, <1>6, <1>8, <1>10, <1>11, <1>12, <1>13

-----------------------------------------------------------------------------
(* Sequences of code points, each with each of some others behind it. *)
Joined(X, Y) == {x \o y : x \in X, y \in Y}

JoinsTo(z, X, Y) == \E x \in X : \E y \in Y : z = x \o y

LEMMA JoinedIs ==
    ASSUME NEW X, NEW Y, NEW z
    PROVE  z \in Joined(X, Y) <=> JoinsTo(z, X, Y)
  BY DEF Joined, JoinsTo

LEMMA JoinedEnds ==
    ASSUME NEW X, X \subseteq Seq(Int)
    PROVE  /\ Joined(X, {<<>>}) = X /\ Joined({<<>>}, X) = X
           /\ Joined(X, {}) = {}
<1>1. \A x \in X : x \o <<>> = x /\ <<>> \o x = x
  <2>1. ASSUME NEW x \in Seq(Int) PROVE x \o <<>> = x /\ <<>> \o x = x
    OBVIOUS
  <2> QED
    BY <2>1
<1>2. \A z : JoinsTo(z, X, {<<>>}) <=> z \in X
  BY <1>1 DEF JoinsTo
<1>3. \A z : JoinsTo(z, {<<>>}, X) <=> z \in X
  BY <1>1 DEF JoinsTo
<1>4. \A z : ~JoinsTo(z, X, {})
  BY DEF JoinsTo
<1> QED
  BY <1>2, <1>3, <1>4, JoinedIs

(* A point passes from the front of what follows to the end of what precedes. *)
LEMMA JoinedMoves ==
    ASSUME NEW X, X \subseteq Seq(Int), NEW Y, Y \subseteq Seq(Int), NEW p \in Int
    PROVE  Joined(Then(X, p), Y) = Joined(X, Followed({p}, Y))
<1>0. PICK e : e = <<p>>
  OBVIOUS
<1>1. e \in Seq(Int)
  BY <1>0
<1>2. ASSUME NEW x \in X, NEW y \in Y PROVE (x \o e) \o y = x \o (e \o y)
  <2>1. x \in Seq(Int) /\ y \in Seq(Int)
    OBVIOUS
  <2> QED
    BY <1>1, <2>1, Regroup, ZenonT(40)
<1>3. ASSUME NEW z, z \in Joined(Then(X, p), Y) PROVE z \in Joined(X, Followed({p}, Y))
  <2>1. JoinsTo(z, Then(X, p), Y)
    BY <1>3, JoinedIs
  <2>2. PICK v \in Then(X, p), y \in Y : z = v \o y
    BY <2>1 DEF JoinsTo
  <2>3. EndsIn(v, X, p)
    BY ThenIs
  <2>4. PICK x \in X : v = x \o <<p>>
    BY <2>3 DEF EndsIn
  <2>5. PICK w : w = e \o y
    OBVIOUS
  <2>6. z = x \o w
    BY <1>0, <1>2, <2>2, <2>4, <2>5
  <2>7. Follows(w, {p}, Y)
    BY <1>0, <2>5 DEF Follows
  <2>8. w \in Followed({p}, Y)
    BY <2>7, FollowedIs
  <2>9. JoinsTo(z, X, Followed({p}, Y))
    BY <2>6, <2>8 DEF JoinsTo
  <2> QED
    BY <2>9, JoinedIs
<1>4. ASSUME NEW z, z \in Joined(X, Followed({p}, Y)) PROVE z \in Joined(Then(X, p), Y)
  <2>1. JoinsTo(z, X, Followed({p}, Y))
    BY <1>4, JoinedIs
  <2>2. PICK x \in X, w \in Followed({p}, Y) : z = x \o w
    BY <2>1 DEF JoinsTo
  <2>3. Follows(w, {p}, Y)
    BY FollowedIs
  <2>4. PICK y \in Y : w = <<p>> \o y
    BY <2>3 DEF Follows
  <2>5. PICK v : v = x \o e
    OBVIOUS
  <2>6. z = v \o y
    BY <1>0, <1>2, <2>2, <2>4, <2>5
  <2>7. EndsIn(v, X, p)
    BY <1>0, <2>5 DEF EndsIn
  <2>8. v \in Then(X, p)
    BY <2>7, ThenIs
  <2>9. JoinsTo(z, Then(X, p), Y)
    BY <2>6, <2>8 DEF JoinsTo
  <2> QED
    BY <2>9, JoinedIs
<1> QED
  BY <1>3, <1>4

(* What has been read is read somehow, and nothing is read in one way. *)
LEMMA ReadingsTyped ==
    /\ \A u \in Bytes : Readings(u, Raw) \subseteq Seq(Int)
    /\ <<>> \in Bytes /\ Readings(<<>>, Raw) = {<<>>}
<1>1. \A u \in Bytes : Raw[u] \subseteq Int
  BY PointsTyped
<1>2. ASSUME NEW u \in Bytes
      PROVE  Readings(u, Raw) \subseteq Seq(Int) /\ (0 >= Len(u) => Readings(u, Raw) = {<<>>})
  <2>1. /\ ReadingsFrom(u, Raw)[0] \subseteq Seq(Int)
        /\ 0 >= Len(u) => ReadingsFrom(u, Raw)[0] = {<<>>}
    BY <1>1, ReadingsUnfold
  <2> QED
    BY <2>1 DEF Readings
<1>3. <<>> \in Bytes /\ Len(<<>>) = 0
  BY DEF Bytes
<1> QED
  BY <1>2, <1>3

LEMMA LeftTyped ==
    ASSUME NEW s \in Bytes, NEW lo \in Nat \ {0}, NEW hi \in Nat, hi <= Len(s), NEW i \in Nat
    PROVE  /\ Left(s, lo, hi, i) \subseteq Seq(Int)
           /\ lo < i /\ i = hi /\ s[hi] = Quote => Left(s, lo, hi, i) = {<<>>}
           /\ ~(lo < i /\ i <= hi /\ s[hi] = Quote) => Left(s, lo, hi, i) = {}
<1>1. CASE lo < i /\ i <= hi /\ s[hi] = Quote
  <2>1. lo < hi
    BY <1>1
  <2> QED
    BY <1>1, <2>1, LeftUnfold
<1>2. CASE ~(lo < i /\ i <= hi /\ s[hi] = Quote)
  BY <1>2 DEF Left
<1> QED
  BY <1>1, <1>2

(* Keywords that begin alike are alike, and end in no white space. *)
LEMMA KeywordIs ==
    ASSUME NEW k \in Keywords
    PROVE  /\ Len(k) \in Nat /\ Len(k) >= 4 /\ k[1] \in {110, 116, 102} /\ k[Len(k)] \notin WhiteSpace
           /\ \A j \in Keywords : j[1] = k[1] => j = k
<1>1. k = <<110, 117, 108, 108>> \/ k = <<116, 114, 117, 101>> \/ k = <<102, 97, 108, 115, 101>>
  BY DEF Keywords
<1>2. Len(k) \in Nat /\ Len(k) >= 4 /\ k[1] \in {110, 116, 102} /\ k[Len(k)] \in {108, 101}
  <2>1. CASE k = <<110, 117, 108, 108>>
    <3>1. Len(k) = 4 /\ k[1] = 110 /\ k[4] = 108
      BY <2>1
    <3> QED
      BY <3>1
  <2>2. CASE k = <<116, 114, 117, 101>>
    <3>1. Len(k) = 4 /\ k[1] = 116 /\ k[4] = 101
      BY <2>2
    <3> QED
      BY <3>1
  <2>3. CASE k = <<102, 97, 108, 115, 101>>
    <3>1. Len(k) = 5 /\ k[1] = 102 /\ k[5] = 101
      BY <2>3
    <3> QED
      BY <3>1
  <2> QED
    BY <1>1, <2>1, <2>2, <2>3
<1>3. \A x \in {108, 101} : x \notin WhiteSpace
  BY SMT DEF WhiteSpace
<1>4. \A j \in Keywords : j[1] = k[1] => j = k
  BY <1>1 DEF Keywords
<1> QED
  BY <1>2, <1>3, <1>4

(* A bare text by its first byte. *)
LEMMA BareBytes ==
    ASSUME NEW s \in Bytes, NEW lo \in Nat \ {0}, NEW hi \in Nat, lo <= hi, hi <= Len(s),
           NEW t, t = SubSeq(s, lo, hi)
    PROVE  /\ t \in Bytes /\ Len(t) = hi - lo + 1 /\ t[1] = s[lo] /\ t[Len(t)] = s[hi]
           /\ t \in Keywords => s[lo] \in {110, 116, 102}
           /\ IsNumber(t) => s[lo] \in Digits \cup {Minus}
           /\ StringPoints(t) = IF lo < hi /\ s[lo] = Quote /\ s[hi] = Quote
                                THEN Left(s, lo, hi, lo + 1) ELSE {}
<1>1. t \in Bytes /\ Len(t) = hi - lo + 1 /\ \A k \in 1 .. hi - lo + 1 : t[k] = s[lo + k - 1]
  BY Stretch
<1>2. t[1] = s[lo] /\ t[Len(t)] = s[hi]
  <2>1. 1 \in 1 .. hi - lo + 1 /\ lo + 1 - 1 = lo
    OBVIOUS
  <2>2. hi - lo + 1 \in 1 .. hi - lo + 1 /\ lo + (hi - lo + 1) - 1 = hi
    OBVIOUS
  <2> QED
    BY <1>1, <2>1, <2>2
<1>3. ASSUME t \in Keywords PROVE s[lo] \in {110, 116, 102}
  BY <1>2, <1>3, KeywordIs
<1>4. ASSUME IsNumber(t) PROVE s[lo] \in Digits \cup {Minus}
  <2>1. PICK a, b, c \in Nat : Parts(s, lo, hi, a, b, c)
    BY <1>4, NumberParts
  <2>2. /\ a = lo \/ (a = lo + 1 /\ Peek(s, lo) = Minus)
        /\ DigitRun(s, a, b)
    BY <2>1 DEF Parts
  <2>3. Peek(s, a) \in Digits
    BY <2>2 DEF DigitRun
  <2>4. Peek(s, lo) = s[lo]
    <3>1. lo <= Len(s)
      BY OfBytes
    <3> QED
      BY <3>1, PeekIs
  <2> QED
    BY <2>2, <2>3, <2>4
<1>5. StringPoints(t) = IF lo < hi /\ s[lo] = Quote /\ s[hi] = Quote
                        THEN Left(s, lo, hi, lo + 1) ELSE {}
  <2>1. CASE lo < hi /\ s[lo] = Quote /\ s[hi] = Quote
    <3>1. Len(t) >= 2 /\ t[1] = Quote /\ t[Len(t)] = Quote
      BY <1>1, <1>2, <2>1
    <3>2. StringPoints(t) = Readings(Between(t), InString)
      BY <3>1, Zenon DEF StringPoints
    <3>3. Between(t) = SubSeq(s, lo + 1, hi - 1)
      <4>1. 2 \in Nat \ {0} /\ Len(t) - 1 \in Int /\ 2 - 1 <= Len(t) - 1 /\ Len(t) - 1 <= hi - lo + 1
            /\ lo + 2 - 1 = lo + 1 /\ lo + (Len(t) - 1) - 1 = hi - 1 /\ lo - 1 <= hi
        BY <1>1, <2>1
      <4>2. PICK n : n = Len(t) - 1
        OBVIOUS
      <4>3. SubSeq(SubSeq(s, lo, hi), 2, n) = SubSeq(s, lo + 2 - 1, lo + n - 1)
        BY <4>1, <4>2, StretchOf
      <4> QED
        BY <4>1, <4>2, <4>3, Zenon DEF Between
    <3>4. PICK i : i = lo + 1
      OBVIOUS
    <3>5. i - lo - 1 = 0 /\ lo < i /\ i <= hi
      BY <2>1, <3>4
    <3>6. Left(s, lo, hi, i) = ReadingsFrom(SubSeq(s, lo + 1, hi - 1), InString)[0]
      BY <2>1, <3>5 DEF Left
    <3>7. Left(s, lo, hi, lo + 1) = Readings(Between(t), InString)
      BY <3>3, <3>4, <3>6, Zenon DEF Readings
    <3> QED
      BY <2>1, <3>2, <3>7, Zenon
  <2>2. CASE ~(lo < hi /\ s[lo] = Quote /\ s[hi] = Quote)
    <3>1. ~(Len(t) >= 2 /\ t[1] = Quote /\ t[Len(t)] = Quote)
      BY <1>1, <1>2, <2>2
    <3> QED
      BY <2>2, <3>1, Zenon DEF StringPoints
  <2> QED
    BY <2>1, <2>2
<1> QED
  BY <1>1, <1>2, <1>3, <1>4, <1>5

LEMMA FirstBytes ==
    /\ Quote \notin Digits \cup {Minus} /\ Quote \notin {110, 116, 102} /\ Quote \notin WhiteSpace
    /\ \A x \in {110, 116, 102} : x \notin Digits \cup {Minus}
    /\ \A x \in Digits : x \notin WhiteSpace
  BY SMT DEF Quote, Digits, Minus, WhiteSpace

(* A text of white space denotes nothing. *)
LEMMA EmptyDenotes == ~Denotes(<<>>)
<1>1. StringPoints(<<>>) = {}
  <2>1. ~(Len(<<>>) >= 2)
    OBVIOUS
  <2> QED
    BY <2>1, Zenon DEF StringPoints
<1>2. <<>> \notin Keywords
  BY DEF Keywords
<1>3. ~IsNumber(<<>>)
  <2>1. PICK t : t = <<>>
    OBVIOUS
  <2>2. Len(t) = 0 /\ t \in Seq(Int)
    BY <2>1
  <2>3. ASSUME NEW a \in 1 .. Len(t) + 1, NEW b \in a .. Len(t) + 1 PROVE SubSeq(t, a, b - 1) = <<>>
    <3>1. a = 1 /\ b = 1
      BY <2>2, <2>3
    <3>2. SubSeq(t, 1, 0) = <<>>
      BY <2>2
    <3> QED
      BY <3>1, <3>2
  <2>4. ASSUME IsNumber(t) PROVE FALSE
    <3>1. PICK a \in 1 .. Len(t) + 1 : \E b \in a .. Len(t) + 1 : IsInteger(SubSeq(t, a, b - 1))
      BY <2>4 DEF IsNumber
    <3>2. PICK b \in a .. Len(t) + 1 : IsInteger(SubSeq(t, a, b - 1))
      BY <3>1
    <3>3. IsInteger(<<>>)
      BY <2>3, <3>2
    <3> QED
      BY <3>3 DEF IsInteger, IsDigits
  <2> QED
    BY <2>1, <2>4
<1> QED
  BY <1>1, <1>2, <1>3, Zenon DEF Denotes

-----------------------------------------------------------------------------
(* What is behind a byte that is no white space: nothing but white space, or more. *)
LEMMA RestIs ==
    ASSUME NEW s \in Bytes, First(s) <= Len(s), NEW e \in Nat, First(s) < e, e <= Len(s) + 1,
           s[e - 1] \notin WhiteSpace
    PROVE  /\ SkipWhitespace(s, e) \in Nat /\ 1 <= SkipWhitespace(s, e) /\ SkipWhitespace(s, e) <= Len(s) + 1
           /\ Peek(s, SkipWhitespace(s, e)) = AtEnd => Last(s) = e - 1
           /\ Peek(s, SkipWhitespace(s, e)) # AtEnd => Last(s) >= e
<1>0. Len(s) \in Nat /\ First(s) \in Nat \ {0}
  BY OfBytes, BareIs
<1>1. /\ Last(s) \in Nat /\ \A j \in Nat : Last(s) < j /\ j <= Len(s) => s[j] \in WhiteSpace
  BY BareIs
<1>2. PICK f : f = SkipWhitespace(s, e)
  OBVIOUS
<1>3. /\ f \in Nat /\ e <= f /\ f <= Len(s) + 1
      /\ f = Len(s) + 1 => Last(s) < e
      /\ f # Len(s) + 1 => Last(s) >= e
      /\ Peek(s, f) = AtEnd <=> f = Len(s) + 1
  BY <1>2, WholeIs
<1>4. Last(s) >= e - 1
  <2>1. e - 1 \in Nat /\ e - 1 <= Len(s)
    BY <1>0
  <2> QED
    BY <1>1, <2>1
<1> QED
  BY <1>0, <1>1, <1>2, <1>3, <1>4

(* The first byte says what a text can be. *)
Kinds(x, t) ==
    /\ t \in Keywords => x \in {110, 116, 102}
    /\ IsNumber(t) => x \in Digits \cup {Minus}
    /\ StringPoints(t) # {} => x = Quote

LEMMA KindOf ==
    ASSUME NEW s \in Bytes, NEW lo \in Nat \ {0}, NEW hi \in Nat, lo <= hi, hi <= Len(s),
           NEW t, t = SubSeq(s, lo, hi)
    PROVE  Kinds(s[lo], t)
<1>1. t[1] = s[lo]
  BY BareBytes
<1>2. StringPoints(t) # {} => t[1] = Quote
  BY Zenon DEF StringPoints
<1>3. /\ t \in Keywords => s[lo] \in {110, 116, 102}
      /\ IsNumber(t) => s[lo] \in Digits \cup {Minus}
  BY BareBytes
<1> QED
  BY <1>1, <1>2, <1>3, Zenon DEF Kinds

(* What a text that begins with one kind of scalar denotes. *)
LEMMA DenotesBy ==
    ASSUME NEW s \in Bytes, First(s) <= Len(s), NEW t, t = Bare(s)
    PROVE  /\ s[First(s)] = Quote => (Denotes(t) <=> StringPoints(t) # {})
           /\ s[First(s)] \in {110, 116, 102} => (Denotes(t) <=> t \in Keywords)
           /\ s[First(s)] \in Digits \cup {Minus} => (Denotes(t) <=> IsNumber(t) /\ t \notin Unrepresentable)
           /\ Denotes(t) => s[First(s)] \in {Quote} \cup {110, 116, 102} \cup Digits \cup {Minus}
<1>1. PICK lo, hi : lo = First(s) /\ hi = Last(s)
  OBVIOUS
<1>2. lo \in Nat \ {0} /\ hi \in Nat /\ lo <= hi /\ hi <= Len(s) /\ t = SubSeq(s, lo, hi)
  BY <1>1, BareIs
<1>3. /\ t \in Keywords => s[lo] \in {110, 116, 102}
      /\ IsNumber(t) => s[lo] \in Digits \cup {Minus}
      /\ StringPoints(t) # {} => s[lo] = Quote
  <2>1. Kinds(s[lo], t)
    BY <1>2, KindOf
  <2> QED
    BY <2>1, Zenon DEF Kinds
<1>4. Denotes(t) <=> StringPoints(t) # {} \/ t \in Keywords \/ (IsNumber(t) /\ t \notin Unrepresentable)
  BY Zenon DEF Denotes
<1>5. PICK x, K, N : x = s[lo] /\ K = {110, 116, 102} /\ N = Digits \cup {Minus}
  OBVIOUS
<1>6. /\ x = Quote => x \notin K /\ x \notin N
      /\ x \in K => x \notin N
  BY <1>5, FirstBytes
<1> QED
  BY <1>1, <1>3, <1>4, <1>5, <1>6

(* A keyword at the first byte is the whole text, or the text is nothing. *)
LEMMA KeywordRead ==
    ASSUME NEW s \in Bytes, NEW k \in Keywords, MatchKeyword(s, First(s), k),
           NEW f, f = SkipWhitespace(s, First(s) + Len(k))
    PROVE  /\ f \in Nat /\ 1 <= f /\ f <= Len(s) + 1
           /\ Peek(s, f) = AtEnd => k = Bare(s) /\ Denotes(Bare(s))
           /\ Peek(s, f) # AtEnd => ~Denotes(Bare(s))
<1>0. Len(s) \in Nat /\ First(s) \in Nat \ {0}
  BY OfBytes, BareIs
<1>1. PICK n, lo, e : n = Len(k) /\ lo = First(s) /\ e = lo + n
  OBVIOUS
<1>2. n \in Nat /\ n >= 4 /\ k[1] \in {110, 116, 102} /\ k[n] \notin WhiteSpace
      /\ \A j \in Keywords : j[1] = k[1] => j = k
  BY <1>1, KeywordIs
<1>3. e - 1 <= Len(s) /\ SubSeq(s, lo, e - 1) = k
  <2>1. lo + n - 1 <= Len(s) /\ SubSeq(s, lo, lo + n - 1) = k
    BY <1>1, Zenon DEF MatchKeyword
  <2>2. lo + n - 1 = e - 1
    BY <1>0, <1>1, <1>2
  <2> QED
    BY <2>1, <2>2
<1>4. /\ lo \in Nat \ {0} /\ e \in Nat /\ lo < e /\ lo <= e - 1 /\ e - 1 \in Nat
      /\ e <= Len(s) + 1 /\ lo <= Len(s) /\ (e - 1) - lo + 1 = n
  BY <1>0, <1>1, <1>2, <1>3
<1>5. s[lo] = k[1] /\ s[e - 1] = k[n]
  <2>1. PICK hi : hi = e - 1
    OBVIOUS
  <2>2. hi \in Nat /\ lo <= hi /\ hi <= Len(s) /\ k = SubSeq(s, lo, hi)
    BY <1>3, <1>4, <2>1
  <2>3. k[1] = s[lo] /\ k[Len(k)] = s[hi]
    BY <1>4, <2>2, BareBytes
  <2> QED
    BY <1>1, <2>1, <2>3
<1>6. /\ f \in Nat /\ 1 <= f /\ f <= Len(s) + 1
      /\ Peek(s, f) = AtEnd => Last(s) = e - 1
      /\ Peek(s, f) # AtEnd => Last(s) >= e
  BY <1>1, <1>2, <1>4, <1>5, RestIs
<1>7. /\ Last(s) \in Nat /\ lo <= Last(s) /\ Last(s) <= Len(s) /\ Bare(s) = SubSeq(s, lo, Last(s))
  BY <1>1, <1>4, BareIs
<1>8. PICK t : t = Bare(s)
  OBVIOUS
<1>9. Denotes(t) <=> t \in Keywords
  BY <1>1, <1>2, <1>4, <1>5, <1>8, DenotesBy
<1>10. ASSUME Peek(s, f) = AtEnd PROVE k = t /\ Denotes(t)
  <2>1. t = k
    BY <1>3, <1>6, <1>7, <1>8, <1>10
  <2> QED
    BY <1>9, <2>1
<1>11. ASSUME Peek(s, f) # AtEnd PROVE ~Denotes(t)
  <2>1. Len(t) = Last(s) - lo + 1 /\ t[1] = s[lo]
    BY <1>4, <1>7, <1>8, BareBytes
  <2>2. Len(t) # n
    BY <1>4, <1>6, <1>7, <1>11, <2>1
  <2>3. t # k
    BY <1>1, <2>2
  <2> QED
    BY <1>2, <1>5, <1>9, <2>1, <2>3
<1> QED
  BY <1>6, <1>8, <1>10, <1>11

(* A number is read up to its end, or it has a part that is wrong. *)
LEMMA BareNumber ==
    ASSUME NEW s \in Bytes, First(s) <= Len(s), IsNumber(Bare(s))
    PROVE  /\ NumberEnd(s, First(s)) = Last(s) + 1
           /\ SubSeq(s, First(s), NumberEnd(s, First(s)) - 1) = Bare(s)
<1>0. Len(s) \in Nat
  BY OfBytes
<1>1. PICK lo, hi : lo = First(s) /\ hi = Last(s)
  OBVIOUS
<1>2. /\ lo \in Nat \ {0} /\ hi \in Nat /\ lo <= hi /\ hi <= Len(s) /\ Bare(s) = SubSeq(s, lo, hi)
      /\ \A j \in Nat : hi < j /\ j <= Len(s) => s[j] \in WhiteSpace
  BY <1>1, BareIs
<1>3. PICK a, b, c \in Nat : Parts(s, lo, hi, a, b, c)
  BY <1>2, NumberParts
<1>4. Peek(s, hi + 1) \in WhiteSpace \cup {AtEnd}
  <2>1. hi + 1 \in Nat \ {0} /\ hi < hi + 1
    BY <1>2
  <2>2. CASE hi + 1 <= Len(s)
    BY <1>2, <2>1, <2>2, PeekIs, ZenonT(40)
  <2>3. CASE ~(hi + 1 <= Len(s))
    <3>1. Peek(s, hi + 1) = AtEnd
      BY <2>1, <2>3, PeekIs DEF AtEnd
    <3> QED
      BY <3>1
  <2> QED
    BY <2>2, <2>3
<1>5. NumberEnd(s, lo) = hi + 1
  BY <1>2, <1>3, <1>4, NumberRead
<1>6. (hi + 1) - 1 = hi
  BY <1>2
<1> QED
  BY <1>1, <1>2, <1>5, <1>6

LEMMA NumberWhole ==
    ASSUME NEW s \in Bytes, Peek(s, First(s)) \in Digits \cup {Minus}, NumberEnd(s, First(s)) # 0,
           NEW t, t = SubSeq(s, First(s), NumberEnd(s, First(s)) - 1), t \notin Unrepresentable,
           NEW f, f = SkipWhitespace(s, NumberEnd(s, First(s)))
    PROVE  /\ f \in Nat /\ 1 <= f /\ f <= Len(s) + 1
           /\ Peek(s, f) = AtEnd => t = Bare(s) /\ Denotes(Bare(s))
           /\ Peek(s, f) # AtEnd => ~Denotes(Bare(s))
<1>0. Len(s) \in Nat /\ First(s) \in Nat \ {0}
  BY OfBytes, BareIs
<1>1. PICK lo, e : lo = First(s) /\ e = NumberEnd(s, lo)
  OBVIOUS
<1>2. lo <= Len(s) /\ Peek(s, lo) = s[lo]
  <2>1. AtEnd \notin Digits \cup {Minus}
    BY NotSets, SMT DEF AtEnd, Minus
  <2>2. lo <= Len(s)
    <3> SUFFICES ASSUME ~(lo <= Len(s)) PROVE FALSE
      OBVIOUS
    <3>1. Peek(s, lo) = AtEnd
      BY <1>0, <1>1, PeekIs DEF AtEnd
    <3> QED
      BY <1>1, <2>1, <3>1
  <2> QED
    BY <1>0, <1>1, <2>2, PeekIs
<1>3. /\ e \in Nat /\ lo < e /\ e <= Len(s) + 1 /\ Peek(s, e - 1) \in Digits
      /\ \E a, b, c \in Nat : Parts(s, lo, e - 1, a, b, c)
  BY <1>0, <1>1, <1>2, NumberFound
<1>4. e - 1 \in Nat \ {0} /\ lo <= e - 1 /\ e - 1 <= Len(s)
  BY <1>0, <1>1, <1>3
<1>5. s[e - 1] \notin WhiteSpace
  <2>1. Peek(s, e - 1) = s[e - 1]
    BY <1>4, PeekIs
  <2> QED
    BY <1>3, <2>1, FirstBytes
<1>6. /\ f \in Nat /\ 1 <= f /\ f <= Len(s) + 1
      /\ Peek(s, f) = AtEnd => Last(s) = e - 1
      /\ Peek(s, f) # AtEnd => Last(s) >= e
  BY <1>1, <1>2, <1>3, <1>5, RestIs
<1>7. Last(s) \in Nat /\ Bare(s) = SubSeq(s, lo, Last(s))
  BY <1>1, <1>2, BareIs
<1>8. PICK u : u = Bare(s)
  OBVIOUS
<1>9. Denotes(u) <=> IsNumber(u) /\ u \notin Unrepresentable
  BY <1>1, <1>2, <1>8, DenotesBy
<1>10. ASSUME Peek(s, f) = AtEnd PROVE t = u /\ Denotes(u)
  <2>1. t = u
    BY <1>1, <1>6, <1>7, <1>8, <1>10
  <2>2. IsNumber(SubSeq(s, lo, e - 1))
    BY <1>0, <1>1, <1>3, <1>4, NumberParts
  <2> QED
    BY <1>1, <1>9, <2>1, <2>2
<1>11. ASSUME Peek(s, f) # AtEnd PROVE ~Denotes(u)
  <2> SUFFICES ASSUME IsNumber(u) PROVE FALSE
    BY <1>9
  <2>1. NumberEnd(s, First(s)) = Last(s) + 1
    BY <1>1, <1>2, <1>8, BareNumber
  <2> QED
    BY <1>1, <1>3, <1>6, <1>7, <1>11, <2>1
<1> QED
  BY <1>6, <1>8, <1>10, <1>11

(* What denotes something begins with something that ParseValue reads. *)
LEMMA Begins ==
    ASSUME NEW s \in Bytes, Denotes(Bare(s))
    PROVE  /\ First(s) <= Len(s)
           /\ \/ Peek(s, First(s)) = Quote
              \/ \E k \in Keywords : MatchKeyword(s, First(s), k)
              \/ /\ Peek(s, First(s)) \in Digits \cup {Minus}
                 /\ IsNumber(Bare(s)) /\ Bare(s) \notin Unrepresentable
<1>0. Len(s) \in Nat /\ First(s) \in Nat \ {0} /\ First(s) <= Len(s) + 1
  BY OfBytes, BareIs
<1>1. First(s) <= Len(s)
  <2> SUFFICES ASSUME ~(First(s) <= Len(s)) PROVE FALSE
    OBVIOUS
  <2>1. First(s) = Len(s) + 1
    BY <1>0
  <2>2. Bare(s) = <<>>
    BY <2>1, BareIs
  <2> QED
    BY <2>2, EmptyDenotes
<1>2. PICK t, x : t = Bare(s) /\ x = s[First(s)]
  OBVIOUS
<1>3. /\ x \in {110, 116, 102} => t \in Keywords
      /\ x \in Digits \cup {Minus} => IsNumber(t) /\ t \notin Unrepresentable
      /\ x \in {Quote} \cup {110, 116, 102} \cup Digits \cup {Minus}
  BY <1>1, <1>2, DenotesBy
<1>4. Peek(s, First(s)) = x
  BY <1>0, <1>1, <1>2, PeekIs
<1>5. CASE t \in Keywords
  <2>1. PICK lo, hi : lo = First(s) /\ hi = Last(s)
    OBVIOUS
  <2>2. lo \in Nat \ {0} /\ hi \in Nat /\ lo <= hi /\ hi <= Len(s) /\ t = SubSeq(s, lo, hi)
    BY <1>0, <1>1, <1>2, <2>1, BareIs
  <2>3. Len(t) = hi - lo + 1
    BY <2>2, BareBytes
  <2>4. lo + Len(t) - 1 = hi
    BY <2>2, <2>3
  <2>5. MatchKeyword(s, lo, t)
    BY <2>2, <2>4, Zenon DEF MatchKeyword
  <2> QED
    BY <1>1, <1>5, <2>1, <2>5
<1> QED
  BY <1>1, <1>2, <1>3, <1>4, <1>5

-----------------------------------------------------------------------------
(* A string from its opening quote: what it spells is what is left to read. *)
LEMMA StringOpened ==
    ASSUME NEW s \in Bytes, First(s) <= Len(s), s[First(s)] = Quote
    PROVE  StringPoints(Bare(s)) = Left(s, First(s), Last(s), First(s) + 1)
<1>1. PICK lo, hi, i : lo = First(s) /\ hi = Last(s) /\ i = lo + 1
  OBVIOUS
<1>2. PICK t : t = Bare(s)
  OBVIOUS
<1>3. lo \in Nat \ {0} /\ hi \in Nat /\ lo <= hi /\ hi <= Len(s) /\ t = SubSeq(s, lo, hi)
  BY <1>1, <1>2, BareIs
<1>4. StringPoints(t) = IF lo < hi /\ s[lo] = Quote /\ s[hi] = Quote THEN Left(s, lo, hi, lo + 1) ELSE {}
  BY <1>3, BareBytes, ZenonT(40)
<1>5. i \in Nat /\ (lo < hi <=> lo < i /\ i <= hi)
  BY <1>1, <1>3
<1>6. ~(lo < i /\ i <= hi /\ s[hi] = Quote) => Left(s, lo, hi, i) = {}
  BY <1>3, <1>5, LeftTyped
<1>7. StringPoints(t) = Left(s, lo, hi, i)
  BY <1>1, <1>4, <1>5, <1>6, Zenon
<1> QED
  BY <1>1, <1>2, <1>7, Zenon

(* A piece that is refused leaves nothing to read. *)
LEMMA StringRefused ==
    ASSUME NEW s \in Bytes, NEW lo \in Nat \ {0}, NEW hi \in Nat, lo <= hi, hi <= Len(s),
           NEW i \in Nat, lo < i, Peek(s, i) # Quote, PieceAt(s, i) = Refused
    PROVE  Left(s, lo, hi, i) = {}
<1>0. Len(s) \in Nat /\ i \in Nat \ {0}
  BY OfBytes
<1>1. ASSUME i <= Len(s) PROVE Nothing(s, i) /\ s[i] # Quote
  <2>1. Peek(s, i) = s[i] /\ i \in 1 .. Len(s)
    BY <1>0, <1>1, PeekIs
  <2>2. ReadAs(s, i, PieceAt(s, i))
    BY <2>1, PieceSpelled
  <2> QED
    BY <2>1, <2>2 DEF ReadAs
<1>2. CASE i = hi
  <2>1. s[hi] # Quote
    BY <1>1, <1>2
  <2> QED
    BY <2>1, LeftTyped
<1>3. CASE i # hi
  BY <1>1, <1>3, LeftNothing
<1> QED
  BY <1>2, <1>3

(* A piece passes from what is left to read to what has been read. *)
PieceRead(s, i, u, e, v) ==
    /\ PieceAt(s, i) # Refused
    /\ e = i + PieceAt(s, i).used /\ v = u \o PieceAt(s, i).bytes

LEMMA StringStep ==
    ASSUME NEW s \in Bytes, NEW lo \in Nat \ {0}, NEW hi \in Nat, lo <= hi, hi <= Len(s),
           NEW i \in Nat, lo < i, Peek(s, i) # Quote,
           NEW u \in Bytes, Readings(u, Raw) # {}, NEW e, NEW v, PieceRead(s, i, u, e, v)
    PROVE  /\ e \in Nat /\ lo < e /\ e <= Len(s) + 1
           /\ v \in Bytes /\ Readings(v, Raw) # {}
           /\ Joined(Readings(u, Raw), Left(s, lo, hi, i)) = Joined(Readings(v, Raw), Left(s, lo, hi, e))
<1>0. Len(s) \in Nat /\ i \in Nat \ {0}
  BY OfBytes
<1> DEFINE piece == PieceAt(s, i)
<1>1. i <= Len(s)
  <2> SUFFICES ASSUME ~(i <= Len(s)) PROVE FALSE
    OBVIOUS
  <2>1. Peek(s, i) < 32
    BY <1>0, PeekIs
  <2> QED
    BY <2>1 DEF PieceRead, PieceAt
<1>2. Peek(s, i) = s[i] /\ i \in 1 .. Len(s) /\ s[i] # Quote
  BY <1>0, <1>1, PeekIs
<1>3. Spells(s, i, piece)
  BY <1>2, PieceSpelled DEF ReadAs, PieceRead
<1>4. /\ piece.used \in Lengths /\ i + piece.used - 1 <= Len(s) /\ piece.bytes \in Bytes
      /\ \E p \in Int : SpelledAt(s, i, piece.used) = {p} /\ Utf8Points(piece.bytes) = {p}
  BY <1>3, Zenon DEF Spells
<1>5. PICK p \in Int : SpelledAt(s, i, piece.used) = {p} /\ Utf8Points(piece.bytes) = {p}
  BY <1>4, Zenon
<1>6. PICK n, b : n = piece.used /\ b = piece.bytes
  OBVIOUS
<1>7. n \in Nat /\ n # 0 /\ b \in Bytes /\ i + n - 1 <= Len(s) /\ e = i + n /\ v = u \o b
  BY <1>4, <1>6, LengthsTyped DEF PieceRead
<1>8. e \in Nat /\ i < e /\ lo < e /\ e <= Len(s) + 1
  BY <1>0, <1>7
<1>9. v \in Bytes
  BY <1>7, Appended
<1>10. Readings(v, Raw) = Then(Readings(u, Raw), p)
  <2>1. Utf8Points(b) = {p}
    BY <1>5, <1>6
  <2> QED
    BY <1>7, <2>1, AppendPoint
<1>11. Readings(v, Raw) # {}
  <2>1. PICK x \in Readings(u, Raw) : TRUE
    OBVIOUS
  <2>2. EndsIn(x \o <<p>>, Readings(u, Raw), p)
    BY DEF EndsIn
  <2>3. x \o <<p>> \in Then(Readings(u, Raw), p)
    BY <2>2, ThenIs
  <2> QED
    BY <1>10, <2>3
<1>12. Left(s, lo, hi, i) = Followed({p}, Left(s, lo, hi, e))
  <2>1. CASE i = hi
    <3>1. ~(lo < i /\ i <= hi /\ s[hi] = Quote) /\ ~(lo < e /\ e <= hi /\ s[hi] = Quote)
      BY <1>2, <2>1
    <3>2. Left(s, lo, hi, i) = {} /\ Left(s, lo, hi, e) = {}
      BY <1>8, <3>1, LeftTyped
    <3> QED
      BY <3>2, FollowedNothing
  <2>2. CASE i # hi
    <3>1. OnePoint(s, i, e, p)
      BY <1>3, <1>5, Zenon DEF OnePoint, PieceRead
    <3> QED
      BY <1>1, <2>2, <3>1, LeftPiece
  <2> QED
    BY <2>1, <2>2
<1>13. PICK X, Y : X = Readings(u, Raw) /\ Y = Left(s, lo, hi, e)
  OBVIOUS
<1>14. X \subseteq Seq(Int) /\ Y \subseteq Seq(Int)
  BY <1>8, <1>13, ReadingsTyped, LeftTyped
<1>15. Joined(Then(X, p), Y) = Joined(X, Followed({p}, Y))
  BY <1>14, JoinedMoves
<1> QED
  BY <1>8, <1>9, <1>10, <1>11, <1>12, <1>13, <1>15, Zenon

(* A quote is the last byte of the text, or the text is no string. *)
LEMMA StringClosed ==
    ASSUME NEW s \in Bytes, First(s) <= Len(s), s[First(s)] = Quote,
           NEW i \in Nat, First(s) < i, Peek(s, i) = Quote,
           NEW X, X \subseteq Seq(Int), X # {},
           StringPoints(Bare(s)) = Joined(X, Left(s, First(s), Last(s), i)),
           NEW f, f = SkipWhitespace(s, i + 1)
    PROVE  /\ f \in Nat /\ 1 <= f /\ f <= Len(s) + 1
           /\ Peek(s, f) = AtEnd => StringPoints(Bare(s)) = X
           /\ Peek(s, f) # AtEnd => ~Denotes(Bare(s))
<1>0. Len(s) \in Nat /\ First(s) \in Nat \ {0} /\ i \in Nat \ {0}
  BY OfBytes, BareIs
<1>1. i <= Len(s) /\ s[i] = Quote
  <2>1. i <= Len(s)
    <3> SUFFICES ASSUME ~(i <= Len(s)) PROVE FALSE
      OBVIOUS
    <3>1. Peek(s, i) = -1
      BY <1>0, PeekIs
    <3> QED
      BY <3>1 DEF Quote
  <2> QED
    BY <1>0, <2>1, PeekIs
<1>2. PICK lo, hi, e : lo = First(s) /\ hi = Last(s) /\ e = i + 1
  OBVIOUS
<1>3. e \in Nat /\ lo < e /\ e <= Len(s) + 1 /\ e - 1 = i
  BY <1>0, <1>1, <1>2
<1>4. s[e - 1] \notin WhiteSpace
  BY <1>1, <1>3, FirstBytes
<1>5. /\ f \in Nat /\ 1 <= f /\ f <= Len(s) + 1
      /\ Peek(s, f) = AtEnd => hi = e - 1
      /\ Peek(s, f) # AtEnd => hi >= e
  BY <1>2, <1>3, <1>4, RestIs
<1>6. lo \in Nat \ {0} /\ hi \in Nat /\ lo <= hi /\ hi <= Len(s)
  BY <1>2, BareIs
<1>7. PICK S : S = StringPoints(Bare(s))
  OBVIOUS
<1>8. S = Joined(X, Left(s, lo, hi, i))
  BY <1>2, <1>7
<1>9. ASSUME Peek(s, f) = AtEnd PROVE S = X
  <2>1. i = hi /\ lo < i /\ s[hi] = Quote
    BY <1>1, <1>2, <1>3, <1>5, <1>9
  <2>2. Left(s, lo, hi, i) = {<<>>}
    BY <1>6, <2>1, LeftTyped
  <2> QED
    BY <1>8, <2>2, JoinedEnds
<1>10. ASSUME Peek(s, f) # AtEnd PROVE ~Denotes(Bare(s))
  <2>1. i # hi
    BY <1>2, <1>5, <1>6, <1>10
  <2>2. Nothing(s, i)
    <3>1. i \in 1 .. Len(s)
      BY <1>0, <1>1
    <3> QED
      BY <1>1, <3>1, NothingAt
  <2>3. Left(s, lo, hi, i) = {}
    BY <1>2, <1>6, <2>1, <2>2, LeftNothing
  <2>4. S = {}
    BY <1>8, <2>3, JoinedEnds
  <2> QED
    BY <1>7, <2>4, DenotesBy
<1> QED
  BY <1>5, <1>7, <1>9, <1>10

-----------------------------------------------------------------------------
(* The invariant: inside a string, what the text denotes is what has been read
   with what is left to read behind it; behind the scalar, the value is what the
   text denotes when nothing is left, and the text denotes nothing otherwise.  *)
StringSoFar(s, i, u) ==
    /\ First(s) < i /\ s[First(s)] = Quote
    /\ Readings(u, Raw) # {}
    /\ StringPoints(Bare(s)) = Joined(Readings(u, Raw), Left(s, First(s), Last(s), i))

ScalarRead(s, i, v) ==
    /\ Peek(s, i) = AtEnd /\ v.type = "string" =>
           StringPoints(Bare(s)) = Readings(v.content, Raw) /\ StringPoints(Bare(s)) # {}
    /\ Peek(s, i) = AtEnd /\ v.type # "string" => v.content = Bare(s) /\ Denotes(Bare(s))
    /\ Peek(s, i) # AtEnd => ~Denotes(Bare(s))

AtStart == phase = "value" => index = First(input) /\ text = <<>>
Inside == phase = "string" => StringSoFar(input, index, text)
Behind == phase = "end of input" => ScalarRead(input, index, value)
Ended ==
    /\ status = "parsed" => phase = "end of input" /\ Peek(input, index) = AtEnd
    /\ status = "SerializationError" => Bare(input) \in Subnormal \/ ~Denotes(Bare(input))
IInv == TypeOK /\ AtStart /\ Inside /\ Behind /\ Ended

LEMMA InputBytes ==
    ASSUME TypeOK
    PROVE  input \in Bytes /\ text \in Bytes /\ Len(input) \in Nat /\ index \in Nat /\ 1 <= index /\ index <= Len(input) + 1
<1>1. input \in Bytes /\ text \in Bytes
  BY InputsAssumption DEF TypeOK, Bytes
<1>2. Len(input) \in Nat
  BY <1>1, OfBytes
<1>3. index \in 1 .. Len(input) + 1
  BY DEF TypeOK
<1> QED
  BY <1>1, <1>2, <1>3

LEMMA InitHolds == Init => IInv
<1> SUFFICES ASSUME Init PROVE IInv
  OBVIOUS
<1>1. /\ input \in Inputs /\ index = SkipWhitespace(input, 1) /\ phase = "value"
      /\ text = <<>> /\ value.type = "none" /\ status = "parsing"
  BY DEF Init, NoValue, Value
<1>2. input \in Bytes
  BY <1>1, InputsAssumption DEF Bytes
<1>3. index = First(input)
  BY <1>1 DEF First
<1>4. index \in Nat \ {0} /\ index <= Len(input) + 1 /\ Len(input) \in Nat
  BY <1>2, <1>3, BareIs, OfBytes
<1>5. text \in Seq(0 .. 255)
  BY <1>1
<1>6. TypeOK
  BY <1>1, <1>4, <1>5 DEF TypeOK
<1> QED
  BY <1>1, <1>3, <1>6 DEF IInv, AtStart, Inside, Behind, Ended

(* The parser comes to the end of a scalar with a value. *)
LEMMA ReturnHolds ==
    ASSUME IInv, status = "parsing", NEW v, NEW end, Return(v, end),
           v.type \in {"keyword", "string", "number"},
           SkipWhitespace(input, end) \in Nat, 1 <= SkipWhitespace(input, end),
           SkipWhitespace(input, end) <= Len(input) + 1,
           ScalarRead(input, SkipWhitespace(input, end), v)
    PROVE  IInv'
<1>0. Len(input) \in Nat
  BY InputBytes DEF IInv
<1>1. PICK f : f = SkipWhitespace(input, end)
  OBVIOUS
<1>2. /\ value' = v /\ index' = f /\ phase' = "end of input"
      /\ input' = input /\ text' = text /\ status' = status
  BY <1>1 DEF Return
<1>3. f \in 1 .. Len(input) + 1
  BY <1>0, <1>1
<1>4. TypeOK'
  BY <1>2, <1>3 DEF IInv, TypeOK
<1>5. ScalarRead(input', index', value')
  BY <1>1, <1>2
<1> QED
  BY <1>2, <1>4, <1>5 DEF IInv, AtStart, Inside, Behind, Ended

LEMMA KeywordHolds ==
    ASSUME IInv, ReadKeyword
    PROVE  IInv'
<1>1. status = "parsing" /\ index = First(input)
  BY DEF ReadKeyword, Reading, IInv, AtStart
<1>2. PICK k \in Keywords : MatchKeyword(input, index, k) /\ Return(Value("keyword", k), index + Len(k))
  BY DEF ReadKeyword
<1>3. PICK f, v : f = SkipWhitespace(input, index + Len(k)) /\ v = Value("keyword", k)
  OBVIOUS
<1>4. v.type = "keyword" /\ v.content = k
  BY <1>3 DEF Value
<1>5. f = SkipWhitespace(input, First(input) + Len(k)) /\ MatchKeyword(input, First(input), k)
  BY <1>1, <1>2, <1>3
<1>6. /\ f \in Nat /\ 1 <= f /\ f <= Len(input) + 1
      /\ Peek(input, f) = AtEnd => k = Bare(input) /\ Denotes(Bare(input))
      /\ Peek(input, f) # AtEnd => ~Denotes(Bare(input))
  BY <1>5, InputBytes, KeywordRead DEF IInv
<1>7. ScalarRead(input, f, v)
  BY <1>4, <1>6 DEF ScalarRead
<1> QED
  BY <1>1, <1>2, <1>3, <1>4, <1>6, <1>7, ReturnHolds

LEMMA NumberHolds ==
    ASSUME IInv, ReadNumber
    PROVE  IInv'
<1>1. /\ status = "parsing" /\ index = First(input)
      /\ Peek(input, index) \in Digits \cup {Minus} /\ NumberEnd(input, index) # 0 /\ Number \notin Unrepresentable
      /\ Return(Value("number", Number), NumberEnd(input, index))
  BY DEF ReadNumber, NumberMayBegin, NumberFits, Reading, Current, IInv, AtStart
<1>2. PICK t, f, v : /\ t = Number /\ f = SkipWhitespace(input, NumberEnd(input, index))
                     /\ v = Value("number", Number)
  OBVIOUS
<1>3. v.type = "number" /\ v.content = t
  BY <1>2 DEF Value
<1>4. /\ Peek(input, First(input)) \in Digits \cup {Minus} /\ NumberEnd(input, First(input)) # 0
      /\ t = SubSeq(input, First(input), NumberEnd(input, First(input)) - 1) /\ t \notin Unrepresentable
      /\ f = SkipWhitespace(input, NumberEnd(input, First(input)))
  BY <1>1, <1>2 DEF Number
<1>5. /\ f \in Nat /\ 1 <= f /\ f <= Len(input) + 1
      /\ Peek(input, f) = AtEnd => t = Bare(input) /\ Denotes(Bare(input))
      /\ Peek(input, f) # AtEnd => ~Denotes(Bare(input))
  BY <1>4, InputBytes, NumberWhole DEF IInv
<1>6. ScalarRead(input, f, v)
  BY <1>3, <1>5 DEF ScalarRead
<1> QED
  BY <1>1, <1>2, <1>3, <1>5, <1>6, ReturnHolds

LEMMA OpenHolds ==
    ASSUME IInv, OpenString
    PROVE  IInv'
<1>0. input \in Bytes /\ Len(input) \in Nat /\ index \in Nat /\ 1 <= index /\ index <= Len(input) + 1
  BY InputBytes DEF IInv
<1>1. /\ status = "parsing" /\ phase = "value" /\ index = First(input) /\ text = <<>> /\ Peek(input, index) = Quote
      /\ phase' = "string" /\ index' = index + 1 /\ input' = input /\ text' = text /\ value' = value /\ status' = status
  BY DEF OpenString, Reading, Current, IInv, AtStart
<1>2. index <= Len(input) /\ input[index] = Quote
  <2>1. index <= Len(input)
    <3> SUFFICES ASSUME ~(index <= Len(input)) PROVE FALSE
      OBVIOUS
    <3>1. Peek(input, index) = -1
      BY <1>0, PeekIs
    <3> QED
      BY <1>1, <3>1 DEF Quote
  <2> QED
    BY <1>0, <1>1, <2>1, PeekIs
<1>3. TypeOK'
  BY <1>0, <1>1, <1>2 DEF IInv, TypeOK
<1>4. PICK lo, hi, i : lo = First(input) /\ hi = Last(input) /\ i = index + 1
  OBVIOUS
<1>5. StringPoints(Bare(input)) = Left(input, lo, hi, i)
  BY <1>0, <1>1, <1>2, <1>4, StringOpened
<1>6. Left(input, lo, hi, i) \subseteq Seq(Int)
  <2>1. lo \in Nat \ {0} /\ hi \in Nat /\ hi <= Len(input) /\ i \in Nat
    BY <1>0, <1>1, <1>2, <1>4, BareIs
  <2> QED
    BY <1>0, <2>1, LeftTyped
<1>7. Joined(Readings(text, Raw), Left(input, lo, hi, i)) = Left(input, lo, hi, i) /\ Readings(text, Raw) # {}
  BY <1>1, <1>6, ReadingsTyped, JoinedEnds
<1>8. First(input) < i /\ input[First(input)] = Quote
  BY <1>0, <1>1, <1>2, <1>4
<1>9. StringSoFar(input, i, text)
  BY <1>4, <1>5, <1>7, <1>8 DEF StringSoFar
<1> QED
  BY <1>1, <1>3, <1>4, <1>9 DEF IInv, AtStart, Inside, Behind, Ended

(* The text has a string in it. *)
LEMMA InsideIs ==
    ASSUME IInv, phase = "string"
    PROVE  /\ input \in Bytes /\ text \in Bytes /\ index \in Nat /\ index <= Len(input) + 1
           /\ First(input) \in Nat \ {0} /\ Last(input) \in Nat
           /\ First(input) <= Last(input) /\ Last(input) <= Len(input) /\ First(input) <= Len(input)
           /\ First(input) < index /\ input[First(input)] = Quote
           /\ Readings(text, Raw) # {} /\ Readings(text, Raw) \subseteq Seq(Int)
           /\ StringPoints(Bare(input)) = Joined(Readings(text, Raw), Left(input, First(input), Last(input), index))
<1>1. input \in Bytes /\ text \in Bytes /\ Len(input) \in Nat /\ index \in Nat /\ index <= Len(input) + 1
  BY InputBytes DEF IInv
<1>2. StringSoFar(input, index, text)
  BY DEF IInv, Inside
<1>3. /\ First(input) < index /\ input[First(input)] = Quote
      /\ Readings(text, Raw) # {}
      /\ StringPoints(Bare(input)) = Joined(Readings(text, Raw), Left(input, First(input), Last(input), index))
  BY <1>2, Zenon DEF StringSoFar
<1>4. First(input) \in Nat \ {0}
  BY <1>1, BareIs
<1>5. First(input) <= Len(input)
  BY <1>1, <1>3, <1>4
<1>6. Last(input) \in Nat /\ First(input) <= Last(input) /\ Last(input) <= Len(input)
  BY <1>1, <1>5, BareIs
<1>7. Readings(text, Raw) \subseteq Seq(Int)
  BY <1>1, ReadingsTyped
<1> QED
  BY <1>1, <1>3, <1>4, <1>5, <1>6, <1>7, Zenon

LEMMA AppendHolds ==
    ASSUME IInv, AppendPiece
    PROVE  IInv'
<1>1. /\ status = "parsing" /\ phase = "string" /\ Peek(input, index) # Quote /\ PieceAt(input, index) # Refused
      /\ text' = text \o PieceAt(input, index).bytes /\ index' = index + PieceAt(input, index).used
      /\ input' = input /\ phase' = phase /\ value' = value /\ status' = status
  BY DEF AppendPiece, Reading, Current
<1>2. PICK s, i, u, lo, hi : s = input /\ i = index /\ u = text /\ lo = First(input) /\ hi = Last(input)
  OBVIOUS
<1>3. /\ s \in Bytes /\ u \in Bytes /\ i \in Nat /\ lo \in Nat \ {0} /\ hi \in Nat /\ lo <= hi /\ hi <= Len(s)
      /\ lo < i /\ s[lo] = Quote /\ Readings(u, Raw) # {}
      /\ StringPoints(Bare(s)) = Joined(Readings(u, Raw), Left(s, lo, hi, i))
  BY <1>1, <1>2, InsideIs
<1>4. PICK e, v : e = i + PieceAt(s, i).used /\ v = u \o PieceAt(s, i).bytes
  OBVIOUS
<1>5. Peek(s, i) # Quote /\ PieceRead(s, i, u, e, v) /\ text' = v /\ index' = e /\ input' = s
  BY <1>1, <1>2, <1>4 DEF PieceRead
<1>6. /\ e \in Nat /\ lo < e /\ e <= Len(s) + 1
      /\ v \in Bytes /\ Readings(v, Raw) # {}
      /\ Joined(Readings(u, Raw), Left(s, lo, hi, i)) = Joined(Readings(v, Raw), Left(s, lo, hi, e))
  BY <1>3, <1>5, StringStep
<1>7. StringSoFar(s, e, v)
  BY <1>2, <1>3, <1>6 DEF StringSoFar
<1>8. TypeOK'
  <2>1. e \in 1 .. Len(s) + 1
    BY <1>3, <1>6, OfBytes
  <2>2. v \in Seq(0 .. 255)
    BY <1>6 DEF Bytes
  <2> QED
    BY <1>1, <1>2, <1>5, <2>1, <2>2 DEF IInv, TypeOK
<1> QED
  BY <1>1, <1>5, <1>7, <1>8 DEF IInv, AtStart, Inside, Behind, Ended

LEMMA CloseHolds ==
    ASSUME IInv, CloseString
    PROVE  IInv'
<1>1. /\ status = "parsing" /\ phase = "string" /\ Peek(input, index) = Quote
      /\ Return(Value("string", text), index + 1)
  BY DEF CloseString, Reading, Current
<1>2. PICK X, f, v : X = Readings(text, Raw) /\ f = SkipWhitespace(input, index + 1) /\ v = Value("string", text)
  OBVIOUS
<1>3. v.type = "string" /\ v.content = text
  BY <1>2 DEF Value
<1>4. /\ input \in Bytes /\ index \in Nat /\ First(input) <= Len(input)
      /\ First(input) < index /\ input[First(input)] = Quote /\ X # {} /\ X \subseteq Seq(Int)
      /\ StringPoints(Bare(input)) = Joined(X, Left(input, First(input), Last(input), index))
  BY <1>1, <1>2, InsideIs
<1>5. /\ f \in Nat /\ 1 <= f /\ f <= Len(input) + 1
      /\ Peek(input, f) = AtEnd => StringPoints(Bare(input)) = X
      /\ Peek(input, f) # AtEnd => ~Denotes(Bare(input))
  BY <1>1, <1>2, <1>4, StringClosed
<1>6. ScalarRead(input, f, v)
  BY <1>2, <1>3, <1>4, <1>5 DEF ScalarRead
<1> QED
  BY <1>1, <1>2, <1>3, <1>5, <1>6, ReturnHolds

(* The parser fails only where the text denotes nothing, or a number that the
   conversion refuses.                                                     *)
LEMMA FailHolds ==
    ASSUME IInv, Fail
    PROVE  IInv'
<1>0. /\ status = "parsing" /\ status' = "SerializationError"
      /\ input' = input /\ index' = index /\ phase' = phase /\ text' = text /\ value' = value
      /\ Readable => NumberMayBegin /\ Number \in Subnormal
  BY DEF Fail
<1>1. phase \in {"value", "string", "end of input"} /\ input \in Bytes
  BY InputBytes DEF IInv, TypeOK
<1>2. SUFFICES ASSUME Denotes(Bare(input)) PROVE Bare(input) \in Subnormal
  <2>1. TypeOK'
    BY <1>0 DEF IInv, TypeOK
  <2> QED
    BY <1>0, <1>2, <2>1 DEF IInv, AtStart, Inside, Behind, Ended
<1>3. CASE phase = "value"
  <2>1. index = First(input)
    BY <1>3 DEF IInv, AtStart
  <2>2. /\ First(input) <= Len(input)
        /\ \/ Peek(input, First(input)) = Quote
           \/ \E k \in Keywords : MatchKeyword(input, First(input), k)
           \/ /\ Peek(input, First(input)) \in Digits \cup {Minus}
              /\ IsNumber(Bare(input)) /\ Bare(input) \notin Unrepresentable
    BY <1>1, <1>2, Begins
  <2>3. ASSUME IsNumber(Bare(input)) PROVE Number = Bare(input) /\ NumberEnd(input, index) # 0
    <3>1. /\ NumberEnd(input, First(input)) = Last(input) + 1
          /\ SubSeq(input, First(input), NumberEnd(input, First(input)) - 1) = Bare(input)
      BY <1>1, <2>2, <2>3, BareNumber
    <3>2. Last(input) \in Nat
      BY <1>1, <2>2, BareIs
    <3> QED
      BY <2>1, <3>1, <3>2 DEF Number
  <2>4. \/ Current = Quote
        \/ \E k \in Keywords : MatchKeyword(input, index, k)
        \/ Current \in Digits \cup {Minus} /\ NumberFits
    BY <2>1, <2>2, <2>3 DEF Current, NumberFits
  <2>5. Readable
    BY <1>3, <2>4 DEF Readable
  <2>6. Peek(input, First(input)) \in Digits \cup {Minus} /\ Number \in Subnormal
    BY <1>0, <2>1, <2>5 DEF NumberMayBegin, Current
  <2>7. IsNumber(Bare(input))
    <3>1. PICK t, x : t = Bare(input) /\ x = input[First(input)]
      OBVIOUS
    <3>2. x = Peek(input, First(input))
      BY <1>1, <2>2, <3>1, BareIs, PeekIs
    <3>3. x \in Digits \cup {Minus} => (Denotes(t) <=> IsNumber(t) /\ t \notin Unrepresentable)
      BY <1>1, <2>2, <3>1, DenotesBy
    <3> QED
      BY <1>2, <2>6, <3>1, <3>2, <3>3
  <2> QED
    BY <2>3, <2>6, <2>7
<1>4. CASE phase = "string"
  <2>1. ~Readable
    BY <1>0, <1>4 DEF NumberMayBegin, Reading
  <2>2. Current # Quote /\ PieceAt(input, index) = Refused
    BY <1>4, <2>1 DEF Readable
  <2>3. PICK s, i, lo, hi, X : /\ s = input /\ i = index /\ lo = First(input) /\ hi = Last(input)
                               /\ X = Readings(text, Raw)
    OBVIOUS
  <2>4. /\ s \in Bytes /\ i \in Nat /\ lo \in Nat \ {0} /\ hi \in Nat /\ lo <= hi /\ hi <= Len(s) /\ lo <= Len(s)
        /\ lo < i /\ s[lo] = Quote /\ X \subseteq Seq(Int)
        /\ StringPoints(Bare(s)) = Joined(X, Left(s, lo, hi, i))
    BY <1>4, <2>3, InsideIs
  <2>5. Left(s, lo, hi, i) = {}
    BY <2>2, <2>3, <2>4, StringRefused DEF Current
  <2>6. StringPoints(Bare(s)) = {}
    BY <2>4, <2>5, JoinedEnds
  <2>7. ~Denotes(Bare(s))
    BY <2>3, <2>4, <2>6, DenotesBy
  <2> QED
    BY <1>2, <2>3, <2>7
<1>5. CASE phase = "end of input"
  <2>1. ~Readable
    BY <1>0, <1>5 DEF NumberMayBegin, Reading
  <2>2. Current # AtEnd
    BY <1>5, <2>1 DEF Readable
  <2> QED
    BY <1>2, <1>5, <2>2 DEF IInv, Behind, ScalarRead, Current
<1> QED
  BY <1>1, <1>3, <1>4, <1>5

LEMMA StepHolds == IInv /\ [Next]_vars => IInv'
<1> SUFFICES ASSUME IInv, [Next]_vars PROVE IInv'
  OBVIOUS
<1>1. CASE ReadKeyword
  BY <1>1, KeywordHolds
<1>2. CASE OpenString
  BY <1>2, OpenHolds
<1>3. CASE AppendPiece
  BY <1>3, AppendHolds
<1>4. CASE CloseString
  BY <1>4, CloseHolds
<1>5. CASE ReadNumber
  BY <1>5, NumberHolds
<1>6. CASE Finish
  BY <1>6 DEF Finish, Reading, Current, IInv, TypeOK, AtStart, Inside, Behind, Ended
<1>7. CASE Fail
  BY <1>7, FailHolds
<1>8. CASE UNCHANGED vars
  BY <1>8 DEF vars, IInv, TypeOK, AtStart, Inside, Behind, Ended
<1> QED
  BY <1>1, <1>2, <1>3, <1>4, <1>5, <1>6, <1>7, <1>8 DEF Next, Done

(* What the two theorems below follow from. *)
THEOREM ScalarInvariance == Spec => []IInv
  BY InitHolds, StepHolds, PTL DEF Spec

(* The place in the text stays within it or one behind it, and the string that is
   being put together consists of bytes, for any texts.                    *)
THEOREM ScalarTypeCorrect == Spec => []TypeOK
<1>1. IInv => TypeOK
  BY DEF IInv
<1> QED
  BY <1>1, ScalarInvariance, PTL

(* ParseJson reads a text of one string, number or keyword, of any length, for
   what the grammar says that it denotes, and refuses every other: one way to
   cut a string into escapes and UTF-8 forms, the parser's, finds every code
   point that any way finds, and a prefix of a number that is a number is never
   taken for the whole.                                                    *)
THEOREM ScalarsExact == Spec => []ScalarsReadExactly
<1>1. IInv => ScalarsReadExactly
  <2> SUFFICES ASSUME IInv PROVE ScalarsReadExactly
    OBVIOUS
  <2>1. PICK t : t = Bare(input)
    OBVIOUS
  <2>2. ASSUME status = "parsed" PROVE ScalarRead(input, index, value) /\ Peek(input, index) = AtEnd
    BY <2>2 DEF IInv, Behind, Ended
  <2>3. status = "parsed" /\ value.type = "string" =>
            StringPoints(t) = Readings(value.content, Raw) /\ StringPoints(t) # {}
    BY <2>1, <2>2 DEF ScalarRead
  <2>4. status = "parsed" /\ value.type # "string" => value.content = t /\ Denotes(t)
    BY <2>1, <2>2 DEF ScalarRead
  <2>5. status = "SerializationError" => t \in Subnormal \/ ~Denotes(t)
    BY <2>1 DEF IInv, Ended
  <2> QED
    BY <2>1, <2>3, <2>4, <2>5, Zenon DEF ScalarsReadExactly
<1> QED
  BY <1>1, ScalarInvariance, PTL
=============================================================================
