------------------------- MODULE RequestBuildProofs -------------------------
(***************************************************************************)
(* What RequestBuild sends, for any configuration and request: which       *)
(* headers, lists, addresses and timeouts, in what lines; that normalizing *)
(* is stable; and which authorities are let through, with hosts and ports  *)
(* of any length.                                                          *)
(***************************************************************************)
EXTENDS RequestBuild, WellFoundedInduction, TLAPS

(* Each phase holds what the ones before it have made of the input. *)
IInv ==
    /\ \E input \in Inputs :
           bulk = input.bulk /\ rawConfig = input.config /\ rawRequest = input.request
    /\ phase \in {"configured", "normalized", "built"} =>
           ValidConfig(rawConfig) /\ config = NormalizeConfig(rawConfig)
    /\ phase \in {"normalized", "built"} =>
           ValidRequest(rawRequest) /\ request = NormalizeRequest(rawRequest)
    /\ phase = "built" => data = HttpRequestData
    /\ phase = "new" \/ ~ValidConfig(rawConfig) => config = Absent
    /\ phase # "new" /\ ValidConfig(rawConfig) => config = NormalizeConfig(rawConfig)

THEOREM BuildInvariance == Spec => []IInv
<1>1. Init => IInv
  BY DEF Init, IInv
<1>2. IInv /\ [Next]_vars => IInv'
  <2> SUFFICES ASSUME IInv, [Next]_vars PROVE IInv'
    OBVIOUS
  <2>1. CASE Configure
    BY <2>1 DEF IInv, Configure
  <2>2. CASE ConfigRefused
    BY <2>2 DEF IInv, ConfigRefused
  <2>3. CASE Normalize
    <3>1. ValidRequest(rawRequest) /\ ValidRequest(rawRequest)'
      BY <2>3 DEF Normalize, ValidRequest
    <3>2. NormalizeRequest(rawRequest)' = NormalizeRequest(rawRequest)
      BY <2>3 DEF Normalize, NormalizeRequest
    <3> QED
      BY <2>3, <3>1, <3>2 DEF IInv, Normalize
  <2>4. CASE RequestRefused
    BY <2>4 DEF IInv, RequestRefused
  <2>5. CASE Build
    <3>1. HttpRequestData' = HttpRequestData
      BY <2>5 DEF Build, HttpRequestData, Query, RequestHeaders
    <3>2. ValidRequest(rawRequest)' = ValidRequest(rawRequest)
      BY <2>5 DEF Build, ValidRequest
    <3>3. NormalizeRequest(rawRequest)' = NormalizeRequest(rawRequest)
      BY <2>5 DEF Build, NormalizeRequest
    <3> QED
      BY <2>5, <3>1, <3>2, <3>3 DEF IInv, Build
  <2>6. CASE UNCHANGED vars
    BY <2>6 DEF IInv, vars, ValidRequest, NormalizeRequest, HttpRequestData, Query,
                RequestHeaders
  <2> QED
    BY <2>1, <2>2, <2>3, <2>4, <2>5, <2>6 DEF Next, Done
<1> QED
  BY <1>1, <1>2, PTL DEF Spec

-----------------------------------------------------------------------------
(* What normalization leaves in the fields that the theorems are about. *)
HasFields(r) ==
    /\ {"lang", "include", "fields", "excludes", "user_agent", "headers", "output"}
           \subseteq DOMAIN r
    /\ IF bulk THEN "ips" \in DOMAIN r ELSE "ip" \in DOMAIN r

LEMMA NormalizedRequest ==
    ASSUME NEW r, HasFields(r)
    PROVE  /\ NormalizeRequest(r) = [key \in DOMAIN r |-> NormalizeRequest(r)[key]]
           /\ NormalizeRequest(r).headers = NormalizeHeaders(r.headers)
           /\ NormalizeRequest(r).user_agent = TrimOptional(r.user_agent)
           /\ NormalizeRequest(r).lang = NormalizeLanguage(r.lang)
           /\ \A key \in {"include", "fields", "excludes"} :
                  NormalizeRequest(r)[key] = NormalizeStringList(r[key])
           /\ bulk => NormalizeRequest(r).ips = NormalizeIpList(r.ips)
           /\ ~bulk => NormalizeRequest(r).ip = NormalizeLookupIp(r.ip)
           /\ \A key \in DOMAIN r :
                  \/ key \in {"headers", "user_agent", "lang", "include", "fields", "excludes"}
                  \/ key = (IF bulk THEN "ips" ELSE "ip")
                  \/ NormalizeRequest(r)[key] = r[key]
<1>1. PICK c : c = NormalizeCommon(r)
  OBVIOUS
<1>2. DOMAIN c = DOMAIN r
  BY <1>1 DEF NormalizeCommon
<1>3. c.headers = NormalizeHeaders(r.headers)
  BY <1>1, Zenon DEF NormalizeCommon, HasFields
<1>4. c.user_agent = TrimOptional(r.user_agent)
  BY <1>1, Zenon DEF NormalizeCommon, HasFields
<1>5. \A key \in DOMAIN r :
          \/ key \in {"headers", "user_agent", "lang", "include", "fields", "excludes"}
          \/ c[key] = r[key]
  BY <1>1, Zenon DEF NormalizeCommon
<1>6. c.lang = NormalizeLanguage(r.lang)
  BY <1>1, Zenon DEF NormalizeCommon, HasFields
<1>7. /\ c.include = NormalizeStringList(r.include)
      /\ c.fields = NormalizeStringList(r.fields)
      /\ c.excludes = NormalizeStringList(r.excludes)
  BY <1>1, Zenon DEF NormalizeCommon, HasFields
<1>8. (bulk => c.ips = r.ips) /\ (~bulk => c.ip = r.ip)
  BY <1>1, Zenon DEF NormalizeCommon, HasFields
<1>9. CASE bulk
  <2>1. PICK n : n = [c EXCEPT !.ips = NormalizeIpList(@)]
    OBVIOUS
  <2>2. /\ n = [key \in DOMAIN r |-> n[key]]
        /\ n.ips = NormalizeIpList(r.ips)
        /\ \A key \in DOMAIN r : key = "ips" \/ n[key] = c[key]
    BY <1>2, <1>8, <1>9, <2>1 DEF HasFields
  <2>3. NormalizeRequest(r) = n
    BY <1>1, <1>9, <2>1, Zenon DEF NormalizeRequest
  <2> QED
    BY <1>3, <1>4, <1>5, <1>6, <1>7, <1>9, <2>2, <2>3 DEF HasFields
<1>10. CASE ~bulk
  <2>1. PICK n : n = [c EXCEPT !.ip = NormalizeLookupIp(@)]
    OBVIOUS
  <2>2. /\ n = [key \in DOMAIN r |-> n[key]]
        /\ n.ip = NormalizeLookupIp(r.ip)
        /\ \A key \in DOMAIN r : key = "ip" \/ n[key] = c[key]
    BY <1>2, <1>8, <1>10, <2>1 DEF HasFields
  <2>3. NormalizeRequest(r) = n
    BY <1>1, <1>10, <2>1, Zenon DEF NormalizeRequest
  <2> QED
    BY <1>3, <1>4, <1>5, <1>6, <1>7, <1>10, <2>2, <2>3 DEF HasFields
<1> QED
  BY <1>9, <1>10

LEMMA NormalizedConfig ==
    ASSUME NEW c, IsConfig(c)
    PROVE  /\ NormalizeConfig(c).api_key = TrimOptional(c.api_key)
           /\ NormalizeConfig(c).request_origin = NormalizeRequestOrigin(c.request_origin)
           /\ NormalizeConfig(c).base_url = NormalizeBaseUrl(c.base_url)
           /\ NormalizeConfig(c).connect_timeout = c.connect_timeout
           /\ NormalizeConfig(c).read_timeout = c.read_timeout
           /\ NormalizeConfig(c).max_response_body_chars = c.max_response_body_chars
  BY DEF NormalizeConfig, IsConfig

LEMMA TrimKeepsWord ==
    ASSUME NEW x, IsText(x)
    PROVE  Trim(x).word = x.word /\ Trim(x) # Absent
  BY DEF IsText, Trim

(* A name that was trimmed keeps its field and its spelling. *)
LEMMA TrimName ==
    ASSUME NEW n, IsHeaderName(n)
    PROVE  /\ Trim(n).field = n.field /\ Trim(n).spelling = n.spelling
           /\ Trim(n).inner = n.inner /\ Trim(n).edge = "none"
           /\ Trim(Trim(n)) = Trim(n)
  BY DEF IsHeaderName, Trim

(* Every name has a value, which was given for it. *)
LEMMA NormalizedHeaders ==
    ASSUME NEW headers,
           \A n \in DOMAIN headers : n.edge \in DOMAIN Rank
    PROVE  /\ DOMAIN NormalizeHeaders(headers) = {Trim(n) : n \in DOMAIN headers}
           /\ \A w \in DOMAIN NormalizeHeaders(headers) : \E n \in DOMAIN headers :
                  Trim(n) = w /\ NormalizeHeaders(headers)[w] = Trim(headers[n])
<1>1. DOMAIN NormalizeHeaders(headers) = {Trim(n) : n \in DOMAIN headers}
  BY DEF NormalizeHeaders
<1>2. ASSUME NEW w \in DOMAIN NormalizeHeaders(headers)
      PROVE  \E n \in DOMAIN headers :
                 Trim(n) = w /\ NormalizeHeaders(headers)[w] = Trim(headers[n])
  <2> DEFINE spelled == {n \in DOMAIN headers : Trim(n) = w}
             IsLast(n) == \A m \in spelled : Rank[m.edge] <= Rank[n.edge]
  <2>1. \A n \in DOMAIN headers : Rank[n.edge] \in 0 .. 3
    <3>1. DOMAIN Rank = {"newline", "control", "before", "none", "after"}
      BY DEF Rank
    <3>2. /\ Rank["newline"] = 0 /\ Rank["control"] = 0 /\ Rank["before"] = 1
          /\ Rank["none"] = 2 /\ Rank["after"] = 3
      BY DEF Rank
    <3> QED
      BY <3>1, <3>2
  <2>2. PICK n0 \in spelled : TRUE
    BY <1>1
  <2>3. \E n \in spelled : IsLast(n)
    <3>1. CASE \E n \in spelled : Rank[n.edge] = 2
      BY <2>1, <3>1
    <3>2. CASE \A n \in spelled : Rank[n.edge] \in 0 .. 1
      <4>1. CASE \E n \in spelled : Rank[n.edge] = 1
        BY <3>2, <4>1
      <4>2. CASE \A n \in spelled : Rank[n.edge] = 0
        BY <2>2, <4>2
      <4> QED
        BY <3>2, <4>1, <4>2
    <3> QED
      BY <2>1, <3>1, <3>2
  <2> DEFINE last == CHOOSE n \in spelled : IsLast(n)
  <2>4. last \in spelled
    BY <2>3
  <2>5. NormalizeHeaders(headers)[w] = Trim(headers[last])
    BY <1>1 DEF NormalizeHeaders
  <2> QED
    BY <2>4, <2>5
<1> QED
  BY <1>1, <1>2

(* A header that is there in any case has a value, of one of its spellings. *)
LEMMA FirstSpelling ==
    ASSUME NEW headers, NEW field,
           \A n \in DOMAIN headers : n.spelling \in 1 .. 3 /\ headers[n] # Absent
    PROVE  LET named == {n \in DOMAIN headers : n.field = field}
               value == HeaderValueCaseInsensitive(headers, field)
           IN  /\ named = {} <=> value = Absent
               /\ named # {} => \E n \in named : value = headers[n]
<1> DEFINE named == {n \in DOMAIN headers : n.field = field}
           IsFirst(n) == \A m \in named : n.spelling <= m.spelling
<1>1. CASE named = {}
  BY <1>1 DEF HeaderValueCaseInsensitive
<1>2. CASE named # {}
  <2>1. \E n \in named : IsFirst(n)
    <3>1. CASE \E n \in named : n.spelling = 1
      BY <3>1
    <3>2. CASE \A n \in named : n.spelling \in 2 .. 3
      <4>1. CASE \E n \in named : n.spelling = 2
        BY <3>2, <4>1
      <4>2. CASE \A n \in named : n.spelling = 3
        BY <1>2, <4>2
      <4> QED
        BY <3>2, <4>1, <4>2
    <3> QED
      BY <3>1, <3>2
  <2>2. (CHOOSE n \in named : IsFirst(n)) \in named
    BY <2>1
  <2>3. HeaderValueCaseInsensitive(headers, field) = headers[CHOOSE n \in named : IsFirst(n)]
    BY <1>2 DEF HeaderValueCaseInsensitive
  <2> QED
    BY <1>2, <2>2, <2>3
<1> QED
  BY <1>1, <1>2

-----------------------------------------------------------------------------
(* There is one header of this field, with this value. *)
OneHeader(headers, field, value) ==
    /\ {n \in DOMAIN headers : n.field = field} = {Canonical(field)}
    /\ headers[Canonical(field)] = value

LEMMA SetHeader ==
    ASSUME NEW headers, NEW field, NEW value
    PROVE  LET after == SetHeaderCaseInsensitive(headers, field, value)
           IN  /\ OneHeader(after, field, value)
               /\ \A n : n.field # field =>
                      /\ n \in DOMAIN after <=> n \in DOMAIN headers
                      /\ n \in DOMAIN headers => after[n] = headers[n]
<1> DEFINE after == SetHeaderCaseInsensitive(headers, field, value)
<1>1. Canonical(field).field = field
  BY DEF Canonical
<1>2. DOMAIN after = {m \in DOMAIN headers : m.field # field} \cup {Canonical(field)}
  BY DEF SetHeaderCaseInsensitive
<1>3. after[Canonical(field)] = value
  BY DEF SetHeaderCaseInsensitive
<1>4. \A n \in DOMAIN headers : n.field # field => after[n] = headers[n]
  BY <1>1 DEF SetHeaderCaseInsensitive
<1>5. OneHeader(after, field, value)
  BY <1>1, <1>2, <1>3 DEF OneHeader
<1> QED
  BY <1>1, <1>2, <1>4, <1>5

LEMMA SetAnotherHeader ==
    ASSUME NEW headers, NEW field, NEW value, NEW other, NEW set, other # field,
           OneHeader(headers, other, set)
    PROVE  OneHeader(SetHeaderCaseInsensitive(headers, field, value), other, set)
<1> DEFINE after == SetHeaderCaseInsensitive(headers, field, value)
<1>1. \A n : n.field # field =>
          /\ n \in DOMAIN after <=> n \in DOMAIN headers
          /\ n \in DOMAIN headers => after[n] = headers[n]
  BY SetHeader
<1>2. Canonical(other).field = other /\ Canonical(other) \in DOMAIN headers
  BY DEF OneHeader, Canonical
<1>3. {n \in DOMAIN after : n.field = other} = {n \in DOMAIN headers : n.field = other}
  BY <1>1
<1> QED
  BY <1>1, <1>2, <1>3 DEF OneHeader

-----------------------------------------------------------------------------
(* A set of numbers that holds 0, and with a number the next one, holds all: what
   is left out would have a least element.                                 *)
LEMMA Induct ==
    ASSUME NEW T, 0 \in T, \A n \in Nat : n \in T => n + 1 \in T
    PROVE  Nat \subseteq T
<1> SUFFICES ASSUME Nat \ T # {} PROVE FALSE
  OBVIOUS
<1>1. PICK n \in Nat \ T : \A m \in Nat \ T : ~(<<m, n>> \in OpToRel(<, Nat))
  BY NatLessThanWellFounded, WFMin
<1>2. \A m \in Nat : m < n => <<m, n>> \in OpToRel(<, Nat)
  BY DEF OpToRel
<1>3. n # 0
  OBVIOUS
<1>4. n - 1 \in Nat /\ n - 1 < n /\ (n - 1) + 1 = n
  BY <1>3
<1>5. n - 1 \in T
  BY <1>1, <1>2, <1>4
<1> QED
  BY <1>4, <1>5

(* f has a value for each number up to N: base, and from then on a step from the
   value before.                                                           *)
Recurs(f, N, S, base, step) ==
    /\ f \in [0 .. N -> S] /\ f[0] = base
    /\ \A n \in 1 .. N : f[n] = step[n][f[n - 1]]

(* There is such a function. *)
LEMMA Recursion ==
    ASSUME NEW N \in Nat, NEW S, NEW base \in S, NEW step \in [1 .. N -> [S -> S]]
    PROVE  \E f : Recurs(f, N, S, base, step)
<1> DEFINE T == {m \in Nat : m <= N => \E f : Recurs(f, m, S, base, step)}
<1>1. 0 \in T
  <2>1. Recurs([n \in {0} |-> base], 0, S, base, step)
    BY DEF Recurs
  <2> QED
    BY <2>1
<1>2. ASSUME NEW m \in Nat, m \in T PROVE m + 1 \in T
  <2> SUFFICES ASSUME m + 1 <= N PROVE \E g : Recurs(g, m + 1, S, base, step)
    OBVIOUS
  <2>0. PICK f : Recurs(f, m, S, base, step)
    BY <1>2
  <2>1. /\ f \in [0 .. m -> S] /\ f[0] = base
        /\ \A n \in 1 .. m : f[n] = step[n][f[n - 1]]
    BY <2>0 DEF Recurs
  <2> DEFINE g == [n \in 0 .. m + 1 |-> IF n = m + 1 THEN step[n][f[m]] ELSE f[n]]
  <2>2. \A n \in 0 .. m : g[n] = f[n] /\ f[n] \in S
    BY <2>1
  <2>3. g[m + 1] = step[m + 1][f[m]] /\ g[m + 1] \in S
    <3>1. m + 1 \in 1 .. N /\ m \in 0 .. m /\ m + 1 \in 0 .. m + 1
      OBVIOUS
    <3>2. f[m] \in S
      BY <2>1, <3>1
    <3> QED
      BY <3>1, <3>2
  <2> HIDE DEF g
  <2>4. \A n \in 0 .. m + 1 : n = m + 1 \/ n \in 0 .. m
    OBVIOUS
  <2>5. g \in [0 .. m + 1 -> S]
    BY <2>2, <2>3, <2>4 DEF g
  <2>6. ASSUME NEW n \in 1 .. m + 1 PROVE g[n] = step[n][g[n - 1]]
    <3>1. CASE n = m + 1
      BY <2>2, <2>3, <3>1
    <3>2. CASE n # m + 1
      <4>1. n \in 1 .. m /\ n \in 0 .. m /\ n - 1 \in 0 .. m
        BY <3>2
      <4> QED
        BY <2>1, <2>2, <4>1
    <3> QED
      BY <3>1, <3>2
  <2>7. g[0] = base
    BY <2>1, <2>2
  <2> QED
    BY <2>5, <2>6, <2>7 DEF Recurs
<1>3. N \in T
  <2> HIDE DEF T
  <2> QED
    BY <1>1, <1>2, Induct
<1> QED
  BY <1>3

-----------------------------------------------------------------------------
Trimmed(values) == {Trim(values[i]) : i \in DOMAIN values}

(* What the loop of NormalizeStringList has kept of the first n values. *)
IsKept(values, kept) ==
    /\ kept[0] = <<>>
    /\ \A n \in 1 .. Len(values) :
           kept[n] = IF Contains(kept[n - 1], Trim(values[n])) THEN kept[n - 1]
                     ELSE Append(kept[n - 1], Trim(values[n]))

LEMMA KeptByNormalizeStringList ==
    ASSUME NEW values, IsList(values)
    PROVE  \E kept : IsKept(values, kept) /\ NormalizeStringList(values) = kept[Len(values)]
<1> DEFINE N == Len(values)
           S == Seq(Trimmed(values))
           Next1(n, s) == IF Contains(s, Trim(values[n])) THEN s ELSE Append(s, Trim(values[n]))
           step == [n \in 1 .. N |-> [s \in S |-> Next1(n, s)]]
           kept[n \in 0 .. N] ==
               IF n = 0 THEN <<>>
               ELSE IF Contains(kept[n - 1], Trim(values[n])) THEN kept[n - 1]
               ELSE Append(kept[n - 1], Trim(values[n]))
<1>1. N \in Nat /\ DOMAIN values = 1 .. N
  BY DEF IsList
<1>2. <<>> \in S
  OBVIOUS
<1>3. \A n \in 1 .. N : Trim(values[n]) \in Trimmed(values)
  BY <1>1 DEF Trimmed
<1>4. ASSUME NEW n \in 1 .. N, NEW s \in S PROVE Next1(n, s) \in S
  <2>1. Append(s, Trim(values[n])) \in S
    BY <1>3
  <2> QED
    BY <2>1
<1>5. step \in [1 .. N -> [S -> S]]
  BY <1>4
<1>6. \A n \in 1 .. N, s \in S : step[n][s] = Next1(n, s)
  OBVIOUS
<1>7. PICK f \in [0 .. N -> S] :
          f[0] = <<>> /\ \A n \in 1 .. N : f[n] = step[n][f[n - 1]]
  <2> HIDE DEF step, S, N
  <2>1. PICK base : base = <<>>
    OBVIOUS
  <2>2. PICK f : Recurs(f, N, S, base, step)
    BY <1>1, <1>2, <1>5, <2>1, Recursion, Zenon
  <2> QED
    BY <2>1, <2>2 DEF Recurs
<1>8. \A n \in 1 .. N : n - 1 \in 0 .. N /\ f[n - 1] \in S
  BY <1>1
<1>9. f = [n \in 0 .. N |->
              IF n = 0 THEN <<>>
              ELSE IF Contains(f[n - 1], Trim(values[n])) THEN f[n - 1]
              ELSE Append(f[n - 1], Trim(values[n]))]
  <2>1. \A n \in 1 .. N : f[n] = Next1(n, f[n - 1])
    BY <1>6, <1>7, <1>8
  <2>2. \A n \in 0 .. N : n # 0 => n \in 1 .. N
    BY <1>1
  <2> QED
    BY <1>7, <2>1, <2>2
<1>10. kept = [n \in 0 .. N |->
                  IF n = 0 THEN <<>>
                  ELSE IF Contains(kept[n - 1], Trim(values[n])) THEN kept[n - 1]
                  ELSE Append(kept[n - 1], Trim(values[n]))]
  BY <1>9
<1>11. NormalizeStringList(values) = kept[N]
  BY DEF NormalizeStringList
<1>12. IsKept(values, kept)
  <2> HIDE DEF kept
  <2>1. kept[0] = <<>>
    BY <1>1, <1>10
  <2>2. \A n \in 1 .. N : n # 0 /\ n \in 0 .. N
    BY <1>1
  <2>3. \A n \in 1 .. N :
            kept[n] = IF Contains(kept[n - 1], Trim(values[n])) THEN kept[n - 1]
                      ELSE Append(kept[n - 1], Trim(values[n]))
    BY <1>10, <2>2
  <2> QED
    BY <2>1, <2>3 DEF IsKept
<1> QED
  BY <1>11, <1>12

(* first names for each of s the first of the n values that it is. *)
AreFirst(first, values, n, s) ==
    /\ first \in [1 .. Len(s) -> 1 .. n]
    /\ \A j \in 1 .. Len(s) :
           /\ s[j] = Trim(values[first[j]])
           /\ \A i \in 1 .. first[j] - 1 : Trim(values[i]) # s[j]
    /\ \A j, k \in 1 .. Len(s) : j < k => first[j] < first[k]

(* s is the first n values, each once, in the order they are first met. *)
OnceInOrder(values, n, s) ==
    /\ s \in Seq(Trimmed(values))
    /\ \A i \in 1 .. n : \E j \in 1 .. Len(s) : s[j] = Trim(values[i])
    /\ \E first : AreFirst(first, values, n, s)

LEMMA OneMoreValue ==
    ASSUME NEW values, IsList(values), NEW n \in Nat, n + 1 \in 1 .. Len(values),
           NEW s, OnceInOrder(values, n, s)
    PROVE  OnceInOrder(values, n + 1,
               IF Contains(s, Trim(values[n + 1])) THEN s ELSE Append(s, Trim(values[n + 1])))
<1> DEFINE v == Trim(values[n + 1])
<1>1. PICK first : AreFirst(first, values, n, s)
  BY DEF OnceInOrder
<1>2. /\ s \in Seq(Trimmed(values)) /\ Len(s) \in Nat
      /\ \A i \in 1 .. n : \E j \in 1 .. Len(s) : s[j] = Trim(values[i])
  BY DEF OnceInOrder
<1>3. v \in Trimmed(values)
  BY DEF Trimmed, IsList
<1>4. Contains(s, v) <=> \E j \in 1 .. Len(s) : s[j] = v
  BY DEF Contains
<1> HIDE DEF v
<1>5. CASE Contains(s, v)
  <2>1. AreFirst(first, values, n + 1, s)
    BY <1>1 DEF AreFirst
  <2>2. \A i \in 1 .. n + 1 : \E j \in 1 .. Len(s) : s[j] = Trim(values[i])
    BY <1>2, <1>4, <1>5 DEF v
  <2>3. OnceInOrder(values, n + 1, s)
    BY <1>2, <2>1, <2>2 DEF OnceInOrder
  <2> QED
    BY <1>5, <2>3 DEF v
<1>6. CASE ~Contains(s, v)
  <2> DEFINE l == Len(s)
             t == Append(s, v)
             firsts == [j \in 1 .. l + 1 |-> IF j = l + 1 THEN n + 1 ELSE first[j]]
  <2>1. /\ t \in Seq(Trimmed(values)) /\ Len(t) = l + 1
        /\ \A j \in 1 .. l : t[j] = s[j]
        /\ t[l + 1] = v
    BY <1>2, <1>3
  <2>0. l + 1 \in 1 .. l + 1 /\ l + 1 \notin 1 .. l /\ 1 .. l \subseteq 1 .. l + 1
    BY <1>2
  <2>2. /\ \A j \in 1 .. l : firsts[j] = first[j] /\ firsts[j] \in 1 .. n
        /\ firsts[l + 1] = n + 1
    BY <1>1, <2>0 DEF AreFirst
  <2>3. \A j \in 1 .. l + 1 : j = l + 1 \/ j \in 1 .. l
    BY <1>2
  <2>4. \A i \in 1 .. n : Trim(values[i]) # v
    BY <1>2, <1>4, <1>6
  <2>5. firsts \in [1 .. l + 1 -> 1 .. n + 1]
    <3>1. \A j \in 1 .. l + 1 : firsts[j] \in 1 .. n + 1
      <4> HIDE DEF firsts
      <4> QED
        BY <2>2, <2>3
    <3> QED
      BY <3>1
  <2> HIDE DEF firsts, t
  <2>6. ASSUME NEW j \in 1 .. l + 1
        PROVE  t[j] = Trim(values[firsts[j]]) /\ \A i \in 1 .. firsts[j] - 1 : Trim(values[i]) # t[j]
    <3>1. CASE j = l + 1
      BY <2>1, <2>2, <2>4, <3>1 DEF v
    <3>2. CASE j \in 1 .. l
      BY <1>1, <2>1, <2>2, <3>2 DEF AreFirst
    <3> QED
      BY <2>3, <3>1, <3>2
  <2>7. ASSUME NEW j \in 1 .. l + 1, NEW k \in 1 .. l + 1, j < k
        PROVE  firsts[j] < firsts[k]
    <3>1. j \in 1 .. l
      BY <1>2, <2>7
    <3>2. CASE k = l + 1
      BY <2>2, <3>1, <3>2
    <3>3. CASE k \in 1 .. l
      BY <1>1, <2>2, <2>7, <3>1, <3>3 DEF AreFirst
    <3> QED
      BY <2>3, <3>2, <3>3
  <2>8. AreFirst(firsts, values, n + 1, t)
    BY <2>1, <2>5, <2>6, <2>7 DEF AreFirst
  <2>9. ASSUME NEW i \in 1 .. n + 1 PROVE \E j \in 1 .. l + 1 : t[j] = Trim(values[i])
    <3>1. CASE i = n + 1
      <4>1. l + 1 \in 1 .. l + 1
        BY <1>2
      <4> QED
        BY <2>1, <3>1, <4>1 DEF v
    <3>2. CASE i # n + 1
      <4>1. PICK j \in 1 .. l : s[j] = Trim(values[i])
        BY <1>2, <3>2
      <4> QED
        BY <1>2, <2>1, <4>1
    <3> QED
      BY <3>1, <3>2
  <2>10. OnceInOrder(values, n + 1, t)
    BY <2>1, <2>8, <2>9 DEF OnceInOrder
  <2> QED
    BY <1>6, <2>10 DEF v, t
<1> QED
  BY <1>5, <1>6

(* A list is normalized to its values, each once and in order. *)
LEMMA Deduplicated ==
    ASSUME NEW values, IsList(values)
    PROVE  OnceInOrder(values, Len(values), NormalizeStringList(values))
<1> DEFINE N == Len(values)
<1>1. PICK kept : IsKept(values, kept) /\ NormalizeStringList(values) = kept[N]
  BY KeptByNormalizeStringList
<1> DEFINE T == {n \in Nat : n <= N => OnceInOrder(values, n, kept[n])}
<1>2. N \in Nat
  BY DEF IsList
<1>3. 0 \in T
  <2>1. kept[0] = <<>>
    BY <1>1 DEF IsKept
  <2>2. \E first : AreFirst(first, values, 0, <<>>)
    <3>1. PICK first : first = [j \in 1 .. 0 |-> 0]
      OBVIOUS
    <3>2. first \in [1 .. 0 -> 1 .. 0] /\ Len(<<>>) = 0
      BY <3>1
    <3>3. AreFirst(first, values, 0, <<>>)
      BY <3>2 DEF AreFirst
    <3> QED
      BY <3>3
  <2>3. OnceInOrder(values, 0, <<>>)
    BY <2>2 DEF OnceInOrder
  <2> QED
    BY <2>1, <2>3
<1>4. ASSUME NEW n \in Nat, n \in T PROVE n + 1 \in T
  <2> SUFFICES ASSUME n + 1 <= N PROVE OnceInOrder(values, n + 1, kept[n + 1])
    OBVIOUS
  <2>1. n + 1 \in 1 .. N /\ (n + 1) - 1 = n
    BY <1>2
  <2>2. kept[n + 1] = IF Contains(kept[n], Trim(values[n + 1])) THEN kept[n]
                      ELSE Append(kept[n], Trim(values[n + 1]))
    BY <1>1, <2>1 DEF IsKept
  <2>3. OnceInOrder(values, n, kept[n])
    BY <1>2, <1>4
  <2> QED
    BY <2>1, <2>2, <2>3, OneMoreValue
<1>5. N \in T
  <2> HIDE DEF T
  <2> QED
    BY <1>2, <1>3, <1>4, Induct
<1> QED
  BY <1>1, <1>2, <1>5

(* Escaping keeps different values apart. *)
LEMMA EscapedApart ==
    ASSUME NEW x \in DOMAIN Escaped \cup {"clean"}, NEW y \in DOMAIN Escaped \cup {"clean"},
           (IF x = "clean" THEN x ELSE Escaped[x]) = (IF y = "clean" THEN y ELSE Escaped[y])
    PROVE  x = y
<1>1. DOMAIN Escaped = {"newline", "control", "separator", "nothing", "quote", "delete",
                     "tab"}
  BY DEF Escaped
<1>2. /\ Escaped["newline"] = "escaped newline" /\ Escaped["control"] = "escaped control"
      /\ Escaped["separator"] = "escaped separator" /\ Escaped["nothing"] = "escaped nothing"
      /\ Escaped["quote"] = "escaped quote" /\ Escaped["delete"] = "escaped delete"
      /\ Escaped["tab"] = "escaped tab"
  BY DEF Escaped
<1> QED
  BY <1>1, <1>2

LEMMA UrlEncodeApart ==
    ASSUME NEW x, IsText(x), NEW y, IsText(y), UrlEncode(Trim(x)) = UrlEncode(Trim(y))
    PROVE  Trim(x) = Trim(y)
<1> DEFINE Code(i) == IF i = "clean" THEN i ELSE Escaped[i]
<1>1. ASSUME NEW z, IsText(z)
      PROVE  /\ UrlEncode(Trim(z)).word = z.word
             /\ UrlEncode(Trim(z)).inner = Code(z.inner)
             /\ Trim(z) = [word |-> z.word, edge |-> "none", inner |-> z.inner]
  <2>1. PICK t : t = Trim(z)
    OBVIOUS
  <2>2. /\ DOMAIN t = {"word", "edge", "inner"}
        /\ t.word = z.word /\ t.edge = "none" /\ t.inner = z.inner
        /\ t = [word |-> z.word, edge |-> "none", inner |-> z.inner]
    BY <1>1, <2>1 DEF Trim, IsText
  <2>3. UrlEncode(t).word = t.word /\ UrlEncode(t).inner = Code(t.inner)
    BY <2>2 DEF UrlEncode
  <2> QED
    BY <2>1, <2>2, <2>3
<1>2. x.word = y.word /\ Code(x.inner) = Code(y.inner)
  BY <1>1
<1>3. x.inner \in DOMAIN Escaped \cup {"clean"} /\ y.inner \in DOMAIN Escaped \cup {"clean"}
  BY DEF IsText
<1>4. x.inner = y.inner
  BY <1>2, <1>3, EscapedApart
<1> QED
  BY <1>1, <1>2, <1>4

(* All of the values are sent, each once, in the order they were first named. *)
Arrived(values, sent) ==
    LET given == [i \in DOMAIN values |-> UrlEncode(Trim(values[i]))]
        first(v) == CHOOSE i \in DOMAIN given :
                        given[i] = v /\ \A j \in 1 .. i - 1 : given[j] # v
    IN  /\ ToSet(sent) = ToSet(given)
        /\ \A i, j \in DOMAIN sent : i < j => first(sent[i]) < first(sent[j])

LEMMA ListSent ==
    ASSUME NEW values, IsList(values)
    PROVE  Arrived(values, Csv(NormalizeStringList(values)))
<1> DEFINE s == NormalizeStringList(values)
           sent == Csv(s)
           given == [i \in DOMAIN values |-> UrlEncode(Trim(values[i]))]
           IsFirst(i, v) == given[i] = v /\ \A j \in 1 .. i - 1 : given[j] # v
           first(v) == CHOOSE i \in DOMAIN given : IsFirst(i, v)
           N == Len(values)
<1>1. N \in Nat /\ DOMAIN values = 1 .. N /\ \A i \in 1 .. N : IsText(values[i])
  BY DEF IsList
<1>2. OnceInOrder(values, N, s)
  BY Deduplicated
<1>3. PICK firsts : AreFirst(firsts, values, N, s)
  BY <1>2 DEF OnceInOrder
<1>4. DOMAIN s = 1 .. Len(s) /\ Len(s) \in Nat
  BY <1>2 DEF OnceInOrder
<1> HIDE DEF s
<1>5. DOMAIN sent = 1 .. Len(s) /\ \A j \in 1 .. Len(s) : sent[j] = UrlEncode(s[j])
  BY <1>4 DEF Csv
<1>6. DOMAIN given = 1 .. N /\ \A i \in 1 .. N : given[i] = UrlEncode(Trim(values[i]))
  BY <1>1
<1> HIDE DEF sent, given
<1>7. ToSet(sent) = ToSet(given)
  <2>1. ASSUME NEW i \in 1 .. N PROVE \E j \in 1 .. Len(s) : sent[j] = given[i]
    BY <1>2, <1>5, <1>6 DEF OnceInOrder
  <2>2. ASSUME NEW j \in 1 .. Len(s) PROVE \E i \in 1 .. N : sent[j] = given[i]
    <3>1. firsts[j] \in 1 .. N /\ s[j] = Trim(values[firsts[j]])
      BY <1>3 DEF AreFirst
    <3> QED
      BY <1>5, <1>6, <3>1
  <2>3. ToSet(sent) = {sent[j] : j \in 1 .. Len(s)} /\ ToSet(given) = {given[i] : i \in 1 .. N}
    BY <1>5, <1>6, Zenon DEF ToSet
  <2> QED
    BY <2>1, <2>2, <2>3
<1>8. ASSUME NEW j \in 1 .. Len(s) PROVE first(sent[j]) = firsts[j]
  <2>1. /\ firsts[j] \in 1 .. N /\ s[j] = Trim(values[firsts[j]])
        /\ \A i \in 1 .. firsts[j] - 1 : Trim(values[i]) # s[j]
    BY <1>3 DEF AreFirst
  <2>2. given[firsts[j]] = sent[j]
    BY <1>5, <1>6, <2>1
  <2>3. ASSUME NEW i \in 1 .. firsts[j] - 1 PROVE given[i] # sent[j]
    <3>1. i \in 1 .. N
      BY <1>1, <2>1
    <3>2. Trim(values[i]) # Trim(values[firsts[j]])
      BY <2>1
    <3> QED
      BY <1>1, <1>6, <2>1, <2>2, <3>1, <3>2, UrlEncodeApart
  <2>4. ASSUME NEW i \in 1 .. N, IsFirst(i, sent[j]) PROVE i = firsts[j]
    <3>1. ~(i < firsts[j])
      BY <1>1, <2>1, <2>3, <2>4
    <3>2. ~(firsts[j] < i)
      BY <1>1, <2>1, <2>2, <2>4
    <3> QED
      BY <1>1, <2>1, <3>1, <3>2
  <2>5. firsts[j] \in 1 .. N /\ IsFirst(firsts[j], sent[j])
    BY <2>1, <2>2, <2>3
  <2> QED
    BY <1>6, <2>4, <2>5
<1>9. ASSUME NEW i \in DOMAIN sent, NEW j \in DOMAIN sent, i < j
      PROVE  first(sent[i]) < first(sent[j])
  <2> HIDE DEF first
  <2>1. i \in 1 .. Len(s) /\ j \in 1 .. Len(s)
    BY <1>5
  <2>2. firsts[i] < firsts[j]
    BY <1>3, <1>9, <2>1 DEF AreFirst
  <2> QED
    BY <1>8, <2>1, <2>2
<1> QED
  BY <1>7, <1>9 DEF s, sent, given, Arrived

-----------------------------------------------------------------------------
(* What the request is built from. *)
LEMMA Givens ==
    ASSUME IInv, Built
    PROVE  /\ ValidConfig(rawConfig) /\ config = NormalizeConfig(rawConfig)
           /\ ValidRequest(rawRequest) /\ request = NormalizeRequest(rawRequest)
           /\ data = HttpRequestData
           /\ IsConfig(rawConfig) /\ IsRequest(rawRequest)
           /\ IF bulk THEN IsBulkRequest(rawRequest) ELSE IsLookupRequest(rawRequest)
  BY InputsAssumption DEF IInv, Built

LEMMA GivensOfTheRequest ==
    ASSUME IInv, Built
    PROVE  /\ request.headers = NormalizeHeaders(rawRequest.headers)
           /\ request.user_agent = TrimOptional(rawRequest.user_agent)
           /\ request.output = rawRequest.output
           /\ request.lang = NormalizeLanguage(rawRequest.lang)
           /\ \A key \in {"include", "fields", "excludes"} :
                  request[key] = NormalizeStringList(rawRequest[key])
           /\ bulk => request.ips = NormalizeIpList(rawRequest.ips)
           /\ ~bulk => request.ip = NormalizeLookupIp(rawRequest.ip)
<1>1. HasFields(rawRequest)
  BY Givens DEF HasFields, IsRequest, IsBulkRequest, IsLookupRequest
<1> QED
  BY <1>1, Givens, NormalizedRequest DEF HasFields

LEMMA GivensOfTheConfig ==
    ASSUME IInv, Built
    PROVE  /\ config.api_key = TrimOptional(rawConfig.api_key)
           /\ config.request_origin = NormalizeRequestOrigin(rawConfig.request_origin)
           /\ config.base_url = NormalizeBaseUrl(rawConfig.base_url)
           /\ config.connect_timeout = rawConfig.connect_timeout
           /\ config.read_timeout = rawConfig.read_timeout
  BY Givens, NormalizedConfig

(* The headers that callers gave, with their names and values trimmed. *)
LEMMA GivenHeaders ==
    ASSUME IInv, Built
    PROVE  /\ DOMAIN request.headers = {Trim(n) : n \in DOMAIN rawRequest.headers}
           /\ \A w \in DOMAIN request.headers : \E n \in DOMAIN rawRequest.headers :
                  Trim(n) = w /\ request.headers[w] = Trim(rawRequest.headers[n])
           /\ \A w \in DOMAIN request.headers :
                  w.spelling \in 1 .. 3 /\ request.headers[w] # Absent
<1>1. /\ DOMAIN request.headers = {Trim(n) : n \in DOMAIN rawRequest.headers}
      /\ \A w \in DOMAIN request.headers : \E n \in DOMAIN rawRequest.headers :
             Trim(n) = w /\ request.headers[w] = Trim(rawRequest.headers[n])
  <2>1. request.headers = NormalizeHeaders(rawRequest.headers)
    BY GivensOfTheRequest
  <2>2. \A n \in DOMAIN rawRequest.headers : n.edge \in DOMAIN Rank
    BY Givens DEF IsRequest, IsHeaderName
  <2>3. /\ DOMAIN NormalizeHeaders(rawRequest.headers) =
               {Trim(n) : n \in DOMAIN rawRequest.headers}
        /\ \A w \in DOMAIN NormalizeHeaders(rawRequest.headers) :
               \E n \in DOMAIN rawRequest.headers :
                   /\ Trim(n) = w
                   /\ NormalizeHeaders(rawRequest.headers)[w] = Trim(rawRequest.headers[n])
    BY <2>2, NormalizedHeaders, Zenon
  <2> QED
    BY <2>1, <2>3
<1>2. \A n \in DOMAIN rawRequest.headers :
          Trim(n).spelling \in 1 .. 3 /\ Trim(rawRequest.headers[n]) # Absent
  <2>1. ASSUME NEW n \in DOMAIN rawRequest.headers
        PROVE  IsHeaderName(n) /\ n.spelling \in 1 .. 3 /\ IsText(rawRequest.headers[n])
    BY Givens DEF IsRequest, IsHeaderName
  <2> QED
    BY <2>1, TrimName, TrimKeepsWord
<1> QED
  BY <1>1, <1>2

(* The user agent is the one that was meant. *)
LEMMA Agent ==
    ASSUME IInv, Built
    PROVE  AgentMeant(ResolveUserAgentHeader(request.user_agent, request.headers))
<1> DEFINE given == {n \in DOMAIN rawRequest.headers : n.field = "User-Agent"}
           named == {w \in DOMAIN request.headers : w.field = "User-Agent"}
           value == HeaderValueCaseInsensitive(request.headers, "User-Agent")
           sent == ResolveUserAgentHeader(request.user_agent, request.headers)
<1>1. CASE rawRequest.user_agent # Absent
  <2>1. /\ request.user_agent = Trim(rawRequest.user_agent)
        /\ Trim(rawRequest.user_agent) # Absent
        /\ Trim(rawRequest.user_agent).word = rawRequest.user_agent.word
    BY <1>1, Givens, GivensOfTheRequest, TrimKeepsWord
       DEF IsRequest, IsOptional, TrimOptional
  <2>2. sent = request.user_agent
    BY <2>1 DEF ResolveUserAgentHeader
  <2> QED
    BY <1>1, <2>1, <2>2 DEF AgentMeant
<1>2. CASE rawRequest.user_agent = Absent
  <2>1. request.user_agent = Absent
    BY <1>2, GivensOfTheRequest DEF TrimOptional
  <2>2. /\ named = {} <=> value = Absent
        /\ named # {} => \E w \in named : value = request.headers[w]
    BY GivenHeaders, FirstSpelling
  <2>0. \A n \in DOMAIN rawRequest.headers : Trim(n).field = n.field
    BY Givens, TrimName DEF IsRequest
  <2>3. named = {} <=> given = {}
    BY <2>0, GivenHeaders
  <2>4. CASE given = {}
    <3>1. sent = DefaultUserAgent
      BY <2>1, <2>2, <2>3, <2>4 DEF ResolveUserAgentHeader
    <3> QED
      BY <1>2, <2>4, <3>1 DEF AgentMeant
  <2>5. CASE given # {}
    <3>1. sent = value
      BY <2>1, <2>2, <2>3, <2>5 DEF ResolveUserAgentHeader
    <3>2. PICK w \in named : value = request.headers[w]
      BY <2>2, <2>3, <2>5
    <3>3. PICK n \in DOMAIN rawRequest.headers :
              Trim(n) = w /\ request.headers[w] = Trim(rawRequest.headers[n])
      BY <3>2, GivenHeaders
    <3>4. Trim(rawRequest.headers[n]).word = rawRequest.headers[n].word
      BY Givens, TrimKeepsWord DEF IsRequest
    <3>5. n \in given /\ sent.word = rawRequest.headers[n].word
      BY <2>0, <3>1, <3>2, <3>3, <3>4
    <3> QED
      BY <1>2, <2>5, <3>5 DEF AgentMeant
  <2> QED
    BY <2>4, <2>5
<1> QED
  BY <1>1, <1>2

-----------------------------------------------------------------------------
Agreed == ResolveUserAgentHeader(request.user_agent, request.headers)
Content == Plain("application/json")

(* The headers that the SDK decides on, one after the other. *)
LEMMA SentHeaders ==
    ASSUME IInv, Built
    PROVE  /\ OneHeader(data.headers, "User-Agent", Agreed)
           /\ OneHeader(data.headers, "Accept", AcceptHeaderFor(request.output))
           /\ bulk => OneHeader(data.headers, "Content-Type", Content)
           /\ config.request_origin # Absent =>
                  OneHeader(data.headers, "Origin", config.request_origin)
           /\ \A n : n.field \notin Controlled =>
                  /\ n \in DOMAIN data.headers <=> n \in DOMAIN request.headers
                  /\ n \in DOMAIN request.headers => data.headers[n] = request.headers[n]
<1> DEFINE agent == SetHeaderCaseInsensitive(request.headers, "User-Agent", Agreed)
           accept == SetHeaderCaseInsensitive(agent, "Accept", AcceptHeaderFor(request.output))
           content == IF bulk THEN SetHeaderCaseInsensitive(accept, "Content-Type", Content)
                      ELSE accept
           sent == IF config.request_origin = Absent THEN content
                   ELSE SetHeaderCaseInsensitive(content, "Origin", config.request_origin)
           Kept(before, after) ==
               \A n : n.field \notin Controlled =>
                   /\ n \in DOMAIN after <=> n \in DOMAIN before
                   /\ n \in DOMAIN before => after[n] = before[n]
<1>1. data.headers = sent
  BY Givens DEF HttpRequestData, RequestHeaders, Agreed, Content
<1>2. /\ {"User-Agent", "Accept"} \subseteq Controlled
      /\ bulk => "Content-Type" \in Controlled
      /\ config.request_origin # Absent => "Origin" \in Controlled
  BY DEF Controlled
<1>3. OneHeader(agent, "User-Agent", Agreed) /\ Kept(request.headers, agent)
  BY <1>2, SetHeader
<1> HIDE DEF agent
<1>4. /\ OneHeader(accept, "User-Agent", Agreed)
      /\ OneHeader(accept, "Accept", AcceptHeaderFor(request.output))
      /\ Kept(request.headers, accept)
  <2>1. /\ OneHeader(accept, "Accept", AcceptHeaderFor(request.output))
        /\ Kept(agent, accept)
    BY <1>2, SetHeader
  <2>2. OneHeader(accept, "User-Agent", Agreed)
    BY <1>3, SetAnotherHeader
  <2> QED
    BY <1>3, <2>1, <2>2
<1> HIDE DEF accept
<1>5. /\ OneHeader(content, "User-Agent", Agreed)
      /\ OneHeader(content, "Accept", AcceptHeaderFor(request.output))
      /\ bulk => OneHeader(content, "Content-Type", Content)
      /\ Kept(request.headers, content)
  <2>1. CASE bulk
    <3>1. OneHeader(content, "Content-Type", Content) /\ Kept(accept, content)
      BY <1>2, <2>1, SetHeader
    <3>2. /\ OneHeader(content, "User-Agent", Agreed)
          /\ OneHeader(content, "Accept", AcceptHeaderFor(request.output))
      BY <1>4, <2>1, SetAnotherHeader
    <3> QED
      BY <1>4, <3>1, <3>2
  <2>2. CASE ~bulk
    BY <1>4, <2>2
  <2> QED
    BY <2>1, <2>2
<1> HIDE DEF content
<1>6. CASE config.request_origin = Absent
  BY <1>1, <1>5, <1>6
<1>7. CASE config.request_origin # Absent
  <2>1. OneHeader(sent, "Origin", config.request_origin) /\ Kept(content, sent)
    BY <1>2, <1>7, SetHeader
  <2>2. /\ OneHeader(sent, "User-Agent", Agreed)
        /\ OneHeader(sent, "Accept", AcceptHeaderFor(request.output))
        /\ bulk => OneHeader(sent, "Content-Type", Content)
    BY <1>5, <1>7, SetAnotherHeader
  <2> QED
    BY <1>1, <1>5, <1>7, <2>1, <2>2
<1> QED
  BY <1>6, <1>7

(* Of the headers the SDK decides on there is exactly one each, with the value it
   decided, whatever the caller put into the map (SetHeaderCaseInsensitive).  *)
THEOREM OneOfEach == Spec => []OneOfEachControlledHeader
<1>1. IInv => OneOfEachControlledHeader
  <2> SUFFICES ASSUME IInv, Built, NEW f \in Controlled
               PROVE  LET sent == data.headers[Canonical(f)]
                      IN  /\ {n \in DOMAIN data.headers : n.field = f} = {Canonical(f)}
                          /\ f = "User-Agent" => AgentMeant(sent)
                          /\ f = "Accept" => sent = AcceptHeaderFor(rawRequest.output)
                          /\ f = "Content-Type" => sent = Content
                          /\ f = "Origin" =>
                                 LET origin == rawConfig.request_origin.word
                                 IN  /\ sent.word.scheme = origin.scheme
                                     /\ sent.word.authority = origin.authority
    BY DEF OneOfEachControlledHeader, Content
  <2>1. CASE f = "User-Agent"
    BY <2>1, SentHeaders, Agent DEF OneHeader, Agreed
  <2>2. CASE f = "Accept"
    BY <2>2, SentHeaders, GivensOfTheRequest DEF OneHeader
  <2>3. CASE f = "Content-Type" /\ bulk
    BY <2>3, SentHeaders DEF OneHeader
  <2>4. CASE f = "Origin" /\ config.request_origin # Absent
    <3> DEFINE origin == rawConfig.request_origin
    <3>1. origin # Absent /\ config.request_origin = [Trim(origin) EXCEPT !.word.slashes = <<0>>]
      BY <2>4, GivensOfTheConfig DEF NormalizeRequestOrigin
    <3>2. /\ config.request_origin.word.scheme = origin.word.scheme
          /\ config.request_origin.word.authority = origin.word.authority
      BY <3>1, Givens DEF IsConfig, IsOptional, IsUrl, IsText, Trim
    <3> QED
      BY <2>4, <3>2, SentHeaders DEF OneHeader
  <2> QED
    BY <2>1, <2>2, <2>3, <2>4 DEF Controlled
<1> QED
  BY BuildInvariance, <1>1, PTL

(* Every other header of the caller is sent under its name, with a value given
   for that name, and nothing else is (NormalizeHeaders and what follows it). *)
THEOREM OthersKept == Spec => []OtherHeadersKept
<1>1. IInv => OtherHeadersKept
  <2> SUFFICES ASSUME IInv, Built
               PROVE  LET given == {n \in DOMAIN rawRequest.headers :
                                        n.field \notin Controlled}
                          sent == {w \in DOMAIN data.headers : w.field \notin Controlled}
                      IN  /\ sent = {Trim(n) : n \in given}
                          /\ \A w \in sent : \E n \in given :
                                 /\ Trim(n) = w
                                 /\ data.headers[w] = Trim(rawRequest.headers[n])
    BY DEF OtherHeadersKept
  <2> DEFINE given == {n \in DOMAIN rawRequest.headers : n.field \notin Controlled}
             sent == {w \in DOMAIN data.headers : w.field \notin Controlled}
  <2>0. \A n \in DOMAIN rawRequest.headers : Trim(n).field = n.field
    BY Givens, TrimName DEF IsRequest
  <2>1. sent = {w \in DOMAIN request.headers : w.field \notin Controlled}
    BY SentHeaders
  <2>2. sent = {Trim(n) : n \in given}
    BY <2>0, <2>1, GivenHeaders
  <2>3. ASSUME NEW w \in sent
        PROVE  \E n \in given : Trim(n) = w /\ data.headers[w] = Trim(rawRequest.headers[n])
    <3>1. w \in DOMAIN request.headers /\ data.headers[w] = request.headers[w]
      BY <2>1, SentHeaders
    <3> QED
      BY <2>0, <3>1, GivenHeaders
  <2> QED
    BY <2>2, <2>3
<1> QED
  BY BuildInvariance, <1>1, PTL

(* A list reaches the server with all its values, each once, in the order they
   were first named (NormalizeStringList, JoinCsv and BuildQueryString).   *)
THEOREM ListsArrive == Spec => []ListsSentOnceInOrder
<1>1. IInv => ListsSentOnceInOrder
  <2> SUFFICES ASSUME IInv, Built, NEW key \in {"include", "fields", "excludes"}
               PROVE  Arrived(rawRequest[key], Sent(key))
    BY DEF ListsSentOnceInOrder, Arrived
  <2>1. PICK values : values = rawRequest[key]
    OBVIOUS
  <2>2. IsList(values)
    BY <2>1, Givens DEF IsRequest
  <2>3. request[key] = NormalizeStringList(values)
    BY <2>1, GivensOfTheRequest
  <2>4. Sent(key) = Csv(request[key])
    BY Givens DEF Sent, HttpRequestData, Query, QueryString
  <2>5. Sent(key) = Csv(NormalizeStringList(values))
    BY <2>3, <2>4
  <2> QED
    BY <2>1, <2>2, <2>5, ListSent
<1> QED
  BY BuildInvariance, <1>1, PTL

(* The addresses of a bulk request are sent one for one (NormalizeIpList), and
   there are at least one and at most MaxIps of them.                      *)
THEOREM OneForOne == Spec => []IpsSentOneForOne
<1>1. IInv => IpsSentOneForOne
  <2> SUFFICES ASSUME IInv, Built, bulk
               PROVE  /\ Len(data.body) \in 1 .. MaxIps
                      /\ Len(data.body) = Len(rawRequest.ips)
                      /\ \A i \in DOMAIN data.body :
                             data.body[i].word = rawRequest.ips[i].word
    BY DEF IpsSentOneForOne
  <2> DEFINE ips == rawRequest.ips
  <2>1. /\ ips \in Seq(Range(ips)) /\ ips # <<>> /\ Len(ips) <= MaxIps
        /\ \A i \in DOMAIN ips : IsText(ips[i])
    BY Givens DEF ValidRequest, ValidIpList, IsBulkRequest, IsList
  <2>2. DOMAIN ips = 1 .. Len(ips) /\ Len(ips) \in 1 .. MaxIps
    BY <2>1, LimitsAssumption
  <2>3. data.body = [i \in DOMAIN ips |-> EscapeJsonString(Trim(ips[i]))]
    BY Givens, GivensOfTheRequest DEF HttpRequestData, NormalizeIpList
  <2>4. Len(data.body) = Len(ips)
    BY <2>2, <2>3
  <2>5. \A i \in DOMAIN ips : EscapeJsonString(Trim(ips[i])).word = ips[i].word
    BY <2>1 DEF EscapeJsonString, Trim, IsText
  <2> QED
    BY <2>2, <2>3, <2>4, <2>5
<1> QED
  BY BuildInvariance, <1>1, PTL

(* No timeout is lost in the long of libcurl (CurlTimeoutMilliseconds). *)
THEOREM TimeoutsArrive == Spec => []TimeoutsSurvive
<1>1. IInv => TimeoutsSurvive
  <2> SUFFICES ASSUME IInv, Built PROVE TimeoutsSurvive
    BY DEF TimeoutsSurvive
  <2>1. /\ data.connect_timeout = rawConfig.connect_timeout
        /\ data.read_timeout = rawConfig.read_timeout
    BY Givens, GivensOfTheConfig DEF HttpRequestData
  <2>2. /\ rawConfig.connect_timeout \in Int /\ rawConfig.read_timeout \in Int
        /\ rawConfig.connect_timeout > 0
        /\ rawConfig.connect_timeout <= rawConfig.read_timeout
    BY Givens DEF ValidConfig, IsConfig
  <2> QED
    BY <2>1, <2>2, LimitsAssumption DEF TimeoutsSurvive, CurlTimeoutMilliseconds
<1> QED
  BY BuildInvariance, <1>1, PTL

-----------------------------------------------------------------------------
(* A text without blanks at its ends. *)
IsTrimmed(x) ==
    /\ DOMAIN x = {"word", "edge", "inner"}
    /\ x.edge = "none" /\ x.inner \in {"clean"} \cup DOMAIN Escaped

LEMMA TrimIsTrimmed ==
    ASSUME NEW x, IsText(x)
    PROVE  /\ IsTrimmed(Trim(x)) /\ Trim(x).inner = x.inner
           /\ ValidHeaderValue(x) => ValidHeaderValue(Trim(x))
<1>1. PICK t : t = Trim(x)
  OBVIOUS
<1>2. DOMAIN t = {"word", "edge", "inner"} /\ t.edge = "none" /\ t.inner = x.inner
  BY <1>1 DEF IsText, Trim
<1>3. x.inner \in {"clean"} \cup DOMAIN Escaped
  BY DEF IsText
<1> QED
  BY <1>1, <1>2, <1>3 DEF IsTrimmed, ValidHeaderValue, ContainsCrOrLf, ContainsControl

LEMMA PlainIsTrimmed ==
    ASSUME NEW word
    PROVE  IsTrimmed(Plain(word)) /\ ValidHeaderValue(Plain(word))
  BY DEF IsTrimmed, Plain, Text, ValidHeaderValue, ContainsCrOrLf, ContainsControl

(* Slashes that go at the end of a URL leave the rest of its text. *)
LEMMA SlashesAside ==
    ASSUME NEW x, IsText(x)
    PROVE  LET y == [Trim(x) EXCEPT !.word.slashes = <<0>>]
           IN  y.edge = "none" /\ y.inner = x.inner
<1>1. PICK t : t = Trim(x)
  OBVIOUS
<1>2. DOMAIN t = {"word", "edge", "inner"} /\ t.edge = "none" /\ t.inner = x.inner
  BY <1>1, TrimIsTrimmed DEF IsTrimmed
<1>3. PICK w : w = [t.word EXCEPT !.slashes = <<0>>]
  OBVIOUS
<1>4. [Trim(x) EXCEPT !.word.slashes = <<0>>] = [t EXCEPT !.word = w]
  BY <1>1, <1>3, Zenon
<1>5. [t EXCEPT !.word = w].edge = "none" /\ [t EXCEPT !.word = w].inner = x.inner
  BY <1>2
<1> QED
  BY <1>4, <1>5

(* Whatever a text holds, nothing that needs to be escaped is left of it. *)
IsEncoded(x) == x.edge = "none" /\ x.inner \notin DOMAIN Escaped

LEMMA EncodedLine ==
    ASSUME NEW x, IsTrimmed(x)
    PROVE  /\ IsEncoded(UrlEncode(x))
           /\ EscapeJsonString(x).edge = "none" /\ EscapeJsonString(x).inner \notin JsonForbids
<1>1. DOMAIN Escaped = {"newline", "control", "separator", "nothing", "quote", "delete",
                     "tab"}
  BY DEF Escaped
<1>2. /\ Escaped["newline"] = "escaped newline" /\ Escaped["control"] = "escaped control"
      /\ Escaped["separator"] = "escaped separator" /\ Escaped["nothing"] = "escaped nothing"
      /\ Escaped["quote"] = "escaped quote" /\ Escaped["delete"] = "escaped delete"
      /\ Escaped["tab"] = "escaped tab"
  BY DEF Escaped
<1>3. DOMAIN x = {"word", "edge", "inner"} /\ x.edge = "none"
      /\ x.inner \in DOMAIN Escaped \cup {"clean"}
  BY DEF IsTrimmed
<1>4. \A e \in DOMAIN Escaped : Escaped[e] \notin DOMAIN Escaped \cup JsonForbids
  BY <1>1, <1>2 DEF JsonForbids
<1>5. "clean" \notin DOMAIN Escaped /\ JsonForbids \subseteq DOMAIN Escaped
  BY <1>1 DEF JsonForbids
<1>6. UrlEncode(x).edge = "none" /\ UrlEncode(x).inner \notin DOMAIN Escaped
  BY <1>3, <1>4, <1>5 DEF UrlEncode
<1>7. EscapeJsonString(x).edge = "none" /\ EscapeJsonString(x).inner \notin JsonForbids
  BY <1>3, <1>4, <1>5 DEF EscapeJsonString
<1> QED
  BY <1>6, <1>7 DEF IsEncoded

LEMMA OneLine ==
    ASSUME NEW x, x # Absent => IsTrimmed(x)
    PROVE  \A i \in DOMAIN One(x) : IsEncoded(One(x)[i])
<1>1. CASE x = Absent
  BY <1>1 DEF One
<1>2. CASE x # Absent
  <2>1. One(x) = <<UrlEncode(x)>>
    BY <1>2 DEF One
  <2>2. \A i \in DOMAIN <<UrlEncode(x)>> : <<UrlEncode(x)>>[i] = UrlEncode(x)
    OBVIOUS
  <2> QED
    BY <1>2, <2>1, <2>2, EncodedLine
<1> QED
  BY <1>1, <1>2

LEMMA CsvLine ==
    ASSUME NEW values, IsList(values)
    PROVE  LET csv == Csv(NormalizeStringList(values))
           IN  \A i \in DOMAIN csv : IsEncoded(csv[i])
<1>1. PICK s : s = NormalizeStringList(values)
  OBVIOUS
<1>2. s \in Seq(Trimmed(values))
  BY <1>1, Deduplicated DEF OnceInOrder
<1>3. ASSUME NEW i \in DOMAIN s PROVE IsEncoded(UrlEncode(s[i]))
  <2>1. s[i] \in Trimmed(values)
    BY <1>2
  <2>2. PICK j \in DOMAIN values : s[i] = Trim(values[j])
    BY <2>1 DEF Trimmed
  <2> QED
    BY <2>2, TrimIsTrimmed, EncodedLine DEF IsList
<1> QED
  BY <1>1, <1>3 DEF Csv

LEMMA GivenLine ==
    ASSUME NEW x, IsOptional(x)
    PROVE  /\ TrimOptional(x) # Absent => IsTrimmed(TrimOptional(x))
           /\ NormalizeLookupIp(x) # Absent => IsTrimmed(NormalizeLookupIp(x))
  BY TrimIsTrimmed DEF IsOptional, TrimOptional, NormalizeLookupIp

(* No parameter of the query breaks the line. *)
LEMMA QueryLine ==
    ASSUME IInv, Built, NEW p \in DOMAIN data.query, NEW i \in DOMAIN data.query[p]
    PROVE  IsEncoded(data.query[p][i])
<1> DEFINE InLine(values) == \A j \in DOMAIN values : IsEncoded(values[j])
           params == [apiKey |-> One(config.api_key),
                      ip |-> IF bulk THEN <<>> ELSE One(request.ip),
                      lang |-> One(request.lang),
                      include |-> Csv(request.include),
                      fields |-> Csv(request.fields),
                      excludes |-> Csv(request.excludes),
                      output |-> One(Plain(request.output))]
<1>1. data.query = QueryString(params)
  BY Givens DEF HttpRequestData, Query
<1>2. InLine(params.apiKey)
  <2>1. config.api_key # Absent => IsTrimmed(config.api_key)
    BY Givens, GivensOfTheConfig, GivenLine DEF IsConfig
  <2> QED
    BY <2>1, OneLine
<1>3. InLine(params.ip)
  <2>1. CASE bulk
    BY <2>1
  <2>2. CASE ~bulk
    <3>1. request.ip # Absent => IsTrimmed(request.ip)
      BY <2>2, Givens, GivensOfTheRequest, GivenLine DEF IsLookupRequest
    <3> QED
      BY <2>2, <3>1, OneLine
  <2> QED
    BY <2>1, <2>2
<1>4. InLine(params.lang)
  <2>1. request.lang # Absent => IsTrimmed(request.lang)
    BY GivensOfTheRequest, PlainIsTrimmed DEF NormalizeLanguage, LanguageCode
  <2> QED
    BY <2>1, OneLine
<1>5. InLine(params.include) /\ InLine(params.fields) /\ InLine(params.excludes)
  <2>1. \A key \in {"include", "fields", "excludes"} :
            /\ IsList(rawRequest[key])
            /\ request[key] = NormalizeStringList(rawRequest[key])
    BY Givens, GivensOfTheRequest DEF IsRequest
  <2>2. \A key \in {"include", "fields", "excludes"} : InLine(Csv(request[key]))
    BY <2>1, CsvLine
  <2> QED
    BY <2>2
<1>6. InLine(params.output)
  BY PlainIsTrimmed, OneLine
<1>7. DOMAIN params = {"apiKey", "ip", "lang", "include", "fields", "excludes", "output"}
  OBVIOUS
<1> HIDE DEF params
<1>8. p \in DOMAIN params /\ data.query[p] = params[p]
  BY <1>1 DEF QueryString
<1>9. InLine(params[p])
  BY <1>2, <1>3, <1>4, <1>5, <1>6, <1>7, <1>8
<1> QED
  BY <1>8, <1>9

(* A header is what the SDK or the caller has set, trimmed. *)
IsHeaderLine(x) == ValidHeaderValue(x) /\ x.edge = "none"

LEMMA HeaderLine ==
    ASSUME NEW x, IsText(x), ValidHeaderValue(x)
    PROVE  IsHeaderLine(Trim(x)) /\ IsHeaderLine([Trim(x) EXCEPT !.word.slashes = <<0>>])
<1>1. IsHeaderLine(Trim(x))
  BY TrimIsTrimmed DEF IsHeaderLine, IsTrimmed
<1>2. PICK y : y = [Trim(x) EXCEPT !.word.slashes = <<0>>]
  OBVIOUS
<1>3. y.edge = "none" /\ y.inner = x.inner
  BY <1>2, SlashesAside
<1>4. IsHeaderLine(y)
  BY <1>3 DEF IsHeaderLine, ValidHeaderValue, ContainsCrOrLf, ContainsControl
<1> QED
  BY <1>1, <1>2, <1>4

LEMMA GivenHeaderLine ==
    ASSUME IInv, Built, NEW w \in DOMAIN request.headers
    PROVE  IsHeaderLine(request.headers[w])
<1>1. PICK n \in DOMAIN rawRequest.headers :
          Trim(n) = w /\ request.headers[w] = Trim(rawRequest.headers[n])
  BY GivenHeaders
<1>2. IsText(rawRequest.headers[n]) /\ ValidHeaderValue(rawRequest.headers[n])
  BY Givens DEF IsRequest, ValidRequest, ValidHeaders
<1> QED
  BY <1>1, <1>2, HeaderLine

LEMMA AgentLine ==
    ASSUME IInv, Built
    PROVE  IsHeaderLine(Agreed)
<1> DEFINE value == HeaderValueCaseInsensitive(request.headers, "User-Agent")
<1>1. CASE request.user_agent # Absent
  <2>1. rawRequest.user_agent # Absent /\ request.user_agent = Trim(rawRequest.user_agent)
    BY <1>1, GivensOfTheRequest DEF TrimOptional
  <2>2. IsText(rawRequest.user_agent) /\ ValidHeaderValue(rawRequest.user_agent)
    BY <2>1, Givens DEF IsRequest, IsOptional, ValidRequest, ValidOptional
  <2>3. Agreed = Trim(rawRequest.user_agent)
    BY <1>1, <2>1 DEF Agreed, ResolveUserAgentHeader
  <2> QED
    BY <2>2, <2>3, HeaderLine
<1>2. CASE request.user_agent = Absent /\ value # Absent
  <2>1. PICK w \in DOMAIN request.headers : value = request.headers[w]
    BY <1>2, GivenHeaders, FirstSpelling
  <2>2. Agreed = request.headers[w]
    BY <1>2, <2>1 DEF Agreed, ResolveUserAgentHeader
  <2> QED
    BY <2>2, GivenHeaderLine
<1>3. CASE request.user_agent = Absent /\ value = Absent
  <2>1. Agreed = DefaultUserAgent
    BY <1>3 DEF Agreed, ResolveUserAgentHeader
  <2> QED
    BY <2>1, PlainIsTrimmed DEF DefaultUserAgent, IsHeaderLine, IsTrimmed
<1> QED
  BY <1>1, <1>2, <1>3

LEMMA OriginLine ==
    ASSUME IInv, Built, config.request_origin # Absent
    PROVE  IsHeaderLine(config.request_origin)
<1> DEFINE origin == rawConfig.request_origin
<1>1. origin # Absent /\ config.request_origin = [Trim(origin) EXCEPT !.word.slashes = <<0>>]
  BY GivensOfTheConfig DEF NormalizeRequestOrigin
<1>2. IsText(origin) /\ ValidHeaderValue(origin)
  BY <1>1, Givens DEF IsConfig, IsOptional, ValidConfig, ValidRequestOrigin, ValidOptional
<1> QED
  BY <1>1, <1>2, HeaderLine

LEMMA EveryHeaderLine ==
    ASSUME IInv, Built, NEW w \in DOMAIN data.headers
    PROVE  IsHeaderLine(data.headers[w])
<1>1. CASE w.field \notin Controlled
  <2>1. w \in DOMAIN request.headers /\ data.headers[w] = request.headers[w]
    BY <1>1, SentHeaders
  <2> QED
    BY <2>1, GivenHeaderLine
<1>2. CASE w.field = "User-Agent"
  BY <1>2, SentHeaders, AgentLine DEF OneHeader
<1>3. CASE w.field = "Accept"
  <2>1. data.headers[w] = AcceptHeaderFor(request.output)
    BY <1>3, SentHeaders DEF OneHeader
  <2> QED
    BY <2>1, PlainIsTrimmed DEF AcceptHeaderFor, IsHeaderLine, IsTrimmed
<1>4. CASE bulk /\ w.field = "Content-Type"
  <2>1. data.headers[w] = Content
    BY <1>4, SentHeaders DEF OneHeader
  <2> QED
    BY <2>1, PlainIsTrimmed DEF Content, IsHeaderLine, IsTrimmed
<1>5. CASE config.request_origin # Absent /\ w.field = "Origin"
  BY <1>5, SentHeaders, OriginLine DEF OneHeader
<1> QED
  BY <1>1, <1>2, <1>3, <1>4, <1>5 DEF Controlled

(* A name is one of the SDK's, or the caller's, which ValidateHeaders has let
   through and NormalizeHeaders has trimmed.                               *)
LEMMA EveryHeaderName ==
    ASSUME IInv, Built, NEW w \in DOMAIN data.headers
    PROVE  w.edge = "none" /\ w.inner = "clean"
<1>1. CASE w.field \in Controlled
  <2>1. {n \in DOMAIN data.headers : n.field = w.field} = {Canonical(w.field)}
    BY <1>1, SentHeaders DEF OneHeader, Controlled
  <2>2. w = Canonical(w.field)
    BY <2>1
  <2>3. \A f : Canonical(f).edge = "none" /\ Canonical(f).inner = "clean"
    BY DEF Canonical
  <2> QED
    BY <2>2, <2>3
<1>2. CASE w.field \notin Controlled
  <2>1. w \in DOMAIN request.headers
    BY <1>2, SentHeaders
  <2>2. PICK n \in DOMAIN rawRequest.headers : Trim(n) = w
    BY <2>1, GivenHeaders
  <2>3. /\ IsHeaderName(n)
        /\ ValidHeaderValue(n) /\ ~Blank(n) /\ n.inner \notin TokenForbids
    BY Givens DEF IsRequest, ValidRequest, ValidHeaders
  <2>4. n.inner \in {"clean", "newline", "control", "separator", "nothing", "quote", "delete",
                  "tab"}
    BY <2>3 DEF IsHeaderName, Escaped
  <2>5. n.inner = "clean"
    BY <2>3, <2>4 DEF ValidHeaderValue, ContainsCrOrLf, ContainsControl, Blank, TokenForbids
  <2> QED
    BY <2>2, <2>3, <2>5, TrimName
<1> QED
  BY <1>1, <1>2

(* NormalizeBaseUrl takes slashes off a URL and leaves what else it holds. *)
LEMMA BaseUrlLine ==
    ASSUME NEW x, IsText(x)
    PROVE  /\ NormalizeBaseUrl(x).inner = x.inner
           /\ NormalizeBaseUrl(x).edge \in {"none", "after"}
<1>1. CASE Len(x.word.slashes) = 1
  BY <1>1, SlashesAside DEF NormalizeBaseUrl
<1>2. CASE Len(x.word.slashes) # 1
  <2>1. PICK w : w = [x.word EXCEPT !.slashes = Front(@)]
    OBVIOUS
  <2>2. NormalizeBaseUrl(x) = [x EXCEPT !.word = w, !.edge = "after"]
    BY <1>2, <2>1, Zenon DEF NormalizeBaseUrl
  <2> QED
    BY <2>2 DEF IsText
<1> QED
  BY <1>1, <1>2

(* What is sent has one line per header, and none in the URL, the query or the
   body: every name and value is refused, trimmed or escaped on its way
   (ValidateHeaders, ValidateHeaderValue, Trim, UrlEncode, EscapeJsonString). *)
THEOREM LinesUnbroken == Spec => []NothingBreaksTheLines
<1>1. IInv => NothingBreaksTheLines
  <2> SUFFICES ASSUME IInv, Built PROVE NothingBreaksTheLines
    BY DEF NothingBreaksTheLines
  <2>1. \A n \in DOMAIN data.headers :
            /\ n.edge = "none" /\ n.inner = "clean"
            /\ ValidHeaderValue(data.headers[n]) /\ data.headers[n].edge = "none"
    BY EveryHeaderName, EveryHeaderLine DEF IsHeaderLine
  <2>2. ~ContainsCrOrLf(data.base_url)
    <3>1. PICK x : x = rawConfig.base_url
      OBVIOUS
    <3>2. data.base_url = NormalizeBaseUrl(x)
      BY <3>1, Givens, GivensOfTheConfig DEF HttpRequestData
    <3>3. IsText(x) /\ ~ContainsCrOrLf(Trim(x))
      BY <3>1, Givens DEF IsConfig, ValidConfig, ValidBaseUrl, ValidItem
    <3>4. Trim(x).inner = x.inner
      BY <3>3, TrimIsTrimmed
    <3> QED
      BY <3>2, <3>3, <3>4, BaseUrlLine DEF ContainsCrOrLf
  <2>3. \A p \in DOMAIN data.query : \A i \in DOMAIN data.query[p] :
            IsEncoded(data.query[p][i])
    BY QueryLine
  <2>4. \A i \in DOMAIN data.body :
            data.body[i].edge = "none" /\ data.body[i].inner \notin JsonForbids
    <3>1. CASE ~bulk
      BY <3>1, Givens DEF HttpRequestData
    <3>2. CASE bulk
      <4> DEFINE ips == rawRequest.ips
      <4>1. data.body = [i \in DOMAIN ips |-> EscapeJsonString(Trim(ips[i]))]
        BY <3>2, Givens, GivensOfTheRequest DEF HttpRequestData, NormalizeIpList
      <4>2. \A i \in DOMAIN ips : IsText(ips[i])
        BY <3>2, Givens DEF IsBulkRequest, IsList
      <4> QED
        BY <4>1, <4>2, TrimIsTrimmed, EncodedLine
    <3> QED
      BY <3>1, <3>2
  <2> QED
    BY <2>1, <2>2, <2>3, <2>4 DEF NothingBreaksTheLines, IsEncoded
<1> QED
  BY BuildInvariance, <1>1, PTL

-----------------------------------------------------------------------------
(* A text that was trimmed is left as it is. *)
LEMMA TrimTwice ==
    ASSUME NEW x, IsText(x)
    PROVE  IsText(Trim(x)) /\ Trim(Trim(x)) = Trim(x) /\ (Blank(Trim(x)) <=> Blank(x))
<1>1. PICK t : t = Trim(x)
  OBVIOUS
<1>2. /\ DOMAIN t = {"word", "edge", "inner"} /\ t.edge = "none" /\ t.inner = x.inner
      /\ t # Absent /\ t.word = x.word
  BY <1>1 DEF IsText, Trim
<1>3. Trim(t) = t
  BY <1>1, <1>2 DEF Trim
<1>4. "none" \in DOMAIN Rank
  BY DEF Rank
<1>5. IsText(t)
  BY <1>2, <1>3, <1>4 DEF IsText
<1> QED
  BY <1>1, <1>2, <1>3, <1>5 DEF Blank

-----------------------------------------------------------------------------
(* A list whose values are trimmed and all different is left as it is. *)
LEMMA NothingToNormalize ==
    ASSUME NEW s, IsList(s),
           \A i \in DOMAIN s : Trim(s[i]) = s[i],
           \A i, j \in DOMAIN s : i < j => s[i] # s[j]
    PROVE  NormalizeStringList(s) = s
<1> DEFINE N == Len(s)
           S == Range(s)
<1>1. PICK kept : IsKept(s, kept) /\ NormalizeStringList(s) = kept[N]
  BY KeptByNormalizeStringList
<1>2. N \in Nat /\ DOMAIN s = 1 .. N /\ s \in Seq(S)
  BY DEF IsList
<1>3. \A i \in 1 .. N : s[i] \in S
  BY <1>2
<1> HIDE DEF S
<1> DEFINE Same(t, n) == t \in Seq(S) /\ Len(t) = n /\ \A i \in 1 .. n : t[i] = s[i]
           T == {n \in Nat : n <= N => Same(kept[n], n)}
<1>4. 0 \in T
  <2>1. kept[0] = <<>>
    BY <1>1 DEF IsKept
  <2>2. Same(<<>>, 0)
    OBVIOUS
  <2> QED
    BY <2>1, <2>2
<1>5. ASSUME NEW n \in Nat, n \in T PROVE n + 1 \in T
  <2> SUFFICES ASSUME n + 1 <= N PROVE Same(kept[n + 1], n + 1)
    OBVIOUS
  <2>1. PICK t : t = kept[n]
    OBVIOUS
  <2>2. t \in Seq(S) /\ Len(t) = n /\ \A i \in 1 .. n : t[i] = s[i]
    BY <1>2, <1>5, <2>1
  <2>3. n + 1 \in 1 .. N /\ (n + 1) - 1 = n
    BY <1>2
  <2>4. Trim(s[n + 1]) = s[n + 1]
    BY <1>2, <2>3
  <2>5. kept[n + 1] = IF Contains(t, s[n + 1]) THEN t ELSE Append(t, s[n + 1])
    <3>1. kept[n + 1] = IF Contains(kept[n], Trim(s[n + 1])) THEN kept[n]
                        ELSE Append(kept[n], Trim(s[n + 1]))
      BY <1>1, <2>3 DEF IsKept
    <3> QED
      BY <2>1, <2>4, <3>1
  <2>6. ~Contains(t, s[n + 1])
    <3>1. \A i \in 1 .. n : i \in 1 .. N /\ i < n + 1
      BY <1>2, <2>3
    <3>2. \A i \in 1 .. n : s[i] # s[n + 1]
      BY <1>2, <2>3, <3>1
    <3> QED
      BY <2>2, <3>2 DEF Contains
  <2>7. PICK u : u = Append(t, s[n + 1])
    OBVIOUS
  <2>8. kept[n + 1] = u
    BY <2>5, <2>6, <2>7
  <2>9. u \in Seq(S) /\ Len(u) = n + 1 /\ \A i \in 1 .. n + 1 : u[i] = s[i]
    BY <1>3, <2>2, <2>3, <2>7
  <2> QED
    BY <2>8, <2>9
<1>6. N \in T
  <2> HIDE DEF T
  <2> QED
    BY <1>2, <1>4, <1>5, Induct
<1>7. kept[N] = s
  <2>1. PICK t : t = kept[N]
    OBVIOUS
  <2>2. t \in Seq(S) /\ Len(t) = N /\ \A i \in 1 .. N : t[i] = s[i]
    BY <1>2, <1>6, <2>1
  <2> QED
    BY <1>2, <2>1, <2>2
<1> QED
  BY <1>1, <1>7

LEMMA ListStable ==
    ASSUME NEW values, IsList(values)
    PROVE  LET s == NormalizeStringList(values)
           IN  /\ NormalizeStringList(s) = s
               /\ ValidStringList(values) => ValidStringList(s)
<1>1. PICK s : s = NormalizeStringList(values)
  OBVIOUS
<1>2. OnceInOrder(values, Len(values), s)
  BY <1>1, Deduplicated
<1>3. s \in Seq(Trimmed(values)) /\ DOMAIN s = 1 .. Len(s) /\ Len(s) \in Nat
  BY <1>2 DEF OnceInOrder
<1>4. \A i \in DOMAIN s : \E j \in DOMAIN values : s[i] = Trim(values[j])
  BY <1>3 DEF Trimmed
<1>5. \A i \in DOMAIN s : IsText(s[i]) /\ Trim(s[i]) = s[i]
  BY <1>4, TrimTwice DEF IsList
<1>6. s \in Seq(Range(s))
  <2>1. \A i \in 1 .. Len(s) : s[i] \in Range(s)
    BY <1>3 DEF Range
  <2>2. s = [i \in 1 .. Len(s) |-> s[i]]
    BY <1>3
  <2> QED
    BY <1>3, <2>1, <2>2
<1>7. ASSUME NEW i \in DOMAIN s, NEW j \in DOMAIN s, i < j PROVE s[i] # s[j]
  <2>1. PICK firsts : AreFirst(firsts, values, Len(values), s)
    BY <1>2 DEF OnceInOrder
  <2>2. /\ firsts[i] \in 1 .. Len(values) /\ firsts[j] \in 1 .. Len(values)
        /\ firsts[i] < firsts[j]
        /\ s[i] = Trim(values[firsts[i]])
        /\ \A k \in 1 .. firsts[j] - 1 : Trim(values[k]) # s[j]
    BY <1>3, <1>7, <2>1 DEF AreFirst
  <2>3. firsts[i] \in 1 .. firsts[j] - 1
    BY <2>2
  <2> QED
    BY <2>2, <2>3
<1>8. NormalizeStringList(s) = s
  BY <1>5, <1>6, <1>7, NothingToNormalize DEF IsList
<1>9. ASSUME ValidStringList(values) PROVE ValidStringList(s)
  <2>1. ASSUME NEW i \in DOMAIN s PROVE ValidItem(s[i])
    <3>1. PICK j \in DOMAIN values : s[i] = Trim(values[j])
      BY <1>4
    <3>2. ValidItem(values[j]) /\ IsText(values[j])
      BY <1>9 DEF ValidStringList, IsList
    <3> QED
      BY <3>1, <3>2, TrimTwice DEF ValidItem
  <2> QED
    BY <2>1 DEF ValidStringList
<1> QED
  BY <1>1, <1>8, <1>9

(* So is an optional text. *)
LEMMA OptionalStable ==
    ASSUME NEW x, IsOptional(x), ValidOptional(x)
    PROVE  ValidOptional(TrimOptional(x)) /\ TrimOptional(TrimOptional(x)) = TrimOptional(x)
<1>1. CASE x = Absent
  BY <1>1 DEF TrimOptional, ValidOptional
<1>2. CASE x # Absent
  <2>1. IsText(x) /\ ValidHeaderValue(x) /\ ~Blank(x)
    BY <1>2 DEF IsOptional, ValidOptional
  <2>2. ValidHeaderValue(Trim(x)) /\ ~Blank(Trim(x)) /\ Trim(Trim(x)) = Trim(x)
    BY <2>1, TrimTwice, TrimIsTrimmed
  <2> QED
    BY <1>2, <2>2 DEF TrimOptional, ValidOptional
<1> QED
  BY <1>1, <1>2

(* And the request origin, which keeps all but the slash at its end. *)
LEMMA OriginStable ==
    ASSUME NEW x, IsText(x), IsUrl(x.word), x # Absent, ValidRequestOrigin(x)
    PROVE  LET y == NormalizeRequestOrigin(x)
           IN  ValidRequestOrigin(y) /\ NormalizeRequestOrigin(y) = y
<1>1. PICK t : t = Trim(x)
  OBVIOUS
<1>2. /\ DOMAIN t = {"word", "edge", "inner"} /\ t.edge = "none" /\ t.inner = x.inner
      /\ t.word = x.word
  BY <1>1 DEF IsText, Trim
<1>3. PICK w : w = [x.word EXCEPT !.slashes = <<0>>]
  OBVIOUS
<1>4. /\ w.scheme = x.word.scheme /\ w.userinfo = x.word.userinfo
      /\ w.authority = x.word.authority /\ w.path = x.word.path
      /\ w.slashes = <<0>> /\ w.query = x.word.query /\ w.fragment = x.word.fragment
      /\ [w EXCEPT !.slashes = <<0>>] = w
  BY <1>3 DEF IsUrl
<1>5. PICK y : y = [t EXCEPT !.word = w]
  OBVIOUS
<1>6. y = NormalizeRequestOrigin(x)
  BY <1>1, <1>2, <1>3, <1>5, Zenon DEF NormalizeRequestOrigin
<1>7. /\ DOMAIN y = {"word", "edge", "inner"} /\ y.word = w /\ y.edge = "none"
      /\ y.inner = x.inner
  BY <1>2, <1>5
<1>8. Trim(y) = y
  BY <1>5, <1>7 DEF Trim
<1>9. [y EXCEPT !.word = w] = y
  BY <1>5, <1>7
<1>10. y = Absent \/ NormalizeRequestOrigin(y) = [y EXCEPT !.word = w]
  BY <1>4, <1>7, <1>8, Zenon DEF NormalizeRequestOrigin
<1>11. /\ ValidHeaderValue(x) /\ ~Blank(x) /\ AbsoluteUrl(x.word) /\ x.word.path = ""
  BY DEF ValidRequestOrigin, ValidOptional
<1>12. AbsoluteUrl(w)
  <2>1. ~BlankInAuthority(w)
    BY <1>4 DEF BlankInAuthority
  <2> QED
    BY <1>4, <1>11, <2>1 DEF AbsoluteUrl
<1>13. ValidHeaderValue(y) /\ ~Blank(y)
  BY <1>7, <1>11 DEF ValidHeaderValue, ContainsCrOrLf, ContainsControl, Blank
<1>14. ValidRequestOrigin(y)
  BY <1>4, <1>7, <1>11, <1>12, <1>13 DEF ValidRequestOrigin, ValidOptional
<1>15. NormalizeRequestOrigin(y) = y
  <2>1. CASE y = Absent
    BY <2>1 DEF NormalizeRequestOrigin
  <2>2. CASE y # Absent
    BY <1>9, <1>10, <2>2
  <2> QED
    BY <2>1, <2>2
<1> QED
  BY <1>6, <1>14, <1>15

LEMMA AboveOne ==
    ASSUME NEW l \in Nat, l # 0, l # 1
    PROVE  l > 1
  OBVIOUS

LEMMA FrontOf ==
    ASSUME NEW S, NEW s \in Seq(S), Len(s) # 0, Len(s) # 1
    PROVE  Front(s)[1] = s[1] /\ Len(s) > 1
<1>1. Len(s) \in Nat
  OBVIOUS
<1>2. Len(s) > 1
  BY <1>1, AboveOne, Zenon
<1>3. Front(s) = SubSeq(s, 1, Len(s) - 1)
  BY DEF Front
<1>4. SubSeq(s, 1, Len(s) - 1) = [i \in 1 .. Len(s) - 1 |-> s[i]]
  BY <1>1, <1>2
<1> QED
  BY <1>1, <1>2, <1>3, <1>4

(* A base URL is as good without its last slashes as with them: only a blank
   behind its authority could be new, and there is none.                   *)
LEMMA BaseUrlValid ==
    ASSUME NEW x, IsText(x), IsUrl(x.word), ValidBaseUrl(x)
    PROVE  ValidBaseUrl(NormalizeBaseUrl(x))
<1>1. PICK u, y : u = x.word /\ y = NormalizeBaseUrl(x)
  OBVIOUS
<1>2. y.inner = x.inner /\ y.edge \in {"none", "after"}
  BY <1>1, BaseUrlLine
<1>3. ~Blank(x) /\ ~ContainsCrOrLf(Trim(x)) /\ AbsoluteUrl(u)
  BY <1>1 DEF ValidBaseUrl, ValidItem
<1>4. PICK slashes : slashes = IF Len(u.slashes) = 1 THEN <<0>> ELSE Front(u.slashes)
  OBVIOUS
<1>5. PICK w : w = [u EXCEPT !.slashes = slashes]
  OBVIOUS
<1>6. DOMAIN y = {"word", "edge", "inner"} /\ y.word = w
  <2>1. CASE Len(u.slashes) = 1
    <3>1. y = [Trim(x) EXCEPT !.word = [@ EXCEPT !.slashes = slashes]]
      BY <1>1, <1>4, <2>1, Zenon DEF NormalizeBaseUrl
    <3>2. DOMAIN Trim(x) = {"word", "edge", "inner"} /\ Trim(x).word = u
      BY <1>1 DEF Trim, IsText
    <3> QED
      BY <1>5, <3>1, <3>2
  <2>2. CASE Len(u.slashes) # 1
    <3>1. y = [x EXCEPT !.word = w, !.edge = "after"]
      BY <1>1, <1>4, <1>5, <2>2, Zenon DEF NormalizeBaseUrl
    <3> QED
      BY <3>1 DEF IsText
  <2> QED
    BY <2>1, <2>2
<1>7. /\ w.scheme = u.scheme /\ w.userinfo = u.userinfo
      /\ w.authority = u.authority /\ w.path = u.path
      /\ w.slashes = slashes /\ w.query = u.query /\ w.fragment = u.fragment
  BY <1>1, <1>5 DEF IsUrl
<1>8. BlankInAuthority(w) => BlankInAuthority(u)
  <2>1. slashes[1] = 0 /\ Len(slashes) > 1 => u.slashes[1] = 0 /\ Len(u.slashes) > 1
    <3>1. CASE Len(u.slashes) = 1
      BY <1>4, <3>1
    <3>2. CASE Len(u.slashes) # 1
      <4>1. /\ slashes = Front(u.slashes)
            /\ u.slashes \in Seq(Nat) /\ Len(u.slashes) # 0
        BY <1>1, <1>4, <3>2 DEF IsUrl
      <4> QED
        BY <3>2, <4>1, FrontOf
    <3> QED
      BY <3>1, <3>2
  <2> QED
    BY <1>7, <2>1, Zenon DEF BlankInAuthority
<1>9. AbsoluteUrl(w)
  BY <1>3, <1>7, <1>8 DEF AbsoluteUrl
<1>10. Trim(y).edge = "none" /\ Trim(y).inner = x.inner /\ Trim(x).inner = x.inner
  BY <1>2, <1>6, TrimIsTrimmed DEF Trim
<1>11. ValidItem(y)
  BY <1>2, <1>3, <1>10 DEF ValidItem, Blank, ContainsCrOrLf
<1> QED
  BY <1>1, <1>6, <1>9, <1>11 DEF ValidBaseUrl

(* Without blanks between its slashes it is left as it is. *)
LEMMA BaseUrlStable ==
    ASSUME NEW x, IsText(x), IsUrl(x.word), Len(x.word.slashes) = 1
    PROVE  NormalizeBaseUrl(NormalizeBaseUrl(x)) = NormalizeBaseUrl(x)
<1>1. PICK t : t = Trim(x)
  OBVIOUS
<1>2. DOMAIN t = {"word", "edge", "inner"} /\ t.edge = "none" /\ t.word = x.word
  BY <1>1 DEF IsText, Trim
<1>3. PICK w : w = [x.word EXCEPT !.slashes = <<0>>]
  OBVIOUS
<1>4. w.slashes = <<0>> /\ Len(w.slashes) = 1 /\ [w EXCEPT !.slashes = <<0>>] = w
  BY <1>3 DEF IsUrl
<1>5. PICK y : y = [t EXCEPT !.word = w]
  OBVIOUS
<1>6. y = NormalizeBaseUrl(x)
  BY <1>1, <1>2, <1>3, <1>5, Zenon DEF NormalizeBaseUrl
<1>7. DOMAIN y = {"word", "edge", "inner"} /\ y.word = w /\ y.edge = "none"
  BY <1>2, <1>5
<1>8. Trim(y) = y
  BY <1>5, <1>7 DEF Trim
<1>9. [y EXCEPT !.word = w] = y
  BY <1>5, <1>7
<1>10. NormalizeBaseUrl(y) = [y EXCEPT !.word = w]
  BY <1>4, <1>7, <1>8, Zenon DEF NormalizeBaseUrl
<1> QED
  BY <1>6, <1>9, <1>10

(* The configuration is accepted again, and left as it is but for blanks between
   the slashes of its base URL.                                            *)
LEMMA ConfigStable ==
    ASSUME NEW c, IsConfig(c), ValidConfig(c)
    PROVE  LET d == NormalizeConfig(c)
               again == NormalizeConfig(d)
           IN  /\ ValidConfig(d)
               /\ Len(c.base_url.word.slashes) = 1 => again = d
               /\ [again EXCEPT !.base_url = d.base_url] = d
<1>1. PICK d : d = NormalizeConfig(c)
  OBVIOUS
<1>2. /\ d.api_key = TrimOptional(c.api_key)
      /\ d.request_origin = NormalizeRequestOrigin(c.request_origin)
      /\ d.base_url = NormalizeBaseUrl(c.base_url)
      /\ d.connect_timeout = c.connect_timeout
      /\ d.read_timeout = c.read_timeout
      /\ d.max_response_body_chars = c.max_response_body_chars
  BY <1>1, NormalizedConfig
<1>3. ValidOptional(d.api_key) /\ TrimOptional(d.api_key) = d.api_key
  BY <1>2, OptionalStable DEF IsConfig, ValidConfig
<1>4. ValidRequestOrigin(d.request_origin)
      /\ NormalizeRequestOrigin(d.request_origin) = d.request_origin
  <2>1. CASE c.request_origin = Absent
    BY <1>2, <2>1 DEF NormalizeRequestOrigin, ValidRequestOrigin
  <2>2. CASE c.request_origin # Absent
    <3>1. /\ IsText(c.request_origin) /\ IsUrl(c.request_origin.word)
          /\ ValidRequestOrigin(c.request_origin)
      BY <2>2 DEF IsConfig, IsOptional, ValidConfig
    <3> QED
      BY <1>2, <2>2, <3>1, OriginStable
  <2> QED
    BY <2>1, <2>2
<1>5. IsText(c.base_url) /\ IsUrl(c.base_url.word) /\ ValidBaseUrl(c.base_url)
  BY DEF IsConfig, ValidConfig
<1>6. ValidConfig(d)
  <2>1. ValidBaseUrl(d.base_url)
    BY <1>2, <1>5, BaseUrlValid
  <2> QED
    BY <1>2, <1>3, <1>4, <2>1 DEF ValidConfig
<1>7. PICK url : url = NormalizeBaseUrl(d.base_url)
  OBVIOUS
<1>8. NormalizeConfig(d) = [d EXCEPT !.api_key = d.api_key,
                                     !.request_origin = d.request_origin,
                                     !.base_url = url]
  BY <1>3, <1>4, <1>7, Zenon DEF NormalizeConfig
<1>9. d = [key \in DOMAIN c |-> d[key]]
  BY <1>1 DEF NormalizeConfig
<1>10. [NormalizeConfig(d) EXCEPT !.base_url = d.base_url] = d
  BY <1>8, <1>9
<1>11. ASSUME Len(c.base_url.word.slashes) = 1 PROVE NormalizeConfig(d) = d
  <2>1. url = d.base_url
    BY <1>2, <1>5, <1>7, <1>11, BaseUrlStable
  <2> QED
    BY <1>8, <1>9, <2>1
<1> QED
  BY <1>1, <1>6, <1>10, <1>11

(* The request, with the code of its language for the language. *)
Again(r, lang) == [r EXCEPT !.lang = lang]

LEMMA HeadersStable ==
    ASSUME NEW headers,
           \A n \in DOMAIN headers : IsHeaderName(n) /\ IsText(headers[n]),
           ValidHeaders(headers)
    PROVE  LET sent == NormalizeHeaders(headers)
           IN  ValidHeaders(sent) /\ NormalizeHeaders(sent) = sent
<1>1. PICK sent : sent = NormalizeHeaders(headers)
  OBVIOUS
<1>2. ASSUME NEW w \in DOMAIN sent
      PROVE  /\ ValidHeaderValue(w) /\ ~Blank(w) /\ w.inner \notin TokenForbids
             /\ w.edge = "none" /\ Trim(w) = w
             /\ ValidHeaderValue(sent[w]) /\ ~Blank(sent[w]) /\ Trim(sent[w]) = sent[w]
  <2>0. \A n \in DOMAIN headers : n.edge \in DOMAIN Rank
    BY DEF IsHeaderName
  <2>1. PICK n \in DOMAIN headers : Trim(n) = w /\ sent[w] = Trim(headers[n])
    BY <1>1, <2>0, NormalizedHeaders, Zenon
  <2>2. IsText(headers[n]) /\ ValidHeaderValue(headers[n]) /\ ~Blank(headers[n])
    BY <2>1 DEF ValidHeaders
  <2>3. /\ IsHeaderName(n)
        /\ ValidHeaderValue(n) /\ ~Blank(n) /\ n.inner \notin TokenForbids
    BY <2>1 DEF ValidHeaders
  <2>4. w.inner = n.inner /\ w.edge = "none" /\ Trim(w) = w
    BY <2>1, <2>3, TrimName
  <2>5. ValidHeaderValue(w) /\ ~Blank(w) /\ w.inner \notin TokenForbids
    BY <2>3, <2>4 DEF ValidHeaderValue, ContainsCrOrLf, ContainsControl, Blank
  <2> QED
    BY <2>1, <2>2, <2>4, <2>5, TrimTwice, TrimIsTrimmed
<1>3. ValidHeaders(sent)
  BY <1>2 DEF ValidHeaders
<1>4. NormalizeHeaders(sent) = sent
  <2>1. PICK twice : twice = NormalizeHeaders(sent)
    OBVIOUS
  <2>2. \A n \in DOMAIN sent : n.edge \in DOMAIN Rank
    BY <1>2 DEF Rank
  <2>3. /\ DOMAIN twice = {Trim(n) : n \in DOMAIN sent}
        /\ \A w \in DOMAIN twice : \E n \in DOMAIN sent :
               Trim(n) = w /\ twice[w] = Trim(sent[n])
    BY <2>1, <2>2, NormalizedHeaders, Zenon
  <2>4. DOMAIN twice = DOMAIN sent
    BY <1>2, <2>3
  <2>5. \A w \in DOMAIN sent : twice[w] = sent[w]
    BY <1>2, <2>3, <2>4
  <2>6. twice = [w \in DOMAIN twice |-> twice[w]] /\ sent = [w \in DOMAIN sent |-> sent[w]]
    BY <1>1, <2>1 DEF NormalizeHeaders
  <2> QED
    BY <2>1, <2>4, <2>5, <2>6
<1> QED
  BY <1>1, <1>3, <1>4

LEMMA IpsStable ==
    ASSUME NEW ips, IsList(ips), ValidIpList(ips)
    PROVE  LET sent == NormalizeIpList(ips)
           IN  ValidIpList(sent) /\ NormalizeIpList(sent) = sent
<1>1. PICK sent : sent = NormalizeIpList(ips)
  OBVIOUS
<1>2. /\ DOMAIN ips = 1 .. Len(ips) /\ Len(ips) \in Nat /\ ips \in Seq(Range(ips))
      /\ \A i \in DOMAIN ips : IsText(ips[i])
  BY DEF IsList
<1>3. sent = [i \in 1 .. Len(ips) |-> Trim(ips[i])]
  BY <1>1, <1>2 DEF NormalizeIpList
<1>4. Len(sent) = Len(ips)
  BY <1>2, <1>3
<1>5. ips # <<>> /\ Len(ips) <= MaxIps /\ ValidStringList(ips)
  BY DEF ValidIpList
<1>6. \A i \in 1 .. Len(ips) : ValidItem(sent[i]) /\ Trim(sent[i]) = sent[i]
  BY <1>2, <1>3, <1>5, TrimTwice DEF ValidStringList, ValidItem
<1>7. ValidIpList(sent)
  <2>1. Len(ips) # 0
    BY <1>2, <1>5
  <2>2. sent # <<>>
    BY <1>4, <2>1
  <2>3. ValidStringList(sent)
    BY <1>3, <1>6 DEF ValidStringList
  <2> QED
    BY <1>4, <1>5, <2>2, <2>3 DEF ValidIpList
<1>8. NormalizeIpList(sent) = sent
  BY <1>3, <1>6 DEF NormalizeIpList
<1> QED
  BY <1>1, <1>7, <1>8

LEMMA IpStable ==
    ASSUME NEW ip, IsOptional(ip), ValidLookupIp(ip)
    PROVE  LET sent == NormalizeLookupIp(ip)
           IN  ValidLookupIp(sent) /\ NormalizeLookupIp(sent) = sent
<1>1. CASE ip = Absent \/ Blank(ip)
  BY <1>1 DEF NormalizeLookupIp, ValidLookupIp
<1>2. CASE ip # Absent /\ ~Blank(ip)
  <2>1. IsText(ip) /\ ValidItem(ip)
    BY <1>2 DEF IsOptional, ValidLookupIp
  <2>2. Trim(Trim(ip)) = Trim(ip) /\ ~Blank(Trim(ip)) /\ ValidItem(Trim(ip))
    BY <1>2, <2>1, TrimTwice DEF ValidItem
  <2> QED
    BY <1>2, <2>2 DEF NormalizeLookupIp, ValidLookupIp
<1> QED
  BY <1>1, <1>2

LEMMA RequestStable ==
    ASSUME NEW r, IsRequest(r), IF bulk THEN IsBulkRequest(r) ELSE IsLookupRequest(r),
           ValidRequest(r)
    PROVE  LET again == Again(NormalizeRequest(r), r.lang)
           IN  ValidRequest(again) /\ NormalizeRequest(again) = NormalizeRequest(r)
<1>1. PICK n : n = NormalizeRequest(r)
  OBVIOUS
<1>2. HasFields(r)
  BY DEF HasFields, IsRequest, IsBulkRequest, IsLookupRequest
<1>3. /\ n = [key \in DOMAIN r |-> n[key]]
      /\ n.headers = NormalizeHeaders(r.headers)
      /\ n.user_agent = TrimOptional(r.user_agent)
      /\ n.lang = NormalizeLanguage(r.lang)
      /\ \A key \in {"include", "fields", "excludes"} :
             n[key] = NormalizeStringList(r[key])
      /\ bulk => n.ips = NormalizeIpList(r.ips)
      /\ ~bulk => n.ip = NormalizeLookupIp(r.ip)
  BY <1>1, <1>2, NormalizedRequest
<1>4. PICK again : again = Again(n, r.lang)
  OBVIOUS
<1>6. /\ DOMAIN again = DOMAIN r
      /\ again.lang = r.lang
      /\ \A key \in DOMAIN r : key = "lang" \/ again[key] = n[key]
  BY <1>2, <1>3, <1>4 DEF Again, HasFields
<1>7. ValidHeaders(n.headers) /\ NormalizeHeaders(n.headers) = n.headers
  <2>1. \A m \in DOMAIN r.headers : IsHeaderName(m) /\ IsText(r.headers[m])
    BY DEF IsRequest
  <2>2. ValidHeaders(r.headers)
    BY DEF ValidRequest
  <2> QED
    BY <1>3, <2>1, <2>2, HeadersStable
<1>8. ValidOptional(n.user_agent) /\ TrimOptional(n.user_agent) = n.user_agent
  BY <1>3, OptionalStable DEF IsRequest, ValidRequest
<1>9. \A key \in {"include", "fields", "excludes"} :
          ValidStringList(n[key]) /\ NormalizeStringList(n[key]) = n[key]
  <2>1. \A key \in {"include", "fields", "excludes"} : IsList(r[key]) /\ ValidStringList(r[key])
    BY DEF IsRequest, ValidRequest
  <2> QED
    BY <1>3, <2>1, ListStable
<1>10. bulk => ValidIpList(n.ips) /\ NormalizeIpList(n.ips) = n.ips
  BY <1>3, IpsStable DEF IsBulkRequest, ValidRequest
<1>11. ~bulk => ValidLookupIp(n.ip) /\ NormalizeLookupIp(n.ip) = n.ip
  BY <1>3, IpStable DEF IsLookupRequest, ValidRequest
<1>12. /\ again.user_agent = n.user_agent /\ again.headers = n.headers
       /\ again.include = n.include /\ again.fields = n.fields /\ again.excludes = n.excludes
       /\ bulk => again.ips = n.ips
       /\ ~bulk => again.ip = n.ip
  BY <1>2, <1>6 DEF HasFields
<1>13. ValidRequest(again)
  BY <1>6, <1>7, <1>8, <1>9, <1>10, <1>11, <1>12 DEF ValidRequest
<1>14. NormalizeRequest(again) = n
  <2>1. PICK twice : twice = NormalizeRequest(again)
    OBVIOUS
  <2>2. HasFields(again)
    BY <1>2, <1>6 DEF HasFields
  <2>3. /\ twice = [key \in DOMAIN again |-> twice[key]]
        /\ twice.headers = NormalizeHeaders(again.headers)
        /\ twice.user_agent = TrimOptional(again.user_agent)
        /\ twice.lang = NormalizeLanguage(again.lang)
        /\ \A key \in {"include", "fields", "excludes"} :
               twice[key] = NormalizeStringList(again[key])
        /\ bulk => twice.ips = NormalizeIpList(again.ips)
        /\ ~bulk => twice.ip = NormalizeLookupIp(again.ip)
        /\ \A key \in DOMAIN again :
               \/ key \in {"headers", "user_agent", "lang", "include", "fields", "excludes"}
               \/ key = (IF bulk THEN "ips" ELSE "ip")
               \/ twice[key] = again[key]
    BY <2>1, <2>2, NormalizedRequest
  <2>4. /\ twice.headers = n.headers /\ twice.user_agent = n.user_agent
        /\ twice.lang = n.lang
        /\ twice.include = n.include /\ twice.fields = n.fields /\ twice.excludes = n.excludes
        /\ bulk => twice.ips = n.ips
        /\ ~bulk => twice.ip = n.ip
    BY <1>3, <1>6, <1>7, <1>8, <1>9, <1>10, <1>11, <1>12, <2>3
  <2>5. \A key \in DOMAIN r : twice[key] = n[key]
    BY <1>6, <2>3, <2>4
  <2> QED
    BY <1>3, <1>6, <2>1, <2>3, <2>5
<1> QED
  BY <1>1, <1>4, <1>13, <1>14

(* Normalizing once is enough (ValidConfig and the Normalize functions after the
   Normalize functions): but for a base URL that had blanks between the slashes at
   its end, what came out is left as it is.                                *)
THEOREM Stable == Spec => []NormalizedIsStable
<1>1. IInv => NormalizedIsStable
  <2> SUFFICES ASSUME IInv PROVE NormalizedIsStable
    OBVIOUS
  <2>1. /\ IsConfig(rawConfig) /\ IsRequest(rawRequest)
        /\ IF bulk THEN IsBulkRequest(rawRequest) ELSE IsLookupRequest(rawRequest)
    BY InputsAssumption DEF IInv
  <2>2. ASSUME phase \in {"configured", "normalized", "built"}
        PROVE  LET again == NormalizeConfig(config)
               IN  /\ ValidConfig(config)
                   /\ Len(rawConfig.base_url.word.slashes) = 1 => again = config
                   /\ [again EXCEPT !.base_url = config.base_url] = config
    <3>1. ValidConfig(rawConfig) /\ config = NormalizeConfig(rawConfig)
      BY <2>2 DEF IInv
    <3> QED
      BY <2>1, <3>1, ConfigStable
  <2>3. ASSUME phase \in {"normalized", "built"}
        PROVE  LET again == Again(request, rawRequest.lang)
               IN  ValidRequest(again) /\ NormalizeRequest(again) = request
    <3>1. ValidRequest(rawRequest) /\ request = NormalizeRequest(rawRequest)
      BY <2>3 DEF IInv
    <3> QED
      BY <2>1, <3>1, RequestStable
  <2> QED
    BY <2>2, <2>3 DEF NormalizedIsStable, Again
<1> QED
  BY BuildInvariance, <1>1, PTL

-----------------------------------------------------------------------------
(* The least and the greatest of some numbers. *)
LEMMA LeastOf ==
    ASSUME NEW I, I \subseteq Nat, I # {}
    PROVE  Min(I) \in I /\ \A i \in I : Min(I) <= i
<1>1. PICK least \in I : \A i \in I : ~(<<i, least>> \in OpToRel(<, Nat))
  BY NatLessThanWellFounded, WFMin
<1>2. \A i \in I : i < least => <<i, least>> \in OpToRel(<, Nat)
  BY DEF OpToRel
<1>3. \A i \in I : ~(i < least)
  BY <1>1, <1>2
<1>4. \A i \in I : least <= i
  BY <1>3
<1> QED
  BY <1>4 DEF Min

LEMMA GreatestOf ==
    ASSUME NEW n \in Nat, NEW I, I \subseteq 0 .. n, I # {}
    PROVE  Max(I) \in I /\ \A i \in I : i <= Max(I)
<1> DEFINE J == {n - i : i \in I}
<1>0. \A i \in I : i \in 0 .. n /\ n - i \in Nat /\ n - i \in J
  OBVIOUS
<1>1. J \subseteq Nat /\ J # {}
  BY <1>0
<1>2. Min(J) \in J /\ \A j \in J : Min(J) <= j
  <2> HIDE DEF J
  <2> QED
    BY <1>1, LeastOf
<1>3. PICK greatest \in I : Min(J) = n - greatest
  BY <1>2
<1>4. \A i \in I : i <= greatest
  <2> HIDE DEF J
  <2> QED
    BY <1>0, <1>2, <1>3
<1> QED
  BY <1>4 DEF Max

(* The first and the last place of a character, or 0. *)
IsFirst(place, s, c) ==
    \/ place = 0 /\ \A i \in 1 .. Len(s) : s[i] # c
    \/ /\ place \in 1 .. Len(s) /\ s[place] = c
       /\ \A i \in 1 .. Len(s) : s[i] = c => place <= i
IsLast(place, s, c) ==
    \/ place = 0 /\ \A i \in 1 .. Len(s) : s[i] # c
    \/ /\ place \in 1 .. Len(s) /\ s[place] = c
       /\ \A i \in 1 .. Len(s) : s[i] = c => i <= place

(* What Find and FindLast find. *)
LEMMA Found ==
    ASSUME NEW s, Len(s) \in Nat, NEW c
    PROVE  IsFirst(Find(s, c), s, c)
<1> DEFINE I == {i \in 1 .. Len(s) : s[i] = c}
<1>1. Find(s, c) = IF I # {} THEN Min(I) ELSE 0
  BY DEF Find, SelectInSeq
<1>2. CASE I = {}
  BY <1>1, <1>2 DEF IsFirst
<1>3. CASE I # {}
  <2>1. I \subseteq Nat
    OBVIOUS
  <2>2. Min(I) \in I /\ \A i \in I : Min(I) <= i
    <3> HIDE DEF I
    <3> QED
      BY <1>3, <2>1, LeastOf
  <2> QED
    BY <1>1, <1>3, <2>2 DEF IsFirst
<1> QED
  BY <1>2, <1>3

LEMMA FoundLast ==
    ASSUME NEW s, Len(s) \in Nat, NEW c
    PROVE  IsLast(FindLast(s, c), s, c)
<1> DEFINE I == {i \in 1 .. Len(s) : s[i] = c}
<1>1. FindLast(s, c) = IF I # {} THEN Max(I) ELSE 0
  BY DEF FindLast, SelectLastInSeq
<1>2. CASE I = {}
  BY <1>1, <1>2 DEF IsLast
<1>3. CASE I # {}
  <2>1. I \subseteq 0 .. Len(s) /\ Len(s) \in Nat
    OBVIOUS
  <2>2. Max(I) \in I /\ \A i \in I : i <= Max(I)
    <3> HIDE DEF I
    <3> QED
      BY <1>3, <2>1, GreatestOf
  <2> QED
    BY <1>1, <1>3, <2>2 DEF IsLast
<1> QED
  BY <1>2, <1>3

-----------------------------------------------------------------------------
(* A digit counts from 0 to 9, and none but "0" counts 0. *)
LEMMA DigitOf ==
    ASSUME NEW c, IsDigit(c)
    PROVE  Digit(c) \in 0 .. 9 /\ (Digit(c) = 0 <=> c = "0")
<1>1. Len(Numerals) = 10 /\ DOMAIN Numerals = 1 .. 10 /\ Numerals[1] = "0"
  BY DEF Numerals
<1>2. \E i \in 1 .. 10 : Numerals[i] = c
  <2>1. PICK i \in DOMAIN Numerals : Numerals[i] = c
    BY DEF IsDigit, Range
  <2> QED
    BY <1>1, <2>1
<1>3. PICK f : f = Find(Numerals, c)
  OBVIOUS
<1>4. /\ f \in 1 .. 10 /\ Numerals[f] = c
      /\ \A i \in 1 .. 10 : Numerals[i] = c => f <= i
  <2>1. IsFirst(f, Numerals, c)
    BY <1>1, <1>3, Found
  <2> QED
    BY <1>1, <1>2, <2>1 DEF IsFirst
<1>5. f = 1 <=> c = "0"
  BY <1>1, <1>4
<1> QED
  BY <1>3, <1>4, <1>5 DEF Digit

LEMMA ShiftedIsInt ==
    ASSUME NEW n \in Int, NEW d \in Int
    PROVE  Shifted(n, d) \in Int
  BY DEF Shifted, OutOfRange

(* What stoi has read of the first digits. *)
Reads(value, s) ==
    /\ value[0] = 0
    /\ \A n \in 1 .. Len(s) : value[n] = Shifted(value[n - 1], Digit(s[n]))
    /\ \A n \in 0 .. Len(s) : value[n] \in Int

(* Stoi reads digit after digit. *)
LEMMA StoiReads ==
    ASSUME NEW S, NEW s \in Seq(S), \A i \in 1 .. Len(s) : IsDigit(s[i])
    PROVE  \E value : Reads(value, s) /\ Stoi(s) = value[Len(s)]
<1> DEFINE N == Len(s)
           step == [n \in 1 .. N |-> [v \in Int |-> Shifted(v, Digit(s[n]))]]
           value[n \in 0 .. N] == IF n = 0 THEN 0 ELSE Shifted(value[n - 1], Digit(s[n]))
<1>1. N \in Nat
  OBVIOUS
<1>2. \A n \in 1 .. N : Digit(s[n]) \in Int
  BY DigitOf
<1>3. step \in [1 .. N -> [Int -> Int]]
  BY <1>2, ShiftedIsInt
<1>4. PICK zero : zero = 0
  OBVIOUS
<1>5. PICK f : Recurs(f, N, Int, zero, step)
  <2> HIDE DEF step, N
  <2>1. PICK Z : Z = Int
    OBVIOUS
  <2>2. zero \in Z /\ step \in [1 .. N -> [Z -> Z]]
    BY <1>3, <1>4, <2>1
  <2>3. \E f : Recurs(f, N, Z, zero, step)
    BY <1>1, <2>2, Recursion, Zenon
  <2> QED
    BY <2>1, <2>3
<1>6. /\ f \in [0 .. N -> Int] /\ f[0] = 0
      /\ \A n \in 1 .. N : f[n] = step[n][f[n - 1]]
  BY <1>4, <1>5 DEF Recurs
<1>7. \A n \in 1 .. N : n - 1 \in 0 .. N /\ n \in 0 .. N /\ n # 0 /\ f[n - 1] \in Int
  BY <1>1, <1>6
<1>8. \A n \in 1 .. N : f[n] = Shifted(f[n - 1], Digit(s[n]))
  BY <1>6, <1>7
<1>9. f = [n \in 0 .. N |-> IF n = 0 THEN 0 ELSE Shifted(f[n - 1], Digit(s[n]))]
  <2>1. \A n \in 0 .. N : n = 0 \/ n \in 1 .. N
    BY <1>1
  <2> HIDE DEF step
  <2> QED
    BY <1>6, <1>8, <2>1
<1>10. value = [n \in 0 .. N |-> IF n = 0 THEN 0 ELSE Shifted(value[n - 1], Digit(s[n]))]
  BY <1>9
<1>11. Stoi(s) = value[N]
  BY DEF Stoi
<1>12. Reads(value, s)
  <2> HIDE DEF value
  <2>1. value[0] = 0
    BY <1>1, <1>10
  <2>2. \A n \in 1 .. N : value[n] = Shifted(value[n - 1], Digit(s[n]))
    BY <1>7, <1>10
  <2> DEFINE T == {n \in Nat : n <= N => value[n] \in Int}
  <2>3. 0 \in T
    BY <2>1
  <2>4. ASSUME NEW n \in Nat, n \in T PROVE n + 1 \in T
    <3> SUFFICES ASSUME n + 1 <= N PROVE value[n + 1] \in Int
      OBVIOUS
    <3>1. n + 1 \in 1 .. N /\ (n + 1) - 1 = n /\ value[n] \in Int
      BY <1>1, <2>4
    <3> QED
      BY <1>2, <2>2, <3>1, ShiftedIsInt
  <2>5. Nat \subseteq T
    <3> HIDE DEF T
    <3> QED
      BY <2>3, <2>4, Induct
  <2>6. \A n \in 0 .. N : value[n] \in Int
    BY <1>1, <2>5
  <2> QED
    BY <2>1, <2>2, <2>6 DEF Reads
<1> QED
  BY <1>11, <1>12

(* A part of a sequence. *)
LEMMA Part ==
    ASSUME NEW S, NEW s \in Seq(S), NEW a \in 1 .. Len(s) + 1, NEW b \in a - 1 .. Len(s)
    PROVE  /\ SubSeq(s, a, b) \in Seq(S)
           /\ Len(SubSeq(s, a, b)) = b - a + 1
           /\ \A i \in 1 .. b - a + 1 : SubSeq(s, a, b)[i] = s[a + i - 1]
  OBVIOUS

LEMMA Rest ==
    ASSUME NEW S, NEW s \in Seq(S), NEW a \in 1 .. Len(s) + 1
    PROVE  /\ From(s, a) \in Seq(S)
           /\ Len(From(s, a)) = Len(s) - a + 1
           /\ \A i \in 1 .. Len(s) - a + 1 : From(s, a)[i] = s[a + i - 1]
<1>1. Len(s) \in a - 1 .. Len(s)
  OBVIOUS
<1> QED
  BY <1>1, Part DEF From

-----------------------------------------------------------------------------
AllDigits(s) == \A i \in 1 .. Len(s) : IsDigit(s[i])

LEMMA ShiftedZero ==
    ASSUME NEW c, c = "0"
    PROVE  IsDigit(c) /\ Shifted(0, Digit(c)) = 0
<1>1. Len(Numerals) = 10 /\ DOMAIN Numerals = 1 .. 10 /\ Numerals[1] = "0"
  BY DEF Numerals
<1>2. IsDigit(c)
  BY <1>1 DEF IsDigit, Range
<1>3. Digit(c) = 0
  BY <1>2, DigitOf
<1> QED
  BY <1>2, <1>3 DEF Shifted, IntMax, OutOfRange

(* Zeros in front add nothing to a number. *)
LEMMA LeadingZeros ==
    ASSUME NEW S, NEW s \in Seq(S), AllDigits(s), NEW zeros \in 0 .. Len(s),
           \A i \in 1 .. zeros : s[i] = "0"
    PROVE  Stoi(s) = Stoi(From(s, zeros + 1))
<1>1. PICK N, r, M : N = Len(s) /\ r = From(s, zeros + 1) /\ M = Len(r)
  OBVIOUS
<1>2. /\ N \in Nat /\ zeros \in 0 .. N /\ M = N - zeros /\ r \in Seq(S)
      /\ \A i \in 1 .. M : r[i] = s[zeros + i]
  <2>1. zeros + 1 \in 1 .. Len(s) + 1
    OBVIOUS
  <2>2. /\ r \in Seq(S) /\ M = Len(s) - (zeros + 1) + 1
        /\ \A i \in 1 .. Len(s) - (zeros + 1) + 1 : r[i] = s[zeros + 1 + i - 1]
    BY <1>1, <2>1, Rest
  <2> QED
    BY <1>1, <2>2
<1>3. AllDigits(r)
  <2>1. \A i \in 1 .. M : zeros + i \in 1 .. N
    BY <1>2
  <2> QED
    BY <1>1, <1>2, <2>1 DEF AllDigits
<1>4. PICK value : Reads(value, s) /\ Stoi(s) = value[N]
  BY <1>1, StoiReads DEF AllDigits
<1>5. PICK rest : Reads(rest, r) /\ Stoi(r) = rest[M]
  BY <1>1, <1>2, <1>3, StoiReads DEF AllDigits
<1> DEFINE T == {n \in Nat : n <= zeros => value[n] = 0}
           U == {n \in Nat : n <= M => value[zeros + n] = rest[n]}
<1>6. zeros \in T
  <2>1. 0 \in T
    BY <1>4 DEF Reads
  <2>2. ASSUME NEW n \in Nat, n \in T PROVE n + 1 \in T
    <3> SUFFICES ASSUME n + 1 <= zeros PROVE value[n + 1] = 0
      OBVIOUS
    <3>1. n + 1 \in 1 .. N /\ n + 1 \in 1 .. zeros /\ (n + 1) - 1 = n /\ value[n] = 0
      BY <1>2, <2>2
    <3>2. value[n + 1] = Shifted(0, Digit(s[n + 1]))
      BY <1>1, <1>4, <3>1 DEF Reads
    <3> QED
      BY <3>1, <3>2, ShiftedZero
  <2> HIDE DEF T
  <2> QED
    BY <2>1, <2>2, Induct
<1>7. M \in U
  <2>1. 0 \in U
    BY <1>2, <1>5, <1>6 DEF Reads
  <2>2. ASSUME NEW n \in Nat, n \in U PROVE n + 1 \in U
    <3> SUFFICES ASSUME n + 1 <= M PROVE value[zeros + (n + 1)] = rest[n + 1]
      OBVIOUS
    <3>1. /\ n + 1 \in 1 .. M /\ (n + 1) - 1 = n /\ value[zeros + n] = rest[n]
          /\ zeros + (n + 1) \in 1 .. N /\ (zeros + (n + 1)) - 1 = zeros + n
      BY <1>2, <2>2
    <3>2. value[zeros + (n + 1)] = Shifted(value[zeros + n], Digit(s[zeros + (n + 1)]))
      BY <1>1, <1>4, <3>1 DEF Reads
    <3>3. rest[n + 1] = Shifted(rest[n], Digit(r[n + 1]))
      BY <1>1, <1>5, <3>1 DEF Reads
    <3> QED
      BY <1>2, <3>1, <3>2, <3>3
  <2>3. M \in Nat
    BY <1>2
  <2> HIDE DEF U
  <2> QED
    BY <2>1, <2>2, <2>3, Induct
<1>8. value[N] = rest[M]
  <2>1. M <= M /\ zeros + M = N
    BY <1>2
  <2> QED
    BY <1>7, <2>1
<1> QED
  BY <1>1, <1>4, <1>5, <1>8

(* What one digit more makes of a number. *)
FourDigits == 9999
LEMMA ShiftedSmall ==
    ASSUME NEW n \in Int, NEW d \in 0 .. 9, 0 <= n, n <= FourDigits
    PROVE  Shifted(n, d) = 10 * n + d
  BY SMT DEF Shifted, IntMax, OutOfRange, FourDigits

Large(n) == n = OutOfRange \/ n > MaxPort

LEMMA ShiftedLarge ==
    ASSUME NEW n \in Int, NEW d \in 0 .. 9, n >= 10000 \/ Large(n)
    PROVE  Large(Shifted(n, d))
  BY SMT DEF Shifted, IntMax, OutOfRange, MaxPort, Large

(* A number that starts with no zero has as many digits as its size needs. *)
LEMMA Magnitude ==
    ASSUME NEW S, NEW s \in Seq(S), AllDigits(s), Len(s) # 0, s[1] # "0"
    PROVE  /\ Len(s) <= 5 => Stoi(s) >= 1
           /\ Len(s) > 5 => Large(Stoi(s))
<1>1. PICK N : N = Len(s) /\ N \in Nat /\ N >= 1
  OBVIOUS
<1>2. PICK value : Reads(value, s) /\ Stoi(s) = value[N]
  BY <1>1, StoiReads DEF AllDigits
<1>3. \A n \in 1 .. N : Digit(s[n]) \in 0 .. 9
  BY <1>1, DigitOf DEF AllDigits
<1>4. Digit(s[1]) # 0
  BY <1>1, DigitOf DEF AllDigits
<1>5. /\ value[0] = 0
      /\ \A n \in 1 .. N : value[n] = Shifted(value[n - 1], Digit(s[n]))
      /\ \A n \in 0 .. N : value[n] \in Int
  BY <1>1, <1>2, Zenon DEF Reads
(* A digit more: low and high bound the number before. *)
<1>6. ASSUME NEW n \in Nat, n + 1 \in 1 .. N, NEW low \in Nat, NEW high \in Nat,
             low <= value[n], value[n] <= high, high <= FourDigits
      PROVE  10 * low <= value[n + 1] /\ value[n + 1] <= 10 * high + 9
  <2>1. n \in 0 .. N /\ (n + 1) - 1 = n
    BY <1>1, <1>6
  <2>0. /\ value[n] \in Int /\ Digit(s[n + 1]) \in 0 .. 9
        /\ value[n + 1] = Shifted(value[n], Digit(s[n + 1]))
    BY <1>3, <1>5, <1>6, <2>1
  <2>2. PICK v \in Int, d \in 0 .. 9 : v = value[n] /\ value[n + 1] = Shifted(v, d)
    BY <2>0
  <2>3. low <= v /\ v <= high
    BY <1>6, <2>2
  <2>4. 0 <= v /\ v <= FourDigits
    BY <1>6, <2>3, SMT DEF FourDigits
  <2>5. Shifted(v, d) = 10 * v + d
    BY <2>4, ShiftedSmall, Zenon
  <2>6. 10 * low <= 10 * v + d /\ 10 * v + d <= 10 * high + 9
    BY <2>3, SMT
  <2> QED
    BY <2>2, <2>5, <2>6
<1>7. 1 <= value[1] /\ value[1] <= 9
  <2>1. 1 \in 1 .. N /\ 1 - 1 = 0
    BY <1>1
  <2>2. PICK d \in 0 .. 9 : d # 0 /\ value[1] = Shifted(0, d)
    BY <1>3, <1>4, <1>5, <2>1
  <2>3. Shifted(0, d) = 10 * 0 + d
    <3>1. 0 \in Int /\ 0 <= 0 /\ 0 <= FourDigits
      BY SMT DEF FourDigits
    <3> QED
      BY <3>1, ShiftedSmall, Zenon
  <2> QED
    BY <2>2, <2>3, SMT
<1>8. N >= 2 => 10 <= value[2] /\ value[2] <= 99
  BY <1>1, <1>6, <1>7, 1 + 1 = 2, SMT DEF FourDigits
<1>9. N >= 3 => 100 <= value[3] /\ value[3] <= 999
  BY <1>1, <1>6, <1>8, 2 + 1 = 3, SMT DEF FourDigits
<1>10. N >= 4 => 1000 <= value[4] /\ value[4] <= 9999
  BY <1>1, <1>6, <1>9, 3 + 1 = 4, SMT DEF FourDigits
<1>11. N >= 5 => 10000 <= value[5]
  BY <1>1, <1>6, <1>10, 4 + 1 = 5, SMT DEF FourDigits
<1> DEFINE T == {n \in Nat : n + 6 <= N => Large(value[n + 6])}
<1>12. Nat \subseteq T
  <2>1. 0 \in T
    <3> SUFFICES ASSUME 6 <= N PROVE Large(value[6])
      OBVIOUS
    <3>1. 6 \in 1 .. N /\ 6 - 1 = 5 /\ 5 \in 0 .. N
      BY <1>1
    <3>2. value[6] = Shifted(value[5], Digit(s[6])) /\ Digit(s[6]) \in 0 .. 9
      BY <1>3, <1>5, <3>1
    <3>3. value[5] \in Int /\ value[5] >= 10000
      BY <1>1, <1>5, <1>11, <3>1, SMT
    <3> QED
      BY <3>2, <3>3, ShiftedLarge, SMT
  <2>2. ASSUME NEW n \in Nat, n \in T PROVE n + 1 \in T
    <3> SUFFICES ASSUME n + 7 <= N PROVE Large(value[n + 7])
      BY <1>1
    <3>1. n + 7 \in 1 .. N /\ (n + 7) - 1 = n + 6 /\ n + 6 \in 0 .. N /\ n + 6 <= N
      BY <1>1
    <3>2. Large(value[n + 6]) /\ value[n + 6] \in Int
      BY <1>5, <2>2, <3>1
    <3>3. value[n + 7] = Shifted(value[n + 6], Digit(s[n + 7])) /\ Digit(s[n + 7]) \in 0 .. 9
      BY <1>3, <1>5, <3>1
    <3> QED
      BY <3>2, <3>3, ShiftedLarge
  <2> HIDE DEF T
  <2> QED
    BY <2>1, <2>2, Induct
<1>13. CASE N > 5
  <2>1. N - 6 \in Nat /\ (N - 6) + 6 = N
    BY <1>1, <1>13
  <2>2. Large(value[N])
    BY <1>12, <2>1
  <2> QED
    BY <1>1, <1>2, <1>13, <2>2
<1>14. CASE N <= 5
  <2>1. N \in {1, 2, 3, 4, 5}
    BY <1>1, <1>14
  <2>2. value[N] >= 1
    BY <1>5, <1>7, <1>8, <1>9, <1>10, <1>11, <2>1, SMT
  <2> QED
    BY <1>1, <1>2, <1>14, <2>2
<1> QED
  BY <1>1, <1>13, <1>14

(* No digits are no port. *)
LEMMA NoDigits == Stoi(<<>>) = 0
<1>1. <<>> \in Seq({}) /\ Len(<<>>) = 0 /\ \A i \in 1 .. 0 : FALSE
  OBVIOUS
<1>2. PICK value : Reads(value, <<>>) /\ Stoi(<<>>) = value[Len(<<>>)]
  BY <1>1, StoiReads
<1> QED
  BY <1>1, <1>2 DEF Reads

LEMMA PortNumber ==
    ASSUME NEW n \in Int
    PROVE  n \in 1 .. MaxPort <=> n >= 1 /\ n <= MaxPort /\ ~Large(n)
  BY SMT DEF Large, OutOfRange, MaxPort

(* A port is accepted exactly when it has digits only, whose number without the
   zeros in front is one that five digits can hold, and no more than 65535.  *)
LEMMA Ports ==
    ASSUME NEW S, NEW s \in Seq(S)
    PROVE  IsValidPortString(s) <=> IsPort(s)
<1>1. PICK N : N = Len(s) /\ N \in Nat /\ DOMAIN s = 1 .. N
  OBVIOUS
<1>2. ASSUME NEW zeros \in 0 .. N, \A i \in 1 .. zeros : s[i] = "0"
      PROVE  LET digits == From(s, zeros + 1)
             IN  /\ digits \in Seq(S) /\ Len(digits) = N - zeros
                 /\ \A i \in 1 .. N - zeros : digits[i] = s[zeros + i]
                 /\ AllDigits(digits) <=> AllDigits(s)
                 /\ AllDigits(s) => Stoi(s) = Stoi(digits)
  <2>1. PICK digits : digits = From(s, zeros + 1)
    OBVIOUS
  <2>2. zeros + 1 \in 1 .. Len(s) + 1
    BY <1>1
  <2>3. /\ digits \in Seq(S) /\ Len(digits) = Len(s) - (zeros + 1) + 1
        /\ \A i \in 1 .. Len(s) - (zeros + 1) + 1 : digits[i] = s[zeros + 1 + i - 1]
    BY <2>1, <2>2, Rest
  <2>4. /\ Len(digits) = N - zeros
        /\ \A i \in 1 .. N - zeros : digits[i] = s[zeros + i]
    BY <1>1, <2>3
  <2>5. ASSUME AllDigits(digits) PROVE AllDigits(s)
    <3>1. ASSUME NEW i \in 1 .. N PROVE IsDigit(s[i])
      <4>1. CASE i <= zeros
        BY <1>2, <4>1, ShiftedZero
      <4>2. CASE i > zeros
        <5>1. i - zeros \in 1 .. N - zeros /\ zeros + (i - zeros) = i
          BY <1>1, <4>2
        <5> QED
          BY <2>4, <2>5, <5>1 DEF AllDigits
      <4> QED
        BY <1>1, <4>1, <4>2
    <3> QED
      BY <1>1, <3>1 DEF AllDigits
  <2>6. ASSUME AllDigits(s) PROVE AllDigits(digits)
    <3>1. \A i \in 1 .. N - zeros : zeros + i \in 1 .. N
      BY <1>1
    <3> QED
      BY <1>1, <2>4, <2>6, <3>1 DEF AllDigits
  <2>7. AllDigits(s) => Stoi(s) = Stoi(digits)
    BY <1>1, <1>2, <2>1, LeadingZeros
  <2> QED
    BY <2>1, <2>3, <2>4, <2>5, <2>6, <2>7
<1>3. \A digits \in Seq(S) : All(digits, IsDigit) <=> AllDigits(digits)
  BY DEF All, AllDigits
<1>4. ASSUME NEW digits \in Seq(S), AllDigits(digits) PROVE Stoi(digits) \in Int
  <2>1. PICK value : Reads(value, digits) /\ Stoi(digits) = value[Len(digits)]
    BY <1>4, StoiReads DEF AllDigits
  <2>2. Len(digits) \in 0 .. Len(digits)
    OBVIOUS
  <2> QED
    BY <2>1, <2>2 DEF Reads
<1>5. IsValidPortString(s) <=> N # 0 /\ AllDigits(s) /\ Stoi(s) \in 1 .. MaxPort
  <2>1. s # <<>> <=> N # 0
    BY <1>1
  <2> QED
    BY <1>3, <2>1, Zenon DEF IsValidPortString
<1>6. ASSUME IsPort(s) PROVE IsValidPortString(s)
  <2>0. PICK zeros \in 0 .. N :
            LET digits == From(s, zeros + 1)
            IN  /\ \A i \in 1 .. zeros : s[i] = "0"
                /\ Len(digits) \in 1 .. 5 /\ All(digits, IsDigit) /\ digits[1] # "0"
                /\ Stoi(digits) <= MaxPort
    BY <1>1, <1>6, Zenon DEF IsPort
  <2>1. PICK digits :
            /\ digits = From(s, zeros + 1)
            /\ \A i \in 1 .. zeros : s[i] = "0"
            /\ Len(digits) \in 1 .. 5 /\ All(digits, IsDigit) /\ digits[1] # "0"
            /\ Stoi(digits) <= MaxPort
    BY <2>0, Zenon
  <2>2. /\ digits \in Seq(S) /\ Len(digits) = N - zeros
        /\ AllDigits(digits) <=> AllDigits(s)
        /\ AllDigits(s) => Stoi(s) = Stoi(digits)
    BY <1>2, <2>1, Zenon
  <2>3. AllDigits(digits) /\ Stoi(digits) \in Int
    BY <1>3, <1>4, <2>1, <2>2, Zenon
  <2>4. Stoi(digits) >= 1
    <3>1. Len(digits) # 0 /\ Len(digits) <= 5
      <4>1. Len(digits) \in 1 .. 5
        BY <2>1, Zenon
      <4>2. \A l \in 1 .. 5 : l # 0 /\ l <= 5
        OBVIOUS
      <4> QED
        BY <4>1, <4>2, Zenon
    <3> QED
      BY <2>1, <2>2, <2>3, <3>1, Magnitude, Zenon
  <2>5. Stoi(digits) \in 1 .. MaxPort
    <3>1. ~Large(Stoi(digits))
      BY <2>1, <2>3, <2>4, SMT DEF Large, OutOfRange, MaxPort
    <3> QED
      BY <2>1, <2>3, <2>4, <3>1, PortNumber, Zenon
  <2>6. N # 0
    BY <1>1, <2>1, <2>2
  <2> QED
    BY <1>5, <2>2, <2>3, <2>5, <2>6, Zenon
<1>7. ASSUME IsValidPortString(s) PROVE IsPort(s)
  <2>1. N # 0 /\ AllDigits(s) /\ Stoi(s) \in 1 .. MaxPort
    BY <1>5, <1>7, Zenon
  <2>2. Stoi(s) \in Int /\ Stoi(s) >= 1 /\ Stoi(s) <= MaxPort /\ ~Large(Stoi(s))
    BY <1>4, <2>1, PortNumber, Zenon
  <2> DEFINE I == {i \in 1 .. N : s[i] # "0"}
  <2>3. CASE I = {}
    <3>1. N \in 0 .. N /\ \A i \in 1 .. N : s[i] = "0"
      BY <1>1, <2>3
    <3>2. PICK digits : digits = From(s, N + 1)
      OBVIOUS
    <3>3. digits \in Seq(S) /\ Len(digits) = N - N /\ Stoi(s) = Stoi(digits)
      BY <1>2, <2>1, <3>1, <3>2, Zenon
    <3>4. digits = <<>>
      BY <1>1, <3>3
    <3>5. Stoi(s) = 0
      BY <3>3, <3>4, NoDigits
    <3> QED
      BY <2>2, <3>5
  <2>4. CASE I # {}
    <3>1. PICK first : first = Min(I)
      OBVIOUS
    <3>2. first \in I /\ \A i \in I : first <= i
      <4>1. I \subseteq Nat
        BY <1>1
      <4> HIDE DEF I
      <4> QED
        BY <2>4, <3>1, <4>1, LeastOf
    <3>3. PICK zeros \in 0 .. N : zeros + 1 = first
      BY <1>1, <3>2
    <3>4. \A i \in 1 .. zeros : s[i] = "0"
      BY <1>1, <3>2, <3>3
    <3>5. PICK digits : digits = From(s, zeros + 1)
      OBVIOUS
    <3>6. /\ digits \in Seq(S) /\ Len(digits) = N - zeros
          /\ \A i \in 1 .. N - zeros : digits[i] = s[zeros + i]
          /\ AllDigits(digits) /\ Stoi(digits) = Stoi(s)
      BY <1>2, <2>1, <3>4, <3>5, Zenon
    <3>7. N - zeros >= 1 /\ N - zeros \in Nat /\ digits[1] # "0"
      <4>1. 1 \in 1 .. N - zeros /\ first \in 1 .. N /\ s[first] # "0"
        BY <1>1, <3>2, <3>3
      <4> QED
        BY <1>1, <3>3, <3>6, <4>1
    <3>8. ~(Len(digits) > 5)
      <4>1. Len(digits) # 0
        BY <3>6, <3>7
      <4> QED
        BY <2>2, <3>6, <3>7, <4>1, Magnitude
    <3>9. Len(digits) \in 1 .. 5
      BY <3>6, <3>7, <3>8
    <3>10. All(digits, IsDigit) /\ Stoi(digits) <= MaxPort
      BY <1>3, <2>2, <3>6, Zenon
    <3> QED
      BY <1>1, <3>4, <3>5, <3>7, <3>9, <3>10, Zenon DEF IsPort
  <2> QED
    BY <2>3, <2>4
<1> QED
  BY <1>6, <1>7

(* Which signs are letters or digits, and which are told apart. *)
LEMMA Signs ==
    /\ \A c \in {".", "-", "[", "]", ":", " "} : ~IsAlphaNumeric(c) /\ ~IsHexDigit(c) /\ ~IsDigit(c)
    /\ "." # "-" /\ "." # "[" /\ "." # "]" /\ "." # ":" /\ "." # " "
    /\ "-" # "[" /\ "-" # "]" /\ "-" # ":" /\ "-" # " "
    /\ "[" # "]" /\ "[" # ":" /\ "[" # " " /\ "]" # ":" /\ "]" # " " /\ ":" # " "
<1>1. Range(Numerals) = {"0", "1", "2", "3", "4", "5", "6", "7", "8", "9"}
  <2>1. DOMAIN Numerals = 1 .. 10
    BY DEF Numerals
  <2>2. /\ Numerals[1] = "0" /\ Numerals[2] = "1" /\ Numerals[3] = "2" /\ Numerals[4] = "3"
        /\ Numerals[5] = "4" /\ Numerals[6] = "5" /\ Numerals[7] = "6" /\ Numerals[8] = "7"
        /\ Numerals[9] = "8" /\ Numerals[10] = "9"
    BY DEF Numerals
  <2>3. 1 .. 10 = {1, 2, 3, 4, 5, 6, 7, 8, 9, 10}
    OBVIOUS
  <2> QED
    BY <2>1, <2>2, <2>3 DEF Range
<1>2. \A c \in {".", "-", "[", "]", ":", " "} : ~IsDigit(c)
  BY <1>1 DEF IsDigit
<1>3. \A c \in {".", "-", "[", "]", ":", " "} : ~IsHexDigit(c)
  BY <1>2 DEF IsHexDigit
<1>4. \A c \in {".", "-", "[", "]", ":", " "} : ~IsAlphaNumeric(c)
  BY <1>3 DEF IsAlphaNumeric
<1> QED
  BY <1>2, <1>3, <1>4

-----------------------------------------------------------------------------
(* The places 1 .. N of letters and digits, dots and hyphens, from three sides:
   as the labels between the dots are tested, ...                          *)
Starts(D) == {1} \cup {i + 1 : i \in D}
IsLabel(N, D, start, end) ==
    /\ start <= N
    /\ \A i \in start .. end : i \notin D
    /\ end = N \/ end + 1 \in D
LabelsHold(N, A, D, H) ==
    \A start \in Starts(D) : \A end \in start - 1 .. N :
        IsLabel(N, D, start, end)
        => /\ start <= end /\ start \notin H /\ end \notin H
           /\ \A i \in start .. end : i \in A \/ i \in H

(* ... place by place, ... *)
PlacesHold(N, A, D, H) ==
    /\ \A start \in Starts(D) : start <= N => start \in A
    /\ \A i \in 1 .. N : i \in A \/ i \in D \/ i \in H
    /\ \A i \in 1 .. N : i \notin D /\ (i = N \/ i + 1 \in D) => i \in A

(* ... and as a name is defined. *)
NameHolds(N, A, D, H) ==
    \E n \in 1 .. N :
        /\ n = N \/ (n = N - 1 /\ N \in D)
        /\ 1 \in A /\ n \in A
        /\ \A i \in 1 .. n : i \in A \/ i \in D \/ i \in H
        /\ \A i \in 2 .. n - 1 : i \in D => i - 1 \in A /\ i + 1 \in A

(* The three say the same. *)
LEMMA NamePlaces ==
    ASSUME NEW N \in Nat \ {0}, NEW A, NEW D, NEW H, D \subseteq 1 .. N,
           A \cap D = {}, A \cap H = {}, D \cap H = {}
    PROVE  PlacesHold(N, A, D, H) <=> NameHolds(N, A, D, H)
<1>1. ASSUME PlacesHold(N, A, D, H) PROVE NameHolds(N, A, D, H)
  <2>1. /\ 1 \in A
        /\ \A i \in D : i + 1 <= N => i + 1 \in A
        /\ \A i \in 1 .. N : i \in A \/ i \in D \/ i \in H
        /\ \A i \in 1 .. N : i \notin D /\ (i = N \/ i + 1 \in D) => i \in A
    BY <1>1 DEF PlacesHold, Starts
  <2>2. ASSUME NEW i \in D PROVE i # 1 /\ i - 1 \in A
    <3>1. i # 1
      BY <2>1
    <3>2. i - 1 \in 1 .. N /\ (i - 1) + 1 = i /\ i <= N
      BY <3>1
    <3>3. i - 1 \notin D
      BY <2>1, <3>2
    <3> QED
      BY <2>1, <3>1, <3>2, <3>3
  <2>3. CASE N \notin D
    <3>1. N \in 1 .. N /\ N \in A
      BY <2>1, <2>3
    <3>2. \A i \in 2 .. N - 1 : i \in D => i - 1 \in A /\ i + 1 \in A
      BY <2>1, <2>2
    <3> QED
      BY <2>1, <3>1, <3>2 DEF NameHolds
  <2>4. CASE N \in D
    <3>1. N - 1 \in 1 .. N /\ N - 1 \in A
      BY <2>2, <2>4
    <3>2. \A i \in 2 .. (N - 1) - 1 : i \in D => i - 1 \in A /\ i + 1 \in A
      BY <2>1, <2>2
    <3>3. \A i \in 1 .. N - 1 : i \in A \/ i \in D \/ i \in H
      BY <2>1
    <3> QED
      BY <2>1, <2>4, <3>1, <3>2, <3>3 DEF NameHolds
  <2> QED
    BY <2>3, <2>4
<1>2. ASSUME NameHolds(N, A, D, H) PROVE PlacesHold(N, A, D, H)
  <2>1. PICK n \in 1 .. N :
            /\ n = N \/ (n = N - 1 /\ N \in D)
            /\ 1 \in A /\ n \in A
            /\ \A i \in 1 .. n : i \in A \/ i \in D \/ i \in H
            /\ \A i \in 2 .. n - 1 : i \in D => i - 1 \in A /\ i + 1 \in A
    BY <1>2 DEF NameHolds
  <2>2. ASSUME NEW i \in D, i + 1 <= N PROVE i + 1 \in A
    <3>1. i # 1 /\ i # n
      BY <2>1
    <3>2. i \in 2 .. n - 1
      BY <2>1, <2>2, <3>1
    <3> QED
      BY <2>1, <3>2
  <2>3. ASSUME NEW i \in 1 .. N PROVE i \in A \/ i \in D \/ i \in H
    BY <2>1
  <2>4. ASSUME NEW i \in 1 .. N, i \notin D, i = N \/ i + 1 \in D PROVE i \in A
    <3>1. CASE i = N
      BY <2>1, <2>4, <3>1
    <3>2. CASE i + 1 \in D
      <4>1. CASE i + 1 \in 2 .. n - 1
        BY <2>1, <3>2, <4>1
      <4>2. CASE i + 1 \notin 2 .. n - 1
        <5>1. i + 1 # n
          BY <2>1, <3>2
        <5>2. i = n
          BY <2>1, <3>2, <4>2, <5>1
        <5> QED
          BY <2>1, <5>2
      <4> QED
        BY <4>1, <4>2
    <3> QED
      BY <2>4, <3>1, <3>2
  <2> QED
    BY <2>1, <2>2, <2>3, <2>4 DEF PlacesHold, Starts
<1> QED
  BY <1>1, <1>2

LEMMA LabelPlaces ==
    ASSUME NEW N \in Nat \ {0}, NEW A, NEW D, NEW H, D \subseteq 1 .. N,
           A \cap D = {}, A \cap H = {}, D \cap H = {}
    PROVE  LabelsHold(N, A, D, H) <=> PlacesHold(N, A, D, H)
<1>0. /\ 1 \in Starts(D) /\ (\A i \in D : i + 1 \in Starts(D))
      /\ \A start \in Starts(D) : start = 1 \/ (start - 1 \in D /\ start \in Nat /\ start >= 1)
  BY DEF Starts
<1>1. ASSUME PlacesHold(N, A, D, H) PROVE LabelsHold(N, A, D, H)
  <2>1. /\ \A start \in Starts(D) : start <= N => start \in A
        /\ \A i \in 1 .. N : i \in A \/ i \in D \/ i \in H
        /\ \A i \in 1 .. N : i \notin D /\ (i = N \/ i + 1 \in D) => i \in A
    BY <1>1 DEF PlacesHold
  <2>2. ASSUME NEW start \in Starts(D), NEW end \in start - 1 .. N, IsLabel(N, D, start, end)
        PROVE  /\ start <= end /\ start \notin H /\ end \notin H
               /\ \A i \in start .. end : i \in A \/ i \in H
    <3>0. start <= N /\ (\A i \in start .. end : i \notin D) /\ (end = N \/ end + 1 \in D)
      BY <2>2 DEF IsLabel
    <3>1. start \in A /\ start \in 1 .. N
      BY <1>0, <2>1, <3>0
    <3>2. start <= end
      <4> SUFFICES ASSUME end = start - 1 PROVE FALSE
        BY <3>1
      <4> QED
        BY <3>0, <3>1
    <3>3. end \in 1 .. N /\ end \notin D
      BY <3>0, <3>1, <3>2
    <3> QED
      BY <2>1, <3>0, <3>1, <3>2, <3>3
  <2> QED
    BY <2>2 DEF LabelsHold
<1>3. \A i \in D : i \in Nat /\ i \in 0 .. N
  OBVIOUS
<1>2. ASSUME LabelsHold(N, A, D, H) PROVE PlacesHold(N, A, D, H)
  <2>1. ASSUME NEW start \in Starts(D), start <= N
        PROVE  \E end \in start - 1 .. N : IsLabel(N, D, start, end)
    <3> DEFINE I == {i \in D : start <= i}
    <3>1. CASE I = {}
      <4>1. N \in start - 1 .. N /\ \A i \in start .. N : i \notin D
        BY <1>0, <2>1, <3>1
      <4> QED
        BY <2>1, <4>1 DEF IsLabel
    <3>2. CASE I # {}
      <4>1. PICK dot : dot = Min(I)
        OBVIOUS
      <4>2. dot \in I /\ \A i \in I : dot <= i
        <5>1. I \subseteq Nat
          BY <1>3
        <5> HIDE DEF I
        <5> QED
          BY <3>2, <4>1, <5>1, LeastOf, Zenon
      <4>3. dot \in D /\ start <= dot /\ \A i \in D : start <= i => dot <= i
        BY <4>2
      <4>4. PICK end \in start - 1 .. N : end + 1 = dot
        BY <1>0, <4>3
      <4>5. \A i \in start .. end : i \notin D
        BY <1>0, <4>3, <4>4
      <4> QED
        BY <2>1, <4>3, <4>4, <4>5 DEF IsLabel
    <3> QED
      BY <3>1, <3>2
  <2>2. ASSUME NEW i \in 1 .. N, i \notin D
        PROVE  \E start \in Starts(D) : start <= i /\ \A j \in start .. i : j \notin D
    <3> DEFINE I == {j \in D : j < i}
    <3>1. CASE I = {}
      <4>1. 1 \in Starts(D) /\ 1 <= i /\ \A j \in 1 .. i : j \notin D
        BY <1>0, <2>2, <3>1
      <4> QED
        BY <4>1
    <3>2. CASE I # {}
      <4>1. PICK dot : dot = Max(I)
        OBVIOUS
      <4>2. dot \in I /\ \A j \in I : j <= dot
        <5>1. I \subseteq 0 .. N
          BY <1>3
        <5> HIDE DEF I
        <5> QED
          BY <3>2, <4>1, <5>1, GreatestOf, Zenon
      <4>3. dot \in D /\ dot < i /\ \A j \in D : j < i => j <= dot
        BY <4>2
      <4>4. dot + 1 \in Starts(D) /\ dot + 1 <= i
        BY <1>0, <4>3
      <4>5. \A j \in dot + 1 .. i : j \notin D
        BY <2>2, <4>3
      <4> QED
        BY <4>4, <4>5
    <3> QED
      BY <3>1, <3>2
  <2>3. ASSUME NEW start \in Starts(D), NEW end \in start - 1 .. N, IsLabel(N, D, start, end)
        PROVE  /\ start <= end /\ start \notin H /\ end \notin H
               /\ \A i \in start .. end : i \in A \/ i \in H
    BY <1>2, <2>3 DEF LabelsHold
  <2>4. ASSUME NEW start \in Starts(D), start <= N PROVE start \in A
    <3>1. PICK end \in start - 1 .. N : IsLabel(N, D, start, end)
      BY <2>1, <2>4
    <3>2. /\ start <= end /\ start \notin H
          /\ \A i \in start .. end : i \in A \/ i \in H
      BY <2>3, <3>1
    <3>3. start \in start .. end
      BY <1>0, <3>1, <3>2
    <3> QED
      BY <3>2, <3>3
  <2>5. ASSUME NEW i \in 1 .. N, i \notin D
        PROVE  (i \in A \/ i \in H) /\ (i = N \/ i + 1 \in D => i \in A)
    <3>1. PICK start \in Starts(D) : start <= i /\ \A j \in start .. i : j \notin D
      BY <2>2, <2>5
    <3>2. start \in Nat /\ start >= 1 /\ start <= N
      BY <1>0, <3>1
    <3>3. PICK end \in start - 1 .. N : IsLabel(N, D, start, end)
      BY <2>1, <3>2
    <3>4. i <= end
      <4>1. end = N \/ end + 1 \in D
        BY <3>3 DEF IsLabel
      <4> QED
        BY <3>1, <3>2, <4>1
    <3>5. i \in start .. end
      BY <3>1, <3>2, <3>4
    <3>6. i \in A \/ i \in H
      BY <2>3, <3>3, <3>5
    <3>7. ASSUME i = N \/ i + 1 \in D PROVE i \notin H
      <4>1. i \in start - 1 .. N /\ IsLabel(N, D, start, i)
        BY <3>1, <3>2, <3>7 DEF IsLabel
      <4> QED
        BY <2>3, <4>1
    <3> QED
      BY <3>6, <3>7
  <2> QED
    BY <2>4, <2>5 DEF PlacesHold
<1> QED
  BY <1>1, <1>2

(* What IsValidLabel says of a part of a host. *)
LEMMA LabelRead ==
    ASSUME NEW S, NEW host \in Seq(S), NEW start \in 1 .. Len(host), NEW end \in start - 1 .. Len(host)
    PROVE  IsValidLabel(SubSeq(host, start, end)) <=>
               /\ start <= end /\ host[start] # "-" /\ host[end] # "-"
               /\ \A i \in start .. end : IsAlphaNumeric(host[i]) \/ host[i] = "-"
<1>1. PICK label, L : label = SubSeq(host, start, end) /\ L = end - start + 1
  OBVIOUS
<1>2. /\ label \in Seq(S) /\ Len(label) = L /\ L \in Nat
      /\ \A i \in 1 .. L : label[i] = host[start + i - 1]
  <2>1. start \in 1 .. Len(host) + 1
    OBVIOUS
  <2>2. /\ label \in Seq(S) /\ Len(label) = end - start + 1
        /\ \A i \in 1 .. end - start + 1 : label[i] = host[start + i - 1]
    BY <1>1, <2>1, Part
  <2> QED
    BY <1>1, <2>2
<1>3. label # <<>> <=> start <= end
  BY <1>1, <1>2
<1>4. ASSUME start <= end PROVE label[1] = host[start] /\ label[Len(label)] = host[end]
  <2>1. 1 \in 1 .. L /\ L \in 1 .. L /\ start + 1 - 1 = start /\ start + L - 1 = end
    BY <1>1, <1>4
  <2> QED
    BY <1>2, <2>1
<1>5. (\A i \in DOMAIN label : IsAlphaNumeric(label[i]) \/ label[i] = "-")
      <=> \A i \in start .. end : IsAlphaNumeric(host[i]) \/ host[i] = "-"
  <2>1. DOMAIN label = 1 .. L
    BY <1>2
  <2>2. \A i \in 1 .. L : start + i - 1 \in start .. end
    BY <1>1
  <2>3. \A i \in start .. end : i - start + 1 \in 1 .. L /\ start + (i - start + 1) - 1 = i
    BY <1>1
  <2>4. \A i \in start .. end : host[i] = label[i - start + 1]
    BY <1>2, <2>3
  <2> QED
    BY <1>2, <2>1, <2>2, <2>3, <2>4, Zenon
<1> QED
  BY <1>1, <1>3, <1>4, <1>5, Zenon DEF IsValidLabel, All

(* The loop over the labels accepts names and nothing else. *)
LEMMA Names ==
    ASSUME NEW S, NEW host \in Seq(S)
    PROVE  IsValidDnsOrIpv4Host(host) <=> IsName(host)
<1>1. PICK N : N = Len(host) /\ N \in Nat /\ DOMAIN host = 1 .. N
  OBVIOUS
<1> DEFINE A == {i \in 1 .. N : IsAlphaNumeric(host[i])}
           D == {i \in 1 .. N : host[i] = "."}
           H == {i \in 1 .. N : host[i] = "-"}
<1>2. /\ A \cap D = {} /\ A \cap H = {} /\ D \cap H = {} /\ D \subseteq 1 .. N
  BY Signs
<1>3. CASE N = 0
  <2>1. host = <<>>
    BY <1>1, <1>3
  <2>2. ~IsName(host)
    BY <1>1, <1>3 DEF IsName
  <2> QED
    BY <2>1, <2>2 DEF IsValidDnsOrIpv4Host
<1>4. CASE N # 0
  <2>1. IsName(host) <=> NameHolds(N, A, D, H)
    <3>1. ASSUME NEW n \in 1 .. N
          PROVE  From(host, n + 1) \in {<<>>, <<".">>} <=> n = N \/ (n = N - 1 /\ N \in D)
      <4>1. PICK rest : rest = From(host, n + 1)
        OBVIOUS
      <4>2. /\ rest \in Seq(S) /\ Len(rest) = N - n
            /\ \A i \in 1 .. N - n : rest[i] = host[n + i]
        <5>1. n + 1 \in 1 .. Len(host) + 1
          BY <1>1
        <5>2. /\ rest \in Seq(S) /\ Len(rest) = Len(host) - (n + 1) + 1
              /\ \A i \in 1 .. Len(host) - (n + 1) + 1 : rest[i] = host[(n + 1) + i - 1]
          BY <4>1, <5>1, Rest
        <5> QED
          BY <1>1, <5>2
      <4>3. rest = <<>> <=> n = N
        BY <1>1, <4>2
      <4>4. rest = <<".">> <=> n = N - 1 /\ host[N] = "."
        <5>1. rest = <<".">> <=> Len(rest) = 1 /\ rest[1] = "."
          BY <4>2
        <5>2. Len(rest) = 1 <=> n = N - 1
          BY <1>1, <4>2
        <5>3. n = N - 1 => rest[1] = host[N]
          <6> SUFFICES ASSUME n = N - 1 PROVE rest[1] = host[N]
            OBVIOUS
          <6>1. 1 \in 1 .. N - n /\ n + 1 = N
            BY <1>1
          <6> QED
            BY <4>2, <6>1
        <5> QED
          BY <5>1, <5>2, <5>3
      <4>5. N \in D <=> host[N] = "."
        BY <1>1, <1>4
      <4> QED
        BY <4>1, <4>3, <4>4, <4>5
    <3>2. ASSUME NEW i \in 1 .. N
          PROVE  /\ IsAlphaNumeric(host[i]) <=> i \in A
                 /\ host[i] = "." <=> i \in D
                 /\ host[i] \in {".", "-"} <=> i \in D \/ i \in H
      OBVIOUS
    <3>3. 1 \in 1 .. N
      BY <1>1, <1>4
    <3> DEFINE Named(n) ==
            /\ IsAlphaNumeric(host[1]) /\ IsAlphaNumeric(host[n])
            /\ \A i \in 1 .. n : IsAlphaNumeric(host[i]) \/ host[i] \in {".", "-"}
            /\ \A i \in 2 .. n - 1 : host[i] = "." =>
                   IsAlphaNumeric(host[i - 1]) /\ IsAlphaNumeric(host[i + 1])
               Holds(n) ==
            /\ 1 \in A /\ n \in A
            /\ \A i \in 1 .. n : i \in A \/ i \in D \/ i \in H
            /\ \A i \in 2 .. n - 1 : i \in D => i - 1 \in A /\ i + 1 \in A
    <3>4. ASSUME NEW n \in 1 .. N PROVE Named(n) <=> Holds(n)
      <4>1. /\ \A i \in 1 .. n : i \in 1 .. N
            /\ \A i \in 2 .. n - 1 : i \in 1 .. N /\ i - 1 \in 1 .. N /\ i + 1 \in 1 .. N
        BY <1>1
      <4> HIDE DEF A, D, H
      <4> QED
        BY <3>2, <3>3, <4>1, Zenon
    <3>5. IsName(host) <=> \E n \in 1 .. N : From(host, n + 1) \in {<<>>, <<".">>} /\ Named(n)
      BY <1>1, Zenon DEF IsName
    <3>6. NameHolds(N, A, D, H) <=> \E n \in 1 .. N : (n = N \/ (n = N - 1 /\ N \in D)) /\ Holds(n)
      <4> HIDE DEF A, D, H
      <4> QED
        BY Zenon DEF NameHolds
    <3> HIDE DEF Named, Holds, A, D, H
    <3> QED
      BY <3>1, <3>4, <3>5, <3>6, Zenon
  <2>2. IsValidDnsOrIpv4Host(host) <=> LabelsHold(N, A, D, H)
    <3> DEFINE starts == {1} \cup {i + 1 : i \in {j \in DOMAIN host : host[j] = "."}}
               dot(start) == Find(From(host, start), ".")
               end(start) == IF dot(start) = 0 THEN Len(host) ELSE start + dot(start) - 2
    <3>1. starts = Starts(D)
      BY <1>1 DEF Starts
    <3>2. IsValidDnsOrIpv4Host(host) <=>
              \A start \in Starts(D) : start <= N => IsValidLabel(SubSeq(host, start, end(start)))
      <4>1. host # <<>>
        BY <1>1, <1>4
      <4> QED
        BY <1>1, <3>1, <4>1 DEF IsValidDnsOrIpv4Host
    <3>3. \A start \in Starts(D) : start \in Nat /\ start >= 1
      BY <1>1 DEF Starts
    <3>4. ASSUME NEW start \in Starts(D), start <= N
          PROVE  /\ end(start) \in start - 1 .. N /\ IsLabel(N, D, start, end(start))
                 /\ \A other \in start - 1 .. N : IsLabel(N, D, start, other) => other = end(start)
      <4>0. PICK rest, d, e : rest = From(host, start) /\ d = dot(start) /\ e = end(start)
        OBVIOUS
      <4>1. start \in 1 .. N
        BY <1>1, <3>3, <3>4
      <4>2. /\ rest \in Seq(S) /\ Len(rest) = N - start + 1
            /\ \A i \in 1 .. N - start + 1 : rest[i] = host[start + i - 1]
        <5>1. start \in 1 .. Len(host) + 1
          BY <1>1, <4>1
        <5> QED
          BY <1>1, <4>0, <5>1, Rest, Zenon
      <4>3. IsFirst(d, rest, ".")
        BY <1>1, <4>0, <4>1, <4>2, Found
      <4>4. e = IF d = 0 THEN N ELSE start + d - 2
        BY <1>1, <4>0
      <4> HIDE DEF starts, dot, end
      <4>5. \A i \in start .. N : i - start + 1 \in 1 .. N - start + 1 /\ host[i] = rest[i - start + 1]
        <5>1. \A i \in start .. N : i - start + 1 \in 1 .. N - start + 1 /\ start + (i - start + 1) - 1 = i
          BY <1>1, <4>1
        <5> QED
          BY <4>2, <5>1
      <4>6. e \in start - 1 .. N /\ IsLabel(N, D, start, e)
        <5>1. CASE d = 0
          <6>1. \A i \in 1 .. N - start + 1 : rest[i] # "."
            BY <4>2, <4>3, <5>1 DEF IsFirst
          <6>2. \A i \in start .. N : i \notin D
            BY <4>5, <6>1
          <6>3. e = N
            BY <4>4, <5>1
          <6> QED
            BY <1>1, <4>1, <6>2, <6>3 DEF IsLabel
        <5>2. CASE d # 0
          <6>1. /\ d \in 1 .. N - start + 1 /\ rest[d] = "."
                /\ \A i \in 1 .. N - start + 1 : rest[i] = "." => d <= i
            BY <4>2, <4>3, <5>2 DEF IsFirst
          <6>2. e = start + d - 2 /\ e \in start - 1 .. N /\ e + 1 = start + d - 1 /\ e + 1 \in 1 .. N
            BY <1>1, <4>1, <4>4, <5>2, <6>1
          <6>3. e + 1 \in D
            BY <4>2, <6>1, <6>2
          <6>4. ASSUME NEW i \in start .. e PROVE i \notin D
            <7>1. i \in start .. N /\ i - start + 1 < d
              BY <1>1, <4>1, <6>1, <6>2
            <7>2. rest[i - start + 1] # "."
              BY <1>1, <4>1, <4>5, <6>1, <7>1
            <7> QED
              BY <4>5, <7>1, <7>2
          <6> HIDE DEF A, D, H
          <6> QED
            BY <3>4, <6>2, <6>3, <6>4 DEF IsLabel
        <5> QED
          BY <5>1, <5>2
      <4>7. ASSUME NEW other \in start - 1 .. N, IsLabel(N, D, start, other) PROVE other = e
        <5> HIDE DEF A, D, H
        <5>1. /\ \A i \in start .. e : i \notin D
              /\ e = N \/ e + 1 \in D
              /\ \A i \in start .. other : i \notin D
              /\ other = N \/ other + 1 \in D
          BY <4>6, <4>7 DEF IsLabel
        <5>2. ~(other < e)
          BY <1>1, <4>1, <4>6, <5>1
        <5>3. ~(e < other)
          BY <1>1, <4>1, <4>6, <5>1
        <5> QED
          BY <1>1, <4>1, <4>6, <5>2, <5>3
      <4> QED
        BY <4>0, <4>6, <4>7
    <3>5. ASSUME NEW start \in Starts(D), NEW last \in start - 1 .. N, start <= N
          PROVE  IsValidLabel(SubSeq(host, start, last)) <=>
                    /\ start <= last /\ start \notin H /\ last \notin H
                    /\ \A i \in start .. last : i \in A \/ i \in H
      <4>1. start \in 1 .. N
        BY <1>1, <3>3, <3>5
      <4>2. \A i \in 1 .. N : (IsAlphaNumeric(host[i]) <=> i \in A) /\ (host[i] = "-" <=> i \in H)
        OBVIOUS
      <4>3. /\ \A i \in start .. last : i \in 1 .. N
            /\ start <= last => last \in 1 .. N
        BY <1>1, <4>1
      <4>4. IsValidLabel(SubSeq(host, start, last)) <=>
               /\ start <= last /\ host[start] # "-" /\ host[last] # "-"
               /\ \A i \in start .. last : IsAlphaNumeric(host[i]) \/ host[i] = "-"
        BY <1>1, <4>1, LabelRead
      <4> HIDE DEF A, D, H
      <4>5. host[start] # "-" <=> start \notin H
        BY <4>1, <4>2, Zenon
      <4>6. start <= last => (host[last] # "-" <=> last \notin H)
        BY <4>2, <4>3, Zenon
      <4>7. (\A i \in start .. last : IsAlphaNumeric(host[i]) \/ host[i] = "-")
            <=> \A i \in start .. last : i \in A \/ i \in H
        BY <4>2, <4>3, Zenon
      <4> QED
        BY <4>4, <4>5, <4>6, <4>7, Zenon
    <3> HIDE DEF A, D, H, starts, dot, end
    <3> QED
      BY <3>2, <3>4, <3>5, Zenon DEF LabelsHold, IsLabel
  <2>3. LabelsHold(N, A, D, H) <=> NameHolds(N, A, D, H)
    <3>1. N \in Nat \ {0}
      BY <1>1, <1>4
    <3> HIDE DEF A, D, H
    <3> QED
      BY <1>2, <3>1, LabelPlaces, NamePlaces, Zenon
  <2> QED
    BY <2>1, <2>2, <2>3, Zenon
<1> QED
  BY <1>3, <1>4

(* What may stand between the brackets of an address. *)
InAddress(c) == IsHexDigit(c) \/ c \in {":", "."}
Inside(s, n) ==
    /\ \A i \in 2 .. n - 1 : InAddress(s[i])
    /\ \E i \in 2 .. n - 1 : s[i] = ":"
AddressTo(s, n) == n >= 3 /\ s[1] = "[" /\ s[n] = "]" /\ Inside(s, n)

LEMMA Prefix ==
    ASSUME NEW S, NEW s \in Seq(S), NEW n \in 0 .. Len(s)
    PROVE  /\ SubSeq(s, 1, n) \in Seq(S) /\ Len(SubSeq(s, 1, n)) = n
           /\ DOMAIN SubSeq(s, 1, n) = 1 .. n
           /\ \A i \in 1 .. n : SubSeq(s, 1, n)[i] = s[i]
  OBVIOUS

(* IsBracketed of the first n signs, told of the whole. *)
LEMMA AddressOf ==
    ASSUME NEW S, NEW s \in Seq(S), NEW n \in 0 .. Len(s)
    PROVE  IsBracketed(SubSeq(s, 1, n)) <=> AddressTo(s, n)
<1>1. PICK p : p = SubSeq(s, 1, n)
  OBVIOUS
<1>2. /\ p \in Seq(S) /\ Len(p) = n /\ DOMAIN p = 1 .. n /\ n \in Nat
      /\ \A i \in 1 .. n : p[i] = s[i]
  BY <1>1, Prefix
<1>3. CASE n < 3
  <2>1. ~(n >= 3)
    BY <1>2, <1>3
  <2> QED
    BY <1>1, <1>2, <2>1 DEF IsBracketed, AddressTo
<1>4. CASE n >= 3
  <2>1. p[1] = s[1] /\ p[n] = s[n]
    BY <1>2, <1>4
  <2>2. \A i \in 2 .. n - 1 : p[i] = s[i] /\ i \in 1 .. n
    BY <1>2
  <2>3. ASSUME s[1] = "[", s[n] = "]"
        PROVE  (\E i \in 1 .. n : p[i] = ":") <=> \E i \in 2 .. n - 1 : s[i] = ":"
    <3>1. p[1] # ":" /\ p[n] # ":"
      BY <2>1, <2>3, Signs
    <3>2. \A i \in 1 .. n : i = 1 \/ i = n \/ i \in 2 .. n - 1
      BY <1>2
    <3> QED
      BY <2>2, <3>1, <3>2, Zenon
  <2>4. IsBracketed(p) <=>
            /\ s[1] = "[" /\ s[n] = "]"
            /\ \A i \in 2 .. n - 1 : InAddress(p[i])
            /\ \E i \in 1 .. n : p[i] = ":"
    BY <1>2, <1>4, <2>1, Zenon DEF IsBracketed, InAddress
  <2>5. AddressTo(s, n) <=>
            /\ s[1] = "[" /\ s[n] = "]"
            /\ \A i \in 2 .. n - 1 : InAddress(s[i])
            /\ \E i \in 2 .. n - 1 : s[i] = ":"
    BY <1>4, Zenon DEF AddressTo, Inside
  <2> QED
    BY <1>1, <2>2, <2>3, <2>4, <2>5, Zenon
<1> QED
  BY <1>2, <1>3, <1>4

(* IsValidBracketedIpv6Host, told of the whole as well. *)
LEMMA Bracketed ==
    ASSUME NEW S, NEW s \in Seq(S), NEW n \in 2 .. Len(s)
    PROVE  IsValidBracketedIpv6Host(SubSeq(s, 2, n - 1)) <=> Inside(s, n)
<1>1. PICK p, L : p = SubSeq(s, 2, n - 1) /\ L = n - 2
  OBVIOUS
<1>2. /\ p \in Seq(S) /\ Len(p) = L /\ DOMAIN p = 1 .. L /\ L \in Nat
      /\ \A i \in 1 .. L : p[i] = s[i + 1]
  <2>1. 2 \in 1 .. Len(s) + 1 /\ n - 1 \in 2 - 1 .. Len(s)
    OBVIOUS
  <2>2. /\ p \in Seq(S) /\ Len(p) = (n - 1) - 2 + 1
        /\ \A i \in 1 .. (n - 1) - 2 + 1 : p[i] = s[2 + i - 1]
    BY <1>1, <2>1, Part
  <2> QED
    BY <1>1, <2>2
<1>3. Find(p, ":") # 0 <=> \E i \in 1 .. L : p[i] = ":"
  <2>1. PICK f : f = Find(p, ":")
    OBVIOUS
  <2>2. IsFirst(f, p, ":")
    BY <1>2, <2>1, Found
  <2> QED
    BY <1>2, <2>1, <2>2 DEF IsFirst
<1>4. IsValidBracketedIpv6Host(p) <=>
          (\E i \in 1 .. L : p[i] = ":") /\ \A i \in 1 .. L : InAddress(p[i])
  BY <1>2, <1>3, Zenon DEF IsValidBracketedIpv6Host, All, InAddress
<1>5. /\ \A i \in 1 .. L : i + 1 \in 2 .. n - 1
      /\ \A i \in 2 .. n - 1 : i - 1 \in 1 .. L /\ (i - 1) + 1 = i
  BY <1>1
<1>6. \A i \in 2 .. n - 1 : s[i] = p[i - 1]
  BY <1>2, <1>5
<1> QED
  BY <1>1, <1>2, <1>4, <1>5, <1>6, Zenon DEF Inside

(* The signs of a name. *)
LEMMA NameSigns ==
    ASSUME NEW S, NEW s \in Seq(S), IsName(s)
    PROVE  Len(s) >= 1 /\ \A i \in 1 .. Len(s) : IsAlphaNumeric(s[i]) \/ s[i] \in {".", "-"}
<1>1. PICK n \in 1 .. Len(s) :
          /\ From(s, n + 1) \in {<<>>, <<".">>}
          /\ \A i \in 1 .. n : IsAlphaNumeric(s[i]) \/ s[i] \in {".", "-"}
  BY Zenon DEF IsName
<1>2. PICK rest : rest = From(s, n + 1)
  OBVIOUS
<1>3. /\ Len(rest) = Len(s) - n
      /\ \A i \in 1 .. Len(s) - n : rest[i] = s[n + i]
  <2>1. n + 1 \in 1 .. Len(s) + 1
    OBVIOUS
  <2>2. /\ Len(rest) = Len(s) - (n + 1) + 1
        /\ \A i \in 1 .. Len(s) - (n + 1) + 1 : rest[i] = s[(n + 1) + i - 1]
    BY <1>2, <2>1, Rest
  <2> QED
    BY <2>2
<1>4. ASSUME NEW i \in 1 .. Len(s), i > n PROVE s[i] = "."
  <2>1. rest # <<>>
    BY <1>3, <1>4
  <2>2. rest = <<".">>
    BY <1>1, <1>2, <2>1
  <2>3. i - n = 1 /\ Len(s) - n = 1 /\ n + 1 = i
    BY <1>3, <1>4, <2>2
  <2>4. rest[1] = s[n + 1]
    BY <1>3, <2>3
  <2> QED
    BY <2>2, <2>3, <2>4
<1> QED
  BY <1>1, <1>4

(* The signs of a port. *)
LEMMA PortSigns ==
    ASSUME NEW S, NEW s \in Seq(S), NEW a \in 1 .. Len(s) + 1, IsPort(From(s, a))
    PROVE  a <= Len(s) /\ \A i \in a .. Len(s) : IsDigit(s[i])
<1>1. PICK rest : rest = From(s, a)
  OBVIOUS
<1>2. /\ rest \in Seq(S) /\ Len(rest) = Len(s) - a + 1
      /\ \A i \in 1 .. Len(s) - a + 1 : rest[i] = s[a + i - 1]
  BY <1>1, Rest
<1>3. IsValidPortString(rest)
  BY <1>1, <1>2, Ports
<1>4. rest # <<>> /\ \A i \in DOMAIN rest : IsDigit(rest[i])
  BY <1>3, Zenon DEF IsValidPortString, All
<1>5. ASSUME NEW i \in a .. Len(s) PROVE IsDigit(s[i])
  <2>1. i - a + 1 \in 1 .. Len(s) - a + 1 /\ a + (i - a + 1) - 1 = i
    OBVIOUS
  <2>2. rest[i - a + 1] = s[i] /\ i - a + 1 \in DOMAIN rest
    BY <1>2, <2>1
  <2> QED
    BY <1>4, <2>2
<1>6. Len(s) - a + 1 # 0
  BY <1>2, <1>4
<1> QED
  BY <1>5, <1>6

(* The host in front of place e + 1, and a port from place e + 2 on, if any. *)
HostTo(s, n) == IsName(SubSeq(s, 1, n)) \/ AddressTo(s, n)
Port(s, a) == IsPort(From(s, a))
EndsHost(s, n) == n = Len(s) \/ (n + 1 \in 1 .. Len(s) /\ s[n + 1] = ":" /\ Port(s, n + 2))

(* IsWellFormed by the place where the host ends. *)
LEMMA HostAndPort ==
    ASSUME NEW S, NEW s \in Seq(S)
    PROVE  IsWellFormed(s) <=> \E n \in 0 .. Len(s) : EndsHost(s, n) /\ HostTo(s, n)
<1>1. PICK N : N = Len(s) /\ N \in Nat /\ DOMAIN s = 1 .. N
  OBVIOUS
<1>2. \A n \in 0 .. N : IsBracketed(SubSeq(s, 1, n)) <=> AddressTo(s, n)
  BY <1>1, AddressOf
<1>3. SubSeq(s, 1, N) = s
  BY <1>1
<1>4. N \in 0 .. N /\ (IsName(s) \/ IsBracketed(s) <=> HostTo(s, N))
  <2>1. N \in 0 .. N
    BY <1>1
  <2> QED
    BY <1>2, <1>3, <2>1, Zenon DEF HostTo
<1>5. \A i \in 1 .. N : i - 1 \in 0 .. N /\ (i - 1) + 1 = i /\ (i - 1) + 2 = i + 1
  BY <1>1
<1>6. \A n \in 0 .. N : n + 1 \in 1 .. N => (n + 1) - 1 = n /\ (n + 1) + 1 = n + 2
  BY <1>1
<1>7. ASSUME IsWellFormed(s) PROVE \E n \in 0 .. N : EndsHost(s, n) /\ HostTo(s, n)
  <2>1. CASE IsName(s) \/ IsBracketed(s)
    BY <1>1, <1>4, <2>1 DEF EndsHost
  <2>2. CASE ~(IsName(s) \/ IsBracketed(s))
    <3>1. PICK i \in 1 .. N :
              /\ s[i] = ":" /\ IsPort(From(s, i + 1))
              /\ IsName(SubSeq(s, 1, i - 1)) \/ IsBracketed(SubSeq(s, 1, i - 1))
      BY <1>1, <1>7, <2>2, Zenon DEF IsWellFormed
    <3>2. HostTo(s, i - 1)
      BY <1>2, <1>5, <3>1, Zenon DEF HostTo
    <3>3. EndsHost(s, i - 1)
      BY <1>1, <1>5, <3>1, Zenon DEF EndsHost, Port
    <3> QED
      BY <1>5, <3>2, <3>3
  <2> QED
    BY <2>1, <2>2
<1>8. ASSUME NEW n \in 0 .. N, EndsHost(s, n), HostTo(s, n) PROVE IsWellFormed(s)
  <2>1. CASE n = N
    BY <1>4, <1>8, <2>1, Zenon DEF IsWellFormed
  <2>2. CASE n # N
    <3>1. n + 1 \in 1 .. N /\ s[n + 1] = ":" /\ Port(s, n + 2)
      BY <1>1, <1>8, <2>2 DEF EndsHost
    <3>2. IsPort(From(s, (n + 1) + 1))
      BY <1>6, <3>1 DEF Port
    <3>3. IsName(SubSeq(s, 1, (n + 1) - 1)) \/ IsBracketed(SubSeq(s, 1, (n + 1) - 1))
      BY <1>2, <1>6, <1>8, <3>1, Zenon DEF HostTo
    <3> QED
      BY <1>1, <3>1, <3>2, <3>3, Zenon DEF IsWellFormed
  <2> QED
    BY <2>1, <2>2
<1> QED
  BY <1>1, <1>7, <1>8

(* IsValidAuthority accepts what names a host and, maybe, a port, and nothing else. *)
LEMMA Authorities ==
    ASSUME NEW S, NEW s \in Seq(S)
    PROVE  IsValidAuthority(s) <=> IsWellFormed(s)
<1>1. PICK N : N = Len(s) /\ N \in Nat /\ DOMAIN s = 1 .. N
  OBVIOUS
<1>2. PICK blank, opening, closing, colon, first :
          /\ blank = Find(s, " ") /\ opening = Find(s, "[") /\ closing = Find(s, "]")
          /\ colon = FindLast(s, ":") /\ first = Find(s, ":")
  OBVIOUS
<1>3. /\ IsFirst(blank, s, " ") /\ IsFirst(opening, s, "[") /\ IsFirst(closing, s, "]")
      /\ IsLast(colon, s, ":") /\ IsFirst(first, s, ":")
  BY <1>1, <1>2, Found, FoundLast
<1>4. /\ blank = 0 <=> \A i \in 1 .. N : s[i] # " "
      /\ opening = 0 <=> \A i \in 1 .. N : s[i] # "["
      /\ closing = 0 <=> \A i \in 1 .. N : s[i] # "]"
      /\ colon = 0 <=> \A i \in 1 .. N : s[i] # ":"
      /\ closing # 0 => /\ closing \in 1 .. N /\ s[closing] = "]"
                        /\ \A i \in 1 .. N : s[i] = "]" => closing <= i
      /\ colon # 0 => /\ colon \in 1 .. N /\ s[colon] = ":"
                      /\ \A i \in 1 .. N : s[i] = ":" => i <= colon
      /\ first # 0 => first \in 1 .. N /\ s[first] = ":"
      /\ first = 0 => \A i \in 1 .. N : s[i] # ":"
  <2>1. 0 \notin 1 .. N
    BY <1>1
  <2>2. /\ blank = 0 <=> \A i \in 1 .. N : s[i] # " "
        /\ opening = 0 <=> \A i \in 1 .. N : s[i] # "["
    BY <1>1, <1>3, <2>1, Zenon DEF IsFirst
  <2>3. /\ closing = 0 <=> \A i \in 1 .. N : s[i] # "]"
        /\ closing # 0 => /\ closing \in 1 .. N /\ s[closing] = "]"
                          /\ \A i \in 1 .. N : s[i] = "]" => closing <= i
    BY <1>1, <1>3, <2>1, Zenon DEF IsFirst
  <2>4. /\ colon = 0 <=> \A i \in 1 .. N : s[i] # ":"
        /\ colon # 0 => /\ colon \in 1 .. N /\ s[colon] = ":"
                        /\ \A i \in 1 .. N : s[i] = ":" => i <= colon
    BY <1>1, <1>3, <2>1, Zenon DEF IsLast
  <2>5. first # 0 => first \in 1 .. N /\ s[first] = ":"
    BY <1>1, <1>3, <2>1, Zenon DEF IsFirst
  <2>6. first = 0 => \A i \in 1 .. N : s[i] # ":"
    BY <1>1, <1>3, <2>1, Zenon DEF IsFirst
  <2> QED
    BY <2>2, <2>3, <2>4, <2>5, <2>6, Zenon
<1>5. \A n \in 0 .. N : IsValidDnsOrIpv4Host(SubSeq(s, 1, n)) <=> IsName(SubSeq(s, 1, n))
  BY <1>1, Prefix, Names
<1>6. SubSeq(s, 1, N) = s /\ N \in 0 .. N
  BY <1>1
<1>7. \A a \in 1 .. N + 1 : IsValidPortString(From(s, a)) <=> Port(s, a)
  BY <1>1, Rest, Ports DEF Port
<1>8. \A n \in 2 .. N : IsValidBracketedIpv6Host(SubSeq(s, 2, n - 1)) <=> Inside(s, n)
  BY <1>1, Bracketed
<1>9. IsWellFormed(s) <=> \E n \in 0 .. N : EndsHost(s, n) /\ HostTo(s, n)
  BY <1>1, HostAndPort
<1>10. IsValidAuthority(s) <=>
          /\ N # 0 /\ blank = 0
          /\ IF s[1] = "["
             THEN /\ closing # 0
                  /\ IsValidBracketedIpv6Host(SubSeq(s, 2, closing - 1))
                  /\ closing < N => s[closing + 1] = ":" /\ IsValidPortString(From(s, closing + 2))
             ELSE /\ opening = 0 /\ closing = 0
                  /\ IF colon = 0 THEN IsValidDnsOrIpv4Host(s)
                     ELSE /\ first = colon
                          /\ IsValidPortString(From(s, colon + 1))
                          /\ IsValidDnsOrIpv4Host(SubSeq(s, 1, colon - 1))
  <2>1. s # <<>> <=> N # 0
    BY <1>1
  <2> QED
    BY <1>1, <1>2, <2>1, Zenon DEF IsValidAuthority
<1>11. ASSUME IsValidAuthority(s) PROVE \E n \in 0 .. N : EndsHost(s, n) /\ HostTo(s, n)
  <2>1. N # 0
    BY <1>10, <1>11
  <2>2. CASE s[1] = "["
    <3>1. /\ closing # 0
          /\ IsValidBracketedIpv6Host(SubSeq(s, 2, closing - 1))
          /\ closing < N => s[closing + 1] = ":" /\ IsValidPortString(From(s, closing + 2))
      BY <1>10, <1>11, <2>2
    <3>2. closing \in 1 .. N /\ s[closing] = "]" /\ closing # 1
      BY <1>4, <2>2, <3>1, Signs
    <3>3. closing \in 2 .. N
      BY <1>1, <3>2
    <3>4. Inside(s, closing)
      BY <1>8, <3>1, <3>3
    <3>5. closing >= 3
      BY <1>1, <3>3, <3>4 DEF Inside
    <3>6. HostTo(s, closing)
      BY <2>2, <3>2, <3>4, <3>5, Zenon DEF HostTo, AddressTo
    <3>7. EndsHost(s, closing)
      <4>1. CASE closing = N
        BY <1>1, <4>1 DEF EndsHost
      <4>2. CASE closing < N
        <5>1. closing + 1 \in 1 .. N /\ closing + 2 \in 1 .. N + 1
          BY <1>1, <3>3, <4>2
        <5> QED
          BY <1>1, <1>7, <3>1, <4>2, <5>1, Zenon DEF EndsHost
      <4> QED
        BY <1>1, <3>3, <4>1, <4>2
    <3>8. closing \in 0 .. N
      BY <1>1, <3>3
    <3> QED
      BY <3>6, <3>7, <3>8
  <2>3. CASE s[1] # "["
    <3>1. /\ opening = 0 /\ closing = 0
          /\ IF colon = 0 THEN IsValidDnsOrIpv4Host(s)
             ELSE /\ first = colon
                  /\ IsValidPortString(From(s, colon + 1))
                  /\ IsValidDnsOrIpv4Host(SubSeq(s, 1, colon - 1))
      BY <1>10, <1>11, <2>3
    <3>2. CASE colon = 0
      <4>1. HostTo(s, N)
        BY <1>5, <1>6, <3>1, <3>2, Zenon DEF HostTo
      <4>2. EndsHost(s, N)
        BY <1>1, Zenon DEF EndsHost
      <4> QED
        BY <1>6, <4>1, <4>2, Zenon
    <3>3. CASE colon # 0
      <4>1. colon \in 1 .. N /\ s[colon] = ":"
        BY <1>4, <3>3, Zenon
      <4>2. PICK n \in 0 .. N : /\ n = colon - 1 /\ n + 1 = colon
                                /\ n + 2 = colon + 1 /\ n + 2 \in 1 .. N + 1
        <5>1. colon - 1 \in 0 .. N /\ (colon - 1) + 2 \in 1 .. N + 1
          BY <1>1, <4>1
        <5> QED
          BY <1>1, <4>1, <5>1
      <4>3. HostTo(s, n)
        BY <1>5, <3>1, <3>3, <4>2, Zenon DEF HostTo
      <4>4. Port(s, n + 2)
        BY <1>7, <3>1, <3>3, <4>2, Zenon
      <4>5. EndsHost(s, n)
        BY <1>1, <4>1, <4>2, <4>4, Zenon DEF EndsHost
      <4> QED
        BY <4>3, <4>5
    <3> QED
      BY <3>2, <3>3
  <2> QED
    BY <2>2, <2>3
<1>12. ASSUME NEW n \in 0 .. N, EndsHost(s, n), HostTo(s, n) PROVE IsValidAuthority(s)
  <2>1. n \in Nat /\ n <= N /\ (n < N => s[n + 1] = ":" /\ Port(s, n + 2) /\ n + 2 \in 1 .. N + 1)
    BY <1>1, <1>12 DEF EndsHost
  <2>2. ASSUME NEW i \in 1 .. N, i > n PROVE (i = n + 1 /\ s[i] = ":") \/ IsDigit(s[i])
    <3>1. n < N
      BY <1>1, <2>1, <2>2
    <3>2. \A j \in n + 2 .. N : IsDigit(s[j])
      <4>1. n + 2 \in 1 .. Len(s) + 1 /\ IsPort(From(s, n + 2))
        BY <1>1, <2>1, <3>1 DEF Port
      <4> QED
        BY <1>1, <4>1, PortSigns
    <3>3. i = n + 1 \/ i \in n + 2 .. N
      BY <1>1, <2>1, <2>2
    <3> QED
      BY <2>1, <3>1, <3>2, <3>3
  <2>3. CASE IsName(SubSeq(s, 1, n))
    <3>1. n >= 1 /\ \A i \in 1 .. n : IsAlphaNumeric(s[i]) \/ s[i] \in {".", "-"}
      <4>1. PICK p : p = SubSeq(s, 1, n)
        OBVIOUS
      <4>2. p \in Seq(S) /\ Len(p) = n /\ \A i \in 1 .. n : p[i] = s[i]
        BY <1>1, <4>1, Prefix
      <4>3. n >= 1 /\ \A i \in 1 .. n : IsAlphaNumeric(p[i]) \/ p[i] \in {".", "-"}
        BY <2>3, <4>1, <4>2, NameSigns
      <4> QED
        BY <4>2, <4>3
    <3>2. ASSUME NEW i \in 1 .. N
          PROVE  s[i] # " " /\ s[i] # "[" /\ s[i] # "]" /\ (s[i] = ":" => i = n + 1 /\ n < N)
      <4>1. CASE i <= n
        <5>1. IsAlphaNumeric(s[i]) \/ s[i] \in {".", "-"}
          BY <2>1, <3>1, <4>1
        <5> QED
          BY <5>1, Signs
      <4>2. CASE i > n
        <5>1. (i = n + 1 /\ s[i] = ":") \/ IsDigit(s[i])
          BY <2>2, <4>2
        <5>2. n < N
          BY <1>1, <2>1, <4>2
        <5> QED
          BY <5>1, <5>2, Signs
      <4>3. i <= n \/ i > n
        BY <2>1
      <4> QED
        BY <4>1, <4>2, <4>3, Zenon
    <3>3. N # 0 /\ blank = 0 /\ opening = 0 /\ closing = 0 /\ s[1] # "["
      <4>1. 1 \in 1 .. N
        BY <1>1, <2>1, <3>1
      <4>2. N # 0
        BY <1>1, <4>1
      <4> QED
        BY <1>4, <3>2, <4>1, <4>2, Zenon
    <3>4. CASE n = N
      <4>1. \A i \in 1 .. N : s[i] # ":"
        <5>1. ~(n < N)
          BY <1>1, <3>4
        <5> QED
          BY <3>2, <5>1, Zenon
      <4>2. colon = 0
        BY <1>4, <4>1, Zenon
      <4>3. IsValidDnsOrIpv4Host(s)
        BY <1>5, <1>6, <2>3, <3>4, Zenon
      <4> QED
        BY <1>10, <3>3, <4>2, <4>3, Zenon
    <3>5. CASE n # N
      <4>1. n < N /\ s[n + 1] = ":" /\ Port(s, n + 2) /\ n + 2 \in 1 .. N + 1 /\ n + 1 \in 1 .. N
        BY <1>1, <2>1, <3>5
      <4>2. colon # 0 /\ first # 0
        BY <1>4, <4>1, Zenon
      <4>3. colon = n + 1 /\ first = n + 1
        BY <1>4, <3>2, <4>2, Zenon
      <4>4. colon - 1 = n /\ colon + 1 = n + 2
        BY <2>1, <4>3
      <4>5. IsValidPortString(From(s, colon + 1)) /\ IsValidDnsOrIpv4Host(SubSeq(s, 1, colon - 1))
        BY <1>5, <1>7, <2>3, <4>1, <4>4, Zenon
      <4> QED
        BY <1>10, <3>3, <4>2, <4>3, <4>5, Zenon
    <3> QED
      BY <3>4, <3>5
  <2>4. CASE AddressTo(s, n)
    <3>1. n >= 3 /\ s[1] = "[" /\ s[n] = "]" /\ Inside(s, n) /\ n \in 2 .. N /\ N # 0
      BY <1>1, <2>1, <2>4 DEF AddressTo
    <3>2. \A i \in 2 .. n - 1 : InAddress(s[i])
      BY <3>1 DEF Inside
    <3>3. ASSUME NEW i \in 1 .. N PROVE s[i] # " " /\ (s[i] = "]" => i = n)
      <4>1. CASE i = 1
        BY <3>1, <4>1, Signs
      <4>2. CASE i = n
        BY <3>1, <4>2, Signs
      <4>3. CASE i \in 2 .. n - 1
        <5>1. InAddress(s[i])
          BY <3>2, <4>3
        <5> QED
          BY <5>1, Signs DEF InAddress
      <4>4. CASE i > n
        <5>1. s[i] = ":" \/ IsDigit(s[i])
          BY <2>2, <4>4
        <5> QED
          BY <5>1, Signs
      <4>5. i = 1 \/ i = n \/ i \in 2 .. n - 1 \/ i > n
        BY <2>1
      <4> QED
        BY <4>1, <4>2, <4>3, <4>4, <4>5
    <3>4. blank = 0
      BY <1>4, <3>3, Zenon
    <3>5. closing # 0 /\ closing = n
      <4>1. n \in 1 .. N
        BY <1>1, <3>1
      <4> QED
        BY <1>4, <3>1, <3>3, <4>1, Zenon
    <3>6. IsValidBracketedIpv6Host(SubSeq(s, 2, closing - 1))
      BY <1>8, <3>1, <3>5, Zenon
    <3>7. closing < N => s[closing + 1] = ":" /\ IsValidPortString(From(s, closing + 2))
      BY <1>7, <2>1, <3>5, Zenon
    <3> QED
      BY <1>10, <3>1, <3>4, <3>5, <3>6, <3>7, Zenon
  <2> QED
    BY <1>12, <2>3, <2>4 DEF HostTo
<1> QED
  BY <1>9, <1>11, <1>12

-----------------------------------------------------------------------------
(* A configuration that another authority would make valid is valid exactly when
   its own authority is.                                                   *)
LEMMA ValidButForTheAuthority ==
    ASSUME NEW c, IsConfig(c),
           ValidConfig([c EXCEPT !.base_url.word.authority = <<"a">>])
    PROVE  ValidConfig(c) <=> IsValidAuthority(c.base_url.word.authority)
<1>1. PICK x, u : x = c.base_url /\ u = x.word
  OBVIOUS
<1>2. PICK v : v = [u EXCEPT !.authority = <<"a">>]
  OBVIOUS
<1>3. PICK y : y = [x EXCEPT !.word = v]
  OBVIOUS
<1>4. PICK d : d = [c EXCEPT !.base_url = y]
  OBVIOUS
<1>5. d = [c EXCEPT !.base_url.word.authority = <<"a">>]
  BY <1>1, <1>2, <1>3, <1>4, Zenon
<1>6. /\ v.scheme = u.scheme /\ v.userinfo = u.userinfo
      /\ v.path = u.path /\ v.slashes = u.slashes
      /\ v.query = u.query /\ v.fragment = u.fragment
  BY <1>1, <1>2 DEF IsConfig, IsUrl
<1>7. y.word = v /\ y.inner = x.inner /\ y.edge = x.edge
  BY <1>1, <1>3 DEF IsConfig, IsText
<1>8. /\ d.base_url = y /\ d.api_key = c.api_key /\ d.request_origin = c.request_origin
      /\ d.connect_timeout = c.connect_timeout /\ d.read_timeout = c.read_timeout
      /\ d.max_response_body_chars = c.max_response_body_chars
  BY <1>4 DEF IsConfig
<1>9. ValidConfig(d)
  BY <1>5
<1>10. ValidItem(x) <=> ValidItem(y)
  <2>1. Trim(y).inner = x.inner /\ Trim(x).inner = x.inner
    BY <1>1, <1>3, <1>7 DEF Trim, IsConfig, IsText
  <2>2. Trim(y).edge = "none" /\ Trim(x).edge = "none"
    BY <1>1, <1>3 DEF Trim, IsConfig, IsText
  <2> QED
    BY <1>7, <2>1, <2>2 DEF ValidItem, Blank, ContainsCrOrLf
<1>11. ValidBaseUrl(x) <=> IsValidAuthority(u.authority)
  BY <1>1, <1>6, <1>7, <1>8, <1>9, <1>10 DEF ValidConfig, ValidBaseUrl, AbsoluteUrl,
                                                   BlankInAuthority
<1> QED
  BY <1>1, <1>8, <1>9, <1>11 DEF ValidConfig

(* A base URL is refused for its authority exactly when that is not well formed
   in the SDK's sense (IsValidAuthority, NormalizeConfig), however long it is. *)
THEOREM HostsOnly == Spec => []AuthoritiesWellFormed
<1>1. IInv => AuthoritiesWellFormed
  <2> SUFFICES ASSUME IInv, phase # "new",
                      ValidConfig([rawConfig EXCEPT !.base_url.word.authority = <<"a">>])
               PROVE  config # Absent <=> IsWellFormed(rawConfig.base_url.word.authority)
    BY Zenon DEF AuthoritiesWellFormed
  <2>1. IsConfig(rawConfig)
    BY InputsAssumption DEF IInv
  <2>2. PICK authority : authority = rawConfig.base_url.word.authority
    OBVIOUS
  <2>3. authority \in Seq(Range(authority))
    BY <2>1, <2>2 DEF IsConfig, IsUrl
  <2>4. ValidConfig(rawConfig) <=> IsWellFormed(authority)
    BY <2>1, <2>2, <2>3, ValidButForTheAuthority, Authorities, Zenon
  <2>5. ValidConfig(rawConfig) <=> config # Absent
    BY <2>1 DEF IInv, IsConfig
  <2> QED
    BY <2>2, <2>4, <2>5, Zenon
<1> QED
  BY BuildInvariance, <1>1, PTL
=============================================================================
