---------------------------- MODULE LibcurlProofs ----------------------------
(***************************************************************************)
(* What the SDK gets from libcurl and makes of it.  First the body and the *)
(* status of one exchange (Transfer), for every width of size_t, every     *)
(* limit and every body; then its header fields (ResponseHeaders), for any *)
(* number of lines, names, spellings and values; then the process-wide     *)
(* state libcurl has to be set up with (CurlGlobal), for any number of     *)
(* threads and clients, any choice of static ones, and any number of       *)
(* failing initialisations.                                                *)
(***************************************************************************)
EXTENDS Transfer, ResponseHeaders, CurlGlobal, FiniteSetTheorems, WellFoundedInduction, TLAPS

(* Nothing is lost or cut while the exchange runs, and the reason why it ended
   is recorded faithfully.                                                 *)
Counted ==
    /\ body <= limit
    /\ Running => body = sent /\ ~exceeded
    /\ exceeded => code = "write_error" /\ sent > limit
    /\ code = "write_error" /\ ~exceeded => sent <= limit
    /\ code = "ok" => body = payload /\ phase = "body"
    /\ phase # "status" => status \in Finals

(* What Send and the client make of what was recorded. *)
Verdict == ClientResult(SendResult)

Concluded ==
    /\ Running => outcome = Undecided
    /\ outcome # Undecided => outcome \in {Verdict, Failure("StatusUnknown")}

IInv == TypeOK /\ Counted /\ Concluded

-----------------------------------------------------------------------------
(* The numbers among the variables, and the limits of size_t. *)
LEMMA Lengths ==
    ASSUME TypeOK
    PROVE  /\ WordSize \in Nat /\ limit \in Nat /\ limit < WordSize
           /\ payload \in Nat /\ sent \in Nat /\ body \in Nat /\ status \in Nat
<1>1. /\ limit \in Limits /\ payload \in Payloads /\ sent \in 0 .. payload
      /\ body \in Nat /\ status \in {0} \cup Interims \cup Finals
  BY DEF TypeOK
<1>2. WordSize \in Nat /\ limit \in Nat /\ limit < WordSize
  BY <1>1, LimitsAssumption
<1>3. payload \in Nat /\ sent \in Nat
  BY <1>1, PayloadsAssumption
<1>4. status \in Nat
  BY <1>1, StatusAssumption
<1> QED
  BY <1>1, <1>2, <1>3, <1>4

(* The division in WriteBody compares size * nmemb with what is left, without
   computing the product.                                                  *)
LEMMA DivisionCompares ==
    ASSUME NEW left \in Nat, NEW size \in Nat \ {0}, NEW nmemb \in Nat
    PROVE  nmemb > left \div size <=> size * nmemb > left
<1> DEFINE q == left \div size
<1>1. q \in Nat /\ size * q <= left /\ left < size * (q + 1)
  OBVIOUS
<1> HIDE DEF q
<1>2. CASE nmemb > q
  <2>1. nmemb >= q + 1
    BY <1>1, <1>2
  <2>2. size * nmemb >= size * (q + 1)
    BY <1>1, <2>1
  <2> QED
    BY <1>1, <1>2, <2>2 DEF q
<1>3. CASE nmemb <= q
  <2>1. size * nmemb <= size * q
    BY <1>1, <1>3
  <2> QED
    BY <1>1, <1>3, <2>1 DEF q
<1> QED
  BY <1>1, <1>2, <1>3

(* Numbers that fit size_t do not wrap around. *)
LEMMA NoWrap == ASSUME NEW n \in 0 .. WordSize - 1 PROVE Wrap(n) = n
  BY LimitsAssumption DEF Wrap

(* WriteBody refuses a block exactly when the limit would be passed. *)
LEMMA OverflowsExact ==
    ASSUME TypeOK, body <= limit,
           NEW size \in Nat \ {0}, NEW nmemb \in Nat
    PROVE  Overflows(size, nmemb) <=> body + size * nmemb > limit
<1>1. limit \in Nat /\ limit < WordSize /\ body \in Nat /\ WordSize \in Nat
  BY Lengths
<1>2. limit - body \in 0 .. WordSize - 1
  BY <1>1
<1>3. Wrap(limit - body) = limit - body
  BY <1>2, NoWrap
<1>4. nmemb > (limit - body) \div size <=> size * nmemb > limit - body
  BY <1>2, DivisionCompares
<1>5. size * nmemb \in Nat
  BY SMT
<1>6. size * nmemb > limit - body <=> body + size * nmemb > limit
  BY <1>1, <1>5
<1> QED
  BY <1>3, <1>4, <1>6 DEF Overflows

-----------------------------------------------------------------------------
(* A decided outcome has a status that was read and at most the collected body. *)
LEMMA ResultType ==
    ASSUME TypeOK
    PROVE  Verdict \in
              [kind : {"none", "success", "ApiError", "RequestTimeoutError",
                       "body too large", "TransportError", "StatusUnknown"},
               status : {0} \cup Interims \cup Finals,
               body : Nat]
  BY DEF TypeOK, Verdict, ClientResult, SendResult, Outcome, Failure

(* What WriteBody does to the variables keeps their types. *)
LEMMA BodyTypeStep ==
    ASSUME TypeOK, UNCHANGED <<limit, payload, phase, status, outcome>>,
           sent' \in Nat, sent' <= payload, body' \in Nat, exceeded' \in BOOLEAN,
           code' \in {"running", "write_error"}
    PROVE  TypeOK'
<1>1. sent' \in 0 .. payload
  BY Lengths
<1>2. code' \in {"running", "ok", "write_error", "timed_out", "other_error"}
  OBVIOUS
<1> QED
  BY <1>1, <1>2 DEF TypeOK

(* The exchange begins with nothing received. *)
LEMMA InitIInv == Init => IInv
<1> SUFFICES ASSUME Init PROVE IInv
  OBVIOUS
<1>1. limit \in Nat /\ payload \in Nat
  BY LimitsAssumption, PayloadsAssumption DEF Init
<1>2. 0 \in 0 .. payload /\ 0 <= limit
  BY <1>1
<1>3. outcome \in [kind : {"none", "success", "ApiError", "RequestTimeoutError",
                          "body too large", "TransportError", "StatusUnknown"},
                  status : {0} \cup Interims \cup Finals,
                  body : Nat]
  BY DEF Init, Undecided, Outcome
<1>4. TypeOK
  BY <1>2, <1>3 DEF Init, TypeOK
<1>5. Counted /\ Concluded
  BY <1>2 DEF Init, Counted, Concluded, Running
<1> QED
  BY <1>4, <1>5 DEF IInv

(* A block that fits is kept whole, one that would pass the limit not at all. *)
LEMMA WriteBodyStep ==
    ASSUME IInv, NEW b \in Blocks, WriteBody(b[1], b[2])
    PROVE  IInv'
<1> DEFINE size == b[1]
           nmemb == b[2]
           bytes == size * nmemb
<1>1. size \in Nat /\ nmemb \in Nat /\ WordSize \in Nat
  BY BlocksAssumption, LimitsAssumption
<1>2. limit \in Nat /\ limit < WordSize /\ payload \in Nat /\ sent \in Nat /\ body \in Nat
  BY Lengths DEF IInv
<1>3. bytes \in Nat /\ bytes > 0 /\ size # 0
  BY <1>1 DEF WriteBody
<1>4. Running /\ body = sent /\ ~exceeded /\ outcome = Undecided /\ body <= limit
  BY DEF IInv, Counted, Concluded, WriteBody
<1>5. Overflows(size, nmemb) <=> body + bytes > limit
  BY <1>1, <1>3, <1>4, OverflowsExact DEF IInv
<1>6. sent' = sent + bytes /\ sent' <= payload
  BY DEF WriteBody
<1>7. CASE Overflows(size, nmemb)
  <2>1. exceeded' = TRUE /\ code' = "write_error" /\ body' = body
    BY <1>7 DEF WriteBody
  <2>2. sent' > limit
    BY <1>2, <1>3, <1>4, <1>5, <1>6, <1>7
  <2>3. UNCHANGED <<limit, payload, phase, status, outcome>>
    BY DEF WriteBody
  <2>4. TypeOK'
    BY <1>2, <1>3, <1>6, <2>1, <2>3, BodyTypeStep DEF IInv
  <2>5. Counted'
    BY <1>4, <2>1, <2>2, <2>3 DEF IInv, Counted, Running
  <2>6. Concluded'
    BY <1>4, <2>1, <2>3 DEF Concluded, Running, Undecided
  <2> QED
    BY <2>4, <2>5, <2>6 DEF IInv
<1>8. CASE ~Overflows(size, nmemb)
  <2>1. body + bytes <= limit
    BY <1>2, <1>3, <1>5, <1>8
  <2>2. bytes \in 0 .. WordSize - 1
    BY <1>1, <1>2, <1>3, <2>1
  <2>3. Wrap(bytes) = bytes
    BY <2>2, NoWrap
  <2>4. body' = body + bytes /\ code' = code /\ exceeded' = exceeded
    BY <1>8, <2>3 DEF WriteBody
  <2>5. UNCHANGED <<limit, payload, phase, status, outcome>>
    BY DEF WriteBody
  <2>6. TypeOK'
    <3>1. exceeded' \in BOOLEAN
      BY <2>4 DEF IInv, TypeOK
    <3>2. code' = "running" /\ sent' \in Nat /\ body' \in Nat
      BY <1>2, <1>3, <1>4, <1>6, <2>4 DEF Running
    <3> QED
      BY <1>6, <2>5, <3>1, <3>2, BodyTypeStep DEF IInv
  <2>7. Counted'
    BY <1>2, <1>3, <1>4, <1>6, <2>1, <2>4, <2>5 DEF IInv, Counted, Running
  <2>8. Concluded'
    BY <1>4, <2>4, <2>5 DEF Concluded, Running, Undecided
  <2> QED
    BY <2>6, <2>7, <2>8 DEF IInv
<1> QED
  BY <1>7, <1>8

(* A block that fits but cannot be appended ends the transfer. *)
LEMMA WriteBodyRefusedStep ==
    ASSUME IInv, NEW b \in Blocks, WriteBodyRefused(b[1], b[2])
    PROVE  IInv'
<1> DEFINE size == b[1]
           nmemb == b[2]
           bytes == size * nmemb
<1>1. size \in Nat /\ nmemb \in Nat
  BY BlocksAssumption, LimitsAssumption
<1>2. limit \in Nat /\ payload \in Nat /\ sent \in Nat /\ body \in Nat
  BY Lengths DEF IInv
<1>3. bytes \in Nat /\ bytes > 0 /\ size # 0
  BY <1>1 DEF WriteBodyRefused
<1>4. body = sent /\ ~exceeded /\ outcome = Undecided /\ body <= limit
  BY DEF IInv, Counted, Concluded, WriteBodyRefused
<1>5. ~(body + bytes > limit)
  BY <1>1, <1>3, <1>4, OverflowsExact DEF IInv, WriteBodyRefused
<1>6. /\ sent' = sent + bytes /\ sent' <= payload
      /\ code' = "write_error"
      /\ UNCHANGED <<limit, payload, phase, status, body, exceeded, outcome>>
  BY DEF WriteBodyRefused
<1>7. sent' <= limit
  BY <1>2, <1>3, <1>4, <1>5, <1>6
<1>8. TypeOK'
  <2>1. exceeded' \in BOOLEAN
    BY <1>6 DEF IInv, TypeOK
  <2>2. sent' \in Nat /\ body' \in Nat
    BY <1>2, <1>3, <1>6
  <2> QED
    BY <1>6, <2>1, <2>2, BodyTypeStep DEF IInv
<1>9. Counted'
  BY <1>4, <1>6, <1>7 DEF IInv, Counted, Running
<1>10. Concluded'
  BY <1>4, <1>6 DEF Concluded, Running, Undecided
<1> QED
  BY <1>8, <1>9, <1>10 DEF IInv

(* Every step keeps IInv. *)
LEMMA NextIInv == IInv /\ [Next]_vars => IInv'
<1> SUFFICES ASSUME IInv, [Next]_vars PROVE IInv'
  OBVIOUS
<1>t. limit \in Nat /\ payload \in Nat /\ sent \in Nat /\ body \in Nat
  BY Lengths DEF IInv
<1>1. ASSUME InterimStatus PROVE IInv'
  BY <1>t, <1>1
  DEF InterimStatus, IInv, TypeOK, Counted, Concluded, Running, Undecided
<1>2. ASSUME FinalStatus PROVE IInv'
  BY <1>t, <1>2
  DEF FinalStatus, IInv, TypeOK, Counted, Concluded, Running, Undecided
<1>3. ASSUME FieldsEnd PROVE IInv'
  BY <1>t, <1>3
  DEF FieldsEnd, IInv, TypeOK, Counted, Concluded, Running, Undecided
<1>4. ASSUME HeaderRefused PROVE IInv'
  BY <1>t, <1>4
  DEF HeaderRefused, IInv, TypeOK, Counted, Concluded, Running, Undecided
<1>5. ASSUME NEW b \in Blocks, WriteBody(b[1], b[2]) PROVE IInv'
  BY <1>5, WriteBodyStep
<1>6. ASSUME NEW b \in Blocks, WriteBodyRefused(b[1], b[2]) PROVE IInv'
  BY <1>6, WriteBodyRefusedStep
<1>7. ASSUME Complete PROVE IInv'
  BY <1>t, <1>7
  DEF Complete, IInv, TypeOK, Counted, Concluded, Running, Undecided
<1>8. ASSUME TimedOut PROVE IInv'
  BY <1>t, <1>8
  DEF TimedOut, IInv, TypeOK, Counted, Concluded, Running, Undecided
<1>9. ASSUME Broken PROVE IInv'
  BY <1>t, <1>9
  DEF Broken, IInv, TypeOK, Counted, Concluded, Running, Undecided
<1>10. ASSUME Conclude PROVE IInv'
  <2>1. /\ UNCHANGED <<limit, payload, phase, status, sent, body, exceeded, code>>
        /\ outcome' = Verdict
        /\ ~Running
    BY <1>10 DEF Conclude, Verdict
  <2>2. TypeOK'
    BY <2>1, ResultType DEF IInv, TypeOK
  <2>3. Counted'
    BY <2>1 DEF IInv, Counted, Running
  <2>4. Verdict' = Verdict
    BY <2>1 DEF Verdict, ClientResult, SendResult
  <2>5. Concluded'
    BY <2>1, <2>4 DEF Concluded, Running
  <2> QED
    BY <2>2, <2>3, <2>5 DEF IInv
<1>11. ASSUME StatusUnknown PROVE IInv'
  <2>1. /\ UNCHANGED <<limit, payload, phase, status, sent, body, exceeded, code>>
        /\ outcome' = Failure("StatusUnknown")
        /\ ~Running
    BY <1>11 DEF StatusUnknown
  <2>2. TypeOK'
    BY <2>1 DEF IInv, TypeOK, Failure, Outcome
  <2>3. Counted'
    BY <2>1 DEF IInv, Counted, Running
  <2>4. Concluded'
    BY <2>1 DEF Concluded, Running, Failure, Outcome
  <2> QED
    BY <2>2, <2>3, <2>4 DEF IInv
<1>12. ASSUME UNCHANGED vars PROVE IInv'
  <2>1. TypeOK' /\ Counted'
    BY <1>12 DEF vars, IInv, TypeOK, Counted, Running
  <2>2. Verdict' = Verdict
    BY <1>12 DEF vars, Verdict, ClientResult, SendResult
  <2>3. Concluded'
    BY <1>12, <2>2 DEF vars, IInv, Concluded, Running, Undecided, Failure, Outcome
  <2> QED
    BY <2>1, <2>3 DEF IInv
<1> QED
  BY <1>1, <1>2, <1>3, <1>4, <1>5, <1>6, <1>7, <1>8, <1>9, <1>10, <1>11, <1>12
  DEF Next, Terminated

(* The invariant that everything else follows from. *)
THEOREM Invariance == Spec => []IInv
  BY InitIInv, NextIInv, PTL DEF Spec

(* Type correctness. *)
THEOREM TypeCorrect == Spec => []TypeOK
<1>1. IInv => TypeOK
  BY DEF IInv
<1> QED
  BY <1>1, Invariance, PTL

-----------------------------------------------------------------------------
(* No more than the limit is kept of any body, whatever size_t can hold. *)
THEOREM LimitKept == Spec => []BodyWithinLimit
<1>1. IInv => BodyWithinLimit
  BY DEF IInv, Counted, BodyWithinLimit
<1> QED
  BY <1>1, Invariance, PTL

(* What a decided outcome says, by the code that perform returned. *)
LEMMA OutcomeIs ==
    ASSUME IInv, Decided, outcome.kind # "StatusUnknown"
    PROVE  outcome = Verdict /\ ~Running
  BY DEF IInv, Concluded, Decided, Failure, Outcome

(* A 2xx success has the whole body. *)
THEOREM Complete2xx == Spec => []SuccessIsComplete
<1>1. IInv => SuccessIsComplete
  <2> SUFFICES ASSUME IInv, outcome.kind = "success"
               PROVE  outcome.status \in 200 .. 299 /\ outcome.body = payload /\ payload <= limit
    BY DEF SuccessIsComplete
  <2>1. outcome = Verdict /\ ~Running
    BY OutcomeIs DEF Decided, Undecided, Outcome
  <2>2. SendResult.kind = "response" /\ SendResult.status \div 100 = 2
    BY <2>1 DEF Verdict, ClientResult, SendResult, Outcome, Failure
  <2>3. outcome.status = SendResult.status /\ outcome.body = SendResult.body
    BY <2>1, <2>2 DEF Verdict, ClientResult, SendResult, Outcome, Failure
  <2>4. status \in Nat /\ payload \in Nat /\ limit \in Nat
    BY Lengths DEF IInv
  <2>5. SendResult.status = status
    BY <2>2 DEF SendResult, Outcome, Failure
  <2>6. status \in 200 .. 299
    BY <2>2, <2>4, <2>5
  <2>7. code = "ok" /\ SendResult.body = body
    BY <2>2, <2>4, <2>6 DEF SendResult, KeepsStatus, Outcome, Failure
  <2> QED
    BY <2>3, <2>4, <2>5, <2>6, <2>7 DEF IInv, Counted
<1> QED
  BY <1>1, Invariance, PTL

(* The status of an error survives whatever happens after it. *)
THEOREM StatusSurvives == Spec => []ErrorStatusSurvives
<1>1. IInv => ErrorStatusSurvives
  <2> SUFFICES ASSUME IInv, Decided, status \in 300 .. 599,
                      outcome.kind # "StatusUnknown"
               PROVE  /\ outcome.kind = "ApiError"
                      /\ outcome.status = status
                      /\ outcome.body \in {0, payload}
    BY DEF ErrorStatusSurvives
  <2>1. outcome = Verdict
    BY OutcomeIs
  <2>2. KeepsStatus(status) /\ status \div 100 # 2
    BY DEF KeepsStatus
  <2>3. SendResult = Outcome("response", status, IF code = "ok" THEN body ELSE 0)
    BY <2>2 DEF SendResult
  <2>4. code = "ok" => body = payload
    BY DEF IInv, Counted
  <2> QED
    BY <2>1, <2>2, <2>3, <2>4 DEF Verdict, ClientResult, Outcome
<1> QED
  BY <1>1, Invariance, PTL

(* A failure without such a status has the type that belongs to its cause. *)
THEOREM CauseNamed == Spec => []FailureNamesItsCause
<1>1. IInv => FailureNamesItsCause
  <2> SUFFICES ASSUME IInv, Decided, status \notin 300 .. 599,
                      outcome.kind # "StatusUnknown"
               PROVE  /\ outcome.kind = "body too large" <=> code = "write_error" /\ sent > limit
                      /\ outcome.kind = "RequestTimeoutError" <=> code = "timed_out"
    BY DEF FailureNamesItsCause
  <2>1. outcome = Verdict
    BY OutcomeIs
  <2>2. ~KeepsStatus(status)
    BY Lengths DEF KeepsStatus, IInv
  <2>3. limit \in Nat /\ sent \in Nat
    BY Lengths DEF IInv
  <2>4. code = "write_error" => (exceeded <=> sent > limit)
    BY <2>3 DEF IInv, Counted
  <2>5. CASE code = "ok"
    BY <2>1, <2>5 DEF Verdict, ClientResult, SendResult, Outcome
  <2>6. CASE code = "timed_out"
    BY <2>1, <2>2, <2>6 DEF Verdict, ClientResult, SendResult, Outcome, Failure
  <2>7. CASE code = "write_error" /\ exceeded
    BY <2>1, <2>2, <2>4, <2>7 DEF Verdict, ClientResult, SendResult, Outcome, Failure
  <2>8. CASE code \notin {"ok", "timed_out"} /\ ~(code = "write_error" /\ exceeded)
    BY <2>1, <2>2, <2>4, <2>8 DEF Verdict, ClientResult, SendResult, Outcome, Failure
  <2> QED
    BY <2>5, <2>6, <2>7, <2>8
<1> QED
  BY <1>1, Invariance, PTL

-----------------------------------------------------------------------------
LineNames == [field : Fields, spelling : Spellings]
HeaderNames == [field : Fields \ {""}, spelling : Spellings]

Typed ==
    /\ part \in {"interim", "final", "body", "trailers", "done"}
    /\ received \in Seq([name : LineNames, value : Values])
    /\ DOMAIN headers \subseteq HeaderNames
    /\ \A n \in DOMAIN headers : headers[n] \in Seq(Values)

(* The metadata are those of the headers that came: none is read before the
   last line, and none comes after.                                        *)
HeadersIInv ==
    /\ Typed
    /\ HeadersLossless
    /\ metadata = IF part = "done" THEN ToMetadata ELSE [credits |-> None, records |-> None]

-----------------------------------------------------------------------------
(* Among the spellings of a field that are there one comes first. *)
LEMMA LeastSpelling ==
    ASSUME NEW S, S \subseteq Nat, S # {}
    PROVE  \E n \in S : \A m \in S : n <= m
<1>1. PICK n \in S : \A m \in S : ~(<<m, n>> \in OpToRel(<, Nat))
  BY NatLessThanWellFounded, WFMin
<1>2. \A m \in Nat : m < n => <<m, n>> \in OpToRel(<, Nat)
  BY DEF OpToRel
<1>3. \A m \in S : m \in Nat /\ ~(m < n)
  BY <1>1, <1>2
<1> QED
  BY <1>3

(* A line more. *)
LEMMA LineAppended ==
    ASSUME NEW s, NEW S, s \in Seq(S), NEW e \in S
    PROVE  /\ Len(s) \in Nat /\ DOMAIN s = 1 .. Len(s)
           /\ Append(s, e) \in Seq(S)
           /\ DOMAIN Append(s, e) = 1 .. Len(s) + 1
           /\ Append(s, e)[Len(s) + 1] = e
           /\ \A i \in 1 .. Len(s) : Append(s, e)[i] = s[i]
  OBVIOUS

LEMMA Indices ==
    ASSUME NEW s, NEW S, s \in Seq(S)
    PROVE  /\ \A i \in DOMAIN s : s[i] \in S
           /\ DOMAIN s # {} => 1 \in DOMAIN s
<1>1. Len(s) \in Nat /\ DOMAIN s = 1 .. Len(s)
  OBVIOUS
<1>2. DOMAIN s # {} => 1 \in DOMAIN s
  BY <1>1
<1> QED
  BY <1>2

LEMMA Places == ASSUME HeadersIInv PROVE DOMAIN received \subseteq Nat
<1>1. Len(received) \in Nat /\ DOMAIN received = 1 .. Len(received)
  BY DEF HeadersIInv, Typed
<1> QED
  BY <1>1

LEMMA NothingListed == DOMAIN <<>> = {}
<1>1. <<>> \in Seq({}) /\ Len(<<>>) = 0
  OBVIOUS
<1> QED
  BY <1>1

(* A value put behind the values of its name has the place of the line it came
   with, which is behind all others (push_back).                           *)
LEMMA ListsOneMore ==
    ASSUME Typed, NEW line, line \in [name : LineNames, value : Values],
           received' = Append(received, line),
           NEW values, values \in Seq(Values), NEW lines, lines \subseteq DOMAIN received,
           NEW more, more = lines \cup {Len(received) + 1},
           NEW longer, longer = Append(values, line.value),
           Lists(values, lines)
    PROVE  Lists(values, lines)' /\ Lists(longer, more)'
<1> DEFINE N == Len(received) + 1
           L == Len(values) + 1
<1>1. /\ Len(received) \in Nat /\ DOMAIN received = 1 .. Len(received)
      /\ received'[N] = line
      /\ \A i \in DOMAIN received : received'[i] = received[i]
  BY LineAppended DEF Typed
<1>2. /\ Len(values) \in Nat /\ DOMAIN values = 1 .. Len(values)
      /\ DOMAIN longer = 1 .. L /\ longer[L] = line.value
      /\ \A i \in 1 .. Len(values) : longer[i] = values[i]
  BY LineAppended
<1>3. PICK place \in [DOMAIN values -> lines] :
          /\ \A l \in lines : \E i \in DOMAIN values : place[i] = l
          /\ \A i, j \in DOMAIN values : i < j => place[i] < place[j]
          /\ \A i \in DOMAIN values : values[i] = received[place[i]].value
  BY DEF Lists
<1>4. Lists(values, lines)'
  <2>1. \A i \in DOMAIN values : values[i] = received'[place[i]].value
    BY <1>1, <1>3
  <2> QED
    BY <1>3, <2>1 DEF Lists
<1>5. Lists(longer, more)'
  <2> DEFINE last == [i \in DOMAIN longer |-> IF i = L THEN N ELSE place[i]]
  <2>1. /\ L \in DOMAIN longer /\ last[L] = N
        /\ \A i \in DOMAIN longer : i = L \/ i \in DOMAIN values
        /\ \A i \in DOMAIN values : i \in DOMAIN longer /\ last[i] = place[i] /\ i < L
    BY <1>2
  <2>2. \A i \in DOMAIN values : place[i] \in lines /\ place[i] \in 1 .. Len(received)
    BY <1>1, <1>3
  <2> HIDE DEF last
  <2>3. last \in [DOMAIN longer -> more]
    BY <2>1, <2>2 DEF last
  <2>4. \A l \in more : \E i \in DOMAIN longer : last[i] = l
    BY <1>3, <2>1
  <2>5. ASSUME NEW i \in DOMAIN longer, NEW j \in DOMAIN longer, i < j
        PROVE  last[i] < last[j]
    <3>1. i \in DOMAIN values
      BY <1>2, <2>1, <2>5
    <3>2. CASE j = L
      BY <1>1, <2>1, <2>2, <3>1, <3>2
    <3>3. CASE j \in DOMAIN values
      BY <1>3, <2>1, <2>5, <3>1, <3>3
    <3> QED
      BY <2>1, <3>2, <3>3
  <2>6. ASSUME NEW i \in DOMAIN longer PROVE longer[i] = received'[last[i]].value
    <3>1. CASE i = L
      BY <1>1, <1>2, <2>1, <3>1
    <3>2. CASE i \in DOMAIN values
      BY <1>1, <1>2, <1>3, <2>1, <2>2, <3>2
    <3> QED
      BY <2>1, <3>1, <3>2
  <2> QED
    BY <2>3, <2>4, <2>5, <2>6 DEF Lists
<1> QED
  BY <1>4, <1>5

-----------------------------------------------------------------------------
(* The lines of a name, before and after one more line. *)
LEMMA LinesOneMore ==
    ASSUME Typed, NEW line, line \in [name : LineNames, value : Values],
           received' = Append(received, line),
           NEW name
    PROVE  /\ Under(name) \subseteq DOMAIN received
           /\ Under(name)' = Under(name) \cup (IF line.name = name THEN {Len(received) + 1}
                                                                 ELSE {})
           /\ Len(received) + 1 \notin DOMAIN received
<1>1. /\ Len(received) \in Nat /\ DOMAIN received = 1 .. Len(received)
      /\ DOMAIN received' = 1 .. Len(received) + 1
      /\ received'[Len(received) + 1] = line
      /\ \A i \in 1 .. Len(received) : received'[i] = received[i]
  BY LineAppended DEF Typed
<1>2. DOMAIN received' = DOMAIN received \cup {Len(received) + 1}
  BY <1>1
<1> QED
  BY <1>1, <1>2 DEF Under

(* What is kept of the fields after one more line. *)
LEMMA ReadHeadersStep ==
    ASSUME HeadersIInv, NEW f \in Fields, NEW s \in Spellings, NEW v \in Values,
           ReadHeaders(Name(f, s), v)
    PROVE  HeadersIInv'
<1> DEFINE name == Name(f, s)
           line == Line(name, v)
<1>1. /\ name \in LineNames /\ name.field = f /\ name.spelling = s
      /\ line \in [name : LineNames, value : Values] /\ line.name = name /\ line.value = v
  BY DEF Name, Line, LineNames
<1>2. /\ received' = Append(received, line)
      /\ headers' = IF f = "" THEN headers ELSE PushBack(headers, name, v)
      /\ part' = part /\ metadata' = metadata /\ part # "done"
  BY <1>1 DEF ReadHeaders
<1> HIDE DEF name, line
<1>3. received' \in Seq([name : LineNames, value : Values])
  BY <1>1, <1>2, LineAppended DEF HeadersIInv, Typed
<1>4. Held(headers, name) \in Seq(Values)
  BY DEF Held, HeadersIInv, Typed
<1>5. f # "" =>
          /\ DOMAIN headers' = DOMAIN headers \cup {name}
          /\ headers'[name] = Append(Held(headers, name), v)
          /\ \A n \in DOMAIN headers : n # name => headers'[n] = headers[n]
  BY <1>2 DEF PushBack
<1>6. ASSUME NEW g \in Fields \ {""}, NEW t \in Spellings, NEW n, n = Name(g, t)
      PROVE  IF Under(n)' = {} THEN n \notin DOMAIN headers'
             ELSE n \in DOMAIN headers' /\ Lists(headers[n], Under(n))'
  <2>1. n.field = g
    BY <1>6 DEF Name
  <2>2. /\ Under(n) \subseteq DOMAIN received
        /\ Under(n)' = Under(n) \cup (IF n = name THEN {Len(received) + 1} ELSE {})
    BY <1>1, <1>2, LinesOneMore DEF HeadersIInv
  <2>3. IF Under(n) = {} THEN n \notin DOMAIN headers
        ELSE n \in DOMAIN headers /\ Lists(headers[n], Under(n))
    BY <1>6 DEF HeadersIInv, HeadersLossless
  <2>4. CASE n = name
    <3>1. f # ""
      BY <1>1, <2>1, <2>4
    <3>2. Lists(Held(headers, n), Under(n))
      <4>1. CASE Under(n) = {}
        <5>1. Held(headers, n) = <<>>
          BY <2>3, <4>1 DEF Held
        <5>2. DOMAIN <<>> = {}
          BY NothingListed
        <5>3. PICK place : place = [i \in {} |-> 0]
          OBVIOUS
        <5>4. place \in [{} -> {}]
          BY <5>3, Zenon
        <5> QED
          BY <4>1, <5>1, <5>2, <5>4 DEF Lists
      <4>2. CASE Under(n) # {}
        BY <2>3, <4>2 DEF Held
      <4> QED
        BY <4>1, <4>2
    <3>3. PICK longer, more : /\ longer = Append(Held(headers, n), line.value)
                              /\ more = Under(n) \cup {Len(received) + 1}
      OBVIOUS
    <3>4. PICK values, lines : values = Held(headers, n) /\ lines = Under(n)
      OBVIOUS
    <3>5. Lists(longer, more)'
      BY <1>1, <1>2, <1>4, <2>2, <2>4, <3>2, <3>3, <3>4, ListsOneMore DEF HeadersIInv
    <3> QED
      BY <1>1, <1>5, <2>2, <2>4, <3>1, <3>3, <3>5
  <2>5. CASE n # name
    <3>1. Under(n)' = Under(n)
      BY <2>2, <2>5
    <3>2. n \in DOMAIN headers' <=> n \in DOMAIN headers
      BY <1>2, <1>5, <2>5
    <3>3. CASE Under(n) = {}
      BY <2>3, <3>1, <3>2, <3>3
    <3>4. CASE Under(n) # {}
      <4>1. n \in DOMAIN headers /\ Lists(headers[n], Under(n))
        BY <2>3, <3>4
      <4>2. PICK values, lines : values = headers[n] /\ lines = Under(n)
        OBVIOUS
      <4>3. headers'[n] = values
        BY <1>2, <1>5, <2>5, <4>1, <4>2
      <4>4. PICK longer, more : /\ longer = Append(values, line.value)
                                /\ more = lines \cup {Len(received) + 1}
        OBVIOUS
      <4>5. values \in Seq(Values)
        BY <4>1, <4>2 DEF HeadersIInv, Typed
      <4>6. Lists(values, lines)'
        BY <1>1, <1>2, <2>2, <4>1, <4>2, <4>4, <4>5, ListsOneMore DEF HeadersIInv
      <4> QED
        BY <3>1, <3>2, <3>4, <4>1, <4>2, <4>3, <4>6
    <3> QED
      BY <3>3, <3>4
  <2> QED
    BY <2>4, <2>5
<1>7. HeadersLossless'
  BY <1>6 DEF HeadersLossless
<1>8. DOMAIN headers' \subseteq HeaderNames
  BY <1>1, <1>2, <1>5 DEF HeadersIInv, Typed, HeaderNames, LineNames
<1>9. ASSUME NEW n \in DOMAIN headers' PROVE headers'[n] \in Seq(Values)
  <2>1. CASE f # "" /\ n = name
    <3>1. Append(Held(headers, name), v) \in Seq(Values)
      BY <1>4
    <3> QED
      BY <1>5, <2>1, <3>1
  <2>2. CASE f = "" \/ n # name
    BY <1>2, <1>5, <2>2 DEF HeadersIInv, Typed
  <2> QED
    BY <2>1, <2>2
<1> QED
  BY <1>2, <1>3, <1>7, <1>8, <1>9 DEF HeadersIInv, Typed

(* The headers as they came, once all have come. *)
THEOREM HeadersInvariance == HeadersSpec => []HeadersIInv
<1>1. HeadersInit => HeadersIInv
  BY DEF HeadersInit, HeadersIInv, Typed, HeadersLossless, Under
<1>2. HeadersIInv /\ [HeadersNext]_headersVars => HeadersIInv'
  <2> SUFFICES ASSUME HeadersIInv, [HeadersNext]_headersVars PROVE HeadersIInv'
    OBVIOUS
  <2>1. CASE \E f \in Fields, s \in Spellings, v \in Values : ReadHeaders(Name(f, s), v)
    BY <2>1, ReadHeadersStep
  <2>2. ASSUME UNCHANGED <<headers, received>> PROVE HeadersLossless' /\ ToMetadata' = ToMetadata
    <3>1. HeadersLossless'
      <4>1. \A n : Under(n)' = Under(n)
        BY <2>2 DEF Under
      <4>2. \A values, lines : Lists(values, lines)' <=> Lists(values, lines)
        BY <2>2 DEF Lists
      <4> QED
        BY <2>2, <4>1, <4>2 DEF HeadersIInv, HeadersLossless
    <3>2. \A wanted : Present(wanted)' = Present(wanted)
      BY <2>2 DEF Present
    <3>3. \A field : HeaderInt(field)' = HeaderInt(field)
      BY <2>2, Zenon DEF HeaderInt
    <3>4. ToMetadata' = ToMetadata
      BY <3>2, <3>3 DEF ToMetadata, ParseHeaderInt
    <3> QED
      BY <3>1, <3>4
  <2>3. CASE NextPart
    BY <2>2, <2>3 DEF NextPart, HeadersIInv, Typed
  <2>4. CASE ReadMetadata
    BY <2>2, <2>4 DEF ReadMetadata, HeadersIInv, Typed
  <2>5. CASE Done \/ UNCHANGED headersVars
    BY <2>2, <2>5 DEF Done, headersVars, HeadersIInv, Typed
  <2> QED
    BY <2>1, <2>3, <2>4, <2>5 DEF HeadersNext
<1> QED
  BY <1>1, <1>2, PTL DEF HeadersSpec

(* Each name has all its values, from whichever response of the exchange, in
   the order they came (ReadHeaders).                                      *)
THEOREM Lossless == HeadersSpec => []HeadersLossless
<1>1. HeadersIInv => HeadersLossless
  BY DEF HeadersIInv
<1> QED
  BY HeadersInvariance, <1>1, PTL

-----------------------------------------------------------------------------
(* Sequences of values begin at 1. *)
LEMMA FromOne ==
    ASSUME NEW s, NEW S, s \in Seq(S)
    PROVE  \A i \in DOMAIN s : i = 1 \/ (1 \in DOMAIN s /\ 1 < i)
<1>1. Len(s) \in Nat /\ DOMAIN s = 1 .. Len(s)
  OBVIOUS
<1> QED
  BY <1>1

(* The first value of a name is that of the first line with this name. *)
LEMMA FirstValue ==
    ASSUME HeadersIInv, NEW n \in DOMAIN headers
    PROVE  \E line \in Under(n) : /\ headers[n][1] = received[line].value
                                  /\ \A l \in Under(n) : line <= l
<1>1. Under(n) # {} /\ Lists(headers[n], Under(n))
  <2>1. PICK f \in Fields \ {""}, s \in Spellings : n = Name(f, s)
    BY DEF HeadersIInv, Typed, HeaderNames, Name
  <2> QED
    BY <2>1 DEF HeadersIInv, HeadersLossless
<1>2. PICK place \in [DOMAIN headers[n] -> Under(n)] :
          /\ \A line \in Under(n) : \E i \in DOMAIN headers[n] : place[i] = line
          /\ \A i, j \in DOMAIN headers[n] : i < j => place[i] < place[j]
          /\ \A i \in DOMAIN headers[n] : headers[n][i] = received[place[i]].value
  BY <1>1 DEF Lists
<1>3. headers[n] \in Seq(Values) /\ DOMAIN headers[n] # {}
  BY <1>1, <1>2 DEF HeadersIInv, Typed
<1>4. 1 \in DOMAIN headers[n]
  BY <1>3, Indices
<1>5. Under(n) \subseteq Nat
  BY Places DEF Under
<1>6. ASSUME NEW l \in Under(n) PROVE place[1] <= l
  <2>1. PICK i \in DOMAIN headers[n] : place[i] = l
    BY <1>2
  <2>2. i = 1 \/ 1 < i
    BY <1>3, FromOne
  <2>3. place[1] \in Nat /\ l \in Nat
    BY <1>2, <1>4, <1>5
  <2>4. place[1] = l \/ place[1] < l
    BY <1>2, <1>4, <2>1, <2>2
  <2> QED
    BY <2>3, <2>4
<1> QED
  BY <1>2, <1>4, <1>6

(* There is a name for every line that has one. *)
LEMMA Gathered ==
    ASSUME HeadersIInv, NEW field, field # "", NEW i \in Lines(field)
    PROVE  \E n \in DOMAIN headers : n = received[i].name /\ n.field = field
<1>1. i \in DOMAIN received /\ received[i].name.field = field
  BY DEF Lines
<1>2. received[i].name \in LineNames
  <2>1. received[i] \in [name : LineNames, value : Values]
    BY <1>1, Indices DEF HeadersIInv, Typed
  <2> QED
    BY <2>1
<1>3. PICK s \in Spellings : received[i].name = Name(field, s) /\ field \in Fields
  BY <1>1, <1>2 DEF LineNames, Name
<1>4. Under(Name(field, s)) # {}
  BY <1>1, <1>3 DEF Under
<1>5. Name(field, s) \in DOMAIN headers
  BY <1>3, <1>4 DEF HeadersIInv, HeadersLossless
<1> QED
  BY <1>1, <1>3, <1>5

(* Only one line counts. *)
LEMMA CountsIs ==
    ASSUME HeadersIInv, NEW field, NEW i, Counts(i, field)
    PROVE  Stated(field) = received[i].value.front \cap Int32
<1> DEFINE IsFirst(l) == Counts(l, field)
<1>1. i \in Lines(field) /\ IsFirst(i)
  BY DEF Counts
<1>2. PICK first : first = CHOOSE l \in Lines(field) : IsFirst(l)
  OBVIOUS
<1>3. first \in Lines(field) /\ IsFirst(first)
  BY <1>1, <1>2
<1>4. ASSUME NEW l \in Lines(field)
      PROVE  received[l].name.spelling \in Nat /\ l \in Nat
  <2>1. l \in DOMAIN received /\ l \in Nat
    BY Places DEF Lines
  <2>2. received[l] \in [name : LineNames, value : Values]
    BY <2>1, Indices DEF HeadersIInv, Typed
  <2> QED
    BY <2>1, <2>2, SpellingsAssumption DEF LineNames
<1>5. first = i
  BY <1>1, <1>3, <1>4 DEF Counts
<1>6. Stated(field) = received[first].value.front \cap Int32
  BY <1>1, <1>2, Zenon DEF Stated
<1> QED
  BY <1>5, <1>6

LEMMA SameName ==
    ASSUME NEW m \in HeaderNames, NEW n \in HeaderNames,
           m.field = n.field, m.spelling = n.spelling
    PROVE  m = n
<1>1. PICK f \in Fields \ {""}, s \in Spellings : m = Name(f, s)
  BY DEF HeaderNames, Name
<1>2. PICK g \in Fields \ {""}, t \in Spellings : n = Name(g, t)
  BY DEF HeaderNames, Name
<1>3. f = g /\ s = t
  BY <1>1, <1>2 DEF Name
<1> QED
  BY <1>1, <1>2, <1>3

(* What is read of a field that is there is what its line that counts states. *)
LEMMA Read ==
    ASSUME HeadersIInv, NEW field, \E n \in DOMAIN headers : n.field = field
    PROVE  Lines(field) # {} /\ HeaderInt(field) = Stated(field)
<1> DEFINE named == {n \in DOMAIN headers : n.field = field}
           First(n) == \A m \in named : n.spelling <= m.spelling
           spellings == {n.spelling : n \in named}
<1>1. spellings \subseteq Nat /\ spellings # {}
  BY SpellingsAssumption DEF HeadersIInv, Typed, HeaderNames
<1>2. PICK s \in spellings : \A t \in spellings : s <= t
  <2> HIDE DEF spellings
  <2> QED
    BY <1>1, LeastSpelling
<1>3. \E n \in named : First(n)
  BY <1>2
<1>4. PICK n : n = CHOOSE least \in named : First(least)
  OBVIOUS
<1>5. n \in named /\ First(n)
  BY <1>3, <1>4
<1>6. HeaderInt(field) = StoI(headers[n][1])
  BY <1>4 DEF HeaderInt
<1>7. PICK line \in Under(n) : /\ headers[n][1] = received[line].value
                              /\ \A l \in Under(n) : line <= l
  BY <1>5, FirstValue
<1>8. field # ""
  BY <1>5 DEF HeadersIInv, Typed, HeaderNames
<1>9. line \in Lines(field)
  BY <1>5, <1>7 DEF Under, Lines
<1>10. ASSUME NEW l \in Lines(field)
       PROVE  \/ received[line].name.spelling < received[l].name.spelling
              \/ received[line].name.spelling = received[l].name.spelling /\ line <= l
  <2>1. PICK m \in DOMAIN headers : m = received[l].name /\ m.field = field
    BY <1>8, Gathered
  <2>2. m \in HeaderNames /\ n \in HeaderNames /\ n.field = field /\ received[line].name = n
    BY <1>5, <1>7 DEF HeadersIInv, Typed, Under
  <2>3. n.spelling <= m.spelling /\ n.spelling \in Nat /\ m.spelling \in Nat
    BY <1>5, <2>1, <2>2, SpellingsAssumption DEF HeaderNames
  <2>4. CASE n.spelling = m.spelling
    <3>1. m = n
      BY <2>1, <2>2, <2>4, SameName
    <3>2. l \in Under(n)
      BY <2>1, <3>1 DEF Lines, Under
    <3> QED
      BY <1>7, <2>1, <2>2, <2>4, <3>2
  <2>5. CASE n.spelling < m.spelling
    BY <2>1, <2>2, <2>5
  <2> QED
    BY <2>3, <2>4, <2>5
<1>11. Stated(field) = received[line].value.front \cap Int32
  BY <1>9, <1>10, CountsIs DEF Counts
<1>12. StoI(received[line].value) = received[line].value.front \cap Int32
  BY DEF StoI
<1> QED
  BY <1>6, <1>7, <1>9, <1>11, <1>12

LEMMA MinIs ==
    ASSUME NEW S, NEW x \in S, x \in Nat, \A y \in S : y \in Nat /\ x <= y
    PROVE  Min(S) = x
<1> DEFINE IsLeast(m) == \A y \in S : m <= y
<1>1. IsLeast(x)
  OBVIOUS
<1>2. PICK m : m = CHOOSE least \in S : IsLeast(least)
  OBVIOUS
<1>3. m \in S /\ IsLeast(m)
  BY <1>1, <1>2
<1>4. Min(S) = m
  BY <1>2 DEF Min
<1> QED
  BY <1>3, <1>4

LEMMA MinOfOne == Min({1}) = 1 /\ Min({2}) = 2
<1>1. \A S, x : /\ x \in S /\ x \in Nat /\ \A y \in S : y \in Nat /\ x <= y
                => Min(S) = x
  BY MinIs
<1> QED
  BY <1>1

LEMMA MinOfTwo ==
    ASSUME NEW S, S \subseteq {1, 2}, 1 \in S
    PROVE  Min(S) = 1
<1>1. \A y \in S : y \in Nat /\ 1 <= y
  OBVIOUS
<1> QED
  BY <1>1, MinIs

LEMMA Tuples ==
    ASSUME NEW a, NEW b
    PROVE  /\ DOMAIN <<a>> = {1} /\ <<a>>[1] = a
           /\ DOMAIN <<a, b>> = {1, 2} /\ <<a, b>>[1] = a /\ <<a, b>>[2] = b
  OBVIOUS

(* A field that is not there states nothing. *)
LEMMA NotThere ==
    ASSUME HeadersIInv, NEW field, field # "", ~\E n \in DOMAIN headers : n.field = field
    PROVE  Lines(field) = {} /\ Stated(field) = {}
<1>1. Lines(field) = {}
  BY Gathered
<1> QED
  BY <1>1 DEF Stated

(* One wanted name. *)
LEMMA StatedByOne ==
    ASSUME HeadersIInv, NEW field, field # "",
           NEW wanted, DOMAIN wanted = {1}, wanted[1] = field
    PROVE  ParseHeaderInt(wanted) = Stated(field)
<1>1. CASE \E n \in DOMAIN headers : n.field = field
  <2>1. Present(wanted) = {1}
    BY <1>1 DEF Present
  <2>2. ParseHeaderInt(wanted) = HeaderInt(field)
    BY <2>1, MinOfOne DEF ParseHeaderInt
  <2> QED
    BY <1>1, <2>2, Read
<1>2. CASE ~\E n \in DOMAIN headers : n.field = field
  <2>1. Present(wanted) = {}
    BY <1>2 DEF Present
  <2> QED
    BY <1>2, <2>1, NotThere DEF ParseHeaderInt, None
<1> QED
  BY <1>1, <1>2

(* Of two names the second counts where there is no line with the first. *)
LEMMA StatedByEither ==
    ASSUME HeadersIInv, NEW one, NEW other, one # "", other # "",
           NEW wanted, DOMAIN wanted = {1, 2}, wanted[1] = one, wanted[2] = other
    PROVE  ParseHeaderInt(wanted) = Stated(IF Lines(one) # {} THEN one ELSE other)
<1> DEFINE There(field) == \E n \in DOMAIN headers : n.field = field
<1>1. Present(wanted) = {i \in {1, 2} : There(wanted[i])}
  BY DEF Present
<1>2. CASE There(one)
  <2>1. 1 \in Present(wanted) /\ Present(wanted) \subseteq {1, 2}
    BY <1>1, <1>2
  <2>2. Min(Present(wanted)) = 1
    BY <2>1, MinOfTwo
  <2>3. ParseHeaderInt(wanted) = HeaderInt(one)
    BY <2>1, <2>2 DEF ParseHeaderInt
  <2>4. Lines(one) # {} /\ HeaderInt(one) = Stated(one)
    BY <1>2, Read
  <2> QED
    BY <2>3, <2>4
<1>3. ASSUME ~There(one) PROVE Lines(one) = {}
  BY <1>3, NotThere
<1>4. CASE ~There(one) /\ There(other)
  <2>1. Present(wanted) = {2}
    BY <1>1, <1>4
  <2>2. ParseHeaderInt(wanted) = HeaderInt(other)
    BY <2>1, MinOfOne DEF ParseHeaderInt
  <2>3. HeaderInt(other) = Stated(other)
    BY <1>4, Read
  <2> QED
    BY <1>3, <1>4, <2>2, <2>3
<1>5. CASE ~There(one) /\ ~There(other)
  <2>1. Present(wanted) = {}
    BY <1>1, <1>5
  <2>2. Stated(other) = {}
    BY <1>5, NotThere
  <2> QED
    BY <1>3, <1>5, <2>1, <2>2 DEF ParseHeaderInt, None
<1> QED
  BY <1>2, <1>4, <1>5

(* The metadata are what the lines that count begin with (ToMetadata,
   ParseHeaderInt).                                                        *)
THEOREM Metadata == HeadersSpec => []MetadataAsStated
<1>1. HeadersIInv => MetadataAsStated
  <2> SUFFICES ASSUME HeadersIInv, part = "done" PROVE MetadataAsStated
    BY DEF MetadataAsStated
  <2>1. PICK one, two : one = <<"X-Credits-Charged">> /\
                        two = <<"X-Successful-Record", "X-Successful-Records">>
    OBVIOUS
  <2>2. metadata.credits = ParseHeaderInt(one) /\ metadata.records = ParseHeaderInt(two)
    BY <2>1 DEF HeadersIInv, ToMetadata
  <2>3. ParseHeaderInt(one) = Stated("X-Credits-Charged")
    BY <2>1, StatedByOne, Tuples
  <2>4. ParseHeaderInt(two) = Stated(IF Lines("X-Successful-Record") # {}
                                     THEN "X-Successful-Record"
                                     ELSE "X-Successful-Records")
    BY <2>1, StatedByEither, Tuples
  <2> QED
    BY <2>2, <2>3, <2>4 DEF MetadataAsStated
<1> QED
  BY HeadersInvariance, <1>1, PTL

(* No field is without a value, and a number fits an int. *)
THEOREM HeadersTypeCorrect == HeadersSpec => []HeadersTypeOK
<1>1. HeadersIInv => HeadersTypeOK
  <2> SUFFICES ASSUME HeadersIInv PROVE HeadersTypeOK
    OBVIOUS
  <2>1. ASSUME NEW n \in DOMAIN headers PROVE headers[n] # <<>>
    <3>1. PICK f \in Fields \ {""}, s \in Spellings : n = Name(f, s)
      BY DEF HeadersIInv, Typed, HeaderNames, Name
    <3>2. Under(n) # {} /\ Lists(headers[n], Under(n))
      BY <3>1 DEF HeadersIInv, HeadersLossless
    <3>3. DOMAIN headers[n] # {}
      BY <3>2 DEF Lists
    <3> QED
      BY <3>3, NothingListed
  <2>2. ASSUME NEW field PROVE Stated(field) \subseteq Int32
    BY DEF Stated
  <2>4. ASSUME NEW wanted, DOMAIN wanted \subseteq {1, 2}
        PROVE  ParseHeaderInt(wanted) \subseteq Int32
    <3>1. CASE Present(wanted) = {}
      BY <3>1 DEF ParseHeaderInt, None
    <3>2. CASE Present(wanted) # {}
      <4>1. Present(wanted) \subseteq {1, 2}
        BY <2>4 DEF Present
      <4>2. Min(Present(wanted)) \in Present(wanted)
        BY <3>2, <4>1, MinOfOne, MinOfTwo
      <4>3. PICK field : /\ field = wanted[Min(Present(wanted))]
                         /\ \E n \in DOMAIN headers : n.field = field
        BY <4>2 DEF Present
      <4>4. ParseHeaderInt(wanted) = HeaderInt(field)
        BY <3>2, <4>3 DEF ParseHeaderInt
      <4>5. HeaderInt(field) = Stated(field)
        BY <4>3, Read
      <4> QED
        BY <2>2, <4>4, <4>5
    <3> QED
      BY <3>1, <3>2
  <2>5. \A m \in DOMAIN metadata : metadata[m] \subseteq Int32
    <3>1. CASE part = "done"
      <4>1. PICK one, two : one = <<"X-Credits-Charged">> /\
                            two = <<"X-Successful-Record", "X-Successful-Records">>
        OBVIOUS
      <4>2. DOMAIN one \subseteq {1, 2} /\ DOMAIN two \subseteq {1, 2}
        BY <4>1, Tuples
      <4>3. ParseHeaderInt(one) \subseteq Int32 /\ ParseHeaderInt(two) \subseteq Int32
        BY <2>4, <4>2
      <4> QED
        BY <3>1, <4>1, <4>3 DEF HeadersIInv, ToMetadata
    <3>2. CASE part # "done"
      BY <3>2 DEF HeadersIInv, None
    <3> QED
      BY <3>1, <3>2
  <2> QED
    BY <2>1, <2>5 DEF HeadersTypeOK, HeadersIInv, Typed, HeaderNames
<1> QED
  BY HeadersInvariance, <1>1, PTL

-----------------------------------------------------------------------------
Initialising == {"global_init", "atexit"}

(* call_once lets one thread at a time into the function, and the others past
   it only when it has succeeded.                                          *)
OnceInv ==
    /\ \A t \in Threads : pc[t] \in Initialising => once = "running"
    /\ \A t, u \in Threads : pc[t] \in Initialising /\ pc[u] \in Initialising => t = u
    /\ \A t \in Threads : pc[t] = "reserve" => once = "done"
    /\ \A t \in Threads : pc[t] # "out" => building[t] \in Clients
    /\ exiting => \A t \in Threads : pc[t] = "out"

(* libcurl is set up from the initialisation until its cleanup at exit. *)
SetUpInv ==
    /\ inits \in {0, 1}
    /\ once = "fresh" => inits = 0
    /\ \A t \in Threads : pc[t] = "global_init" => inits = 0
    /\ \A t \in Threads : pc[t] = "atexit" => inits = 1
    /\ once = "done" /\ ~exiting => inits = 1
    /\ transports # {} => once = "done"

(* The cleanup is registered once, by the initialisation, and every static
   client after it.                                                        *)
ExitInv ==
    /\ once # "done" => Cleanup \notin {atExit[i] : i \in DOMAIN atExit}
    /\ \A i, j \in DOMAIN atExit : atExit[i] = Cleanup /\ atExit[j] = Cleanup => i = j
    /\ \A i \in DOMAIN atExit : atExit[i] = Cleanup => inits = 1
    /\ exiting => transports \subseteq Static
    /\ \A c \in transports \cap Static :
           \E i \in DOMAIN atExit :
               /\ atExit[i] = c
               /\ \A j \in DOMAIN atExit : atExit[j] = Cleanup => j < i
    /\ transports # {} => inits = 1

ProcessIInv == ProcessTypeOK /\ OnceInv /\ SetUpInv /\ ExitInv

-----------------------------------------------------------------------------
(* Nothing is set up, registered or constructed when the program starts. *)
LEMMA ProcessInitIInv == ProcessInit => ProcessIInv
<1> SUFFICES ASSUME ProcessInit PROVE ProcessIInv
  OBVIOUS
<1>1. DOMAIN atExit = {}
  BY DEF ProcessInit
<1>2. ProcessTypeOK
  <2>1. << >> \in Seq(Clients \cup {Cleanup})
    OBVIOUS
  <2>2. 0 \in 0 .. MaxFailures
    BY MaxFailuresAssumption
  <2> QED
    BY <2>1, <2>2 DEF ProcessInit, ProcessTypeOK
<1>3. OnceInv
  BY DEF ProcessInit, OnceInv, Initialising
<1>4. SetUpInv
  BY DEF ProcessInit, SetUpInv
<1>5. ExitInv
  BY <1>1 DEF ProcessInit, ExitInv
<1> QED
  BY <1>2, <1>3, <1>4, <1>5 DEF ProcessIInv

(* A constructor that begins disturbs nothing that is set up. *)
LEMMA ConstructStep ==
    ASSUME ProcessIInv, NEW t \in Threads, NEW c \in Clients, Construct(t, c)
    PROVE  ProcessIInv'
  BY DEF Construct, Goto, ProcessIInv, ProcessTypeOK, OnceInv, SetUpInv, ExitInv, Initialising

(* Only a fresh flag lets a thread into the function. *)
LEMMA OnceEnterStep ==
    ASSUME ProcessIInv, NEW t \in Threads, OnceEnter(t)
    PROVE  ProcessIInv'
  BY DEF OnceEnter, Goto, ProcessIInv, ProcessTypeOK, OnceInv, SetUpInv, ExitInv, Initialising

(* A constructor passes when libcurl is set up. *)
LEMMA OncePassStep ==
    ASSUME ProcessIInv, NEW t \in Threads, OncePass(t)
    PROVE  ProcessIInv'
  BY DEF OncePass, Goto, ProcessIInv, ProcessTypeOK, OnceInv, SetUpInv, ExitInv, Initialising

(* After a failure the flag is fresh and nothing is set up. *)
LEMMA GlobalInitFailsStep ==
    ASSUME ProcessIInv, NEW t \in Threads, GlobalInitFails(t)
    PROVE  ProcessIInv'
  BY MaxFailuresAssumption DEF GlobalInitFails, Goto, ProcessIInv, ProcessTypeOK, OnceInv, SetUpInv, ExitInv, Initialising

(* The thread in the function finds libcurl not set up. *)
LEMMA GlobalInitStep ==
    ASSUME ProcessIInv, NEW t \in Threads, GlobalInit(t)
    PROVE  ProcessIInv'
  BY DEF GlobalInit, Goto, ProcessIInv, ProcessTypeOK, OnceInv, SetUpInv, ExitInv, Initialising

(* The cleanup is registered when no client exists yet. *)
LEMMA RegisterCleanupStep ==
    ASSUME ProcessIInv, NEW t \in Threads, RegisterCleanup(t)
    PROVE  ProcessIInv'
<1>1. /\ pc[t] = "atexit" /\ once = "running" /\ inits = 1 /\ ~exiting /\ transports = {}
      /\ Cleanup \notin {atExit[i] : i \in DOMAIN atExit}
  BY DEF RegisterCleanup, ProcessIInv, ProcessTypeOK, OnceInv, SetUpInv, ExitInv, Initialising
<1>2. /\ once' = "done" /\ pc' = [pc EXCEPT ![t] = "reserve"]
      /\ UNCHANGED <<inits, building, unbuilt, transports, exiting, failures>>
  BY DEF RegisterCleanup, Goto
<1>3. atExit \in Seq(Clients \cup {Cleanup})
  BY DEF ProcessIInv, ProcessTypeOK
<1>4. atExit' \in Seq(Clients \cup {Cleanup})
  BY <1>3 DEF RegisterCleanup
<1>5. ProcessTypeOK'
  BY <1>2, <1>4 DEF ProcessIInv, ProcessTypeOK
<1>6. OnceInv'
  BY <1>1, <1>2 DEF ProcessIInv, ProcessTypeOK, OnceInv, Initialising
<1>7. SetUpInv'
  BY <1>1, <1>2 DEF ProcessIInv, ProcessTypeOK, OnceInv, SetUpInv, Initialising
<1>8. \A i, j \in DOMAIN atExit' :
          atExit'[i] = Cleanup /\ atExit'[j] = Cleanup => i = j
  BY <1>1, <1>3 DEF RegisterCleanup
<1>9. ExitInv'
  BY <1>1, <1>2, <1>8 DEF ExitInv
<1> QED
  BY <1>5, <1>6, <1>7, <1>9 DEF ProcessIInv

(* A static client is registered after the cleanup that call_once registered. *)
LEMMA ConstructedStep ==
    ASSUME ProcessIInv, NEW t \in Threads, Constructed(t)
    PROVE  ProcessIInv'
<1> DEFINE c == building[t]
<1>1. pc[t] = "reserve" /\ once = "done" /\ c \in Clients /\ ~exiting /\ inits = 1
  BY DEF Constructed, ProcessIInv, ProcessTypeOK, OnceInv, SetUpInv
<1>2. /\ transports' = transports \cup {c}
      /\ building' = [building EXCEPT ![t] = NoClient]
      /\ pc' = [pc EXCEPT ![t] = "out"]
      /\ UNCHANGED <<once, inits, unbuilt, exiting, failures>>
  BY DEF Constructed, Goto
<1>3. atExit \in Seq(Clients \cup {Cleanup})
  BY DEF ProcessIInv, ProcessTypeOK
<1>4. c # Cleanup
  BY <1>1, CleanupAssumption
<1>5. atExit' \in Seq(Clients \cup {Cleanup})
  BY <1>1, <1>3 DEF Constructed
<1>6. ProcessTypeOK'
  BY <1>1, <1>2, <1>5 DEF ProcessIInv, ProcessTypeOK
<1>7. OnceInv'
  BY <1>1, <1>2 DEF ProcessIInv, ProcessTypeOK, OnceInv, Initialising
<1>8. SetUpInv'
  BY <1>1, <1>2 DEF ProcessIInv, ProcessTypeOK, OnceInv, SetUpInv, Initialising
<1>9. ExitInv'
  <2>1. CASE c \in Static
    <3>1. atExit' = Append(atExit, c)
      BY <2>1 DEF Constructed
    <3>2. /\ DOMAIN atExit' = 1 .. Len(atExit) + 1
          /\ \A i \in DOMAIN atExit : atExit'[i] = atExit[i]
          /\ atExit'[Len(atExit) + 1] = c
          /\ DOMAIN atExit = 1 .. Len(atExit) /\ Len(atExit) \in Nat
      BY <1>3, <3>1
    <3>3. \A j \in DOMAIN atExit' :
              atExit'[j] = Cleanup => j \in DOMAIN atExit /\ atExit[j] = Cleanup
      BY <1>4, <3>2
    <3>4. \A d \in transports' \cap Static :
              \E i \in DOMAIN atExit' :
                  /\ atExit'[i] = d
                  /\ \A j \in DOMAIN atExit' : atExit'[j] = Cleanup => j < i
      <4> SUFFICES ASSUME NEW d \in transports' \cap Static
                   PROVE  \E i \in DOMAIN atExit' :
                              /\ atExit'[i] = d
                              /\ \A j \in DOMAIN atExit' : atExit'[j] = Cleanup => j < i
        OBVIOUS
      <4>1. CASE d = c
        BY <3>2, <3>3, <4>1
      <4>2. CASE d # c
        <5>1. PICK i \in DOMAIN atExit :
                  atExit[i] = d /\ \A j \in DOMAIN atExit : atExit[j] = Cleanup => j < i
          BY <1>2, <4>2 DEF ProcessIInv, ExitInv
        <5> QED
          BY <3>2, <3>3, <5>1
      <4> QED
        BY <4>1, <4>2
    <3> QED
      BY <1>1, <1>2, <3>3, <3>4 DEF ProcessIInv, ExitInv
  <2>2. CASE c \notin Static
    BY <1>1, <1>2, <2>2 DEF Constructed, ProcessIInv, ExitInv
  <2> QED
    BY <2>1, <2>2
<1> QED
  BY <1>6, <1>7, <1>8, <1>9 DEF ProcessIInv

(* Destroying a client leaves the exit stack alone. *)
LEMMA DestroyStep ==
    ASSUME ProcessIInv, NEW c \in Clients, Destroy(c)
    PROVE  ProcessIInv'
  BY DEF Destroy, ProcessIInv, ProcessTypeOK, OnceInv, SetUpInv, ExitInv, Initialising

(* At exit only static clients are left. *)
LEMMA ExitStep == ASSUME ProcessIInv, Exit PROVE ProcessIInv'
  BY DEF Exit, ProcessIInv, ProcessTypeOK, OnceInv, SetUpInv, ExitInv, Initialising

(* The last entry is the cleanup only when every static client is gone. *)
LEMMA RunAtExitStep == ASSUME ProcessIInv, RunAtExit PROVE ProcessIInv'
<1> DEFINE n == Len(atExit)
<1>1. /\ atExit \in Seq(Clients \cup {Cleanup}) /\ atExit # << >>
      /\ exiting /\ atExit' = Front(atExit)
      /\ UNCHANGED <<once, pc, building, unbuilt, exiting, failures>>
  BY DEF RunAtExit, ProcessIInv, ProcessTypeOK
<1>2. /\ n \in Nat \ {0} /\ DOMAIN atExit = 1 .. n
      /\ DOMAIN atExit' = 1 .. n - 1
      /\ \A i \in 1 .. n - 1 : atExit'[i] = atExit[i]
      /\ atExit' \in Seq(Clients \cup {Cleanup})
      /\ Last(atExit) = atExit[n] /\ atExit[n] \in Clients \cup {Cleanup}
  BY <1>1 DEF Front, Last
<1>3. CASE atExit[n] = Cleanup
  <2>1. inits = 1 /\ inits' = 0 /\ UNCHANGED transports
    BY <1>2, <1>3 DEF RunAtExit, ProcessIInv, ExitInv
  <2>2. transports = {}
    <3> SUFFICES ASSUME NEW c \in transports PROVE FALSE
      OBVIOUS
    <3>1. c \in transports \cap Static
      BY <1>1 DEF ProcessIInv, ExitInv
    <3>2. PICK i \in DOMAIN atExit :
              atExit[i] = c /\ \A j \in DOMAIN atExit : atExit[j] = Cleanup => j < i
      BY <3>1 DEF ProcessIInv, ExitInv
    <3> QED
      BY <1>2, <1>3, <3>2
  <2>3. \A i \in DOMAIN atExit' : atExit'[i] # Cleanup
    BY <1>2, <1>3 DEF ProcessIInv, ExitInv
  <2>4. ProcessTypeOK'
    BY <1>1, <1>2, <2>1 DEF ProcessIInv, ProcessTypeOK
  <2>5. OnceInv' /\ SetUpInv'
    BY <1>1, <2>1, <2>2 DEF ProcessIInv, OnceInv, SetUpInv, Initialising
  <2>6. ExitInv'
    BY <1>1, <2>1, <2>2, <2>3 DEF ExitInv
  <2> QED
    BY <2>4, <2>5, <2>6 DEF ProcessIInv
<1>4. CASE atExit[n] # Cleanup
  <2>1. transports' = transports \ {atExit[n]} /\ UNCHANGED inits
    BY <1>2, <1>4 DEF RunAtExit
  <2>2. ProcessTypeOK'
    BY <1>1, <1>2, <2>1 DEF ProcessIInv, ProcessTypeOK
  <2>3. OnceInv' /\ SetUpInv'
    BY <1>1, <2>1 DEF ProcessIInv, OnceInv, SetUpInv, Initialising
  <2>4. \A c \in transports' \cap Static :
            \E i \in DOMAIN atExit' :
                /\ atExit'[i] = c
                /\ \A j \in DOMAIN atExit' : atExit'[j] = Cleanup => j < i
    <3> SUFFICES ASSUME NEW c \in transports' \cap Static
                 PROVE  \E i \in DOMAIN atExit' :
                            /\ atExit'[i] = c
                            /\ \A j \in DOMAIN atExit' : atExit'[j] = Cleanup => j < i
      OBVIOUS
    <3>1. PICK i \in DOMAIN atExit :
              atExit[i] = c /\ \A j \in DOMAIN atExit : atExit[j] = Cleanup => j < i
      BY <2>1 DEF ProcessIInv, ExitInv
    <3>2. i \in 1 .. n - 1
      BY <1>2, <2>1, <3>1
    <3> QED
      BY <1>2, <3>1, <3>2
  <2>5. ExitInv'
    BY <1>1, <1>2, <2>1, <2>4 DEF ProcessIInv, ExitInv
  <2> QED
    BY <2>2, <2>3, <2>5 DEF ProcessIInv
<1> QED
  BY <1>3, <1>4

(* Every step keeps ProcessIInv. *)
LEMMA ProcessNextIInv == ProcessIInv /\ [ProcessNext]_processVars => ProcessIInv'
<1> SUFFICES ASSUME ProcessIInv, [ProcessNext]_processVars PROVE ProcessIInv'
  OBVIOUS
<1>1. ASSUME NEW t \in Threads, Proceed(t) PROVE ProcessIInv'
  BY <1>1, OnceEnterStep, OncePassStep, GlobalInitFailsStep, GlobalInitStep,
     RegisterCleanupStep, ConstructedStep DEF Proceed
<1>2. ASSUME UNCHANGED processVars PROVE ProcessIInv'
  BY <1>2 DEF processVars, ProcessIInv, ProcessTypeOK, OnceInv, SetUpInv, ExitInv
<1> QED
  BY <1>1, <1>2, ConstructStep, DestroyStep, ExitStep, RunAtExitStep DEF ProcessNext, ProcessTerminated

(* The invariant that the properties follow from. *)
THEOREM ProcessInvariance == ProcessSpec => []ProcessIInv
  BY ProcessInitIInv, ProcessNextIInv, PTL DEF ProcessSpec

-----------------------------------------------------------------------------
(* Type correctness. *)
THEOREM ProcessTypeCorrect == ProcessSpec => []ProcessTypeOK
<1>1. ProcessIInv => ProcessTypeOK
  BY DEF ProcessIInv
<1> QED
  BY <1>1, ProcessInvariance, PTL

(* However many constructors race and fail, libcurl is initialised once, and
   its cleanup is registered at most once.                                 *)
THEOREM Once == ProcessSpec => []InitialisedOnce
<1>1. ProcessIInv => InitialisedOnce
  BY DEF ProcessIInv, SetUpInv, ExitInv, InitialisedOnce
<1> QED
  BY <1>1, ProcessInvariance, PTL

(* No transport exists before the initialisation or after the cleanup. *)
THEOREM CleanupLast == ProcessSpec => []CleanupComesLast
<1>1. ProcessIInv => CleanupComesLast
  BY DEF ProcessIInv, ExitInv, CleanupComesLast
<1> QED
  BY <1>1, ProcessInvariance, PTL
=============================================================================
