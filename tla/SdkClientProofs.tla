--------------------------- MODULE SdkClientProofs ---------------------------
(***************************************************************************)
(* Safety of SdkClient for any number of threads and client objects, any   *)
(* number of handles and any bound on calls.                               *)
(***************************************************************************)
EXTENDS SdkClient, TLAPS

(* A thread has a handle while it performs, and nobody else has it. *)
PoolInv ==
    /\ \A t \in Threads : pc[t] = "perform" <=> lent[t] # NoHandle
    /\ \A t, u \in Threads : lent[t] = lent[u] /\ lent[t] # NoHandle => t = u
    /\ \A t \in Threads : lent[t] \notin idle
    /\ \A h \in Handles : h \in live <=> h \in idle \/ \E t \in Threads : lent[t] = h
    /\ closed => idle = {}

(* Calls run on objects that exist.  A flag that is set has closed the
   transport, or the thread that set it is about to.                       *)
OwnerInv ==
    /\ impl = "unmade" => objects = {}
    /\ impl = "dead" => owner = NoObject /\ closed
    /\ \A t \in Threads : pc[t] # "out" => call[t].object \in objects
    /\ \A t \in Threads : pc[t] = "close_transport" => shut
    /\ shut => closed \/ \E t \in Threads : pc[t] = "close_transport"
    /\ closeDone => shut
    /\ closed => shut \/ impl = "dead"

(* A late request waits for the flag that refuses it, or has been refused. *)
LateInv ==
    \A t \in Threads :
        /\ pc[t] \in CloseSteps => call[t].request = NoRequest
        /\ call[t].late /\ call[t].request # NoRequest =>
              /\ pc[t] \in {"enter", "out"}
              /\ pc[t] = "out" => result[t] = "ClientClosedError"
              /\ pc[t] = "enter" => shut \/ owner # call[t].object

(* The steps of a request that has been let in. *)
Inside == {"normalize", "send", "perform", "read"}

(* A request works with the Impl it was let in to, which is open unless
   somebody races.                                                         *)
InsideAt(t) ==
    pc[t] \in Inside => owner = call[t].object /\ (RacingClose \/ ~shut)
InsideInv == \A t \in Threads : InsideAt(t)

(* Requests and Closes on one object do not meet unless somebody races. *)
Apart(t, u) ==
    ~RacingClose /\ pc[t] \in RequestSteps /\ pc[u] \in CloseSteps =>
        call[t].object # call[u].object
ApartInv == \A t, u \in Threads : Apart(t, u)
RefusedInv == \A t \in Threads : result[t] = "transport is closed" => RacingClose

(* What a request had to have to get where it is. *)
Accepted(t) == Credentialed(call[t].request) /\ Supported(call[t].request)
SentAt(t) ==
    /\ pc[t] \in RequestSteps => (call[t].sent <=> pc[t] \in {"perform", "read"})
    /\ pc[t] \in {"send", "perform", "read"} => Accepted(t)
    /\ pc[t] = "out" =>
          /\ result[t] \in {"ClientClosedError", "ValidationError", "transport is closed"}
                => ~call[t].sent
          /\ result[t] \in {"success", "ApiError", "SerializationError"}
                => call[t].sent /\ Accepted(t)
SentInv == \A t \in Threads : SentAt(t)

IInv == TypeOK /\ PoolInv /\ OwnerInv /\ LateInv /\ InsideInv /\ ApartInv /\ RefusedInv /\
        SentInv

-----------------------------------------------------------------------------

(* The values of call[t]. *)
Calls == [object : Objects \cup {NoObject}, request : Requests \cup {NoRequest},
          late : BOOLEAN, sent : BOOLEAN]


(* A thread returns. *)
LEMMA ReturnEffect ==
    ASSUME TypeOK, NEW t \in Threads, NEW r, Return(t, r)
    PROVE  \A u \in Threads :
               /\ pc'[u] = IF u = t THEN "out" ELSE pc[u]
               /\ result'[u] = IF u = t THEN r ELSE result[u]
  BY DEF TypeOK, Return

(* A thread goes on to its next step. *)
LEMMA GotoEffect ==
    ASSUME TypeOK, NEW t \in Threads, NEW step, Goto(t, step)
    PROVE  /\ \A u \in Threads : pc'[u] = IF u = t THEN step ELSE pc[u]
           /\ result' = result
  BY DEF TypeOK, Goto

(* A thread begins a call. *)
LEMMA BeginEffect ==
    ASSUME TypeOK, NEW t \in Threads, NEW o, NEW request, NEW step, NEW others,
           Begin(t, o, request, step, others)
    PROVE  /\ \A u \in Threads : pc'[u] = IF u = t THEN step ELSE pc[u]
           /\ \A u \in Threads : u # t => call'[u] = call[u]
           /\ call'[t].object = o /\ call'[t].request = request
           /\ call'[t].late <=> closeDone \/ owner # o
           /\ ~call'[t].sent
           /\ pc[t] = "out" /\ o \in objects /\ (RacingClose \/ ~UsesAny(o, others))
           /\ UNCHANGED <<poolVars, credentials, impl, objects, owner, shut, closeDone, result>>
<1> DEFINE c == [object |-> o, request |-> request,
                 late |-> closeDone \/ owner # o, sent |-> FALSE]
<1>1. call' = [call EXCEPT ![t] = c]
  BY Zenon DEF Begin
<1>2. call'[t] = c /\ \A u \in Threads : u # t => call'[u] = call[u]
  BY <1>1 DEF TypeOK
<1>3. c.late <=> closeDone \/ owner # o
  BY Zenon
<1>4. c.object = o /\ c.request = request /\ ~c.sent
  OBVIOUS
<1>5. Goto(t, step)
  BY DEF Begin
<1>6. \A u \in Threads : pc'[u] = IF u = t THEN step ELSE pc[u]
  BY <1>5, GotoEffect
<1> HIDE DEF c
<1> QED
  BY <1>2, <1>3, <1>4, <1>5, <1>6 DEF Begin, Goto

(* A request gets as far as the network. *)
LEMMA SentEffect ==
    ASSUME TypeOK, NEW t \in Threads, SendStarts(t)
    PROVE  /\ call' \in [Threads -> Calls]
           /\ \A u \in Threads : u # t => call'[u] = call[u]
           /\ call'[t].sent
           /\ call'[t].request = call[t].request
           /\ call'[t].object = call[t].object
           /\ call'[t].late = call[t].late
<1>1. call \in [Threads -> Calls]
  BY DEF TypeOK, Calls
<1>2. call' = [call EXCEPT ![t] = [call[t] EXCEPT !.sent = TRUE]]
  BY Zenon DEF SendStarts
<1> DEFINE c == [call[t] EXCEPT !.sent = TRUE]
<1>3. /\ c \in Calls /\ c.sent = TRUE
      /\ c.request = call[t].request /\ c.object = call[t].object /\ c.late = call[t].late
  BY <1>1 DEF Calls
<1>4. call'[t] = c /\ \A u \in Threads : u # t => call'[u] = call[u]
  BY <1>1, <1>2
<1>5. call' \in [Threads -> Calls]
  BY <1>1, <1>2, <1>3
<1> HIDE DEF c
<1> QED
  BY <1>3, <1>4, <1>5

-----------------------------------------------------------------------------
(* The types of what a call sets when it begins. *)
LEMMA BeginTypes ==
    ASSUME TypeOK, NEW t \in Threads, NEW o \in Objects,
           NEW request \in Requests \cup {NoRequest},
           NEW step \in RequestSteps \cup CloseSteps, NEW others,
           Begin(t, o, request, step, others)
    PROVE  TypeOK'
<1> DEFINE c == [object |-> o, request |-> request,
                 late |-> closeDone \/ owner # o, sent |-> FALSE]
<1>1. call' = [call EXCEPT ![t] = c]
  BY Zenon DEF Begin
<1>2. (closeDone \/ owner # o) \in BOOLEAN
  OBVIOUS
<1>3. c \in Calls
  BY <1>2 DEF Calls
<1> HIDE DEF c
<1>4. call' \in [Threads -> Calls]
  BY <1>1, <1>3 DEF TypeOK, Calls
<1>5. calls' \in [Threads -> 0 .. MaxCalls]
  BY MaxCallsAssumption DEF Begin, TypeOK
<1>6. pc' \in [Threads -> {"out"} \cup RequestSteps \cup CloseSteps] /\ result' = result
  BY DEF Begin, Goto, TypeOK
<1> QED
  BY <1>4, <1>5, <1>6 DEF Begin, TypeOK, Calls, poolVars

(* Every step keeps the types. *)
LEMMA TypeStep == IInv /\ [Next]_vars => TypeOK'
<1> SUFFICES ASSUME IInv, [Next]_vars PROVE TypeOK'
  OBVIOUS
<1> USE DEF IInv, TypeOK, Calls, RequestSteps, CloseSteps, poolVars
<1>1. ASSUME NEW o \in Objects, Construct(o) PROVE TypeOK'
  BY <1>1 DEF Construct, Results
<1>2. ASSUME NEW o \in Objects, Destroy(o) PROVE TypeOK'
  BY <1>2 DEF Destroy, ReleaseImpl, ClosePool, InUse, UsesAny, Results
<1>3. ASSUME NEW o \in Objects, NEW p \in Objects, MoveConstruct(p, o) PROVE TypeOK'
  BY <1>3 DEF MoveConstruct, InUse, UsesAny, Results
<1>4. ASSUME NEW o \in Objects, NEW p \in Objects, MoveAssign(p, o) PROVE TypeOK'
  BY <1>4 DEF MoveAssign, ReleaseImpl, ClosePool, InUse, UsesAny, Results
<1>5. ASSUME NEW t \in Threads, Request(t) PROVE TypeOK'
  <2>1. PICK o \in Objects, request \in Requests : Begin(t, o, request, "enter", CloseSteps)
    BY <1>5 DEF Request
  <2> QED
    BY <2>1, BeginTypes DEF RequestSteps
<1>6. ASSUME NEW t \in Threads, Close(t) PROVE TypeOK'
  <2>1. PICK o \in Objects : Begin(t, o, NoRequest, "close", RequestSteps)
    BY <1>6 DEF Close
  <2> QED
    BY <2>1, BeginTypes DEF CloseSteps
<1>7. ASSUME NEW t \in Threads, Enter(t) PROVE TypeOK'
  BY <1>7 DEF Enter, Goto, Return, Results
<1>8. ASSUME NEW t \in Threads, Normalize(t) PROVE TypeOK'
  BY <1>8 DEF Normalize, Goto, Return, Results
<1>9. ASSUME NEW t \in Threads, SendStarts(t) PROVE TypeOK'
  <2>1. call' \in [Threads -> Calls]
    BY <1>9, SentEffect
  <2>2. /\ lent' \in [Threads -> Handles \cup {NoHandle}]
        /\ idle' \subseteq Handles /\ live' \subseteq Handles
    BY <1>9 DEF SendStarts, LendIdle, LendFresh
  <2>3. pc' \in [Threads -> {"out"} \cup RequestSteps \cup CloseSteps] /\ result' = result
    BY <1>9 DEF SendStarts, Goto
  <2> QED
    BY <1>9, <2>1, <2>2, <2>3 DEF SendStarts, LendIdle, LendFresh
<1>10. ASSUME NEW t \in Threads, SendRefused(t) PROVE TypeOK'
  BY <1>10 DEF SendRefused, Return, Results
<1>11. ASSUME NEW t \in Threads, SendFails(t) PROVE TypeOK'
  <2>1. PICK r \in {"TransportError", "RequestTimeoutError"} : Return(t, r)
    BY <1>11 DEF SendFails
  <2>2. /\ pc' \in [Threads -> {"out"} \cup RequestSteps \cup CloseSteps]
        /\ result' \in [Threads -> Results]
    BY <2>1 DEF Return, Results
  <2>3. /\ lent' \in [Threads -> Handles \cup {NoHandle}]
        /\ idle' \subseteq Handles /\ live' \subseteq Handles
    BY <1>11 DEF SendFails, GiveBack
  <2> QED
    BY <1>11, <2>2, <2>3 DEF SendFails, GiveBack
<1>12. ASSUME NEW t \in Threads, SendReturns(t) PROVE TypeOK'
  BY <1>12 DEF SendReturns, GiveBack, Goto, Results
<1>13. ASSUME NEW t \in Threads, Read(t) PROVE TypeOK'
  BY <1>13 DEF Read, Return, Results
<1>14. ASSUME NEW t \in Threads, CloseFlag(t) PROVE TypeOK'
  BY <1>14 DEF CloseFlag, Goto, Return, Results
<1>15. ASSUME NEW t \in Threads, CloseTransport(t) PROVE TypeOK'
  BY <1>15 DEF CloseTransport, ClosePool, Return, Results
<1>16. CASE UNCHANGED vars
  BY <1>16 DEF vars, clientVars, Results
<1> QED
  BY <1>1, <1>2, <1>3, <1>4, <1>5, <1>6, <1>7, <1>8, <1>9, <1>10, <1>11, <1>12, <1>13,
     <1>14, <1>15, <1>16 DEF Next, Proceed, Terminated

(* Handles go back and forth between the pool and one thread. *)
LEMMA PoolStep == IInv /\ [Next]_vars => PoolInv'
<1> SUFFICES ASSUME IInv, [Next]_vars PROVE PoolInv'
  OBVIOUS
<1> USE NoObjectAssumption, NoHandleAssumption
        DEF IInv, TypeOK, OwnerInv, RequestSteps, CloseSteps, poolVars
<1>1. ASSUME NEW o \in Objects, Construct(o) PROVE PoolInv'
  BY <1>1 DEF Construct, PoolInv
<1>2. ASSUME NEW o \in Objects, Destroy(o) PROVE PoolInv'
  BY <1>2 DEF Destroy, ReleaseImpl, ClosePool, InUse, UsesAny, PoolInv
<1>3. ASSUME NEW o \in Objects, NEW p \in Objects, MoveConstruct(p, o) PROVE PoolInv'
  BY <1>3 DEF MoveConstruct, InUse, UsesAny, PoolInv
<1>4. ASSUME NEW o \in Objects, NEW p \in Objects, MoveAssign(p, o) PROVE PoolInv'
  BY <1>4 DEF MoveAssign, ReleaseImpl, ClosePool, InUse, UsesAny, PoolInv
<1>5. ASSUME NEW t \in Threads, Request(t) PROVE PoolInv'
  BY <1>5 DEF Request, Begin, Goto, UsesAny, PoolInv
<1>6. ASSUME NEW t \in Threads, Close(t) PROVE PoolInv'
  BY <1>6 DEF Close, Begin, Goto, UsesAny, PoolInv
<1>7. ASSUME NEW t \in Threads, Enter(t) PROVE PoolInv'
  BY <1>7 DEF Enter, Goto, Return, PoolInv
<1>8. ASSUME NEW t \in Threads, Normalize(t) PROVE PoolInv'
  BY <1>8 DEF Normalize, Goto, Return, PoolInv
<1>9. ASSUME NEW t \in Threads, SendStarts(t) PROVE PoolInv'
  <2>1. \A u \in Threads : pc'[u] = IF u = t THEN "perform" ELSE pc[u]
    BY <1>9, GotoEffect DEF SendStarts
  <2>2. CASE LendIdle(t)
    BY <2>1, <2>2 DEF LendIdle, PoolInv
  <2>3. CASE LendFresh(t)
    BY <2>1, <2>3 DEF LendFresh, PoolInv
  <2> QED
    BY <1>9, <2>2, <2>3 DEF SendStarts
<1>10. ASSUME NEW t \in Threads, SendRefused(t) PROVE PoolInv'
  <2>1. \A u \in Threads : pc'[u] = IF u = t THEN "out" ELSE pc[u]
    BY <1>10, ReturnEffect DEF SendRefused
  <2> QED
    BY <1>10, <2>1 DEF SendRefused, PoolInv
<1>11. ASSUME NEW t \in Threads, SendFails(t) PROVE PoolInv'
  BY <1>11 DEF SendFails, GiveBack, Return, PoolInv
<1>12. ASSUME NEW t \in Threads, SendReturns(t) PROVE PoolInv'
  BY <1>12 DEF SendReturns, GiveBack, Goto, PoolInv
<1>13. ASSUME NEW t \in Threads, Read(t) PROVE PoolInv'
  BY <1>13 DEF Read, Return, PoolInv
<1>14. ASSUME NEW t \in Threads, CloseFlag(t) PROVE PoolInv'
  BY <1>14 DEF CloseFlag, Goto, Return, PoolInv
<1>15. ASSUME NEW t \in Threads, CloseTransport(t) PROVE PoolInv'
  BY <1>15 DEF CloseTransport, ClosePool, Return, PoolInv
<1>16. CASE UNCHANGED vars
  BY <1>16 DEF vars, clientVars, PoolInv
<1> QED
  BY <1>1, <1>2, <1>3, <1>4, <1>5, <1>6, <1>7, <1>8, <1>9, <1>10, <1>11, <1>12, <1>13,
     <1>14, <1>15, <1>16 DEF Next, Proceed, Terminated

(* Nobody moves or destroys an object in use. *)
LEMMA OwnerStep == IInv /\ [Next]_vars => OwnerInv'
<1> SUFFICES ASSUME IInv, [Next]_vars PROVE OwnerInv'
  OBVIOUS
<1> USE NoObjectAssumption, NoHandleAssumption
        DEF IInv, TypeOK, OwnerInv, RequestSteps, CloseSteps, poolVars
<1>1. ASSUME NEW o \in Objects, Construct(o) PROVE OwnerInv'
  BY <1>1 DEF Construct
<1>2. ASSUME NEW o \in Objects, Destroy(o) PROVE OwnerInv'
  BY <1>2 DEF Destroy, ReleaseImpl, ClosePool, InUse, UsesAny
<1>3. ASSUME NEW o \in Objects, NEW p \in Objects, MoveConstruct(p, o) PROVE OwnerInv'
  BY <1>3 DEF MoveConstruct, InUse, UsesAny
<1>4. ASSUME NEW o \in Objects, NEW p \in Objects, MoveAssign(p, o) PROVE OwnerInv'
  BY <1>4 DEF MoveAssign, ReleaseImpl, ClosePool, InUse, UsesAny
<1>5. ASSUME NEW t \in Threads, Request(t) PROVE OwnerInv'
  BY <1>5 DEF Request, Begin, Goto, UsesAny
<1>6. ASSUME NEW t \in Threads, Close(t) PROVE OwnerInv'
  BY <1>6 DEF Close, Begin, Goto, UsesAny
<1>7. ASSUME NEW t \in Threads, Enter(t) PROVE OwnerInv'
  BY <1>7 DEF Enter, Goto, Return
<1>8. ASSUME NEW t \in Threads, Normalize(t) PROVE OwnerInv'
  BY <1>8 DEF Normalize, Goto, Return
<1>9. ASSUME NEW t \in Threads, SendStarts(t) PROVE OwnerInv'
  BY <1>9 DEF SendStarts, LendIdle, LendFresh, Goto
<1>10. ASSUME NEW t \in Threads, SendRefused(t) PROVE OwnerInv'
  BY <1>10 DEF SendRefused, Return
<1>11. ASSUME NEW t \in Threads, SendFails(t) PROVE OwnerInv'
  BY <1>11 DEF SendFails, GiveBack, Return
<1>12. ASSUME NEW t \in Threads, SendReturns(t) PROVE OwnerInv'
  BY <1>12 DEF SendReturns, GiveBack, Goto
<1>13. ASSUME NEW t \in Threads, Read(t) PROVE OwnerInv'
  BY <1>13 DEF Read, Return
<1>14. ASSUME NEW t \in Threads, CloseFlag(t) PROVE OwnerInv'
  BY <1>14 DEF CloseFlag, Goto, Return
<1>15. ASSUME NEW t \in Threads, CloseTransport(t) PROVE OwnerInv'
  BY <1>15 DEF CloseTransport, ClosePool, Return
<1>16. CASE UNCHANGED vars
  BY <1>16 DEF vars, clientVars
<1> QED
  BY <1>1, <1>2, <1>3, <1>4, <1>5, <1>6, <1>7, <1>8, <1>9, <1>10, <1>11, <1>12, <1>13,
     <1>14, <1>15, <1>16 DEF Next, Proceed, Terminated

(* A late request gets nowhere: the flag stays set and the Impl away. *)
LEMMA LateStep == IInv /\ [Next]_vars => LateInv'
<1> SUFFICES ASSUME IInv, [Next]_vars PROVE LateInv'
  OBVIOUS
<1> USE NoObjectAssumption, NoHandleAssumption
        DEF IInv, TypeOK, OwnerInv, RequestSteps, CloseSteps, poolVars
<1>1. ASSUME NEW o \in Objects, Construct(o) PROVE LateInv'
  BY <1>1 DEF Construct, LateInv
<1>2. ASSUME NEW o \in Objects, Destroy(o) PROVE LateInv'
  BY <1>2 DEF Destroy, ReleaseImpl, ClosePool, InUse, UsesAny, LateInv
<1>3. ASSUME NEW o \in Objects, NEW p \in Objects, MoveConstruct(p, o) PROVE LateInv'
  BY <1>3 DEF MoveConstruct, InUse, UsesAny, LateInv
<1>4. ASSUME NEW o \in Objects, NEW p \in Objects, MoveAssign(p, o) PROVE LateInv'
  BY <1>4 DEF MoveAssign, ReleaseImpl, ClosePool, InUse, UsesAny, LateInv
<1>5. ASSUME NEW t \in Threads, Request(t) PROVE LateInv'
  BY <1>5 DEF Request, Begin, Goto, UsesAny, LateInv
<1>6. ASSUME NEW t \in Threads, Close(t) PROVE LateInv'
  BY <1>6 DEF Close, Begin, Goto, UsesAny, LateInv
<1>7. ASSUME NEW t \in Threads, Enter(t) PROVE LateInv'
  BY <1>7 DEF Enter, Goto, Return, LateInv
<1>8. ASSUME NEW t \in Threads, Normalize(t) PROVE LateInv'
  BY <1>8 DEF Normalize, Goto, Return, LateInv
<1>9. ASSUME NEW t \in Threads, SendStarts(t) PROVE LateInv'
  BY <1>9 DEF SendStarts, LendIdle, LendFresh, Goto, LateInv
<1>10. ASSUME NEW t \in Threads, SendRefused(t) PROVE LateInv'
  BY <1>10 DEF SendRefused, Return, LateInv
<1>11. ASSUME NEW t \in Threads, SendFails(t) PROVE LateInv'
  BY <1>11 DEF SendFails, GiveBack, Return, LateInv
<1>12. ASSUME NEW t \in Threads, SendReturns(t) PROVE LateInv'
  BY <1>12 DEF SendReturns, GiveBack, Goto, LateInv
<1>13. ASSUME NEW t \in Threads, Read(t) PROVE LateInv'
  BY <1>13 DEF Read, Return, LateInv
<1>14. ASSUME NEW t \in Threads, CloseFlag(t) PROVE LateInv'
  BY <1>14 DEF CloseFlag, Goto, Return, LateInv
<1>15. ASSUME NEW t \in Threads, CloseTransport(t) PROVE LateInv'
  BY <1>15 DEF CloseTransport, ClosePool, Return, LateInv
<1>16. CASE UNCHANGED vars
  BY <1>16 DEF vars, clientVars, LateInv
<1> QED
  BY <1>1, <1>2, <1>3, <1>4, <1>5, <1>6, <1>7, <1>8, <1>9, <1>10, <1>11, <1>12, <1>13,
     <1>14, <1>15, <1>16 DEF Next, Proceed, Terminated

(* A step of a call leads further into it or out of it and concerns nobody else. *)
LEMMA Onward ==
    ASSUME TypeOK, NEW t \in Threads, Proceed(t)
    PROVE  \A u \in Threads :
               /\ pc'[u] \in RequestSteps => pc[u] \in RequestSteps
               /\ pc'[u] \in CloseSteps => pc[u] \in CloseSteps
               /\ call'[u].object = call[u].object
               /\ u # t => pc'[u] = pc[u] /\ result'[u] = result[u] /\ call'[u] = call[u]
<1> USE DEF RequestSteps, CloseSteps
<1>1. CASE Enter(t)
  BY <1>1, ReturnEffect, GotoEffect DEF Enter
<1>2. CASE Normalize(t)
  BY <1>2, ReturnEffect, GotoEffect DEF Normalize
<1>3. CASE SendRefused(t)
  BY <1>3, ReturnEffect, GotoEffect DEF SendRefused
<1>4. CASE SendFails(t)
  BY <1>4, ReturnEffect, GotoEffect DEF SendFails
<1>5. CASE SendReturns(t)
  BY <1>5, ReturnEffect, GotoEffect DEF SendReturns
<1>6. CASE Read(t)
  BY <1>6, ReturnEffect, GotoEffect DEF Read
<1>7. CASE CloseFlag(t)
  BY <1>7, ReturnEffect, GotoEffect DEF CloseFlag
<1>8. CASE CloseTransport(t)
  BY <1>8, ReturnEffect, GotoEffect DEF CloseTransport
<1>9. CASE SendStarts(t)
  <2>1. Goto(t, "perform") /\ pc[t] = "send"
    BY <1>9 DEF SendStarts
  <2> QED
    BY <1>9, <2>1, GotoEffect, SentEffect
<1> QED
  BY <1>1, <1>2, <1>3, <1>4, <1>5, <1>6, <1>7, <1>8, <1>9 DEF Proceed

(* Calls begin only where no call of the other kind is under way. *)
LEMMA ApartStep == IInv /\ [Next]_vars => ApartInv'
<1> SUFFICES ASSUME IInv, [Next]_vars, NEW t \in Threads, NEW u \in Threads PROVE Apart(t, u)'
  BY DEF ApartInv
<1>2. TypeOK /\ Apart(t, u)
  BY DEF IInv, ApartInv
<1>3. ASSUME UNCHANGED <<pc, call>> PROVE Apart(t, u)'
  BY <1>2, <1>3 DEF Apart
<1>4. ASSUME NEW v \in Threads, Proceed(v) PROVE Apart(t, u)'
  BY <1>2, <1>4, Onward DEF Apart
<1>5. ASSUME NEW v \in Threads, Request(v) PROVE Apart(t, u)'
  <2>1. PICK o \in Objects, request \in Requests : Begin(v, o, request, "enter", CloseSteps)
    BY <1>5 DEF Request
  <2>2. RacingClose \/ ~UsesAny(o, CloseSteps)
    BY <2>1 DEF Begin
  <2>3. /\ \A w \in Threads : pc'[w] = IF w = v THEN "enter" ELSE pc[w]
        /\ \A w \in Threads : w # v => call'[w] = call[w]
        /\ call'[v].object = o
    BY <1>2, <2>1, BeginEffect
  <2> QED
    BY <1>2, <2>2, <2>3 DEF Apart, UsesAny, CloseSteps
<1>6. ASSUME NEW v \in Threads, Close(v) PROVE Apart(t, u)'
  <2>1. PICK o \in Objects : Begin(v, o, NoRequest, "close", RequestSteps)
    BY <1>6 DEF Close
  <2>2. RacingClose \/ ~UsesAny(o, RequestSteps)
    BY <2>1 DEF Begin
  <2>3. /\ \A w \in Threads : pc'[w] = IF w = v THEN "close" ELSE pc[w]
        /\ \A w \in Threads : w # v => call'[w] = call[w]
        /\ call'[v].object = o
    BY <1>2, <2>1, BeginEffect
  <2> QED
    BY <1>2, <2>2, <2>3 DEF Apart, UsesAny, RequestSteps
<1>7. ASSUME NEW o \in Objects, NEW p \in Objects,
             Construct(o) \/ Destroy(o) \/ MoveConstruct(p, o) \/ MoveAssign(p, o)
                \/ UNCHANGED vars
      PROVE  UNCHANGED <<pc, call>>
  BY <1>7 DEF Construct, Destroy, MoveConstruct, MoveAssign, vars, clientVars
<1> QED
  BY <1>3, <1>4, <1>5, <1>6, <1>7 DEF Next, Terminated, vars, clientVars

(* Whoever is inside was let in to an open Impl; nobody moves it away meanwhile,
   and nobody shuts it unless callers race.                                *)
LEMMA InsideStep == IInv /\ [Next]_vars => InsideInv'
<1> SUFFICES ASSUME IInv, [Next]_vars, NEW u \in Threads PROVE InsideAt(u)'
  BY DEF InsideInv
<1>1. /\ TypeOK /\ InsideAt(u)
      /\ pc[u] # "out" => call[u].object \in objects
      /\ \A t \in Threads : Apart(u, t)
  BY DEF IInv, InsideInv, OwnerInv, ApartInv
<1>2. ASSUME NEW t \in Threads, Proceed(t), UNCHANGED <<owner, shut>>,
             pc'[t] \notin Inside \/ pc[t] \in Inside
      PROVE  InsideAt(u)'
  BY <1>1, <1>2, Onward DEF InsideAt
<1>3. ASSUME NEW t \in Threads, Enter(t) PROVE InsideAt(u)'
  <2>1. Proceed(t) /\ UNCHANGED <<owner, shut, call>>
    BY <1>3 DEF Proceed, Enter
  <2>2. CASE owner = call[t].object /\ ~shut
    BY <1>1, <2>1, <2>2, Onward DEF InsideAt
  <2>3. CASE owner # call[t].object \/ shut
    <3>1. pc'[t] = "out"
      BY <1>1, <1>3, <2>3, ReturnEffect DEF Enter
    <3> QED
      BY <1>2, <2>1, <3>1 DEF Inside
  <2> QED
    BY <2>2, <2>3
<1>4. ASSUME NEW t \in Threads, CloseFlag(t) PROVE InsideAt(u)'
  <2>1. /\ pc[t] \in CloseSteps /\ owner' = owner
        /\ shut' # shut => owner = call[t].object
    BY <1>4 DEF CloseFlag, CloseSteps
  <2>2. pc'[t] \notin Inside
    BY <1>1, <1>4, ReturnEffect, GotoEffect DEF CloseFlag, Inside
  <2>3. pc[u] \in Inside => pc[u] \in RequestSteps
    BY DEF Inside, RequestSteps
  <2> QED
    BY <1>1, <1>4, <2>1, <2>2, <2>3, Onward DEF InsideAt, Apart, Proceed
<1>5. ASSUME NEW t \in Threads,
             Normalize(t) \/ SendStarts(t) \/ SendRefused(t) \/ SendFails(t) \/ SendReturns(t)
                \/ Read(t) \/ CloseTransport(t)
      PROVE  InsideAt(u)'
  <2>1. Proceed(t) /\ UNCHANGED <<owner, shut>>
    BY <1>5 DEF Proceed, Normalize, SendStarts, SendRefused, SendFails, SendReturns, Read,
                CloseTransport
  <2>2. CloseTransport(t) \/ pc[t] \in Inside
    BY <1>5 DEF Inside, Normalize, SendStarts, SendRefused, SendFails, SendReturns, Read
  <2>3. CloseTransport(t) => pc'[t] = "out"
    BY <1>1, ReturnEffect DEF CloseTransport
  <2> QED
    BY <1>2, <2>1, <2>2, <2>3 DEF Inside
<1>6. ASSUME NEW t \in Threads, NEW o, NEW request, NEW step \in {"enter", "close"}, NEW others,
             Begin(t, o, request, step, others)
      PROVE  InsideAt(u)'
  BY <1>1, <1>6, BeginEffect DEF InsideAt, Inside
<1>7. ASSUME NEW t \in Threads, Request(t) \/ Close(t) PROVE InsideAt(u)'
  BY <1>6, <1>7 DEF Request, Close
<1>8. ASSUME NEW o \in Objects, NEW p \in Objects,
             Construct(o) \/ Destroy(o) \/ MoveConstruct(p, o) \/ MoveAssign(p, o)
      PROVE  InsideAt(u)'
  <2> SUFFICES ASSUME pc[u] \in Inside PROVE UNCHANGED <<owner, pc, call, shut>>
    BY <1>1, <1>8 DEF InsideAt, Construct, Destroy, MoveConstruct, MoveAssign
  <2>1. /\ pc[u] \in RequestSteps \cup CloseSteps /\ owner = call[u].object
        /\ call[u].object \in objects /\ objects \subseteq Objects
    BY <1>1 DEF Inside, InsideAt, RequestSteps, TypeOK
  <2>2. InUse(owner) /\ impl # "unmade"
    BY <2>1 DEF InUse, UsesAny, IInv, OwnerInv
  <2> QED
    BY <1>8, <2>2 DEF Construct, Destroy, MoveConstruct, MoveAssign
<1>9. CASE UNCHANGED vars
  BY <1>1, <1>9 DEF vars, clientVars, InsideAt
<1> QED
  BY <1>3, <1>4, <1>5, <1>7, <1>8, <1>9 DEF Next, Proceed, Terminated

(* Only a request inside an open Impl could meet a closed transport. *)
LEMMA RefusedStep == IInv /\ [Next]_vars => RefusedInv'
<1> SUFFICES ASSUME IInv, [Next]_vars, NEW u \in Threads,
                    result'[u] = "transport is closed", ~RacingClose
             PROVE  FALSE
  BY DEF RefusedInv
<1>1. TypeOK /\ result[u] # "transport is closed"
  BY DEF IInv, RefusedInv
<1>2. ASSUME NEW t \in Threads, NEW r, Return(t, r), r # "transport is closed" PROVE FALSE
  BY <1>1, <1>2, ReturnEffect
<1>3. ASSUME NEW t \in Threads, SendRefused(t) PROVE FALSE
  <2>1. owner = call[t].object /\ ~shut /\ owner \in Objects
    BY <1>3 DEF SendRefused, IInv, InsideInv, InsideAt, Inside, OwnerInv, TypeOK
  <2>2. ~closed
    BY <2>1, NoObjectAssumption DEF IInv, OwnerInv
  <2> QED
    BY <1>2, <1>3, <2>2 DEF SendRefused
<1>4. ASSUME result' = result PROVE FALSE
  BY <1>1, <1>4
<1>5. ASSUME NEW t \in Threads, Proceed(t) PROVE FALSE
  BY <1>2, <1>3, <1>4, <1>5 DEF Proceed, Enter, Normalize, SendStarts, SendFails,
     SendReturns, Read,
                              CloseFlag, CloseTransport, Goto
<1>6. ASSUME NEW t \in Threads, Request(t) \/ Close(t) PROVE FALSE
  BY <1>4, <1>6 DEF Request, Close, Begin, Goto
<1>7. ASSUME NEW o \in Objects, NEW p \in Objects,
             Construct(o) \/ Destroy(o) \/ MoveConstruct(p, o) \/ MoveAssign(p, o)
      PROVE  FALSE
  BY <1>4, <1>7 DEF Construct, Destroy, MoveConstruct, MoveAssign
<1> QED
  BY <1>4, <1>5, <1>6, <1>7 DEF Next, Terminated, vars, clientVars

(* What a request had to pass it has passed, and it is sent when it performs. *)
LEMMA SentStep == IInv /\ [Next]_vars => SentInv'
<1> SUFFICES ASSUME IInv, [Next]_vars, NEW u \in Threads PROVE SentAt(u)'
  BY DEF SentInv
<1>1. TypeOK /\ SentAt(u)
  BY DEF IInv, SentInv
<1>2. credentials' = credentials
  BY DEF Next, Construct, Destroy, MoveConstruct, MoveAssign, Request, Close, Begin,
     Proceed,
         Enter, Normalize, SendStarts, SendRefused, SendFails, SendReturns, Read, CloseFlag,
         CloseTransport, Terminated, vars, clientVars
<1>3. ASSUME UNCHANGED <<pc[u], result[u], call[u]>> PROVE SentAt(u)'
  BY <1>1, <1>2, <1>3 DEF SentAt, Accepted, Credentialed
<1>4. ASSUME NEW t \in Threads, Proceed(t), t # u PROVE SentAt(u)'
  BY <1>1, <1>3, <1>4, Onward
<1>5. ASSUME Proceed(u) PROVE SentAt(u)'
  <2>a. ASSUME call' = call PROVE Accepted(u)' <=> Accepted(u)
    BY <1>2, <2>a DEF Accepted, Credentialed
  <2>b. ASSUME call' = call, NEW r, Return(u, r), pc[u] \in RequestSteps \cup CloseSteps,
               r \in {"ClientClosedError", "ValidationError", "transport is closed"}
                  => pc[u] \in {"enter", "normalize", "send"},
               r \in {"success", "ApiError", "SerializationError"} => pc[u] = "read"
        PROVE  SentAt(u)'
    <3>1. pc'[u] = "out" /\ result'[u] = r /\ call'[u] = call[u]
      BY <1>1, <2>b, ReturnEffect
    <3> QED
      BY <1>1, <2>a, <2>b, <3>1 DEF SentAt, RequestSteps
  <2>c. ASSUME call' = call, NEW step, Goto(u, step), pc[u] \in RequestSteps \cup CloseSteps,
               \/ step = "normalize" /\ pc[u] = "enter"
               \/ step = "send" /\ pc[u] = "normalize" /\ Accepted(u)
               \/ step = "read" /\ pc[u] = "perform"
               \/ step = "close_transport"
        PROVE  SentAt(u)'
    <3>1. pc'[u] = step /\ call'[u] = call[u]
      BY <1>1, <2>c, GotoEffect
    <3> QED
      BY <1>1, <2>a, <2>c, <3>1 DEF SentAt, RequestSteps
  <2>1. CASE Enter(u)
    BY <2>b, <2>c, <2>1 DEF Enter, RequestSteps
  <2>2. CASE Normalize(u)
    BY <2>b, <2>c, <2>2 DEF Normalize, Accepted, RequestSteps
  <2>3. CASE SendStarts(u)
    <3>1. pc[u] = "send" /\ pc'[u] = "perform"
      BY <1>1, <2>3, GotoEffect DEF SendStarts
    <3>2. call'[u].sent /\ call'[u].request = call[u].request
      BY <1>1, <2>3, SentEffect
    <3> QED
      BY <1>1, <1>2, <3>1, <3>2 DEF SentAt, Accepted, Credentialed, RequestSteps
  <2>4. CASE SendRefused(u)
    BY <2>b, <2>4 DEF SendRefused, RequestSteps
  <2>5. CASE SendFails(u)
    BY <2>b, <2>5 DEF SendFails, RequestSteps
  <2>6. CASE SendReturns(u)
    BY <2>c, <2>6 DEF SendReturns, RequestSteps
  <2>7. CASE Read(u)
    BY <2>b, <2>7 DEF Read, RequestSteps
  <2>8. CASE CloseFlag(u)
    BY <2>b, <2>c, <2>8 DEF CloseFlag, CloseSteps
  <2>9. CASE CloseTransport(u)
    BY <2>b, <2>9 DEF CloseTransport, CloseSteps
  <2> QED
    BY <1>5, <2>1, <2>2, <2>3, <2>4, <2>5, <2>6, <2>7, <2>8, <2>9 DEF Proceed
<1>6. ASSUME NEW t \in Threads, NEW o, NEW request, NEW step \in {"enter", "close"}, NEW others,
             Begin(t, o, request, step, others)
      PROVE  SentAt(u)'
  <2>1. u # t => UNCHANGED <<pc[u], result[u], call[u]>>
    BY <1>1, <1>6, BeginEffect
  <2>2. u = t => pc'[u] = step /\ ~call'[u].sent
    BY <1>1, <1>6, BeginEffect
  <2> QED
    BY <1>3, <2>1, <2>2 DEF SentAt, RequestSteps
<1>7. ASSUME NEW t \in Threads, Request(t) \/ Close(t) PROVE SentAt(u)'
  BY <1>6, <1>7 DEF Request, Close
<1>8. ASSUME NEW o \in Objects, NEW p \in Objects,
             Construct(o) \/ Destroy(o) \/ MoveConstruct(p, o) \/ MoveAssign(p, o)
      PROVE  SentAt(u)'
  BY <1>3, <1>8 DEF Construct, Destroy, MoveConstruct, MoveAssign
<1> QED
  BY <1>3, <1>4, <1>5, <1>7, <1>8 DEF Next, Terminated, vars, clientVars

-----------------------------------------------------------------------------
(* Nobody has called anything yet. *)
LEMMA InitIInv == Init => IInv
<1> SUFFICES ASSUME Init PROVE IInv
  OBVIOUS
<1>1. TypeOK
  <2>1. NoCall \in Calls /\ 0 \in 0 .. MaxCalls
    BY MaxCallsAssumption DEF NoCall, Calls
  <2> QED
    BY <2>1 DEF Init, PoolInit, TypeOK, Results, Calls
<1>2. PoolInv
  BY NoHandleAssumption DEF Init, PoolInit, PoolInv
<1>3. OwnerInv /\ LateInv /\ InsideInv /\ ApartInv /\ RefusedInv /\ SentInv
  BY DEF Init, PoolInit, NoCall, OwnerInv, LateInv, InsideInv, InsideAt, Inside, ApartInv,
     Apart,
         RefusedInv, SentInv, SentAt, RequestSteps, CloseSteps
<1> QED
  BY <1>1, <1>2, <1>3 DEF IInv

(* The strengthened invariant of the client holds in every state. *)
THEOREM ClientInvariance == Spec => []IInv
<1>1. IInv /\ [Next]_vars => IInv'
  BY TypeStep, PoolStep, OwnerStep, LateStep, InsideStep, ApartStep, RefusedStep, SentStep
     DEF IInv
<1> QED
  BY InitIInv, <1>1, PTL DEF Spec

(* Type correctness. *)
THEOREM ClientTypes == Spec => []TypeOK
<1>1. IInv => TypeOK
  BY DEF IInv
<1> QED
  BY ClientInvariance, <1>1, PTL

(* A request that begins after a Close has returned, or on an object that was
   moved from, is refused and never sent, however many threads close and move. *)
THEOREM LateRefused == Spec => []LateRequestsRefused
<1>1. IInv => LateRequestsRefused
  BY DEF IInv, LateInv, LateRequestsRefused
<1> QED
  BY ClientInvariance, <1>1, PTL

(* A closed or destroyed client on which no call runs has no handle left. *)
THEOREM NothingHeld == Spec => []ClosedClientHoldsNothing
<1>1. IInv => ClosedClientHoldsNothing
  <2> SUFFICES ASSUME IInv, shut \/ impl = "dead", \A t \in Threads : pc[t] = "out"
               PROVE  closed /\ live = {}
    BY DEF ClosedClientHoldsNothing
  <2>1. closed /\ idle = {}
    BY DEF IInv, OwnerInv, PoolInv
  <2>2. \A h \in Handles : \A t \in Threads : lent[t] # h
    BY NoHandleAssumption DEF IInv, PoolInv
  <2> QED
    BY <2>1, <2>2 DEF IInv, PoolInv, TypeOK
<1> QED
  BY ClientInvariance, <1>1, PTL

(* Only callers that race with Close ever meet the transport's closed state. *)
THEOREM RacersOnly == Spec => []ClosedTransportSeenByRacersOnly
<1>1. IInv => ClosedTransportSeenByRacersOnly
  BY DEF IInv, RefusedInv, ClosedTransportSeenByRacersOnly
<1> QED
  BY ClientInvariance, <1>1, PTL

(* What is refused was not sent, and what was answered had all it takes. *)
THEOREM RefusedUnsent == Spec => []RefusedBeforeSending
<1>1. IInv => RefusedBeforeSending
  BY DEF IInv, SentInv, SentAt, Accepted, Credentialed, Supported, RefusedBeforeSending
<1> QED
  BY ClientInvariance, <1>1, PTL
=============================================================================
