------------------------------ MODULE SdkClient ------------------------------
(***************************************************************************)
(* IpGeolocationClient (src/src/client.cpp, src/src/client_impl.hpp) on    *)
(* top of the pool its transport implements: threads look up addresses     *)
(* through client objects, close them, move the one Impl between them and  *)
(* destroy them.                                                           *)
(*                                                                         *)
(* The four request methods share their steps and differ in the flags of   *)
(* the request: bulk or single, typed or raw.  The atomic flag             *)
(* Impl::closed is read once, before anything else, so everything that     *)
(* follows works with what may have become stale.                          *)
(***************************************************************************)
EXTENDS HandlePool

CONSTANTS
    Objects,      \* client objects of the program
    NoObject,     \* the owner of the Impl when there is none
    Requests,     \* what callers ask: records of bulk, typed, xml, valid
    Configs,      \* the credentials a client may be configured with
    RacingClose,  \* TRUE when callers close a client that is in use
    MaxCalls      \* bound: calls one thread makes

ASSUME NoObjectAssumption == NoObject \notin Objects
ASSUME RequestsAssumption ==
    Requests \subseteq [bulk : BOOLEAN, typed : BOOLEAN, xml : BOOLEAN, valid : BOOLEAN]
ASSUME ConfigsAssumption == Configs \subseteq SUBSET {"apiKey", "requestOrigin"}
ASSUME RacingAssumption == RacingClose \in BOOLEAN
ASSUME MaxCallsAssumption == MaxCalls \in Nat

VARIABLES
    credentials,  \* which of apiKey and requestOrigin the config has
    impl,         \* the Impl: unmade, alive or dead
    objects,      \* client objects that exist
    owner,        \* the object whose impl_ is not null
    shut,         \* Impl::closed
    closeDone,    \* history: some Close of the Impl has returned
    pc,           \* where each thread is
    call,         \* call[t]: its object, its request, and
                  \*   late  it began after a Close had returned, or on
                  \*         an object that was moved from
                  \*   sent  it got as far as the network
    result,       \* what the last call of each thread ended with
    calls         \* calls made so far

clientVars == <<credentials, impl, objects, owner, shut, closeDone, pc, call, result, calls>>
vars == <<poolVars, clientVars>>

NoRequest == [bulk |-> FALSE, typed |-> FALSE, xml |-> FALSE, valid |-> FALSE]
NoCall == [object |-> NoObject, request |-> NoRequest, late |-> FALSE, sent |-> FALSE]

RequestSteps == {"enter", "normalize", "send", "perform", "read"}
CloseSteps == {"close", "close_transport"}

UsesAny(o, steps) == \E t \in Threads : pc[t] \in steps /\ call[t].object = o
InUse(o) == UsesAny(o, RequestSteps \cup CloseSteps)

(* Mutant: a request origin is enough for a bulk lookup. *)
CredentialedByOrigin(request) == credentials # {}

(* Requires an apiKey, or for a single lookup a requestOrigin. *)
Credentialed(request) ==
    "apiKey" \in credentials \/ (~request.bulk /\ "requestOrigin" \in credentials)

(* The typed methods support JSON only. *)
Supported(request) == ~(request.typed /\ request.xml)

Return(t, r) ==
    /\ pc' = [pc EXCEPT ![t] = "out"]
    /\ result' = [result EXCEPT ![t] = r]
Goto(t, step) ==
    /\ pc' = [pc EXCEPT ![t] = step]
    /\ UNCHANGED result

-----------------------------------------------------------------------------
Init ==
    /\ PoolInit
    /\ credentials \in Configs
    /\ impl = "unmade"
    /\ objects = {}
    /\ owner = NoObject
    /\ shut = FALSE
    /\ closeDone = FALSE
    /\ pc = [t \in Threads |-> "out"]
    /\ call = [t \in Threads |-> NoCall]
    /\ result = [t \in Threads |-> "none"]
    /\ calls = [t \in Threads |-> 0]

(* The constructor; one that throws leaves nothing behind. *)
Construct(o) ==
    /\ impl = "unmade"
    /\ impl' = "alive"
    /\ objects' = objects \cup {o}
    /\ owner' = o
    /\ UNCHANGED <<poolVars, credentials, shut, closeDone, pc, call, result, calls>>

(* impl_ is released: its transport is destroyed, which closes the pool. *)
ReleaseImpl == impl' = "dead" /\ owner' = NoObject /\ ClosePool

(* Client p is move-constructed from o. *)
MoveConstruct(p, o) ==
    /\ o \in objects /\ p \notin objects
    /\ ~InUse(o)
    /\ objects' = objects \cup {p}
    /\ owner' = IF owner = o THEN p ELSE owner
    /\ UNCHANGED <<poolVars, credentials, impl, shut, closeDone, pc, call, result, calls>>

(* o is move-assigned to p, which lets its own Impl go. *)
MoveAssign(p, o) ==
    /\ {o, p} \subseteq objects /\ o # p
    /\ ~InUse(o) /\ ~InUse(p)
    /\ CASE owner = p -> ReleaseImpl
         [] owner = o -> owner' = p /\ UNCHANGED <<impl, poolVars>>
         [] OTHER -> UNCHANGED <<owner, impl, poolVars>>
    /\ UNCHANGED <<credentials, objects, shut, closeDone, pc, call, result, calls>>

(* The destructor.  As everywhere in C++, nobody still uses the object. *)
Destroy(o) ==
    /\ o \in objects
    /\ ~InUse(o)
    /\ objects' = objects \ {o}
    /\ IF owner = o THEN ReleaseImpl ELSE UNCHANGED <<owner, impl, poolVars>>
    /\ UNCHANGED <<credentials, shut, closeDone, pc, call, result, calls>>

(* A thread calls a method.  Unless callers race, a client is closed only when
   no request is in progress on it, and not asked anything meanwhile.      *)
Begin(t, o, request, step, others) ==
    /\ pc[t] = "out"
    /\ calls[t] < MaxCalls
    /\ o \in objects
    /\ RacingClose \/ ~UsesAny(o, others)
    /\ calls' = [calls EXCEPT ![t] = @ + 1]
    /\ call' = [call EXCEPT ![t] = [object |-> o, request |-> request,
                                    late |-> closeDone \/ owner # o, sent |-> FALSE]]
    /\ Goto(t, step)
    /\ UNCHANGED <<poolVars, credentials, impl, objects, owner, shut, closeDone>>

Request(t) ==
    \E o \in Objects, request \in Requests : Begin(t, o, request, "enter", CloseSteps)
Close(t) ==
    \E o \in Objects : Begin(t, o, NoRequest, "close", RequestSteps)

(* Mutant: the flag is not read. *)
EnterUnchecked(t) ==
    /\ pc[t] = "enter"
    /\ IF owner # call[t].object
         THEN Return(t, "ClientClosedError")
         ELSE Goto(t, "normalize")
    /\ UNCHANGED <<poolVars, credentials, impl, objects, owner, shut, closeDone, call, calls>>

(* A moved-from client, or one whose flag is set, refuses; the flag is not
   looked at again.                                                        *)
Enter(t) ==
    /\ pc[t] = "enter"
    /\ IF owner # call[t].object \/ shut
         THEN Return(t, "ClientClosedError")
         ELSE Goto(t, "normalize")
    /\ UNCHANGED <<poolVars, credentials, impl, objects, owner, shut, closeDone, call, calls>>

(* Credentials, request values and output format, in this order. *)
Normalize(t) ==
    /\ pc[t] = "normalize"
    /\ LET request == call[t].request
       IN  IF Credentialed(request) /\ request.valid /\ Supported(request)
             THEN Goto(t, "send")
             ELSE Return(t, "ValidationError")
    /\ UNCHANGED <<poolVars, credentials, impl, objects, owner, shut, closeDone, call, calls>>

(* Send borrows a handle of the transport ... *)
SendStarts(t) ==
    /\ pc[t] = "send"
    /\ LendIdle(t) \/ LendFresh(t)
    /\ call' = [call EXCEPT ![t].sent = TRUE]
    /\ Goto(t, "perform")
    /\ UNCHANGED <<credentials, impl, objects, owner, shut, closeDone, calls>>

(* ... or throws: the transport is closed, or libcurl has no handle. *)
SendRefused(t) ==
    /\ pc[t] = "send"
    /\ \/ closed /\ Return(t, "transport is closed")
       \/ ~closed /\ idle = {} /\ Return(t, "TransportError")
    /\ UNCHANGED <<poolVars, credentials, impl, objects, owner, shut, closeDone, call, calls>>

(* The exchange fails: Send throws, after giving the handle back. *)
SendFails(t) ==
    /\ pc[t] = "perform"
    /\ GiveBack(t)
    /\ \E r \in {"TransportError", "RequestTimeoutError"} : Return(t, r)
    /\ UNCHANGED <<credentials, impl, objects, owner, shut, closeDone, call, calls>>

SendReturns(t) ==
    /\ pc[t] = "perform"
    /\ GiveBack(t)
    /\ Goto(t, "read")
    /\ UNCHANGED <<credentials, impl, objects, owner, shut, closeDone, call, calls>>

(* The status is judged and a typed method parses the body; the error text is
   redacted with the config of an Impl that must still be there.           *)
Read(t) ==
    /\ pc[t] = "read"
    /\ \E r \in {"success", "ApiError"} \cup
               (IF call[t].request.typed THEN {"SerializationError"} ELSE {}) :
        Return(t, r)
    /\ UNCHANGED <<poolVars, credentials, impl, objects, owner, shut, closeDone, call, calls>>

(* Mutant: Close sets the flag and leaves the transport alone. *)
CloseFlagOnly(t) ==
    /\ pc[t] = "close"
    /\ shut' = (shut \/ owner = call[t].object)
    /\ closeDone' = (closeDone \/ owner = call[t].object)
    /\ Return(t, "closed")
    /\ UNCHANGED <<poolVars, credentials, impl, objects, owner, call, calls>>

(* closed.exchange(true): the first Close goes on to the transport. *)
CloseFlag(t) ==
    /\ pc[t] = "close"
    /\ IF owner # call[t].object \/ shut
         THEN /\ Return(t, "closed")
              /\ closeDone' = (closeDone \/ owner = call[t].object)
              /\ UNCHANGED shut
         ELSE /\ shut' = TRUE
              /\ Goto(t, "close_transport")
              /\ UNCHANGED closeDone
    /\ UNCHANGED <<poolVars, credentials, impl, objects, owner, call, calls>>

CloseTransport(t) ==
    /\ pc[t] = "close_transport"
    /\ ClosePool
    /\ closeDone' = TRUE
    /\ Return(t, "closed")
    /\ UNCHANGED <<credentials, impl, objects, owner, shut, call, calls>>

(* The program has let go of every client. *)
Terminated ==
    /\ impl = "dead" /\ objects = {}
    /\ UNCHANGED vars

Proceed(t) ==
    \/ Enter(t)
    \/ Normalize(t)
    \/ SendStarts(t)
    \/ SendRefused(t)
    \/ SendFails(t)
    \/ SendReturns(t)
    \/ Read(t)
    \/ CloseFlag(t)
    \/ CloseTransport(t)

Next ==
    \/ \E o \in Objects : Construct(o) \/ Destroy(o)
    \/ \E o, p \in Objects : MoveConstruct(p, o) \/ MoveAssign(p, o)
    \/ \E t \in Threads : Request(t) \/ Close(t) \/ Proceed(t)
    \/ Terminated

Spec == Init /\ [][Next]_vars

(* A call that has begun keeps running; a transfer ends by its timeout. *)
FairSpec == Spec /\ \A t \in Threads : WF_vars(Proceed(t))

-----------------------------------------------------------------------------
Results == {"none", "success", "closed", "ClientClosedError", "ValidationError",
            "transport is closed", "TransportError", "RequestTimeoutError",
            "ApiError", "SerializationError"}

TypeOK ==
    /\ idle \subseteq Handles
    /\ lent \in [Threads -> Handles \cup {NoHandle}]
    /\ live \subseteq Handles
    /\ closed \in BOOLEAN
    /\ credentials \in Configs
    /\ impl \in {"unmade", "alive", "dead"}
    /\ objects \subseteq Objects
    /\ owner \in objects \cup {NoObject}
    /\ shut \in BOOLEAN
    /\ closeDone \in BOOLEAN
    /\ pc \in [Threads -> {"out"} \cup RequestSteps \cup CloseSteps]
    /\ call \in [Threads -> [object : Objects \cup {NoObject},
                             request : Requests \cup {NoRequest},
                             late : BOOLEAN, sent : BOOLEAN]]
    /\ result \in [Threads -> Results]
    /\ calls \in [Threads -> 0 .. MaxCalls]

(* "ClientClosedError: method called after Close()": a request that begins
   after any Close of that client has returned, be it the Close that lost the
   race for the flag, or that finds the client moved from, is refused and
   never gets near the network.                                            *)
LateRequestsRefused ==
    \A t \in Threads : call[t].late /\ call[t].request # NoRequest =>
        /\ pc[t] \in {"enter", "out"}
        /\ pc[t] = "out" => result[t] = "ClientClosedError"

(* Callers that keep the rule "call it only when no other thread is actively
   issuing requests" never see the transport's own closed state.           *)
ClosedTransportSeenByRacersOnly ==
    \A t \in Threads : result[t] = "transport is closed" => RacingClose

(* "Request values are validated before each request is sent": a call that is
   refused for its values or for the client's state has not been sent, and a
   call that was answered had all it takes.                                *)
RefusedBeforeSending ==
    \A t \in Threads : pc[t] = "out" =>
        /\ result[t] \in {"ClientClosedError", "ValidationError", "transport is closed"}
              => ~call[t].sent
        /\ result[t] \in {"success", "ApiError", "SerializationError"}
              => /\ call[t].sent
                 /\ call[t].request.bulk => "apiKey" \in credentials
                 /\ credentials # {}
                 /\ ~(call[t].request.typed /\ call[t].request.xml)

(* A client that is closed or destroyed holds nothing once the calls on it
   have returned, wherever its Impl was moved and whoever closed it.       *)
ClosedClientHoldsNothing ==
    (shut \/ impl = "dead") /\ (\A t \in Threads : pc[t] = "out") =>
        closed /\ live = {}

(* Setting the flag leads to a closed, and in the end empty, transport. *)
ClosingCompletes == shut ~> closed /\ live = {}
=============================================================================
