------------------------------ MODULE CurlGlobal ------------------------------
(***************************************************************************)
(* The process-wide state of libcurl (EnsureCurlGlobalState and the        *)
(* constructor of CurlHttpTransport, src/src/curl_http_transport.cpp):     *)
(* threads construct clients concurrently, std::call_once lets one of them *)
(* initialise libcurl and register its cleanup with std::atexit, and at    *)
(* exit the registered functions and the destructors of static clients run *)
(* in the reverse order of their registration.                             *)
(***************************************************************************)
EXTENDS Naturals, Sequences, SequencesExt

CONSTANTS
    Threads,
    Clients,      \* clients the program constructs
    NoClient,     \* what a thread constructs when it constructs nothing
    Static,       \* those with static storage duration
    Cleanup,      \* CleanupCurlGlobalState, on the exit stack
    MaxFailures   \* bound: failures of curl_global_init

ASSUME StaticAssumption == Static \subseteq Clients
ASSUME CleanupAssumption == Cleanup \notin Clients
ASSUME NoClientAssumption == NoClient \notin Clients
ASSUME MaxFailuresAssumption == MaxFailures \in Nat

VARIABLES
    once,         \* g_curl_global_init_once: fresh, running or done
    inits,        \* successful curl_global_init not undone by a cleanup
    pc,           \* where each constructor is
    building,     \* building[t]: the client thread t constructs
    unbuilt,      \* clients not constructed yet
    transports,   \* clients whose transport exists
    atExit,       \* what runs at exit, the last entry first
    exiting,      \* the program has called exit
    failures      \* failed initialisations so far

processVars == <<once, inits, pc, building, unbuilt, transports, atExit, exiting, failures>>

ProcessInit ==
    /\ once = "fresh"
    /\ inits = 0
    /\ pc = [t \in Threads |-> "out"]
    /\ building = [t \in Threads |-> NoClient]
    /\ unbuilt = Clients
    /\ transports = {}
    /\ atExit = << >>
    /\ exiting = FALSE
    /\ failures = 0

Goto(t, step) == pc' = [pc EXCEPT ![t] = step]

(* The constructor of the transport reaches call_once. *)
Construct(t, c) ==
    /\ ~exiting
    /\ pc[t] = "out"
    /\ c \in unbuilt
    /\ unbuilt' = unbuilt \ {c}
    /\ building' = [building EXCEPT ![t] = c]
    /\ Goto(t, "call_once")
    /\ UNCHANGED <<once, inits, transports, atExit, exiting, failures>>

(* Mutant: a plain flag instead of call_once, read and set in two steps. *)
OnceEnterUnguarded(t) ==
    /\ pc[t] = "call_once"
    /\ once # "done"
    /\ once' = "running"
    /\ Goto(t, "global_init")
    /\ UNCHANGED <<inits, building, unbuilt, transports, atExit, exiting, failures>>

(* call_once runs the function in one thread; others wait while it runs. *)
OnceEnter(t) ==
    /\ pc[t] = "call_once"
    /\ once = "fresh"
    /\ once' = "running"
    /\ Goto(t, "global_init")
    /\ UNCHANGED <<inits, building, unbuilt, transports, atExit, exiting, failures>>

(* Mutant: a constructor polls the flag and misses that it is set. *)
OncePassPolls(t) ==
    /\ pc[t] = "call_once"
    /\ once = "done"
    /\ failures' = (failures + 1) % (MaxFailures + 1)
    /\ UNCHANGED <<once, inits, pc, building, unbuilt, transports, atExit, exiting>>

OncePass(t) ==
    /\ pc[t] = "call_once"
    /\ once = "done"
    /\ Goto(t, "reserve")
    /\ UNCHANGED <<once, inits, building, unbuilt, transports, atExit, exiting, failures>>

(* curl_global_init fails: the exception leaves the flag as it was, so that a
   waiting or a later constructor tries again, and this one throws.        *)
GlobalInitFails(t) ==
    /\ pc[t] = "global_init"
    /\ failures < MaxFailures
    /\ failures' = failures + 1
    /\ once' = "fresh"
    /\ unbuilt' = unbuilt \cup {building[t]}
    /\ building' = [building EXCEPT ![t] = NoClient]
    /\ Goto(t, "out")
    /\ UNCHANGED <<inits, transports, atExit, exiting>>

GlobalInit(t) ==
    /\ pc[t] = "global_init"
    /\ inits' = inits + 1
    /\ Goto(t, "atexit")
    /\ UNCHANGED <<once, building, unbuilt, transports, atExit, exiting, failures>>

(* std::atexit; when it cannot register, its result is ignored. *)
RegisterCleanup(t) ==
    /\ pc[t] = "atexit"
    /\ atExit' \in {Append(atExit, Cleanup), atExit}
    /\ once' = "done"
    /\ Goto(t, "reserve")
    /\ UNCHANGED <<inits, building, unbuilt, transports, exiting, failures>>

(* Mutant: a static client is registered ahead of the cleanup. *)
ConstructedRegistersFirst(t) ==
    /\ pc[t] = "reserve"
    /\ transports' = transports \cup {building[t]}
    /\ atExit' = IF building[t] \in Static THEN <<building[t]>> \o atExit ELSE atExit
    /\ building' = [building EXCEPT ![t] = NoClient]
    /\ Goto(t, "out")
    /\ UNCHANGED <<once, inits, unbuilt, exiting, failures>>

(* The constructor ends; the destructor of a static client is registered
   only now.                                                               *)
Constructed(t) ==
    /\ pc[t] = "reserve"
    /\ transports' = transports \cup {building[t]}
    /\ atExit' = IF building[t] \in Static THEN Append(atExit, building[t]) ELSE atExit
    /\ building' = [building EXCEPT ![t] = NoClient]
    /\ Goto(t, "out")
    /\ UNCHANGED <<once, inits, unbuilt, exiting, failures>>

(* A client that is not static is destroyed when its owner lets it go. *)
Destroy(c) ==
    /\ ~exiting
    /\ c \in transports \ Static
    /\ transports' = transports \ {c}
    /\ UNCHANGED <<once, inits, pc, building, unbuilt, atExit, exiting, failures>>

(* The program calls exit once its threads are done with the SDK. *)
Exit ==
    /\ ~exiting
    /\ \A t \in Threads : pc[t] = "out"
    /\ transports \subseteq Static
    /\ exiting' = TRUE
    /\ UNCHANGED <<once, inits, pc, building, unbuilt, transports, atExit, failures>>

RunAtExit ==
    /\ exiting
    /\ atExit # << >>
    /\ atExit' = Front(atExit)
    /\ IF Last(atExit) = Cleanup
         THEN inits' = inits - 1 /\ UNCHANGED transports
         ELSE transports' = transports \ {Last(atExit)} /\ UNCHANGED inits
    /\ UNCHANGED <<once, pc, building, unbuilt, exiting, failures>>

ProcessTerminated ==
    /\ exiting /\ atExit = << >>
    /\ UNCHANGED processVars

Proceed(t) ==
    \/ OnceEnter(t)
    \/ OncePass(t)
    \/ GlobalInitFails(t)
    \/ GlobalInit(t)
    \/ RegisterCleanup(t)
    \/ Constructed(t)

ProcessNext ==
    \/ \E t \in Threads : Proceed(t) \/ \E c \in Clients : Construct(t, c)
    \/ \E c \in Clients : Destroy(c)
    \/ Exit
    \/ RunAtExit
    \/ ProcessTerminated

ProcessSpec == ProcessInit /\ [][ProcessNext]_processVars
FairProcessSpec == ProcessSpec /\ (\A t \in Threads : WF_processVars(Proceed(t))) /\ WF_processVars(RunAtExit)

-----------------------------------------------------------------------------
ProcessTypeOK ==
    /\ once \in {"fresh", "running", "done"}
    /\ inits \in Nat
    /\ pc \in [Threads -> {"out", "call_once", "global_init", "atexit", "reserve"}]
    /\ building \in [Threads -> Clients \cup {NoClient}]
    /\ unbuilt \subseteq Clients
    /\ transports \subseteq Clients
    /\ atExit \in Seq(Clients \cup {Cleanup})
    /\ exiting \in BOOLEAN
    /\ failures \in 0 .. MaxFailures

(* Whoever wins the race of the constructors, and however often it has to be
   retried, libcurl is initialised at most once, and so is its cleanup
   registered: if atexit accepts it, libcurl is cleaned up once for one
   initialisation.  (The code does not look at what atexit returns.)       *)
InitialisedOnce ==
    /\ inits <= 1
    /\ \A i \in DOMAIN atExit : atExit[i] = Cleanup =>
           inits = 1 /\ \A j \in DOMAIN atExit : atExit[j] = Cleanup => j = i

(* A transport exists only while libcurl is set up: its constructor waited for
   the initialisation, and at exit a static client is destroyed, and its
   handles with it, before curl_global_cleanup runs.                       *)
CleanupComesLast == transports # {} => inits = 1

(* No constructor waits for ever, even when the one it waits for fails. *)
ConstructorsReturn == \A t \in Threads : pc[t] # "out" ~> pc[t] = "out"
=============================================================================
