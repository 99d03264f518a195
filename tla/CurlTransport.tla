---------------------------- MODULE CurlTransport ----------------------------
(***************************************************************************)
(* CurlHttpTransport (src/src/curl_http_transport.cpp): threads that share *)
(* one transport call Send and Close; every Send borrows an easy handle    *)
(* from a bounded LIFO pool guarded by handles_mutex_, performs one        *)
(* transfer with it outside the lock, and gives it back when the           *)
(* HandleReturn guard of its frame is destroyed.  Each step below is one   *)
(* access to the shared state, so that the mutex, and not the model, is    *)
(* what makes the operations atomic.                                       *)
(*                                                                         *)
(* What a transfer answers is the subject of Transfer; here only the       *)
(* ownership of the handles, and of the stack frames their options point   *)
(* into, matters.                                                          *)
(***************************************************************************)
EXTENDS Naturals, FiniteSets, Sequences, SequencesExt

CONSTANTS
    Threads,      \* threads that share the transport
    Handles,      \* addresses curl_easy_init may return
    NoHandle,     \* nullptr, as a handle
    NoThread,     \* holder of the mutex when it is free
    NoFrame,      \* an option that points to nothing
    DeadFrame,    \* an option that points into a frame that is gone
    MaxIdle,      \* kMaxIdleHandles
    MaxCalls      \* bound: calls of Send and Close one thread makes

ASSUME ThreadsAssumption == IsFiniteSet(Threads)
ASSUME NoHandleAssumption == NoHandle \notin Handles
ASSUME NoThreadAssumption == NoThread \notin Threads
ASSUME FrameAssumption ==
    /\ NoFrame \notin Threads
    /\ DeadFrame \notin Threads
    /\ NoFrame # DeadFrame
ASSUME MaxIdleAssumption == MaxIdle \in Nat \ {0}
ASSUME MaxCallsAssumption == MaxCalls \in Nat

VARIABLES
    mutex,        \* the thread that holds handles_mutex_, or NoThread
    idle,         \* idle_handles_, used as a stack
    closed,       \* closed_
    live,         \* handles libcurl has allocated and not cleaned up
    options,      \* options[h][o]: the frame option o of handle h points into
    pc,           \* where each thread is
    handle,       \* the local variable `handle' of Send
    swept,        \* handles the loop of Close has cleaned up so far
    calls,        \* calls made so far
    object        \* the transport object: alive, in its destructor, or gone

vars == <<mutex, idle, closed, live, options, pc, handle, swept, calls, object>>

-----------------------------------------------------------------------------
(* Options that hold a pointer the caller of libcurl must keep valid: the
   two sinks and the header list are set by every Send, the request body by
   a POST only.  (libcurl copies the URL.)                                 *)
Option == {"sinks", "body"}

(* The steps of Send, Close and the destructor.  The steps that end in
   "_wait" come before a lock is taken, the others of the same operation
   hold it.                                                                *)
AcquireSteps == {"acq_wait", "acq_body", "acq_pop"}
SendSteps    == {"setup", "perform"}
ReleaseSteps == {"rel_wait", "rel_body"}
CloseSteps   == {"close_wait", "close_loop", "close_clear"}
Step == {"out"} \cup AcquireSteps \cup SendSteps \cup ReleaseSteps \cup CloseSteps

Critical == {"acq_body", "acq_pop", "rel_body", "close_loop", "close_clear"}
Borrowing == SendSteps \cup ReleaseSteps

Pooled == ToSet(idle)

Goto(t, step) == pc' = [pc EXCEPT ![t] = step]
Unlock == mutex' = NoThread

(* Mutant: the handle is not reset before it is used again. *)
EasyResetSkipped(opts) == opts

(* curl_easy_reset: every option returns to its default. *)
EasyReset(opts) == [o \in Option |-> NoFrame]

(* The setopt calls of one Send: the body is set for a POST only. *)
SetOptions(opts, t, method) ==
    [o \in Option |->
        IF o = "sinks" \/ method = "POST" THEN t ELSE opts[o]]

(* The locals of Send are destroyed before the HandleReturn guard, which is
   declared first: whatever still points into the frame now dangles.       *)
FrameDies(opts, t) ==
    [o \in Option |-> IF opts[o] = t THEN DeadFrame ELSE opts[o]]

(* Mutant: the pool takes one handle more than was reserved. *)
DiscardsTooLate(isClosed, size) == isClosed \/ size > MaxIdle

(* Mutant: a handle is given back to a closed pool. *)
DiscardsWhenFullOnly(isClosed, size) == size >= MaxIdle

(* The test of ReleaseHandle: a handle that comes back is not kept. *)
Discards(isClosed, size) == isClosed \/ size >= MaxIdle

-----------------------------------------------------------------------------
Init ==
    /\ mutex = NoThread
    /\ idle = << >>
    /\ closed = FALSE
    /\ live = {}
    /\ options = [h \in Handles |-> [o \in Option |-> NoFrame]]
    /\ pc = [t \in Threads |-> "out"]
    /\ handle = [t \in Threads |-> NoHandle]
    /\ swept = 0
    /\ calls = [t \in Threads |-> 0]
    /\ object = "alive"

(* A caller enters Send or Close; the object lives while it may be called. *)
Call(t, step) ==
    /\ object = "alive"
    /\ pc[t] = "out"
    /\ calls[t] < MaxCalls
    /\ calls' = [calls EXCEPT ![t] = @ + 1]
    /\ Goto(t, step)
    /\ UNCHANGED <<mutex, idle, closed, live, options, handle, swept, object>>

SendCall(t) == Call(t, "acq_wait")
CloseCall(t) == Call(t, "close_wait")

(* Mutant: the operations take no lock. *)
LockMissing(t, from, to) ==
    /\ pc[t] = from
    /\ mutex' = t
    /\ Goto(t, to)

(* lock_guard<mutex>: from a waiting step to the body it protects. *)
Lock(t, from, to) ==
    /\ pc[t] = from
    /\ mutex = NoThread
    /\ mutex' = t
    /\ Goto(t, to)

AcquireLock(t) ==
    /\ Lock(t, "acq_wait", "acq_body")
    /\ UNCHANGED <<idle, closed, live, options, handle, swept, calls, object>>

(* AcquireHandle throws: the transport is closed. *)
AcquireRefused(t) ==
    /\ pc[t] = "acq_body"
    /\ closed
    /\ Unlock
    /\ Goto(t, "out")
    /\ UNCHANGED <<idle, closed, live, options, handle, swept, calls, object>>

(* handle = idle_handles_.back() ... *)
AcquireBack(t) ==
    /\ pc[t] = "acq_body"
    /\ ~closed
    /\ idle # << >>
    /\ handle' = [handle EXCEPT ![t] = Last(idle)]
    /\ Goto(t, "acq_pop")
    /\ UNCHANGED <<mutex, idle, closed, live, options, swept, calls, object>>

(* ... and idle_handles_.pop_back(). *)
AcquirePop(t) ==
    /\ pc[t] = "acq_pop"
    /\ idle' = Front(idle)
    /\ Unlock
    /\ Goto(t, "setup")
    /\ UNCHANGED <<closed, live, options, handle, swept, calls, object>>

(* Mutant: a handle is allocated although one waits in the pool. *)
AcquireFreshAlways(t) ==
    /\ pc[t] = "acq_body"
    /\ ~closed
    /\ \E h \in Handles \ live :
        /\ live' = live \cup {h}
        /\ handle' = [handle EXCEPT ![t] = h]
        /\ options' = [options EXCEPT ![h] = [o \in Option |-> NoFrame]]
    /\ Unlock
    /\ Goto(t, "setup")
    /\ UNCHANGED <<idle, closed, swept, calls, object>>

(* curl_easy_init gives a handle that is not in use, with default options. *)
AcquireFresh(t) ==
    /\ pc[t] = "acq_body"
    /\ ~closed
    /\ idle = << >>
    /\ \E h \in Handles \ live :
        /\ live' = live \cup {h}
        /\ handle' = [handle EXCEPT ![t] = h]
        /\ options' = [options EXCEPT ![h] = [o \in Option |-> NoFrame]]
    /\ Unlock
    /\ Goto(t, "setup")
    /\ UNCHANGED <<idle, closed, swept, calls, object>>

(* curl_easy_init returns nullptr: AcquireHandle throws. *)
AcquireFails(t) ==
    /\ pc[t] = "acq_body"
    /\ ~closed
    /\ idle = << >>
    /\ Unlock
    /\ Goto(t, "out")
    /\ UNCHANGED <<idle, closed, live, options, handle, swept, calls, object>>

(* curl_easy_reset and all the setopt calls succeed. *)
SetUp(t) ==
    /\ pc[t] = "setup"
    /\ \E method \in {"GET", "POST"} :
        options' = [options EXCEPT
            ![handle[t]] = SetOptions(EasyReset(@), t, method)]
    /\ Goto(t, "perform")
    /\ UNCHANGED <<mutex, idle, closed, live, handle, swept, calls, object>>

(* A header cannot be appended, or a setopt call fails, after some of the
   options were set: Send throws and its frame dies.                       *)
SetUpFails(t) ==
    /\ pc[t] = "setup"
    /\ \E reached \in {EasyReset(options[handle[t]]),
                       SetOptions(EasyReset(options[handle[t]]), t, "GET"),
                       SetOptions(EasyReset(options[handle[t]]), t, "POST")} :
        options' = [options EXCEPT ![handle[t]] = FrameDies(reached, t)]
    /\ Goto(t, "rel_wait")
    /\ UNCHANGED <<mutex, idle, closed, live, handle, swept, calls, object>>

(* curl_easy_perform returns, whatever the result; Send returns or throws. *)
Perform(t) ==
    /\ pc[t] = "perform"
    /\ options' = [options EXCEPT ![handle[t]] = FrameDies(@, t)]
    /\ Goto(t, "rel_wait")
    /\ UNCHANGED <<mutex, idle, closed, live, handle, swept, calls, object>>

ReleaseLock(t) ==
    /\ Lock(t, "rel_wait", "rel_body")
    /\ UNCHANGED <<idle, closed, live, options, handle, swept, calls, object>>

(* Mutant: a handle that is not kept is not cleaned up either. *)
ReleaseHandleLeaks(t) ==
    /\ pc[t] = "rel_body"
    /\ idle' = IF Discards(closed, Len(idle)) THEN idle ELSE Append(idle, handle[t])
    /\ handle' = [handle EXCEPT ![t] = NoHandle]
    /\ Unlock
    /\ Goto(t, "out")
    /\ UNCHANGED <<closed, live, options, swept, calls, object>>

(* ReleaseHandle, called by the destructor of HandleReturn. *)
ReleaseHandle(t) ==
    /\ pc[t] = "rel_body"
    /\ IF Discards(closed, Len(idle))
         THEN live' = live \ {handle[t]} /\ UNCHANGED idle
         ELSE idle' = Append(idle, handle[t]) /\ UNCHANGED live
    /\ handle' = [handle EXCEPT ![t] = NoHandle]
    /\ Unlock
    /\ Goto(t, "out")
    /\ UNCHANGED <<closed, options, swept, calls, object>>

(* Close takes the lock and sets closed_ ... *)
CloseLock(t) ==
    /\ Lock(t, "close_wait", "close_loop")
    /\ closed' = TRUE
    /\ swept' = 0
    /\ UNCHANGED <<idle, live, options, handle, calls, object>>

(* Mutant: the loop of Close does not advance. *)
CloseFreeInPlace(t) ==
    /\ pc[t] = "close_loop"
    /\ swept < Len(idle)
    /\ live' = live \ {idle[swept + 1]}
    /\ UNCHANGED <<mutex, idle, closed, options, pc, handle, swept, calls, object>>

(* ... cleans up the idle handles one by one ... *)
CloseFree(t) ==
    /\ pc[t] = "close_loop"
    /\ swept < Len(idle)
    /\ live' = live \ {idle[swept + 1]}
    /\ swept' = swept + 1
    /\ UNCHANGED <<mutex, idle, closed, options, pc, handle, calls, object>>

CloseLoopEnds(t) ==
    /\ pc[t] = "close_loop"
    /\ swept = Len(idle)
    /\ Goto(t, "close_clear")
    /\ UNCHANGED <<mutex, idle, closed, live, options, handle, swept, calls, object>>

(* Mutant: the entries of the pool are nulled, and stay. *)
CloseClearByNulling(t) ==
    /\ pc[t] = "close_clear"
    /\ idle' = [i \in DOMAIN idle |-> NoHandle]
    /\ swept' = 0
    /\ object' = IF object = "dying" THEN "gone" ELSE object
    /\ Unlock
    /\ Goto(t, "out")
    /\ UNCHANGED <<closed, live, options, handle, calls>>

(* ... and clears the pool.  When the caller was the destructor, the object
   is gone as well.                                                        *)
CloseClear(t) ==
    /\ pc[t] = "close_clear"
    /\ idle' = << >>
    /\ swept' = 0
    /\ object' = IF object = "dying" THEN "gone" ELSE object
    /\ Unlock
    /\ Goto(t, "out")
    /\ UNCHANGED <<closed, live, options, handle, calls>>

(* ~CurlHttpTransport calls Close.  Its caller's side of the bargain, as for
   every C++ object: no call is in progress and none follows.              *)
Destroy(t) ==
    /\ object = "alive"
    /\ \A u \in Threads : pc[u] = "out"
    /\ object' = "dying"
    /\ Goto(t, "close_wait")
    /\ UNCHANGED <<mutex, idle, closed, live, options, handle, swept, calls>>

(* Nothing happens any more; every other state without a step is a deadlock. *)
Terminated ==
    /\ object = "gone"
    /\ UNCHANGED vars

Proceed(t) ==
    \/ AcquireLock(t)
    \/ AcquireRefused(t)
    \/ AcquireBack(t)
    \/ AcquirePop(t)
    \/ AcquireFresh(t)
    \/ AcquireFails(t)
    \/ SetUp(t)
    \/ SetUpFails(t)
    \/ Perform(t)
    \/ ReleaseLock(t)
    \/ ReleaseHandle(t)
    \/ CloseLock(t)
    \/ CloseFree(t)
    \/ CloseLoopEnds(t)
    \/ CloseClear(t)

Next ==
    \/ \E t \in Threads : SendCall(t) \/ CloseCall(t) \/ Destroy(t) \/ Proceed(t)
    \/ Terminated

Spec == Init /\ [][Next]_vars

(* A thread inside the transport keeps running; nobody has to call it. *)
Fairness == \A t \in Threads : WF_vars(Proceed(t))

FairSpec == Spec /\ Fairness

-----------------------------------------------------------------------------
(* Types, and the part of the pool's layout everything else relies on. *)
TypeOK ==
    /\ mutex \in Threads \cup {NoThread}
    /\ idle \in Seq(Handles)
    /\ closed \in BOOLEAN
    /\ live \in SUBSET Handles
    /\ options \in [Handles -> [Option -> Threads \cup {NoFrame, DeadFrame}]]
    /\ pc \in [Threads -> Step]
    /\ handle \in [Threads -> Handles \cup {NoHandle}]
    /\ swept \in Nat
    /\ calls \in [Threads -> 0 .. MaxCalls]
    /\ object \in {"alive", "dying", "gone"}

(* A handle is used by one thread at a time, and never while it also waits
   in the pool: AcquireHandle hands out a handle to one Send only, although
   reading back() and popping it are two steps.                            *)
HandleExclusive ==
    \A t \in Threads : pc[t] \in Borrowing =>
        /\ handle[t] \in live
        /\ handle[t] \notin Pooled
        /\ \A u \in Threads : pc[u] \in Borrowing /\ handle[u] = handle[t] => u = t

(* No handle is leaked and none is cleaned up twice: once the lock is free,
   libcurl's live handles are exactly those that wait in the pool, once
   each, and those a Send is working with.                                 *)
LiveAccounted ==
    mutex = NoThread =>
        /\ live = Pooled \cup {handle[t] : t \in {u \in Threads : pc[u] \in Borrowing}}
        /\ Cardinality(Pooled) = Len(idle)

(* The pool never outgrows the capacity the constructor reserves, on which
   the noexcept of ReleaseHandle rests: push_back does not reallocate.     *)
PoolBounded == Len(idle) <= MaxIdle

(* A handle is allocated only when the pool is empty, so there are never
   more of them than threads that share the transport.                     *)
HandlesBounded == Cardinality(live) <= Cardinality(Threads)

(* During a transfer no option of the handle points into the frame of an
   earlier Send or of another thread: a GET that reuses the handle of a POST
   does not see the body of that POST.                                     *)
OptionsOwned ==
    \A t \in Threads : pc[t] = "perform" =>
        /\ options[handle[t]]["sinks"] = t
        /\ options[handle[t]]["body"] \in {t, NoFrame}

(* Close and destruction leave nothing behind: once the object is gone, so
   is every handle libcurl gave it, whatever calls preceded.               *)
NothingLeaksAfterDestruction == object = "gone" => live = {}

(* After Close no call obtains a handle any more, a pooled one or a new one;
   the handles in flight can only be given back.                           *)
NoAcquireAfterClose ==
    [][closed => \A t \in Threads : handle'[t] \in {handle[t], NoHandle}]_vars

(* Every Send and every Close returns: no caller waits for ever on
   handles_mutex_, whoever throws or closes in between.                    *)
EveryCallReturns == \A t \in Threads : pc[t] # "out" ~> pc[t] = "out"

(* A closed transport gives all its memory back as soon as the sends that
   were in flight have returned, without waiting for the destructor.       *)
ClosedDrains == closed ~> live = {}

-----------------------------------------------------------------------------
(* The pool as its users see it.  Closing takes effect when closed_ is set:
   the handles that Close is still cleaning up have left the pool, and a
   handle between back() and pop_back() has not.                           *)
Pool == INSTANCE HandlePool WITH
    idle <- IF closed THEN {} ELSE Pooled,
    lent <- [t \in Threads |-> IF pc[t] \in Borrowing THEN handle[t] ELSE NoHandle],
    live <- IF closed THEN live \ Pooled ELSE live

(* The transport implements the atomic pool. *)
ImplementsPool == Pool!PoolSpec
=============================================================================
