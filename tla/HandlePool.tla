----------------------------- MODULE HandlePool -----------------------------
(***************************************************************************)
(* What the pool of libcurl easy handles of CurlHttpTransport promises,    *)
(* with every operation of the pool atomic and no lock in sight.  A handle *)
(* that libcurl has allocated is either idle in the pool or lent to one    *)
(* thread; a closed pool keeps nothing idle and lends nothing more.        *)
(* CurlTransport implements this specification.                            *)
(***************************************************************************)
EXTENDS Naturals, FiniteSets

CONSTANTS
    Threads,      \* threads that share one transport
    Handles,      \* addresses curl_easy_init may return
    NoHandle,     \* the null handle
    MaxIdle       \* kMaxIdleHandles

ASSUME NoHandleAssumption == NoHandle \notin Handles

VARIABLES
    idle,         \* handles waiting in the pool
    lent,         \* lent[t]: the handle thread t works with, or NoHandle
    live,         \* handles allocated and not yet cleaned up
    closed        \* the transport was closed

poolVars == <<idle, lent, live, closed>>

PoolInit ==
    /\ idle = {}
    /\ lent = [t \in Threads |-> NoHandle]
    /\ live = {}
    /\ closed = FALSE

(* A thread takes a handle that waits in the pool. *)
LendIdle(t) ==
    /\ ~closed
    /\ lent[t] = NoHandle
    /\ \E h \in idle :
        /\ idle' = idle \ {h}
        /\ lent' = [lent EXCEPT ![t] = h]
    /\ UNCHANGED <<live, closed>>

(* A new handle is allocated only when nothing waits in the pool. *)
LendFresh(t) ==
    /\ ~closed
    /\ lent[t] = NoHandle
    /\ idle = {}
    /\ \E h \in Handles \ live :
        /\ live' = live \cup {h}
        /\ lent' = [lent EXCEPT ![t] = h]
    /\ UNCHANGED <<idle, closed>>

(* A handle comes back: pooled while there is room, cleaned up otherwise. *)
GiveBack(t) ==
    /\ lent[t] # NoHandle
    /\ lent' = [lent EXCEPT ![t] = NoHandle]
    /\ IF closed \/ Cardinality(idle) >= MaxIdle
         THEN live' = live \ {lent[t]} /\ UNCHANGED idle
         ELSE idle' = idle \cup {lent[t]} /\ UNCHANGED live
    /\ UNCHANGED closed

ClosePool ==
    /\ closed' = TRUE
    /\ idle' = {}
    /\ live' = live \ idle
    /\ UNCHANGED lent

PoolNext ==
    \/ ClosePool
    \/ \E t \in Threads : LendIdle(t) \/ LendFresh(t) \/ GiveBack(t)

PoolSpec == PoolInit /\ [][PoolNext]_poolVars
=============================================================================
