------------------------- MODULE CurlTransportProofs -------------------------
(***************************************************************************)
(* Safety of CurlTransport for every number of threads, every set of       *)
(* handles, every pool capacity and every number of calls.                 *)
(*                                                                         *)
(* The inductive invariant has three layers, each proved from those below: *)
(*   Control   types, who holds handles_mutex_, who has a handle;          *)
(*   Ownership which handles wait in the pool, are borrowed, are live;     *)
(*   Lifetime  the object's life, and the frames the options point into.   *)
(***************************************************************************)
EXTENDS CurlTransport, SequenceTheorems, FiniteSetTheorems, TLAPS

(* A thread is inside a critical section exactly when it holds the mutex. *)
MutexInv == \A t \in Threads : pc[t] \in Critical <=> mutex = t

(* A thread has a handle from back() until ReleaseHandle. *)
HoldInv ==
    \A t \in Threads : handle[t] # NoHandle <=> pc[t] \in Borrowing \cup {"acq_pop"}

Control == TypeOK /\ MutexInv /\ HoldInv

-----------------------------------------------------------------------------
Sweeping(t) == pc[t] \in {"close_loop", "close_clear"}

(* No handle waits twice in the pool, which fits its capacity. *)
PoolInv ==
    /\ IsInjective(idle)
    /\ Len(idle) <= MaxIdle

(* Between back() and pop_back() the handle is still the last of the pool. *)
PopInv ==
    \A t \in Threads : pc[t] = "acq_pop" =>
        idle # << >> /\ handle[t] = Last(idle) /\ ~closed

(* A borrowed handle has one borrower and does not wait in the pool. *)
BorrowInv ==
    \A t \in Threads : pc[t] \in Borrowing =>
        /\ handle[t] \notin Pooled
        /\ \A u \in Threads : pc[u] \in Borrowing /\ handle[u] = handle[t] => u = t

(* What Close has not yet cleaned up. *)
Unswept == {idle[i] : i \in swept + 1 .. Len(idle)}

Borrowed == {handle[t] : t \in {u \in Threads : pc[u] \in Borrowing}}

LiveInv == live = Unswept \cup Borrowed

(* The loop of Close, and the pool it leaves behind. *)
SweepInv ==
    /\ swept <= Len(idle)
    /\ \A t \in Threads : Sweeping(t) => closed
    /\ \A t \in Threads : pc[t] = "close_clear" => swept = Len(idle)
    /\ (\A t \in Threads : ~Sweeping(t)) => swept = 0 /\ (closed => idle = << >>)

Ownership == PoolInv /\ PopInv /\ BorrowInv /\ LiveInv /\ SweepInv

-----------------------------------------------------------------------------
(* The destructor runs alone and leaves a closed, empty pool. *)
ObjectInv ==
    /\ object = "dying" =>
        \E t \in Threads : pc[t] \in CloseSteps /\ \A u \in Threads \ {t} : pc[u] = "out"
    /\ object = "gone" =>
        closed /\ \A t \in Threads : pc[t] = "out"

Lifetime == ObjectInv /\ OptionsOwned

IInv == Control /\ Ownership /\ Lifetime

-----------------------------------------------------------------------------
(* The first layer: control. *)

LEMMA ControlInit == Init => Control
<1> SUFFICES ASSUME Init PROVE Control
  OBVIOUS
<1>1. TypeOK
  <2>1. options \in [Handles -> [Option -> Threads \cup {NoFrame, DeadFrame}]]
    BY DEF Init
  <2>2. calls \in [Threads -> 0 .. MaxCalls]
    BY MaxCallsAssumption DEF Init
  <2>3. idle \in Seq(Handles)
    BY DEF Init
  <2>4. QED
    BY <2>1, <2>2, <2>3 DEF Init, TypeOK, Step
<1>2. MutexInv
  BY NoThreadAssumption DEF Init, MutexInv, Critical
<1>3. HoldInv
  BY DEF Init, HoldInv, Borrowing, SendSteps, ReleaseSteps
<1>4. QED
  BY <1>1, <1>2, <1>3 DEF Control

LEMMA ControlNext == Control /\ [Next]_vars => Control'
<1> SUFFICES ASSUME Control, [Next]_vars PROVE Control'
  OBVIOUS
<1> USE NoHandleAssumption, NoThreadAssumption, FrameAssumption, MaxCallsAssumption
    DEF Control, TypeOK, MutexInv, HoldInv, Step, AcquireSteps, SendSteps,
        ReleaseSteps, CloseSteps, Critical, Borrowing, Goto, Unlock
<1>1. ASSUME NEW t \in Threads, SendCall(t) PROVE Control'
  BY <1>1 DEF SendCall, Call
<1>2. ASSUME NEW t \in Threads, CloseCall(t) PROVE Control'
  BY <1>2 DEF CloseCall, Call
<1>3. ASSUME NEW t \in Threads, Destroy(t) PROVE Control'
  BY <1>3 DEF Destroy
<1>4. ASSUME NEW t \in Threads, AcquireLock(t) PROVE Control'
  BY <1>4 DEF AcquireLock, Lock
<1>5. ASSUME NEW t \in Threads, AcquireRefused(t) PROVE Control'
  BY <1>5 DEF AcquireRefused
<1>6. ASSUME NEW t \in Threads, AcquireBack(t) PROVE Control'
  BY <1>6 DEF AcquireBack, Last
<1>7. ASSUME NEW t \in Threads, AcquirePop(t) PROVE Control'
  BY <1>7 DEF AcquirePop, Front
<1>8. ASSUME NEW t \in Threads, AcquireFresh(t) PROVE Control'
  BY <1>8 DEF AcquireFresh
<1>9. ASSUME NEW t \in Threads, AcquireFails(t) PROVE Control'
  BY <1>9 DEF AcquireFails
<1>10. ASSUME NEW t \in Threads, SetUp(t) PROVE Control'
  BY <1>10 DEF SetUp, EasyReset, SetOptions
<1>11. ASSUME NEW t \in Threads, SetUpFails(t) PROVE Control'
  BY <1>11 DEF SetUpFails, EasyReset, SetOptions, FrameDies
<1>12. ASSUME NEW t \in Threads, Perform(t) PROVE Control'
  BY <1>12 DEF Perform, FrameDies
<1>13. ASSUME NEW t \in Threads, ReleaseLock(t) PROVE Control'
  BY <1>13 DEF ReleaseLock, Lock
<1>14. ASSUME NEW t \in Threads, ReleaseHandle(t) PROVE Control'
  <2>1. handle[t] \in Handles
    BY <1>14 DEF ReleaseHandle
  <2>2. idle' \in Seq(Handles) /\ live' \in SUBSET Handles
    <3>1. CASE Discards(closed, Len(idle))
      BY <1>14, <3>1 DEF ReleaseHandle
    <3>2. CASE ~Discards(closed, Len(idle))
      <4>1. idle' = Append(idle, handle[t]) /\ live' = live
        BY <1>14, <3>2 DEF ReleaseHandle
      <4>2. QED
        BY <2>1, <4>1
    <3>3. QED
      BY <3>1, <3>2
  <2>3. QED
    BY <1>14, <2>2 DEF ReleaseHandle
<1>15. ASSUME NEW t \in Threads, CloseLock(t) PROVE Control'
  BY <1>15 DEF CloseLock, Lock
<1>16. ASSUME NEW t \in Threads, CloseFree(t) PROVE Control'
  BY <1>16 DEF CloseFree
<1>17. ASSUME NEW t \in Threads, CloseLoopEnds(t) PROVE Control'
  BY <1>17 DEF CloseLoopEnds
<1>18. ASSUME NEW t \in Threads, CloseClear(t) PROVE Control'
  BY <1>18 DEF CloseClear
<1>19. CASE UNCHANGED vars
  BY <1>19 DEF vars
<1>20. QED
  BY <1>1, <1>2, <1>3, <1>4, <1>5, <1>6, <1>7, <1>8, <1>9, <1>10, <1>11, <1>12,
     <1>13, <1>14, <1>15, <1>16, <1>17, <1>18, <1>19
  DEF Next, Proceed, Terminated

-----------------------------------------------------------------------------
(* The second layer: ownership of the handles. *)

LEMMA ToSetRange ==
  ASSUME NEW S, NEW s \in Seq(S)
  PROVE  ToSet(s) = {s[i] : i \in 1 .. Len(s)}
<1>1. DOMAIN s = 1 .. Len(s)
  OBVIOUS
<1>2. QED
  BY <1>1 DEF ToSet

(* What pop_back leaves of a sequence. *)
LEMMA PopBackFacts ==
  ASSUME NEW S, NEW s \in Seq(S), s # << >>
  PROVE  /\ Front(s) \in Seq(S)
         /\ Len(Front(s)) = Len(s) - 1
         /\ \A i \in 1 .. Len(s) - 1 : Front(s)[i] = s[i]
<1>1. Len(s) \in Nat \ {0}
  OBVIOUS
<1>2. \A i \in 1 .. Len(s) - 1 : s[i] \in S
  BY <1>1
<1> DEFINE n == Len(s) - 1
<1>3. 1 \in Int /\ n \in Int /\ \A i \in 1 .. n : s[i] \in S
  BY <1>1, <1>2
<1> HIDE DEF n
<1>4. /\ SubSeq(s, 1, n) \in Seq(S)
      /\ Len(SubSeq(s, 1, n)) = IF 1 <= n THEN n - 1 + 1 ELSE 0
      /\ \A i \in 1 .. n - 1 + 1 : SubSeq(s, 1, n)[i] = s[1 + i - 1]
  BY <1>3, SubSeqProperties
<1>5. n \in Nat
  BY <1>1 DEF n
<1>6. /\ SubSeq(s, 1, n) \in Seq(S)
      /\ Len(SubSeq(s, 1, n)) = n
      /\ \A i \in 1 .. n : SubSeq(s, 1, n)[i] = s[i]
  BY <1>4, <1>5
<1>7. QED
  BY <1>6 DEF Front, n

(* Both keep the elements of a stack distinct. *)
LEMMA PushBackInjective ==
  ASSUME NEW S, NEW s \in Seq(S), IsInjective(s), NEW e \in S \ ToSet(s)
  PROVE  IsInjective(Append(s, e))
<1> DEFINE a == Append(s, e)
<1>1. /\ DOMAIN a = 1 .. Len(s) + 1 /\ DOMAIN s = 1 .. Len(s) /\ Len(s) \in Nat
      /\ \A i \in 1 .. Len(s) : a[i] = s[i]
      /\ a[Len(s) + 1] = e
  OBVIOUS
<1> HIDE DEF a
<1>2. \A i \in 1 .. Len(s) : s[i] # e
  BY <1>1 DEF ToSet
<1>3. \A i \in DOMAIN a : i \in 1 .. Len(s) \/ i = Len(s) + 1
  BY <1>1
<1>4. \A i, j \in DOMAIN a : a[i] = a[j] => i = j
  BY <1>1, <1>2, <1>3 DEF IsInjective
<1>5. QED
  BY <1>4 DEF IsInjective, a

LEMMA PopBackInjective ==
  ASSUME NEW S, NEW s \in Seq(S), s # << >>, IsInjective(s)
  PROVE  IsInjective(Front(s)) /\ Last(s) \notin ToSet(Front(s))
<1> DEFINE f == Front(s)
<1>1. /\ f \in Seq(S) /\ Len(f) = Len(s) - 1
      /\ \A i \in 1 .. Len(s) - 1 : f[i] = s[i]
  BY PopBackFacts
<1> HIDE DEF f
<1>2. /\ DOMAIN f = 1 .. Len(s) - 1
      /\ DOMAIN s = 1 .. Len(s)
      /\ Len(s) \in Nat \ {0}
  BY <1>1
<1>3. \A i \in DOMAIN f : f[i] = s[i] /\ i \in DOMAIN s /\ i # Len(s)
  BY <1>1, <1>2
<1>4. Len(s) \in DOMAIN s
  BY <1>2
<1>5. IsInjective(f)
  BY <1>3 DEF IsInjective
<1>6. \A i \in DOMAIN f : f[i] # s[Len(s)]
  BY <1>3, <1>4 DEF IsInjective
<1>7. QED
  BY <1>5, <1>6 DEF ToSet, Last, f

(* The elements after push_back ... *)
LEMMA PushBackSet ==
  ASSUME NEW S, NEW s \in Seq(S), NEW e \in S
  PROVE  ToSet(Append(s, e)) = ToSet(s) \cup {e}
<1> DEFINE a == Append(s, e)
<1>1. /\ a \in Seq(S) /\ Len(a) = Len(s) + 1 /\ Len(s) \in Nat
      /\ \A i \in 1 .. Len(s) : a[i] = s[i]
      /\ a[Len(s) + 1] = e
  OBVIOUS
<1> HIDE DEF a
<1>2. 1 .. Len(a) = 1 .. Len(s) \cup {Len(s) + 1}
  BY <1>1
<1>3. {a[i] : i \in 1 .. Len(a)} = {s[i] : i \in 1 .. Len(s)} \cup {e}
  BY <1>1, <1>2
<1>4. ToSet(a) = ToSet(s) \cup {e}
  BY <1>1, <1>3, ToSetRange
<1>5. QED
  BY <1>4 DEF a

(* ... and before pop_back. *)
LEMMA PopBackSet ==
  ASSUME NEW S, NEW s \in Seq(S), s # << >>
  PROVE  ToSet(s) = ToSet(Front(s)) \cup {Last(s)}
<1> DEFINE f == Front(s)
<1>1. /\ f \in Seq(S) /\ Len(f) = Len(s) - 1 /\ Len(s) \in Nat \ {0}
      /\ \A i \in 1 .. Len(f) : f[i] = s[i]
  BY PopBackFacts
<1> HIDE DEF f
<1>2. 1 .. Len(s) = 1 .. Len(f) \cup {Len(s)}
  BY <1>1
<1>3. {s[i] : i \in 1 .. Len(s)} = {f[i] : i \in 1 .. Len(f)} \cup {s[Len(s)]}
  BY <1>1, <1>2
<1>4. ToSet(s) = ToSet(f) \cup {s[Len(s)]}
  BY <1>1, <1>3, ToSetRange
<1>5. QED
  BY <1>4 DEF f, Last

LEMMA OwnershipInit == Init => Ownership
<1> SUFFICES ASSUME Init PROVE Ownership
  OBVIOUS
<1>1. idle = << >> /\ Len(idle) = 0 /\ swept = 0
  BY DEF Init
<1>2. PoolInv
  BY <1>1, MaxIdleAssumption DEF PoolInv, IsInjective
<1>3. PopInv /\ BorrowInv
  BY DEF Init, PopInv, BorrowInv, Borrowing, SendSteps, ReleaseSteps
<1>4. LiveInv
  BY <1>1 DEF Init, LiveInv, Unswept, Borrowed, Borrowing, SendSteps, ReleaseSteps
<1>5. SweepInv
  BY <1>1 DEF Init, SweepInv, Sweeping
<1>6. QED
  BY <1>2, <1>3, <1>4, <1>5 DEF Ownership

LEMMA OwnershipNext == Control /\ Control' /\ Ownership /\ [Next]_vars => Ownership'
<1> SUFFICES ASSUME Control, Control', Ownership, [Next]_vars PROVE Ownership'
  OBVIOUS
<1> USE NoHandleAssumption, NoThreadAssumption, MaxIdleAssumption
    DEF Control, TypeOK, MutexInv, HoldInv, Ownership, PoolInv, PopInv, BorrowInv,
        LiveInv, SweepInv, Sweeping, Borrowing, SendSteps, ReleaseSteps, Critical,
        Goto, Unlock
<1>1. ASSUME NEW t \in Threads, SendCall(t) PROVE Ownership'
  <2>1. PoolInv'
    BY <1>1 DEF SendCall, Call
  <2>2. PopInv'
    BY <1>1 DEF SendCall, Call, Last
  <2>3. BorrowInv'
    BY <1>1 DEF SendCall, Call, Pooled, ToSet
  <2>4. LiveInv'
    BY <1>1 DEF SendCall, Call, Unswept, Borrowed
  <2>5. SweepInv'
    BY <1>1 DEF SendCall, Call, Sweeping
  <2>6. QED
    BY <2>1, <2>2, <2>3, <2>4, <2>5
<1>2. ASSUME NEW t \in Threads, CloseCall(t) PROVE Ownership'
  <2>1. PoolInv'
    BY <1>2 DEF CloseCall, Call
  <2>2. PopInv'
    BY <1>2 DEF CloseCall, Call, Last
  <2>3. BorrowInv'
    BY <1>2 DEF CloseCall, Call, Pooled, ToSet
  <2>4. LiveInv'
    BY <1>2 DEF CloseCall, Call, Unswept, Borrowed
  <2>5. SweepInv'
    BY <1>2 DEF CloseCall, Call, Sweeping
  <2>6. QED
    BY <2>1, <2>2, <2>3, <2>4, <2>5
<1>3. ASSUME NEW t \in Threads, Destroy(t) PROVE Ownership'
  <2>1. PoolInv'
    BY <1>3 DEF Destroy
  <2>2. PopInv'
    BY <1>3 DEF Destroy, Last
  <2>3. BorrowInv'
    BY <1>3 DEF Destroy, Pooled, ToSet
  <2>4. LiveInv'
    BY <1>3 DEF Destroy, Unswept, Borrowed
  <2>5. SweepInv'
    BY <1>3 DEF Destroy, Sweeping
  <2>6. QED
    BY <2>1, <2>2, <2>3, <2>4, <2>5
<1>4. ASSUME NEW t \in Threads, AcquireLock(t) PROVE Ownership'
  <2>1. PoolInv'
    BY <1>4 DEF AcquireLock, Lock
  <2>2. PopInv'
    BY <1>4 DEF AcquireLock, Lock, Last
  <2>3. BorrowInv'
    BY <1>4 DEF AcquireLock, Lock, Pooled, ToSet
  <2>4. LiveInv'
    BY <1>4 DEF AcquireLock, Lock, Unswept, Borrowed
  <2>5. SweepInv'
    BY <1>4 DEF AcquireLock, Lock, Sweeping
  <2>6. QED
    BY <2>1, <2>2, <2>3, <2>4, <2>5
<1>5. ASSUME NEW t \in Threads, AcquireRefused(t) PROVE Ownership'
  <2>1. PoolInv'
    BY <1>5 DEF AcquireRefused
  <2>2. PopInv'
    BY <1>5 DEF AcquireRefused, Last
  <2>3. BorrowInv'
    BY <1>5 DEF AcquireRefused, Pooled, ToSet
  <2>4. LiveInv'
    BY <1>5 DEF AcquireRefused, Unswept, Borrowed
  <2>5. SweepInv'
    BY <1>5 DEF AcquireRefused, Sweeping
  <2>6. QED
    BY <2>1, <2>2, <2>3, <2>4, <2>5
<1>6. ASSUME NEW t \in Threads, AcquireBack(t) PROVE Ownership'
  <2>1. PoolInv'
    BY <1>6 DEF AcquireBack
  <2>2. PopInv'
    BY <1>6 DEF AcquireBack, Last
  <2>3. BorrowInv'
    BY <1>6 DEF AcquireBack, Pooled, ToSet
  <2>4. LiveInv'
    BY <1>6 DEF AcquireBack, Unswept, Borrowed
  <2>5. SweepInv'
    BY <1>6 DEF AcquireBack, Sweeping
  <2>6. QED
    BY <2>1, <2>2, <2>3, <2>4, <2>5
<1>7. ASSUME NEW t \in Threads, AcquirePop(t) PROVE Ownership'
  <2>1. idle # << >> /\ ~closed /\ handle[t] = idle[Len(idle)] /\ handle[t] \in Handles
    BY <1>7 DEF AcquirePop, Last
  <2>2. /\ Len(idle') = Len(idle) - 1
        /\ \A i \in 1 .. Len(idle') : idle'[i] = idle[i]
    BY <1>7, <2>1, PopBackFacts DEF AcquirePop, Front
  <2>3. swept = 0 /\ swept' = 0
    BY <1>7 DEF AcquirePop
  <2>4. handle' = handle /\ live' = live /\ pc' = [pc EXCEPT ![t] = "setup"]
    BY <1>7 DEF AcquirePop
  <2>5. PoolInv' /\ Last(idle) \notin Pooled'
    BY <1>7, <2>1, <2>2, PopBackInjective DEF AcquirePop, Pooled
  <2>6. PopInv'
    BY <1>7 DEF AcquirePop, Last
  <2>7. Pooled = Pooled' \cup {handle[t]}
    BY <1>7, <2>1, PopBackSet DEF AcquirePop, Pooled, Last
  <2>8. BorrowInv'
    BY <2>1, <2>4, <2>5, <2>7 DEF Last
  <2>9. Unswept = Unswept' \cup {handle[t]}
    <3>1. Unswept = Pooled
      BY <2>3, ToSetRange DEF Unswept, Pooled
    <3>2. Unswept' = Pooled'
      BY <2>3, ToSetRange DEF Unswept, Pooled
    <3>3. QED
      BY <2>7, <3>1, <3>2
  <2>10. Borrowed' = Borrowed \cup {handle[t]}
    BY <1>7, <2>4 DEF AcquirePop, Borrowed
  <2>11. LiveInv'
    BY <2>4, <2>9, <2>10
  <2>12. SweepInv'
    BY <1>7 DEF AcquirePop, Sweeping
  <2>13. QED
    BY <2>5, <2>6, <2>8, <2>11, <2>12
<1>8. ASSUME NEW t \in Threads, AcquireFresh(t) PROVE Ownership'
  <2>1. PoolInv'
    BY <1>8 DEF AcquireFresh
  <2>2. PopInv'
    BY <1>8 DEF AcquireFresh, Last
  <2>3. BorrowInv'
    <3>1. \A u \in Threads : pc[u] \in Borrowing => handle[u] \in live
      BY DEF Borrowed
    <3>2. handle'[t] \notin live /\ idle' = << >>
      BY <1>8 DEF AcquireFresh
    <3>3. \A u \in Threads \ {t} : pc'[u] = pc[u] /\ handle'[u] = handle[u]
      BY <1>8 DEF AcquireFresh
    <3>4. Pooled' = {}
      BY <3>2 DEF Pooled, ToSet
    <3>5. \A u \in Threads \ {t} : pc'[u] \in Borrowing => handle'[u] # handle'[t]
      BY <3>1, <3>2, <3>3
    <3>6. \A u, w \in Threads \ {t} :
            pc'[u] \in Borrowing /\ pc'[w] \in Borrowing /\ handle'[u] = handle'[w] => u = w
      BY <3>3
    <3>7. QED
      BY <3>4, <3>5, <3>6
  <2>4. LiveInv'
    BY <1>8 DEF AcquireFresh, Unswept, Borrowed
  <2>5. SweepInv'
    BY <1>8 DEF AcquireFresh, Sweeping
  <2>6. QED
    BY <2>1, <2>2, <2>3, <2>4, <2>5
<1>9. ASSUME NEW t \in Threads, AcquireFails(t) PROVE Ownership'
  <2>1. PoolInv'
    BY <1>9 DEF AcquireFails
  <2>2. PopInv'
    BY <1>9 DEF AcquireFails, Last
  <2>3. BorrowInv'
    BY <1>9 DEF AcquireFails, Pooled, ToSet
  <2>4. LiveInv'
    BY <1>9 DEF AcquireFails, Unswept, Borrowed
  <2>5. SweepInv'
    BY <1>9 DEF AcquireFails, Sweeping
  <2>6. QED
    BY <2>1, <2>2, <2>3, <2>4, <2>5
<1>10. ASSUME NEW t \in Threads, SetUp(t) PROVE Ownership'
  <2>1. PoolInv'
    BY <1>10 DEF SetUp
  <2>2. PopInv'
    BY <1>10 DEF SetUp, Last
  <2>3. BorrowInv'
    BY <1>10 DEF SetUp, Pooled, ToSet
  <2>4. LiveInv'
    BY <1>10 DEF SetUp, Unswept, Borrowed
  <2>5. SweepInv'
    BY <1>10 DEF SetUp, Sweeping
  <2>6. QED
    BY <2>1, <2>2, <2>3, <2>4, <2>5
<1>11. ASSUME NEW t \in Threads, SetUpFails(t) PROVE Ownership'
  <2>1. PoolInv'
    BY <1>11 DEF SetUpFails
  <2>2. PopInv'
    BY <1>11 DEF SetUpFails, Last
  <2>3. BorrowInv'
    BY <1>11 DEF SetUpFails, Pooled, ToSet
  <2>4. LiveInv'
    BY <1>11 DEF SetUpFails, Unswept, Borrowed
  <2>5. SweepInv'
    BY <1>11 DEF SetUpFails, Sweeping
  <2>6. QED
    BY <2>1, <2>2, <2>3, <2>4, <2>5
<1>12. ASSUME NEW t \in Threads, Perform(t) PROVE Ownership'
  <2>1. PoolInv'
    BY <1>12 DEF Perform
  <2>2. PopInv'
    BY <1>12 DEF Perform, Last
  <2>3. BorrowInv'
    BY <1>12 DEF Perform, Pooled, ToSet
  <2>4. LiveInv'
    BY <1>12 DEF Perform, Unswept, Borrowed
  <2>5. SweepInv'
    BY <1>12 DEF Perform, Sweeping
  <2>6. QED
    BY <2>1, <2>2, <2>3, <2>4, <2>5
<1>13. ASSUME NEW t \in Threads, ReleaseLock(t) PROVE Ownership'
  <2>1. PoolInv'
    BY <1>13 DEF ReleaseLock, Lock
  <2>2. PopInv'
    BY <1>13 DEF ReleaseLock, Lock, Last
  <2>3. BorrowInv'
    BY <1>13 DEF ReleaseLock, Lock, Pooled, ToSet
  <2>4. LiveInv'
    BY <1>13 DEF ReleaseLock, Lock, Unswept, Borrowed
  <2>5. SweepInv'
    BY <1>13 DEF ReleaseLock, Lock, Sweeping
  <2>6. QED
    BY <2>1, <2>2, <2>3, <2>4, <2>5
<1>14. ASSUME NEW t \in Threads, ReleaseHandle(t) PROVE Ownership'
  <2> DEFINE h == handle[t]
  <2>1. h \in Handles /\ pc[t] \in Borrowing
    BY <1>14 DEF ReleaseHandle
  <2>2. /\ handle' = [handle EXCEPT ![t] = NoHandle]
        /\ pc' = [pc EXCEPT ![t] = "out"]
        /\ closed' = closed /\ swept' = swept
    BY <1>14 DEF ReleaseHandle
  <2>3. swept = 0 /\ (closed => idle = << >>)
    BY <1>14 DEF ReleaseHandle
  <2>4. \A u \in Threads : ~Sweeping(u)' /\ pc'[u] # "acq_pop"
    BY <1>14, <2>2 DEF ReleaseHandle
  <2>5. Borrowed = Borrowed' \cup {h} /\ h \notin Borrowed'
    BY <2>1, <2>2 DEF Borrowed
  <2>6. h \notin Pooled
    BY <2>1
  <2>7. \A u \in Threads : pc'[u] \in Borrowing =>
          u # t /\ pc[u] \in Borrowing /\ handle'[u] = handle[u] /\ handle[u] # h
    BY <2>1, <2>2
  <2>8. CASE Discards(closed, Len(idle))
    <3>1. idle' = idle /\ live' = live \ {h}
      BY <1>14, <2>8 DEF ReleaseHandle
    <3>2. Unswept' = Unswept /\ Pooled' = Pooled /\ h \notin Unswept
      BY <2>2, <2>3, <2>6, <3>1 DEF Unswept, Pooled, ToSet
    <3>3. LiveInv'
      BY <2>5, <3>1, <3>2
    <3>4. BorrowInv'
      BY <2>7, <3>2
    <3>5. QED
      BY <2>2, <2>3, <2>4, <3>1, <3>3, <3>4
  <2>9. CASE ~Discards(closed, Len(idle))
    <3>1. idle' = Append(idle, h) /\ live' = live
      BY <1>14, <2>9 DEF ReleaseHandle
    <3>2. ~closed /\ Len(idle) < MaxIdle
      BY <2>9 DEF Discards
    <3>3. /\ Len(idle') = Len(idle) + 1
          /\ \A i \in 1 .. Len(idle) : idle'[i] = idle[i]
          /\ idle'[Len(idle) + 1] = h
      BY <2>1, <3>1
    <3>4. Pooled' = Pooled \cup {h}
      BY <2>1, <3>1, PushBackSet DEF Pooled
    <3>5. PoolInv'
      <4>1. IsInjective(idle')
        BY <2>1, <2>6, <3>1, PushBackInjective DEF Pooled
      <4>2. QED
        BY <3>2, <3>3, <4>1
    <3>6. BorrowInv'
      BY <2>7, <3>4
    <3>7. Unswept = Pooled
      BY <2>3, ToSetRange DEF Unswept, Pooled
    <3>8. Unswept' = Pooled'
      BY <2>2, <2>3, ToSetRange DEF Unswept, Pooled
    <3>9. LiveInv'
      BY <2>5, <3>1, <3>4, <3>7, <3>8
    <3>10. PopInv' /\ SweepInv'
      BY <2>2, <2>3, <2>4, <3>2, <3>3
    <3>11. QED
      BY <3>5, <3>6, <3>9, <3>10
  <2>10. QED
    BY <2>8, <2>9
<1>15. ASSUME NEW t \in Threads, CloseLock(t) PROVE Ownership'
  <2>1. PoolInv'
    BY <1>15 DEF CloseLock, Lock
  <2>2. PopInv'
    BY <1>15 DEF CloseLock, Lock, Last
  <2>3. BorrowInv'
    BY <1>15 DEF CloseLock, Lock, Pooled, ToSet
  <2>4. LiveInv'
    BY <1>15 DEF CloseLock, Lock, Unswept, Borrowed
  <2>5. SweepInv'
    BY <1>15 DEF CloseLock, Lock, Sweeping
  <2>6. QED
    BY <2>1, <2>2, <2>3, <2>4, <2>5
<1>16. ASSUME NEW t \in Threads, CloseFree(t) PROVE Ownership'
  <2>1. PoolInv'
    BY <1>16 DEF CloseFree
  <2>2. PopInv'
    BY <1>16 DEF CloseFree, Last
  <2>3. BorrowInv'
    BY <1>16 DEF CloseFree, Pooled, ToSet
  <2>4. LiveInv'
    <3> DEFINE h == idle[swept + 1]
    <3>1. /\ idle' = idle /\ pc' = pc /\ handle' = handle
          /\ swept' = swept + 1 /\ swept + 1 \in 1 .. Len(idle)
          /\ live' = live \ {h}
      BY <1>16 DEF CloseFree
    <3>2. Unswept = Unswept' \cup {h}
      <4>1. swept + 1 .. Len(idle) = swept' + 1 .. Len(idle') \cup {swept + 1}
        BY <3>1
      <4>2. QED
        BY <3>1, <4>1 DEF Unswept
    <3>3. h \notin Unswept'
      BY <3>1 DEF Unswept, IsInjective
    <3>4. Borrowed' = Borrowed /\ h \notin Borrowed
      BY <3>1 DEF Borrowed, Pooled, ToSet
    <3>5. QED
      BY <3>1, <3>2, <3>3, <3>4
  <2>5. SweepInv'
    BY <1>16 DEF CloseFree, Sweeping
  <2>6. QED
    BY <2>1, <2>2, <2>3, <2>4, <2>5
<1>17. ASSUME NEW t \in Threads, CloseLoopEnds(t) PROVE Ownership'
  <2>1. PoolInv'
    BY <1>17 DEF CloseLoopEnds
  <2>2. PopInv'
    BY <1>17 DEF CloseLoopEnds, Last
  <2>3. BorrowInv'
    BY <1>17 DEF CloseLoopEnds, Pooled, ToSet
  <2>4. LiveInv'
    BY <1>17 DEF CloseLoopEnds, Unswept, Borrowed
  <2>5. SweepInv'
    BY <1>17 DEF CloseLoopEnds, Sweeping
  <2>6. QED
    BY <2>1, <2>2, <2>3, <2>4, <2>5
<1>18. ASSUME NEW t \in Threads, CloseClear(t) PROVE Ownership'
  <2>1. PoolInv'
    BY <1>18 DEF CloseClear, IsInjective
  <2>2. PopInv'
    BY <1>18 DEF CloseClear, Last
  <2>3. BorrowInv'
    BY <1>18 DEF CloseClear, Pooled, ToSet
  <2>4. LiveInv'
    BY <1>18 DEF CloseClear, Unswept, Borrowed
  <2>5. SweepInv'
    BY <1>18 DEF CloseClear, Sweeping
  <2>6. QED
    BY <2>1, <2>2, <2>3, <2>4, <2>5
<1>19. CASE UNCHANGED vars
  BY <1>19 DEF vars, Last, Pooled, ToSet, Unswept, Borrowed
<1>20. QED
  BY <1>1, <1>2, <1>3, <1>4, <1>5, <1>6, <1>7, <1>8, <1>9, <1>10, <1>11, <1>12,
     <1>13, <1>14, <1>15, <1>16, <1>17, <1>18, <1>19
  DEF Next, Proceed, Terminated

-----------------------------------------------------------------------------
(* The third layer: the object's life and the frames behind the options. *)

LEMMA LifetimeInit == Init => Lifetime
  BY DEF Init, Lifetime, ObjectInv, OptionsOwned

LEMMA LifetimeNext ==
  Control /\ Control' /\ Ownership /\ Lifetime /\ [Next]_vars => Lifetime'
<1> SUFFICES ASSUME Control, Control', Ownership, Lifetime, [Next]_vars PROVE Lifetime'
  OBVIOUS
<1> USE NoHandleAssumption, NoThreadAssumption, FrameAssumption
    DEF Control, TypeOK, HoldInv, Lifetime, ObjectInv, OptionsOwned, Borrowing,
        SendSteps, ReleaseSteps, AcquireSteps, CloseSteps, Goto, Unlock
<1>1. ASSUME NEW t \in Threads, SendCall(t) PROVE Lifetime'
  <2>1. ObjectInv'
    BY <1>1 DEF SendCall, Call
  <2>2. OptionsOwned'
    BY <1>1 DEF SendCall, Call
  <2>3. QED
    BY <2>1, <2>2
<1>2. ASSUME NEW t \in Threads, CloseCall(t) PROVE Lifetime'
  <2>1. ObjectInv'
    BY <1>2 DEF CloseCall, Call
  <2>2. OptionsOwned'
    BY <1>2 DEF CloseCall, Call
  <2>3. QED
    BY <2>1, <2>2
<1>3. ASSUME NEW t \in Threads, Destroy(t) PROVE Lifetime'
  <2>1. ObjectInv'
    BY <1>3 DEF Destroy
  <2>2. OptionsOwned'
    BY <1>3 DEF Destroy
  <2>3. QED
    BY <2>1, <2>2
<1>4. ASSUME NEW t \in Threads, AcquireLock(t) PROVE Lifetime'
  <2>1. ObjectInv'
    BY <1>4 DEF AcquireLock, Lock
  <2>2. OptionsOwned'
    BY <1>4 DEF AcquireLock, Lock
  <2>3. QED
    BY <2>1, <2>2
<1>5. ASSUME NEW t \in Threads, AcquireRefused(t) PROVE Lifetime'
  <2>1. ObjectInv'
    BY <1>5 DEF AcquireRefused
  <2>2. OptionsOwned'
    BY <1>5 DEF AcquireRefused
  <2>3. QED
    BY <2>1, <2>2
<1>6. ASSUME NEW t \in Threads, AcquireBack(t) PROVE Lifetime'
  <2>1. ObjectInv'
    BY <1>6 DEF AcquireBack
  <2>2. OptionsOwned'
    BY <1>6 DEF AcquireBack
  <2>3. QED
    BY <2>1, <2>2
<1>7. ASSUME NEW t \in Threads, AcquirePop(t) PROVE Lifetime'
  <2>1. ObjectInv'
    BY <1>7 DEF AcquirePop
  <2>2. OptionsOwned'
    BY <1>7 DEF AcquirePop
  <2>3. QED
    BY <2>1, <2>2
<1>8. ASSUME NEW t \in Threads, AcquireFresh(t) PROVE Lifetime'
  <2>1. ObjectInv'
    BY <1>8 DEF AcquireFresh, Ownership, LiveInv, Borrowed
  <2>2. OptionsOwned'
    BY <1>8 DEF AcquireFresh, Ownership, LiveInv, Borrowed
  <2>3. QED
    BY <2>1, <2>2
<1>9. ASSUME NEW t \in Threads, AcquireFails(t) PROVE Lifetime'
  <2>1. ObjectInv'
    BY <1>9 DEF AcquireFails
  <2>2. OptionsOwned'
    BY <1>9 DEF AcquireFails
  <2>3. QED
    BY <2>1, <2>2
<1>10. ASSUME NEW t \in Threads, SetUp(t) PROVE Lifetime'
  <2>1. ObjectInv'
    BY <1>10 DEF SetUp, EasyReset, SetOptions, Option, Ownership, BorrowInv
  <2>2. OptionsOwned'
    BY <1>10 DEF SetUp, EasyReset, SetOptions, Option, Ownership, BorrowInv
  <2>3. QED
    BY <2>1, <2>2
<1>11. ASSUME NEW t \in Threads, SetUpFails(t) PROVE Lifetime'
  <2>1. ObjectInv'
    BY <1>11 DEF SetUpFails, FrameDies, Option, Ownership, BorrowInv
  <2>2. OptionsOwned'
    BY <1>11 DEF SetUpFails, FrameDies, Option, Ownership, BorrowInv
  <2>3. QED
    BY <2>1, <2>2
<1>12. ASSUME NEW t \in Threads, Perform(t) PROVE Lifetime'
  <2>1. ObjectInv'
    BY <1>12 DEF Perform, FrameDies, Option, Ownership, BorrowInv
  <2>2. OptionsOwned'
    BY <1>12 DEF Perform, FrameDies, Option, Ownership, BorrowInv
  <2>3. QED
    BY <2>1, <2>2
<1>13. ASSUME NEW t \in Threads, ReleaseLock(t) PROVE Lifetime'
  <2>1. ObjectInv'
    BY <1>13 DEF ReleaseLock, Lock
  <2>2. OptionsOwned'
    BY <1>13 DEF ReleaseLock, Lock
  <2>3. QED
    BY <2>1, <2>2
<1>14. ASSUME NEW t \in Threads, ReleaseHandle(t) PROVE Lifetime'
  <2>1. ObjectInv'
    BY <1>14 DEF ReleaseHandle
  <2>2. OptionsOwned'
    BY <1>14 DEF ReleaseHandle
  <2>3. QED
    BY <2>1, <2>2
<1>15. ASSUME NEW t \in Threads, CloseLock(t) PROVE Lifetime'
  <2>1. ObjectInv'
    BY <1>15 DEF CloseLock, Lock
  <2>2. OptionsOwned'
    BY <1>15 DEF CloseLock, Lock
  <2>3. QED
    BY <2>1, <2>2
<1>16. ASSUME NEW t \in Threads, CloseFree(t) PROVE Lifetime'
  <2>1. ObjectInv'
    BY <1>16 DEF CloseFree
  <2>2. OptionsOwned'
    BY <1>16 DEF CloseFree
  <2>3. QED
    BY <2>1, <2>2
<1>17. ASSUME NEW t \in Threads, CloseLoopEnds(t) PROVE Lifetime'
  <2>1. ObjectInv'
    BY <1>17 DEF CloseLoopEnds
  <2>2. OptionsOwned'
    BY <1>17 DEF CloseLoopEnds
  <2>3. QED
    BY <2>1, <2>2
<1>18. ASSUME NEW t \in Threads, CloseClear(t) PROVE Lifetime'
  <2>1. ObjectInv'
    BY <1>18 DEF CloseClear, Ownership, SweepInv, Sweeping
  <2>2. OptionsOwned'
    BY <1>18 DEF CloseClear, Ownership, SweepInv, Sweeping
  <2>3. QED
    BY <2>1, <2>2
<1>19. CASE UNCHANGED vars
  BY <1>19 DEF vars
<1>20. QED
  BY <1>1, <1>2, <1>3, <1>4, <1>5, <1>6, <1>7, <1>8, <1>9, <1>10, <1>11, <1>12,
     <1>13, <1>14, <1>15, <1>16, <1>17, <1>18, <1>19
  DEF Next, Proceed, Terminated

-----------------------------------------------------------------------------
(* The theorems. *)

(* The inductive invariant holds in every reachable state. *)
THEOREM Invariance == Spec => []IInv
<1>1. Init => IInv
  BY ControlInit, OwnershipInit, LifetimeInit DEF IInv
<1>2. IInv /\ [Next]_vars => IInv'
  BY ControlNext, OwnershipNext, LifetimeNext DEF IInv
<1>3. QED
  BY <1>1, <1>2, PTL DEF Spec

(* Every variable keeps its type: no thread reads a null or stale handle out
   of the pool of CurlHttpTransport.                                       *)
THEOREM TypeCorrect == Spec => []TypeOK
<1>1. IInv => TypeOK
  BY DEF IInv, Control
<1>2. QED
  BY <1>1, Invariance, PTL

(* AcquireHandle never gives one easy handle to two Sends, and ReleaseHandle
   never pools one that is still in use.                                   *)
THEOREM Exclusive == Spec => []HandleExclusive
<1>1. IInv => HandleExclusive
  BY DEF IInv, Ownership, BorrowInv, LiveInv, Borrowed, HandleExclusive
<1>2. QED
  BY <1>1, Invariance, PTL

(* A stack of distinct elements has as many elements as positions. *)
LEMMA InjectiveCardinality ==
  ASSUME NEW S, NEW s \in Seq(S), IsInjective(s)
  PROVE  IsFiniteSet(ToSet(s)) /\ Cardinality(ToSet(s)) = Len(s)
<1> DEFINE D == 1 .. Len(s)
<1>1. DOMAIN s = D /\ Len(s) \in Nat /\ s \in [D -> S]
  OBVIOUS
<1>2. ToSet(s) = {s[i] : i \in D}
  BY ToSetRange
<1>3. s \in [D -> ToSet(s)]
  BY <1>1, <1>2
<1>4. s \in Surjection(D, ToSet(s))
  BY <1>2, <1>3 DEF Surjection
<1>5. s \in Injection(D, ToSet(s))
  BY <1>1, <1>3 DEF Injection, IsInjective
<1>6. IsFiniteSet(D) /\ Cardinality(D) = Len(s)
  BY <1>1, FS_Interval
<1> HIDE DEF D
<1>7. QED
  BY <1>4, <1>5, <1>6, FS_Surjection

(* While no thread is in a critical section, the handles Close would clean up
   are those of the pool.                                                  *)
LEMMA QuietPool == IInv /\ mutex = NoThread => Unswept = Pooled
<1> SUFFICES ASSUME IInv, mutex = NoThread PROVE Unswept = Pooled
  OBVIOUS
<1>1. swept = 0 /\ idle \in Seq(Handles)
  BY NoThreadAssumption
  DEF IInv, Control, TypeOK, MutexInv, Critical, Ownership, SweepInv, Sweeping
<1>2. QED
  BY <1>1, ToSetRange DEF Unswept, Pooled

(* No handle leaks and none is cleaned up twice, whatever throws: outside the
   critical sections the live handles are the idle and the borrowed ones.  *)
THEOREM Accounted == Spec => []LiveAccounted
<1>1. IInv => LiveAccounted
  <2> SUFFICES ASSUME IInv, mutex = NoThread
               PROVE  live = Pooled \cup Borrowed /\ Cardinality(Pooled) = Len(idle)
    BY DEF LiveAccounted, Borrowed
  <2>1. live = Pooled \cup Borrowed
    BY QuietPool DEF IInv, Ownership, LiveInv
  <2>2. Cardinality(Pooled) = Len(idle)
    BY InjectiveCardinality DEF IInv, Control, TypeOK, Ownership, PoolInv, Pooled
  <2>3. QED
    BY <2>1, <2>2
<1>2. QED
  BY <1>1, Invariance, PTL

(* push_back of ReleaseHandle stays within the reserved capacity. *)
THEOREM Bounded == Spec => []PoolBounded
<1>1. IInv => PoolBounded
  BY DEF IInv, Ownership, PoolInv, PoolBounded
<1>2. QED
  BY <1>1, Invariance, PTL

(* curl_easy_reset in Send keeps a transfer from using the frame, or the
   request body, of an earlier one.                                        *)
THEOREM OptionsSafe == Spec => []OptionsOwned
<1>1. IInv => OptionsOwned
  BY DEF IInv, Lifetime
<1>2. QED
  BY <1>1, Invariance, PTL

(* ~CurlHttpTransport leaves no handle behind. *)
THEOREM Destruction == Spec => []NothingLeaksAfterDestruction
<1>1. IInv => NothingLeaksAfterDestruction
  <2> SUFFICES ASSUME IInv, object = "gone" PROVE live = {}
    BY DEF NothingLeaksAfterDestruction
  <2>1. closed /\ \A t \in Threads : pc[t] = "out"
    BY DEF IInv, Lifetime, ObjectInv
  <2>2. swept = 0 /\ idle = << >>
    BY <2>1 DEF IInv, Ownership, SweepInv, Sweeping
  <2>3. Unswept = {} /\ Borrowed = {}
    BY <2>1, <2>2 DEF Unswept, Borrowed, Borrowing, SendSteps, ReleaseSteps
  <2>4. QED
    BY <2>3 DEF IInv, Ownership, LiveInv
<1>2. QED
  BY <1>1, Invariance, PTL

(* Once closed_ is set AcquireHandle throws: no step gives a thread a handle. *)
THEOREM NoneAfterClose == Spec => NoAcquireAfterClose
<1>1. ASSUME Control, [Next]_vars, closed, NEW t \in Threads
      PROVE  handle'[t] \in {handle[t], NoHandle}
  <2> USE DEF Control, TypeOK
  <2>1. ASSUME NEW u \in Threads, ReleaseHandle(u) PROVE handle'[t] \in {handle[t], NoHandle}
    BY <2>1 DEF ReleaseHandle
  <2>2. ASSUME NEW u \in Threads, AcquireBack(u) \/ AcquireFresh(u) PROVE FALSE
    BY <1>1, <2>2 DEF AcquireBack, AcquireFresh
  <2>3. CASE handle' = handle
    BY <2>3
  <2>4. QED
    BY <1>1, <2>1, <2>2, <2>3
    DEF Next, Proceed, Terminated, vars, SendCall, CloseCall, Call, Destroy,
        AcquireLock, AcquireRefused, AcquirePop, AcquireFails, SetUp, SetUpFails,
        Perform, ReleaseLock, CloseLock, Lock, CloseFree, CloseLoopEnds, CloseClear
<1>2. Control /\ [Next]_vars =>
        [closed => \A t \in Threads : handle'[t] \in {handle[t], NoHandle}]_vars
  BY <1>1
<1>3. IInv => Control
  BY DEF IInv
<1>4. QED
  BY <1>2, <1>3, Invariance, PTL DEF Spec, NoAcquireAfterClose

-----------------------------------------------------------------------------
(* At most one handle per thread. *)

LEMMA AtMostOneEach ==
  Control => IsFiniteSet(Borrowed) /\ Cardinality(Borrowed) <= Cardinality(Threads)
<1> SUFFICES ASSUME Control
             PROVE  IsFiniteSet(Borrowed) /\ Cardinality(Borrowed) <= Cardinality(Threads)
  OBVIOUS
<1> DEFINE B == {t \in Threads : pc[t] \in Borrowing}
           f == [t \in B |-> handle[t]]
<1>1. Borrowed = {handle[t] : t \in B}
  BY DEF Borrowed
<1>2. f \in Surjection(B, Borrowed)
  BY <1>1 DEF Surjection
<1>3. IsFiniteSet(B) /\ Cardinality(B) <= Cardinality(Threads)
  BY ThreadsAssumption, FS_Subset
<1> HIDE DEF B, f
<1>4. IsFiniteSet(Borrowed) /\ Cardinality(Borrowed) <= Cardinality(B)
  BY <1>2, <1>3, FS_Surjection
<1>5. /\ Cardinality(B) \in Nat /\ Cardinality(Borrowed) \in Nat
      /\ Cardinality(Threads) \in Nat
  BY <1>3, <1>4, ThreadsAssumption, FS_CardinalityType
<1>6. QED
  BY <1>3, <1>4, <1>5

FewHandles == IsFiniteSet(live) /\ HandlesBounded

(* curl_easy_init is called with an empty pool only, so a transport never owns
   more easy handles than threads ever used it at the same time.           *)
THEOREM FewHandlesEver == Spec => []HandlesBounded
<1>1. Init => FewHandles
  BY FS_EmptySet, FS_CardinalityType, ThreadsAssumption
  DEF Init, FewHandles, HandlesBounded
<1>2. IInv' /\ (mutex = NoThread)' => (Unswept = Pooled)'
  BY QuietPool, PTL
<1>3. Control' => (IsFiniteSet(Borrowed) /\ Cardinality(Borrowed) <= Cardinality(Threads))'
  BY AtMostOneEach, PTL
<1>4. ASSUME IInv, IInv', FewHandles, [Next]_vars PROVE FewHandles'
  <2>1. CASE live' \subseteq live
    <3>1. IsFiniteSet(live') /\ Cardinality(live') <= Cardinality(live)
      BY <1>4, <2>1, FS_Subset DEF FewHandles
    <3>2. /\ Cardinality(live') \in Nat /\ Cardinality(live) \in Nat
          /\ Cardinality(Threads) \in Nat
      BY <1>4, <3>1, FS_CardinalityType, ThreadsAssumption DEF FewHandles
    <3>3. QED
      BY <1>4, <3>1, <3>2 DEF FewHandles, HandlesBounded
  <2>2. ASSUME NEW t \in Threads, AcquireFresh(t) PROVE FewHandles'
    <3>1. idle' = << >> /\ mutex' = NoThread
      BY <2>2 DEF AcquireFresh, Unlock
    <3>2. Unswept' = {}
      BY <1>4, <1>2, <3>1 DEF Pooled, ToSet
    <3>3. live' = Borrowed'
      BY <1>4, <3>2 DEF IInv, Ownership, LiveInv
    <3>4. IsFiniteSet(Borrowed') /\ Cardinality(Borrowed') <= Cardinality(Threads)
      BY <1>4, <1>3 DEF IInv
    <3>5. QED
      BY <3>3, <3>4 DEF FewHandles, HandlesBounded
  <2>3. QED
    BY <1>4, <2>1, <2>2
    DEF Next, Proceed, Terminated, vars, SendCall, CloseCall, Call, Destroy,
        AcquireLock, AcquireRefused, AcquireBack, AcquirePop, AcquireFails, SetUp,
        SetUpFails, Perform, ReleaseLock, ReleaseHandle, CloseLock, Lock, CloseFree,
        CloseLoopEnds, CloseClear
<1>5. FewHandles => HandlesBounded
  BY DEF FewHandles
<1>6. QED
  BY <1>1, <1>4, <1>5, Invariance, PTL DEF Spec

-----------------------------------------------------------------------------
(* CurlTransport implements HandlePool: under handles_mutex_ the pool's
   operations are atomic.  A call of AcquireHandle takes effect when it pops or
   allocates, one of ReleaseHandle when it runs, one of Close when it sets
   closed_.                                                                *)

(* The pool as HandlePool sees it. *)
AbsIdle == IF closed THEN {} ELSE Pooled
AbsLent == [t \in Threads |-> IF pc[t] \in Borrowing THEN handle[t] ELSE NoHandle]
AbsLive == IF closed THEN live \ Pooled ELSE live

LEMMA PoolInitially == Init => Pool!PoolInit
<1> SUFFICES ASSUME Init PROVE Pool!PoolInit
  OBVIOUS
<1>1. Pooled = {}
  BY DEF Init, Pooled, ToSet
<1>2. QED
  BY <1>1 DEF Init, Pool!PoolInit, Borrowing, SendSteps, ReleaseSteps

(* What the lock hides: a step that changes neither closed_ nor the borrowers
   leaves the abstract pool alone, as long as it frees pooled handles of a
   closed transport only.                                                  *)
LEMMA HiddenStep ==
  ASSUME Control, Control',
         closed' = closed,
         \A t \in Threads : pc'[t] \in Borrowing <=> pc[t] \in Borrowing,
         \A t \in Threads : pc[t] \in Borrowing => handle'[t] = handle[t],
         \/ idle' = idle /\ live' = live
         \/ closed /\ live' \ Pooled' = live \ Pooled
  PROVE  UNCHANGED Pool!poolVars
<1>1. Pooled' = Pooled \/ closed
  BY DEF Pooled
<1>2. AbsIdle' = AbsIdle /\ AbsLive' = AbsLive
  BY <1>1 DEF AbsIdle, AbsLive, Pooled
<1>3. AbsLent' = AbsLent
  BY DEF AbsLent
<1>4. QED
  BY <1>2, <1>3 DEF AbsIdle, AbsLive, AbsLent, Pool!poolVars

LEMMA PoolStep == IInv /\ IInv' /\ [Next]_vars => [Pool!PoolNext]_(Pool!poolVars)
<1> SUFFICES ASSUME IInv, IInv', [Next]_vars
             PROVE  Pool!PoolNext \/ UNCHANGED Pool!poolVars
  OBVIOUS
<1> DEFINE Hidden == UNCHANGED Pool!poolVars
<1>0. Control /\ Control' /\ Ownership /\ Ownership'
  BY DEF IInv
<1> USE DEF Control, TypeOK, Borrowing, SendSteps, ReleaseSteps, Goto, Unlock
<1>1. ASSUME NEW t \in Threads,
             SendCall(t) \/ CloseCall(t) \/ Destroy(t) \/ AcquireLock(t)
      PROVE  Hidden
  BY <1>0, <1>1, HiddenStep DEF SendCall, CloseCall, Call, Destroy, AcquireLock, Lock
<1>2. ASSUME NEW t \in Threads,
             AcquireRefused(t) \/ AcquireBack(t) \/ AcquireFails(t)
      PROVE  Hidden
  BY <1>0, <1>2, HiddenStep DEF AcquireRefused, AcquireBack, AcquireFails
<1>3. ASSUME NEW t \in Threads,
             SetUp(t) \/ SetUpFails(t) \/ Perform(t) \/ ReleaseLock(t)
      PROVE  Hidden
  BY <1>0, <1>3, HiddenStep DEF SetUp, SetUpFails, Perform, ReleaseLock, Lock
<1>4. ASSUME NEW t \in Threads, AcquirePop(t) PROVE Pool!LendIdle(t)
  <2>1. /\ idle # << >> /\ ~closed /\ handle[t] = Last(idle)
        /\ idle' = Front(idle) /\ closed' = closed /\ live' = live
        /\ handle' = handle /\ pc' = [pc EXCEPT ![t] = "setup"] /\ pc[t] = "acq_pop"
    BY <1>0, <1>4 DEF AcquirePop, Ownership, PopInv
  <2>2. Pooled = Pooled' \cup {handle[t]} /\ handle[t] \notin Pooled'
    BY <1>0, <2>1, PopBackSet, PopBackInjective DEF Pooled, Ownership, PoolInv
  <2>3. AbsLent[t] = NoHandle /\ AbsLent' = [AbsLent EXCEPT ![t] = handle[t]]
    BY <1>0, <2>1 DEF AbsLent
  <2>4. handle[t] \in AbsIdle /\ AbsIdle' = AbsIdle \ {handle[t]} /\ AbsLive' = AbsLive
    BY <2>1, <2>2 DEF AbsIdle, AbsLive
  <2>5. QED
    BY <2>1, <2>3, <2>4 DEF Pool!LendIdle, AbsIdle, AbsLive, AbsLent
<1>5. ASSUME NEW t \in Threads, AcquireFresh(t) PROVE Pool!LendFresh(t)
  <2>1. PICK h \in Handles \ live :
          live' = live \cup {h} /\ handle' = [handle EXCEPT ![t] = h]
    BY <1>5 DEF AcquireFresh
  <2>2. /\ idle = << >> /\ idle' = idle /\ ~closed /\ closed' = closed
        /\ pc' = [pc EXCEPT ![t] = "setup"] /\ pc[t] = "acq_body"
    BY <1>5 DEF AcquireFresh
  <2>3. AbsLent[t] = NoHandle /\ AbsLent' = [AbsLent EXCEPT ![t] = h]
    BY <1>0, <2>1, <2>2 DEF AbsLent
  <2>4. AbsIdle = {} /\ AbsIdle' = AbsIdle /\ AbsLive = live /\ AbsLive' = live'
    BY <2>2 DEF AbsIdle, AbsLive, Pooled, ToSet
  <2>5. QED
    BY <2>1, <2>2, <2>3, <2>4 DEF Pool!LendFresh, AbsIdle, AbsLive, AbsLent
<1>6. ASSUME NEW t \in Threads, ReleaseHandle(t) PROVE Pool!GiveBack(t)
  <2> DEFINE h == handle[t]
  <2>1. /\ h \in Handles /\ pc[t] = "rel_body"
        /\ handle' = [handle EXCEPT ![t] = NoHandle]
        /\ pc' = [pc EXCEPT ![t] = "out"] /\ closed' = closed
    BY <1>0, <1>6 DEF ReleaseHandle, HoldInv
  <2>2. AbsLent[t] = h /\ h # NoHandle /\ AbsLent' = [AbsLent EXCEPT ![t] = NoHandle]
    BY <1>0, <2>1, NoHandleAssumption DEF AbsLent
  <2>3. h \notin Pooled /\ (closed => idle = << >>)
    BY <1>0, <2>1 DEF Ownership, BorrowInv, SweepInv, Sweeping, MutexInv, Critical
  <2>4. closed => Pooled = {}
    BY <2>3 DEF Pooled, ToSet
  <2>5. Cardinality(Pooled) = Len(idle)
    BY <1>0, InjectiveCardinality DEF Ownership, PoolInv, Pooled
  <2>6. (/\ AbsLent[t] # NoHandle
         /\ AbsLent' = [AbsLent EXCEPT ![t] = NoHandle]
         /\ IF closed \/ Cardinality(AbsIdle) >= MaxIdle
              THEN AbsLive' = AbsLive \ {AbsLent[t]} /\ AbsIdle' = AbsIdle
              ELSE AbsIdle' = AbsIdle \cup {AbsLent[t]} /\ AbsLive' = AbsLive
         /\ closed' = closed) => Pool!GiveBack(t)
    BY DEF Pool!GiveBack, Cardinality, Pool!Cardinality, AbsIdle, AbsLive, AbsLent
  <2>7. CASE Discards(closed, Len(idle))
    <3>1. live' = live \ {h} /\ idle' = idle
      BY <1>6, <2>7 DEF ReleaseHandle
    <3>2. AbsIdle' = AbsIdle /\ AbsLive' = AbsLive \ {h}
      BY <2>1, <2>3, <3>1 DEF AbsIdle, AbsLive, Pooled
    <3>3. closed \/ Cardinality(AbsIdle) >= MaxIdle
      BY <2>5, <2>7 DEF Discards, AbsIdle
    <3>4. QED
      BY <2>1, <2>2, <2>6, <3>2, <3>3
  <2>8. CASE ~Discards(closed, Len(idle))
    <3>1. idle' = Append(idle, h) /\ live' = live
      BY <1>6, <2>8 DEF ReleaseHandle
    <3>2. Pooled' = Pooled \cup {h}
      BY <1>0, <2>1, <3>1, PushBackSet DEF Pooled
    <3>3. ~(closed \/ Cardinality(AbsIdle) >= MaxIdle)
      BY <2>5, <2>8 DEF Discards, AbsIdle
    <3>4. AbsIdle' = AbsIdle \cup {h} /\ AbsLive' = AbsLive
      BY <2>1, <3>1, <3>2, <3>3 DEF AbsIdle, AbsLive
    <3>5. QED
      BY <2>1, <2>2, <2>6, <3>3, <3>4
  <2>9. QED
    BY <2>7, <2>8
<1>7. ASSUME NEW t \in Threads, CloseLock(t) PROVE Pool!ClosePool
  <2>1. /\ closed' /\ idle' = idle /\ live' = live /\ handle' = handle
        /\ pc' = [pc EXCEPT ![t] = "close_loop"] /\ pc[t] = "close_wait"
        /\ mutex = NoThread
    BY <1>7 DEF CloseLock, Lock
  <2>2. closed => idle = << >>
    BY <1>0, <2>1, NoThreadAssumption
    DEF Ownership, SweepInv, Sweeping, MutexInv, Critical
  <2>3. closed => Pooled = {}
    BY <2>2 DEF Pooled, ToSet
  <2>4. AbsIdle' = {} /\ AbsLive' = AbsLive \ AbsIdle
    BY <2>1, <2>3 DEF AbsIdle, AbsLive, Pooled
  <2>5. AbsLent' = AbsLent
    BY <1>0, <2>1 DEF AbsLent
  <2>6. QED
    BY <2>1, <2>4, <2>5 DEF Pool!ClosePool, AbsIdle, AbsLive, AbsLent
<1>8. ASSUME NEW t \in Threads, CloseFree(t) PROVE Hidden
  <2>1. /\ idle' = idle /\ closed' = closed /\ pc' = pc /\ handle' = handle
        /\ live' = live \ {idle[swept + 1]} /\ swept + 1 \in DOMAIN idle
        /\ pc[t] = "close_loop"
    BY <1>0, <1>8 DEF CloseFree
  <2>2. closed
    BY <1>0, <2>1 DEF Ownership, SweepInv, Sweeping
  <2>3. idle[swept + 1] \in Pooled /\ Pooled' = Pooled
    BY <2>1 DEF Pooled, ToSet
  <2>4. live' \ Pooled' = live \ Pooled
    BY <2>1, <2>3
  <2>5. QED
    BY <1>0, <2>1, <2>2, <2>4, HiddenStep
<1>9. ASSUME NEW t \in Threads, CloseLoopEnds(t) PROVE Hidden
  BY <1>0, <1>9, HiddenStep DEF CloseLoopEnds
<1>10. ASSUME NEW t \in Threads, CloseClear(t) PROVE Hidden
  <2>1. /\ idle' = << >> /\ closed' = closed /\ live' = live /\ handle' = handle
        /\ pc' = [pc EXCEPT ![t] = "out"] /\ pc[t] = "close_clear"
    BY <1>10 DEF CloseClear
  <2>2. closed /\ swept = Len(idle)
    BY <1>0, <2>1 DEF Ownership, SweepInv, Sweeping
  <2>3. Unswept = {}
    <3>1. \A i \in swept + 1 .. Len(idle) : FALSE
      BY <1>0, <2>2
    <3>2. QED
      BY <3>1 DEF Unswept
  <2>4. live \cap Pooled = {} /\ Pooled' = {}
    BY <1>0, <2>1, <2>3 DEF Ownership, LiveInv, BorrowInv, Borrowed, Pooled, ToSet
  <2>5. QED
    BY <1>0, <2>1, <2>2, <2>4, HiddenStep
<1>11. CASE UNCHANGED vars
  BY <1>0, <1>11, HiddenStep DEF vars
<1>12. QED
  BY <1>1, <1>2, <1>3, <1>4, <1>5, <1>6, <1>7, <1>8, <1>9, <1>10, <1>11
  DEF Next, Proceed, Terminated, Pool!PoolNext

(* The mutex makes CurlHttpTransport's pool the atomic one of HandlePool. *)
THEOREM Implementation == Spec => ImplementsPool
  BY PoolInitially, PoolStep, Invariance, PTL DEF Spec, ImplementsPool, Pool!PoolSpec
=============================================================================
