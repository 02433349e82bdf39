--------------------------- MODULE AutoRenewProofs ---------------------------
(***************************************************************************)
(* What holds of the auto-renewer for any threads, callers and settings:   *)
(* of its threads (VaultAutoRenewer) and of its waits (LeaseSchedule).     *)
(*                                                                         *)
(* SharedInv is inductive whatever the number of callers; it gives mutual  *)
(* exclusion, honest results and "no attempt once stopped".  OneCallerInv  *)
(* is inductive next to it when one application thread controls the        *)
(* renewer; it gives the single loop and, with it, the implementation of   *)
(* RenewalService.  AgeInv bounds how long the session can go without a    *)
(* renewal, for any intervals, margin and leases, and CoverInv says when   *)
(* that is short enough.                                                   *)
(***************************************************************************)
EXTENDS VaultAutoRenewer, LeaseSchedule, TLAPS

\* One application thread calls start() and stop(): nothing in the code
\* serialises them.
OneCaller == \A a, b \in Callers : a = b

-----------------------------------------------------------------------------
(* Types *)

LEMMA TypeInit == Init => TypeOK
  BY ProcessAssumption DEF Init, TypeOK, Procs, ThreadPcs, CallerPcs

LEMMA TypeStep == TypeOK /\ [Next]_vars => TypeOK'
<1> SUFFICES ASSUME TypeOK, [Next]_vars PROVE TypeOK'
  OBVIOUS
<1> USE ProcessAssumption, ConfigAssumption
    DEF TypeOK, Procs, Goto, Moves, Gives, Forget, control, renewal,
        ThreadPcs, CallerPcs, AlivePcs, CritPcs, StartPcs, StopPcs, NoOrRaised, AfterRenewal
<1>1. CASE UNCHANGED vars
  BY <1>1 DEF vars
<1>2. ASSUME NEW c \in Callers, StartSeesLoop(c) PROVE TypeOK'
  BY <1>2 DEF StartSeesLoop
<1>3. ASSUME NEW c \in Callers, StartProceeds(c) PROVE TypeOK'
  BY <1>3 DEF StartProceeds
<1>4. ASSUME NEW c \in Callers, StopSet(c) PROVE TypeOK'
  BY <1>4 DEF StopSet
<1>5. ASSUME NEW c \in Callers, RenewByHand(c) PROVE TypeOK'
  BY <1>5 DEF RenewByHand
<1>6. ASSUME NEW c \in Callers, StartClear(c) PROVE TypeOK'
  BY <1>6 DEF StartClear
<1>7. ASSUME NEW c \in Callers, StartCreate(c) PROVE TypeOK'
  BY <1>7 DEF StartCreate, Unreferenced
<1>8. ASSUME NEW c \in Callers, StartLaunch(c) PROVE TypeOK'
  BY <1>8 DEF StartLaunch
<1>9. ASSUME NEW c \in Callers, StopCheck(c) PROVE TypeOK'
  BY <1>9 DEF StopCheck
<1>10. ASSUME NEW c \in Callers, StopJoin(c) PROVE TypeOK'
  BY <1>10 DEF StopJoin
<1>11. ASSUME NEW c \in Callers, StopJoined(c) PROVE TypeOK'
  BY <1>11 DEF StopJoined
<1>12. ASSUME NEW c \in Callers, StopReport(c) PROVE TypeOK'
  BY <1>12 DEF StopReport
<1>13. ASSUME NEW t \in Threads, LoopCheck(t) PROVE TypeOK'
  BY <1>13 DEF LoopCheck
<1>14. ASSUME NEW t \in Threads, WaitTimesOut(t) PROVE TypeOK'
  BY <1>14 DEF WaitTimesOut
<1>15. ASSUME NEW t \in Threads, WaitInterrupted(t) PROVE TypeOK'
  BY <1>15 DEF WaitInterrupted
<1>16. ASSUME NEW t \in Threads, Book(t) PROVE TypeOK'
  BY <1>16 DEF Book
<1>17. ASSUME NEW t \in Threads, LoopExcept(t) PROVE TypeOK'
  BY <1>17 DEF LoopExcept
<1>18. ASSUME NEW p \in Procs, Acquire(p) PROVE TypeOK'
  BY <1>18 DEF Acquire
<1>19. ASSUME NEW p \in Procs, RenewSelfGranted(p) PROVE TypeOK'
  BY <1>19 DEF RenewSelfGranted
<1>20. ASSUME NEW p \in Procs, RenewSelfFails(p) PROVE TypeOK'
  BY <1>20 DEF RenewSelfFails
<1>21. ASSUME NEW p \in Procs, JwtFound(p) PROVE TypeOK'
  BY <1>21 DEF JwtFound
<1>22. ASSUME NEW p \in Procs, JwtMissing(p) PROVE TypeOK'
  BY <1>22 DEF JwtMissing
<1>23. ASSUME NEW p \in Procs, JwtUnreadable(p) PROVE TypeOK'
  BY <1>23 DEF JwtUnreadable
<1>24. ASSUME NEW p \in Procs, LoginGranted(p) PROVE TypeOK'
  BY <1>24 DEF LoginGranted
<1>25. ASSUME NEW p \in Procs, LoginRefused(p) PROVE TypeOK'
  BY <1>25 DEF LoginRefused
<1>26. ASSUME NEW p \in Procs, Confirmed(p) PROVE TypeOK'
  BY <1>26 DEF Confirmed
<1>27. ASSUME NEW p \in Procs, NotConfirmed(p) PROVE TypeOK'
  BY <1>27 DEF NotConfirmed
<1>28. ASSUME NEW p \in Procs, Release(p) PROVE TypeOK'
  BY <1>28 DEF Release
<1>29. CASE Expire
  BY <1>29 DEF Expire
<1> QED
  BY <1>1, <1>2, <1>3, <1>4, <1>5, <1>6, <1>7, <1>8, <1>9, <1>10, <1>11, <1>12, <1>13, <1>14, <1>15, <1>16, <1>17, <1>18, <1>19, <1>20, <1>21, <1>22, <1>23, <1>24, <1>25, <1>26, <1>27, <1>28, <1>29
  DEF Next, Call, CallStep, LoopStep, RenewOnce

\* Every reachable state of the renewer is well typed: no access to _thread,
\* _stop, _lock or the status fields leaves a value outside its type.
THEOREM TypeCorrect == Safe => []TypeOK
  BY TypeInit, TypeStep, PTL DEF Safe

-----------------------------------------------------------------------------
(* Any number of callers *)

LEMMA SharedInit == Init => SharedInv
<1> SUFFICES ASSUME Init PROVE SharedInv
  OBVIOUS
<1>1. TypeOK
  BY TypeInit
<1>2. \A p \in Procs : pc[p] \in {"unused", "idle"} /\ p # None /\ outcome[p] = "none"
  BY ProcessAssumption DEF Init, Procs
<1>3. LockHeld /\ ResultInv /\ HonestSuccess /\ NoSleeper
  BY <1>2 DEF Init, LockHeld, ResultInv, HonestSuccess, NoSleeper, CritPcs, Procs
<1> QED
  BY <1>1, <1>3 DEF SharedInv

LEMMA SharedStep == SharedInv /\ [Next]_vars => SharedInv'
<1> SUFFICES ASSUME SharedInv, [Next]_vars PROVE LockHeld' /\ ResultInv' /\ HonestSuccess' /\ NoSleeper'
  BY TypeStep DEF SharedInv
<1> USE ProcessAssumption, ConfigAssumption
    DEF SharedInv, TypeOK, LockHeld, ResultInv, HonestSuccess, NoSleeper, Procs, Goto, Moves, Gives, Forget,
        control, renewal, ThreadPcs, CallerPcs, AlivePcs, CritPcs, StartPcs, StopPcs, NoOrRaised
<1>1. CASE UNCHANGED vars
  BY <1>1 DEF vars
<1>2. ASSUME NEW c \in Callers, StartSeesLoop(c) PROVE LockHeld' /\ ResultInv' /\ HonestSuccess' /\ NoSleeper'
  BY <1>2 DEF StartSeesLoop
<1>3. ASSUME NEW c \in Callers, StartProceeds(c) PROVE LockHeld' /\ ResultInv' /\ HonestSuccess' /\ NoSleeper'
  BY <1>3 DEF StartProceeds
<1>4. ASSUME NEW c \in Callers, StopSet(c) PROVE LockHeld' /\ ResultInv' /\ HonestSuccess' /\ NoSleeper'
  BY <1>4 DEF StopSet
<1>5. ASSUME NEW c \in Callers, RenewByHand(c) PROVE LockHeld' /\ ResultInv' /\ HonestSuccess' /\ NoSleeper'
  BY <1>5 DEF RenewByHand
<1>6. ASSUME NEW c \in Callers, StartClear(c) PROVE LockHeld' /\ ResultInv' /\ HonestSuccess' /\ NoSleeper'
  BY <1>6 DEF StartClear
<1>7. ASSUME NEW c \in Callers, StartCreate(c) PROVE LockHeld' /\ ResultInv' /\ HonestSuccess' /\ NoSleeper'
  BY <1>7 DEF StartCreate, Unreferenced
<1>8. ASSUME NEW c \in Callers, StartLaunch(c) PROVE LockHeld' /\ ResultInv' /\ HonestSuccess' /\ NoSleeper'
  BY <1>8 DEF StartLaunch
<1>9. ASSUME NEW c \in Callers, StopCheck(c) PROVE LockHeld' /\ ResultInv' /\ HonestSuccess' /\ NoSleeper'
  BY <1>9 DEF StopCheck
<1>10. ASSUME NEW c \in Callers, StopJoin(c) PROVE LockHeld' /\ ResultInv' /\ HonestSuccess' /\ NoSleeper'
  BY <1>10 DEF StopJoin
<1>11. ASSUME NEW c \in Callers, StopJoined(c) PROVE LockHeld' /\ ResultInv' /\ HonestSuccess' /\ NoSleeper'
  BY <1>11 DEF StopJoined
<1>12. ASSUME NEW c \in Callers, StopReport(c) PROVE LockHeld' /\ ResultInv' /\ HonestSuccess' /\ NoSleeper'
  BY <1>12 DEF StopReport
<1>13. ASSUME NEW t \in Threads, LoopCheck(t) PROVE LockHeld' /\ ResultInv' /\ HonestSuccess' /\ NoSleeper'
  BY <1>13 DEF LoopCheck
<1>14. ASSUME NEW t \in Threads, WaitTimesOut(t) PROVE LockHeld' /\ ResultInv' /\ HonestSuccess' /\ NoSleeper'
  BY <1>14 DEF WaitTimesOut
<1>15. ASSUME NEW t \in Threads, WaitInterrupted(t) PROVE LockHeld' /\ ResultInv' /\ HonestSuccess' /\ NoSleeper'
  BY <1>15 DEF WaitInterrupted
<1>16. ASSUME NEW t \in Threads, Book(t) PROVE LockHeld' /\ ResultInv' /\ HonestSuccess' /\ NoSleeper'
  BY <1>16 DEF Book
<1>17. ASSUME NEW t \in Threads, LoopExcept(t) PROVE LockHeld' /\ ResultInv' /\ HonestSuccess' /\ NoSleeper'
  BY <1>17 DEF LoopExcept
<1>18. ASSUME NEW p \in Procs, Acquire(p) PROVE LockHeld' /\ ResultInv' /\ HonestSuccess' /\ NoSleeper'
  BY <1>18 DEF Acquire
<1>19. ASSUME NEW p \in Procs, RenewSelfGranted(p) PROVE LockHeld' /\ ResultInv' /\ HonestSuccess' /\ NoSleeper'
  BY <1>19 DEF RenewSelfGranted
<1>20. ASSUME NEW p \in Procs, RenewSelfFails(p) PROVE LockHeld' /\ ResultInv' /\ HonestSuccess' /\ NoSleeper'
  BY <1>20 DEF RenewSelfFails
<1>21. ASSUME NEW p \in Procs, JwtFound(p) PROVE LockHeld' /\ ResultInv' /\ HonestSuccess' /\ NoSleeper'
  BY <1>21 DEF JwtFound
<1>22. ASSUME NEW p \in Procs, JwtMissing(p) PROVE LockHeld' /\ ResultInv' /\ HonestSuccess' /\ NoSleeper'
  BY <1>22 DEF JwtMissing
<1>23. ASSUME NEW p \in Procs, JwtUnreadable(p) PROVE LockHeld' /\ ResultInv' /\ HonestSuccess' /\ NoSleeper'
  BY <1>23 DEF JwtUnreadable
<1>24. ASSUME NEW p \in Procs, LoginGranted(p) PROVE LockHeld' /\ ResultInv' /\ HonestSuccess' /\ NoSleeper'
  BY <1>24 DEF LoginGranted
<1>25. ASSUME NEW p \in Procs, LoginRefused(p) PROVE LockHeld' /\ ResultInv' /\ HonestSuccess' /\ NoSleeper'
  BY <1>25 DEF LoginRefused
<1>26. ASSUME NEW p \in Procs, Confirmed(p) PROVE LockHeld' /\ ResultInv' /\ HonestSuccess' /\ NoSleeper'
  BY <1>26 DEF Confirmed
<1>27. ASSUME NEW p \in Procs, NotConfirmed(p) PROVE LockHeld' /\ ResultInv' /\ HonestSuccess' /\ NoSleeper'
  BY <1>27 DEF NotConfirmed
<1>28. ASSUME NEW p \in Procs, Release(p) PROVE LockHeld' /\ ResultInv' /\ HonestSuccess' /\ NoSleeper'
  BY <1>28 DEF Release, AfterRenewal
<1>29. CASE Expire
  BY <1>29 DEF Expire
<1> QED
  BY <1>1, <1>2, <1>3, <1>4, <1>5, <1>6, <1>7, <1>8, <1>9, <1>10, <1>11, <1>12, <1>13, <1>14, <1>15, <1>16, <1>17, <1>18, <1>19, <1>20, <1>21, <1>22, <1>23, <1>24, <1>25, <1>26, <1>27, <1>28, <1>29
  DEF Next, Call, CallStep, LoopStep, RenewOnce

\* What callers and loops share, whoever calls what.
THEOREM Shared == Safe => []SharedInv
  BY SharedInit, SharedStep, PTL DEF Safe

\* Two processes never renew at the same time, and the lock is given back on
\* every way out of renew_once().
THEOREM MutualExclusion == Safe => []LockHeld
  BY Shared, PTL DEF SharedInv

\* A renewal that renew_once() reports is one Vault granted in that attempt.
THEOREM HonestResults == Safe => []HonestSuccess
  BY Shared, PTL DEF SharedInv

\* With the stop flag up no loop starts another renewal, however calls of
\* start(), stop() and renew_once() overlap.
THEOREM NoAttempt == Safe => NoAttemptOnceStopped
<1> DEFINE Step == \A t \in Threads : pc[t] # "acquire" /\ pc'[t] = "acquire" => ~stopFlag
<1>1. SharedInv /\ [Next]_vars => [Step]_vars
  <2> SUFFICES ASSUME SharedInv, Next, NEW t \in Threads, pc[t] # "acquire", pc'[t] = "acquire"
               PROVE  ~stopFlag
    OBVIOUS
  <2> USE ProcessAssumption
      DEF SharedInv, TypeOK, NoSleeper, Procs, Goto, Moves, Gives, ThreadPcs, CallerPcs
  <2>1. \E w \in Threads : WaitTimesOut(w)
    BY DEF Next, Call, CallStep, LoopStep, RenewOnce, AfterRenewal,
           StartSeesLoop, StartProceeds, StopSet, RenewByHand, StartClear, StartCreate, Unreferenced,
           StartLaunch, StopCheck, StopJoin, StopJoined, StopReport, LoopCheck, WaitTimesOut,
           WaitInterrupted, Book, LoopExcept, Acquire, RenewSelfGranted, RenewSelfFails, JwtFound,
           JwtMissing, JwtUnreadable, LoginGranted, LoginRefused, Confirmed, NotConfirmed, Release, Expire
  <2> QED
    BY <2>1 DEF WaitTimesOut
<1> QED
  BY <1>1, Shared, PTL DEF Safe, NoAttemptOnceStopped

-----------------------------------------------------------------------------
(* One caller *)

LEMMA OneCallerInit == Init => OneCallerInv
  BY ProcessAssumption
  DEF Init, OneCallerInv, OneLoop, StartInv, Alive, AlivePcs, CritPcs, StartPcs, Procs

LEMMA OneCallerStep ==
  ASSUME OneCaller, TypeOK, OneCallerInv, [Next]_vars
  PROVE  OneCallerInv'
<1> USE ProcessAssumption
    DEF OneCaller, TypeOK, OneCallerInv, OneLoop, StartInv, Alive, Procs, Goto, Moves, Gives, control, renewal,
        ThreadPcs, CallerPcs, AlivePcs, CritPcs, StartPcs, StopPcs
<1>1. CASE UNCHANGED vars
  BY <1>1 DEF vars
<1>2. ASSUME NEW c \in Callers, StartSeesLoop(c) PROVE OneCallerInv'
  BY <1>2 DEF StartSeesLoop
<1>3. ASSUME NEW c \in Callers, StartProceeds(c) PROVE OneCallerInv'
  BY <1>3 DEF StartProceeds, SeesAlive
<1>4. ASSUME NEW c \in Callers, StopSet(c) PROVE OneCallerInv'
  BY <1>4 DEF StopSet
<1>5. ASSUME NEW c \in Callers, RenewByHand(c) PROVE OneCallerInv'
  BY <1>5 DEF RenewByHand
<1>6. ASSUME NEW c \in Callers, StartClear(c) PROVE OneCallerInv'
  BY <1>6 DEF StartClear
<1>7. ASSUME NEW c \in Callers, StartCreate(c) PROVE OneCallerInv'
  BY <1>7 DEF StartCreate, Unreferenced
<1>8. ASSUME NEW c \in Callers, StartLaunch(c) PROVE OneCallerInv'
  BY <1>8 DEF StartLaunch
<1>9. ASSUME NEW c \in Callers, StopCheck(c) PROVE OneCallerInv'
  BY <1>9 DEF StopCheck, SeesAlive
<1>10. ASSUME NEW c \in Callers, StopJoin(c) PROVE OneCallerInv'
  BY <1>10 DEF StopJoin
<1>11. ASSUME NEW c \in Callers, StopJoined(c) PROVE OneCallerInv'
  BY <1>11 DEF StopJoined
<1>12. ASSUME NEW c \in Callers, StopReport(c) PROVE OneCallerInv'
  BY <1>12 DEF StopReport
<1>13. ASSUME NEW t \in Threads, LoopCheck(t) PROVE OneCallerInv'
  BY <1>13 DEF LoopCheck
<1>14. ASSUME NEW t \in Threads, WaitTimesOut(t) PROVE OneCallerInv'
  BY <1>14 DEF WaitTimesOut
<1>15. ASSUME NEW t \in Threads, WaitInterrupted(t) PROVE OneCallerInv'
  BY <1>15 DEF WaitInterrupted
<1>16. ASSUME NEW t \in Threads, Book(t) PROVE OneCallerInv'
  BY <1>16 DEF Book
<1>17. ASSUME NEW t \in Threads, LoopExcept(t) PROVE OneCallerInv'
  BY <1>17 DEF LoopExcept
<1>18. ASSUME NEW p \in Procs, Acquire(p) PROVE OneCallerInv'
  BY <1>18 DEF Acquire
<1>19. ASSUME NEW p \in Procs, RenewSelfGranted(p) PROVE OneCallerInv'
  BY <1>19 DEF RenewSelfGranted
<1>20. ASSUME NEW p \in Procs, RenewSelfFails(p) PROVE OneCallerInv'
  BY <1>20 DEF RenewSelfFails
<1>21. ASSUME NEW p \in Procs, JwtFound(p) PROVE OneCallerInv'
  BY <1>21 DEF JwtFound
<1>22. ASSUME NEW p \in Procs, JwtMissing(p) PROVE OneCallerInv'
  BY <1>22 DEF JwtMissing
<1>23. ASSUME NEW p \in Procs, JwtUnreadable(p) PROVE OneCallerInv'
  BY <1>23 DEF JwtUnreadable
<1>24. ASSUME NEW p \in Procs, LoginGranted(p) PROVE OneCallerInv'
  BY <1>24 DEF LoginGranted
<1>25. ASSUME NEW p \in Procs, LoginRefused(p) PROVE OneCallerInv'
  BY <1>25 DEF LoginRefused
<1>26. ASSUME NEW p \in Procs, Confirmed(p) PROVE OneCallerInv'
  BY <1>26 DEF Confirmed
<1>27. ASSUME NEW p \in Procs, NotConfirmed(p) PROVE OneCallerInv'
  BY <1>27 DEF NotConfirmed
<1>28. ASSUME NEW p \in Procs, Release(p) PROVE OneCallerInv'
  BY <1>28 DEF Release, AfterRenewal
<1>29. CASE Expire
  BY <1>29 DEF Expire
<1> QED
  BY <1>1, <1>2, <1>3, <1>4, <1>5, <1>6, <1>7, <1>8, <1>9, <1>10, <1>11, <1>12, <1>13, <1>14, <1>15, <1>16, <1>17, <1>18, <1>19, <1>20, <1>21, <1>22, <1>23, <1>24, <1>25, <1>26, <1>27, <1>28, <1>29
  DEF Next, Call, CallStep, LoopStep, RenewOnce

\* What one caller keeps between its steps and those of the loops.
THEOREM OneCallerAlways == ASSUME OneCaller PROVE Safe => []OneCallerInv
<1>1. TypeOK /\ OneCallerInv /\ [Next]_vars => OneCallerInv'
  BY OneCallerStep
<1> QED
  BY <1>1, OneCallerInit, TypeCorrect, PTL DEF Safe

\* With one caller at most one loop is alive, and stop() can reach it.
THEOREM SingleLoop == ASSUME OneCaller PROVE Safe => []OneLoop
  BY OneCallerAlways, PTL DEF OneCallerInv

-----------------------------------------------------------------------------
(* The threads implement the service *)

\* The actions that neither begin nor end a loop, move the flag or touch the
\* session.
Quiet ==
  \/ \E c \in Callers : \/ StartSeesLoop(c) \/ StartProceeds(c) \/ RenewByHand(c) \/ StartCreate(c)
                        \/ StopCheck(c) \/ StopJoin(c) \/ StopJoined(c) \/ StopReport(c)
  \/ \E t \in Threads : WaitTimesOut(t) \/ Book(t)
  \/ \E p \in Procs : \/ Acquire(p) \/ RenewSelfGranted(p) \/ RenewSelfFails(p) \/ JwtFound(p)
                      \/ JwtMissing(p) \/ JwtUnreadable(p) \/ LoginRefused(p) \/ Confirmed(p)
                      \/ NotConfirmed(p) \/ Release(p)

LEMMA NextSplits ==
  Next <=> \/ Quiet
           \/ \E c \in Callers : StopSet(c) \/ StartClear(c) \/ StartLaunch(c)
           \/ \E t \in Threads : LoopCheck(t) \/ WaitInterrupted(t) \/ LoopExcept(t)
           \/ \E p \in Procs : LoginGranted(p)
           \/ Expire
  BY DEF Next, Quiet, Call, CallStep, LoopStep, RenewOnce

LEMMA QuietStep ==
  ASSUME TypeOK, Quiet
  PROVE  Alive' = Alive /\ stopFlag' = stopFlag /\ session' = session
<1> DEFINE Goal == Alive' = Alive /\ stopFlag' = stopFlag /\ session' = session
<1> SUFFICES Goal
  OBVIOUS
<1> USE ProcessAssumption
    DEF TypeOK, Alive, Procs, Goto, Moves, Gives, Forget, control, renewal,
        ThreadPcs, CallerPcs, AlivePcs, CritPcs, StartPcs, StopPcs
<1>1. ASSUME NEW c \in Callers, StartSeesLoop(c) PROVE Goal
  BY <1>1 DEF StartSeesLoop
<1>2. ASSUME NEW c \in Callers, StartProceeds(c) PROVE Goal
  BY <1>2 DEF StartProceeds, SeesAlive
<1>3. ASSUME NEW c \in Callers, RenewByHand(c) PROVE Goal
  BY <1>3 DEF RenewByHand
<1>4. ASSUME NEW c \in Callers, StartCreate(c) PROVE Goal
  BY <1>4 DEF StartCreate, Unreferenced
<1>5. ASSUME NEW c \in Callers, StopCheck(c) PROVE Goal
  BY <1>5 DEF StopCheck, SeesAlive
<1>6. ASSUME NEW c \in Callers, StopJoin(c) PROVE Goal
  BY <1>6 DEF StopJoin
<1>7. ASSUME NEW c \in Callers, StopJoined(c) PROVE Goal
  BY <1>7 DEF StopJoined
<1>8. ASSUME NEW c \in Callers, StopReport(c) PROVE Goal
  BY <1>8 DEF StopReport
<1>9. ASSUME NEW t \in Threads, WaitTimesOut(t) PROVE Goal
  BY <1>9 DEF WaitTimesOut
<1>10. ASSUME NEW t \in Threads, Book(t) PROVE Goal
  BY <1>10 DEF Book
<1>11. ASSUME NEW p \in Procs, Acquire(p) PROVE Goal
  BY <1>11 DEF Acquire
<1>12. ASSUME NEW p \in Procs, RenewSelfGranted(p) PROVE Goal
  BY <1>12 DEF RenewSelfGranted
<1>13. ASSUME NEW p \in Procs, RenewSelfFails(p) PROVE Goal
  BY <1>13 DEF RenewSelfFails
<1>14. ASSUME NEW p \in Procs, JwtFound(p) PROVE Goal
  BY <1>14 DEF JwtFound
<1>15. ASSUME NEW p \in Procs, JwtMissing(p) PROVE Goal
  BY <1>15 DEF JwtMissing
<1>16. ASSUME NEW p \in Procs, JwtUnreadable(p) PROVE Goal
  BY <1>16 DEF JwtUnreadable
<1>17. ASSUME NEW p \in Procs, LoginRefused(p) PROVE Goal
  BY <1>17 DEF LoginRefused
<1>18. ASSUME NEW p \in Procs, Confirmed(p) PROVE Goal
  BY <1>18 DEF Confirmed
<1>19. ASSUME NEW p \in Procs, NotConfirmed(p) PROVE Goal
  BY <1>19 DEF NotConfirmed
<1>20. ASSUME NEW p \in Procs, Release(p) PROVE Goal
  BY <1>20 DEF Release, AfterRenewal
<1> HIDE DEF Goal
<1> QED
  BY <1>1, <1>2, <1>3, <1>4, <1>5, <1>6, <1>7, <1>8, <1>9, <1>10, <1>11, <1>12, <1>13, <1>14, <1>15, <1>16, <1>17, <1>18, <1>19, <1>20 DEF Quiet

LEMMA ServiceInit == Init => Service!Init
  BY ProcessAssumption
  DEF Init, Service!Init, mode, Alive, AlivePcs, CritPcs, Procs

LEMMA ServiceStep ==
  ASSUME OneCaller, SharedInv, OneCallerInv, [Next]_vars
  PROVE  [Service!Next]_(Service!vars)
<1> USE ProcessAssumption, ConfigAssumption DEF SharedInv, TypeOK
<1> DEFINE Goal == [Service!Next]_(Service!vars)
<1> SUFFICES Goal
  OBVIOUS
<1>a. ASSUME Alive' = Alive, stopFlag' = stopFlag, session' = session
      PROVE  Goal
  BY <1>a DEF mode, Service!vars
<1>1. CASE UNCHANGED vars
  <2>1. Alive' = Alive
    BY <1>1 DEF vars, Alive
  <2> QED
    BY <1>1, <1>a, <2>1 DEF vars, control, renewal
<1>2. CASE Quiet
  BY <1>2, <1>a, QuietStep
<1>3. ASSUME NEW c \in Callers, StopSet(c)
      PROVE  Goal
  <2>1. Alive' = Alive
    BY <1>3 DEF StopSet, Alive, AlivePcs, CritPcs, Procs, CallerPcs
  <2>2. stopFlag' /\ session' = session
    BY <1>3 DEF StopSet, renewal
  <2> QED
    BY <2>1, <2>2 DEF mode, Service!Next, Service!Stop, Service!vars
<1>4. ASSUME NEW c \in Callers, StartClear(c)
      PROVE  Goal
  <2>1. Alive = {} /\ Alive' = {}
    BY <1>4 DEF StartClear, Goto, OneCallerInv, StartInv, StartPcs, Alive, AlivePcs, CritPcs, Procs
  <2> QED
    BY <1>4, <2>1 DEF StartClear, renewal, mode, Service!vars
<1>5. ASSUME NEW c \in Callers, StartLaunch(c)
      PROVE  Goal
  <2>1. Alive = {} /\ ~stopFlag /\ thread \in Threads /\ pc[thread] = "new"
    BY <1>5 DEF StartLaunch, OneCallerInv, StartInv, StartPcs
  <2>2. thread \in Alive' /\ ~stopFlag' /\ session' = session
    BY <1>5, <2>1 DEF StartLaunch, renewal, Alive, AlivePcs, Procs
  <2> QED
    BY <2>1, <2>2 DEF mode, Service!Next, Service!Start
<1>6. ASSUME NEW t \in Threads, t \in Alive, stopFlag \/ AuditMayFail, OneLoop,
             pc' = [pc EXCEPT ![t] = "dead"], stopFlag' = stopFlag, session' = session
      PROVE  Goal
  <2>1. Alive' = {}
    BY <1>6 DEF OneLoop, Alive, AlivePcs, CritPcs, Procs
  <2> QED
    BY <1>6, <2>1 DEF mode, Service!Next, Service!Finish, Service!Crash
<1>7. ASSUME NEW t \in Threads, LoopCheck(t)
      PROVE  Goal
  <2>1. CASE stopFlag
    BY <1>6, <1>7, <2>1 DEF LoopCheck, Goto, Moves, control, renewal, OneCallerInv, Alive, AlivePcs
  <2>2. CASE ~stopFlag
    <3>1. Alive' = Alive
      BY <1>7, <2>2 DEF LoopCheck, Goto, Moves, Alive, AlivePcs, Procs
    <3> QED
      BY <1>7, <1>a, <3>1 DEF LoopCheck, Moves, control, renewal
  <2> QED
    BY <2>1, <2>2
<1>8. ASSUME NEW t \in Threads, WaitInterrupted(t)
      PROVE  Goal
  BY <1>6, <1>8 DEF WaitInterrupted, Goto, Moves, control, renewal, OneCallerInv, StartInv, Alive, AlivePcs
<1>9. ASSUME NEW t \in Threads, LoopExcept(t)
      PROVE  Goal
  <2>1. CASE Goto(t, "except", "check")
    <3>1. Alive' = Alive
      BY <2>1 DEF Goto, Alive, AlivePcs, Procs
    <3> QED
      BY <1>9, <1>a, <3>1 DEF LoopExcept, control
  <2>2. CASE AuditMayFail /\ Goto(t, "except", "dead")
    BY <1>6, <1>9, <2>2 DEF LoopExcept, Goto, control, OneCallerInv, Alive, AlivePcs
  <2> QED
    BY <1>9, <2>1, <2>2 DEF LoopExcept
<1>10. ASSUME NEW p \in Procs, LoginGranted(p)
       PROVE  Goal
  <2>1. Alive' = Alive /\ stopFlag' = stopFlag
    BY <1>10 DEF LoginGranted, Goto, control, Alive, AlivePcs, CritPcs, Procs, CallerPcs
  <2>2. AuthMethod = "oidc" /\ (Alive # {} \/ Renewers # {})
    <3>1. pc[p] = "login"
      BY <1>10 DEF LoginGranted, Goto
    <3>2. p \in Threads => p \in Alive
      BY <3>1 DEF Alive, AlivePcs, CritPcs
    <3> QED
      BY <3>1, <3>2 DEF ResultInv, CritPcs, Procs
  <2>3. session' = "live"
    BY <1>10 DEF LoginGranted
  <2> QED
    BY <2>1, <2>2, <2>3 DEF mode, Service!Next, Service!Recover, Service!vars
<1>11. CASE Expire
  <2>1. Alive' = Alive /\ stopFlag' = stopFlag
    BY <1>11 DEF Expire, control, Alive
  <2> QED
    BY <1>11, <2>1 DEF Expire, mode, Service!Next, Service!Expire
<1> HIDE DEF Goal
<1> QED
  BY <1>1, <1>2, <1>3, <1>4, <1>5, <1>7, <1>8, <1>9, <1>10, <1>11, NextSplits

\* Controlled by one caller, the renewer is a service that is stopped, running
\* or stopping: it never leaves "stopping" but by stopping, and never stops by
\* itself unless an audit record may fail.
THEOREM Implements == ASSUME OneCaller PROVE Safe => ImplementsServiceSafely
<1>1. SharedInv /\ OneCallerInv /\ [Next]_vars => [Service!Next]_(Service!vars)
  BY ServiceStep
<1> QED
  BY <1>1, ServiceInit, Shared, OneCallerAlways, PTL DEF Safe, ImplementsServiceSafely, Service!Safe

\* Nothing but stop() ends a loop, and a failure to audit an exception.
THEOREM LoopEnds == ASSUME OneCaller PROVE Safe => LoopEndsOnlyIfStopped
<1> DEFINE Step == \A t \in Threads :
                     t \in Alive /\ t \notin Alive' => stopFlag \/ (AuditMayFail /\ pc[t] = "except")
<1>1. SharedInv /\ OneCallerInv /\ [Next]_vars => [Step]_vars
  <2> SUFFICES ASSUME SharedInv, OneCallerInv, Next, NEW t \in Threads, t \in Alive, t \notin Alive'
               PROVE  stopFlag \/ (AuditMayFail /\ pc[t] = "except")
    OBVIOUS
  <2> USE ProcessAssumption DEF SharedInv, TypeOK, Alive, AlivePcs, CritPcs, CallerPcs, Procs, Goto, Moves
  <2>1. ~Quiet /\ ~Expire
    BY QuietStep DEF Expire
  <2>2. \A c \in Callers : ~StopSet(c) /\ ~StartClear(c) /\ ~StartLaunch(c)
    BY DEF StopSet, StartClear, StartLaunch, OneCallerInv, StartInv, StartPcs
  <2>3. \A p \in Procs : ~LoginGranted(p)
    BY DEF LoginGranted
  <2>4. PICK u \in Threads : LoopCheck(u) \/ WaitInterrupted(u) \/ LoopExcept(u)
    BY <2>1, <2>2, <2>3, NextSplits
  <2>5. CASE LoopCheck(u) \/ WaitInterrupted(u)
    BY <2>5 DEF LoopCheck, WaitInterrupted, OneCallerInv, StartInv
  <2>6. CASE LoopExcept(u)
    BY <2>6 DEF LoopExcept
  <2> QED
    BY <2>4, <2>5, <2>6
<1> QED
  BY <1>1, Shared, OneCallerAlways, PTL DEF Safe, LoopEndsOnlyIfStopped

\* A start() that goes as far as launching a thread returns with that thread
\* running and the flag down, whatever loops have ended, or are ending, before.
THEOREM StartLeaves == ASSUME OneCaller PROVE Safe => StartLeavesLoop
<1> DEFINE Step == \A c \in Callers : pc[c] = "launch" /\ pc'[c] = "idle" => Running'
<1>1. SharedInv /\ OneCallerInv /\ [Next]_vars => [Step]_vars
  <2> SUFFICES ASSUME SharedInv, OneCallerInv, Next,
                      NEW c \in Callers, pc[c] = "launch", pc'[c] = "idle"
               PROVE  Running'
    OBVIOUS
  <2>1. StartLaunch(c)
    <3> USE ProcessAssumption
        DEF SharedInv, TypeOK, Procs, Goto, Moves, Gives, ThreadPcs, CallerPcs
    <3> QED
      BY DEF Next, Call, CallStep, LoopStep, RenewOnce, AfterRenewal,
             StartSeesLoop, StartProceeds, StopSet, RenewByHand, StartClear, StartCreate, Unreferenced,
             StartLaunch, StopCheck, StopJoin, StopJoined, StopReport, LoopCheck, WaitTimesOut,
             WaitInterrupted, Book, LoopExcept, Acquire, RenewSelfGranted, RenewSelfFails, JwtFound,
             JwtMissing, JwtUnreadable, LoginGranted, LoginRefused, Confirmed, NotConfirmed, Release, Expire
  <2>2. thread \in Threads /\ pc[thread] = "new" /\ ~stopFlag
    BY DEF OneCallerInv, StartInv
  <2>3. /\ pc' = [pc EXCEPT ![c] = "idle", ![thread] = "check"]
        /\ thread' = thread /\ stopFlag' = stopFlag
    BY <2>1, <2>2 DEF StartLaunch
  <2>4. pc'[thread] = "check"
    BY <2>2, <2>3, ProcessAssumption DEF SharedInv, TypeOK, Procs
  <2> QED
    BY <2>2, <2>3, <2>4 DEF Running, SeesAlive, Alive, AlivePcs
<1> QED
  BY <1>1, Shared, OneCallerAlways, PTL DEF Safe, StartLeavesLoop

-----------------------------------------------------------------------------
(* The schedule *)

\* A margin that leaves room for two calls in every lease: the one that
\* granted the lease and had to come back, and the one that renews it.
MarginCovers ==
  \A l \in Leases \cup {LoginLease} : ComputeWait(l) + 2 * MaxCall < l * MarginDen

-----------------------------------------------------------------------------
(* _compute_wait *)

LEMMA MaxWaitIsNat == MaxWait \in Nat
<1>1. \A a, b \in Nat : a * b \in Nat
  OBVIOUS
<1> QED
  BY <1>1, ScheduleAssumption DEF MaxWait, Larger

\* The wait is at least the minimum, and at most the larger of the two bounds.
LEMMA ComputeWaitBounds ==
  ASSUME NEW l \in Nat
  PROVE  /\ ComputeWait(l) \in Nat
         /\ MinInterval * MarginDen <= ComputeWait(l)
         /\ ComputeWait(l) <= MaxWait
<1> DEFINE lo  == MinInterval * MarginDen
           hi  == MaxInterval * MarginDen
           raw == l * MarginNum
<1>1. lo \in Nat /\ hi \in Nat /\ raw \in Nat
  BY ScheduleAssumption
<1>2. ComputeWait(l) = Larger(lo, Smaller(raw, hi))
  BY DEF ComputeWait
<1>3. MaxWait = Larger(lo, hi)
  <2>1. CASE MinInterval >= MaxInterval
    <3>1. lo >= hi
      BY <2>1, ScheduleAssumption
    <3> QED
      BY <2>1, <3>1 DEF MaxWait, Larger
  <2>2. CASE ~(MinInterval >= MaxInterval)
    <3>1. hi > lo
      BY <2>2, ScheduleAssumption
    <3> QED
      BY <1>1, <2>2, <3>1 DEF MaxWait, Larger
  <2> QED
    BY <2>1, <2>2
<1> HIDE DEF lo, hi, raw
<1>4. /\ ComputeWait(l) \in Nat
      /\ lo <= ComputeWait(l)
      /\ ComputeWait(l) <= MaxWait
  BY <1>1, <1>2, <1>3 DEF Larger, Smaller
<1> QED
  BY <1>4 DEF lo

\* A shorter lease never means a longer wait.
LEMMA ComputeWaitMonotone ==
  ASSUME NEW l \in Nat, NEW m \in Nat, l <= m
  PROVE  ComputeWait(l) <= ComputeWait(m)
<1>1. /\ l * MarginNum \in Nat /\ m * MarginNum \in Nat
      /\ MinInterval * MarginDen \in Nat /\ MaxInterval * MarginDen \in Nat
  BY ScheduleAssumption
<1>2. l * MarginNum <= m * MarginNum
  BY ScheduleAssumption
<1> QED
  BY <1>1, <1>2 DEF ComputeWait, Larger, Smaller

\* A lease is covered as soon as both the minimum interval and the margin's
\* share of it leave room for the two calls: max_interval only shortens a wait.
LEMMA MarginSuffices ==
  ASSUME NEW l \in Nat,
         MinInterval * MarginDen + 2 * MaxCall < l * MarginDen,
         l * MarginNum + 2 * MaxCall < l * MarginDen
  PROVE  ComputeWait(l) + 2 * MaxCall < l * MarginDen
<1>1. /\ MinInterval * MarginDen \in Nat /\ MaxInterval * MarginDen \in Nat
      /\ l * MarginNum \in Nat /\ l * MarginDen \in Nat /\ MaxCall \in Nat
  BY ScheduleAssumption
<1> QED
  BY <1>1 DEF ComputeWait, Larger, Smaller

-----------------------------------------------------------------------------
(* Types *)

LEMMA ScheduleTypeInit == ScheduleInit => ScheduleTypeOK
<1>1. Lease0 \in Nat /\ LoginLease \in Nat /\ MaxCall \in Nat
  BY ScheduleAssumption
<1> QED
  BY <1>1, ComputeWaitBounds DEF ScheduleInit, ScheduleTypeOK

LEMMA ScheduleTypeStep == ScheduleTypeOK /\ [ScheduleNext]_scheduleVars => ScheduleTypeOK'
<1> SUFFICES ASSUME ScheduleTypeOK, [ScheduleNext]_scheduleVars PROVE ScheduleTypeOK'
  OBVIOUS
<1> USE DEF ScheduleTypeOK
<1>1. CASE Tick
  BY <1>1 DEF Tick
<1>2. CASE Attempt
  BY <1>2 DEF Attempt
<1>3. CASE TokenRenewed
  BY <1>3, ScheduleAssumption DEF TokenRenewed, Granted
<1>4. CASE Reauthenticated
  BY <1>4, ScheduleAssumption DEF Reauthenticated, Granted
<1>5. CASE ReturnsFalse
  BY <1>5 DEF ReturnsFalse, Fails
<1>6. CASE Raises
  <2>1. Backoff \in Nat
    <3>1. Smaller(2 * MinInterval, MaxInterval) \in Nat
      BY ScheduleAssumption DEF Smaller
    <3> QED
      BY <3>1, ScheduleAssumption DEF Backoff
  <2> QED
    BY <1>6, <2>1 DEF Raises, Fails
<1>7. CASE Schedule
  BY <1>7, ComputeWaitBounds DEF Schedule
<1>8. CASE UNCHANGED scheduleVars
  BY <1>8 DEF scheduleVars
<1> QED
  BY <1>1, <1>2, <1>3, <1>4, <1>5, <1>6, <1>7, <1>8 DEF ScheduleNext

\* Every reachable state of the schedule is well typed; times never go negative.
THEOREM ScheduleTypes == ScheduleSpec => []ScheduleTypeOK
  BY ScheduleTypeInit, ScheduleTypeStep, PTL DEF ScheduleSpec

-----------------------------------------------------------------------------
(* The time without a renewal *)

LEMMA AgeInit == ScheduleInit => AgeInv
<1> SUFFICES ASSUME ScheduleInit PROVE AgeInv
  OBVIOUS
<1>1. wait <= MaxWait /\ wait \in Nat
  BY ScheduleAssumption, ComputeWaitBounds DEF ScheduleInit
<1>2. fails * (MaxWait + MaxCall) = 0
  BY MaxWaitIsNat, ScheduleAssumption DEF ScheduleInit
<1> QED
  BY <1>1, <1>2, ScheduleAssumption DEF ScheduleInit, AgeInv

LEMMA AgeStep == ScheduleTypeOK /\ AgeInv /\ [ScheduleNext]_scheduleVars => AgeInv'
<1> SUFFICES ASSUME ScheduleTypeOK, AgeInv, [ScheduleNext]_scheduleVars PROVE AgeInv'
  OBVIOUS
<1> DEFINE cost == MaxWait + MaxCall
           lost == fails * cost
<1>0. /\ MaxWait \in Nat /\ MaxCall \in Nat /\ cost \in Nat /\ lost \in Nat
      /\ lost' = fails' * cost
  BY MaxWaitIsNat, ScheduleAssumption DEF ScheduleTypeOK
<1>a. /\ AgeInv <=> /\ wait <= MaxWait
                    /\ elapsed <= IF phase = "wait" THEN wait ELSE MaxCall
                    /\ phase = "wait" => age <= lost + MaxCall + elapsed
                    /\ phase = "call" => age <= lost + MaxCall + MaxWait + elapsed
                    /\ phase \in {"back", "except"} => age <= lost + elapsed
      /\ AgeInv' <=> /\ wait' <= MaxWait
                     /\ elapsed' <= IF phase' = "wait" THEN wait' ELSE MaxCall
                     /\ phase' = "wait" => age' <= lost' + MaxCall + elapsed'
                     /\ phase' = "call" => age' <= lost' + MaxCall + MaxWait + elapsed'
                     /\ phase' \in {"back", "except"} => age' <= lost' + elapsed'
  BY <1>0 DEF AgeInv
<1>b. ASSUME fails' = fails PROVE lost' = lost
  BY <1>0, <1>b
<1>c. ASSUME fails' = 0 PROVE lost' = 0
  BY <1>0, <1>c
<1>d. ASSUME fails' = fails + 1 PROVE lost' = lost + MaxWait + MaxCall
  BY <1>0, <1>d DEF ScheduleTypeOK
<1> HIDE DEF lost, cost
<1> USE <1>0, <1>a DEF ScheduleTypeOK
<1>1. CASE Tick
  BY <1>1, <1>b DEF Tick
<1>2. CASE Attempt
  BY <1>2, <1>b DEF Attempt
<1>3. CASE TokenRenewed \/ Reauthenticated
  BY <1>3, <1>c DEF TokenRenewed, Reauthenticated, Granted
<1>4. CASE ReturnsFalse \/ Raises
  BY <1>4, <1>d DEF ReturnsFalse, Raises, Fails
<1>5. CASE Schedule
  BY <1>5, <1>b, ComputeWaitBounds DEF Schedule
<1>6. CASE UNCHANGED scheduleVars
  BY <1>6, <1>b DEF scheduleVars
<1> QED
  BY <1>1, <1>2, <1>3, <1>4, <1>5, <1>6 DEF ScheduleNext

\* What each phase of the schedule has used up of the time since the last grant.
THEOREM AgeInvAlways == ScheduleSpec => [](ScheduleTypeOK /\ AgeInv)
  BY ScheduleTypeInit, ScheduleTypeStep, AgeInit, AgeStep, PTL DEF ScheduleSpec

\* With n failures in a row, at most n + 1 waits and n + 2 calls pass between
\* two grants, whatever the leases, the margin and the intervals.
THEOREM AgeAlwaysBounded == ScheduleSpec => []AgeBounded
<1>1. ScheduleTypeOK /\ AgeInv => AgeBounded
  <2> SUFFICES ASSUME ScheduleTypeOK, AgeInv PROVE AgeBounded
    OBVIOUS
  <2>0. MaxWait \in Nat /\ MaxCall \in Nat /\ fails \in Nat
    BY MaxWaitIsNat, ScheduleAssumption DEF ScheduleTypeOK
  <2>1. (fails + 1) * MaxWait + (fails + 2) * MaxCall
          = fails * (MaxWait + MaxCall) + MaxWait + 2 * MaxCall
    BY <2>0
  <2>2. fails * (MaxWait + MaxCall) \in Nat
    BY <2>0
  <2>3. age <= fails * (MaxWait + MaxCall) + MaxWait + 2 * MaxCall
    BY <2>0, <2>2 DEF ScheduleTypeOK, AgeInv
  <2> QED
    BY <2>1, <2>3 DEF AgeBounded
<1> QED
  BY <1>1, AgeInvAlways, PTL

-----------------------------------------------------------------------------
(* No lapse *)

\* While nothing has failed and the lease believed in is at most the one
\* granted, the wait fits in the lease and the age of the grant in the wait.
Covered == fails = 0 /\ leaseDuration <= lease
CoverInv ==
  Covered =>
    /\ wait + 2 * MaxCall < lease * MarginDen \/ phase = "back"
    /\ ComputeWait(leaseDuration) + 2 * MaxCall < lease * MarginDen
    /\ elapsed <= IF phase = "wait" THEN wait ELSE MaxCall
    /\ phase = "wait" => age <= MaxCall + elapsed
    /\ phase = "call" => age <= MaxCall + wait + elapsed
    /\ phase = "back" => age <= elapsed
    /\ phase # "except"

LEMMA CoverInit == MarginCovers /\ ScheduleInit => CoverInv
<1> SUFFICES ASSUME MarginCovers, ScheduleInit, Lease0 <= LoginLease PROVE CoverInv
  BY DEF ScheduleInit, CoverInv, Covered
<1>1. ComputeWait(Lease0) \in Nat /\ ComputeWait(LoginLease) \in Nat /\ LoginLease * MarginDen \in Nat
  BY ComputeWaitBounds, ScheduleAssumption
<1>2. ComputeWait(Lease0) <= ComputeWait(LoginLease)
  BY ComputeWaitMonotone, ScheduleAssumption
<1> QED
  BY <1>1, <1>2, ScheduleAssumption DEF ScheduleInit, CoverInv, MarginCovers

LEMMA CoverStep == MarginCovers /\ ScheduleTypeOK /\ AgeInv /\ CoverInv /\ [ScheduleNext]_scheduleVars => CoverInv'
<1> SUFFICES ASSUME MarginCovers, ScheduleTypeOK, AgeInv, CoverInv, [ScheduleNext]_scheduleVars, Covered' PROVE CoverInv'
  BY DEF CoverInv
<1> USE ScheduleAssumption
<1>0. /\ ComputeWait(leaseDuration) \in Nat /\ lease * MarginDen \in Nat
      /\ wait \in Nat /\ elapsed \in Nat /\ age \in Nat
  BY ComputeWaitBounds DEF ScheduleTypeOK
<1>1. CASE Tick
  <2>1. Covered
    BY <1>1 DEF Tick, Covered
  <2> QED
    BY <1>0, <1>1, <2>1 DEF Tick, CoverInv
<1>2. CASE Attempt
  <2>1. Covered
    BY <1>2 DEF Attempt, Covered
  <2> QED
    BY <1>0, <1>2, <2>1 DEF Attempt, CoverInv
<1>3. ASSUME NEW l \in Leases, Granted(l), leaseDuration' \in {l, leaseDuration}
      PROVE  CoverInv'
  <2>1. l \in Nat /\ leaseDuration' \in Nat /\ leaseDuration' <= l /\ lease' = l
    BY <1>3 DEF Granted, ScheduleTypeOK, Covered
  <2>2. /\ ComputeWait(leaseDuration') <= ComputeWait(l)
        /\ ComputeWait(l) + 2 * MaxCall < l * MarginDen
        /\ ComputeWait(leaseDuration') \in Nat /\ ComputeWait(l) \in Nat /\ l * MarginDen \in Nat
    BY <2>1, ComputeWaitMonotone, ComputeWaitBounds DEF MarginCovers
  <2>3. ComputeWait(leaseDuration') + 2 * MaxCall < l * MarginDen
    BY <2>2
  <2>4. elapsed <= MaxCall
    BY <1>3 DEF Granted, AgeInv
  <2> QED
    BY <1>0, <1>3, <2>1, <2>3, <2>4 DEF Granted, CoverInv
<1>4. CASE TokenRenewed \/ Reauthenticated
  BY <1>3, <1>4 DEF TokenRenewed, Reauthenticated
<1>5. CASE ReturnsFalse \/ Raises
  <2>1. fails' # 0
    BY <1>5 DEF ReturnsFalse, Raises, Fails, ScheduleTypeOK
  <2> QED
    BY <2>1 DEF Covered
<1>6. CASE Schedule
  <2>1. Covered
    BY <1>6 DEF Schedule, Covered
  <2> QED
    BY <1>0, <1>6, <2>1 DEF Schedule, CoverInv
<1>7. CASE UNCHANGED scheduleVars
  BY <1>7 DEF scheduleVars, CoverInv, Covered
<1> QED
  BY <1>1, <1>2, <1>4, <1>5, <1>6, <1>7 DEF ScheduleNext

\* A margin that leaves room for two calls in each lease keeps the session
\* alive from one grant to the next, whatever failed before.
THEOREM SessionNeverLapses == ASSUME MarginCovers PROVE ScheduleSpec => []NoLapse
<1>1. ScheduleInit => CoverInv
  BY CoverInit
<1>2. ScheduleTypeOK /\ AgeInv /\ CoverInv /\ [ScheduleNext]_scheduleVars => CoverInv'
  BY CoverStep
<1>3. ScheduleTypeOK /\ CoverInv => NoLapse
  <2> SUFFICES ASSUME ScheduleTypeOK, CoverInv, Covered PROVE Live
    BY DEF NoLapse, Covered
  <2>1. /\ ComputeWait(leaseDuration) \in Nat /\ lease * MarginDen \in Nat
        /\ wait \in Nat /\ elapsed \in Nat /\ age \in Nat /\ MaxCall \in Nat
    BY ComputeWaitBounds, ScheduleAssumption DEF ScheduleTypeOK
  <2> QED
    BY <2>1 DEF CoverInv, Live, ScheduleTypeOK
<1> QED
  BY <1>1, <1>2, <1>3, AgeInvAlways, PTL DEF ScheduleSpec

=============================================================================
