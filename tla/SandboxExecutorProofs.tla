------------------------ MODULE SandboxExecutorProofs ------------------------
(***************************************************************************)
(* What run() leaves behind, for any number of calls that overlap, with    *)
(* and without Docker, whatever the commands do.                           *)
(*                                                                         *)
(* A result is formed before it is recorded, and the command goes on       *)
(* meanwhile: LeftInv says what may still be running at each point of a    *)
(* call, and that a client that ended with 0 has no container.             *)
(***************************************************************************)
EXTENDS SandboxExecutor, TLAPS

\* What a result says of the child and of what it left.
Grounded(c) ==
  /\ child[c] # "running"
  /\ rest[c] => reason[c] = "timeout" \/ (c \in Docker /\ child[c] = "nonzero")
  /\ reason[c] = "ok" => child[c] = "zero"
  /\ reason[c] \in {"empty_command", "docker_not_found"} => child[c] = "none"

LeftInv ==
  \A c \in Calls :
    /\ pc[c] \in {"idle", "starting"} => child[c] = "none"
    /\ pc[c] \in {"auditing", "returned", "raised"} => Grounded(c)
    /\ child[c] = "none" \/ (c \in Docker /\ child[c] = "zero") => ~rest[c]

IInv == TypeOK /\ LeftInv

-----------------------------------------------------------------------------
(* Types *)

LEMMA TypeInit == Init => TypeOK
  BY DEF Init, TypeOK

LEMMA TypeStep == TypeOK /\ [Next]_vars => TypeOK'
<1> SUFFICES ASSUME TypeOK, [Next]_vars PROVE TypeOK'
  OBVIOUS
<1> USE DEF TypeOK, Reasons, At, Result
<1>1. CASE UNCHANGED vars
  BY <1>1 DEF vars
<1>2. ASSUME NEW c \in Calls, Called(c) PROVE TypeOK'
  BY <1>2 DEF Called
<1>3. ASSUME NEW c \in Calls, NotStarted(c) PROVE TypeOK'
  BY <1>3 DEF NotStarted
<1>4. ASSUME NEW c \in Calls, Starts(c) PROVE TypeOK'
  BY <1>4 DEF Starts
<1>5. ASSUME NEW c \in Calls, Completes(c) PROVE TypeOK'
  BY <1>5 DEF Completes, Undecodable
<1>6. ASSUME NEW c \in Calls, TimesOut(c) PROVE TypeOK'
  BY <1>6 DEF TimesOut
<1>7. ASSUME NEW c \in Calls, Audit(c) PROVE TypeOK'
  BY <1>7 DEF Audit
<1>8. ASSUME NEW c \in Calls, Spawns(c) \/ RestEnds(c) PROVE TypeOK'
  BY <1>8 DEF Spawns, RestEnds
<1>9. ASSUME NEW c \in Calls, ChildEnds(c) PROVE TypeOK'
  BY <1>9 DEF ChildEnds
<1> QED
  BY <1>1, <1>2, <1>3, <1>4, <1>5, <1>6, <1>7, <1>8, <1>9 DEF Next, Run, Command

\* Type correctness of the executor.
THEOREM TypeCorrect == Spec => []TypeOK
  BY TypeInit, TypeStep, PTL DEF Spec

-----------------------------------------------------------------------------
(* What is left *)

LEMMA LeftInit == Init => LeftInv
  BY DEF Init, LeftInv

\* Calls share nothing: a step of one leaves what is said of the others.
LEMMA LeftElsewhere ==
  ASSUME IInv, NEW c \in Calls, Called(c) \/ Run(c) \/ Command(c), NEW d \in Calls, d # c
  PROVE  pc'[d] = pc[d] /\ child'[d] = child[d] /\ rest'[d] = rest[d] /\ reason'[d] = reason[d]
  BY DEF IInv, TypeOK, Called, Run, Command, NotStarted, Starts, Completes, TimesOut, Audit,
         Spawns, RestEnds, ChildEnds, At, Result

LEMMA LeftStep == IInv /\ [Next]_vars => LeftInv'
<1> SUFFICES ASSUME IInv, [Next]_vars PROVE LeftInv'
  OBVIOUS
<1> DEFINE Left(c) == /\ pc[c] \in {"idle", "starting"} => child[c] = "none"
                      /\ pc[c] \in {"auditing", "returned", "raised"} => Grounded(c)
                      /\ child[c] = "none" \/ (c \in Docker /\ child[c] = "zero") => ~rest[c]
<1>1. CASE UNCHANGED vars
  BY <1>1 DEF vars, IInv, LeftInv, Grounded
<1>2. ASSUME NEW c \in Calls, Called(c) \/ Run(c) \/ Command(c) PROVE LeftInv'
  <2> USE DEF IInv, TypeOK, Grounded
  <2>1. Left(c)
    BY DEF LeftInv
  <2>2. CASE Called(c) \/ Starts(c) \/ Audit(c)
    <3>1. Left(c)'
      BY <2>1, <2>2 DEF Called, Starts, Audit, At
    <3> QED BY <1>2, <3>1, LeftElsewhere DEF LeftInv
  <2>3. CASE NotStarted(c)
    <3>1. Left(c)'
      BY <2>1, <2>3 DEF NotStarted, Result
    <3> QED BY <1>2, <3>1, LeftElsewhere DEF LeftInv
  <2>4. CASE Completes(c)
    <3>1. Left(c)'
      BY <2>1, <2>4 DEF Completes, Awaited, Undecodable, Result
    <3> QED BY <1>2, <3>1, LeftElsewhere DEF LeftInv
  <2>5. CASE TimesOut(c)
    <3>1. Left(c)'
      BY <2>1, <2>5 DEF TimesOut, Result
    <3> QED BY <1>2, <3>1, LeftElsewhere DEF LeftInv
  <2>6. CASE Command(c)
    <3>1. Left(c)'
      BY <2>1, <2>6 DEF Command, Spawns, RestEnds, ChildEnds
    <3> QED BY <1>2, <3>1, LeftElsewhere DEF LeftInv
  <2> QED BY <1>2, <2>2, <2>3, <2>4, <2>5, <2>6 DEF Run
<1> QED BY <1>1, <1>2 DEF Next

\* The inductive invariant of what each call may leave running.
THEOREM LeftAlways == Spec => []IInv
<1>1. Init => IInv
  BY TypeInit, LeftInit DEF IInv
<1>2. IInv /\ [Next]_vars => IInv'
  BY TypeStep, LeftStep DEF IInv
<1> QED BY <1>1, <1>2, PTL DEF Spec

\* When run() has returned, only a timeout or a docker client that failed leave
\* something running, and "ok" means that the command ended with 0.
THEOREM OnlyTimeouts == Spec => []OnlyTimeoutsLeave
<1>1. IInv => OnlyTimeoutsLeave
  BY DEF IInv, LeftInv, Grounded, OnlyTimeoutsLeave
<1> QED BY <1>1, LeftAlways, PTL
=============================================================================
