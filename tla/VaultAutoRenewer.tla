-------------------------- MODULE VaultAutoRenewer --------------------------
(***************************************************************************)
(* The background renewal of the Vault session                             *)
(* (credential_proxy/auto_renew.py), as the threads execute it: callers in *)
(* the middle of start(), stop() or renew_once(), loop threads, the        *)
(* threading.Event that tells a loop to leave and the lock that serialises *)
(* renewals, together with the part of VaultSecretLoader a renewal calls   *)
(* (reauthenticate_oidc in credential_proxy/vault.py).                     *)
(*                                                                         *)
(* A process is at one of the points where another may interfere: before   *)
(* an access to shared state, or inside a call that blocks.  Time is left  *)
(* out (LeaseSchedule has it): a wait or a join may time out at any moment *)
(* and the session may expire at any moment.                               *)
(***************************************************************************)
EXTENDS FiniteSets

CONSTANTS
  Threads,       \* threading.Thread objects; a dead one nobody refers to is reused
  Callers,       \* application threads that call start() and stop()
  Renewers,      \* the callers that also call renew_once()
  AuthMethod,    \* the loader's auth_method: "token", or "oidc" (which stands for JWT too)
  AuditMayFail,  \* AuditLogger may raise (it appends to a file)
  None

ASSUME ProcessAssumption ==
  /\ Threads \cap Callers = {}
  /\ None \notin Threads \cup Callers
  /\ Renewers \subseteq Callers

ASSUME ConfigAssumption ==
  /\ AuthMethod \in {"token", "oidc"}
  /\ AuditMayFail \in BOOLEAN

VARIABLES
  thread,      \* self._thread
  stopFlag,    \* self._stop.is_set()
  lock,        \* the holder of self._lock
  pc,          \* where each caller and each thread object is
  joins,       \* the thread a caller is joining
  outcome,     \* what renew_once() gave its caller: "ok", "no" or "raised"
  methodLast,  \* self._method_last
  lastError,   \* self._last_error
  session,     \* whether Vault accepts the client's token
  granted,     \* history: Vault granted something in the process's present attempt
  asked        \* history: the last call that took effect, start() or stop()

control == <<thread, stopFlag, joins, asked>>
renewal == <<outcome, methodLast, session, granted>>
vars    == <<control, lock, pc, renewal, lastError>>

Procs == Threads \cup Callers

\* Between the entry of `with self._lock` and its exit.
CritPcs == {"renew", "jwt", "login", "confirm", "release"}
\* is_alive() is true from the end of Thread.start() to the end of _loop().
AlivePcs  == {"check", "wait", "woken", "acquire", "book", "except"} \cup CritPcs
ThreadPcs == {"unused", "new", "dead"} \cup AlivePcs
StartPcs  == {"clear", "create", "launch"}
StopPcs   == {"stopping", "join", "joining", "report"}
CallerPcs == {"idle", "acquire"} \cup StartPcs \cup StopPcs \cup CritPcs

Alive == {t \in Threads : pc[t] \in AlivePcs}

\* Mutant: a loop that was told to stop counts as gone.
SeesAliveMutant == thread \in Alive /\ ~stopFlag
\* `self._thread and self._thread.is_alive()`
SeesAlive == thread \in Alive

\* The property `running`.
Running == SeesAlive /\ ~stopFlag

\* Thread objects that the collector has freed, or that were never made.
Unreferenced ==
  {t \in Threads : /\ pc[t] \in {"unused", "new", "dead"}
                   /\ t # thread
                   /\ \A c \in Callers : joins[c] # t}

Init ==
  /\ thread = None
  /\ stopFlag = FALSE
  /\ lock = None
  /\ pc = [p \in Procs |-> IF p \in Threads THEN "unused" ELSE "idle"]
  /\ joins = [c \in Callers |-> None]
  /\ outcome = [p \in Procs |-> "none"]
  /\ methodLast = None
  /\ lastError = "none"
  /\ session = "live"
  /\ granted = [p \in Procs |-> FALSE]
  /\ asked = "none"

Goto(p, from, to) == pc[p] = from /\ pc' = [pc EXCEPT ![p] = to]

\* The process goes on and leaves everything else alone.
Moves(p, from, to) ==
  Goto(p, from, to) /\ UNCHANGED <<control, lock, renewal, lastError>>

-----------------------------------------------------------------------------
(* start() *)

\* The early return of an idempotent start().
StartSeesLoop(c) ==
  /\ pc[c] = "idle"
  /\ SeesAlive
  /\ asked' = "start"
  /\ UNCHANGED <<thread, stopFlag, joins, lock, pc, renewal, lastError>>

StartProceeds(c) ==
  /\ ~SeesAlive
  /\ Moves(c, "idle", "clear")

\* Mutant: the event is not cleared.
StartClearMutant(c) == Moves(c, "clear", "create")
StartClear(c) ==
  /\ Goto(c, "clear", "create")
  /\ stopFlag' = FALSE
  /\ UNCHANGED <<thread, joins, asked, lock, renewal, lastError>>

StartCreate(c) ==
  /\ pc[c] = "create"
  /\ \E t \in Unreferenced :
       /\ thread' = t
       /\ pc' = [pc EXCEPT ![c] = "launch", ![t] = "new"]
  /\ UNCHANGED <<stopFlag, joins, asked, lock, renewal, lastError>>

\* self._thread is read again; Thread.start() raises unless it is new.  An
\* audit record that fails after it raises too, with the loop already alive.
StartLaunch(c) ==
  /\ pc[c] = "launch"
  /\ IF pc[thread] = "new"
       THEN pc' = [pc EXCEPT ![c] = "idle", ![thread] = "check"] /\ asked' = "start"
       ELSE pc' = [pc EXCEPT ![c] = "idle"] /\ UNCHANGED asked
  /\ UNCHANGED <<thread, stopFlag, joins, lock, renewal, lastError>>

-----------------------------------------------------------------------------
(* stop() *)

\* Mutant: the flag is a plain attribute, a sleeping loop is not woken.
StopSetMutant(c) ==
  /\ Goto(c, "idle", "stopping")
  /\ stopFlag' = TRUE
  /\ asked' = "stop"
  /\ UNCHANGED <<thread, joins, lock, renewal, lastError>>
\* Event.set() wakes every waiter: their wait() returns True, whatever
\* happens to the flag before they run.
StopSet(c) ==
  /\ pc[c] = "idle"
  /\ stopFlag' = TRUE
  /\ asked' = "stop"
  /\ pc' = [p \in Procs |-> IF p = c THEN "stopping"
                            ELSE IF pc[p] = "wait" THEN "woken" ELSE pc[p]]
  /\ UNCHANGED <<thread, joins, lock, renewal, lastError>>

StopCheck(c) == Moves(c, "stopping", IF SeesAlive THEN "join" ELSE "report")

\* self._thread is read again; joining a thread never started raises.
StopJoin(c) ==
  /\ pc[c] = "join"
  /\ IF pc[thread] = "new"
       THEN pc' = [pc EXCEPT ![c] = "idle"] /\ UNCHANGED joins
       ELSE pc' = [pc EXCEPT ![c] = "joining"] /\ joins' = [joins EXCEPT ![c] = thread]
  /\ UNCHANGED <<thread, stopFlag, asked, lock, renewal, lastError>>

\* join() returns None whether the thread has ended or the timeout has passed.
StopJoined(c) ==
  /\ Goto(c, "joining", "report")
  /\ joins' = [joins EXCEPT ![c] = None]
  /\ UNCHANGED <<thread, stopFlag, asked, lock, renewal, lastError>>

\* "Auto-renew parado" is audited as a success, and stop() returns.
StopReport(c) == Moves(c, "report", "idle")

-----------------------------------------------------------------------------
(* renew_once(), run by a loop thread or by a caller *)

RenewByHand(c) ==
  /\ c \in Renewers
  /\ Moves(c, "idle", "acquire")

\* Mutant: renew_once() without the lock.
AcquireMutant(p) == Moves(p, "acquire", "renew")
Acquire(p) ==
  /\ lock = None
  /\ Goto(p, "acquire", "renew")
  /\ lock' = p
  /\ UNCHANGED <<control, renewal, lastError>>

\* renew_once() gives r: it returns, or an exception leaves the with block.
Gives(p, from, r) ==
  /\ Goto(p, from, "release")
  /\ outcome' = [outcome EXCEPT ![p] = r]

\* The locals of an attempt whose result has been used.
Forget(p) ==
  /\ outcome' = [outcome EXCEPT ![p] = "none"]
  /\ granted' = [granted EXCEPT ![p] = FALSE]

\* A failing audit record turns the result "no" into an exception.
NoOrRaised == IF AuditMayFail THEN {"no", "raised"} ELSE {"no"}

\* _try_token_renew: Vault extends the token and the answer is usable.
RenewSelfGranted(p) ==
  /\ session = "live"
  /\ Gives(p, "renew", "ok")
  /\ granted' = [granted EXCEPT ![p] = TRUE]
  /\ methodLast' = "token_renew"
  /\ UNCHANGED <<control, lock, session, lastError>>

\* Mutant: no second method after a failed renew-self.
RenewSelfFailsMutant(p) ==
  /\ Gives(p, "renew", "no")
  /\ UNCHANGED <<control, lock, methodLast, session, granted, lastError>>
\* Any exception means "not renewed": Vault refused, or the network failed, or
\* Vault did extend the token and the answer, its shape or the audit failed.
RenewSelfFails(p) ==
  /\ Goto(p, "renew", "jwt")
  /\ \E g \in {FALSE, session = "live"} : granted' = [granted EXCEPT ![p] = g]
  /\ UNCHANGED <<control, lock, outcome, methodLast, session, lastError>>

\* _try_oidc_reauth up to the login: the JWT comes from the provider, the file
\* or the environment.
JwtFound(p) ==
  /\ AuthMethod = "oidc"
  /\ Moves(p, "jwt", "login")

\* Mutant: _try_oidc_reauth does not look at what reauthenticate_oidc returned.
JwtMissingMutant(p) ==
  /\ Gives(p, "jwt", "ok")
  /\ UNCHANGED <<control, lock, methodLast, session, granted, lastError>>
\* No JWT, or a loader that logged in with a token: reauthenticate_oidc is False.
JwtMissing(p) ==
  /\ \E r \in NoOrRaised : Gives(p, "jwt", r)
  /\ UNCHANGED <<control, lock, methodLast, session, granted, lastError>>

\* read_text() of the JWT file is outside every try.
JwtUnreadable(p) ==
  /\ Gives(p, "jwt", "raised")
  /\ UNCHANGED <<control, lock, methodLast, session, granted, lastError>>

LoginGranted(p) ==
  /\ Goto(p, "login", "confirm")
  /\ session' = "live"
  /\ granted' = [granted EXCEPT ![p] = TRUE]
  /\ UNCHANGED <<control, lock, outcome, methodLast, lastError>>

LoginRefused(p) ==
  /\ \E r \in NoOrRaised : Gives(p, "login", r)
  /\ UNCHANGED <<control, lock, methodLast, session, granted, lastError>>

\* is_authenticated() after the login, and the two audit records around it.
Confirmed(p) ==
  /\ session = "live"
  /\ Gives(p, "confirm", "ok")
  /\ methodLast' = "oidc_reauth"
  /\ UNCHANGED <<control, lock, session, granted, lastError>>

\* The token is replaced all the same.
NotConfirmed(p) ==
  /\ \E r \in NoOrRaised : Gives(p, "confirm", r)
  /\ UNCHANGED <<control, lock, methodLast, session, granted, lastError>>

\* Mutant: the loop does not catch what renew_once() raises.
AfterRenewalMutant(p) ==
  IF p \in Callers THEN "idle" ELSE IF outcome[p] = "raised" THEN "dead" ELSE "book"
AfterRenewal(p) ==
  IF p \in Callers THEN "idle" ELSE IF outcome[p] = "raised" THEN "except" ELSE "book"

\* Mutant: acquire() and release() by hand, without the finally.
ReleaseMutant(p) ==
  /\ Goto(p, "release", AfterRenewal(p))
  /\ lock' = IF outcome[p] = "raised" THEN lock ELSE None
  /\ IF p \in Callers THEN Forget(p) ELSE UNCHANGED <<outcome, granted>>
  /\ UNCHANGED <<control, methodLast, session, lastError>>
Release(p) ==
  /\ Goto(p, "release", AfterRenewal(p))
  /\ lock' = None
  /\ IF p \in Callers THEN Forget(p) ELSE UNCHANGED <<outcome, granted>>
  /\ UNCHANGED <<control, methodLast, session, lastError>>

RenewOnce(p) ==
  \/ Acquire(p)
  \/ RenewSelfGranted(p)
  \/ RenewSelfFails(p)
  \/ JwtFound(p)
  \/ JwtMissing(p)
  \/ JwtUnreadable(p)
  \/ LoginGranted(p)
  \/ LoginRefused(p)
  \/ Confirmed(p)
  \/ NotConfirmed(p)
  \/ Release(p)

-----------------------------------------------------------------------------
(* _loop() *)

\* Mutant: `while True`, with a wait that does not look at the flag first.
LoopCheckMutant(t) == Moves(t, "check", "wait")
\* The test of the while, and the entry of self._stop.wait(), which returns at
\* once when the flag is set.
LoopCheck(t) == Moves(t, "check", IF stopFlag THEN "dead" ELSE "wait")

WaitTimesOut(t) == Moves(t, "wait", "acquire")

WaitInterrupted(t) == Moves(t, "woken", "dead")

Book(t) ==
  /\ Goto(t, "book", "check")
  /\ lastError' = IF outcome[t] = "ok" THEN "none" ELSE "returned_false"
  /\ Forget(t)
  /\ UNCHANGED <<control, lock, methodLast, session>>

\* The except clause; an audit record that raises here ends the thread.
LoopExcept(t) ==
  /\ \E to \in {"check"} \cup (IF AuditMayFail THEN {"dead"} ELSE {}) : Goto(t, "except", to)
  /\ lastError' = "raised"
  /\ Forget(t)
  /\ UNCHANGED <<control, lock, methodLast, session>>

LoopStep(t) ==
  LoopCheck(t) \/ WaitTimesOut(t) \/ WaitInterrupted(t) \/ Book(t) \/ LoopExcept(t)

\* What a call does once it has begun.
CallStep(c) ==
  \/ StartClear(c) \/ StartCreate(c) \/ StartLaunch(c)
  \/ StopCheck(c) \/ StopJoin(c) \/ StopJoined(c) \/ StopReport(c)

\* A call begins.
Call(c) == StartSeesLoop(c) \/ StartProceeds(c) \/ StopSet(c) \/ RenewByHand(c)

\* The token's time to live passes, or it is revoked.
Expire ==
  /\ session = "live"
  /\ session' = "expired"
  /\ UNCHANGED <<control, lock, pc, outcome, methodLast, granted, lastError>>

Next ==
  \/ \E c \in Callers : Call(c) \/ CallStep(c)
  \/ \E t \in Threads : LoopStep(t)
  \/ \E p \in Procs : RenewOnce(p)
  \/ Expire

\* Running code goes on, waits end and calls to Vault return (requests time out).
\* Nobody has to call anything.
Fairness ==
  /\ \A c \in Callers : WF_vars(CallStep(c) \/ RenewOnce(c))
  /\ \A t \in Threads : WF_vars(LoopStep(t) \/ RenewOnce(t))

\* An identity provider and a Vault that are up often enough: a JWT looked for
\* again and again is found, a login tried again and again is granted.
VaultAnswers ==
  /\ \A p \in Procs : SF_vars(JwtFound(p))
  /\ \A p \in Procs : SF_vars(LoginGranted(p))

Safe     == Init /\ [][Next]_vars
Spec     == Safe /\ Fairness
FairSpec == Spec /\ VaultAnswers
-----------------------------------------------------------------------------
(* Properties *)

\* Every variable has its type (VaultAutoRenewer.__init__).
TypeOK ==
  /\ thread \in Threads \cup {None}
  /\ stopFlag \in BOOLEAN
  /\ lock \in Procs \cup {None}
  /\ pc \in [Procs -> ThreadPcs \cup CallerPcs]
  /\ \A t \in Threads : pc[t] \in ThreadPcs
  /\ \A c \in Callers : pc[c] \in CallerPcs
  /\ joins \in [Callers -> Threads \cup {None}]
  /\ outcome \in [Procs -> {"none", "ok", "no", "raised"}]
  /\ methodLast \in {None, "token_renew", "oidc_reauth"}
  /\ lastError \in {"none", "returned_false", "raised"}
  /\ session \in {"live", "expired"}
  /\ granted \in [Procs -> BOOLEAN]
  /\ asked \in {"none", "start", "stop"}

\* At most one thread executes _loop(), and it is the one _thread refers to:
\* however start(), stop(), join timeouts and slow renewals follow one another,
\* no loop is left behind that stop() cannot reach.
OneLoop == Alive \subseteq {thread}

\* The holder of _lock is the only process between the two ends of the with
\* block, on every way out of it, exceptions included.
LockHeld == \A p \in Procs : (pc[p] \in CritPcs) <=> (lock = p)

\* renew_once() returns True only if Vault granted a renewal or a login in that
\* very attempt, so the count and last_success of status() never claim more.
HonestSuccess == \A p \in Procs : outcome[p] = "ok" => granted[p]

\* A start() that does not return early leaves a running loop behind, whatever
\* stops and deaths of earlier loops it follows.
StartLeavesLoop ==
  [][\A c \in Callers : pc[c] = "launch" /\ pc'[c] = "idle" => Running']_vars

\* No loop enters a renewal while the flag is up: once stop() has set it, at
\* most the attempt already under way is finished.
NoAttemptOnceStopped ==
  [][\A t \in Threads : pc[t] # "acquire" /\ pc'[t] = "acquire" => ~stopFlag]_vars

\* A loop ends only if the stop flag was set, or if the audit record of an
\* exception failed in the except clause of _loop(): no failure of Vault, of the
\* JWT provider, of the JWT file or of any other audit record ends it.
LoopEndsOnlyIfStopped ==
  [][\A t \in Threads :
       t \in Alive /\ t \notin Alive' => stopFlag \/ (AuditMayFail /\ pc[t] = "except")]_vars

\* The inductive invariant behind LockHeld, HonestSuccess and
\* NoAttemptOnceStopped, for any number of callers: results live only between
\* the end of an attempt and its use, a login precedes its confirmation (and only
\* a loader that used OIDC logs in), only a renewer renews by hand, and a loop
\* never sleeps under a raised flag.
ResultInv ==
  \A p \in Procs : /\ outcome[p] = "ok" => pc[p] \in {"release", "book"}
                   /\ pc[p] = "confirm" => granted[p]
                   /\ pc[p] \in {"login", "confirm"} => AuthMethod = "oidc"
                   /\ p \in Callers /\ pc[p] \in {"acquire"} \cup CritPcs => p \in Renewers
NoSleeper == stopFlag => \A t \in Threads : pc[t] # "wait"
SharedInv == TypeOK /\ LockHeld /\ ResultInv /\ HonestSuccess /\ NoSleeper

\* The inductive invariant behind OneLoop, for a single caller: from the check
\* of start() to the launch no loop is alive, the object launched is new and
\* the flag stays down; and a flag that woke a loop stays up until it has left.
StartInv ==
  /\ \A c \in Callers : pc[c] \in StartPcs => Alive = {}
  /\ \A c \in Callers : pc[c] = "launch" => thread \in Threads /\ pc[thread] = "new"
  /\ \A c \in Callers : pc[c] \in {"create", "launch"} => ~stopFlag
  /\ \A t \in Threads : pc[t] = "woken" => stopFlag
OneCallerInv == OneLoop /\ StartInv

\* A running loop tries again and again: no failure leaves the service alive
\* and idle.
KeepsTrying == Running ~> (stopFlag \/ \E t \in Threads : pc[t] = "renew")

\* While the loop runs, an expired session is recovered, if Vault and the
\* identity provider answer often enough.
Recovers == (Running /\ session = "expired") ~> (session = "live" \/ stopFlag)

\* After start() has returned, with no call after it, a loop runs (the
\* docstring of start()).
StartedMeansRunning ==
  asked = "start" /\ (\A c \in Callers : pc[c] \notin StartPcs) => Running

-----------------------------------------------------------------------------
(* The service that the threads implement, as RenewalService has it. *)

mode ==
  IF Alive = {} THEN "stopped" ELSE IF stopFlag THEN "stopping" ELSE "running"

Service == INSTANCE RenewalService WITH
  CanRecover <- AuthMethod = "oidc",
  Manual     <- Renewers # {},
  MayCrash   <- AuditMayFail

\* The threads keep the promise of the service, its liveness included.
ImplementsService == Service!Spec
\* The safety part of the promise.
ImplementsServiceSafely == Service!Safe
=============================================================================
