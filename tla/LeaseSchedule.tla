---------------------------- MODULE LeaseSchedule ----------------------------
(***************************************************************************)
(* When the auto-renewer renews: the time side of the loop whose threads   *)
(* and locks VaultAutoRenewer models.  The loop waits _compute_wait(),     *)
(* which it derives from the lease it believes in; Vault counts the lease  *)
(* it granted.  The unit of time is 1/MarginDen second, so that the wait   *)
(* lease * margin is exact.                                                *)
(***************************************************************************)
EXTENDS Integers

CONSTANTS
  MarginNum, MarginDen,  \* VAULT_RENEW_MARGIN, as a fraction
  MinInterval,           \* VAULT_RENEW_MIN_SECONDS
  MaxInterval,           \* VAULT_RENEW_MAX_SECONDS
  Lease0,                \* VAULT_LEASE_DURATION, or the argument lease_duration
  LoginLease,            \* the lease of the session the loader logged in with
  Leases,                \* the leases Vault may grant later, in seconds
  Oidc,                  \* auth_method is "oidc"
  MaxCall,               \* bound: units that one attempt, or a late wake-up, takes
  MaxFails               \* bound: attempts that fail in a row

ASSUME ScheduleAssumption ==
  /\ MarginNum \in Nat /\ MarginDen \in Nat \ {0}
  /\ MinInterval \in Nat /\ MaxInterval \in Nat
  /\ Lease0 \in Nat /\ LoginLease \in Nat /\ Leases \subseteq Nat
  /\ Oidc \in BOOLEAN
  /\ MaxCall \in Nat /\ MaxFails \in Nat

VARIABLES
  phase,          \* "wait", "call" (renew_once), "back" (it has returned), "except"
  elapsed,        \* time spent in the wait, or in the attempt since its start
  wait,           \* the timeout of self._stop.wait()
  nextWait,       \* self._next_wait
  leaseDuration,  \* self.lease_duration
  lease,          \* the lease Vault granted with the present session
  age,            \* time since that grant
  fails           \* attempts that failed since that grant

scheduleVars == <<phase, elapsed, wait, nextWait, leaseDuration, lease, age, fails>>

Larger(a, b)  == IF a >= b THEN a ELSE b
Smaller(a, b) == IF a <= b THEN a ELSE b

\* Mutant: the wait is not capped by max_interval.
ComputeWaitUncapped(l) == Larger(MinInterval * MarginDen, l * MarginNum)
\* Mutant: the whole lease, without the margin.
ComputeWaitNoMargin(l) ==
  Larger(MinInterval * MarginDen, Smaller(l * MarginDen, MaxInterval * MarginDen))

ComputeWait(l) ==
  Larger(MinInterval * MarginDen, Smaller(l * MarginNum, MaxInterval * MarginDen))

Backoff == Smaller(2 * MinInterval, MaxInterval) * MarginDen
MaxWait == Larger(MinInterval, MaxInterval) * MarginDen

\* Vault still accepts the token.
Live == age < lease * MarginDen

ScheduleInit ==
  /\ phase = "wait"
  /\ elapsed = 0
  /\ wait = ComputeWait(Lease0)
  /\ nextWait = wait
  /\ leaseDuration = Lease0
  /\ lease = LoginLease
  /\ age \in 0 .. MaxCall
  /\ fails = 0

\* A wait lasts what it says; an attempt, with everything up to the next wait,
\* at most MaxCall.
Tick ==
  /\ elapsed < IF phase = "wait" THEN wait ELSE MaxCall
  /\ elapsed' = elapsed + 1
  /\ age' = age + 1
  /\ UNCHANGED <<phase, wait, nextWait, leaseDuration, lease, fails>>

Attempt ==
  /\ phase = "wait"
  /\ elapsed = wait
  /\ phase' = "call"
  /\ elapsed' = 0
  /\ UNCHANGED <<wait, nextWait, leaseDuration, lease, age, fails>>

Granted(l) ==
  /\ phase = "call"
  /\ phase' = "back"
  /\ lease' = l
  /\ age' = 0
  /\ fails' = 0
  /\ UNCHANGED <<elapsed, wait, nextWait>>

\* renew_self() tells the lease, and the renewer keeps it.
TokenRenewed == Live /\ \E l \in Leases : Granted(l) /\ leaseDuration' = l

\* A login grants a lease too; the renewer does not look at it.
Reauthenticated ==
  /\ Oidc
  /\ \E l \in Leases : Granted(l)
  /\ UNCHANGED leaseDuration

Fails(to) ==
  /\ phase = "call"
  /\ fails < MaxFails
  /\ phase' = to
  /\ fails' = fails + 1
  /\ UNCHANGED <<elapsed, wait, leaseDuration, lease, age>>

ReturnsFalse == Fails("back") /\ UNCHANGED nextWait
Raises       == Fails("except") /\ nextWait' = Backoff

\* The next turn of the while: whatever _next_wait was, it is computed again.
Schedule ==
  /\ phase \in {"back", "except"}
  /\ phase' = "wait"
  /\ elapsed' = 0
  /\ wait' = ComputeWait(leaseDuration)
  /\ nextWait' = wait'
  /\ UNCHANGED <<leaseDuration, lease, age, fails>>

ScheduleNext ==
  \/ Tick \/ Attempt \/ TokenRenewed \/ Reauthenticated \/ ReturnsFalse \/ Raises \/ Schedule

ScheduleSpec == ScheduleInit /\ [][ScheduleNext]_scheduleVars
-----------------------------------------------------------------------------
(* Properties *)

\* Every variable of the schedule has its type.
ScheduleTypeOK ==
  /\ phase \in {"wait", "call", "back", "except"}
  /\ elapsed \in Nat /\ wait \in Nat /\ nextWait \in Nat
  /\ leaseDuration \in Nat /\ lease \in Nat /\ age \in Nat /\ fails \in Nat

\* As long as no attempt has failed since the last grant and the renewer does
\* not believe in a longer lease than Vault granted, the session never lapses:
\* the renewal comes while Vault still accepts the token.  For a margin that
\* leaves room for two calls in each lease (MarginCovers).
NoLapse == fails = 0 /\ leaseDuration <= lease => Live

\* However many attempts fail in a row, the time since Vault last granted
\* anything is bounded: one wait and one call for each of them, and one more.
AgeBounded == age <= (fails + 1) * MaxWait + (fails + 2) * MaxCall

\* The inductive invariant behind AgeBounded: what each phase has used up.
AgeInv ==
  LET lost == fails * (MaxWait + MaxCall) IN
  /\ wait <= MaxWait
  /\ elapsed <= IF phase = "wait" THEN wait ELSE MaxCall
  /\ phase = "wait" => age <= lost + MaxCall + elapsed
  /\ phase = "call" => age <= lost + MaxCall + MaxWait + elapsed
  /\ phase \in {"back", "except"} => age <= lost + elapsed
=============================================================================
