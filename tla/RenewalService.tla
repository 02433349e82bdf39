--------------------------- MODULE RenewalService ---------------------------
(***************************************************************************)
(* What the Vault auto-renewer promises to the code that starts and stops  *)
(* it, with threads, events and locks hidden: a service that is stopped,   *)
(* running or stopping, and the Vault session it looks after.  Two things  *)
(* are said by what is absent from Next.  A stopping service never goes    *)
(* back to running: it has to stop first.  A running service never becomes *)
(* stopped by itself, unless MayCrash.  VaultAutoRenewer implements this.  *)
(***************************************************************************)

CONSTANTS
  CanRecover,   \* an expired session can be replaced (OIDC/JWT login)
  Manual,       \* callers may also renew by hand, whatever the mode
  MayCrash      \* the background loop may die of an unhandled error

VARIABLES
  mode,         \* "stopped", "running" or "stopping"
  session       \* "live" or "expired"

vars == <<mode, session>>

Modes    == {"stopped", "running", "stopping"}
Sessions == {"live", "expired"}

Init == mode = "stopped" /\ session = "live"

Start  == mode = "stopped"  /\ mode' = "running"  /\ UNCHANGED session
Stop   == mode = "running"  /\ mode' = "stopping" /\ UNCHANGED session
Finish == mode = "stopping" /\ mode' = "stopped"  /\ UNCHANGED session

Crash ==
  /\ MayCrash
  /\ mode = "running"
  /\ mode' = "stopped"
  /\ UNCHANGED session

Expire ==
  /\ session = "live"
  /\ session' = "expired"
  /\ UNCHANGED mode

\* Nobody but the service (or a caller by hand) brings a session back.
Recover ==
  /\ CanRecover
  /\ mode # "stopped" \/ Manual
  /\ session = "expired"
  /\ session' = "live"
  /\ UNCHANGED mode

Next == Start \/ Stop \/ Finish \/ Crash \/ Expire \/ Recover

\* The safety part of the promise; Spec adds that a stop is finished.
Safe == Init /\ [][Next]_vars
Spec == Safe /\ WF_vars(Finish)
=============================================================================
