--------------------------- MODULE SecretsMonitor ---------------------------
(***************************************************************************)
(* SecretsMonitor.check (credential_proxy/monitor.py), run over the        *)
(* dictionaries of CredentialProxy while other threads register            *)
(* credentials: it lists the handles, then looks up the domains of each,   *)
(* asks Vault, and reports.                                                *)
(***************************************************************************)
EXTENDS CredentialProxy, FiniteSets

CONSTANTS
  Broad,       \* domain_count > 10: a wide surface
  HasVault     \* the monitor was given a vault_loader

ASSUME MonitorAssumption == Broad \in Nat /\ HasVault \in BOOLEAN /\ IsFiniteSet(Domains)

VARIABLES
  mpc,        \* where check() is; "reported": it has returned
  handles,    \* the handles: those being listed, then those still to be looked up
  risk,       \* the risk_level of each handle in the report
  vaultAuth,  \* vault_authenticated
  alert,      \* the decision of the record: some of it is critical
  calm        \* history: the names that nobody has registered since check() began

checking == <<mpc, handles, risk, vaultAuth, alert>>
mvars    == <<vars, checking, calm>>

Undisturbed(n) == \A l \in Loaders : ~InMiddle(l, n)
NoReport       == [n \in Names |-> "unlisted"]

MInit ==
  /\ Init
  /\ mpc = "idle"
  /\ handles = {}
  /\ risk = NoReport
  /\ vaultAuth = None
  /\ alert = FALSE
  /\ calm = {}

-----------------------------------------------------------------------------

\* Mutant: what has domains is listed.
ListedMutant == {n \in Names : allowed[n] # {}}
\* list_handles goes by _store.
Listed == {n \in Names : store[n] # None}

CheckBegins ==
  /\ mpc \in {"idle", "reported"}
  /\ mpc' = "listing"
  /\ handles' = Listed
  /\ risk' = NoReport
  /\ vaultAuth' = None /\ alert' = FALSE
  /\ calm' = {n \in Names : Undisturbed(n)}
  /\ UNCHANGED vars

\* A dictionary that grows while it is iterated over raises.
HandlesListed ==
  /\ mpc = "listing"
  /\ IF handles = Listed THEN mpc' = "looking" /\ UNCHANGED handles
                         ELSE mpc' = "idle" /\ handles' = {}
  /\ UNCHANGED <<vars, risk, vaultAuth, alert, calm>>

\* Mutant: a handle without domains is as safe as one can be.
RiskMutant(k) == IF k > Broad THEN "warning" ELSE "ok"
Risk(k) == IF k = 0 THEN "critical" ELSE IF k > Broad THEN "warning" ELSE "ok"

LooksUp(n) ==
  /\ mpc = "looking"
  /\ n \in handles
  /\ handles' = handles \ {n}
  /\ risk' = [risk EXCEPT ![n] = Risk(Cardinality(allowed[n]))]
  /\ UNCHANGED <<vars, mpc, vaultAuth, alert, calm>>

\* is_authenticated() says yes, or no, or raises, which counts as no.
AsksVault ==
  /\ mpc = "looking" /\ handles = {}
  /\ vaultAuth' \in IF HasVault THEN {"yes", "no"} ELSE {None}
  /\ mpc' = "reporting"
  /\ UNCHANGED <<vars, handles, risk, alert, calm>>

\* The record may raise; then there is no report.
Reports ==
  /\ mpc = "reporting"
  /\ \/ mpc' = "reported" /\ UNCHANGED <<risk, vaultAuth>>
        /\ alert' = (vaultAuth = "no" \/ \E n \in Names : risk[n] = "critical")
     \/ mpc' = "idle" /\ risk' = NoReport /\ vaultAuth' = None /\ UNCHANGED alert
  /\ UNCHANGED <<vars, handles, calm>>

Monitoring ==
  CheckBegins \/ HandlesListed \/ (\E n \in Names : LooksUp(n)) \/ AsksVault \/ Reports

\* A step of those who register and use credentials.
ProxyStep ==
  /\ Next
  /\ calm' = {n \in calm : Undisturbed(n)'}
  /\ UNCHANGED checking

MSpec == MInit /\ [][Monitoring \/ ProxyStep]_mvars
-----------------------------------------------------------------------------
(* Properties *)

\* A report is true of every credential that nobody registered since the check
\* began, whoever registered others meanwhile: it is listed if it is there, and
\* its risk is that of its domains.  If nobody registered any, the report is an
\* alert exactly when a credential has no domains or Vault did not confirm the
\* session: neither silent nor alarmed without reason.
ReportHolds ==
  mpc = "reported" =>
    /\ \A n \in calm :
         risk[n] = IF store[n] = None THEN "unlisted" ELSE Risk(Cardinality(allowed[n]))
    /\ calm = Names =>
         (alert <=> vaultAuth = "no" \/ \E n \in Names : store[n] # None /\ allowed[n] = {})
=============================================================================
