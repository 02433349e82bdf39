----------------------------- MODULE DlpGateway -----------------------------
(***************************************************************************)
(* The DLP gateway (gateway_out/dlp.py): contents scanned with rules that   *)
(* reload() reads from one file and swaps in.  The default of a DLP policy  *)
(* is to allow, also when there is no policy file.                         *)
(***************************************************************************)
EXTENDS PolicyRules

CONSTANTS
  Scanners,          \* threads that call scan(); another one calls reload()
  Concurrent,        \* the calls overlap
  Contents,
  PolicyFiles,       \* what the policy file may contain
  Missing, Broken,   \* contents: no file; one that does not load
  AuditMayFail,      \* AuditLogger may raise
  None

Actions == {"allow", "block", "ask", "redact"}
Parsed  == PolicyFiles \ {Missing, Broken}

ASSUME GatewayAssumption ==
  /\ None \notin Contents
  /\ Concurrent \in BOOLEAN /\ AuditMayFail \in BOOLEAN
  /\ Parsed \subseteq [rules: Seq([hits: SUBSET Contents, action: Actions]), default: Actions]

VARIABLES
  policyFile,  \* the content of _policy_path
  gateway,     \* rules and default_action
  reload,      \* where reload() is, or what it gave
  new,         \* the gateway that a reload builds
  scan,        \* where each scan is
  content,     \* what is scanned
  decision     \* the action a scan gave

reloading == <<gateway, reload, new>>
scanning  == <<scan, content, decision>>
vars      == <<policyFile, reloading, scanning>>

\* What from_policy_file makes of a file that loads.
Loaded(f) == IF f = Missing THEN [rules |-> <<>>, default |-> "allow"] ELSE f

ReloadRests == reload \in {"idle", "true", "false", "raised"}
ScansRest   == \A s \in Scanners : scan[s] \in {"idle", "done"}

\* from_policy_file: a gateway made by hand, without a path, has no reload.
Init ==
  /\ policyFile \in PolicyFiles \ {Broken}
  /\ gateway = Loaded(policyFile)
  /\ reload = "idle"
  /\ new = gateway
  /\ scan = [s \in Scanners |-> "idle"]
  /\ content = [s \in Scanners |-> None]
  /\ decision = [s \in Scanners |-> "none"]

\* Somebody edits, adds or removes the file.
Edit ==
  /\ policyFile' \in PolicyFiles
  /\ UNCHANGED <<reloading, scanning>>

-----------------------------------------------------------------------------
(* reload() *)

Failures == {"false"} \cup (IF AuditMayFail THEN {"raised"} ELSE {})

ReadPolicy ==
  /\ ReloadRests /\ (Concurrent \/ ScansRest)
  /\ policyFile # Broken
  /\ new' = Loaded(policyFile)
  /\ reload' = "rules"
  /\ UNCHANGED <<policyFile, gateway, scanning>>

\* Mutant: the except clause leaves the gateway empty.
ReadFailsMutant ==
  /\ ReloadRests /\ (Concurrent \/ ScansRest)
  /\ policyFile \in {Broken, Missing}
  /\ reload' \in Failures
  /\ gateway' = Loaded(Missing)
  /\ UNCHANGED <<policyFile, new, scanning>>
\* The file does not load, or is gone between exists() and open().
ReadFails ==
  /\ ReloadRests /\ (Concurrent \/ ScansRest)
  /\ policyFile \in {Broken, Missing}
  /\ reload' \in Failures
  /\ UNCHANGED <<policyFile, gateway, new, scanning>>

SwapRules ==
  /\ reload = "rules" /\ reload' = "default"
  /\ gateway' = [gateway EXCEPT !.rules = new.rules]
  /\ UNCHANGED <<policyFile, new, scanning>>

\* Mutant: default_action is forgotten.
SwapDefaultMutant ==
  /\ reload = "default" /\ reload' = "report"
  /\ UNCHANGED <<policyFile, gateway, new, scanning>>
SwapDefault ==
  /\ reload = "default" /\ reload' = "report"
  /\ gateway' = [gateway EXCEPT !.default = new.default]
  /\ UNCHANGED <<policyFile, new, scanning>>

\* The record of the success is inside the try.
ReloadReports ==
  /\ reload = "report"
  /\ reload' \in {"true"} \cup (IF AuditMayFail THEN {"false", "raised"} ELSE {})
  /\ UNCHANGED <<policyFile, gateway, new, scanning>>

Reload == ReadPolicy \/ ReadFails \/ SwapRules \/ SwapDefault \/ ReloadReports

-----------------------------------------------------------------------------
(* scan() *)

Begins(s, c, to) ==
  /\ scan[s] \in {"idle", "done"} /\ (Concurrent \/ ReloadRests)
  /\ scan' = [scan EXCEPT ![s] = to]
  /\ content' = [content EXCEPT ![s] = c]
  /\ UNCHANGED <<policyFile, reloading>>

\* The decision is audited, then returned; if the audit raises there is none.
Decides(s, a) ==
  decision' \in {[decision EXCEPT ![s] = a]}
    \cup (IF AuditMayFail THEN {[decision EXCEPT ![s] = "none"]} ELSE {})

\* Neither scanned nor audited.
ScanBlank(s) ==
  /\ Begins(s, None, "done")
  /\ decision' = [decision EXCEPT ![s] = "allow"]

\* The list iterated over stays the same list when the attribute is replaced.
RuleMatches(s, c) ==
  /\ Matched(gateway.rules, c)
  /\ Begins(s, c, "done")
  /\ Decides(s, FirstMatch(gateway.rules, c))

NoRuleMatches(s, c) ==
  /\ ~Matched(gateway.rules, c)
  /\ Begins(s, c, "no match")
  /\ UNCHANGED decision

DefaultApplies(s) ==
  /\ scan[s] = "no match"
  /\ scan' = [scan EXCEPT ![s] = "done"]
  /\ Decides(s, gateway.default)
  /\ UNCHANGED <<policyFile, reloading, content>>

Scan(s) ==
  \/ ScanBlank(s)
  \/ \E c \in Contents : RuleMatches(s, c) \/ NoRuleMatches(s, c)
  \/ DefaultApplies(s)

Next ==
  \/ Edit
  \/ Reload
  \/ \E s \in Scanners : Scan(s)

Spec == Init /\ [][Next]_vars
-----------------------------------------------------------------------------
(* Properties *)

RuleLists == {<<>>} \cup {f.rules : f \in Parsed}
Gateways  == [rules: RuleLists, default: Actions]

\* The gateway, the one a reload builds and the scans have their types.
TypeOK ==
  /\ policyFile \in PolicyFiles
  /\ gateway \in Gateways /\ new \in Gateways
  /\ reload \in {"idle", "rules", "default", "report", "true", "false", "raised"}
  /\ scan \in [Scanners -> {"idle", "no match", "done"}]
  /\ content \in [Scanners -> Contents \cup {None}]
  /\ decision \in [Scanners -> Actions \cup {"none"}]

\* The policies that the file may hold, and the one of a file that is missing.
Policies == {Loaded(f) : f \in PolicyFiles \ {Broken}}

\* Between reloads the gateway holds one policy, as some file had it: no failed
\* load, no failed audit record and no scan in between leaves part of one.
GatewayIsWhole == reload # "default" => gateway \in Policies

\* What every policy file blocks by a rule is never let through, however edits,
\* reloads, their failures and scans interleave ("Falha segura", docs/SLO.md).
AlwaysBlocked ==
  \A s \in Scanners :
    /\ scan[s] = "done" /\ content[s] # None /\ decision[s] # "none"
    /\ \A f \in Parsed : Says(f.rules, "none", content[s], "block")
    => decision[s] = "block"

\* The gateway implements HotReload.  Between its two assignments, scans may see
\* the new rules with the old default; the policy in force is the new one.
Hot == INSTANCE HotReload WITH
  Loadable <- Policies,
  RecordMayFail <- AuditMayFail,
  policy <- IF reload = "default" THEN new ELSE gateway,
  reload <- CASE reload = "rules" -> "reading"
              [] reload \in {"default", "report"} -> "replaced"
              [] OTHER -> reload

\* The policy in force changes once in a reload, to one that the file held, and
\* not in one that reports a file that does not load (except clause of reload).
ImplementsHotReload == Hot!Spec
=============================================================================
