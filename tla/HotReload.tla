----------------------------- MODULE HotReload ------------------------------
(**************************************************************************)
(* What reload() promises to whoever edits the policy files of a running  *)
(* program ("Hot-Reload", docs/architecture.md): the policy in force is   *)
(* whole, as files held it; a reload changes it once, after all was read; *)
(* one that fails before that leaves the old.  In the code each field is  *)
(* assigned by itself, while others read it.  PolicyEngine and DlpGateway *)
(* implement this.                                                        *)
(**************************************************************************)

CONSTANTS
  Loadable,       \* the policies that the files may give
  RecordMayFail   \* the audit record of a reload may raise

VARIABLES
  policy,   \* the policy in force
  reload    \* where the reload is, or how the last one ended

vars == <<policy, reload>>

Ended == {"idle", "true", "false", "raised"}
Failures == {"false"} \cup (IF RecordMayFail THEN {"raised"} ELSE {})

Init == policy \in Loadable /\ reload = "idle"

Begin == reload \in Ended /\ reload' = "reading" /\ UNCHANGED policy

\* A file does not load, or there is nothing to load.
Fail == reload \in Ended \cup {"reading"} /\ reload' \in Failures /\ UNCHANGED policy

Replace == reload = "reading" /\ policy' \in Loadable /\ reload' = "replaced"

\* If the success cannot be recorded the reload fails, with the new policy in force.
Report ==
  /\ reload = "replaced"
  /\ reload' \in {"true"} \cup (IF RecordMayFail THEN {"false", "raised"} ELSE {})
  /\ UNCHANGED policy

Next == Begin \/ Fail \/ Replace \/ Report

Spec == Init /\ [][Next]_vars
=============================================================================
