---------------------------- MODULE PolicyEngine ----------------------------
(***************************************************************************)
(* The permission engine (permissions/engine.py): commands and domains      *)
(* evaluated against a policy that reload() reads from two files and swaps  *)
(* in, field by field, while evaluations read those fields one at a time    *)
(* and an editor changes the files.                                        *)
(*                                                                         *)
(* A regular expression is the set of targets it finds (PolicyRules).       *)
(***************************************************************************)
EXTENDS PolicyRules

CONSTANTS
  Reloaders, Evaluators,     \* threads that call reload(); that call evaluate_*()
  Concurrent,                \* calls of different threads overlap
  Commands, Domains,
  Below,                     \* pairs <<d, a>>: d ends with "." + a
  Dirs,                      \* policy directories
  CommandFiles, DomainFiles, \* what the two files of a directory may contain
  Missing, Broken,           \* contents: no file; one that does not load
  AuditMayFail,              \* AuditLogger may raise
  None

Actions == {"allow", "block", "ask"}
Parsed(files) == files \ {Missing, Broken}

ASSUME EngineAssumption ==
  /\ Reloaders \cap Evaluators = {} /\ Commands \cap Domains = {}
  /\ None \notin Commands \cup Domains \cup Dirs
  /\ Below \subseteq Domains \X Domains
  /\ Concurrent \in BOOLEAN /\ AuditMayFail \in BOOLEAN
  /\ \A f \in Parsed(CommandFiles) :
       f \in [rules: Seq([hits: SUBSET Commands, action: Actions]), default: Actions]
  /\ \A f \in Parsed(DomainFiles) : f \in [allowed: SUBSET Domains, blocked: SUBSET Domains]

VARIABLES
  commandsFile, domainsFile,  \* the files of each directory
  engine,     \* command_rules, default_action, allowed_domains, blocked_domains
  policyDir,  \* _policy_dir
  pc,         \* where each thread is, or what its last call gave
  dir,        \* target_dir of a reload
  new,        \* new_engine of a reload
  target,     \* what is being evaluated
  decision,   \* the action an evaluation gave
  before,     \* history: engine and policyDir when a reload began
  inForce,    \* history: the policies that may be in force now
  seen        \* history: those in force at some moment of an evaluation

files      == <<commandsFile, domainsFile>>
reloading  == <<engine, policyDir, dir, new, before, inForce>>
evaluating == <<target, decision>>
vars       == <<files, reloading, pc, evaluating, seen>>

Threads == Reloaders \cup Evaluators

\* What from_policy_dir makes of a file that loads: one that does not exist
\* gives no rule and default_action "block", or no domain.
CommandPart(f) == IF f = Missing THEN [rules |-> <<>>, default |-> "block"] ELSE f
DomainPart(f)  == IF f = Missing THEN [allowed |-> {}, blocked |-> {}] ELSE f

Policy(c, d) == [rules |-> CommandPart(c).rules, default |-> CommandPart(c).default,
                 allowed |-> DomainPart(d).allowed, blocked |-> DomainPart(d).blocked]
NoPolicy == Policy(Missing, Missing)
Blank    == [engine |-> NoPolicy, policyDir |-> None]

SwapPcs   == {"default", "allowed", "blocked"}
ReloadPcs == {"idle", "commands", "domains", "rules", "dir", "report",
              "true", "false", "raised"} \cup SwapPcs
EvalPcs   == {"idle", "no match", "not blocked", "not listed", "decided"}
AtRest(p) == pc[p] \in {"idle", "true", "false", "raised", "decided"}
Overlaps  == Concurrent \/ \A p \in Threads : AtRest(p)
Busy      == {e \in Evaluators : ~AtRest(e)}

Init ==
  /\ commandsFile \in [Dirs -> CommandFiles]
  /\ domainsFile \in [Dirs -> DomainFiles]
  /\ \/ policyDir = None /\ engine = NoPolicy
     \/ /\ policyDir \in Dirs
        /\ commandsFile[policyDir] # Broken /\ domainsFile[policyDir] # Broken
        /\ engine = Policy(commandsFile[policyDir], domainsFile[policyDir])
  /\ pc = [p \in Threads |-> "idle"]
  /\ dir = [r \in Reloaders |-> None]
  /\ new = [r \in Reloaders |-> NoPolicy]
  /\ before = [r \in Reloaders |-> Blank]
  /\ target = [e \in Evaluators |-> None]
  /\ decision = [e \in Evaluators |-> "none"]
  /\ inForce = {engine}
  /\ seen = [e \in Evaluators |-> {}]

\* Somebody edits, adds or removes one of the files.
Edit ==
  /\ \E d \in Dirs :
       \/ /\ \E f \in CommandFiles : commandsFile' = [commandsFile EXCEPT ![d] = f]
          /\ UNCHANGED domainsFile
       \/ /\ \E f \in DomainFiles : domainsFile' = [domainsFile EXCEPT ![d] = f]
          /\ UNCHANGED commandsFile
  /\ UNCHANGED <<reloading, pc, evaluating, seen>>

Goto(p, from, to) == pc[p] = from /\ pc' = [pc EXCEPT ![p] = to]

-----------------------------------------------------------------------------
(* reload() *)

\* target_dir is the argument, or the directory of the last load.
ReloadBegins(r) ==
  /\ AtRest(r) /\ Overlaps
  /\ \E d \in Dirs \cup ({policyDir} \ {None}) :
       /\ dir' = [dir EXCEPT ![r] = d]
       /\ pc' = [pc EXCEPT ![r] = "commands"]
  /\ before' = [before EXCEPT ![r] = [engine |-> engine, policyDir |-> policyDir]]
  /\ UNCHANGED <<files, engine, policyDir, new, inForce, evaluating, seen>>

\* No argument and no directory of an earlier load.
ReloadWithoutDir(r) ==
  /\ AtRest(r) /\ Overlaps
  /\ policyDir = None
  /\ \E end \in {"false"} \cup (IF AuditMayFail THEN {"raised"} ELSE {}) :
       pc' = [pc EXCEPT ![r] = end]
  /\ before' = [before EXCEPT ![r] = [engine |-> engine, policyDir |-> policyDir]]
  /\ UNCHANGED <<files, engine, policyDir, dir, new, inForce, evaluating, seen>>

\* Mutant: the rules are replaced as they are read.
ReadCommandsMutant(r) ==
  /\ Goto(r, "commands", "domains")
  /\ commandsFile[dir[r]] # Broken
  /\ engine' = [engine EXCEPT !.rules = CommandPart(commandsFile[dir[r]]).rules]
  /\ new' = [new EXCEPT ![r] = Policy(commandsFile[dir[r]], Missing)]
  /\ UNCHANGED <<files, policyDir, dir, before, inForce, evaluating, seen>>
ReadCommands(r) ==
  /\ Goto(r, "commands", "domains")
  /\ commandsFile[dir[r]] # Broken
  /\ new' = [new EXCEPT ![r] = Policy(commandsFile[dir[r]], Missing)]
  /\ UNCHANGED <<files, engine, policyDir, dir, before, inForce, evaluating, seen>>

ReadDomains(r) ==
  /\ Goto(r, "domains", "rules")
  /\ domainsFile[dir[r]] # Broken
  /\ LET d == DomainPart(domainsFile[dir[r]]) IN
       new' = [new EXCEPT ![r].allowed = d.allowed, ![r].blocked = d.blocked]
  /\ UNCHANGED <<files, engine, policyDir, dir, before, inForce, evaluating, seen>>

\* YAML, an action or an expression that is not valid, or a file that is gone
\* between exists() and open(): the except clause.
ReadFails(r) ==
  /\ \/ pc[r] = "commands" /\ commandsFile[dir[r]] \in {Broken, Missing}
     \/ pc[r] = "domains" /\ domainsFile[dir[r]] \in {Broken, Missing}
  /\ \E end \in {"false"} \cup (IF AuditMayFail THEN {"raised"} ELSE {}) :
       pc' = [pc EXCEPT ![r] = end]
  /\ new' = [new EXCEPT ![r] = NoPolicy]
  /\ UNCHANGED <<files, engine, policyDir, dir, before, inForce, evaluating, seen>>

Assign(r, from, to, e) ==
  /\ Goto(r, from, to)
  /\ engine' = e
  /\ UNCHANGED <<files, policyDir, dir, new, before, evaluating>>

SwapRules(r) ==
  /\ Assign(r, "rules", "default", [engine EXCEPT !.rules = new[r].rules])
  /\ inForce' = inForce \cup {new[r]}
  /\ seen' = [e \in Evaluators |-> IF e \in Busy THEN seen[e] \cup {new[r]} ELSE seen[e]]
SwapDefault(r) ==
  /\ Assign(r, "default", "allowed", [engine EXCEPT !.default = new[r].default])
  /\ UNCHANGED <<inForce, seen>>
SwapAllowed(r) ==
  /\ Assign(r, "allowed", "blocked", [engine EXCEPT !.allowed = new[r].allowed])
  /\ UNCHANGED <<inForce, seen>>
\* Mutant: a field is forgotten.
SwapBlockedMutant(r) ==
  /\ Assign(r, "blocked", "dir", engine)
  /\ inForce' = {new[q] : q \in {q \in Reloaders : q = r \/ pc[q] \in SwapPcs}}
  /\ UNCHANGED seen
SwapBlocked(r) ==
  /\ Assign(r, "blocked", "dir", [engine EXCEPT !.blocked = new[r].blocked])
  /\ inForce' = {new[q] : q \in {q \in Reloaders : q = r \/ pc[q] \in SwapPcs}}
  /\ UNCHANGED seen

SetDir(r) ==
  /\ Goto(r, "dir", "report")
  /\ policyDir' = dir[r]
  /\ UNCHANGED <<files, engine, dir, new, before, inForce, evaluating, seen>>

\* The record of the success is inside the try: if it fails, so does the reload,
\* and the record of the failure may fail as well.
ReloadReports(r) ==
  /\ \E end \in {"true"} \cup (IF AuditMayFail THEN {"false", "raised"} ELSE {}) :
       Goto(r, "report", end)
  /\ new' = [new EXCEPT ![r] = NoPolicy]
  /\ UNCHANGED <<files, engine, policyDir, dir, before, inForce, evaluating, seen>>

Reload(r) ==
  \/ ReloadBegins(r) \/ ReloadWithoutDir(r)
  \/ ReadCommands(r) \/ ReadDomains(r) \/ ReadFails(r)
  \/ SwapRules(r) \/ SwapDefault(r) \/ SwapAllowed(r) \/ SwapBlocked(r)
  \/ SetDir(r) \/ ReloadReports(r)

-----------------------------------------------------------------------------
(* evaluate_command() and evaluate_domain() *)

Begins(e, x, to) ==
  /\ AtRest(e) /\ Overlaps
  /\ target' = [target EXCEPT ![e] = x]
  /\ seen' = [seen EXCEPT ![e] = inForce]
  /\ pc' = [pc EXCEPT ![e] = to]
  /\ UNCHANGED <<files, reloading>>

\* The decision is audited, then returned; if the audit raises there is none.
Decides(e, a) ==
  decision' \in {[decision EXCEPT ![e] = a]}
    \cup (IF AuditMayFail THEN {[decision EXCEPT ![e] = "none"]} ELSE {})

EvaluateEmptyCommand(e) ==
  Begins(e, None, "decided") /\ Decides(e, "block")

\* The list iterated over stays the same list when the attribute is replaced.
CommandMatches(e, c) ==
  /\ Matched(engine.rules, c)
  /\ Begins(e, c, "decided")
  /\ Decides(e, FirstMatch(engine.rules, c))

CommandUnmatched(e, c) ==
  /\ ~Matched(engine.rules, c)
  /\ Begins(e, c, "no match")
  /\ UNCHANGED decision

EvalStep(e, from, to) ==
  /\ Goto(e, from, to)
  /\ UNCHANGED <<files, reloading, target, seen>>

DefaultApplies(e) == EvalStep(e, "no match", "decided") /\ Decides(e, engine.default)

DomainBlocked(e, d) ==
  /\ d \in engine.blocked
  /\ Begins(e, d, "decided")
  /\ Decides(e, "block")

DomainNotBlocked(e, d) ==
  /\ d \notin engine.blocked
  /\ Begins(e, d, "not blocked")
  /\ UNCHANGED decision

DomainAllowed(e) ==
  /\ target[e] \in engine.allowed
  /\ EvalStep(e, "not blocked", "decided")
  /\ Decides(e, "allow")

DomainNotListed(e) ==
  /\ target[e] \notin engine.allowed
  /\ EvalStep(e, "not blocked", "not listed")
  /\ UNCHANGED decision

\* The loop over the subdomains reads the attribute again.
Covered(d) == \E a \in engine.allowed : d = a \/ <<d, a>> \in Below

SubdomainDecides(e) ==
  /\ EvalStep(e, "not listed", "decided")
  /\ Decides(e, IF Covered(target[e]) THEN "allow" ELSE "block")

Evaluate(e) ==
  \/ EvaluateEmptyCommand(e)
  \/ \E c \in Commands : CommandMatches(e, c) \/ CommandUnmatched(e, c)
  \/ DefaultApplies(e)
  \/ \E d \in Domains : DomainBlocked(e, d) \/ DomainNotBlocked(e, d)
  \/ DomainAllowed(e) \/ DomainNotListed(e) \/ SubdomainDecides(e)

Next ==
  \/ Edit
  \/ \E r \in Reloaders : Reload(r)
  \/ \E e \in Evaluators : Evaluate(e)

Spec == Init /\ [][Next]_vars
-----------------------------------------------------------------------------
(* Properties *)

RuleLists == {<<>>} \cup {f.rules : f \in Parsed(CommandFiles)}
Policies  == [rules: RuleLists, default: Actions,
              allowed: SUBSET Domains, blocked: SUBSET Domains]

\* The engine, the policies under construction and the threads have their types.
TypeOK ==
  /\ commandsFile \in [Dirs -> CommandFiles] /\ domainsFile \in [Dirs -> DomainFiles]
  /\ engine \in Policies
  /\ policyDir \in Dirs \cup {None}
  /\ pc \in [Threads -> ReloadPcs \cup EvalPcs]
  /\ \A r \in Reloaders : pc[r] \in ReloadPcs
  /\ \A e \in Evaluators : pc[e] \in EvalPcs
  /\ dir \in [Reloaders -> Dirs \cup {None}]
  /\ new \in [Reloaders -> Policies]
  /\ target \in [Evaluators -> Commands \cup Domains \cup {None}]
  /\ decision \in [Evaluators -> Actions \cup {"none"}]
  /\ before \in [Reloaders -> [engine: Policies, policyDir: Dirs \cup {None}]]
  /\ inForce \subseteq Policies
  /\ seen \in [Evaluators -> SUBSET Policies]

\* With the types, inductive: a reload under way has a directory.
DirInv ==
  \A r \in Reloaders :
    pc[r] \in {"commands", "domains", "rules", "dir"} \cup SwapPcs => dir[r] \in Dirs

\* What one whole policy says of a command, or of a domain: blocked if it is in
\* the blocked list, allowed if it or a domain it is below is in the other.
PolicyGives(P, x, action) ==
  IF x \in Commands THEN Says(P.rules, P.default, x, action)
  ELSE action = IF /\ x \notin P.blocked
                   /\ \E a \in P.allowed : x = a \/ <<x, a>> \in Below
                THEN "allow" ELSE "block"

Decided(e) == pc[e] = "decided" /\ decision[e] # "none" /\ target[e] # None

\* An evaluation during which a single policy is in force gives what that policy
\* says, each list and default included.
SteadyDecision ==
  \A e \in Evaluators : Decided(e) =>
    \A P \in seen[e] : seen[e] = {P} => PolicyGives(P, target[e], decision[e])

\* Reloads that overlap an evaluation cannot change what all the policies in
\* force say by a rule, or by the list of blocked domains.
ExplicitHolds ==
  \A e \in Evaluators : Decided(e) =>
    /\ target[e] \in Commands /\ (\A P \in seen[e] : Matched(P.rules, target[e]))
         => \E P \in seen[e] : Says(P.rules, P.default, target[e], decision[e])
    /\ target[e] \in Domains /\ (\A P \in seen[e] : target[e] \in P.blocked)
         => decision[e] = "block"

\* Between reloads the engine holds one policy, as one load read it, not a
\* mixture of two.
PolicyIsWhole == (\A r \in Reloaders : pc[r] \notin SwapPcs) => engine \in inForce

\* A reload that returned False has left the policy and the directory alone ("Em
\* caso de erro, mantém as regras antigas", reload).
FailedReloadKeepsOld ==
  \A r \in Reloaders : pc[r] = "false" =>
    before[r] = [engine |-> engine, policyDir |-> policyDir]

\* The policies that loads may give, and that of an engine that loaded none.
LoadedPolicies ==
  {NoPolicy} \cup {Policy(c, d) : c \in CommandFiles \ {Broken}, d \in DomainFiles \ {Broken}}

\* The engine of one reloader implements HotReload: the policy in force is the new
\* one from the first assignment on.
Swapping == {r \in Reloaders : pc[r] \in SwapPcs}
Stage(at) ==
  CASE at \in {"commands", "domains", "rules"} -> "reading"
    [] at \in SwapPcs \cup {"dir", "report"} -> "replaced"
    [] OTHER -> at
Hot == INSTANCE HotReload WITH
  Loadable <- LoadedPolicies,
  RecordMayFail <- AuditMayFail,
  policy <- IF Swapping = {} THEN engine ELSE new[CHOOSE r \in Swapping : TRUE],
  reload <- IF Reloaders = {} THEN "idle" ELSE Stage(pc[CHOOSE r \in Reloaders : TRUE])

\* The policy in force changes once in a reload, to one whole policy that the two
\* files held, and not in one that fails to load them ("Em caso de erro no reload, as
\* regras anteriores são mantidas", docs/architecture.md).
ImplementsHotReload == Hot!Spec
=============================================================================
