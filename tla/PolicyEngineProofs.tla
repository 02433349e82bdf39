------------------------- MODULE PolicyEngineProofs -------------------------
(***************************************************************************)
(* Theorems of PolicyEngine, for every set of policies, threads and targets. *)
(***************************************************************************)
EXTENDS PolicyEngine, PolicyRulesProofs

-----------------------------------------------------------------------------
(* Types *)

\* A file that loads, or none, gives the two halves of a policy.
LEMMA PartTypes ==
  /\ \A f : f = Missing \/ f \in Parsed(CommandFiles) =>
       CommandPart(f).rules \in RuleLists /\ CommandPart(f).default \in Actions
  /\ \A f : f = Missing \/ f \in Parsed(DomainFiles) =>
       DomainPart(f).allowed \in SUBSET Domains /\ DomainPart(f).blocked \in SUBSET Domains
<1>1. ASSUME NEW f, f = Missing \/ f \in Parsed(CommandFiles)
      PROVE  CommandPart(f).rules \in RuleLists /\ CommandPart(f).default \in Actions
  <2>1. CASE f = Missing
    BY <2>1 DEF CommandPart, RuleLists, Actions
  <2>2. CASE f # Missing
    BY <1>1, <2>2, EngineAssumption DEF CommandPart, RuleLists
  <2> QED BY <2>1, <2>2
<1>2. ASSUME NEW f, f = Missing \/ f \in Parsed(DomainFiles)
      PROVE  DomainPart(f).allowed \in SUBSET Domains /\ DomainPart(f).blocked \in SUBSET Domains
  <2>1. CASE f = Missing
    BY <2>1 DEF DomainPart
  <2>2. CASE f # Missing
    BY <1>2, <2>2, EngineAssumption DEF DomainPart
  <2> QED BY <2>1, <2>2
<1> QED BY <1>1, <1>2

\* What a load makes of two files is a policy; so is the empty one.
LEMMA PolicyType ==
  ASSUME NEW c, c = Missing \/ c \in Parsed(CommandFiles),
         NEW d, d = Missing \/ d \in Parsed(DomainFiles)
  PROVE  Policy(c, d) \in Policies
<1>1. /\ CommandPart(c).rules \in RuleLists /\ CommandPart(c).default \in Actions
      /\ DomainPart(d).allowed \in SUBSET Domains /\ DomainPart(d).blocked \in SUBSET Domains
  BY PartTypes
<1> QED BY <1>1 DEF Policy, Policies

\* Every rule of a policy in force has an action.
LEMMA RuleAction ==
  ASSUME NEW rules \in RuleLists
  PROVE  rules \in Seq([hits: SUBSET Commands, action: Actions])
<1>1. CASE rules = <<>>
  BY <1>1
<1>2. CASE rules # <<>>
  <2>1. PICK f \in Parsed(CommandFiles) : rules = f.rules
    BY <1>2 DEF RuleLists
  <2> QED BY <2>1, EngineAssumption
<1> QED BY <1>1, <1>2

\* An element of a sequence is of its type.
LEMMA ElementType ==
  ASSUME NEW T, NEW s \in Seq(T), NEW i \in DOMAIN s
  PROVE  s[i] \in T
OBVIOUS

\* The first match gives one of the three actions.
LEMMA MatchAction ==
  ASSUME NEW rules \in RuleLists, NEW x, Matched(rules, x)
  PROVE  FirstMatch(rules, x) \in Actions
<1>1. rules \in Seq([hits: SUBSET Commands, action: Actions])
  BY RuleAction
<1>2. DOMAIN rules \subseteq Nat
  BY <1>1
<1>3. Winner(rules, x) \in DOMAIN rules
  BY <1>2, WinnerIsFirst DEF Hits
<1>4. rules[Winner(rules, x)] \in [hits: SUBSET Commands, action: Actions]
  BY <1>1, <1>3, ElementType
<1> QED BY <1>4 DEF FirstMatch

\* The engine that is built, from a directory or from nothing.
LEMMA TypeInit == Init => TypeOK /\ DirInv
<1> SUFFICES ASSUME Init PROVE TypeOK /\ DirInv
  OBVIOUS
<1>1. NoPolicy \in Policies
  BY PolicyType DEF NoPolicy
<1>2. engine \in Policies
  <2>1. CASE engine = NoPolicy
    BY <1>1, <2>1
  <2>2. CASE engine # NoPolicy
    BY <2>2, PolicyType DEF Init, Parsed
  <2> QED BY <2>1, <2>2
<1>3. Blank \in [engine: Policies, policyDir: Dirs \cup {None}]
  BY <1>1 DEF Blank
<1>4. policyDir \in Dirs \cup {None}
  BY DEF Init
<1>5. DirInv
  BY EngineAssumption DEF Init, DirInv, SwapPcs, Threads
<1> QED BY <1>1, <1>2, <1>3, <1>4, <1>5 DEF Init, TypeOK, ReloadPcs, EvalPcs, Threads

\* The places a thread may go to, and what may change with a reload.
LEMMA TypeGoto ==
  ASSUME TypeOK, NEW p \in Threads, NEW to, pc' = [pc EXCEPT ![p] = to],
         p \in Reloaders => to \in ReloadPcs, p \in Evaluators => to \in EvalPcs
  PROVE  /\ pc' \in [Threads -> ReloadPcs \cup EvalPcs]
         /\ \A q \in Reloaders : pc'[q] \in ReloadPcs
         /\ \A e \in Evaluators : pc'[e] \in EvalPcs
BY DEF TypeOK, Threads

\* A reload leaves policies in the engine, in its copy and in the histories.
LEMMA TypeReload ==
  ASSUME TypeOK, DirInv, NEW r \in Reloaders, Reload(r)
  PROVE  TypeOK'
<1> USE DEF files, evaluating
<1>1. NoPolicy \in Policies
  BY PolicyType DEF NoPolicy
<1>2. r \in Threads /\ r \notin Evaluators
  BY EngineAssumption DEF Threads
<1>3. ASSUME NEW to \in ReloadPcs, pc' = [pc EXCEPT ![r] = to]
      PROVE  /\ pc' \in [Threads -> ReloadPcs \cup EvalPcs]
             /\ \A q \in Reloaders : pc'[q] \in ReloadPcs
             /\ \A e \in Evaluators : pc'[e] \in EvalPcs
  BY <1>2, <1>3, TypeGoto
<1>4. [engine |-> engine, policyDir |-> policyDir] \in [engine: Policies, policyDir: Dirs \cup {None}]
  BY DEF TypeOK
<1>5. CASE ReloadBegins(r)
  <2>1. /\ pc' = [pc EXCEPT ![r] = "commands"] /\ "commands" \in ReloadPcs
        /\ dir' \in [Reloaders -> Dirs \cup {None}]
        /\ before' \in [Reloaders -> [engine: Policies, policyDir: Dirs \cup {None}]]
    BY <1>4, <1>5 DEF ReloadBegins, ReloadPcs, TypeOK
  <2> QED BY <1>3, <1>5, <2>1 DEF ReloadBegins, TypeOK
<1>6. CASE ReloadWithoutDir(r)
  <2>1. PICK end \in ReloadPcs : pc' = [pc EXCEPT ![r] = end]
    BY <1>6 DEF ReloadWithoutDir, ReloadPcs
  <2>2. before' \in [Reloaders -> [engine: Policies, policyDir: Dirs \cup {None}]]
    BY <1>4, <1>6 DEF ReloadWithoutDir, TypeOK
  <2> QED BY <1>3, <1>6, <2>1, <2>2 DEF ReloadWithoutDir, TypeOK
<1>7. CASE ReadCommands(r)
  <2>1. pc[r] = "commands" /\ pc' = [pc EXCEPT ![r] = "domains"] /\ "domains" \in ReloadPcs
    BY <1>7 DEF ReadCommands, Goto, ReloadPcs
  <2>2. new' \in [Reloaders -> Policies]
    <3> DEFINE c == commandsFile[dir[r]]
    <3>1. c \in CommandFiles
      BY <2>1 DEF DirInv, TypeOK
    <3>2. c = Missing \/ c \in Parsed(CommandFiles)
      BY <1>7, <3>1 DEF ReadCommands, Parsed
    <3> HIDE DEF c
    <3>3. Policy(c, Missing) \in Policies
      BY <3>2, PolicyType
    <3>4. new' = [new EXCEPT ![r] = Policy(c, Missing)]
      BY <1>7 DEF ReadCommands, c
    <3> QED BY <3>3, <3>4 DEF TypeOK
  <2> QED BY <1>3, <1>7, <2>1, <2>2 DEF ReadCommands, TypeOK
<1>8. CASE ReadDomains(r)
  <2>1. pc[r] = "domains" /\ pc' = [pc EXCEPT ![r] = "rules"] /\ "rules" \in ReloadPcs
    BY <1>8 DEF ReadDomains, Goto, ReloadPcs
  <2>2. new' \in [Reloaders -> Policies]
    <3> DEFINE d == DomainPart(domainsFile[dir[r]])
    <3>1. domainsFile[dir[r]] \in DomainFiles
      BY <2>1 DEF DirInv, TypeOK
    <3>2. d.allowed \in SUBSET Domains /\ d.blocked \in SUBSET Domains
      BY <1>8, <3>1, PartTypes DEF ReadDomains, Parsed
    <3>3. new' = [new EXCEPT ![r].allowed = d.allowed, ![r].blocked = d.blocked]
      BY <1>8 DEF ReadDomains
    <3> HIDE DEF d
    <3>4. new[r] \in Policies
      BY DEF TypeOK
    <3>5. [new[r] EXCEPT !.allowed = d.allowed, !.blocked = d.blocked] \in Policies
      BY <3>2, <3>4 DEF Policies
    <3>6. new' = [new EXCEPT ![r] = [new[r] EXCEPT !.allowed = d.allowed, !.blocked = d.blocked]]
      BY <3>3 DEF TypeOK
    <3> QED BY <3>5, <3>6 DEF TypeOK
  <2> QED BY <1>3, <1>8, <2>1, <2>2 DEF ReadDomains, TypeOK
<1>9. CASE ReadFails(r)
  <2>1. PICK end \in ReloadPcs : pc' = [pc EXCEPT ![r] = end]
    BY <1>9 DEF ReadFails, ReloadPcs
  <2> QED BY <1>1, <1>3, <1>9, <2>1 DEF ReadFails, TypeOK
<1>10. CASE SwapRules(r)
  <2>1. pc' = [pc EXCEPT ![r] = "default"] /\ "default" \in ReloadPcs
    BY <1>10 DEF SwapRules, Assign, Goto, ReloadPcs, SwapPcs
  <2>2. engine' \in Policies
    BY <1>10 DEF SwapRules, Assign, TypeOK, Policies
  <2>3. inForce' \subseteq Policies /\ seen' \in [Evaluators -> SUBSET Policies]
    BY <1>10 DEF SwapRules, TypeOK
  <2> QED BY <1>3, <1>10, <2>1, <2>2, <2>3 DEF SwapRules, Assign, TypeOK
<1>11. CASE SwapDefault(r)
  <2>1. pc' = [pc EXCEPT ![r] = "allowed"] /\ "allowed" \in ReloadPcs
    BY <1>11 DEF SwapDefault, Assign, Goto, ReloadPcs, SwapPcs
  <2>2. engine' \in Policies
    BY <1>11 DEF SwapDefault, Assign, TypeOK, Policies
  <2> QED BY <1>3, <1>11, <2>1, <2>2 DEF SwapDefault, Assign, TypeOK
<1>12. CASE SwapAllowed(r)
  <2>1. pc' = [pc EXCEPT ![r] = "blocked"] /\ "blocked" \in ReloadPcs
    BY <1>12 DEF SwapAllowed, Assign, Goto, ReloadPcs, SwapPcs
  <2>2. engine' \in Policies
    BY <1>12 DEF SwapAllowed, Assign, TypeOK, Policies
  <2> QED BY <1>3, <1>12, <2>1, <2>2 DEF SwapAllowed, Assign, TypeOK
<1>13. CASE SwapBlocked(r)
  <2>1. pc' = [pc EXCEPT ![r] = "dir"] /\ "dir" \in ReloadPcs
    BY <1>13 DEF SwapBlocked, Assign, Goto, ReloadPcs
  <2>2. engine' \in Policies
    BY <1>13 DEF SwapBlocked, Assign, TypeOK, Policies
  <2>3. inForce' \subseteq Policies
    BY <1>13 DEF SwapBlocked, TypeOK
  <2> QED BY <1>3, <1>13, <2>1, <2>2, <2>3 DEF SwapBlocked, Assign, TypeOK
<1>14. CASE SetDir(r)
  <2>1. pc' = [pc EXCEPT ![r] = "report"] /\ "report" \in ReloadPcs
    BY <1>14 DEF SetDir, Goto, ReloadPcs
  <2> QED BY <1>3, <1>14, <2>1 DEF SetDir, TypeOK
<1>15. CASE ReloadReports(r)
  <2>1. PICK end \in ReloadPcs : pc' = [pc EXCEPT ![r] = end]
    BY <1>15 DEF ReloadReports, Goto, ReloadPcs
  <2> QED BY <1>1, <1>3, <1>15, <2>1 DEF ReloadReports, TypeOK
<1> QED
  BY <1>5, <1>6, <1>7, <1>8, <1>9, <1>10, <1>11, <1>12, <1>13, <1>14, <1>15 DEF Reload

\* What an evaluation decides is an action, or nothing.
LEMMA TypeDecides ==
  ASSUME TypeOK, NEW e \in Evaluators, NEW a \in Actions, Decides(e, a)
  PROVE  decision' \in [Evaluators -> Actions \cup {"none"}]
BY DEF TypeOK, Decides

\* An evaluation that begins.
LEMMA TypeBegins ==
  ASSUME TypeOK, NEW e \in Evaluators, NEW x \in Commands \cup Domains \cup {None},
         NEW to \in EvalPcs, Begins(e, x, to),
         decision' \in [Evaluators -> Actions \cup {"none"}]
  PROVE  TypeOK'
<1>1. e \in Threads /\ e \notin Reloaders
  BY EngineAssumption DEF Threads
<1>2. /\ pc' \in [Threads -> ReloadPcs \cup EvalPcs]
      /\ \A q \in Reloaders : pc'[q] \in ReloadPcs
      /\ \A q \in Evaluators : pc'[q] \in EvalPcs
  BY <1>1, TypeGoto DEF Begins
<1>3. /\ target' \in [Evaluators -> Commands \cup Domains \cup {None}]
      /\ seen' \in [Evaluators -> SUBSET Policies]
  BY DEF Begins, TypeOK
<1> QED BY <1>2, <1>3 DEF Begins, TypeOK, files, reloading

\* An evaluation that goes on.
LEMMA TypeEvalStep ==
  ASSUME TypeOK, NEW e \in Evaluators, NEW from, NEW to \in EvalPcs, EvalStep(e, from, to),
         decision' \in [Evaluators -> Actions \cup {"none"}]
  PROVE  TypeOK'
<1>1. e \in Threads /\ e \notin Reloaders
  BY EngineAssumption DEF Threads
<1>2. /\ pc' \in [Threads -> ReloadPcs \cup EvalPcs]
      /\ \A q \in Reloaders : pc'[q] \in ReloadPcs
      /\ \A q \in Evaluators : pc'[q] \in EvalPcs
  BY <1>1, TypeGoto DEF EvalStep, Goto
<1> QED BY <1>2 DEF EvalStep, TypeOK, files, reloading

\* Every step of an evaluation gives an action, or none.
LEMMA TypeEvaluate ==
  ASSUME TypeOK, NEW e \in Evaluators, Evaluate(e)
  PROVE  TypeOK'
<1>1. /\ {"block", "allow"} \subseteq Actions
      /\ {"decided", "no match", "not blocked", "not listed"} \subseteq EvalPcs
  BY DEF Actions, EvalPcs
<1>2. engine.rules \in RuleLists /\ engine.default \in Actions
  BY DEF TypeOK, Policies
<1>3. CASE EvaluateEmptyCommand(e)
  BY <1>1, <1>3, TypeDecides, TypeBegins DEF EvaluateEmptyCommand
<1>4. ASSUME NEW c \in Commands, CommandMatches(e, c) PROVE TypeOK'
  <2>1. FirstMatch(engine.rules, c) \in Actions
    BY <1>2, <1>4, MatchAction DEF CommandMatches
  <2> QED BY <1>1, <1>4, <2>1, TypeDecides, TypeBegins DEF CommandMatches
<1>5. ASSUME NEW c \in Commands, CommandUnmatched(e, c) PROVE TypeOK'
  <2>1. decision' \in [Evaluators -> Actions \cup {"none"}]
    BY <1>5 DEF CommandUnmatched, TypeOK
  <2> QED BY <1>1, <1>5, <2>1, TypeBegins DEF CommandUnmatched
<1>6. CASE DefaultApplies(e)
  BY <1>1, <1>2, <1>6, TypeDecides, TypeEvalStep DEF DefaultApplies
<1>7. ASSUME NEW d \in Domains, DomainBlocked(e, d) PROVE TypeOK'
  BY <1>1, <1>7, TypeDecides, TypeBegins DEF DomainBlocked
<1>8. ASSUME NEW d \in Domains, DomainNotBlocked(e, d) PROVE TypeOK'
  <2>1. decision' \in [Evaluators -> Actions \cup {"none"}]
    BY <1>8 DEF DomainNotBlocked, TypeOK
  <2> QED BY <1>1, <1>8, <2>1, TypeBegins DEF DomainNotBlocked
<1>9. CASE DomainAllowed(e)
  BY <1>1, <1>9, TypeDecides, TypeEvalStep DEF DomainAllowed
<1>10. CASE DomainNotListed(e)
  <2>1. decision' \in [Evaluators -> Actions \cup {"none"}]
    BY <1>10 DEF DomainNotListed, TypeOK
  <2> QED BY <1>1, <1>10, <2>1, TypeEvalStep DEF DomainNotListed
<1>11. CASE SubdomainDecides(e)
  BY <1>1, <1>11, TypeDecides, TypeEvalStep DEF SubdomainDecides
<1> QED
  BY <1>3, <1>4, <1>5, <1>6, <1>7, <1>8, <1>9, <1>10, <1>11 DEF Evaluate

\* Only Edit changes the files, and it changes nothing else of the types.
LEMMA TypeStep == TypeOK /\ DirInv /\ [Next]_vars => TypeOK'
<1> SUFFICES ASSUME TypeOK, DirInv, [Next]_vars PROVE TypeOK'
  OBVIOUS
<1>1. CASE Edit
  BY <1>1 DEF Edit, TypeOK, reloading, evaluating
<1>2. CASE UNCHANGED vars
  BY <1>2 DEF vars, files, reloading, evaluating, TypeOK
<1> QED BY <1>1, <1>2, TypeReload, TypeEvaluate DEF Next

\* What evaluations and edits leave alone, for the invariants about reloads.
LEMMA EvaluateKeeps ==
  ASSUME TypeOK, NEW e \in Evaluators, Evaluate(e)
  PROVE  /\ UNCHANGED reloading
         /\ \A r \in Reloaders : pc'[r] = pc[r]
<1>1. e \in Threads /\ e \notin Reloaders
  BY EngineAssumption DEF Threads
<1>2. UNCHANGED reloading /\ \E to : pc' = [pc EXCEPT ![e] = to]
  BY DEF Evaluate, EvaluateEmptyCommand, CommandMatches, CommandUnmatched, DefaultApplies,
         DomainBlocked, DomainNotBlocked, DomainAllowed, DomainNotListed, SubdomainDecides,
         Begins, EvalStep, Goto
<1> QED BY <1>1, <1>2 DEF TypeOK

\* In each step at most one reload moves, and only a reload changes the engine.
LEMMA ReloadOrNot ==
  ASSUME TypeOK, [Next]_vars
  PROVE  \/ \E r \in Reloaders : Reload(r)
         \/ UNCHANGED reloading /\ \A r \in Reloaders : pc'[r] = pc[r]
BY EvaluateKeeps DEF Next, Edit, vars

\* A reload keeps its directory until the files have been swapped in.
LEMMA DirStep == TypeOK /\ DirInv /\ [Next]_vars => DirInv'
<1> SUFFICES ASSUME TypeOK, DirInv, [Next]_vars PROVE DirInv'
  OBVIOUS
<1>1. CASE UNCHANGED reloading /\ \A r \in Reloaders : pc'[r] = pc[r]
  BY <1>1 DEF reloading, DirInv
<1>2. ASSUME NEW r \in Reloaders, Reload(r) PROVE DirInv'
  <2>1. r \in Threads /\ Reloaders \subseteq Threads
    BY DEF Threads
  <2>2. CASE ReloadBegins(r)
    BY <2>1, <2>2 DEF ReloadBegins, DirInv, TypeOK
  <2>3. CASE ~ReloadBegins(r)
    <3>1. UNCHANGED dir
      BY <1>2, <2>3 DEF Reload, ReloadWithoutDir, ReadCommands, ReadDomains, ReadFails,
        SwapRules, SwapDefault, SwapAllowed, SwapBlocked, Assign, SetDir, ReloadReports
    <3>2. \A q \in Reloaders \ {r} : pc'[q] = pc[q]
      BY <1>2, <2>1, <2>3 DEF Reload, ReloadWithoutDir, ReadCommands, ReadDomains, ReadFails,
        SwapRules, SwapDefault, SwapAllowed, SwapBlocked, Assign, SetDir, ReloadReports, Goto, TypeOK
    <3>3. pc'[r] \in {"commands", "domains", "rules", "dir"} \cup SwapPcs
            => pc[r] \in {"commands", "domains", "rules", "dir"} \cup SwapPcs
      BY <1>2, <2>1, <2>3 DEF Reload, ReloadWithoutDir, ReadCommands, ReadDomains, ReadFails,
        SwapRules, SwapDefault, SwapAllowed, SwapBlocked, Assign, SetDir, ReloadReports, Goto, TypeOK, SwapPcs
    <3> QED BY <3>1, <3>2, <3>3 DEF DirInv
  <2> QED BY <2>2, <2>3
<1> QED BY <1>1, <1>2, ReloadOrNot

\* Every variable has its type, whoever evaluates, reloads and edits.
THEOREM TypeCorrect == Spec => []TypeOK
<1>1. TypeOK /\ DirInv /\ [Next]_vars => (TypeOK /\ DirInv)'
  BY TypeStep, DirStep
<1> QED BY <1>1, TypeInit, PTL DEF Spec
-----------------------------------------------------------------------------
(* Reloads, one at a time *)

\* Nothing in the code serialises two threads that call reload().
OneReloader == \A r, q \in Reloaders : r = q

\* What of the new policy is in place, from the first assignment to the last.
SwapInv ==
  \A r \in Reloaders : pc[r] \in SwapPcs =>
    /\ new[r] \in inForce
    /\ engine.rules = new[r].rules
    /\ pc[r] \in {"allowed", "blocked"} => engine.default = new[r].default
    /\ pc[r] = "blocked" => engine.allowed = new[r].allowed

WholeInv == PolicyIsWhole /\ SwapInv

\* The last assignment leaves the new policy.
LEMMA SwapEnds ==
  ASSUME TypeOK, WholeInv, NEW r \in Reloaders, SwapBlocked(r)
  PROVE  engine' = new[r]
<1>1. pc[r] = "blocked" /\ engine' = [engine EXCEPT !.blocked = new[r].blocked]
  BY DEF SwapBlocked, Assign, Goto
<1>2. engine.rules = new[r].rules /\ engine.default = new[r].default /\ engine.allowed = new[r].allowed
  BY <1>1 DEF WholeInv, SwapInv, SwapPcs
<1>3. engine \in Policies /\ new[r] \in Policies
  BY DEF TypeOK
<1> QED BY <1>1, <1>2, <1>3 DEF Policies

\* The assignments go field by field to the new policy.
LEMMA WholeStep ==
  ASSUME OneReloader, TypeOK, WholeInv, [Next]_vars
  PROVE  WholeInv'
<1> USE DEF WholeInv, PolicyIsWhole, SwapInv
<1>1. CASE UNCHANGED reloading /\ \A r \in Reloaders : pc'[r] = pc[r]
  BY <1>1 DEF reloading
<1>2. ASSUME NEW r \in Reloaders, Reload(r) PROVE WholeInv'
  <2>1. r \in Threads /\ \A q \in Reloaders : q = r
    BY DEF OneReloader, Threads
  <2>2. CASE \/ ReloadBegins(r) \/ ReloadWithoutDir(r) \/ ReadCommands(r) \/ ReadDomains(r)
             \/ ReadFails(r) \/ SetDir(r) \/ ReloadReports(r)
    <3>1. pc[r] \notin SwapPcs /\ pc'[r] \notin SwapPcs
      BY <2>1, <2>2 DEF ReloadBegins, ReloadWithoutDir, ReadCommands, ReadDomains, ReadFails,
         SetDir, ReloadReports, Goto, AtRest, SwapPcs, TypeOK
    <3>2. UNCHANGED <<engine, inForce>>
      BY <2>2 DEF ReloadBegins, ReloadWithoutDir, ReadCommands, ReadDomains, ReadFails,
         SetDir, ReloadReports
    <3> QED BY <2>1, <3>1, <3>2
  <2>3. engine = [rules |-> engine.rules, default |-> engine.default,
                  allowed |-> engine.allowed, blocked |-> engine.blocked]
        /\ new[r] = [rules |-> new[r].rules, default |-> new[r].default,
                     allowed |-> new[r].allowed, blocked |-> new[r].blocked]
    BY DEF TypeOK, Policies
  <2>4. CASE SwapRules(r)
    <3>1. /\ pc'[r] = "default" /\ engine' = [engine EXCEPT !.rules = new[r].rules]
          /\ new' = new /\ new[r] \in inForce'
      BY <2>1, <2>4 DEF SwapRules, Assign, Goto, TypeOK
    <3> QED BY <2>1, <2>3, <3>1 DEF SwapPcs
  <2>5. CASE SwapDefault(r)
    <3>1. /\ pc[r] = "default" /\ pc'[r] = "allowed"
          /\ engine' = [engine EXCEPT !.default = new[r].default]
          /\ new' = new /\ inForce' = inForce
      BY <2>1, <2>5 DEF SwapDefault, Assign, Goto, TypeOK
    <3> QED BY <2>1, <2>3, <3>1 DEF SwapPcs
  <2>6. CASE SwapAllowed(r)
    <3>1. /\ pc[r] = "allowed" /\ pc'[r] = "blocked"
          /\ engine' = [engine EXCEPT !.allowed = new[r].allowed]
          /\ new' = new /\ inForce' = inForce
      BY <2>1, <2>6 DEF SwapAllowed, Assign, Goto, TypeOK
    <3> QED BY <2>1, <2>3, <3>1 DEF SwapPcs
  <2>7. CASE SwapBlocked(r)
    <3>1. /\ pc[r] = "blocked" /\ pc'[r] = "dir"
          /\ engine' = [engine EXCEPT !.blocked = new[r].blocked]
          /\ new[r] \in inForce'
      BY <2>1, <2>7 DEF SwapBlocked, Assign, Goto, TypeOK
    <3>2. engine' = new[r]
      BY <2>3, <3>1 DEF SwapPcs
    <3> QED BY <2>1, <3>1, <3>2 DEF SwapPcs
  <2> QED BY <1>2, <2>2, <2>4, <2>5, <2>6, <2>7 DEF Reload
<1> QED BY <1>1, <1>2, ReloadOrNot

\* The engine starts with one policy.
LEMMA WholeInit == Init => WholeInv
BY DEF Init, WholeInv, PolicyIsWhole, SwapInv, SwapPcs, Threads

\* If reloads do not overlap, the engine holds one policy between them.
THEOREM Whole == ASSUME OneReloader PROVE Spec => []PolicyIsWhole
<1>1. TypeOK /\ DirInv /\ WholeInv /\ [Next]_vars => (TypeOK /\ DirInv /\ WholeInv)'
  BY TypeStep, DirStep, WholeStep
<1>2. WholeInv => PolicyIsWhole
  BY DEF WholeInv
<1> QED BY <1>1, <1>2, TypeInit, WholeInit, PTL DEF Spec

\* Until the first assignment, and after a failure, all is as it was before.
KeepInv ==
  \A r \in Reloaders : pc[r] \in {"commands", "domains", "rules", "false"} =>
    before[r] = [engine |-> engine, policyDir |-> policyDir]

\* Nothing is assigned before both files have been read.
LEMMA KeepStep ==
  ASSUME OneReloader, ~AuditMayFail, TypeOK, KeepInv, [Next]_vars
  PROVE  KeepInv'
<1> USE DEF KeepInv
<1>1. CASE UNCHANGED reloading /\ \A r \in Reloaders : pc'[r] = pc[r]
  BY <1>1 DEF reloading
<1>2. ASSUME NEW r \in Reloaders, Reload(r) PROVE KeepInv'
  <2>1. r \in Threads /\ \A q \in Reloaders : q = r
    BY DEF OneReloader, Threads
  <2>2. CASE ReloadBegins(r) \/ ReloadWithoutDir(r)
    <3>1. UNCHANGED <<engine, policyDir>> /\ before'[r] = [engine |-> engine, policyDir |-> policyDir]
      BY <2>2 DEF ReloadBegins, ReloadWithoutDir, TypeOK
    <3> QED BY <2>1, <3>1
  <2>3. CASE ReadCommands(r) \/ ReadDomains(r) \/ ReadFails(r)
    <3>1. pc[r] \in {"commands", "domains"} /\ UNCHANGED <<engine, policyDir, before>>
      BY <2>3 DEF ReadCommands, ReadDomains, ReadFails, Goto
    <3> QED BY <2>1, <3>1
  <2>4. CASE SwapRules(r) \/ SwapDefault(r) \/ SwapAllowed(r) \/ SwapBlocked(r) \/ SetDir(r)
    <3>1. pc'[r] \in {"default", "allowed", "blocked", "dir", "report"}
      BY <2>1, <2>4 DEF SwapRules, SwapDefault, SwapAllowed, SwapBlocked, SetDir, Assign, Goto, TypeOK
    <3> QED BY <2>1, <3>1
  <2>5. CASE ReloadReports(r)
    <3>1. pc'[r] = "true"
      BY <2>1, <2>5 DEF ReloadReports, Goto, TypeOK
    <3> QED BY <2>1, <3>1
  <2> QED BY <1>2, <2>2, <2>3, <2>4, <2>5 DEF Reload
<1> QED BY <1>1, <1>2, ReloadOrNot

\* A reload that returns False has changed nothing, if reloads do not overlap and
\* the record of a success does not fail.
THEOREM FailureKeeps ==
  ASSUME OneReloader, ~AuditMayFail PROVE Spec => []FailedReloadKeepsOld
<1>1. Init => KeepInv
  BY DEF Init, KeepInv, Threads
<1>2. TypeOK /\ DirInv /\ KeepInv /\ [Next]_vars => (TypeOK /\ DirInv /\ KeepInv)'
  BY TypeStep, DirStep, KeepStep
<1>3. KeepInv => FailedReloadKeepsOld
  BY DEF KeepInv, FailedReloadKeepsOld
<1> QED BY <1>1, <1>2, <1>3, TypeInit, PTL DEF Spec
-----------------------------------------------------------------------------
(* Evaluations that overlap reloads *)

\* Each field is that of a policy that may be in force.
FieldInv ==
  /\ \E P \in inForce : engine.rules = P.rules
  /\ \E P \in inForce : engine.default = P.default
  /\ \E P \in inForce : engine.allowed = P.allowed
  /\ \E P \in inForce : engine.blocked = P.blocked

\* An evaluation under way has seen whatever is in force, and a policy that did
\* not decide.
PendingInv ==
  \A e \in Evaluators :
    /\ ~AtRest(e) => inForce \subseteq seen[e]
    /\ pc[e] = "no match" =>
         target[e] \in Commands /\ \E P \in seen[e] : ~Matched(P.rules, target[e])
    /\ pc[e] \in {"not blocked", "not listed"} =>
         target[e] \in Domains /\ \E P \in seen[e] : target[e] \notin P.blocked

EvalInv == FieldInv /\ PendingInv /\ SteadyDecision /\ ExplicitHolds

\* No evaluation is under way.
LEMMA EvalInit == Init => EvalInv
<1> SUFFICES ASSUME Init PROVE EvalInv
  OBVIOUS
<1>1. FieldInv
  BY DEF Init, FieldInv
<1>2. \A e \in Evaluators : pc[e] = "idle"
  BY DEF Init, Threads
<1> QED BY <1>1, <1>2 DEF EvalInv, PendingInv, SteadyDecision, ExplicitHolds, Decided, AtRest

\* An assignment takes its field from the policy that comes into force.
LEMMA FieldStep ==
  ASSUME OneReloader, TypeOK, WholeInv, FieldInv, [Next]_vars
  PROVE  FieldInv'
<1>1. CASE UNCHANGED reloading
  BY <1>1 DEF reloading, FieldInv
<1>2. ASSUME NEW r \in Reloaders, Reload(r) PROVE FieldInv'
  <2>1. r \in Threads /\ \A q \in Reloaders : q = r
    BY DEF OneReloader, Threads
  <2>2. CASE \/ ReloadBegins(r) \/ ReloadWithoutDir(r) \/ ReadCommands(r) \/ ReadDomains(r)
             \/ ReadFails(r) \/ SetDir(r) \/ ReloadReports(r)
    <3>1. UNCHANGED <<engine, inForce>>
      BY <2>2 DEF ReloadBegins, ReloadWithoutDir, ReadCommands, ReadDomains, ReadFails,
         SetDir, ReloadReports
    <3> QED BY <3>1 DEF FieldInv
  <2>3. engine \in Policies
    BY DEF TypeOK
  <2>4. CASE SwapRules(r)
    BY <2>3, <2>4 DEF SwapRules, Assign, Policies, FieldInv
  <2>5. CASE SwapDefault(r)
    <3>1. new[r] \in inForce
      BY <2>5 DEF SwapDefault, Assign, Goto, WholeInv, SwapInv, SwapPcs
    <3> QED BY <2>3, <2>5, <3>1 DEF SwapDefault, Assign, Policies, FieldInv
  <2>6. CASE SwapAllowed(r)
    <3>1. new[r] \in inForce
      BY <2>6 DEF SwapAllowed, Assign, Goto, WholeInv, SwapInv, SwapPcs
    <3> QED BY <2>3, <2>6, <3>1 DEF SwapAllowed, Assign, Policies, FieldInv
  <2>7. CASE SwapBlocked(r)
    <3>1. pc'[r] = "dir"
      BY <2>1, <2>7 DEF SwapBlocked, Assign, Goto, TypeOK
    <3>2. engine' \in inForce'
      BY <2>1, <3>1, WholeStep DEF WholeInv, PolicyIsWhole, SwapPcs
    <3> QED BY <3>2 DEF FieldInv
  <2> QED BY <1>2, <2>2, <2>4, <2>5, <2>6, <2>7 DEF Reload
<1> QED BY <1>1, <1>2, ReloadOrNot

\* To an evaluation a reload adds policies seen, as long as it is under way.
LEMMA ReloadSeen ==
  ASSUME TypeOK, NEW r \in Reloaders, Reload(r), NEW e \in Evaluators
  PROVE  /\ pc'[e] = pc[e] /\ target'[e] = target[e] /\ decision'[e] = decision[e]
         /\ seen[e] \subseteq seen'[e]
         /\ AtRest(e) => seen'[e] = seen[e]
<1>1. r \in Threads /\ e \in Threads /\ r # e
  BY EngineAssumption DEF Threads
<1>2. \E to : pc' = [pc EXCEPT ![r] = to]
  BY DEF Reload, ReloadBegins, ReloadWithoutDir, ReadCommands, ReadDomains, ReadFails,
    SwapRules, SwapDefault, SwapAllowed, SwapBlocked, Assign, SetDir, ReloadReports, Goto
<1>3. UNCHANGED evaluating
  BY DEF Reload, ReloadBegins, ReloadWithoutDir, ReadCommands, ReadDomains, ReadFails,
    SwapRules, SwapDefault, SwapAllowed, SwapBlocked, Assign, SetDir, ReloadReports
<1>4. seen[e] \subseteq seen'[e] /\ (AtRest(e) => seen'[e] = seen[e])
  <2>1. CASE SwapRules(r)
    BY <2>1 DEF SwapRules, Busy
  <2>2. CASE ~SwapRules(r)
    BY <2>2 DEF Reload, ReloadBegins, ReloadWithoutDir, ReadCommands, ReadDomains, ReadFails,
      SwapDefault, SwapAllowed, SwapBlocked, SetDir, ReloadReports
  <2> QED BY <2>1, <2>2
<1> QED BY <1>1, <1>2, <1>3, <1>4 DEF evaluating, TypeOK

\* Whatever comes into force, an evaluation under way sees.
LEMMA ReloadInForce ==
  ASSUME TypeOK, WholeInv, NEW r \in Reloaders, Reload(r), NEW e \in Evaluators,
         ~AtRest(e), inForce \subseteq seen[e]
  PROVE  inForce' \subseteq seen'[e]
<1>1. CASE SwapRules(r)
  BY <1>1 DEF SwapRules, Busy
<1>2. CASE SwapBlocked(r)
  <2>1. \A q \in Reloaders : q = r \/ pc[q] \in SwapPcs => new[q] \in inForce
    BY <1>2 DEF SwapBlocked, Assign, Goto, WholeInv, SwapInv, SwapPcs
  <2> QED BY <1>2, <2>1 DEF SwapBlocked
<1>3. CASE ~SwapRules(r) /\ ~SwapBlocked(r)
  <2>1. UNCHANGED <<inForce, seen>>
    BY <1>3 DEF Reload, ReloadBegins, ReloadWithoutDir, ReadCommands, ReadDomains, ReadFails,
      SwapDefault, SwapAllowed, SetDir, ReloadReports, Assign
  <2> QED BY <2>1
<1> QED BY <1>1, <1>2, <1>3

\* What a reload does to the evaluations under way.
LEMMA EvalByReload ==
  ASSUME TypeOK, WholeInv, EvalInv, NEW r \in Reloaders, Reload(r)
  PROVE  (PendingInv /\ SteadyDecision /\ ExplicitHolds)'
<1>1. ASSUME NEW e \in Evaluators
      PROVE  /\ pc'[e] = pc[e] /\ target'[e] = target[e] /\ decision'[e] = decision[e]
             /\ seen[e] \subseteq seen'[e]
             /\ AtRest(e) => seen'[e] = seen[e]
  BY ReloadSeen
<1>2. PendingInv'
  <2> SUFFICES ASSUME NEW e \in Evaluators
               PROVE  /\ ~AtRest(e)' => inForce' \subseteq seen'[e]
                      /\ pc'[e] = "no match" =>
                           target'[e] \in Commands /\ \E P \in seen'[e] : ~Matched(P.rules, target'[e])
                      /\ pc'[e] \in {"not blocked", "not listed"} =>
                           target'[e] \in Domains /\ \E P \in seen'[e] : target'[e] \notin P.blocked
    BY DEF PendingInv
  <2>1. ~AtRest(e)' => inForce' \subseteq seen'[e]
    BY <1>1, ReloadInForce DEF EvalInv, PendingInv, AtRest
  <2>2. pc'[e] = "no match" =>
          target'[e] \in Commands /\ \E P \in seen'[e] : ~Matched(P.rules, target'[e])
    BY <1>1 DEF EvalInv, PendingInv
  <2>3. pc'[e] \in {"not blocked", "not listed"} =>
          target'[e] \in Domains /\ \E P \in seen'[e] : target'[e] \notin P.blocked
    BY <1>1 DEF EvalInv, PendingInv
  <2> QED BY <2>1, <2>2, <2>3
<1>3. \A e \in Evaluators : Decided(e)' => Decided(e) /\ seen'[e] = seen[e]
  BY <1>1 DEF Decided, AtRest
<1>4. SteadyDecision'
  BY <1>1, <1>3 DEF EvalInv, SteadyDecision, Decided
<1>5. ExplicitHolds'
  BY <1>1, <1>3 DEF EvalInv, ExplicitHolds, Decided
<1> QED BY <1>2, <1>4, <1>5
\* A step of one evaluation is none of the others.
LEMMA EvaluateOthers ==
  ASSUME TypeOK, NEW e \in Evaluators, Evaluate(e), NEW q \in Evaluators, q # e
  PROVE  /\ pc'[q] = pc[q] /\ target'[q] = target[q] /\ decision'[q] = decision[q]
         /\ seen'[q] = seen[q]
<1>1. e \in Threads /\ q \in Threads
  BY DEF Threads
<1>2. CASE \/ EvaluateEmptyCommand(e)
           \/ \E c \in Commands : CommandMatches(e, c) \/ CommandUnmatched(e, c)
           \/ \E d \in Domains : DomainBlocked(e, d) \/ DomainNotBlocked(e, d)
  BY <1>1, <1>2 DEF EvaluateEmptyCommand, CommandMatches, CommandUnmatched, DomainBlocked,
     DomainNotBlocked, Begins, Decides, TypeOK
<1>3. CASE DefaultApplies(e) \/ DomainAllowed(e) \/ DomainNotListed(e) \/ SubdomainDecides(e)
  BY <1>1, <1>3 DEF DefaultApplies, DomainAllowed, DomainNotListed, SubdomainDecides,
     EvalStep, Goto, Decides, TypeOK
<1> QED BY <1>2, <1>3 DEF Evaluate

\* What the invariants say of the evaluation that has taken a step.
Pending(e, s, x, to) ==
  /\ to \in {"no match", "not blocked", "not listed"} => inForce \subseteq s
  /\ to = "no match" => x \in Commands /\ \E P \in s : ~Matched(P.rules, x)
  /\ to \in {"not blocked", "not listed"} =>
       x \in Domains /\ \E P \in s : x \notin P.blocked
Right(s, x, a) ==
  /\ \A P \in s : s = {P} => PolicyGives(P, x, a)
  /\ x \in Commands /\ (\A P \in s : Matched(P.rules, x))
       => \E P \in s : Says(P.rules, P.default, x, a)
  /\ x \in Domains /\ (\A P \in s : x \in P.blocked) => a = "block"

\* If one policy only was seen, it is the one in force.
LEMMA SeenIsInForce ==
  ASSUME FieldInv, NEW s, inForce \subseteq s, NEW P, s = {P}
  PROVE  /\ engine.rules = P.rules /\ engine.default = P.default
         /\ engine.allowed = P.allowed /\ engine.blocked = P.blocked
BY DEF FieldInv

\* The first match decides as a policy in force says.
LEMMA MatchRight ==
  ASSUME TypeOK, FieldInv, NEW c \in Commands, Matched(engine.rules, c)
  PROVE  Right(inForce, c, FirstMatch(engine.rules, c))
<1>1. c \notin Domains
  BY EngineAssumption
<1>2. engine.rules \in Seq([hits: SUBSET Commands, action: Actions])
  BY RuleAction DEF TypeOK, Policies
<1>3. \A d : Says(engine.rules, d, c, FirstMatch(engine.rules, c))
  BY <1>2, FirstMatchSays
<1>4. PICK Q \in inForce : engine.rules = Q.rules
  BY DEF FieldInv
<1> QED BY <1>1, <1>3, <1>4 DEF Right, PolicyGives

\* The default decides as the only policy seen says; if there were others, one of
\* them does not decide by a rule.
LEMMA DefaultRight ==
  ASSUME FieldInv, NEW s, inForce \subseteq s, NEW c \in Commands,
         \E P \in s : ~Matched(P.rules, c)
  PROVE  Right(s, c, engine.default)
<1>1. c \notin Domains
  BY EngineAssumption
<1>2. ASSUME NEW P \in s, s = {P} PROVE Says(P.rules, P.default, c, engine.default)
  <2>1. engine.default = P.default /\ ~Matched(P.rules, c)
    BY <1>2, SeenIsInForce
  <2> QED BY <2>1 DEF Says, Matched, Hits
<1> QED BY <1>1, <1>2 DEF Right, PolicyGives

\* A domain in the blocked list in force.
LEMMA BlockRight ==
  ASSUME FieldInv, NEW d \in Domains, d \in engine.blocked
  PROVE  Right(inForce, d, "block")
<1>1. d \notin Commands
  BY EngineAssumption
<1> QED BY <1>1 DEF Right, PolicyGives, FieldInv

\* A domain that some policy seen does not block, decided by the allowed list.
LEMMA AllowRight ==
  ASSUME FieldInv, NEW s, inForce \subseteq s, NEW d \in Domains, \E P \in s : d \notin P.blocked,
         NEW a, a = IF Covered(d) THEN "allow" ELSE "block"
  PROVE  Right(s, d, a)
<1>1. d \notin Commands
  BY EngineAssumption
<1>2. ASSUME NEW P \in s, s = {P} PROVE PolicyGives(P, d, a)
  <2>1. engine.allowed = P.allowed /\ d \notin P.blocked
    BY <1>2, SeenIsInForce
  <2> QED BY <1>1, <2>1 DEF PolicyGives, Covered
<1> QED BY <1>1, <1>2 DEF Right

\* The evaluation that begins, or goes on, keeps what is said of it.
LEMMA EvaluateRight ==
  ASSUME TypeOK, EvalInv, NEW e \in Evaluators, Evaluate(e)
  PROVE  /\ Pending(e, seen'[e], target'[e], pc'[e])
         /\ pc'[e] = "decided" /\ decision'[e] # "none" /\ target'[e] # None
              => Right(seen'[e], target'[e], decision'[e])
<1> DEFINE P1 == Pending(e, seen'[e], target'[e], pc'[e])
           P2 == pc'[e] = "decided" /\ decision'[e] # "none" /\ target'[e] # None
                   => Right(seen'[e], target'[e], decision'[e])
<1>1. e \in Threads
  BY DEF Threads
<1>2. FieldInv
  BY DEF EvalInv
<1>3. ASSUME NEW x, NEW to, Begins(e, x, to)
      PROVE  target'[e] = x /\ pc'[e] = to /\ seen'[e] = inForce
  BY <1>1, <1>3 DEF Begins, TypeOK
<1>4. ASSUME NEW from, NEW to, EvalStep(e, from, to)
      PROVE  pc[e] = from /\ pc'[e] = to /\ target'[e] = target[e] /\ seen'[e] = seen[e]
  BY <1>1, <1>4 DEF EvalStep, Goto, TypeOK
<1>5. ASSUME NEW a, Decides(e, a)
      PROVE  decision'[e] = a \/ decision'[e] = "none"
  BY <1>5 DEF Decides, TypeOK
<1>6. pc'[e] = "decided" => P1
  BY DEF Pending
<1>7. pc'[e] # "decided" => P2
  OBVIOUS
<1>8. pc[e] \in {"no match", "not blocked", "not listed"} =>
        /\ inForce \subseteq seen[e]
        /\ pc[e] = "no match" =>
             target[e] \in Commands /\ \E P \in seen[e] : ~Matched(P.rules, target[e])
        /\ pc[e] \in {"not blocked", "not listed"} =>
             target[e] \in Domains /\ \E P \in seen[e] : target[e] \notin P.blocked
  BY DEF EvalInv, PendingInv, AtRest
<1> HIDE DEF P1, P2
<1>9. CASE EvaluateEmptyCommand(e)
  <2>1. target'[e] = None /\ pc'[e] = "decided"
    BY <1>3, <1>9 DEF EvaluateEmptyCommand
  <2> QED BY <1>6, <2>1 DEF P1, P2
<1>10. ASSUME NEW c \in Commands, CommandMatches(e, c) PROVE P1 /\ P2
  <2>1. target'[e] = c /\ pc'[e] = "decided" /\ seen'[e] = inForce
    BY <1>3, <1>10 DEF CommandMatches
  <2>2. decision'[e] = FirstMatch(engine.rules, c) \/ decision'[e] = "none"
    BY <1>5, <1>10 DEF CommandMatches
  <2>3. Right(inForce, c, FirstMatch(engine.rules, c))
    BY <1>2, <1>10, MatchRight DEF CommandMatches
  <2> QED BY <1>6, <2>1, <2>2, <2>3 DEF P2
<1>11. ASSUME NEW c \in Commands, CommandUnmatched(e, c) PROVE P1 /\ P2
  <2>1. target'[e] = c /\ pc'[e] = "no match" /\ seen'[e] = inForce
    BY <1>3, <1>11 DEF CommandUnmatched
  <2>2. \E P \in inForce : ~Matched(P.rules, c)
    BY <1>2, <1>11 DEF CommandUnmatched, FieldInv
  <2> QED BY <1>7, <2>1, <2>2 DEF P1, Pending
<1>12. CASE DefaultApplies(e)
  <2>1. pc[e] = "no match" /\ pc'[e] = "decided" /\ target'[e] = target[e] /\ seen'[e] = seen[e]
    BY <1>4, <1>12 DEF DefaultApplies
  <2>2. decision'[e] = engine.default \/ decision'[e] = "none"
    BY <1>5, <1>12 DEF DefaultApplies
  <2>3. Right(seen[e], target[e], engine.default)
    BY <1>2, <1>8, <2>1, DefaultRight
  <2> QED BY <1>6, <2>1, <2>2, <2>3 DEF P1, P2
<1>13. ASSUME NEW d \in Domains, DomainBlocked(e, d) PROVE P1 /\ P2
  <2>1. target'[e] = d /\ pc'[e] = "decided" /\ seen'[e] = inForce
    BY <1>3, <1>13 DEF DomainBlocked
  <2>2. decision'[e] = "block" \/ decision'[e] = "none"
    BY <1>5, <1>13 DEF DomainBlocked
  <2>3. Right(inForce, d, "block")
    BY <1>2, <1>13, BlockRight DEF DomainBlocked
  <2> QED BY <1>6, <2>1, <2>2, <2>3 DEF P2
<1>14. ASSUME NEW d \in Domains, DomainNotBlocked(e, d) PROVE P1 /\ P2
  <2>1. target'[e] = d /\ pc'[e] = "not blocked" /\ seen'[e] = inForce
    BY <1>3, <1>14 DEF DomainNotBlocked
  <2>2. \E P \in inForce : d \notin P.blocked
    BY <1>2, <1>14 DEF DomainNotBlocked, FieldInv
  <2> QED BY <1>7, <2>1, <2>2 DEF P1, Pending
<1>15. CASE DomainAllowed(e)
  <2>1. pc[e] = "not blocked" /\ pc'[e] = "decided" /\ target'[e] = target[e] /\ seen'[e] = seen[e]
    BY <1>4, <1>15 DEF DomainAllowed
  <2>2. decision'[e] = "allow" \/ decision'[e] = "none"
    BY <1>5, <1>15 DEF DomainAllowed
  <2>3. Covered(target[e])
    BY <1>15 DEF DomainAllowed, Covered
  <2>4. Right(seen[e], target[e], "allow")
    BY <1>2, <1>8, <2>1, <2>3, AllowRight
  <2> QED BY <1>6, <2>1, <2>2, <2>4 DEF P1, P2
<1>16. CASE DomainNotListed(e)
  <2>1. pc[e] = "not blocked" /\ pc'[e] = "not listed" /\ target'[e] = target[e] /\ seen'[e] = seen[e]
    BY <1>4, <1>16 DEF DomainNotListed
  <2> QED BY <1>7, <1>8, <2>1 DEF P1, Pending
<1>17. CASE SubdomainDecides(e)
  <2> DEFINE a == IF Covered(target[e]) THEN "allow" ELSE "block"
  <2>1. pc[e] = "not listed" /\ pc'[e] = "decided" /\ target'[e] = target[e] /\ seen'[e] = seen[e]
    BY <1>4, <1>17 DEF SubdomainDecides
  <2>2. decision'[e] = a \/ decision'[e] = "none"
    BY <1>5, <1>17 DEF SubdomainDecides
  <2>3. Right(seen[e], target[e], a)
    BY <1>2, <1>8, <2>1, AllowRight
  <2> QED BY <1>6, <2>1, <2>2, <2>3 DEF P1, P2
<1> QED
  BY <1>9, <1>10, <1>11, <1>12, <1>13, <1>14, <1>15, <1>16, <1>17 DEF Evaluate, P1, P2
\* What a step of one evaluation does to all of them.
LEMMA EvalByEvaluate ==
  ASSUME TypeOK, EvalInv, NEW e \in Evaluators, Evaluate(e)
  PROVE  (PendingInv /\ SteadyDecision /\ ExplicitHolds)'
<1>1. ASSUME NEW q \in Evaluators, q # e
      PROVE  /\ pc'[q] = pc[q] /\ target'[q] = target[q] /\ decision'[q] = decision[q]
             /\ seen'[q] = seen[q]
  BY <1>1, EvaluateOthers
<1>2. inForce' = inForce
  BY EvaluateKeeps DEF reloading
<1>3. /\ Pending(e, seen'[e], target'[e], pc'[e])
      /\ pc'[e] = "decided" /\ decision'[e] # "none" /\ target'[e] # None
           => Right(seen'[e], target'[e], decision'[e])
  BY EvaluateRight
<1>4. pc'[e] \in EvalPcs
  BY TypeEvaluate DEF TypeOK
<1>5. PendingInv'
  <2> SUFFICES ASSUME NEW q \in Evaluators
               PROVE  /\ ~AtRest(q)' => inForce' \subseteq seen'[q]
                      /\ pc'[q] = "no match" =>
                           target'[q] \in Commands /\ \E P \in seen'[q] : ~Matched(P.rules, target'[q])
                      /\ pc'[q] \in {"not blocked", "not listed"} =>
                           target'[q] \in Domains /\ \E P \in seen'[q] : target'[q] \notin P.blocked
    BY DEF PendingInv
  <2>1. CASE q = e
    BY <1>2, <1>3, <1>4, <2>1 DEF Pending, EvalPcs, AtRest
  <2>2. CASE q # e
    BY <1>1, <1>2, <2>2 DEF EvalInv, PendingInv, AtRest
  <2> QED BY <2>1, <2>2
<1>6. SteadyDecision'
  <2> SUFFICES ASSUME NEW q \in Evaluators, Decided(q)', NEW P \in seen'[q], seen'[q] = {P}
               PROVE  PolicyGives(P, target'[q], decision'[q])
    BY DEF SteadyDecision
  <2>1. CASE q = e
    BY <1>3, <2>1 DEF Right, Decided
  <2>2. CASE q # e
    BY <1>1, <2>2 DEF EvalInv, SteadyDecision, Decided
  <2> QED BY <2>1, <2>2
<1>7. ExplicitHolds'
  <2> SUFFICES ASSUME NEW q \in Evaluators, Decided(q)'
               PROVE  /\ target'[q] \in Commands /\ (\A P \in seen'[q] : Matched(P.rules, target'[q]))
                           => \E P \in seen'[q] : Says(P.rules, P.default, target'[q], decision'[q])
                      /\ target'[q] \in Domains /\ (\A P \in seen'[q] : target'[q] \in P.blocked)
                           => decision'[q] = "block"
    BY DEF ExplicitHolds
  <2>1. CASE q = e
    BY <1>3, <2>1 DEF Right, Decided
  <2>2. CASE q # e
    BY <1>1, <2>2 DEF EvalInv, ExplicitHolds, Decided
  <2> QED BY <2>1, <2>2
<1> QED BY <1>5, <1>6, <1>7

\* Every step keeps the invariant of the evaluations.
LEMMA EvalStepKeeps ==
  ASSUME OneReloader, TypeOK, WholeInv, EvalInv, [Next]_vars
  PROVE  EvalInv'
<1>1. FieldInv'
  BY FieldStep DEF EvalInv
<1>2. CASE Edit \/ UNCHANGED vars
  <2>1. UNCHANGED <<inForce, pc, target, decision, seen>>
    BY <1>2 DEF Edit, vars, reloading, evaluating
  <2> QED
    BY <1>1, <2>1 DEF EvalInv, PendingInv, SteadyDecision, ExplicitHolds, Decided, AtRest
<1>3. ASSUME NEW r \in Reloaders, Reload(r) PROVE EvalInv'
  BY <1>1, <1>3, EvalByReload DEF EvalInv
<1>4. ASSUME NEW e \in Evaluators, Evaluate(e) PROVE EvalInv'
  BY <1>1, <1>4, EvalByEvaluate DEF EvalInv
<1> QED BY <1>2, <1>3, <1>4 DEF Next

\* The inductive invariant of evaluations that overlap reloads, edits and each
\* other, for any number of them.
THEOREM EvalAlways ==
  ASSUME OneReloader PROVE Spec => [](TypeOK /\ WholeInv /\ EvalInv)
<1>1. TypeOK /\ DirInv /\ WholeInv /\ EvalInv /\ [Next]_vars
        => (TypeOK /\ DirInv /\ WholeInv /\ EvalInv)'
  BY TypeStep, DirStep, WholeStep, EvalStepKeeps
<1> QED BY <1>1, TypeInit, WholeInit, EvalInit, PTL DEF Spec

\* While one policy is in force, evaluations give what it says.
THEOREM Steady == ASSUME OneReloader PROVE Spec => []SteadyDecision
<1>1. EvalInv => SteadyDecision
  BY DEF EvalInv
<1> QED BY <1>1, EvalAlways, PTL

\* What all policies in force say by a rule, or by the list of blocked domains,
\* no overlap of reloads and evaluations changes.
THEOREM Explicit == ASSUME OneReloader PROVE Spec => []ExplicitHolds
<1>1. EvalInv => ExplicitHolds
  BY DEF EvalInv
<1> QED BY <1>1, EvalAlways, PTL
-----------------------------------------------------------------------------
(* The engine of one reloader implements HotReload *)

\* What a reload has built is what the files gave: the rules after the first, all
\* of it after the second.
LoadedInv ==
  /\ engine \in LoadedPolicies \/ \E r \in Reloaders : pc[r] \in SwapPcs
  /\ \A r \in Reloaders :
       /\ pc[r] = "domains" => \E c \in CommandFiles \ {Broken} : new[r] = Policy(c, Missing)
       /\ pc[r] \in {"rules"} \cup SwapPcs => new[r] \in LoadedPolicies

\* An engine begins with what files gave, or with no policy.
LEMMA LoadedInit == Init => LoadedInv
<1> SUFFICES ASSUME Init PROVE LoadedInv
  OBVIOUS
<1>1. engine \in LoadedPolicies
  BY DEF Init, LoadedPolicies
<1> QED BY <1>1 DEF Init, LoadedInv, Threads, SwapPcs

\* The second file completes what the first gave.
LEMMA DomainsComplete ==
  ASSUME TypeOK, DirInv, LoadedInv, NEW r \in Reloaders, ReadDomains(r)
  PROVE  new'[r] \in LoadedPolicies
<1>1. pc[r] = "domains" /\ dir[r] \in Dirs
  BY DEF ReadDomains, Goto, DirInv
<1>2. PICK c \in CommandFiles \ {Broken} : new[r] = Policy(c, Missing)
  BY <1>1 DEF LoadedInv
<1> DEFINE f == domainsFile[dir[r]]
<1>3. f \in DomainFiles \ {Broken}
  BY <1>1 DEF TypeOK, ReadDomains
<1>4. new'[r] = [rules |-> new[r].rules, default |-> new[r].default,
                 allowed |-> DomainPart(f).allowed, blocked |-> DomainPart(f).blocked]
  BY DEF ReadDomains, TypeOK, Policies
<1>5. new'[r] = Policy(c, f)
  BY <1>2, <1>4 DEF Policy
<1>6. \A a \in CommandFiles \ {Broken}, b \in DomainFiles \ {Broken} : Policy(a, b) \in LoadedPolicies
  BY DEF LoadedPolicies
<1> QED BY <1>3, <1>5, <1>6

\* A policy is whole when the last of its fields is assigned.
LEMMA LoadedStep ==
  ASSUME OneReloader, TypeOK, DirInv, WholeInv, LoadedInv, [Next]_vars
  PROVE  LoadedInv'
<1>1. CASE UNCHANGED reloading /\ \A r \in Reloaders : pc'[r] = pc[r]
  BY <1>1 DEF reloading, LoadedInv
<1>2. ASSUME NEW r \in Reloaders, Reload(r) PROVE LoadedInv'
  <2>1. r \in Threads /\ \A q \in Reloaders : q = r
    BY DEF OneReloader, Threads
  <2>2. CASE ReloadBegins(r) \/ ReloadWithoutDir(r) \/ ReadFails(r) \/ SetDir(r) \/ ReloadReports(r)
    <3>1. /\ pc[r] \notin SwapPcs /\ pc'[r] \notin {"domains", "rules"} \cup SwapPcs
          /\ engine' = engine
      BY <2>1, <2>2 DEF ReloadBegins, ReloadWithoutDir, ReadFails, SetDir, ReloadReports, Goto,
         AtRest, SwapPcs, TypeOK
    <3> QED BY <2>1, <3>1 DEF LoadedInv
  <2>3. CASE ReadCommands(r)
    <3>1. pc[r] = "commands" /\ pc'[r] = "domains" /\ engine' = engine /\ dir[r] \in Dirs
      BY <2>1, <2>3 DEF ReadCommands, Goto, TypeOK, DirInv
    <3>2. commandsFile[dir[r]] \in CommandFiles \ {Broken}
      BY <2>3, <3>1 DEF ReadCommands, TypeOK
    <3>3. new'[r] = Policy(commandsFile[dir[r]], Missing)
      BY <2>3 DEF ReadCommands, TypeOK
    <3> QED BY <2>1, <3>1, <3>2, <3>3 DEF LoadedInv, SwapPcs
  <2>4. CASE ReadDomains(r)
    <3>1. pc[r] = "domains" /\ pc'[r] = "rules" /\ engine' = engine
      BY <2>1, <2>4 DEF ReadDomains, Goto, TypeOK
    <3>2. new'[r] \in LoadedPolicies
      BY <2>4, DomainsComplete
    <3> QED BY <2>1, <3>1, <3>2 DEF LoadedInv, SwapPcs
  <2>5. CASE SwapRules(r) \/ SwapDefault(r) \/ SwapAllowed(r)
    <3>1. pc[r] \in {"rules"} \cup SwapPcs /\ pc'[r] \in SwapPcs /\ new' = new
      BY <2>1, <2>5 DEF SwapRules, SwapDefault, SwapAllowed, Assign, Goto, SwapPcs, TypeOK
    <3> QED BY <2>1, <3>1 DEF LoadedInv, SwapPcs
  <2>6. CASE SwapBlocked(r)
    <3>1. pc[r] = "blocked" /\ pc'[r] = "dir"
      BY <2>1, <2>6 DEF SwapBlocked, Assign, Goto, TypeOK
    <3>2. engine' = new[r]
      BY <2>6, SwapEnds
    <3> QED BY <2>1, <3>1, <3>2 DEF LoadedInv, SwapPcs
  <2> QED BY <1>2, <2>2, <2>3, <2>4, <2>5, <2>6 DEF Reload
<1> QED BY <1>1, <1>2, ReloadOrNot

\* The mapped state is that of the one reload, before a step and after it.
LEMMA MappedReload ==
  ASSUME OneReloader, NEW r \in Reloaders
  PROVE  /\ (CHOOSE q \in Reloaders : TRUE) = r /\ Reloaders # {}
         /\ Swapping = (IF pc[r] \in SwapPcs THEN {r} ELSE {})
         /\ Swapping' = (IF pc'[r] \in SwapPcs THEN {r} ELSE {})
         /\ (CHOOSE q \in {r} : TRUE) = r
<1>1. Reloaders = {r}
  BY DEF OneReloader
<1>2. (CHOOSE q \in {r} : TRUE) \in {r}
  OBVIOUS
<1>3. (CHOOSE q \in {r} : TRUE) = r
  BY <1>2
<1>4. SwapPcs' = SwapPcs
  BY DEF SwapPcs
<1> QED BY <1>1, <1>3, <1>4 DEF Swapping

\* An engine begins with a policy, and no reload.
LEMMA HotInit == Init => Hot!Init
<1> SUFFICES ASSUME Init PROVE Hot!Init
  OBVIOUS
<1>1. Swapping = {} /\ engine \in LoadedPolicies
  BY DEF Init, Swapping, SwapPcs, Threads, LoadedPolicies
<1>2. CASE Reloaders = {}
  BY <1>1, <1>2 DEF Hot!Init
<1>3. CASE Reloaders # {}
  <2>1. (CHOOSE r \in Reloaders : TRUE) \in Reloaders
    BY <1>3
  <2>2. pc[CHOOSE r \in Reloaders : TRUE] = "idle"
    BY <2>1 DEF Init, Threads
  <2> QED BY <1>1, <1>3, <2>2 DEF Hot!Init, Stage, SwapPcs
<1> QED BY <1>2, <1>3

\* What a step that no reload takes leaves alone.
LEMMA HotStays ==
  ASSUME UNCHANGED reloading, \A r \in Reloaders : pc'[r] = pc[r]
  PROVE  UNCHANGED Hot!vars
<1>1. Swapping' = Swapping
  BY DEF Swapping, SwapPcs
<1>2. new' = new /\ engine' = engine
  BY DEF reloading
<1>3. CASE Reloaders = {}
  BY <1>1, <1>2, <1>3 DEF Hot!vars, Swapping
<1>4. CASE Reloaders # {}
  <2>1. (CHOOSE r \in Reloaders : TRUE) \in Reloaders
    BY <1>4
  <2>2. Stage(pc[CHOOSE r \in Reloaders : TRUE])' = Stage(pc[CHOOSE r \in Reloaders : TRUE])
    BY <2>1 DEF Stage, SwapPcs
  <2> QED BY <1>1, <1>2, <2>2 DEF Hot!vars
<1> QED BY <1>3, <1>4

\* The first assignment replaces the policy, the others complete it.
LEMMA HotStep ==
  ASSUME OneReloader, TypeOK, DirInv, WholeInv, LoadedInv, [Next]_vars
  PROVE  [Hot!Next]_(Hot!vars)
<1>1. CASE UNCHANGED reloading /\ \A r \in Reloaders : pc'[r] = pc[r]
  BY <1>1, HotStays
<1>2. ASSUME NEW r \in Reloaders, Reload(r) PROVE [Hot!Next]_(Hot!vars)
  <2> DEFINE old == IF pc[r] \in SwapPcs THEN new[r] ELSE engine
             now == IF pc'[r] \in SwapPcs THEN new'[r] ELSE engine'
             at  == Stage(pc[r])
             to  == Stage(pc'[r])
  <2>1. r \in Threads
    BY DEF Threads
  <2>2. /\ (IF Swapping = {} THEN engine ELSE new[CHOOSE q \in Swapping : TRUE]) = old
        /\ (IF Reloaders = {} THEN "idle" ELSE Stage(pc[CHOOSE q \in Reloaders : TRUE])) = at
    <3>1. CASE pc[r] \in SwapPcs
      <4>1. Swapping = {r} /\ (CHOOSE q \in Swapping : TRUE) = r
        BY <3>1, MappedReload
      <4> QED BY <3>1, <4>1, MappedReload
    <3>2. CASE pc[r] \notin SwapPcs
      BY <3>2, MappedReload
    <3> QED BY <3>1, <3>2
  <2>3. /\ (IF Swapping' = {} THEN engine' ELSE new'[CHOOSE q \in Swapping' : TRUE]) = now
        /\ (IF Reloaders = {} THEN "idle" ELSE Stage(pc'[CHOOSE q \in Reloaders : TRUE])) = to
    <3>1. CASE pc'[r] \in SwapPcs
      <4>1. Swapping' = {r} /\ (CHOOSE q \in Swapping' : TRUE) = r
        BY <3>1, MappedReload
      <4> QED BY <3>1, <4>1, MappedReload
    <3>2. CASE pc'[r] \notin SwapPcs
      BY <3>2, MappedReload
    <3> QED BY <3>1, <3>2
  <2>4. \/ at \in Hot!Ended /\ to = "reading" /\ now = old
        \/ at \in Hot!Ended \cup {"reading"} /\ to \in Hot!Failures /\ now = old
        \/ at = "reading" /\ now \in LoadedPolicies /\ to = "replaced"
        \/ /\ at = "replaced" /\ now = old
           /\ to \in {"true"} \cup (IF AuditMayFail THEN {"false", "raised"} ELSE {})
        \/ to = at /\ now = old
    <3> USE DEF Stage, SwapPcs
    <3>1. CASE ReloadBegins(r)
      BY <2>1, <3>1 DEF ReloadBegins, AtRest, TypeOK, ReloadPcs, Hot!Ended
    <3>2. CASE ReloadWithoutDir(r)
      BY <2>1, <3>2 DEF ReloadWithoutDir, AtRest, TypeOK, ReloadPcs, Hot!Ended, Hot!Failures
    <3>3. CASE ReadFails(r)
      BY <2>1, <3>3 DEF ReadFails, TypeOK, Hot!Failures
    <3>4. CASE ReadCommands(r) \/ ReadDomains(r)
      BY <2>1, <3>4 DEF ReadCommands, ReadDomains, Goto, TypeOK
    <3>5. CASE SwapRules(r)
      BY <2>1, <3>5 DEF SwapRules, Assign, Goto, TypeOK, LoadedInv
    <3>6. CASE SwapDefault(r) \/ SwapAllowed(r)
      BY <2>1, <3>6 DEF SwapDefault, SwapAllowed, Assign, Goto, TypeOK
    <3>7. CASE SwapBlocked(r)
      BY <2>1, <3>7, SwapEnds DEF SwapBlocked, Assign, Goto, TypeOK
    <3>8. CASE SetDir(r)
      BY <2>1, <3>8 DEF SetDir, Goto, TypeOK
    <3>9. CASE ReloadReports(r)
      BY <2>1, <3>9 DEF ReloadReports, Goto, TypeOK
    <3> QED BY <1>2, <3>1, <3>2, <3>3, <3>4, <3>5, <3>6, <3>7, <3>8, <3>9 DEF Reload
  <2> HIDE DEF old, now, at, to
  <2> QED BY <2>2, <2>3, <2>4
          DEF Hot!Next, Hot!Begin, Hot!Fail, Hot!Replace, Hot!Report, Hot!vars
<1> QED BY <1>1, <1>2, ReloadOrNot

\* If reloads do not overlap, each replaces the policy once, whole, or leaves it.
THEOREM Implements == ASSUME OneReloader PROVE Spec => ImplementsHotReload
<1>1. TypeOK /\ DirInv /\ WholeInv /\ LoadedInv /\ [Next]_vars
        => (TypeOK /\ DirInv /\ WholeInv /\ LoadedInv)' /\ [Hot!Next]_(Hot!vars)
  BY TypeStep, DirStep, WholeStep, LoadedStep, HotStep
<1> QED BY <1>1, TypeInit, WholeInit, LoadedInit, HotInit, PTL DEF Spec, ImplementsHotReload, Hot!Spec
-----------------------------------------------------------------------------
(* What all files agree on, with any number of reloads at the same time *)

\* Reloads that overlap may leave a mixture of policies; what each command file
\* says by a rule, and the domains that each list blocks, it cannot change.
AgreedHolds ==
  \A e \in Evaluators : Decided(e) =>
    /\ target[e] \in Commands => \A a \in Actions :
         (\A f \in Parsed(CommandFiles) : Says(f.rules, "none", target[e], a)) => decision[e] = a
    /\ target[e] \in Domains /\ (\A f \in Parsed(DomainFiles) : target[e] \in f.blocked)
         => decision[e] = "block"

HeldRules   == {f.rules : f \in Parsed(CommandFiles)}
HeldBlocked == {f.blocked : f \in Parsed(DomainFiles)}

\* The rules and the blocked domains at work are each those of some file, and an
\* evaluation that has passed them has seen one that does not decide its target.
HeldInv ==
  /\ engine.rules \in HeldRules /\ engine.blocked \in HeldBlocked
  /\ \A r \in Reloaders :
       /\ pc[r] \in {"domains", "rules"} \cup SwapPcs => new[r].rules \in HeldRules
       /\ pc[r] \in {"rules"} \cup SwapPcs => new[r].blocked \in HeldBlocked
PassedInv ==
  \A e \in Evaluators :
    /\ pc[e] = "no match" => /\ target[e] \in Commands
                             /\ \E f \in Parsed(CommandFiles) : ~Matched(f.rules, target[e])
    /\ pc[e] \in {"not blocked", "not listed"} =>
         target[e] \in Domains /\ \E f \in Parsed(DomainFiles) : target[e] \notin f.blocked

NoFileMissing == Missing \notin CommandFiles \cup DomainFiles

\* An engine that from_policy_dir made holds what its files say.
LEMMA AgreedInit ==
  ASSUME NoFileMissing, Init, policyDir # None
  PROVE  HeldInv /\ PassedInv /\ AgreedHolds
<1> DEFINE c == commandsFile[policyDir]
           d == domainsFile[policyDir]
<1>1. policyDir \in Dirs /\ engine = Policy(c, d) /\ c # Broken /\ d # Broken
  BY DEF Init
<1>2. c \in Parsed(CommandFiles) /\ d \in Parsed(DomainFiles)
  BY <1>1 DEF Init, NoFileMissing, Parsed
<1>3. engine.rules = c.rules /\ engine.blocked = d.blocked
  BY <1>1, <1>2 DEF Policy, CommandPart, DomainPart, Parsed
<1>4. \A p \in Threads : pc[p] = "idle"
  BY DEF Init
<1> QED BY <1>2, <1>3, <1>4 DEF HeldInv, PassedInv, AgreedHolds, HeldRules, HeldBlocked, Threads,
           Decided, SwapPcs

\* A reload puts nothing in force, field by field, but what files hold.
LEMMA HeldByReload ==
  ASSUME NoFileMissing, TypeOK, DirInv, HeldInv, NEW r \in Reloaders, Reload(r)
  PROVE  HeldInv'
<1>1. r \in Threads /\ Reloaders \subseteq Threads
  BY DEF Threads
<1>2. \A q \in Reloaders \ {r} : pc'[q] = pc[q] /\ new'[q] = new[q]
  BY <1>1 DEF Reload, ReloadBegins, ReloadWithoutDir, ReadCommands, ReadDomains, ReadFails,
     SwapRules, SwapDefault, SwapAllowed, SwapBlocked, Assign, SetDir, ReloadReports, Goto, TypeOK
<1>3. CASE \/ ReloadBegins(r) \/ ReloadWithoutDir(r) \/ ReadFails(r) \/ SetDir(r) \/ ReloadReports(r)
  <2>1. pc'[r] \notin {"domains", "rules"} \cup SwapPcs /\ engine' = engine
    BY <1>1, <1>3 DEF ReloadBegins, ReloadWithoutDir, ReadFails, SetDir, ReloadReports, Goto, SwapPcs, TypeOK
  <2> QED BY <1>2, <2>1 DEF HeldInv, SwapPcs
<1>4. CASE ReadCommands(r)
  <2> DEFINE c == commandsFile[dir[r]]
  <2>1. pc[r] = "commands" /\ pc'[r] = "domains" /\ engine' = engine /\ dir[r] \in Dirs
    BY <1>1, <1>4 DEF ReadCommands, Goto, TypeOK, DirInv
  <2>2. c \in Parsed(CommandFiles)
    BY <1>4, <2>1 DEF ReadCommands, TypeOK, NoFileMissing, Parsed
  <2>3. new'[r] = Policy(c, Missing)
    BY <1>4 DEF ReadCommands, TypeOK
  <2>4. new'[r].rules = c.rules
    BY <2>2, <2>3 DEF Policy, CommandPart, Parsed
  <2>5. new'[r].rules \in HeldRules
    BY <2>2, <2>4 DEF HeldRules
  <2> QED BY <1>2, <2>1, <2>5 DEF HeldInv, SwapPcs
<1>5. CASE ReadDomains(r)
  <2> DEFINE d == domainsFile[dir[r]]
  <2>1. pc[r] = "domains" /\ pc'[r] = "rules" /\ engine' = engine /\ dir[r] \in Dirs
    BY <1>1, <1>5 DEF ReadDomains, Goto, TypeOK, DirInv
  <2>2. d \in Parsed(DomainFiles)
    BY <1>5, <2>1 DEF ReadDomains, TypeOK, NoFileMissing, Parsed
  <2>3. new'[r].rules = new[r].rules /\ new'[r].blocked = d.blocked
    BY <1>5, <2>2 DEF ReadDomains, TypeOK, Policies, DomainPart, Parsed
  <2>4. new'[r].rules \in HeldRules /\ new'[r].blocked \in HeldBlocked
    BY <2>1, <2>2, <2>3 DEF HeldInv, HeldBlocked
  <2> QED BY <1>2, <2>1, <2>4 DEF HeldInv, SwapPcs
<1>6. CASE SwapRules(r) \/ SwapDefault(r) \/ SwapAllowed(r) \/ SwapBlocked(r)
  <2>1. /\ pc[r] \in {"rules"} \cup SwapPcs /\ new' = new
        /\ engine'.rules \in {engine.rules, new[r].rules}
        /\ engine'.blocked \in {engine.blocked, new[r].blocked}
    BY <1>6 DEF SwapRules, SwapDefault, SwapAllowed, SwapBlocked, Assign, Goto, SwapPcs, TypeOK, Policies
  <2> QED BY <1>2, <2>1 DEF HeldInv, SwapPcs
<1> QED BY <1>3, <1>4, <1>5, <1>6 DEF Reload

\* Nobody but an evaluation itself changes what it has passed or decided.
LEMMA PassedByOthers ==
  ASSUME TypeOK, PassedInv, AgreedHolds, NEW S, S \subseteq Evaluators,
         \A e \in S : pc'[e] = pc[e] /\ target'[e] = target[e] /\ decision'[e] = decision[e],
         \A e \in Evaluators \ S :
           /\ pc'[e] = "no match" => /\ target'[e] \in Commands
                                     /\ \E f \in Parsed(CommandFiles) : ~Matched(f.rules, target'[e])
           /\ pc'[e] \in {"not blocked", "not listed"} =>
                target'[e] \in Domains /\ \E f \in Parsed(DomainFiles) : target'[e] \notin f.blocked
           /\ Decided(e)' =>
                /\ target'[e] \in Commands => \A a \in Actions :
                     (\A f \in Parsed(CommandFiles) : Says(f.rules, "none", target'[e], a))
                       => decision'[e] = a
                /\ target'[e] \in Domains /\ (\A f \in Parsed(DomainFiles) : target'[e] \in f.blocked)
                     => decision'[e] = "block"
  PROVE  PassedInv' /\ AgreedHolds'
<1>1. \A e \in S : Decided(e)' => Decided(e)
  BY DEF Decided
<1> QED BY <1>1 DEF PassedInv, AgreedHolds

\* A list of rules, all of which say the same of a target, matches it and gives that.
LEMMA AgreedMatch ==
  ASSUME HeldInv, NEW c, NEW a, a # "none",
         \A f \in Parsed(CommandFiles) : Says(f.rules, "none", c, a)
  PROVE  /\ \A f \in Parsed(CommandFiles) : Matched(f.rules, c)
         /\ FirstMatch(engine.rules, c) = a
<1>1. \A f \in Parsed(CommandFiles) : Matched(f.rules, c)
  BY DEF Says, Matched, Hits
<1>2. PICK f \in Parsed(CommandFiles) : engine.rules = f.rules
  BY DEF HeldInv, HeldRules
<1> DEFINE T == [hits: SUBSET Commands, action: Actions]
<1>3. engine.rules \in Seq(T)
  BY <1>2, EngineAssumption
<1> HIDE DEF T
<1>4. Matched(engine.rules, c) /\ Says(engine.rules, "none", c, a)
  BY <1>1, <1>2
<1>5. Says(engine.rules, "none", c, FirstMatch(engine.rules, c))
  BY <1>3, <1>4, FirstMatchSays
<1>6. FirstMatch(engine.rules, c) = a
  BY <1>3, <1>4, <1>5, SaysOneThing
<1> QED BY <1>1, <1>6

\* Each step of an evaluation agrees with what all files say.
LEMMA AgreedByEvaluate ==
  ASSUME TypeOK, HeldInv, PassedInv, AgreedHolds, NEW e \in Evaluators, Evaluate(e)
  PROVE  PassedInv' /\ AgreedHolds'
<1> DEFINE Passed == /\ target'[e] \in Commands
                     /\ \E f \in Parsed(CommandFiles) : ~Matched(f.rules, target'[e])
           Unblocked == target'[e] \in Domains /\ \E f \in Parsed(DomainFiles) : target'[e] \notin f.blocked
           Agreed == /\ target'[e] \in Commands => \A a \in Actions :
                          (\A f \in Parsed(CommandFiles) : Says(f.rules, "none", target'[e], a))
                            => decision'[e] = a
                     /\ target'[e] \in Domains /\ (\A f \in Parsed(DomainFiles) : target'[e] \in f.blocked)
                          => decision'[e] = "block"
           Goal == /\ pc'[e] = "no match" => Passed
                   /\ pc'[e] \in {"not blocked", "not listed"} => Unblocked
                   /\ Decided(e)' => Agreed
<1>1. e \in Threads /\ e \notin Reloaders
  BY EngineAssumption DEF Threads
<1>2. \A q \in Evaluators \ {e} :
        pc'[q] = pc[q] /\ target'[q] = target[q] /\ decision'[q] = decision[q]
  <2>1. \A a : Decides(e, a) => \A q \in Evaluators \ {e} : decision'[q] = decision[q]
    BY DEF Decides, TypeOK
  <2>2. \A q \in Evaluators \ {e} : decision'[q] = decision[q]
    BY <2>1 DEF Evaluate, EvaluateEmptyCommand, CommandMatches, CommandUnmatched, DefaultApplies,
       DomainBlocked, DomainNotBlocked, DomainAllowed, DomainNotListed, SubdomainDecides
  <2>3. /\ \E to : pc' = [pc EXCEPT ![e] = to]
        /\ target' = target \/ \E x : target' = [target EXCEPT ![e] = x]
    BY DEF Evaluate, EvaluateEmptyCommand, CommandMatches, CommandUnmatched, DefaultApplies,
       DomainBlocked, DomainNotBlocked, DomainAllowed, DomainNotListed, SubdomainDecides, Begins,
       EvalStep, Goto
  <2>4. \A q \in Evaluators \ {e} : pc'[q] = pc[q] /\ target'[q] = target[q]
    BY <2>3 DEF TypeOK, Threads
  <2> QED BY <2>2, <2>4
<1>3. ASSUME NEW x, NEW to, Begins(e, x, to) PROVE pc'[e] = to /\ target'[e] = x
  BY <1>1, <1>3 DEF Begins, TypeOK
<1>4. ASSUME NEW from, NEW to, EvalStep(e, from, to)
      PROVE  pc[e] = from /\ pc'[e] = to /\ target'[e] = target[e]
  BY <1>1, <1>4 DEF EvalStep, Goto, TypeOK
<1>5. ASSUME NEW a, Decides(e, a) PROVE decision'[e] \in {a, "none"}
  BY <1>5 DEF Decides, TypeOK
<1>6. ASSUME EvaluateEmptyCommand(e) PROVE Goal
  <2>1. target'[e] = None /\ pc'[e] = "decided"
    BY <1>3, <1>6 DEF EvaluateEmptyCommand
  <2> QED BY <2>1 DEF Decided
<1>7. ASSUME NEW c \in Commands, CommandMatches(e, c) PROVE Goal
  <2>1. target'[e] = c /\ pc'[e] = "decided" /\ decision'[e] \in {FirstMatch(engine.rules, c), "none"}
    BY <1>3, <1>5, <1>7 DEF CommandMatches
  <2>2. c \notin Domains
    BY EngineAssumption
  <2>3. "none" \notin Actions
    BY DEF Actions
  <2>4. ASSUME NEW a \in Actions, \A f \in Parsed(CommandFiles) : Says(f.rules, "none", c, a)
        PROVE  FirstMatch(engine.rules, c) = a
    BY <2>3, <2>4, AgreedMatch
  <2> QED BY <2>1, <2>2, <2>4 DEF Decided
<1>8. ASSUME NEW c \in Commands, CommandUnmatched(e, c) PROVE Goal
  <2>1. target'[e] = c /\ pc'[e] = "no match"
    BY <1>3, <1>8 DEF CommandUnmatched
  <2>2. PICK f \in Parsed(CommandFiles) : engine.rules = f.rules
    BY DEF HeldInv, HeldRules
  <2>3. ~Matched(f.rules, c)
    BY <1>8, <2>2 DEF CommandUnmatched
  <2> QED BY <2>1, <2>3 DEF Decided
<1>9. ASSUME DefaultApplies(e) PROVE Goal
  <2>1. pc[e] = "no match" /\ pc'[e] = "decided" /\ target'[e] = target[e]
    BY <1>4, <1>9 DEF DefaultApplies
  <2>2. PICK f \in Parsed(CommandFiles) : ~Matched(f.rules, target[e])
    BY <2>1 DEF PassedInv
  <2>3. target[e] \in Commands /\ target[e] \notin Domains
    BY <2>1, EngineAssumption DEF PassedInv
  <2>4. \A a \in Actions : ~Says(f.rules, "none", target[e], a)
    BY <2>2 DEF Says, Matched, Hits, Actions
  <2> QED BY <2>1, <2>3, <2>4
<1>10. ASSUME NEW d \in Domains, DomainBlocked(e, d) PROVE Goal
  <2>1. target'[e] = d /\ pc'[e] = "decided" /\ decision'[e] \in {"block", "none"}
    BY <1>3, <1>5, <1>10 DEF DomainBlocked
  <2>2. d \notin Commands
    BY EngineAssumption
  <2> QED BY <2>1, <2>2 DEF Decided
<1>11. ASSUME NEW d \in Domains, DomainNotBlocked(e, d) PROVE Goal
  <2>1. target'[e] = d /\ pc'[e] = "not blocked"
    BY <1>3, <1>11 DEF DomainNotBlocked
  <2>2. PICK f \in Parsed(DomainFiles) : engine.blocked = f.blocked
    BY DEF HeldInv, HeldBlocked
  <2>3. d \notin f.blocked
    BY <1>11, <2>2 DEF DomainNotBlocked
  <2> QED BY <2>1, <2>3 DEF Decided
<1>12. ASSUME DomainAllowed(e) \/ DomainNotListed(e) \/ SubdomainDecides(e) PROVE Goal
  <2>1. /\ pc[e] \in {"not blocked", "not listed"} /\ pc'[e] \in {"not listed", "decided"}
        /\ target'[e] = target[e]
    BY <1>4, <1>12 DEF DomainAllowed, DomainNotListed, SubdomainDecides
  <2>2. target[e] \in Domains /\ \E f \in Parsed(DomainFiles) : target[e] \notin f.blocked
    BY <2>1 DEF PassedInv
  <2>3. target[e] \notin Commands
    BY <2>2, EngineAssumption
  <2> QED BY <2>1, <2>2, <2>3
<1>13. Goal
  BY <1>6, <1>7, <1>8, <1>9, <1>10, <1>11, <1>12 DEF Evaluate
<1> DEFINE S == Evaluators \ {e}
<1>14. S \subseteq Evaluators /\ \A q \in Evaluators \ S : q = e
  OBVIOUS
<1> HIDE DEF S
<1> QED BY <1>2, <1>13, <1>14, PassedByOthers DEF S

\* All three together, in every step.
LEMMA AgreedStep ==
  ASSUME NoFileMissing, TypeOK, DirInv, HeldInv, PassedInv, AgreedHolds, [Next]_vars
  PROVE  HeldInv' /\ PassedInv' /\ AgreedHolds'
<1>1. ASSUME NEW r \in Reloaders, Reload(r) PROVE HeldInv' /\ PassedInv' /\ AgreedHolds'
  <2>1. \A e \in Evaluators : pc'[e] = pc[e] /\ target'[e] = target[e] /\ decision'[e] = decision[e]
    <3>1. \A e \in Evaluators : e \in Threads /\ e # r
      BY EngineAssumption DEF Threads
    <3>2. UNCHANGED evaluating /\ \E to : pc' = [pc EXCEPT ![r] = to]
      BY <1>1 DEF Reload, ReloadBegins, ReloadWithoutDir, ReadCommands, ReadDomains, ReadFails,
         SwapRules, SwapDefault, SwapAllowed, SwapBlocked, Assign, SetDir, ReloadReports, Goto
    <3> QED BY <3>1, <3>2 DEF evaluating, TypeOK
  <2> QED BY <1>1, <2>1, HeldByReload, PassedByOthers
<1>2. ASSUME NEW e \in Evaluators, Evaluate(e) PROVE HeldInv' /\ PassedInv' /\ AgreedHolds'
  <2>1. UNCHANGED reloading /\ \A r \in Reloaders : pc'[r] = pc[r]
    BY <1>2, EvaluateKeeps
  <2>2. HeldInv'
    BY <2>1 DEF reloading, HeldInv, SwapPcs
  <2> QED BY <1>2, <2>2, AgreedByEvaluate
<1>3. CASE Edit \/ UNCHANGED vars
  <2>1. UNCHANGED <<reloading, pc, evaluating>>
    BY <1>3 DEF Edit, vars
  <2> QED BY <2>1 DEF reloading, evaluating, HeldInv, PassedInv, AgreedHolds, Decided
<1> QED BY <1>1, <1>2, <1>3 DEF Next

\* An engine that from_policy_dir made, whose files are edited but never missing,
\* decides what all of them agree on, even if reloads overlap.
THEOREM AgreedAlways ==
  ASSUME NoFileMissing PROVE Spec /\ policyDir # None => []AgreedHolds
<1>1. TypeOK /\ DirInv /\ HeldInv /\ PassedInv /\ AgreedHolds /\ [Next]_vars
        => (TypeOK /\ DirInv /\ HeldInv /\ PassedInv /\ AgreedHolds)'
  BY TypeStep, DirStep, AgreedStep
<1>2. Init /\ policyDir # None => HeldInv /\ PassedInv /\ AgreedHolds
  BY AgreedInit
<1> QED BY <1>1, <1>2, TypeInit, PTL DEF Spec
=============================================================================
