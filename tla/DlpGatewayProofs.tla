-------------------------- MODULE DlpGatewayProofs --------------------------
(***************************************************************************)
(* DlpGateway, for any contents, policy files and number of scanners: types, *)
(* that reloads leave one whole policy behind, and that what every policy    *)
(* file blocks stays blocked, provided that the file is never missing.       *)
(***************************************************************************)
EXTENDS DlpGateway, PolicyRulesProofs

USE DEF Actions, Parsed

LEMMA LoadedType == \A f \in PolicyFiles \ {Broken} : Loaded(f) \in Gateways
<1>1. SUFFICES ASSUME NEW f \in PolicyFiles \ {Broken} PROVE Loaded(f) \in Gateways
  OBVIOUS
<1>2. CASE f = Missing
  BY <1>2 DEF Loaded, Gateways, RuleLists
<1>3. CASE f # Missing
  <2>1. f \in Parsed
    BY <1>3
  <2>2. f \in [rules: Seq([hits: SUBSET Contents, action: Actions]), default: Actions]
    BY <2>1, GatewayAssumption
  <2>3. f.rules \in RuleLists
    BY <2>1 DEF RuleLists
  <2>4. f = [rules |-> f.rules, default |-> f.default] /\ f.default \in Actions
    BY <2>2
  <2>5. Loaded(f) = f
    BY <1>3 DEF Loaded
  <2>6. [rules |-> f.rules, default |-> f.default] \in Gateways
    BY <2>3, <2>4 DEF Gateways
  <2> QED BY <2>4, <2>5, <2>6
<1> QED BY <1>2, <1>3

\* The rules of a gateway are a list of rules.
LEMMA RulesType ==
  \A g \in Gateways : g.rules \in Seq([hits: SUBSET Contents, action: Actions])
<1>1. \A f \in Parsed : f.rules \in Seq([hits: SUBSET Contents, action: Actions])
  BY GatewayAssumption
<1>2. RuleLists \subseteq Seq([hits: SUBSET Contents, action: Actions])
  <2>1. \A T : <<>> \in Seq(T)
    OBVIOUS
  <2> QED BY <1>1, <2>1, Zenon DEF RuleLists
<1>3. \A g \in Gateways : g.rules \in RuleLists
  BY DEF Gateways
<1> QED BY <1>2, <1>3

LEMMA FirstMatchType ==
  ASSUME NEW g \in Gateways, NEW c \in Contents, Matched(g.rules, c)
  PROVE  FirstMatch(g.rules, c) \in Actions
<1> DEFINE w == Winner(g.rules, c)
<1>1. g.rules \in Seq([hits: SUBSET Contents, action: Actions])
  BY RulesType
<1>2. DOMAIN g.rules \subseteq Nat
  BY <1>1
<1>3. w \in Hits(g.rules, c)
  BY <1>2, WinnerIsFirst
<1> HIDE DEF w
<1>4. g.rules[w] \in [hits: SUBSET Contents, action: Actions]
  <2> DEFINE T == [hits: SUBSET Contents, action: Actions]
  <2> HIDE DEF T
  <2>1. \A q \in Seq(T) : \A i \in DOMAIN q : q[i] \in T
    OBVIOUS
  <2> QED BY <1>1, <1>3, <2>1 DEF Hits, T
<1>5. FirstMatch(g.rules, c) = g.rules[w].action
  BY DEF FirstMatch, w
<1> QED BY <1>4, <1>5

-----------------------------------------------------------------------------
LEMMA TypeInit == Init => TypeOK
BY LoadedType, GatewayAssumption DEF Init, TypeOK

LEMMA TypeStep == TypeOK /\ [Next]_vars => TypeOK'
<1> SUFFICES ASSUME TypeOK, [Next]_vars PROVE TypeOK'
  OBVIOUS
<1> USE DEF TypeOK
<1>1. CASE Edit
  BY <1>1 DEF Edit, reloading, scanning
<1>2. CASE ReadPolicy
  BY <1>2, LoadedType DEF ReadPolicy, scanning
<1>3. CASE ReadFails
  BY <1>3 DEF ReadFails, Failures, scanning
<1>4. CASE SwapRules
  BY <1>4 DEF SwapRules, scanning, Gateways
<1>5. CASE SwapDefault
  BY <1>5 DEF SwapDefault, scanning, Gateways
<1>6. CASE ReloadReports
  BY <1>6 DEF ReloadReports, scanning
<1>7. ASSUME NEW s \in Scanners, ScanBlank(s) PROVE TypeOK'
  BY <1>7 DEF ScanBlank, Begins, reloading
<1>8. ASSUME NEW s \in Scanners, NEW c \in Contents, RuleMatches(s, c) PROVE TypeOK'
  <2>1. FirstMatch(gateway.rules, c) \in Actions
    BY <1>8, FirstMatchType DEF RuleMatches
  <2>2. decision' \in [Scanners -> Actions \cup {"none"}]
    BY <1>8, <2>1 DEF RuleMatches, Decides
  <2> QED BY <1>8, <2>2 DEF RuleMatches, Begins, reloading
<1>9. ASSUME NEW s \in Scanners, NEW c \in Contents, NoRuleMatches(s, c) PROVE TypeOK'
  BY <1>9 DEF NoRuleMatches, Begins, reloading
<1>10. ASSUME NEW s \in Scanners, DefaultApplies(s) PROVE TypeOK'
  <2>1. gateway.default \in Actions
    BY DEF Gateways
  <2> QED BY <1>10, <2>1 DEF DefaultApplies, Decides, reloading
<1>11. CASE UNCHANGED vars
  BY <1>11 DEF vars, reloading, scanning
<1> QED BY <1>1, <1>2, <1>3, <1>4, <1>5, <1>6, <1>7, <1>8, <1>9, <1>10, <1>11
        DEF Next, Reload, Scan

\* Everything has its type, always.
THEOREM TypeCorrect == Spec => []TypeOK
<1> QED BY TypeInit, TypeStep, PTL DEF Spec

-----------------------------------------------------------------------------
(* Between reloads, one whole policy. *)

WholeInv ==
  /\ new \in Policies
  /\ reload # "default" => gateway \in Policies
  /\ reload = "default" => gateway.rules = new.rules

LEMMA WholeInit == Init => WholeInv
BY DEF Init, WholeInv, Policies

LEMMA WholeStep == TypeOK /\ WholeInv /\ [Next]_vars => WholeInv'
<1> SUFFICES ASSUME TypeOK, WholeInv, [Next]_vars PROVE WholeInv'
  OBVIOUS
<1> USE DEF WholeInv
<1>1. CASE Edit
  BY <1>1 DEF Edit, reloading, Policies
<1>2. CASE ReadPolicy
  BY <1>2 DEF ReadPolicy, ReloadRests, TypeOK, Policies
<1>3. CASE ReadFails
  BY <1>3 DEF ReadFails, Failures, ReloadRests, Policies
<1>4. CASE SwapRules
  BY <1>4 DEF SwapRules, Policies, TypeOK, Gateways
<1>5. CASE SwapDefault
  <2>1. gateway' = new
    BY <1>5 DEF SwapDefault, TypeOK, Gateways
  <2> QED BY <1>5, <2>1 DEF SwapDefault, Policies
<1>6. CASE ReloadReports
  BY <1>6 DEF ReloadReports, Policies
<1>7. CASE \E s \in Scanners : Scan(s)
  BY <1>7 DEF Scan, ScanBlank, RuleMatches, NoRuleMatches, DefaultApplies, Begins, reloading,
              Policies
<1>8. CASE UNCHANGED vars
  BY <1>8 DEF vars, reloading, Policies
<1> QED BY <1>1, <1>2, <1>3, <1>4, <1>5, <1>6, <1>7, <1>8 DEF Next, Reload

\* No failed load or audit record leaves a part of a policy behind.
THEOREM Whole == Spec => []GatewayIsWhole
<1>1. WholeInv => GatewayIsWhole
  BY DEF WholeInv, GatewayIsWhole
<1> QED BY TypeInit, TypeStep, WholeInit, WholeStep, <1>1, PTL DEF Spec
-----------------------------------------------------------------------------
(* What every policy file blocks. *)

Held == {f.rules : f \in Parsed}

\* The lists at work are lists of files, and a scan that waits for the default has
\* seen one of them not match.
BlockInv ==
  /\ gateway.rules \in Held /\ new.rules \in Held
  /\ \A s \in Scanners : scan[s] = "no match" =>
       /\ content[s] \in Contents
       /\ \E f \in Parsed : ~Matched(f.rules, content[s])
  /\ AlwaysBlocked

LEMMA BlockInit == Missing \notin PolicyFiles /\ Init => BlockInv
<1> SUFFICES ASSUME Missing \notin PolicyFiles, Init PROVE BlockInv
  OBVIOUS
<1>1. policyFile \in Parsed /\ Loaded(policyFile) = policyFile
  BY DEF Init, Loaded
<1> QED BY <1>1 DEF Init, BlockInv, AlwaysBlocked, Held

\* What blocks and is matched in one of the lists has no other verdict.
LEMMA MatchBlocks ==
  ASSUME NEW f \in Parsed, NEW c, Matched(f.rules, c), Says(f.rules, "none", c, "block")
  PROVE  FirstMatch(f.rules, c) = "block"
<1> DEFINE T == [hits: SUBSET Contents, action: Actions]
<1>1. f.rules \in Seq(T)
  BY GatewayAssumption
<1> HIDE DEF T
<1>2. Says(f.rules, "none", c, FirstMatch(f.rules, c))
  BY <1>1, FirstMatchSays
<1> QED BY <1>1, <1>2, SaysOneThing

LEMMA BlocksMatch ==
  ASSUME NEW f \in Parsed, NEW c, Says(f.rules, "none", c, "block")
  PROVE  Matched(f.rules, c)
BY DEF Says, Matched, Hits

LEMMA BlockStep ==
  Missing \notin PolicyFiles /\ TypeOK /\ BlockInv /\ [Next]_vars => BlockInv'
<1> SUFFICES ASSUME Missing \notin PolicyFiles, TypeOK, BlockInv, [Next]_vars PROVE BlockInv'
  OBVIOUS
<1>1. ASSUME gateway'.rules \in Held, new'.rules \in Held, UNCHANGED scanning PROVE BlockInv'
  BY <1>1 DEF BlockInv, AlwaysBlocked, scanning
<1>2. CASE Edit \/ ReadFails \/ ReloadReports \/ UNCHANGED vars
  BY <1>1, <1>2 DEF Edit, ReadFails, ReloadReports, BlockInv, vars, reloading
<1>3. CASE ReadPolicy
  <2>1. policyFile \in Parsed /\ Loaded(policyFile) = policyFile
    BY <1>3 DEF ReadPolicy, TypeOK, Loaded
  <2> QED BY <1>1, <1>3, <2>1 DEF ReadPolicy, BlockInv, Held
<1>4. CASE SwapRules
  <2>1. gateway'.rules = new.rules
    BY <1>4 DEF SwapRules, TypeOK, Gateways
  <2> QED BY <1>1, <1>4, <2>1 DEF SwapRules, BlockInv
<1>5. CASE SwapDefault
  <2>1. gateway'.rules = gateway.rules
    BY <1>5 DEF SwapDefault, TypeOK, Gateways
  <2> QED BY <1>1, <1>5, <2>1 DEF SwapDefault, BlockInv
<1>6. ASSUME NEW s \in Scanners, ScanBlank(s) PROVE BlockInv'
  BY <1>6 DEF ScanBlank, Begins, reloading, TypeOK, BlockInv, AlwaysBlocked
<1>7. ASSUME NEW s \in Scanners, NEW c \in Contents, RuleMatches(s, c) PROVE BlockInv'
  <2>1. PICK g \in Parsed : g.rules = gateway.rules
    BY DEF BlockInv, Held
  <2>2. ASSUME \A f \in Parsed : Says(f.rules, "none", c, "block")
        PROVE  FirstMatch(gateway.rules, c) = "block"
    BY <1>7, <2>1, <2>2, MatchBlocks DEF RuleMatches
  <2>3. /\ content' = [content EXCEPT ![s] = c] /\ scan' = [scan EXCEPT ![s] = "done"]
        /\ gateway' = gateway /\ new' = new
        /\ decision' \in {[decision EXCEPT ![s] = FirstMatch(gateway.rules, c)],
                           [decision EXCEPT ![s] = "none"]}
    BY <1>7 DEF RuleMatches, Begins, Decides, reloading
  <2> QED BY <2>2, <2>3 DEF BlockInv, AlwaysBlocked, TypeOK
<1>8. ASSUME NEW s \in Scanners, NEW c \in Contents, NoRuleMatches(s, c) PROVE BlockInv'
  <2>1. PICK g \in Parsed : g.rules = gateway.rules
    BY DEF BlockInv, Held
  <2>2. ~Matched(g.rules, c)
    BY <1>8, <2>1 DEF NoRuleMatches
  <2> QED BY <1>8, <2>2 DEF NoRuleMatches, Begins, reloading, BlockInv, AlwaysBlocked, TypeOK
<1>9. ASSUME NEW s \in Scanners, DefaultApplies(s) PROVE BlockInv'
  <2>1. PICK f \in Parsed : ~Matched(f.rules, content[s])
    BY <1>9 DEF DefaultApplies, BlockInv
  <2>2. ~Says(f.rules, "none", content[s], "block")
    BY <2>1, BlocksMatch
  <2>3. /\ content' = content /\ scan' = [scan EXCEPT ![s] = "done"]
        /\ gateway' = gateway /\ new' = new
        /\ \A t \in Scanners \ {s} : decision'[t] = decision[t]
    BY <1>9 DEF DefaultApplies, Decides, reloading, TypeOK
  <2> QED BY <2>2, <2>3 DEF BlockInv, AlwaysBlocked, TypeOK
<1> QED BY <1>2, <1>3, <1>4, <1>5, <1>6, <1>7, <1>8, <1>9 DEF Next, Reload, Scan

\* If the file is always there, valid or not, what all its versions block by a
\* rule is never let through.
THEOREM BlockedStaysBlocked ==
  ASSUME Missing \notin PolicyFiles PROVE Spec => []AlwaysBlocked
<1>1. Init => TypeOK /\ BlockInv
  BY TypeInit, BlockInit
<1>2. TypeOK /\ BlockInv /\ [Next]_vars => (TypeOK /\ BlockInv)'
  BY TypeStep, BlockStep
<1>3. BlockInv => AlwaysBlocked
  BY DEF BlockInv
<1> QED BY <1>1, <1>2, <1>3, PTL DEF Spec
-----------------------------------------------------------------------------
(* The gateway implements HotReload *)

\* A gateway begins with a policy, and no reload.
LEMMA HotInit == Init => Hot!Init
BY WholeInit DEF Init, WholeInv, Hot!Init

\* The assignment of the rules replaces the policy; that of the default completes it.
LEMMA HotStep ==
  ASSUME TypeOK, WholeInv, [Next]_vars
  PROVE  [Hot!Next]_(Hot!vars)
<1> USE DEF WholeInv, Hot!vars
<1>1. CASE Edit \/ (\E s \in Scanners : Scan(s)) \/ UNCHANGED vars
  <2>1. UNCHANGED reloading
    BY <1>1 DEF Edit, Scan, ScanBlank, RuleMatches, NoRuleMatches, DefaultApplies, Begins, vars
  <2> QED BY <2>1 DEF reloading
<1>2. CASE ReadPolicy
  <2>1. reload \in Hot!Ended /\ reload' = "rules" /\ gateway' = gateway
    BY <1>2 DEF ReadPolicy, ReloadRests, Hot!Ended
  <2> QED BY <2>1 DEF Hot!Ended, Hot!Begin, Hot!Next
<1>3. CASE ReadFails
  <2>1. reload \in Hot!Ended /\ reload' \in Hot!Failures /\ gateway' = gateway
    BY <1>3 DEF ReadFails, ReloadRests, Failures, Hot!Ended, Hot!Failures
  <2> QED BY <2>1 DEF Hot!Ended, Hot!Failures, Hot!Fail, Hot!Next
<1>4. CASE SwapRules
  <2>1. reload = "rules" /\ reload' = "default" /\ new' = new /\ new \in Policies
    BY <1>4 DEF SwapRules
  <2> QED BY <2>1 DEF Hot!Replace, Hot!Next
<1>5. CASE SwapDefault
  <2>1. gateway' = new
    BY <1>5 DEF SwapDefault, TypeOK, Gateways
  <2> QED BY <1>5, <2>1 DEF SwapDefault
<1>6. CASE ReloadReports
  BY <1>6 DEF ReloadReports, Hot!Report, Hot!Next
<1> QED BY <1>1, <1>2, <1>3, <1>4, <1>5, <1>6 DEF Next, Reload

\* In any program, a reload of the gateway replaces its policy once, whole, or
\* leaves it.
THEOREM Implements == Spec => ImplementsHotReload
<1>1. TypeOK /\ WholeInv /\ [Next]_vars => (TypeOK /\ WholeInv)' /\ [Hot!Next]_(Hot!vars)
  BY TypeStep, WholeStep, HotStep
<1> QED BY <1>1, TypeInit, WholeInit, HotInit, PTL DEF Spec, ImplementsHotReload, Hot!Spec
=============================================================================
