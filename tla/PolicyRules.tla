---------------------------- MODULE PolicyRules ----------------------------
(***************************************************************************)
(* The ordered rules that the permission engine (permissions/engine.py) and *)
(* the DLP gateway (gateway_out/dlp.py) both decide with.  A rule is the    *)
(* set of targets that its regular expression finds, and an action.         *)
(***************************************************************************)
EXTENDS Naturals, Sequences

Hits(rules, x) == {i \in DOMAIN rules : x \in rules[i].hits}

\* Mutant: the most recent rule that matches wins.
WinnerMutant(rules, x) == CHOOSE i \in Hits(rules, x) : \A j \in Hits(rules, x) : j <= i
\* `for rule in rules: if rule.compiled.search(...)`: the first that matches.
Winner(rules, x) == CHOOSE i \in Hits(rules, x) : \A j \in Hits(rules, x) : i <= j

Matched(rules, x) == Hits(rules, x) # {}

\* The action of the loop, for a target that some rule matches.
FirstMatch(rules, x) == rules[Winner(rules, x)].action
-----------------------------------------------------------------------------
\* What a policy means, said without the loop: a rule decides if it matches and
\* no rule before it does; the default decides if no rule matches.
Says(rules, default, x, action) ==
  \/ \E i \in DOMAIN rules : /\ x \in rules[i].hits
                             /\ \A j \in 1 .. i - 1 : x \notin rules[j].hits
                             /\ rules[i].action = action
  \/ (\A i \in DOMAIN rules : x \notin rules[i].hits) /\ default = action
=============================================================================
