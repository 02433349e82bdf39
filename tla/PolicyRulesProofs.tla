-------------------------- MODULE PolicyRulesProofs --------------------------
(***************************************************************************)
(* What the first-match loop of PolicyRules decides, for every list of      *)
(* rules: what Says says without the loop.                                 *)
(***************************************************************************)
EXTENDS PolicyRules, WellFoundedInduction, TLAPS

\* A set of naturals that is not empty has a least element.
LEMMA LeastElement ==
  ASSUME NEW S, S \subseteq Nat, S # {}
  PROVE  \E i \in S : \A j \in S : i <= j
<1> DEFINE R == OpToRel(<, Nat)
<1>1. IsWellFoundedOn(R, Nat)
  BY NatLessThanWellFounded
<1>2. \A x, y \in Nat : y < x => <<y, x>> \in R
  BY DEF OpToRel
<1> HIDE DEF R
<1>3. PICK i \in S : \A j \in S : ~(<<j, i>> \in R)
  BY <1>1, WFMin
<1>4. i \in Nat /\ \A j \in S : j \in Nat /\ ~(j < i)
  BY <1>2, <1>3, Zenon
<1>5. \A j \in S : i <= j
  BY <1>4
<1> QED BY <1>5

\* The loop stops at the first rule that matches, if any does.
LEMMA WinnerIsFirst ==
  ASSUME NEW rules, DOMAIN rules \subseteq Nat, NEW x, Matched(rules, x)
  PROVE  /\ Winner(rules, x) \in Hits(rules, x)
         /\ \A j \in Hits(rules, x) : Winner(rules, x) <= j
<1>1. Hits(rules, x) \subseteq Nat /\ Hits(rules, x) # {}
  BY DEF Hits, Matched
<1>2. \E i \in Hits(rules, x) : \A j \in Hits(rules, x) : i <= j
  BY <1>1, LeastElement
<1> QED BY <1>2 DEF Winner

\* The action of the loop is the one that the list says.
THEOREM FirstMatchSays ==
  ASSUME NEW T, NEW rules \in Seq(T), NEW default, NEW x, Matched(rules, x)
  PROVE  Says(rules, default, x, FirstMatch(rules, x))
<1> DEFINE w == Winner(rules, x)
<1>1. DOMAIN rules = 1 .. Len(rules) /\ Len(rules) \in Nat
  OBVIOUS
<1>2. w \in Hits(rules, x) /\ \A j \in Hits(rules, x) : w <= j
  BY <1>1, WinnerIsFirst
<1>3. w \in 1 .. Len(rules) /\ x \in rules[w].hits
  BY <1>1, <1>2 DEF Hits
<1>4. ASSUME NEW j \in 1 .. w - 1 PROVE x \notin rules[j].hits
  BY <1>1, <1>2, <1>3 DEF Hits
<1> HIDE DEF w
<1>5. FirstMatch(rules, x) = rules[w].action
  BY DEF FirstMatch, w
<1> QED BY <1>1, <1>3, <1>4, <1>5 DEF Says

\* A list says one thing of a target that it matches, whatever the default.
THEOREM SaysOneThing ==
  ASSUME NEW T, NEW rules \in Seq(T), NEW d1, NEW d2, NEW x, Matched(rules, x),
         NEW a, Says(rules, d1, x, a), NEW b, Says(rules, d2, x, b)
  PROVE  a = b
<1>1. DOMAIN rules = 1 .. Len(rules) /\ Len(rules) \in Nat
  OBVIOUS
<1>2. \E i \in DOMAIN rules : x \in rules[i].hits
  BY DEF Matched, Hits
<1>3. PICK i \in 1 .. Len(rules) : /\ x \in rules[i].hits
                                   /\ \A k \in 1 .. i - 1 : x \notin rules[k].hits
                                   /\ rules[i].action = a
  BY <1>1, <1>2 DEF Says
<1>4. PICK j \in 1 .. Len(rules) : /\ x \in rules[j].hits
                                   /\ \A k \in 1 .. j - 1 : x \notin rules[k].hits
                                   /\ rules[j].action = b
  BY <1>1, <1>2 DEF Says
<1>5. i = j
  BY <1>1, <1>3, <1>4
<1> QED BY <1>3, <1>4, <1>5
=============================================================================
