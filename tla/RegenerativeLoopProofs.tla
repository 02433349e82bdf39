------------------------ MODULE RegenerativeLoopProofs ------------------------
(***************************************************************************)
(* Nobody is isolated without having been blocked, and nobody is isolated  *)
(* but in the mode "auto": for any agents, windows and thresholds, and     *)
(* whatever runs during a tick.                                            *)
(***************************************************************************)
EXTENDS RegenerativeLoop, FiniteSetTheorems, TLAPS

-----------------------------------------------------------------------------
(* The window *)

\* A window that is not empty and reaches the threshold holds a block.
LEMMA RateNeedsBlock ==
  ASSUME NEW h \in Seq(Decisions), Len(h) >= MinHistory,
         Blocks(h) * RateDen >= RateNum * Len(h)
  PROVE  \E i \in DOMAIN h : h[i] = "block"
<1> SUFFICES ASSUME {i \in DOMAIN h : h[i] = "block"} = {} PROVE FALSE
  OBVIOUS
<1>1. Blocks(h) = 0
  BY FS_EmptySet DEF Blocks
<1>2. RateNum \in Nat \ {0} /\ Len(h) \in Nat \ {0} /\ RateDen \in Nat
  BY LoopAssumption
<1>3. RateNum * Len(h) > 0
  BY <1>2
<1> QED
  BY <1>1, <1>2, <1>3

\* A window slides: it has the new decision and otherwise those it had.
LEMMA PushType ==
  ASSUME NEW h \in Seq(Decisions), Len(h) <= WindowSize, NEW d \in Decisions
  PROVE  /\ Push(h, d) \in Seq(Decisions)
         /\ Len(Push(h, d)) <= WindowSize
         /\ \A i \in DOMAIN Push(h, d) : Push(h, d)[i] = d \/ \E j \in DOMAIN h : Push(h, d)[i] = h[j]
<1>1. CASE Len(h) < WindowSize
  BY <1>1, LoopAssumption DEF Push
<1>2. CASE ~(Len(h) < WindowSize)
  <2>1. h # <<>>
    BY <1>2, LoopAssumption
  <2> DEFINE t == Tail(h)
  <2>2. /\ t \in Seq(Decisions) /\ Len(t) = Len(h) - 1
        /\ \A i \in 1 .. Len(t) : t[i] = h[i + 1]
    BY <2>1
  <2>3. Push(h, d) = Append(t, d)
    BY <1>2 DEF Push
  <2> HIDE DEF t
  <2>4. /\ Append(t, d) \in Seq(Decisions) /\ Len(Append(t, d)) = Len(h)
        /\ \A i \in 1 .. Len(h) : Append(t, d)[i] = IF i = Len(h) THEN d ELSE h[i + 1]
    BY <2>2
  <2> QED
    BY <2>3, <2>4, LoopAssumption
<1> QED
  BY <1>1, <1>2

-----------------------------------------------------------------------------
(* Types *)

LEMMA AnomaliesType ==
  ASSUME NEW a \in Agents
  PROVE  /\ Anomalies(a) \in Seq(Agents)
         /\ \A i \in DOMAIN Anomalies(a) : Anomalies(a)[i] = a
         /\ Anomalies(a) # <<>> => Suspicious(a)
  BY DEF Anomalies, Suspicious

LEMMA TypeStep == TypeOK /\ [Next]_vars => TypeOK'
<1> SUFFICES ASSUME TypeOK, [Next]_vars PROVE TypeOK'
  OBVIOUS
<1> USE DEF TypeOK, observed, ticking
<1>1. ASSUME NEW a \in Agents, NEW d \in Decisions, Observe(a, d)
      PROVE  TypeOK'
  <2>1. known' \in Seq(Agents) /\ Len(known') >= Len(known)
    BY <1>1 DEF Observe
  <2>2. /\ history' \in [Agents -> Seq(Decisions)]
        /\ \A b \in Agents : Len(history'[b]) <= WindowSize
    BY <1>1, PushType DEF Observe
  <2>3. violations' \in [Agents -> 0 .. RepeatedThreshold]
    BY <1>1, LoopAssumption DEF Observe
  <2>4. /\ dirty' \in BOOLEAN /\ interfered' \in BOOLEAN
        /\ blocked' \subseteq Agents
    BY <1>1 DEF Observe, Interleaves
  <2>5. UNCHANGED <<isolated, phase, cursor, found>>
    BY <1>1 DEF Observe
  <2> QED
    BY <2>1, <2>2, <2>3, <2>4, <2>5
<1>2. ASSUME NEW a \in Agents, ReleaseAgent(a)
      PROVE  TypeOK'
  BY <1>2, LoopAssumption DEF ReleaseAgent, Interleaves
<1>3. CASE TickBegins
  BY <1>3 DEF TickBegins
<1>4. CASE Detect
  <2>1. known[cursor + 1] \in Agents
    BY <1>4 DEF Detect
  <2>2. found' \in Seq(Agents)
    BY <1>4, <2>1, AnomaliesType DEF Detect
  <2> QED
    BY <1>4, <2>2 DEF Detect
<1>5. CASE Detected
  BY <1>5 DEF Detected
<1>e. <<>> \in Seq(Agents) /\ 0 \in 0 .. Len(known)
  OBVIOUS
<1>r. ASSUME TickRaises, UNCHANGED observed, isolated' \subseteq Agents
      PROVE  TypeOK'
  BY <1>e, <1>r DEF TickRaises
<1>6. CASE DetectRaises
  BY <1>6, <1>r DEF DetectRaises
<1>7. CASE Heal
  BY <1>7 DEF Heal, Isolate
<1>8. CASE HealRaises
  <2>1. Head(found) \in Agents
    BY <1>8 DEF HealRaises
  <2> QED
    BY <1>8, <1>r, <2>1 DEF HealRaises, Isolate
<1>9. CASE TickEnds
  BY <1>9 DEF TickEnds
<1>10. CASE UNCHANGED vars
  BY <1>10 DEF vars
<1> QED
  BY <1>1, <1>2, <1>3, <1>4, <1>5, <1>6, <1>7, <1>8, <1>9, <1>10 DEF Next, Tick

\* Windows, counters and the work of a tick stay well typed, and no window
\* outgrows window_size.
THEOREM TypeCorrect == Spec => []TypeOK
<1>1. Init => TypeOK
  <2>1. /\ \A S : <<>> \in Seq(S) /\ Len(<<>>) = 0
        /\ 0 \in 0 .. RepeatedThreshold /\ 0 <= WindowSize
    BY LoopAssumption
  <2> SUFFICES ASSUME Init PROVE TypeOK
    OBVIOUS
  <2>2. known \in Seq(Agents) /\ found \in Seq(Agents) /\ cursor \in 0 .. Len(known)
    BY <2>1 DEF Init
  <2>3. /\ history \in [Agents -> Seq(Decisions)]
        /\ \A a \in Agents : Len(history[a]) <= WindowSize
    BY <2>1 DEF Init
  <2> QED
    BY <2>1, <2>2, <2>3 DEF Init, TypeOK
<1> QED
  BY <1>1, TypeStep, PTL DEF Spec

-----------------------------------------------------------------------------
(* Evidence *)

LEMMA SuspiciousBlocked ==
  ASSUME TypeOK, BlockedInv, NEW a \in Agents, Suspicious(a)
  PROVE  a \in blocked
<1>1. CASE HighBlockRate(a)
  BY <1>1, RateNeedsBlock DEF HighBlockRate, TypeOK, BlockedInv
<1>2. CASE RepeatedViolation(a)
  BY <1>2, LoopAssumption DEF RepeatedViolation, TypeOK, BlockedInv
<1> QED
  BY <1>1, <1>2 DEF Suspicious

LEMMA BlockedStep ==
  TypeOK /\ BlockedInv /\ CleanNeverIsolated /\ [Next]_vars => (BlockedInv /\ CleanNeverIsolated)'
<1> SUFFICES ASSUME TypeOK, BlockedInv, CleanNeverIsolated, [Next]_vars
             PROVE  (BlockedInv /\ CleanNeverIsolated)'
  OBVIOUS
<1> USE DEF TypeOK, observed, ticking
<1> DEFINE Goal == (BlockedInv /\ CleanNeverIsolated)'
<1> SUFFICES Goal
  OBVIOUS
<1>1. ASSUME NEW a \in Agents, NEW d \in Decisions, Observe(a, d)
      PROVE  Goal
  <2>1. /\ blocked \subseteq blocked' /\ UNCHANGED <<isolated, found>>
        /\ a \notin blocked' => a \notin blocked /\ d # "block"
    BY <1>1 DEF Observe
  <2>2. ASSUME NEW b \in Agents, b \notin blocked'
        PROVE  violations'[b] = 0
    BY <1>1, <2>1, <2>2 DEF Observe, BlockedInv
  <2>3. ASSUME NEW b \in Agents, b \notin blocked', NEW i \in DOMAIN history'[b]
        PROVE  history'[b][i] # "block"
    <3>1. CASE b # a
      BY <1>1, <2>1, <2>3, <3>1 DEF Observe, BlockedInv
    <3>2. CASE b = a
      <4>1. history'[a] = Push(history[a], d)
        BY <1>1 DEF Observe
      <4> QED
        BY <2>1, <2>3, <3>2, <4>1, PushType DEF BlockedInv
    <3> QED
      BY <3>1, <3>2
  <2> QED
    BY <2>1, <2>2, <2>3 DEF BlockedInv, CleanNeverIsolated
<1>2. ASSUME NEW a \in Agents, ReleaseAgent(a)
      PROVE  Goal
  BY <1>2 DEF ReleaseAgent, BlockedInv, CleanNeverIsolated
<1>3. CASE TickBegins \/ Detected \/ TickEnds \/ UNCHANGED vars
  BY <1>3 DEF TickBegins, Detected, TickEnds, vars, BlockedInv, CleanNeverIsolated
<1>4. CASE Detect
  <2> DEFINE a == known[cursor + 1]
             new == Anomalies(a)
  <2>1. a \in Agents
    BY <1>4 DEF Detect
  <2> HIDE DEF a
  <2>2. /\ new \in Seq(Agents)
        /\ \A i \in DOMAIN new : new[i] \in blocked
    <3>1. CASE new = <<>>
      BY <2>1, <3>1, AnomaliesType
    <3>2. CASE new # <<>>
      <4>1. a \in blocked
        BY <2>1, <3>2, AnomaliesType, SuspiciousBlocked
      <4> QED
        BY <2>1, <4>1, AnomaliesType
    <3> QED
      BY <3>1, <3>2
  <2>4. found' = found \o new
    BY <1>4 DEF Detect, a
  <2> HIDE DEF new
  <2>3. \A i \in DOMAIN found' : found'[i] \in blocked
    BY <2>2, <2>4 DEF BlockedInv
  <2> QED
    BY <1>4, <2>3 DEF Detect, BlockedInv, CleanNeverIsolated
<1>5. ASSUME found # <<>>, Isolate(Head(found)), UNCHANGED blocked
      PROVE  CleanNeverIsolated'
  BY <1>5 DEF Isolate, BlockedInv, CleanNeverIsolated
<1>6. CASE Heal
  BY <1>5, <1>6 DEF Heal, BlockedInv
<1>7. CASE HealRaises \/ DetectRaises
  BY <1>5, <1>7 DEF HealRaises, DetectRaises, TickRaises, BlockedInv, CleanNeverIsolated
<1> HIDE DEF Goal
<1> QED
  BY <1>1, <1>2, <1>3, <1>4, <1>6, <1>7 DEF Next, Tick

\* An agent of whom no request was ever blocked is never isolated.
THEOREM CleanAlways == Spec => []CleanNeverIsolated
<1>1. Init => BlockedInv /\ CleanNeverIsolated
  BY DEF Init, BlockedInv, CleanNeverIsolated
<1> QED
  BY <1>1, BlockedStep, TypeCorrect, PTL DEF Spec

LEMMA GroundInit == Init => GroundInv
<1> SUFFICES ASSUME Init PROVE GroundInv
  OBVIOUS
<1>1. found = <<>>
  BY DEF Init
<1> QED
  BY <1>1 DEF GroundInv

LEMMA GroundStep == TypeOK /\ GroundInv /\ [Next]_vars => GroundInv'
<1> SUFFICES ASSUME TypeOK, GroundInv, [Next]_vars PROVE GroundInv'
  OBVIOUS
<1> USE DEF observed, ticking
<1>a. ASSUME found' = <<>>
      PROVE  GroundInv'
  BY <1>a DEF GroundInv
<1>b. ASSUME UNCHANGED <<history, violations>>, NEW b
      PROVE  Suspicious(b)' <=> Suspicious(b)
  BY <1>b DEF Suspicious, HighBlockRate, RepeatedViolation, Blocks
<1>c. ASSUME Interleaves, UNCHANGED <<phase, found>>
      PROVE  GroundInv'
  <2>1. CASE phase = "idle"
    BY <1>a, <1>c, <2>1 DEF GroundInv
  <2>2. CASE phase # "idle"
    <3>1. interfered' = TRUE
      BY <1>c, <2>2 DEF Interleaves
    <3> QED
      BY <1>c, <2>2, <3>1 DEF GroundInv
  <2> QED
    BY <2>1, <2>2
<1>1. ASSUME NEW a \in Agents, NEW d \in Decisions, Observe(a, d)
      PROVE  GroundInv'
  BY <1>1, <1>c DEF Observe
<1>2. ASSUME NEW a \in Agents, ReleaseAgent(a)
      PROVE  GroundInv'
  BY <1>2, <1>c DEF ReleaseAgent
<1>3. CASE TickBegins
  BY <1>3, <1>a DEF TickBegins, GroundInv
<1>4. CASE Detect
  <2> DEFINE a == known[cursor + 1]
             new == Anomalies(a)
  <2>1. a \in Agents
    BY <1>4 DEF Detect, TypeOK
  <2> HIDE DEF a
  <2>2. new \in Seq(Agents) /\ \A i \in DOMAIN new : new[i] = a /\ Suspicious(a)
    BY <2>1, AnomaliesType
  <2>3. found' = found \o new /\ found \in Seq(Agents)
    BY <1>4 DEF Detect, a, TypeOK
  <2> HIDE DEF new
  <2>4. ASSUME ~interfered, NEW i \in DOMAIN found'
        PROVE  Suspicious(found'[i])
    <3>1. \A j \in DOMAIN found : Suspicious(found[j])
      BY <2>4 DEF GroundInv
    <3>2. CASE i \in DOMAIN found
      <4>1. found'[i] = found[i]
        BY <2>2, <2>3, <2>4, <3>2
      <4> QED
        BY <3>1, <3>2, <4>1
    <3>3. CASE i \notin DOMAIN found
      <4>1. PICK j \in DOMAIN new : found'[i] = new[j]
        <5>1. i - Len(found) \in DOMAIN new /\ found'[i] = new[i - Len(found)]
          BY <2>2, <2>3, <2>4, <3>3
        <5> QED
          BY <5>1
      <4> QED
        BY <2>2, <4>1
    <3> QED
      BY <3>2, <3>3
  <2> QED
    BY <1>4, <1>b, <2>4 DEF Detect, GroundInv
<1>5. CASE Detected \/ UNCHANGED vars
  BY <1>5, <1>b DEF Detected, vars, GroundInv
<1>6. CASE Heal
  <2>1. /\ found' = Tail(found) /\ found # <<>> /\ found \in Seq(Agents)
        /\ UNCHANGED <<history, violations, interfered, phase>> /\ phase = "heal"
    BY <1>6 DEF Heal, TypeOK
  <2>2. \A i \in DOMAIN found' : i + 1 \in DOMAIN found /\ found'[i] = found[i + 1]
    BY <2>1
  <2> QED
    BY <1>b, <2>1, <2>2 DEF GroundInv
<1>7. CASE HealRaises \/ DetectRaises \/ TickEnds
  BY <1>7, <1>a DEF HealRaises, DetectRaises, TickRaises, TickEnds
<1> QED
  BY <1>1, <1>2, <1>3, <1>4, <1>5, <1>6, <1>7 DEF Next, Tick

\* A tick that no other thread disturbs isolates only agents that are suspicious
\* at that very moment.
THEOREM GroundedAlways == Spec => IsolationGrounded
<1> DEFINE Step ==
      \A a \in Agents : a \notin isolated /\ a \in isolated' => interfered \/ Suspicious(a)
<1>1. TypeOK /\ GroundInv /\ [Next]_vars => [Step]_vars
  <2> SUFFICES ASSUME TypeOK, GroundInv, Next, NEW a \in Agents, a \notin isolated, a \in isolated'
               PROVE  interfered \/ Suspicious(a)
    OBVIOUS
  <2>1. Heal \/ HealRaises
    BY DEF Next, Tick, Observe, ReleaseAgent, TickBegins, Detect, Detected, DetectRaises, TickEnds
  <2>2. found # <<>> /\ found \in Seq(Agents) /\ a = Head(found)
    BY <2>1 DEF Heal, HealRaises, Isolate, TypeOK
  <2>3. 1 \in DOMAIN found /\ found[1] = a
    BY <2>2
  <2> QED
    BY <2>3 DEF GroundInv
<1> QED
  BY <1>1, GroundInit, GroundStep, TypeCorrect, PTL DEF Spec, IsolationGrounded

\* The modes "suggest" and "ask" never isolate.
THEOREM AutoOnly == Spec => []OnlyAutoIsolates
<1>1. Init => OnlyAutoIsolates
  BY DEF Init, OnlyAutoIsolates
<1>2. OnlyAutoIsolates /\ [Next]_vars => OnlyAutoIsolates'
  BY DEF OnlyAutoIsolates, Next, Tick, Observe, ReleaseAgent, TickBegins, Detect, Detected,
         DetectRaises, TickRaises, Heal, HealRaises, Isolate, TickEnds, vars
<1> QED
  BY <1>1, <1>2, PTL DEF Spec
=============================================================================
