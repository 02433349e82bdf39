-------------------------- MODULE RegenerativeLoop --------------------------
(***************************************************************************)
(* The regenerative loop (core/regenerative_loop.py): decisions observed   *)
(* for each agent, and ticks that detect suspicious agents and then isolate *)
(* them.  A tick is two passes, so a detected anomaly may be old when it is *)
(* healed: with Concurrent, other threads observe and release in between.  *)
(*                                                                         *)
(* _detect never reports POLICY_LOAD_FAILURE, so no tick reloads policies. *)
(***************************************************************************)
EXTENDS Naturals, FiniteSets, Sequences, SequencesExt

CONSTANTS
  Agents,
  Mode,                        \* "suggest", "ask" or "auto"
  WindowSize,                  \* window_size
  MinHistory,                  \* the 10 of `if len(history) < 10`
  RateNum, RateDen,            \* block_rate_threshold, as a fraction
  RepeatedThreshold,           \* repeated_threshold
  Concurrent,                  \* observe() and release_agent() run during a tick
  HookMayFail                  \* the callbacks or the audit log may raise in _heal

ASSUME LoopAssumption ==
  /\ Mode \in {"suggest", "ask", "auto"}
  /\ WindowSize \in Nat \ {0} /\ MinHistory \in Nat \ {0}
  /\ RateNum \in Nat \ {0} /\ RateDen \in Nat \ {0}
  /\ RepeatedThreshold \in Nat \ {0}
  /\ Concurrent \in BOOLEAN /\ HookMayFail \in BOOLEAN

VARIABLES
  known,        \* the keys of _history, in the order of insertion
  history,      \* _history: the last WindowSize decisions
  violations,   \* _violation_count, up to the threshold it is compared with
  isolated,     \* _isolated_agents
  phase,        \* where tick() is: "idle", "detect" or "heal"
  cursor,       \* how many of the keys _detect has visited
  found,        \* the agents of the anomalies found and not yet healed
  dirty,        \* the dict or the deque being iterated over has changed
  blocked,      \* history: the agents ever blocked
  interfered    \* history: another thread has observed or released since the tick began

observed == <<known, history, violations, blocked, interfered>>
ticking  == <<phase, cursor, found, dirty>>
vars     == <<observed, isolated, ticking>>

\* What the loop tells apart: "ask" counts as "allow".
Decisions == {"allow", "block"}

Blocks(h) == Cardinality({i \in DOMAIN h : h[i] = "block"})

HighBlockRate(a) ==
  /\ Len(history[a]) >= MinHistory
  /\ Blocks(history[a]) * RateDen >= RateNum * Len(history[a])
\* Mutant: one counter for all the agents.
RepeatedViolationMutant(a) ==
  /\ Len(history[a]) >= MinHistory
  /\ \E b \in Agents : violations[b] >= RepeatedThreshold
RepeatedViolation(a) ==
  /\ Len(history[a]) >= MinHistory
  /\ violations[a] >= RepeatedThreshold

Suspicious(a) == HighBlockRate(a) \/ RepeatedViolation(a)

\* Mutant: only the rate is reported.
AnomaliesMutant(a) == IF HighBlockRate(a) THEN <<a>> ELSE <<>>
\* The agent once for each of its anomalies.
Anomalies(a) ==
  (IF HighBlockRate(a) THEN <<a>> ELSE <<>>) \o (IF RepeatedViolation(a) THEN <<a>> ELSE <<>>)

Init ==
  /\ known = <<>>
  /\ history = [a \in Agents |-> <<>>]
  /\ violations = [a \in Agents |-> 0]
  /\ isolated = {}
  /\ phase = "idle" /\ cursor = 0 /\ found = <<>> /\ dirty = FALSE
  /\ blocked = {}
  /\ interfered = FALSE

\* Mutant: a deque without maxlen.
PushMutant(h, d) == Append(h, d)
\* deque(maxlen=WindowSize).append
Push(h, d) == IF Len(h) < WindowSize THEN Append(h, d) ELSE Append(Tail(h), d)

\* observe() and release_agent() take no lock.
Interleaves ==
  /\ Concurrent \/ phase = "idle"
  /\ interfered' = (phase # "idle")

\* A new key always upsets a _detect that is iterating over the dict; another
\* decision of a known agent does when its deque is the one being read.
Observe(a, d) ==
  /\ Interleaves
  /\ LET isNew == a \notin Range(known) IN
     /\ known' = IF isNew THEN Append(known, a) ELSE known
     /\ dirty' \in IF phase # "detect" \/ dirty THEN {dirty}
                   ELSE IF isNew THEN {TRUE} ELSE BOOLEAN
  /\ history' = [history EXCEPT ![a] = Push(@, d)]
  /\ violations' =
       [violations EXCEPT ![a] = IF d = "block" /\ @ < RepeatedThreshold THEN @ + 1 ELSE @]
  /\ blocked' = IF d = "block" THEN blocked \cup {a} ELSE blocked
  /\ UNCHANGED <<isolated, phase, cursor, found>>

ReleaseAgent(a) ==
  /\ Interleaves
  /\ isolated' = isolated \ {a}
  /\ violations' = [violations EXCEPT ![a] = 0]
  /\ UNCHANGED <<known, history, blocked, ticking>>

-----------------------------------------------------------------------------
(* tick() *)

TickBegins ==
  /\ phase = "idle"
  /\ phase' = "detect"
  /\ interfered' = FALSE
  /\ UNCHANGED <<known, history, violations, blocked, isolated, cursor, found, dirty>>

Detect ==
  /\ phase = "detect" /\ ~dirty
  /\ cursor < Len(known)
  /\ cursor' = cursor + 1
  /\ found' = found \o Anomalies(known[cursor + 1])
  /\ UNCHANGED <<observed, isolated, phase, dirty>>

Detected ==
  /\ phase = "detect" /\ ~dirty
  /\ cursor = Len(known)
  /\ phase' = "heal"
  /\ cursor' = 0
  /\ UNCHANGED <<observed, isolated, found, dirty>>

\* The exception leaves tick(); what was found is lost.
TickRaises == phase' = "idle" /\ cursor' = 0 /\ found' = <<>> /\ dirty' = FALSE

\* RuntimeError: changed during iteration.
DetectRaises ==
  /\ phase = "detect" /\ dirty
  /\ TickRaises
  /\ UNCHANGED <<observed, isolated>>

\* Mutant: the human approval of "ask" is not waited for.
IsolateMutant(a) == isolated' = IF Mode # "suggest" THEN isolated \cup {a} ELSE isolated
Isolate(a) == isolated' = IF Mode = "auto" THEN isolated \cup {a} ELSE isolated

\* Mutant: the agent isolated is the one visited last.
HealMutant ==
  /\ phase = "heal" /\ found # <<>>
  /\ Isolate(Last(known))
  /\ found' = Tail(found)
  /\ UNCHANGED <<observed, phase, cursor, dirty>>
\* Only "auto" acts.  The callback and the audit record come after the action.
Heal ==
  /\ phase = "heal" /\ found # <<>>
  /\ Isolate(Head(found))
  /\ found' = Tail(found)
  /\ UNCHANGED <<observed, phase, cursor, dirty>>

HealRaises ==
  /\ HookMayFail
  /\ phase = "heal" /\ found # <<>>
  /\ Isolate(Head(found))
  /\ TickRaises
  /\ UNCHANGED observed

TickEnds ==
  /\ phase = "heal" /\ found = <<>>
  /\ phase' = "idle"
  /\ UNCHANGED <<observed, isolated, cursor, found, dirty>>

Tick == TickBegins \/ Detect \/ Detected \/ DetectRaises \/ Heal \/ HealRaises \/ TickEnds

Next ==
  \/ \E a \in Agents, d \in Decisions : Observe(a, d)
  \/ \E a \in Agents : ReleaseAgent(a)
  \/ Tick

\* tick() "deve ser chamado periodicamente", and returns.
Spec == Init /\ [][Next]_vars /\ WF_vars(Tick)
-----------------------------------------------------------------------------
(* Properties *)

\* The windows, the keys and the work of a tick have their types: no window is
\* longer than WindowSize, no anomaly is about an agent without history.
TypeOK ==
  /\ known \in Seq(Agents)
  /\ history \in [Agents -> Seq(Decisions)]
  /\ \A a \in Agents : Len(history[a]) <= WindowSize
  /\ violations \in [Agents -> 0 .. RepeatedThreshold]
  /\ isolated \subseteq Agents
  /\ phase \in {"idle", "detect", "heal"}
  /\ cursor \in 0 .. Len(known)
  /\ found \in Seq(Agents)
  /\ dirty \in BOOLEAN
  /\ blocked \subseteq Agents
  /\ interfered \in BOOLEAN

\* An agent none of whose requests was ever blocked is never isolated, however
\* observations, releases and ticks interleave.
CleanNeverIsolated == isolated \subseteq blocked

\* The inductive invariant behind it: windows, counters and anomalies under way
\* owe every block they speak of to the agent they name.
BlockedInv ==
  /\ \A a \in Agents : a \notin blocked =>
       violations[a] = 0 /\ \A i \in DOMAIN history[a] : history[a][i] # "block"
  /\ \A i \in DOMAIN found : found[i] \in blocked

\* In the modes "suggest" and "ask" nobody is isolated by a tick.
OnlyAutoIsolates == Mode # "auto" => isolated = {}

\* Whoever a tick isolates is suspicious at that very moment, unless another
\* thread has observed or released since the tick began.
IsolationGrounded ==
  [][\A a \in Agents : a \notin isolated /\ a \in isolated' => interfered \/ Suspicious(a)]_vars

\* The inductive invariant behind it: between ticks nothing is left to heal, and
\* what an undisturbed tick has found is still suspicious.
GroundInv ==
  /\ phase = "idle" => found = <<>>
  /\ ~interfered => \A i \in DOMAIN found : Suspicious(found[i])

\* If ticks are completed again and again, a suspicious agent is isolated,
\* unless it stops being suspicious or is released first.
Isolates ==
  []<><<TickEnds>>_vars =>
    \A a \in Agents : Suspicious(a) ~> (a \in isolated \/ ~Suspicious(a))
=============================================================================
