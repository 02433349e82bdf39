-------------------------- MODULE ServiceMeshProofs --------------------------
(***************************************************************************)
(* What holds in the mesh for any processes, ids, sources, destinations    *)
(* and upstreams.                                                          *)
(*                                                                         *)
(* Intentions: every entry has its default deny, and the last word on a    *)
(* source holds until a stale copy is written.  Both need to know what a   *)
(* process carries between its read and its write: Grounded says it.       *)
(*                                                                         *)
(* Registrations: what a call said of an id is so.  Kept adds that what is *)
(* relied on is served, so that the agent does not drop it, and has the    *)
(* upstreams of the last call.  Lists of upstreams are edited by position: *)
(* the lemmas on ranks say where each upstream goes.                       *)
(***************************************************************************)
EXTENDS ServiceIntentions, MeshRegistration, FiniteSetTheorems, WellFoundedInduction, TLAPS

\* The word a copy holds on the source of its call.
Said(p) == IF action[p] = "deny" THEN "deny" ELSE "allow"

\* A copy about to be written has the default deny and the word of its call; on
\* the other sources it is what Consul has, or it is known to be stale.
Grounded ==
  \A p \in Admins : pc[p] = "put" =>
    /\ copy[p][Star] = "deny"
    /\ action[p] # "replace" =>
         /\ source[p] \in Sources => copy[p][source[p]] = Said(p)
         /\ Head(todo[p]) \notin stale[p] =>
              \A s \in Sources \ {source[p]} : copy[p][s] = entry[Head(todo[p])][s]

IInv == TypeOK /\ DefaultDeny /\ LastWordHolds /\ Grounded

-----------------------------------------------------------------------------
(* What allow() and deny() make of an entry *)

LEMMA HeadTail ==
  ASSUME NEW s \in Seq(Destinations), s # <<>>
  PROVE  /\ Head(s) \in Destinations /\ Tail(s) \in Seq(Destinations)
         /\ Len(s) > 1 => Tail(s) # <<>>
  OBVIOUS

LEMMA DenyAllIs == NoEntry \in Entries /\ DenyAll \in Entries /\ DenyAll[Star] = "deny"
  BY DEF NoEntry, DenyAll, Entries, Names

\* An entry without a source keeps it as it was: no entry has none.
LEMMA DeniedKeeps ==
  ASSUME NEW e \in Entries, NEW s \in Names, e # NoEntry => e[Star] = "deny"
  PROVE  /\ Denied(e, s) \in Entries
         /\ Denied(e, s)[Star] = "deny" /\ Denied(e, s)[s] = "deny"
         /\ \A t \in Sources \ {s} : Denied(e, s)[t] = e[t]
<1>1. CASE e = NoEntry
  BY <1>1, IntentionsAssumption DEF Denied, DenyAll, NoEntry, Entries, Names
<1>2. CASE e # NoEntry
  BY <1>2, IntentionsAssumption DEF Denied, Entries, Names
<1> QED BY <1>1, <1>2

LEMMA AllowedKeeps ==
  ASSUME NEW e \in Entries, NEW s \in Names
  PROVE  /\ Allowed(e, s) \in Entries
         /\ Allowed(e, s)[Star] = "deny"
         /\ s \in Sources => Allowed(e, s)[s] = "allow"
         /\ \A t \in Sources \ {s} : Allowed(e, s)[t] = e[t]
  BY IntentionsAssumption DEF Allowed, Entries, Names

LEMMA MergedKeeps ==
  ASSUME TypeOK, NEW p \in Admins, NEW e \in Entries, e # NoEntry => e[Star] = "deny"
  PROVE  /\ Merged(p, e) \in Entries
         /\ Merged(p, e)[Star] = "deny"
         /\ source[p] \in Sources => Merged(p, e)[source[p]] = Said(p)
         /\ \A t \in Sources \ {source[p]} : Merged(p, e)[t] = e[t]
<1>1. source[p] \in Names
  BY DEF TypeOK
<1>2. CASE action[p] = "deny"
  BY <1>1, <1>2, DeniedKeeps DEF Merged, Said
<1>3. CASE action[p] # "deny"
  BY <1>1, <1>3, AllowedKeeps DEF Merged, Said
<1> QED BY <1>2, <1>3

-----------------------------------------------------------------------------
(* The steps *)

LEMMA InitHolds == Init => IInv
<1> SUFFICES ASSUME Init PROVE IInv
  OBVIOUS
<1>1. TypeOK
  BY DenyAllIs, IntentionsAssumption DEF Init, TypeOK, Names
<1>2. DefaultDeny /\ LastWordHolds /\ Grounded
  BY DEF Init, DefaultDeny, LastWordHolds, Grounded
<1> QED BY <1>1, <1>2 DEF IInv

LEMMA BeginHolds ==
  ASSUME IInv, NEW p \in Admins,
         NEW a \in {"allow", "deny", "ensure"}, NEW s \in Names,
         NEW ds \in Seq(Destinations), ds # <<>>,
         Begins(p, a, s, ds, "get"), UNCHANGED copy
  PROVE  IInv'
<1>1. TypeOK'
  BY DEF IInv, TypeOK, Begins
<1>2. DefaultDeny' /\ LastWordHolds'
  BY DEF IInv, DefaultDeny, LastWordHolds, Begins
<1>3. Grounded'
  BY DEF IInv, TypeOK, Grounded, Said, Begins
<1> QED BY <1>1, <1>2, <1>3 DEF IInv

LEMMA ReplaceHolds ==
  ASSUME IInv, NEW p \in Admins, NEW allowFrom \in AllowLists, NEW d \in Destinations,
         Replace(p, allowFrom, d)
  PROVE  IInv'
<1> DEFINE e == [n \in Names |-> IF n \in allowFrom THEN "allow" ELSE DenyAll[n]]
<1>1. e \in Entries
  BY DenyAllIs DEF Entries
<1>2. e[Star] = "deny"
  BY DenyAllIs, IntentionsAssumption DEF Names
<1> HIDE DEF e
<1>3. TypeOK'
  BY <1>1, IntentionsAssumption DEF IInv, TypeOK, Replace, Begins, e, Names
<1>4. DefaultDeny' /\ LastWordHolds'
  BY DEF IInv, DefaultDeny, LastWordHolds, Replace, Begins
<1>5. Grounded'
  <2>1. copy' = [copy EXCEPT ![p] = e] /\ action' = [action EXCEPT ![p] = "replace"]
    BY DEF Replace, Begins, e
  <2>2. ASSUME NEW q \in Admins \ {p}
        PROVE  /\ pc'[q] = pc[q] /\ copy'[q] = copy[q] /\ action'[q] = action[q]
               /\ source'[q] = source[q] /\ todo'[q] = todo[q] /\ stale'[q] = stale[q]
    BY DEF IInv, TypeOK, Replace, Begins
  <2>3. entry' = entry
    BY DEF Replace, Begins
  <2> QED BY <2>1, <2>2, <2>3, <1>2 DEF IInv, TypeOK, Grounded, Said
<1> QED BY <1>3, <1>4, <1>5 DEF IInv

\* What was read is what Consul has, or the copy is known to be stale.
LEMMA ReadHolds ==
  ASSUME IInv, NEW p \in Admins, pc[p] = "get",
         NEW e \in Entries, e # NoEntry => e[Star] = "deny",
         NEW out \in SUBSET Destinations,
         Head(todo[p]) \notin out => e = entry[Head(todo[p])],
         Reads(p, e, out)
  PROVE  IInv'
<1>1. /\ Merged(p, e) \in Entries
      /\ Merged(p, e)[Star] = "deny"
      /\ source[p] \in Sources => Merged(p, e)[source[p]] = Said(p)
      /\ \A t \in Sources \ {source[p]} : Merged(p, e)[t] = e[t]
  BY MergedKeeps DEF IInv
<1>2. TypeOK'
  BY <1>1 DEF IInv, TypeOK, Reads
<1>3. DefaultDeny' /\ LastWordHolds'
  BY DEF IInv, DefaultDeny, LastWordHolds, Reads
<1>4. Grounded'
  <2>1. /\ copy'[p] = Merged(p, e) /\ stale'[p] = out
        /\ \A q \in Admins \ {p} :
             pc'[q] = pc[q] /\ copy'[q] = copy[q] /\ stale'[q] = stale[q]
        /\ UNCHANGED <<entry, action, source, todo>>
    BY DEF IInv, TypeOK, Reads
  <2> QED BY <2>1, <1>1 DEF IInv, Grounded, Said
<1> QED BY <1>2, <1>3, <1>4 DEF IInv

LEMMA FailHolds ==
  ASSUME IInv, NEW p \in Admins, RequestFails(p)
  PROVE  IInv'
<1>1. TypeOK'
  BY DenyAllIs, IntentionsAssumption DEF IInv, TypeOK, RequestFails, Over, Names
<1>2. DefaultDeny' /\ LastWordHolds'
  BY DEF IInv, DefaultDeny, LastWordHolds, RequestFails, Over
<1>3. Grounded'
  BY DEF IInv, TypeOK, Grounded, Said, RequestFails, Over
<1> QED BY <1>1, <1>2, <1>3 DEF IInv

LEMMA PutHolds ==
  ASSUME IInv, NEW p \in Admins, PutDone(p)
  PROVE  IInv'
<1> DEFINE d == Head(todo[p])
<1> USE DEF IInv
<1>1. d \in Destinations /\ Tail(todo[p]) \in Seq(Destinations)
      /\ (Len(todo[p]) > 1 => Tail(todo[p]) # <<>>)
  BY HeadTail DEF TypeOK, PutDone
<1>2. copy[p] \in Entries /\ copy[p][Star] = "deny"
  BY DEF TypeOK, Grounded, PutDone
<1>3. /\ entry' = [entry EXCEPT ![d] = copy[p]] /\ word' = [word EXCEPT ![d] = Says(p, d)]
      /\ \A q \in Admins \ {p} :
           /\ pc'[q] = pc[q] /\ copy'[q] = copy[q] /\ action'[q] = action[q]
           /\ source'[q] = source[q] /\ todo'[q] = todo[q]
           /\ pc[q] = "put" => stale'[q] = stale[q] \cup {d}
      /\ pc'[p] # "put"
  BY DEF TypeOK, PutDone, Over
<1>4. Says(p, d) \in [Sources -> {"none", "allow", "deny"}]
  BY <1>1, <1>2 DEF TypeOK, Says, Entries, Names
<1>5. TypeOK'
  <2>1. entry' \in [Destinations -> Entries]
        /\ word' \in [Destinations -> [Sources -> {"none", "allow", "deny"}]]
    BY <1>1, <1>2, <1>3, <1>4 DEF TypeOK
  <2>2. stale' \in [Admins -> SUBSET Destinations]
    BY <1>1 DEF TypeOK, PutDone
  <2>3. ASSUME NEW to \in {"idle", "ensured"}, Over(p, to) PROVE TypeOK'
    <3>1. pc' = [pc EXCEPT ![p] = to] /\ action' = [action EXCEPT ![p] = "none"]
          /\ source' = [source EXCEPT ![p] = Service] /\ todo' = [todo EXCEPT ![p] = <<>>]
          /\ copy' = [copy EXCEPT ![p] = NoEntry]
      BY <2>3 DEF Over
    <3>2. NoEntry \in Entries /\ Service \in Names
      BY DenyAllIs, IntentionsAssumption DEF Names
    <3>3. /\ pc' \in [Admins -> {"idle", "get", "put", "ensured"}]
          /\ action' \in [Admins -> {"none", "allow", "deny", "ensure", "replace"}]
          /\ source' \in [Admins -> Names] /\ copy' \in [Admins -> Entries]
          /\ todo' \in [Admins -> Seq(Destinations)]
      BY <3>1, <3>2 DEF TypeOK
    <3>4. \A q \in Admins : pc'[q] \in {"get", "put"} => todo'[q] # <<>>
      BY <3>1 DEF TypeOK
    <3> QED BY <2>1, <2>2, <3>3, <3>4 DEF TypeOK
  <2>4. CASE /\ GoesOn(p) /\ pc' = [pc EXCEPT ![p] = "get"]
             /\ todo' = [todo EXCEPT ![p] = Tail(@)] /\ UNCHANGED <<action, source, copy>>
    BY <2>1, <2>2, <2>4, <1>1 DEF TypeOK, GoesOn
  <2> QED BY <2>3, <2>4 DEF PutDone
<1>6. DefaultDeny'
  BY <1>1, <1>2, <1>3 DEF TypeOK, DefaultDeny
<1>7. LastWordHolds'
  <2> SUFFICES ASSUME NEW s \in Sources, Says(p, d)[s] # "none"
               PROVE  copy[p][s] = Says(p, d)[s]
    BY <1>1, <1>3 DEF TypeOK, LastWordHolds
  <2>1. CASE action[p] = "replace"
    BY <2>1 DEF Says
  <2>2. CASE action[p] # "replace" /\ s = source[p]
    BY <2>2 DEF Says, Said, Grounded, PutDone
  <2>3. CASE action[p] # "replace" /\ s # source[p]
    BY <2>3, <1>1 DEF Says, Grounded, LastWordHolds, PutDone
  <2> QED BY <2>1, <2>2, <2>3
<1>8. Grounded'
  BY <1>1, <1>3 DEF TypeOK, Grounded, Said
<1> QED BY <1>5, <1>6, <1>7, <1>8

LEMMA StepHolds == IInv /\ [Next]_vars => IInv'
<1> SUFFICES ASSUME IInv, [Next]_vars PROVE IInv'
  OBVIOUS
<1>1. CASE UNCHANGED vars
  BY <1>1 DEF vars, local, IInv, TypeOK, DefaultDeny, LastWordHolds, Grounded, Said
<1>2. ASSUME NEW p \in Admins, NEW a \in {"allow", "deny"}, NEW s \in Names,
             NEW d \in Destinations, AllowOrDeny(p, a, s, d)
      PROVE  IInv'
  <2>1. <<d>> \in Seq(Destinations) /\ <<d>> # <<>>
    OBVIOUS
  <2> QED BY <1>2, <2>1, BeginHolds DEF AllowOrDeny
<1>3. ASSUME NEW p \in Admins, EnsureIntentions(p) PROVE IInv'
  BY <1>3, BeginHolds, IntentionsAssumption DEF EnsureIntentions, Names
<1>4. ASSUME NEW p \in Admins, NEW allowFrom \in AllowLists, NEW d \in Destinations,
             Replace(p, allowFrom, d)
      PROVE  IInv'
  BY <1>4, ReplaceHolds
<1>5. ASSUME NEW p \in Admins, GetAnswers(p) PROVE IInv'
  <2> DEFINE d == Head(todo[p])
  <2>1. pc[p] = "get" /\ Reads(p, entry[d], stale[p] \ {d})
    BY <1>5 DEF GetAnswers
  <2>2. d \in Destinations /\ stale[p] \ {d} \in SUBSET Destinations
    BY <2>1, HeadTail DEF IInv, TypeOK
  <2>3. entry[d] \in Entries /\ (entry[d] # NoEntry => entry[d][Star] = "deny")
    BY <2>2 DEF IInv, TypeOK, DefaultDeny
  <2> QED BY <2>1, <2>2, <2>3, ReadHolds
<1>6. ASSUME NEW p \in Admins, GetMisread(p) PROVE IInv'
  <2> DEFINE d == Head(todo[p])
  <2>1. pc[p] = "get" /\ Reads(p, NoEntry, stale[p] \cup {d})
    BY <1>6 DEF GetMisread
  <2>2. d \in Destinations /\ stale[p] \cup {d} \in SUBSET Destinations
    BY <2>1, HeadTail DEF IInv, TypeOK
  <2> QED BY <2>1, <2>2, ReadHolds, DenyAllIs
<1>7. ASSUME NEW p \in Admins, RequestFails(p) PROVE IInv'
  BY <1>7, FailHolds
<1>8. ASSUME NEW p \in Admins, PutDone(p) PROVE IInv'
  BY <1>8, PutHolds
<1> QED BY <1>1, <1>2, <1>3, <1>4, <1>5, <1>6, <1>7, <1>8 DEF Next

-----------------------------------------------------------------------------
(* How far ensure_intentions is *)

\* The upstreams that ensure_intentions has been through.
Behind(p) == Len(UpstreamNames) - Len(todo[p])

\* The gateway may reach u, or somebody has written to u since.
Open(p, u) == u \in stale[p] \/ entry[u][Service] = "allow"

\* What is left is the end of the list; the upstreams before it are open, except
\* one that is about to be written again.
Progress ==
  \A p \in Admins : action[p] = "ensure" /\ pc[p] \in {"get", "put"} =>
    /\ source[p] = Service
    /\ Behind(p) \in Nat
    /\ \A k \in 1..Len(todo[p]) : todo[p][k] = UpstreamNames[Behind(p) + k]
    /\ \A i \in 1..Behind(p) :
         Open(p, UpstreamNames[i]) \/ (pc[p] = "put" /\ UpstreamNames[i] = Head(todo[p]))

EInv == IInv /\ Progress /\ Ensured

\* A step that leaves Consul alone, of a process other than p or of p itself.
LEMMA ElsewhereHolds ==
  ASSUME EInv, NEW p \in Admins, UNCHANGED entry,
         \A q \in Admins \ {p} :
           /\ pc'[q] = pc[q] /\ action'[q] = action[q] /\ source'[q] = source[q]
           /\ todo'[q] = todo[q] /\ stale'[q] = stale[q],
         pc'[p] # "ensured",
         pc'[p] \in {"get", "put"} /\ action'[p] = "ensure" =>
           /\ source'[p] = Service
           /\ Behind(p)' \in Nat
           /\ \A k \in 1..Len(todo'[p]) : todo'[p][k] = UpstreamNames[Behind(p)' + k]
           /\ \A i \in 1..Behind(p)' :
                Open(p, UpstreamNames[i])' \/ (pc'[p] = "put" /\ UpstreamNames[i] = Head(todo'[p]))
  PROVE  Progress' /\ Ensured'
<1>1. Progress'
  <2> SUFFICES ASSUME NEW q \in Admins, action'[q] = "ensure", pc'[q] \in {"get", "put"}
               PROVE  /\ source'[q] = Service
                      /\ Behind(q)' \in Nat
                      /\ \A k \in 1..Len(todo'[q]) : todo'[q][k] = UpstreamNames[Behind(q)' + k]
                      /\ \A i \in 1..Behind(q)' :
                           Open(q, UpstreamNames[i])'
                             \/ (pc'[q] = "put" /\ UpstreamNames[i] = Head(todo'[q]))
    BY DEF Progress
  <2>1. CASE q = p
    BY <2>1
  <2>2. CASE q # p
    <3>1. Behind(q)' = Behind(q) /\ \A u : Open(q, u)' <=> Open(q, u)
      BY <2>2 DEF Behind, Open
    <3> QED BY <3>1, <2>2 DEF EInv, Progress
  <2> QED BY <2>1, <2>2
<1>2. Ensured'
  BY DEF EInv, Ensured
<1> QED BY <1>1, <1>2

\* The calls that begin, the entries read and the errors.
LEMMA OthersEnsure ==
  ASSUME EInv, NEW p \in Admins,
         \/ \E a \in {"allow", "deny"}, s \in Names, d \in Destinations : AllowOrDeny(p, a, s, d)
         \/ EnsureIntentions(p)
         \/ \E allowFrom \in AllowLists, d \in Destinations : Replace(p, allowFrom, d)
         \/ RequestFails(p)
  PROVE  Progress' /\ Ensured'
<1>1. /\ UNCHANGED entry
      /\ \A q \in Admins \ {p} :
           /\ pc'[q] = pc[q] /\ action'[q] = action[q] /\ source'[q] = source[q]
           /\ todo'[q] = todo[q] /\ stale'[q] = stale[q]
  BY DEF EInv, IInv, TypeOK, AllowOrDeny, EnsureIntentions, Replace, Begins, RequestFails, Over
<1>2. CASE EnsureIntentions(p)
  <2>1. /\ pc'[p] = "get" /\ source'[p] = Service /\ todo'[p] = UpstreamNames
    BY <1>2 DEF EInv, IInv, TypeOK, EnsureIntentions, Begins
  <2>2. Behind(p)' = 0
    BY <2>1, IntentionsAssumption DEF Behind
  <2> QED BY <1>1, <2>1, <2>2, ElsewhereHolds, IntentionsAssumption
<1>3. CASE ~EnsureIntentions(p)
  <2>1. pc'[p] # "ensured" /\ (pc'[p] = "idle" \/ action'[p] # "ensure")
    BY <1>3 DEF EInv, IInv, TypeOK, AllowOrDeny, Replace, Begins, RequestFails, Over
  <2> QED BY <1>1, <2>1, ElsewhereHolds
<1> QED BY <1>2, <1>3

LEMMA ReadEnsures ==
  ASSUME EInv, NEW p \in Admins, GetAnswers(p) \/ GetMisread(p)
  PROVE  Progress' /\ Ensured'
<1> DEFINE d == Head(todo[p])
<1>1. /\ UNCHANGED <<entry, action, source, todo>>
      /\ pc[p] = "get" /\ pc'[p] = "put"
      /\ \A q \in Admins \ {p} : pc'[q] = pc[q] /\ stale'[q] = stale[q]
      /\ stale[p] \ {d} \subseteq stale'[p]
  BY DEF EInv, IInv, TypeOK, GetAnswers, GetMisread, Reads
<1>2. Behind(p)' = Behind(p)
  BY <1>1 DEF Behind
<1>3. ASSUME action[p] = "ensure"
      PROVE  /\ source[p] = Service
             /\ Behind(p) \in Nat
             /\ \A k \in 1..Len(todo[p]) : todo[p][k] = UpstreamNames[Behind(p) + k]
             /\ \A i \in 1..Behind(p) : Open(p, UpstreamNames[i])
  BY <1>1, <1>3 DEF EInv, Progress
<1>4. ASSUME action[p] = "ensure"
      PROVE  \A i \in 1..Behind(p) : Open(p, UpstreamNames[i])' \/ UpstreamNames[i] = d
  BY <1>1, <1>3, <1>4 DEF Open
<1>5. pc'[p] \in {"get", "put"} /\ action'[p] = "ensure" =>
        /\ source'[p] = Service
        /\ Behind(p)' \in Nat
        /\ \A k \in 1..Len(todo'[p]) : todo'[p][k] = UpstreamNames[Behind(p)' + k]
        /\ \A i \in 1..Behind(p)' :
             Open(p, UpstreamNames[i])' \/ (pc'[p] = "put" /\ UpstreamNames[i] = Head(todo'[p]))
  <2> SUFFICES ASSUME action'[p] = "ensure"
               PROVE  /\ source'[p] = Service
                      /\ Behind(p)' \in Nat
                      /\ \A k \in 1..Len(todo'[p]) : todo'[p][k] = UpstreamNames[Behind(p)' + k]
                      /\ \A i \in 1..Behind(p)' :
                           Open(p, UpstreamNames[i])'
                             \/ (pc'[p] = "put" /\ UpstreamNames[i] = Head(todo'[p]))
    OBVIOUS
  <2>1. action[p] = "ensure" /\ source'[p] = source[p] /\ todo'[p] = todo[p]
    BY <1>1
  <2>2. \A i \in 1..Behind(p)' :
          Open(p, UpstreamNames[i])' \/ (pc'[p] = "put" /\ UpstreamNames[i] = Head(todo'[p]))
    BY <1>1, <1>2, <1>4, <2>1 DEF Open
  <2>3. \A k \in 1..Len(todo'[p]) : todo'[p][k] = UpstreamNames[Behind(p)' + k]
    BY <1>2, <1>3, <2>1
  <2>4. source'[p] = Service /\ Behind(p)' \in Nat
    BY <1>2, <1>3, <2>1
  <2> QED BY <2>2, <2>3, <2>4
<1> QED BY <1>1, <1>5, ElsewhereHolds

\* p writes to d: whoever was through d sees it as stale, p has it open.
LEMMA PutEnsures ==
  ASSUME EInv, NEW p \in Admins, PutDone(p)
  PROVE  Progress' /\ Ensured'
<1>1. PICK d \in Destinations : d = Head(todo[p])
  BY HeadTail DEF EInv, IInv, TypeOK, PutDone
<1>2. /\ entry' = [entry EXCEPT ![d] = copy[p]]
      /\ \A q \in Admins \ {p} :
           /\ pc'[q] = pc[q] /\ action'[q] = action[q] /\ source'[q] = source[q]
           /\ todo'[q] = todo[q]
           /\ pc[q] # "idle" => stale'[q] = stale[q] \cup {d}
      /\ stale'[p] = stale[p] \ {d}
  BY <1>1 DEF EInv, IInv, TypeOK, PutDone, Over
<1>3. \A u \in Destinations \ {d} : entry'[u] = entry[u]
  BY <1>2 DEF EInv, IInv, TypeOK
<1>4. ASSUME NEW q \in Admins \ {p}, pc[q] # "idle",
             NEW u \in Destinations, Open(q, u)
      PROVE  Open(q, u)'
  BY <1>2, <1>3, <1>4 DEF Open
<1>5. ASSUME action[p] = "ensure"
      PROVE  /\ Behind(p) \in Nat /\ Behind(p) + 1 \in DOMAIN UpstreamNames
             /\ d = UpstreamNames[Behind(p) + 1]
             /\ \A i \in 1..(Behind(p) + 1) : Open(p, UpstreamNames[i])'
  <2>1. /\ pc[p] = "put" /\ source[p] = Service /\ Behind(p) \in Nat
        /\ \A k \in 1..Len(todo[p]) : todo[p][k] = UpstreamNames[Behind(p) + k]
        /\ \A i \in 1..Behind(p) : Open(p, UpstreamNames[i]) \/ UpstreamNames[i] = d
    BY <1>1, <1>5 DEF EInv, Progress, PutDone
  <2>2. Len(todo[p]) \in Nat /\ Len(todo[p]) >= 1 /\ d = todo[p][1]
    BY <1>1, <2>1 DEF EInv, IInv, TypeOK
  <2>3. Len(UpstreamNames) \in Nat /\ DOMAIN UpstreamNames = 1..Len(UpstreamNames)
    BY IntentionsAssumption
  <2>4. Behind(p) + 1 \in 1..Len(UpstreamNames)
    BY <2>1, <2>2, <2>3 DEF Behind
  <2>5. d = UpstreamNames[Behind(p) + 1]
    BY <2>1, <2>2
  <2>6. copy[p][Service] = "allow"
    BY <1>5, <2>1, IntentionsAssumption DEF EInv, IInv, Grounded, Said
  <2>7. Open(p, d)'
    BY <1>1, <1>2, <2>6 DEF Open, EInv, IInv, TypeOK
  <2>8. ASSUME NEW i \in 1..Behind(p) PROVE Open(p, UpstreamNames[i])'
    <3>1. CASE UpstreamNames[i] = d
      BY <3>1, <2>7
    <3>2. CASE UpstreamNames[i] # d
      <4>1. UpstreamNames[i] \in Destinations
        BY <2>1, <2>3, <2>4, IntentionsAssumption
      <4> QED BY <3>2, <4>1, <2>1, <1>2, <1>3 DEF Open
    <3> QED BY <3>1, <3>2
  <2>9. ASSUME NEW i \in 1..(Behind(p) + 1) PROVE Open(p, UpstreamNames[i])'
    <3>1. i \in 1..Behind(p) \/ i = Behind(p) + 1
      BY <2>1
    <3> QED BY <3>1, <2>5, <2>7, <2>8
  <2> QED BY <2>1, <2>3, <2>4, <2>5, <2>9
<1>6. Progress'
  <2> SUFFICES ASSUME NEW q \in Admins, action'[q] = "ensure", pc'[q] \in {"get", "put"}
               PROVE  /\ source'[q] = Service
                      /\ Behind(q)' \in Nat
                      /\ \A k \in 1..Len(todo'[q]) : todo'[q][k] = UpstreamNames[Behind(q)' + k]
                      /\ \A i \in 1..Behind(q)' :
                           Open(q, UpstreamNames[i])'
                             \/ (pc'[q] = "put" /\ UpstreamNames[i] = Head(todo'[q]))
    BY DEF Progress
  <2>1. CASE q = p
    <3>1. /\ GoesOn(p) /\ pc[p] = "put" /\ action[p] = "ensure"
          /\ todo'[p] = Tail(todo[p]) /\ source'[p] = source[p]
      BY <2>1 DEF EInv, IInv, TypeOK, PutDone, Over
    <3>2. source[p] = Service
          /\ \A k \in 1..Len(todo[p]) : todo[p][k] = UpstreamNames[Behind(p) + k]
      BY <3>1 DEF EInv, Progress
    <3>3. /\ Len(todo[p]) \in Nat /\ Len(todo[p]) > 1 /\ Len(todo'[p]) = Len(todo[p]) - 1
          /\ \A k \in 1..Len(todo'[p]) : todo'[p][k] = todo[p][k + 1]
      BY <3>1 DEF EInv, IInv, TypeOK, GoesOn
    <3>4. Len(UpstreamNames) \in Nat
      BY IntentionsAssumption
    <3>5. Behind(p)' = Behind(p) + 1
      BY <3>3, <3>4 DEF Behind
    <3>6. \A k \in 1..Len(todo'[p]) : todo'[p][k] = UpstreamNames[Behind(p)' + k]
      <4> TAKE k \in 1..Len(todo'[p])
      <4>1. k + 1 \in 1..Len(todo[p]) /\ Behind(p) + (k + 1) = Behind(p)' + k
        BY <3>1, <3>3, <3>5, <1>5
      <4> QED BY <4>1, <3>2, <3>3
    <3>7. Behind(p)' \in Nat /\ \A i \in 1..Behind(p)' : Open(p, UpstreamNames[i])'
      BY <3>1, <3>5, <1>5
    <3>8. source'[p] = Service
      BY <3>1, <3>2
    <3> QED BY <2>1, <3>6, <3>7, <3>8 DEF Open
  <2>2. CASE q # p
    <3>1. Behind(q)' = Behind(q)
      BY <2>2, <1>2 DEF Behind
    <3>2. /\ source[q] = Service /\ Behind(q) \in Nat
          /\ \A k \in 1..Len(todo[q]) : todo[q][k] = UpstreamNames[Behind(q) + k]
          /\ \A i \in 1..Behind(q) :
               Open(q, UpstreamNames[i]) \/ (pc[q] = "put" /\ UpstreamNames[i] = Head(todo[q]))
      BY <2>2, <1>2 DEF EInv, Progress
    <3>3. \A i \in 1..Behind(q) : UpstreamNames[i] \in Destinations
      BY <3>2, IntentionsAssumption DEF Behind, EInv, IInv, TypeOK
    <3> QED BY <2>2, <1>2, <1>4, <3>1, <3>2, <3>3
  <2> QED BY <2>1, <2>2
<1>7. Ensured'
  <2> SUFFICES ASSUME NEW q \in Admins, pc'[q] = "ensured", NEW i \in DOMAIN UpstreamNames
               PROVE  Open(q, UpstreamNames[i])'
    BY DEF Ensured, Open
  <2>1. UpstreamNames[i] \in Destinations /\ i \in 1..Len(UpstreamNames) /\ Len(UpstreamNames) \in Nat
    BY IntentionsAssumption
  <2>2. CASE q = p
    <3>1. ~GoesOn(p) /\ action[p] = "ensure" /\ pc[p] = "put"
      BY <2>2 DEF EInv, IInv, TypeOK, PutDone, Over
    <3>2. Len(todo[p]) = 1
      <4> DEFINE n == Len(todo[p])
      <4>1. todo[p] \in Seq(Destinations) /\ todo[p] # <<>>
        BY <3>1 DEF EInv, IInv, TypeOK
      <4>2. n \in Nat /\ n # 0
        BY <4>1
      <4>3. ~(n > 1)
        BY <3>1 DEF GoesOn
      <4> HIDE DEF n
      <4>4. n = 1
        BY <4>2, <4>3
      <4> QED BY <4>4 DEF n
    <3>3. Behind(p) + 1 = Len(UpstreamNames)
      BY <2>1, <3>2 DEF Behind
    <3> QED BY <2>1, <2>2, <3>1, <3>3, <1>5
  <2>3. CASE q # p
    <3>1. pc[q] = "ensured" /\ Open(q, UpstreamNames[i])
      BY <2>3, <1>2 DEF EInv, Ensured, Open
    <3> QED BY <3>1, <2>1, <2>3, <1>4
  <2> QED BY <2>2, <2>3
<1> QED BY <1>6, <1>7

LEMMA EnsureInductive == Spec => []EInv
<1>1. Init => EInv
  BY InitHolds DEF Init, EInv, Progress, Ensured
<1>2. EInv /\ [Next]_vars => EInv'
  <2> SUFFICES ASSUME EInv, [Next]_vars PROVE EInv'
    OBVIOUS
  <2>1. IInv'
    BY StepHolds DEF EInv
  <2>2. Progress' /\ Ensured'
    <3>1. CASE UNCHANGED vars
      BY <3>1 DEF vars, local, EInv, Progress, Behind, Open, Ensured
    <3>2. CASE Next
      BY <3>2, OthersEnsure, ReadEnsures, PutEnsures DEF Next
    <3> QED BY <3>1, <3>2
  <2> QED BY <2>1, <2>2 DEF EInv
<1> QED BY <1>1, <1>2, PTL DEF Spec

-----------------------------------------------------------------------------
(* The theorems *)

LEMMA Inductive == Spec => []IInv
  BY InitHolds, StepHolds, PTL DEF Spec

\* Whatever the calls, entries and copies keep their types, and a call under way
\* has a destination to go to.
THEOREM IntentionTypes == Spec => []TypeOK
  BY Inductive, PTL DEF IInv

\* Every entry that exists ends in a default deny, however many processes write
\* stale copies over one another.
THEOREM AlwaysDefaultDeny == Spec => []DefaultDeny
  BY Inductive, PTL DEF IInv

\* The last word on a source is what Consul has, until somebody writes an entry
\* that was read before it was said, or misread.
THEOREM NothingElseUndoes == Spec => []LastWordHolds
  BY Inductive, PTL DEF IInv

\* ensure_intentions returns only when the gateway may reach every upstream that
\* nobody else has written to since, for any list of upstreams.
THEOREM EnsureReaches == Spec => []Ensured
  BY EnsureInductive, PTL DEF EInv

-----------------------------------------------------------------------------
(* Editing a list of upstreams *)

\* How many of S are not above i; the k-th of S is the one of rank k.
Rank(S, i) == Cardinality({j \in S : j <= i})

\* A set of naturals that is not empty has a least element.
LEMMA LeastElement ==
  ASSUME NEW S, S \subseteq Nat, S # {}
  PROVE  \E i \in S : \A j \in S : i <= j
<1> DEFINE R == OpToRel(<, Nat)
<1>1. IsWellFoundedOn(R, Nat)
  BY NatLessThanWellFounded
<1>2. \A x, y \in Nat : y < x => <<y, x>> \in R
  BY DEF OpToRel
<1> HIDE DEF R
<1>3. PICK i \in S : \A j \in S : ~(<<j, i>> \in R)
  BY <1>1, WFMin
<1>4. i \in Nat /\ \A j \in S : j \in Nat /\ ~(j < i)
  BY <1>2, <1>3, Zenon
<1>5. \A j \in S : i <= j
  BY <1>4
<1> QED BY <1>5

\* Positions in a list are finitely many.
LEMMA PositionsFinite ==
  ASSUME NEW n \in Nat, NEW S \in SUBSET (1 .. n)
  PROVE  IsFiniteSet(S) /\ Cardinality(S) \in Nat /\ S \in SUBSET Nat
<1>1. IsFiniteSet(1 .. n)
  BY FS_Interval
<1>2. IsFiniteSet(S)
  BY <1>1, FS_Subset
<1>3. Cardinality(S) \in Nat
  BY <1>2, FS_CardinalityType
<1> QED BY <1>2, <1>3

\* A rank is at most the number of elements.
LEMMA RankType ==
  ASSUME NEW S, IsFiniteSet(S), NEW i
  PROVE  /\ IsFiniteSet({j \in S : j <= i})
         /\ Rank(S, i) \in Nat /\ Rank(S, i) <= Cardinality(S)
<1>1. {j \in S : j <= i} \in SUBSET S
  OBVIOUS
<1>2. IsFiniteSet({j \in S : j <= i}) /\ Rank(S, i) <= Cardinality(S)
  BY <1>1, FS_Subset DEF Rank
<1> QED BY <1>2, FS_CardinalityType DEF Rank

\* An element has a higher rank than whatever is below it.
LEMMA RankGrows ==
  ASSUME NEW S \in SUBSET Nat, IsFiniteSet(S), NEW i \in Nat, NEW j \in S, i < j
  PROVE  Rank(S, i) < Rank(S, j)
<1> DEFINE low == {k \in S : k <= i}
           high == {k \in S : k <= j}
<1>1. IsFiniteSet(low) /\ IsFiniteSet(high)
  BY RankType
<1>2. j \notin low /\ low \cup {j} \in SUBSET high
  <2>1. j \in Nat /\ ~(j <= i) /\ \A k \in S : k <= i => k <= j
    OBVIOUS
  <2>2. j <= j
    BY <2>1
  <2> QED BY <2>1, <2>2, Zenon
<1>3. Cardinality(low \cup {j}) = Cardinality(low) + 1
  BY <1>1, <1>2, FS_AddElement
<1>4. Cardinality(low \cup {j}) <= Cardinality(high)
  BY <1>1, <1>2, FS_Subset
<1>5. Cardinality(low) \in Nat /\ Cardinality(high) \in Nat
  BY <1>1, FS_CardinalityType
<1>6. Cardinality(low) < Cardinality(high)
  BY <1>3, <1>4, <1>5
<1> QED BY <1>6 DEF Rank

\* There is a k-th element.
LEMMA NthIs ==
  ASSUME NEW n \in Nat, NEW S \in SUBSET (1 .. n), NEW k \in 1 .. Cardinality(S)
  PROVE  Nth(S, k) \in S /\ Rank(S, Nth(S, k)) = k
<1>1. IsFiniteSet(S) /\ Cardinality(S) \in Nat
  BY PositionsFinite
<1> DEFINE A == {i \in Nat : Rank(S, i) >= k}
<1>2. \A i \in Nat : Rank(S, i) \in Nat
  BY <1>1, RankType
<1>3. n \in A
  <2>1. \A j \in S : j <= n
    OBVIOUS
  <2>2. {j \in S : j <= n} = S
    BY <2>1, Zenon
  <2>3. Rank(S, n) >= k
    BY <1>1, <2>2 DEF Rank
  <2> QED BY <2>3
<1>4. PICK m \in A : \A i \in A : m <= i
  BY <1>3, LeastElement
<1>5. m # 0
  <2>1. \A j \in S : ~(j <= 0)
    OBVIOUS
  <2>2. {j \in S : j <= 0} = {}
    BY <2>1, Zenon
  <2>3. Rank(S, 0) = 0
    BY <2>2, FS_EmptySet DEF Rank
  <2> QED BY <1>4, <2>3
<1>6. m - 1 \in Nat /\ Rank(S, m - 1) < k
  BY <1>2, <1>4, <1>5
<1>7. m \in Nat /\ Rank(S, m) >= k /\ \A j \in S : j <= m <=> j <= m - 1 \/ j = m
  BY <1>4
<1>8. m \in S
  <2> SUFFICES ASSUME m \notin S PROVE FALSE
    OBVIOUS
  <2>1. {j \in S : j <= m} = {j \in S : j <= m - 1}
    BY <1>7, Zenon
  <2> QED BY <1>2, <1>6, <1>7, <2>1 DEF Rank
<1>9. Rank(S, m) = Rank(S, m - 1) + 1
  <2> DEFINE low == {j \in S : j <= m - 1}
  <2>1. {j \in S : j <= m} = low \cup {m}
    BY <1>7, <1>8, Zenon
  <2>2. ~(m <= m - 1)
    BY <1>7
  <2>3. m \notin low
    BY <2>2
  <2>4. IsFiniteSet(low)
    BY <1>1, RankType
  <2> QED BY <2>1, <2>3, <2>4, FS_AddElement DEF Rank
<1>10. Rank(S, m) = k
  BY <1>2, <1>6, <1>7, <1>9
<1>11. \E i \in S : Cardinality({j \in S : j <= i}) = k
  BY <1>8, <1>10 DEF Rank
<1> QED BY <1>11 DEF Nth, Rank

\* The element of rank k is the k-th.
LEMMA NthOfRank ==
  ASSUME NEW n \in Nat, NEW S \in SUBSET (1 .. n), NEW i \in S
  PROVE  Rank(S, i) \in 1 .. Cardinality(S) /\ Nth(S, Rank(S, i)) = i
<1>1. IsFiniteSet(S) /\ Cardinality(S) \in Nat /\ S \in SUBSET Nat
  BY PositionsFinite
<1>2. Rank(S, i) \in Nat /\ Rank(S, i) <= Cardinality(S)
  BY <1>1, RankType
<1>3. Rank(S, 0) \in Nat /\ Rank(S, 0) < Rank(S, i)
  <2>1. 0 \in Nat /\ 0 < i
    OBVIOUS
  <2> QED BY <1>1, <2>1, RankType, RankGrows
<1>4. Rank(S, i) \in 1 .. Cardinality(S)
  BY <1>1, <1>2, <1>3
<1>5. Nth(S, Rank(S, i)) \in S /\ Rank(S, Nth(S, Rank(S, i))) = Rank(S, i)
  BY <1>4, NthIs
<1>6. \A x, y \in S : Rank(S, x) = Rank(S, y) => x = y
  <2> SUFFICES ASSUME NEW x \in S, NEW y \in S, Rank(S, x) = Rank(S, y) PROVE x = y
    OBVIOUS
  <2>1. Rank(S, x) \in Nat /\ Rank(S, y) \in Nat
    BY <1>1, RankType
  <2>2. ~(x < y) /\ ~(y < x)
    BY <1>1, <2>1, RankGrows
  <2> QED BY <1>1, <2>2
<1> QED BY <1>4, <1>5, <1>6

\* What is kept are the upstreams to other destinations, each at its rank.
LEMMA WithoutIs ==
  ASSUME NEW cfg \in Lists, NEW d
  PROVE  /\ Without(cfg, d) \in Lists
         /\ Len(Without(cfg, d)) = Cardinality(Others(cfg, d))
         /\ \A k \in 1 .. Cardinality(Others(cfg, d)) :
              /\ Nth(Others(cfg, d), k) \in Others(cfg, d)
              /\ Without(cfg, d)[k] = cfg[Nth(Others(cfg, d), k)]
<1> DEFINE S == Others(cfg, d)
<1>1. Len(cfg) \in Nat /\ S \in SUBSET (1 .. Len(cfg))
  BY DEF Lists, Others
<1>2. \A i \in S : cfg[i] \in Upstreams
  BY <1>1 DEF Lists
<1>3. Cardinality(S) \in Nat /\ \A k \in 1 .. Cardinality(S) : Nth(S, k) \in S
  BY <1>1, PositionsFinite, NthIs
<1> HIDE DEF S
<1>4. Without(cfg, d) = [k \in 1 .. Cardinality(S) |-> cfg[Nth(S, k)]]
  BY MeshAssumption DEF Without, S
<1>5. /\ Without(cfg, d) \in Seq(Upstreams)
      /\ Len(Without(cfg, d)) = Cardinality(S)
  BY <1>2, <1>3, <1>4
<1> QED BY <1>3, <1>4, <1>5 DEF S, Lists

\* Editing keeps lists, with or without a configuration.
LEMMA EditsKeepLists ==
  ASSUME NEW cfg \in Lists \cup {None}, NEW d, NEW u \in Upstreams
  PROVE  Without(cfg, d) \in Lists /\ Added(cfg, u) \in Lists
<1>1. \A e : Without(cfg, e) \in Lists
  <2>1. CASE cfg \in Lists
    BY <2>1, WithoutIs
  <2>2. CASE cfg = None
    BY <2>2 DEF Without, Lists
  <2> QED BY <2>1, <2>2
<1> QED BY <1>1 DEF Added, Lists

\* get_local_endpoint gives the first upstream to the destination, if there is one.
LEMMA EndpointIs ==
  ASSUME NEW cfg \in Lists, NEW i \in DOMAIN cfg,
         \A j \in DOMAIN cfg : cfg[j].to = cfg[i].to => i <= j
  PROVE  Endpoint(cfg, cfg[i].to) = cfg[i]
<1> DEFINE to == {j \in DOMAIN cfg : cfg[j].to = cfg[i].to}
<1>1. DOMAIN cfg = 1 .. Len(cfg) /\ Len(cfg) \in Nat
  BY DEF Lists
<1>2. i \in to /\ \A j \in to : i <= j
  OBVIOUS
<1>3. \A k \in to : (\A j \in to : k <= j) => k = i
  BY <1>1, <1>2
<1> QED BY <1>2, <1>3, Zenon DEF Endpoint

\* An upstream to a destination has a first one.
LEMMA FirstTo ==
  ASSUME NEW cfg \in Lists, NEW k \in DOMAIN cfg
  PROVE  \E i \in DOMAIN cfg :
           cfg[i].to = cfg[k].to /\ \A j \in DOMAIN cfg : cfg[j].to = cfg[k].to => i <= j
<1> DEFINE to == {j \in DOMAIN cfg : cfg[j].to = cfg[k].to}
<1>1. to \subseteq Nat /\ to # {}
  BY DEF Lists
<1>2. PICK i \in to : \A j \in to : i <= j
  BY <1>1, LeastElement
<1> QED BY <1>2

\* An endpoint is one of the list, and leads to the destination asked for.
LEMMA EndpointOfList ==
  ASSUME NEW cfg \in Lists, NEW k \in DOMAIN cfg
  PROVE  \E i \in DOMAIN cfg : Endpoint(cfg, cfg[k].to) = cfg[i] /\ cfg[i].to = cfg[k].to
<1>1. PICK i \in DOMAIN cfg :
        cfg[i].to = cfg[k].to /\ \A j \in DOMAIN cfg : cfg[j].to = cfg[k].to => i <= j
  BY FirstTo
<1>2. Endpoint(cfg, cfg[i].to) = cfg[i]
  BY <1>1, EndpointIs
<1> QED BY <1>1, <1>2

\* Removing the upstreams to one destination leaves none to it, and every other
\* destination where it was: get_local_endpoint gives the same upstream.
THEOREM RemovedLeavesOthers ==
  ASSUME NEW cfg \in Lists, NEW d
  PROVE  /\ \A k \in DOMAIN Without(cfg, d) : Without(cfg, d)[k].to # d
         /\ \A i \in DOMAIN cfg :
              cfg[i].to # d => /\ \E k \in DOMAIN Without(cfg, d) : Without(cfg, d)[k] = cfg[i]
                               /\ Endpoint(Without(cfg, d), cfg[i].to) = Endpoint(cfg, cfg[i].to)
<1> DEFINE S == Others(cfg, d)
           w == Without(cfg, d)
<1>1. DOMAIN cfg = 1 .. Len(cfg) /\ Len(cfg) \in Nat /\ S \in SUBSET (1 .. Len(cfg))
  BY DEF Lists, Others
<1>2. IsFiniteSet(S) /\ S \in SUBSET Nat
  BY <1>1, PositionsFinite
<1>3. /\ w \in Lists /\ DOMAIN w = 1 .. Cardinality(S)
      /\ \A k \in DOMAIN w : Nth(S, k) \in S /\ w[k] = cfg[Nth(S, k)]
  <2>1. DOMAIN w = 1 .. Len(w) /\ Len(w) = Cardinality(S)
    BY WithoutIs DEF Lists
  <2> QED BY <2>1, WithoutIs
<1>4. \A i \in S : Rank(S, i) \in DOMAIN w /\ Nth(S, Rank(S, i)) = i /\ w[Rank(S, i)] = cfg[i]
  BY <1>1, <1>3, NthOfRank
<1>5. \A k \in DOMAIN w : Rank(S, Nth(S, k)) = k
  BY <1>1, <1>3, NthIs
<1>6. \A i \in DOMAIN cfg : i \in S <=> cfg[i].to # d
  BY DEF Others
<1> HIDE DEF S, w
<1>7. ASSUME NEW i \in DOMAIN cfg, cfg[i].to # d
      PROVE  Endpoint(w, cfg[i].to) = Endpoint(cfg, cfg[i].to)
  <2>1. PICK f \in DOMAIN cfg :
          cfg[f].to = cfg[i].to /\ \A j \in DOMAIN cfg : cfg[j].to = cfg[i].to => f <= j
    BY FirstTo
  <2>2. f \in S /\ Rank(S, f) \in DOMAIN w /\ w[Rank(S, f)] = cfg[f]
    BY <1>4, <1>6, <1>7, <2>1
  <2>3. ASSUME NEW k \in DOMAIN w, w[k].to = cfg[i].to PROVE Rank(S, f) <= k
    <3> DEFINE n == Nth(S, k)
    <3>1. n \in S /\ n \in DOMAIN cfg /\ cfg[n].to = cfg[i].to /\ Rank(S, n) = k
      BY <1>1, <1>3, <1>5, <2>3
    <3>2. f <= n
      BY <2>1, <3>1
    <3> HIDE DEF n
    <3>3. f \in Nat /\ n \in Nat /\ Rank(S, f) \in Nat /\ Rank(S, n) \in Nat
      BY <1>2, <2>2, <3>1, RankType
    <3>4. CASE f = n
      BY <3>1, <3>3, <3>4
    <3>5. CASE f < n
      BY <1>2, <3>1, <3>3, <3>5, RankGrows
    <3> QED BY <3>2, <3>3, <3>4, <3>5
  <2>4. Endpoint(w, w[Rank(S, f)].to) = w[Rank(S, f)]
    BY <1>3, <2>1, <2>2, <2>3, EndpointIs
  <2>5. Endpoint(cfg, cfg[f].to) = cfg[f]
    BY <2>1, EndpointIs
  <2> QED BY <2>1, <2>2, <2>4, <2>5
<1>8. \A k \in DOMAIN w : w[k].to # d
  BY <1>1, <1>3, <1>6
<1>9. \A i \in DOMAIN cfg : cfg[i].to # d => \E k \in DOMAIN w : w[k] = cfg[i]
  BY <1>4, <1>6
<1> QED BY <1>7, <1>8, <1>9 DEF w

\* Appending an upstream to a destination that has none adds its endpoint and
\* moves no other.
LEMMA AppendedEndpoints ==
  ASSUME NEW w \in Lists, NEW u \in Upstreams, \A k \in DOMAIN w : w[k].to # u.to
  PROVE  /\ Endpoint(Append(w, u), u.to) = u
         /\ \A k \in DOMAIN w : Endpoint(Append(w, u), w[k].to) = Endpoint(w, w[k].to)
<1> DEFINE a == Append(w, u)
<1>1. /\ DOMAIN w = 1 .. Len(w) /\ Len(w) \in Nat
      /\ a \in Lists /\ DOMAIN a = 1 .. Len(w) + 1
      /\ a[Len(w) + 1] = u /\ \A k \in DOMAIN w : a[k] = w[k]
  BY DEF Lists
<1> HIDE DEF a
<1>2. Endpoint(a, u.to) = u
  <2>1. \A j \in DOMAIN a : a[j].to = u.to => Len(w) + 1 <= j
    BY <1>1
  <2> QED BY <1>1, <2>1, EndpointIs
<1>3. ASSUME NEW k \in DOMAIN w PROVE Endpoint(a, w[k].to) = Endpoint(w, w[k].to)
  <2>1. PICK f \in DOMAIN w :
          w[f].to = w[k].to /\ \A j \in DOMAIN w : w[j].to = w[k].to => f <= j
    BY FirstTo
  <2>2. f \in DOMAIN a /\ a[f] = w[f] /\ \A j \in DOMAIN a : a[j].to = a[f].to => f <= j
    BY <1>1, <2>1
  <2>3. Endpoint(a, a[f].to) = a[f] /\ Endpoint(w, w[f].to) = w[f]
    BY <1>1, <2>1, <2>2, EndpointIs
  <2> QED BY <2>1, <2>2, <2>3
<1> QED BY <1>2, <1>3 DEF a

\* add() serves the upstream that is added, the only one to its destination, and
\* every other destination stays where it was.
THEOREM AddedServes ==
  ASSUME NEW cfg \in Lists, NEW u \in Upstreams
  PROVE  /\ \A k \in DOMAIN Added(cfg, u) : Added(cfg, u)[k].to = u.to => Added(cfg, u)[k] = u
         /\ Endpoint(Added(cfg, u), u.to) = u
         /\ \A i \in DOMAIN cfg :
              cfg[i].to # u.to => Endpoint(Added(cfg, u), cfg[i].to) = Endpoint(cfg, cfg[i].to)
<1> DEFINE w == Without(cfg, u.to)
<1>1. w \in Lists /\ \A k \in DOMAIN w : w[k].to # u.to
  BY EditsKeepLists, RemovedLeavesOthers
<1>2. \A i \in DOMAIN cfg :
        cfg[i].to # u.to => /\ \E k \in DOMAIN w : w[k] = cfg[i]
                            /\ Endpoint(w, cfg[i].to) = Endpoint(cfg, cfg[i].to)
  BY RemovedLeavesOthers
<1>3. Added(cfg, u) = Append(w, u)
  BY DEF Added
<1> HIDE DEF w
<1>4. /\ Endpoint(Append(w, u), u.to) = u
      /\ \A k \in DOMAIN w : Endpoint(Append(w, u), w[k].to) = Endpoint(w, w[k].to)
  BY <1>1, AppendedEndpoints
<1>5. \A k \in DOMAIN Append(w, u) : Append(w, u)[k].to = u.to => Append(w, u)[k] = u
  BY <1>1 DEF Lists
<1>6. ASSUME NEW i \in DOMAIN cfg, cfg[i].to # u.to
      PROVE  Endpoint(Append(w, u), cfg[i].to) = Endpoint(cfg, cfg[i].to)
  <2>1. PICK k \in DOMAIN w : w[k] = cfg[i]
    BY <1>2, <1>6
  <2> QED BY <1>2, <1>4, <1>6, <2>1
<1> QED BY <1>3, <1>4, <1>5, <1>6

-----------------------------------------------------------------------------
(* Registrations: types *)

LEMMA OwnIdsAreIds == \A p \in Processes : OwnIds(p) \subseteq Ids
  BY MeshAssumption DEF OwnIds

LEMMA MeshTypeInit == MeshInit => MeshTypeOK
  BY DEF MeshInit, MeshTypeOK, Nothing

\* A request for a registration, whatever becomes of it.
LEMMA PutTypes ==
  ASSUME MeshTypeOK, NEW p \in Processes, NEW i \in Ids, NEW list \in Lists,
         NEW cfg \in Lists \cup {None}, Put(p, i, list, cfg)
  PROVE  MeshTypeOK'
<1>1. \A x \in Answers[p] : [by |-> p, check |-> Checked(x), upstreams |-> list] \in Registrations
  BY MeshAssumption DEF Checked, Registrations
<1>2. agent' \in [Ids -> Registrations \cup {None}]
  BY <1>1 DEF MeshTypeOK, Put
<1>3. registered' \in [Processes -> Ids \cup {None}]
  BY DEF MeshTypeOK, Put, Registered
<1>4. applied' \in [Processes -> Lists \cup {None}]
  BY DEF MeshTypeOK, Put, Registered, Raised
<1>5. relies' \in [Processes -> [Ids -> {"there", "gone", "nothing"}]]
  BY DEF MeshTypeOK, Put, Registered, Raised
<1> QED BY <1>2, <1>3, <1>4, <1>5 DEF MeshTypeOK, Put

LEMMA EditTypes ==
  ASSUME MeshTypeOK, NEW p \in Processes, NEW cfg \in Lists, Edits(p, cfg)
  PROVE  MeshTypeOK'
  BY DEF MeshTypeOK, Edits

LEMMA DeregisterTypes ==
  ASSUME MeshTypeOK, NEW p \in Processes, NEW i \in Ids, Deregister(p, i)
  PROVE  MeshTypeOK'
<1>1. agent' \in [Ids -> Registrations \cup {None}] /\ passing' \subseteq Ids
  BY DEF MeshTypeOK, Deregister, Target
<1>2. registered' \in [Processes -> Ids \cup {None}]
  BY DEF MeshTypeOK, Deregister
<1>3. applied' \in [Processes -> Lists \cup {None}]
  BY DEF MeshTypeOK, Deregister, Raised
<1>4. relies' \in [Processes -> [Ids -> {"there", "gone", "nothing"}]]
  <2>1. CASE Raised(p, i)
    BY <2>1 DEF MeshTypeOK, Raised
  <2>2. CASE relies' = [relies EXCEPT ![p][i] = "gone"]
    BY <2>2 DEF MeshTypeOK
  <2> QED BY <2>1, <2>2 DEF Deregister
<1> QED BY <1>1, <1>2, <1>3, <1>4 DEF MeshTypeOK, Deregister

LEMMA MeshTypeStep == MeshTypeOK /\ [MeshNext]_meshVars => MeshTypeOK'
<1> SUFFICES ASSUME MeshTypeOK, [MeshNext]_meshVars PROVE MeshTypeOK'
  OBVIOUS
<1>1. CASE UNCHANGED meshVars
  BY <1>1 DEF meshVars, process, MeshTypeOK
<1>2. ASSUME NEW p \in Processes, Start(p) \/ Stop(p) \/ Hang(p) \/ Wake(p) PROVE MeshTypeOK'
  <2>1. Nothing \in [Ids -> {"there", "gone", "nothing"}]
    BY DEF Nothing
  <2> QED BY <1>2, <2>1 DEF MeshTypeOK, Start, Stop, Hang, Wake
<1>3. ASSUME NEW p \in Processes, Register(p) PROVE MeshTypeOK'
  <2>1. RegisterId[p] \in Ids /\ <<>> \in Lists
    BY MeshAssumption DEF Lists
  <2> QED BY <1>3, <2>1, PutTypes DEF Register
<1>4. ASSUME NEW p \in Processes, NEW i \in OwnIds(p), Deregister(p, i) PROVE MeshTypeOK'
  BY <1>4, OwnIdsAreIds, DeregisterTypes
<1>5. ASSUME NEW p \in Managers, LoadYaml(p) \/ Add(p) \/ Remove(p) PROVE MeshTypeOK'
  <2>1. p \in Processes /\ config[p] \in Lists \cup {None}
    BY MeshAssumption DEF MeshTypeOK
  <2>2. CASE LoadYaml(p)
    BY <2>1, <2>2, MeshAssumption, EditTypes DEF LoadYaml
  <2>3. CASE Add(p)
    BY <2>1, <2>3, EditsKeepLists, EditTypes DEF Add
  <2>4. ASSUME NEW d \in DestinationNames, Edits(p, Without(config[p], d)) PROVE MeshTypeOK'
    <3>1. Without(config[p], d) \in Lists
      <4>1. CASE config[p] = None
        BY <4>1 DEF Without, Lists
      <4>2. CASE config[p] \in Lists
        BY <4>2, WithoutIs
      <4> QED BY <2>1, <4>1, <4>2
    <3> QED BY <2>1, <2>4, <3>1, EditTypes
  <2> QED BY <1>5, <2>2, <2>3, <2>4 DEF Remove
<1>6. ASSUME NEW p \in Managers, Apply(p) PROVE MeshTypeOK'
  <2>1. PICK cfg \in Files \cup {config[p]}, i \in ApplyIds[p] : cfg # None /\ Put(p, i, cfg, cfg)
    BY <1>6 DEF Apply
  <2>2. p \in Processes /\ i \in Ids /\ cfg \in Lists
    BY <2>1, MeshAssumption DEF MeshTypeOK
  <2> QED BY <2>1, <2>2, PutTypes
<1>7. ASSUME NEW i \in Ids, Check(i) \/ Reap(i) PROVE MeshTypeOK'
  BY <1>7 DEF MeshTypeOK, Check, Reap, process
<1> QED BY <1>1, <1>2, <1>3, <1>4, <1>5, <1>6, <1>7 DEF MeshNext

\* Type correctness: whatever fails, the agent holds whole registrations, and the
\* lists edited in memory are lists of upstreams.
THEOREM MeshTypes == MeshSpec => []MeshTypeOK
<1> QED BY MeshTypeInit, MeshTypeStep, PTL DEF MeshSpec

-----------------------------------------------------------------------------
(* Registrations: what the calls said *)

\* No two processes register under the same id.
NoSharedIds == \A p, q \in Processes : p # q => OwnIds(p) \cap OwnIds(q) = {}

\* What p relies on for its id i: a registration that is there is its own, is
\* served, and has the upstreams of the last call, if that was the one; what is
\* gone is not there, nor remembered.
KeptAt(p, i) ==
  /\ relies[p][i] = "there" =>
       /\ state[p] = "up"
       /\ agent[i] # None /\ agent[i].by = p /\ agent[i].check \in Answers[p]
       /\ registered[p] = i /\ applied[p] # None => agent[i].upstreams = applied[p]
  /\ relies[p][i] = "gone" => agent[i] = None /\ registered[p] # i

Kept == \A p \in Processes : \A i \in OwnIds(p) : KeptAt(p, i)

\* deregister() without an id goes to one of the process's own.
Remembered == \A p \in Processes : registered[p] \in OwnIds(p) \cup {None}

MeshInv == MeshTypeOK /\ Remembered /\ Kept

LEMMA MeshInvInit == MeshInit => MeshInv
<1> SUFFICES ASSUME MeshInit PROVE MeshInv
  OBVIOUS
<1>1. Remembered /\ Kept
  BY OwnIdsAreIds DEF MeshInit, Nothing, Remembered, Kept, KeptAt
<1> QED BY <1>1, MeshTypeInit DEF MeshInv

\* A step that leaves what p remembers alone, and the agent at p's ids, disturbs
\* nothing of what p relies on.
LEMMA KeptElsewhere ==
  ASSUME NEW p \in Processes, NEW i \in OwnIds(p), KeptAt(p, i),
         agent'[i] = agent[i], state'[p] = state[p], registered'[p] = registered[p],
         applied'[p] = applied[p], relies'[p][i] = relies[p][i]
  PROVE  KeptAt(p, i)'
  BY DEF KeptAt

\* A request for a registration: the others keep theirs, since they share no id
\* with p, and p's other ids are not remembered any more, or as they were.
LEMMA PutKept ==
  ASSUME NoSharedIds, MeshInv, NEW p \in Processes, NEW i \in OwnIds(p),
         NEW list \in Lists, NEW cfg \in Lists \cup {None}, cfg # None => list = cfg,
         Put(p, i, list, cfg)
  PROVE  Remembered' /\ Kept'
<1> USE DEF MeshInv
<1>1. /\ p \in Processes /\ i \in Ids /\ i # None
      /\ agent \in [Ids -> Registrations \cup {None}]
      /\ registered \in [Processes -> Ids \cup {None}]
      /\ applied \in [Processes -> Lists \cup {None}]
      /\ relies \in [Processes -> [Ids -> {"there", "gone", "nothing"}]]
      /\ \A q \in Processes : OwnIds(q) \subseteq Ids
  BY OwnIdsAreIds, MeshAssumption DEF MeshTypeOK
<1>2. state[p] = "up" /\ state' = state
  BY DEF Put
<1>3. ASSUME NEW q \in Processes \ {p}
      PROVE  /\ registered'[q] = registered[q] /\ applied'[q] = applied[q]
             /\ relies'[q] = relies[q] /\ i \notin OwnIds(q)
  BY <1>1 DEF Put, Registered, Raised, NoSharedIds
<1>4. ASSUME NEW j \in Ids \ {i} PROVE agent'[j] = agent[j] /\ relies'[p][j] = relies[p][j]
  BY <1>1 DEF Put, Registered, Raised
<1>5. /\ registered'[p] \in {registered[p], i}
      /\ applied'[p] \in {cfg, None}
      /\ relies'[p][i] \in {"there", "nothing"}
      /\ relies'[p][i] = "there" => registered'[p] = i
      /\ registered'[p] = i /\ applied'[p] # None => relies'[p][i] = "there"
  BY <1>1 DEF Put, Registered, Raised
<1>6. relies'[p][i] = "there" =>
        /\ agent'[i] # None /\ agent'[i].by = p /\ agent'[i].check \in Answers[p]
        /\ agent'[i].upstreams = list
  <2>1. CASE Raised(p, i)
    BY <1>1, <2>1 DEF Raised
  <2>2. ASSUME NEW x \in Answers[p],
               agent' = [agent EXCEPT ![i] = [by |-> p, check |-> Checked(x), upstreams |-> list]]
        PROVE  /\ agent'[i] # None /\ agent'[i].by = p /\ agent'[i].check \in Answers[p]
               /\ agent'[i].upstreams = list
    <3>1. [by |-> p, check |-> x, upstreams |-> list] \in Registrations
      BY MeshAssumption DEF Registrations
    <3> QED BY <1>1, <2>2, <3>1, MeshAssumption DEF Checked
  <2> QED BY <2>1, <2>2 DEF Put
<1>7. Remembered'
  BY <1>1, <1>3, <1>5 DEF Remembered
<1>8. ASSUME NEW q \in Processes \ {p}, NEW j \in OwnIds(q) PROVE KeptAt(q, j)'
  BY <1>1, <1>2, <1>3, <1>4, <1>8, KeptElsewhere DEF Kept
<1>9. KeptAt(p, i)'
  BY <1>2, <1>5, <1>6 DEF KeptAt
<1>10. ASSUME NEW j \in OwnIds(p), j # i PROVE KeptAt(p, j)'
  <2>1. KeptAt(p, j) /\ agent'[j] = agent[j] /\ relies'[p][j] = relies[p][j]
    BY <1>1, <1>4, <1>10 DEF Kept
  <2>2. registered'[p] = j => registered[p] = j
    BY <1>5, <1>10
  <2>3. registered'[p] = j /\ applied'[p] # None => applied'[p] = applied[p]
    BY <1>1, <1>5, <1>10 DEF Put, Registered, Raised
  <2> QED BY <1>2, <2>1, <2>2, <2>3 DEF KeptAt
<1> QED BY <1>7, <1>8, <1>9, <1>10 DEF Kept

LEMMA DeregisterKept ==
  ASSUME NoSharedIds, MeshInv, NEW p \in Processes, NEW i \in OwnIds(p), Deregister(p, i)
  PROVE  Remembered' /\ Kept'
<1> USE DEF MeshInv
<1>1. /\ i \in Ids /\ i # None
      /\ agent \in [Ids -> Registrations \cup {None}]
      /\ registered \in [Processes -> Ids \cup {None}]
      /\ applied \in [Processes -> Lists \cup {None}]
      /\ relies \in [Processes -> [Ids -> {"there", "gone", "nothing"}]]
      /\ \A q \in Processes : OwnIds(q) \subseteq Ids
  BY OwnIdsAreIds, MeshAssumption DEF MeshTypeOK
<1>2. state[p] = "up" /\ state' = state
  BY DEF Deregister
<1>3. ASSUME NEW q \in Processes \ {p}
      PROVE  /\ registered'[q] = registered[q] /\ applied'[q] = applied[q]
             /\ relies'[q] = relies[q] /\ i \notin OwnIds(q)
  BY <1>1 DEF Deregister, Raised, NoSharedIds
<1>4. ASSUME NEW j \in Ids \ {i} PROVE agent'[j] = agent[j] /\ relies'[p][j] = relies[p][j]
  BY <1>1 DEF Deregister, Raised, Target
<1>5. /\ registered'[p] \in {registered[p], None}
      /\ applied'[p] \in {applied[p], None}
      /\ relies'[p][i] \in {"gone", "nothing"}
  BY <1>1 DEF Deregister, Raised
<1>6. relies'[p][i] = "gone" => agent'[i] = None /\ registered'[p] # i
  BY <1>1 DEF Deregister, Raised, Target
<1>7. Remembered'
  BY <1>1, <1>3, <1>5 DEF Remembered
<1>8. ASSUME NEW q \in Processes \ {p}, NEW j \in OwnIds(q) PROVE KeptAt(q, j)'
  BY <1>1, <1>2, <1>3, <1>4, <1>8, KeptElsewhere DEF Kept
<1>9. KeptAt(p, i)'
  BY <1>5, <1>6 DEF KeptAt
<1>10. ASSUME NEW j \in OwnIds(p), j # i PROVE KeptAt(p, j)'
  <2>1. KeptAt(p, j) /\ agent'[j] = agent[j] /\ relies'[p][j] = relies[p][j] /\ j # None
    BY <1>1, <1>4, <1>10, MeshAssumption DEF Kept
  <2> QED BY <1>2, <1>5, <2>1 DEF KeptAt
<1> QED BY <1>7, <1>8, <1>9, <1>10 DEF Kept

\* A process starts, ends, hangs or wakes: it relies on nothing then, or does not
\* change what it relies on.
LEMMA ProcessKept ==
  ASSUME MeshInv, NEW p \in Processes, Start(p) \/ Stop(p) \/ Hang(p) \/ Wake(p)
  PROVE  Remembered' /\ Kept'
<1> USE DEF MeshInv
<1>1. /\ agent' = agent /\ \A q \in Processes : OwnIds(q) \subseteq Ids
      /\ \A q \in Processes \ {p} : /\ state'[q] = state[q] /\ registered'[q] = registered[q]
                                    /\ applied'[q] = applied[q] /\ relies'[q] = relies[q]
  BY OwnIdsAreIds DEF MeshTypeOK, Start, Stop, Hang, Wake
<1>2. Remembered'
  BY DEF MeshTypeOK, Remembered, Start, Stop, Hang, Wake
<1>3. ASSUME NEW q \in Processes \ {p}, NEW j \in OwnIds(q) PROVE KeptAt(q, j)'
  BY <1>1, <1>3, KeptElsewhere DEF Kept
<1>4. ASSUME NEW j \in OwnIds(p) PROVE KeptAt(p, j)'
  <2>1. KeptAt(p, j) /\ j \in Ids
    BY <1>1, <1>4 DEF Kept
  <2>2. CASE Stop(p) \/ Hang(p)
    <3>1. relies'[p][j] = "nothing"
      BY <2>1, <2>2 DEF MeshTypeOK, Stop, Hang, Nothing
    <3> QED BY <3>1 DEF KeptAt
  <2>3. CASE Start(p) \/ Wake(p)
    <3>1. state[p] # "up" /\ UNCHANGED <<agent, registered, applied, relies>>
      BY <2>3 DEF Start, Wake
    <3> QED BY <2>1, <3>1 DEF KeptAt
  <2> QED BY <2>2, <2>3
<1> QED BY <1>2, <1>3, <1>4 DEF Kept

\* A registration that somebody relies on is served, so that the agent keeps it.
LEMMA AgentKept ==
  ASSUME MeshInv, NEW i \in Ids, Check(i) \/ Reap(i)
  PROVE  Remembered' /\ Kept'
<1> USE DEF MeshInv
<1>1. UNCHANGED process
  BY DEF Check, Reap
<1>2. Remembered'
  BY <1>1 DEF process, Remembered
<1>3. ASSUME NEW p \in Processes, NEW j \in OwnIds(p) PROVE KeptAt(p, j)'
  <2>1. KeptAt(p, j)
    BY <1>3 DEF Kept
  <2>2. agent' = agent \/ (~Served(i) /\ agent' = [agent EXCEPT ![i] = None])
    BY DEF Check, Reap
  <2>3. relies[p][j] = "there" => Served(j)
    BY <2>1 DEF KeptAt, Served
  <2>4. relies[p][j] = "there" => agent'[j] = agent[j]
    BY <2>2, <2>3, OwnIdsAreIds DEF MeshTypeOK
  <2>5. agent[j] = None => agent'[j] = None
    BY <2>2, OwnIdsAreIds DEF MeshTypeOK
  <2> QED BY <1>1, <2>1, <2>4, <2>5 DEF process, KeptAt
<1> QED BY <1>2, <1>3 DEF Kept

LEMMA MeshInvStep == NoSharedIds /\ MeshInv /\ [MeshNext]_meshVars => MeshInv'
<1> SUFFICES ASSUME NoSharedIds, MeshInv, [MeshNext]_meshVars PROVE Remembered' /\ Kept'
  BY MeshTypeStep DEF MeshInv
<1>1. ASSUME UNCHANGED <<agent, state, registered, applied, relies>> PROVE Remembered' /\ Kept'
  BY <1>1 DEF MeshInv, Remembered, Kept, KeptAt
<1>2. CASE UNCHANGED meshVars
  BY <1>1, <1>2 DEF meshVars, process
<1>3. ASSUME NEW p \in Processes, Start(p) \/ Stop(p) \/ Hang(p) \/ Wake(p)
      PROVE  Remembered' /\ Kept'
  BY <1>3, ProcessKept
<1>4. ASSUME NEW p \in Processes, Register(p) PROVE Remembered' /\ Kept'
  <2>1. RegisterId[p] \in OwnIds(p) /\ <<>> \in Lists
    BY DEF OwnIds, Lists
  <2> QED BY <1>4, <2>1, PutKept DEF Register
<1>5. ASSUME NEW p \in Processes, NEW i \in OwnIds(p), Deregister(p, i)
      PROVE  Remembered' /\ Kept'
  BY <1>5, DeregisterKept
<1>6. ASSUME NEW p \in Managers, LoadYaml(p) \/ Add(p) \/ Remove(p) PROVE Remembered' /\ Kept'
  BY <1>1, <1>6 DEF LoadYaml, Add, Remove, Edits
<1>7. ASSUME NEW p \in Managers, Apply(p) PROVE Remembered' /\ Kept'
  <2>1. PICK cfg \in Files \cup {config[p]}, i \in ApplyIds[p] : cfg # None /\ Put(p, i, cfg, cfg)
    BY <1>7 DEF Apply
  <2>2. p \in Processes /\ i \in OwnIds(p) /\ cfg \in Lists
    BY <2>1, MeshAssumption DEF MeshInv, MeshTypeOK, OwnIds
  <2> QED BY <2>1, <2>2, PutKept
<1>8. ASSUME NEW i \in Ids, Check(i) \/ Reap(i) PROVE Remembered' /\ Kept'
  BY <1>8, AgentKept
<1> QED BY <1>2, <1>3, <1>4, <1>5, <1>6, <1>7, <1>8 DEF MeshNext

\* What a process relies on is kept, as the inductive invariant.
THEOREM RegistrationsKept == ASSUME NoSharedIds PROVE MeshSpec => []MeshInv
<1> QED BY NoSharedIds, MeshInvInit, MeshInvStep, PTL DEF MeshSpec

\* What a call that returned said of an id stays so, until one on it raises or
\* the process no longer answers, whatever requests of others are lost.
THEOREM AgentAlwaysAgrees == ASSUME NoSharedIds PROVE MeshSpec => []AgentAgrees
<1>1. MeshInv => AgentAgrees
  BY DEF MeshInv, Kept, KeptAt, AgentAgrees
<1> QED BY <1>1, RegistrationsKept, PTL

\* Where the upstreams in memory are those applied last, the sidecar forwards
\* each address that get_local_endpoint gives.
THEOREM EndpointsAlwaysServed == ASSUME NoSharedIds PROVE MeshSpec => []EndpointsServed
<1>1. MeshInv => EndpointsServed
  <2> SUFFICES ASSUME MeshInv, NEW p \in Processes,
                      registered[p] # None, relies[p][registered[p]] = "there",
                      config[p] # None, applied[p] = config[p], NEW k \in DOMAIN config[p]
               PROVE  \E j \in DOMAIN agent[registered[p]].upstreams :
                        agent[registered[p]].upstreams[j] = Endpoint(config[p], config[p][k].to)
    BY DEF EndpointsServed
  <2>1. registered[p] \in OwnIds(p)
    BY DEF MeshInv, Remembered
  <2>2. agent[registered[p]].upstreams = config[p]
    BY <2>1 DEF MeshInv, Kept, KeptAt
  <2>3. config[p] \in Lists
    BY DEF MeshInv, MeshTypeOK
  <2> QED BY <2>2, <2>3, EndpointOfList
<1> QED BY <1>1, RegistrationsKept, PTL
=============================================================================
