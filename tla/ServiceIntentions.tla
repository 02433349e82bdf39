-------------------------- MODULE ServiceIntentions --------------------------
(***************************************************************************)
(* Who may connect to whom in the mesh: the service intentions that        *)
(* IntentionManager (service_mesh/intentions.py) keeps in Consul, and      *)
(* ensure_intentions of UpstreamManager (service_mesh/upstreams.py), which *)
(* allows the gateway to reach each of its upstreams in turn.              *)
(*                                                                         *)
(* allow() and deny() read an entry, change it and write it back; calls of *)
(* several processes overlap, and any request may fail.  An entry is an    *)
(* action for each name: Consul goes by the name, not by the order.        *)
(***************************************************************************)
EXTENDS Naturals, Sequences

CONSTANTS
  Admins,        \* whoever administers the intentions
  Sources,       \* names of services that open connections
  Star,          \* the name "*"
  Destinations,
  Service,       \* service_name of the upstream configuration
  UpstreamNames, \* its destinations, in order
  AllowLists,    \* what an entry that replaces another may allow
  Misread        \* destinations that have "404" in their name

Names == Sources \cup {Star}

ASSUME IntentionsAssumption ==
  /\ Star \notin Sources /\ Service \in Sources
  /\ UpstreamNames \in Seq(Destinations)
  /\ AllowLists \subseteq SUBSET Sources
  /\ Misread \subseteq Destinations

VARIABLES
  entry,     \* the entry of each destination, in Consul
  pc,        \* where each process is; "ensured": ensure_intentions has returned
  action,    \* what its call says: "allow", "deny", "ensure" or "replace"
  source,    \* of whom
  todo,      \* the destinations still to be read and written, the present one first
  copy,      \* the entry that is going to be written
  stale,     \* history: where Consul no longer has what the call read or wrote
  word       \* history: the last word on a source that no stale copy has undone

local == <<pc, action, source, todo, copy>>
vars  == <<entry, local, stale, word>>

NoEntry   == [n \in Names |-> "unset"]
\* Mutant: the default deny is left to whoever allows.
DenyAllMutant == NoEntry
\* {"Name": "*", "Action": "deny"}
DenyAll   == [NoEntry EXCEPT ![Star] = "deny"]

Init ==
  /\ entry = [d \in Destinations |-> NoEntry]
  /\ pc = [p \in Admins |-> "idle"]
  /\ action = [p \in Admins |-> "none"]
  /\ source = [p \in Admins |-> Service]
  /\ todo = [p \in Admins |-> <<>>]
  /\ copy = [p \in Admins |-> NoEntry]
  /\ stale = [p \in Admins |-> {}]
  /\ word = [d \in Destinations |-> [s \in Sources |-> "none"]]

\* Mutant: a source that is listed keeps the action it has.
AllowedMutant(e, s) ==
  [n \in Names |-> IF n = Star THEN "deny" ELSE IF n = s /\ e[n] = "unset" THEN "allow" ELSE e[n]]
\* allow(): the source is taken out and put first, "*" is taken out and put last.
Allowed(e, s) ==
  [n \in Names |-> IF n = Star THEN "deny" ELSE IF n = s THEN "allow" ELSE e[n]]
\* deny(): "*" is left as it is; without an entry there is a default deny.
Denied(e, s) == [(IF e = NoEntry THEN DenyAll ELSE e) EXCEPT ![s] = "deny"]

Merged(p, e) ==
  IF action[p] = "deny" THEN Denied(e, source[p]) ELSE Allowed(e, source[p])

-----------------------------------------------------------------------------

\* A call begins: it says a of s, on the destinations ds; to is its first step.
Begins(p, a, s, ds, to) ==
  /\ pc[p] \in {"idle", "ensured"}
  /\ pc' = [pc EXCEPT ![p] = to]
  /\ action' = [action EXCEPT ![p] = a]
  /\ source' = [source EXCEPT ![p] = s]
  /\ todo' = [todo EXCEPT ![p] = ds]
  /\ stale' = [stale EXCEPT ![p] = {}]
  /\ UNCHANGED <<entry, word>>

AllowOrDeny(p, a, s, d) == Begins(p, a, s, <<d>>, "get") /\ UNCHANGED copy

EnsureIntentions(p) ==
  /\ UpstreamNames # <<>>
  /\ Begins(p, "ensure", Service, UpstreamNames, "get")
  /\ UNCHANGED copy

\* apply_default_deny_allow, and apply_json_file of a file of that shape: the
\* entry is written without being read.
Replace(p, allowFrom, d) ==
  /\ Begins(p, "replace", Service, <<d>>, "put")
  /\ copy' = [copy EXCEPT ![p] = [n \in Names |-> IF n \in allowFrom THEN "allow" ELSE DenyAll[n]]]

\* get() gave e (no entry: None); is it what Consul has?
Reads(p, e, out) ==
  /\ pc' = [pc EXCEPT ![p] = "put"]
  /\ copy' = [copy EXCEPT ![p] = Merged(p, e)]
  /\ stale' = [stale EXCEPT ![p] = out]
  /\ UNCHANGED <<entry, action, source, todo, word>>

GetAnswers(p) ==
  pc[p] = "get" /\ LET d == Head(todo[p]) IN Reads(p, entry[d], stale[p] \ {d})

\* Any HTTP error carries the path, with the name of the destination in it, and
\* get() takes an error with "404" in its text for an entry that does not exist.
GetMisread(p) ==
  pc[p] = "get" /\ LET d == Head(todo[p]) IN d \in Misread /\ Reads(p, NoEntry, stale[p] \cup {d})

\* The call is over; nothing of it is used again.
Over(p, to) ==
  /\ pc' = [pc EXCEPT ![p] = to]
  /\ action' = [action EXCEPT ![p] = "none"]
  /\ source' = [source EXCEPT ![p] = Service]
  /\ todo' = [todo EXCEPT ![p] = <<>>]
  /\ copy' = [copy EXCEPT ![p] = NoEntry]

\* Consul refuses, or cannot be reached: the error goes up.
RequestFails(p) ==
  /\ pc[p] \in {"get", "put"}
  /\ Over(p, "idle")
  /\ stale' = [stale EXCEPT ![p] = {}]
  /\ UNCHANGED <<entry, word>>

\* The last word on each source of d, now that p writes its copy: p has spoken of
\* its own source (a replacement, of all), and may have undone what others said.
Says(p, d) ==
  [s \in Sources |->
     IF action[p] = "replace" THEN IF copy[p][s] = "unset" THEN "none" ELSE copy[p][s]
     ELSE IF s = source[p] THEN IF action[p] = "deny" THEN "deny" ELSE "allow"
     ELSE IF d \in stale[p] THEN "none" ELSE word[d][s]]

\* Mutant: the loop leaves after the first upstream.
GoesOnMutant(p) == FALSE
GoesOn(p) == Len(todo[p]) > 1

\* The entry is written.  The answer may be lost, or the audit record fail: then
\* the call raises all the same.
PutDone(p) ==
  /\ pc[p] = "put"
  /\ LET d == Head(todo[p]) IN
     /\ entry' = [entry EXCEPT ![d] = copy[p]]
     /\ word' = [word EXCEPT ![d] = Says(p, d)]
     /\ stale' = [q \in Admins |->
                    IF q = p THEN stale[q] \ {d}
                    ELSE IF pc[q] = "idle" THEN {} ELSE stale[q] \cup {d}]
  /\ \/ Over(p, "idle")
     \/ ~GoesOn(p) /\ action[p] = "ensure" /\ Over(p, "ensured")
     \/ GoesOn(p) /\ pc' = [pc EXCEPT ![p] = "get"]
                  /\ todo' = [todo EXCEPT ![p] = Tail(@)] /\ UNCHANGED <<action, source, copy>>

Next ==
  \E p \in Admins :
    \/ \E a \in {"allow", "deny"}, s \in Names, d \in Destinations : AllowOrDeny(p, a, s, d)
    \/ EnsureIntentions(p)
    \/ \E allowFrom \in AllowLists, d \in Destinations : Replace(p, allowFrom, d)
    \/ GetAnswers(p) \/ GetMisread(p) \/ RequestFails(p) \/ PutDone(p)

Spec == Init /\ [][Next]_vars
-----------------------------------------------------------------------------
(* Properties *)

Entries == [Names -> {"allow", "deny", "unset"}]

\* Entries, calls and their copies have their types; a call under way has a
\* destination to go to.
TypeOK ==
  /\ entry \in [Destinations -> Entries]
  /\ pc \in [Admins -> {"idle", "get", "put", "ensured"}]
  /\ action \in [Admins -> {"none", "allow", "deny", "ensure", "replace"}]
  /\ source \in [Admins -> Names]
  /\ todo \in [Admins -> Seq(Destinations)]
  /\ \A p \in Admins : pc[p] \in {"get", "put"} => todo[p] # <<>>
  /\ copy \in [Admins -> Entries]
  /\ stale \in [Admins -> SUBSET Destinations]
  /\ word \in [Destinations -> [Sources -> {"none", "allow", "deny"}]]

\* Every entry ends in a default deny, even after allow("*"), after a denial that
\* created it, and whatever stale copies are written ("default-deny + allow
\* explícito", the module's docstring).
DefaultDeny == \A d \in Destinations : entry[d] # NoEntry => entry[d][Star] = "deny"

\* What was last said of a source is what Consul has, unless somebody has since
\* written an entry read before it was said, or misread: calls on one destination
\* that do not overlap undo nothing of one another, whatever fails.
LastWordHolds ==
  \A d \in Destinations, s \in Sources : word[d][s] # "none" => entry[d][s] = word[d][s]

\* When ensure_intentions returns, the gateway may reach each upstream to which
\* nobody else has written since it did, misread entries and overlapping calls
\* included.
Ensured ==
  \A p \in Admins : pc[p] = "ensured" =>
    \A i \in DOMAIN UpstreamNames :
      UpstreamNames[i] \in stale[p] \/ entry[UpstreamNames[i]][Service] = "allow"
=============================================================================
