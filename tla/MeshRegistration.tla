-------------------------- MODULE MeshRegistration --------------------------
(***************************************************************************)
(* What the local Consul agent knows of the application: the registrations *)
(* that ConsulMeshClient (service_mesh/consul.py) and apply of             *)
(* UpstreamManager (service_mesh/upstreams.py) write, the id they remember *)
(* to remove it, the upstreams edited in memory, and discover().           *)
(*                                                                         *)
(* Both write the whole registration: what one call leaves out is gone.    *)
(* Any request may fail before or after it took effect; processes start,   *)
(* hang and end without a word, and lose what they remembered.  The agent  *)
(* is external: it checks /health and drops what stays critical.           *)
(***************************************************************************)
EXTENDS Naturals, Sequences, FiniteSets

CONSTANTS
  Processes,
  Managers,     \* those that have an UpstreamManager
  Ids, Addresses,
  RegisterId,   \* the id of register_ventura_service: CONSUL_SERVICE_ID, or of the hostname
  ApplyIds,     \* those of apply: service_id, or one for each address _local_ip may give
  Answers,      \* where each process, while it runs, answers /health
  Upstreams, DestinationNames,
  Files,        \* lists of upstreams: what a YAML file, or a caller of apply, may give
  None

Lists == Seq(Upstreams)
Registrations == [by : Processes, check : Addresses, upstreams : Lists]

ASSUME MeshAssumption ==
  /\ Managers \subseteq Processes
  /\ RegisterId \in [Processes -> Ids] /\ ApplyIds \in [Managers -> SUBSET Ids]
  /\ Answers \in [Processes -> SUBSET Addresses]
  /\ \A u \in Upstreams : u.to \in DestinationNames
  /\ Files \subseteq Lists
  /\ None \notin Ids /\ None \notin Lists /\ None \notin Registrations

VARIABLES
  agent,       \* the registration under each id: who wrote it, where it is checked, upstreams
  passing,     \* the ids whose last check passed
  state,       \* of each process: "down", "up" or "hung"
  registered,  \* _registered_id
  config,      \* _config of the UpstreamManager
  applied,     \* history: the upstreams of the registering call that returned last
  relies       \* history: what calls that returned say of each id: "there" or "gone"

process == <<state, registered, config, applied, relies>>
meshVars    == <<agent, passing, process>>

OwnIds(p) == {RegisterId[p]} \cup (IF p \in Managers THEN ApplyIds[p] ELSE {})
Nothing   == [i \in Ids |-> "nothing"]

MeshInit ==
  /\ agent = [i \in Ids |-> None]
  /\ passing = {}
  /\ state = [p \in Processes |-> "down"]
  /\ registered = [p \in Processes |-> None]
  /\ config = [p \in Processes |-> None]
  /\ applied = [p \in Processes |-> None]
  /\ relies = [p \in Processes |-> Nothing]

-----------------------------------------------------------------------------
(* Processes *)

Start(p) ==
  /\ state[p] = "down"
  /\ state' = [state EXCEPT ![p] = "up"]
  /\ UNCHANGED <<agent, passing, registered, config, applied, relies>>

\* It ends without deregister(), or after it; memory is lost.
Stop(p) ==
  /\ state[p] # "down"
  /\ state' = [state EXCEPT ![p] = "down"]
  /\ registered' = [registered EXCEPT ![p] = None]
  /\ config' = [config EXCEPT ![p] = None]
  /\ applied' = [applied EXCEPT ![p] = None]
  /\ relies' = [relies EXCEPT ![p] = Nothing]
  /\ UNCHANGED <<agent, passing>>

\* It answers and calls nothing for a while; nothing registers it again afterwards.
Hang(p) ==
  /\ state[p] = "up"
  /\ state' = [state EXCEPT ![p] = "hung"]
  /\ relies' = [relies EXCEPT ![p] = Nothing]
  /\ UNCHANGED <<agent, passing, registered, config, applied>>

Wake(p) ==
  /\ state[p] = "hung"
  /\ state' = [state EXCEPT ![p] = "up"]
  /\ UNCHANGED <<agent, passing, registered, config, applied, relies>>

-----------------------------------------------------------------------------
(* Upstreams in memory *)

Edits(p, cfg) ==
  /\ state[p] = "up"
  /\ config' = [config EXCEPT ![p] = cfg]
  /\ UNCHANGED <<agent, passing, state, registered, applied, relies>>

Others(cfg, d) == {i \in DOMAIN cfg : cfg[i].to # d}
Nth(S, k) == CHOOSE i \in S : Cardinality({j \in S : j <= i}) = k

\* Those to other destinations, in their order; without configuration, an empty one.
Without(cfg, d) ==
  IF cfg = None THEN <<>>
  ELSE LET S == Others(cfg, d) IN [k \in 1 .. Cardinality(S) |-> cfg[Nth(S, k)]]
Added(cfg, u) == Append(Without(cfg, u.to), u)

LoadYaml(p) == \E cfg \in Files : Edits(p, cfg)
Add(p)      == \E u \in Upstreams : Edits(p, Added(config[p], u))
Remove(p)   == config[p] # None /\ \E d \in DestinationNames : Edits(p, Without(config[p], d))

\* get_local_endpoint: the first upstream to the destination.
Endpoint(cfg, d) ==
  LET to == {i \in DOMAIN cfg : cfg[i].to = d} IN
  cfg[CHOOSE i \in to : \A j \in to : i <= j]

-----------------------------------------------------------------------------
(* Registering, and leaving *)

Registered(p, i, cfg) ==
  /\ registered' = [registered EXCEPT ![p] = i]
  /\ applied' = [applied EXCEPT ![p] = cfg]
  /\ relies' = [relies EXCEPT ![p][i] = "there"]
Raised(p, i) ==
  /\ applied' = [applied EXCEPT ![p] = None]
  /\ relies' = [relies EXCEPT ![p][i] = "nothing"]

\* Mutant: the registration has no check.
UncheckedMutant(x) == None
\* health_http, or /health at the address of the service.
Checked(x) == x

\* The request is refused or does not arrive; or it is done, and then its answer
\* may be lost, or the audit record fail after _registered_id has been set.
Put(p, i, list, cfg) ==
  /\ state[p] = "up"
  /\ \/ Raised(p, i) /\ UNCHANGED <<agent, registered>>
     \/ /\ \E x \in Answers[p] :
             agent' = [agent EXCEPT ![i] = [by |-> p, check |-> Checked(x), upstreams |-> list]]
        /\ \/ Registered(p, i, cfg)
           \/ Raised(p, i) /\ registered' = [registered EXCEPT ![p] = i]
           \/ Raised(p, i) /\ UNCHANGED registered
  /\ UNCHANGED <<passing, state, config>>

Register(p) == Put(p, RegisterId[p], <<>>, None)

\* Mutant: what is loaded wins over what is given.
ApplyMutant(p) ==
  \E cfg \in Files \cup {config[p]}, i \in ApplyIds[p] :
    cfg # None /\ Put(p, i, IF config[p] = None THEN cfg ELSE config[p], cfg)
\* The configuration that is given, or the one in memory.
Apply(p) ==
  \E cfg \in Files \cup {config[p]}, i \in ApplyIds[p] :
    cfg # None /\ Put(p, i, cfg, cfg)

\* Mutant: the id that is remembered wins over the one that is given.
TargetMutant(p, i) == IF registered[p] # None THEN registered[p] ELSE i
Target(p, i) == i

\* With an id, or with the last one.  _registered_id is cleared after the audit
\* record, and only if it was the id removed.
Deregister(p, i) ==
  /\ state[p] = "up"
  /\ \/ Raised(p, i) /\ UNCHANGED <<agent, passing, registered>>
     \/ /\ agent' = [agent EXCEPT ![Target(p, i)] = None]
        /\ passing' = passing \ {Target(p, i)}
        /\ \/ Raised(p, i) /\ UNCHANGED registered
           \/ /\ registered' = [registered EXCEPT ![p] = IF @ = i THEN None ELSE @]
              /\ relies' = [relies EXCEPT ![p][i] = "gone"]
              /\ UNCHANGED applied
  /\ UNCHANGED <<state, config>>

-----------------------------------------------------------------------------
(* The agent *)

Served(i) == \E p \in Processes : state[p] = "up" /\ agent[i].check \in Answers[p]

\* The check of a registration, every ten seconds.
Check(i) ==
  /\ agent[i] # None
  /\ passing' = IF Served(i) THEN passing \cup {i} ELSE passing \ {i}
  /\ UNCHANGED <<agent, process>>

\* Mutant: the registrations do not ask for it.
ExpiresMutant == FALSE
\* DeregisterCriticalServiceAfter, which both registrations ask for.
Expires == TRUE

\* Five minutes without an answer.
Reap(i) ==
  /\ Expires
  /\ agent[i] # None
  /\ i \notin passing /\ ~Served(i)
  /\ agent' = [agent EXCEPT ![i] = None]
  /\ UNCHANGED <<passing, process>>

\* discover(passing_only=True)
Discovered == {i \in passing : agent[i] # None}

MeshNext ==
  \/ \E p \in Processes :
       \/ Start(p) \/ Stop(p) \/ Hang(p) \/ Wake(p)
       \/ Register(p) \/ \E i \in OwnIds(p) : Deregister(p, i)
  \/ \E p \in Managers : LoadYaml(p) \/ Add(p) \/ Remove(p) \/ Apply(p)
  \/ \E i \in Ids : Check(i) \/ Reap(i)

\* The agent goes on checking and dropping; nobody has to call anything.
MeshSpec == MeshInit /\ [][MeshNext]_meshVars /\ \A i \in Ids : WF_meshVars(Check(i)) /\ WF_meshVars(Reap(i))
-----------------------------------------------------------------------------
(* Properties *)

\* Registrations and what the processes remember have their types.
MeshTypeOK ==
  /\ agent \in [Ids -> Registrations \cup {None}]
  /\ passing \subseteq Ids
  /\ state \in [Processes -> {"down", "up", "hung"}]
  /\ registered \in [Processes -> Ids \cup {None}]
  /\ config \in [Processes -> Lists \cup {None}]
  /\ applied \in [Processes -> Lists \cup {None}]
  /\ relies \in [Processes -> [Ids -> {"there", "gone", "nothing"}]]

\* What the calls that returned said of an id is so, until one on it raises or
\* /health stops answering: the registration is there, or it is gone; and what
\* deregister() would remove is not known to be gone.  (Processes share no id.)
AgentAgrees ==
  \A p \in Processes : \A i \in OwnIds(p) :
    /\ relies[p][i] = "there" => agent[i] # None /\ agent[i].by = p
    /\ relies[p][i] = "gone" => agent[i] = None /\ registered[p] # i

\* While the upstreams in memory are those of the last registering call, each
\* address that get_local_endpoint gives is one the sidecar forwards to that
\* destination: a registration without them, other upstreams applied, and edits
\* not applied are the only ways to part the two.
EndpointsServed ==
  \A p \in Processes :
    /\ registered[p] # None /\ relies[p][registered[p]] = "there"
    /\ config[p] # None /\ applied[p] = config[p]
    => \A k \in DOMAIN config[p] :
         \E j \in DOMAIN agent[registered[p]].upstreams :
           agent[registered[p]].upstreams[j] = Endpoint(config[p], config[p][k].to)

\* A service whose registration is there is found by discover(), sooner or later.
Discoverable ==
  \A p \in Processes : \A i \in OwnIds(p) :
    relies[p][i] = "there" ~> (i \in Discovered \/ relies[p][i] # "there")

\* Whatever a process leaves in the agent when it ends goes, under each of the
\* ids its calls gave it, those that deregister() no longer knows and those
\* whose call raised included, unless a process answers for it again.
Forgotten ==
  \A p \in Processes : \A i \in OwnIds(p) :
    state[p] = "down" ~> (agent[i] = None \/ Served(i) \/ state[p] # "down")
=============================================================================
