--------------------------- MODULE MCPolicyEngine ---------------------------
(* Small policies for PolicyEngine. *)
EXTENDS PolicyEngine

CONSTANTS ls, rm, hub, api

MCCommands == {ls, rm}
MCDomains  == {hub, api}
MCBelow    == {<<api, hub>>}

rule(hits, action) == [hits |-> hits, action |-> action]

\* An allow list, in which a second rule blocks a command that the first allows;
\* and a block list.
MCAllowList == [rules |-> <<rule({ls}, "allow"), rule({ls}, "block")>>, default |-> "block"]
MCBlockList == [rules |-> <<rule({rm}, "block")>>, default |-> "allow"]

MCOpen   == [allowed |-> {hub}, blocked |-> {}]
MCClosed == [allowed |-> {hub, api}, blocked |-> {api}]

\* The command file may be missing, the domain file may not load.
MCCommandFiles == {MCAllowList, MCBlockList, Missing}
MCDomainFiles  == {MCOpen, MCClosed, Broken}
=============================================================================
