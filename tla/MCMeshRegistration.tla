-------------------------- MODULE MCMeshRegistration --------------------------
(* Two processes for MeshRegistration: one leaves the ids to the defaults, which *)
(* differ, and its check may go to the loopback, where the other answers too.    *)
EXTENDS MeshRegistration, TLC

CONSTANTS p1, p2, host1, addr1, given2, eth1, loopback, vault

MCRegisterId == p1 :> host1 @@ p2 :> given2
MCApplyIds   == p1 :> {addr1}
MCAnswers    == p1 :> {eth1, loopback} @@ p2 :> {loopback}

upstream(d, port) == [to |-> d, port |-> port]
MCUpstreams == {upstream(vault, 8200), upstream(vault, 8300)}

\* A file may name a destination twice.
MCFiles == {<<upstream(vault, 8200), upstream(vault, 8300)>>}
=============================================================================
