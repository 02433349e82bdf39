------------------------- MODULE MCServiceIntentions -------------------------
(* An instance of ServiceIntentions for TLC: the order of the upstreams.      *)
EXTENDS ServiceIntentions, TLC
CONSTANTS vault, api404
MCUpstreams == <<vault, api404>>
Symmetric == Permutations(Admins)
=============================================================================
