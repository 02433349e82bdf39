--------------------------- MODULE MCSecretsMonitor ---------------------------
(* An instance of SecretsMonitor, and of the proxy and the loader below it.    *)
EXTENDS SecretsMonitor, TLC

CONSTANTS github, payments, hub, api

MCBelow == {<<api, hub>>}

item(n, D) == [name |-> n, domains |-> D]

\* Two credentials; and one of them again, with no domains.
MCLists == { <<item(github, {hub}), item(payments, {hub, api})>>,
             <<item(github, {})>> }

SecretSymmetry == Permutations(Secrets)
=============================================================================
