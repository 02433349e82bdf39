--------------------------- MODULE CredentialProxy ---------------------------
(***************************************************************************)
(* The credentials that an agent uses by name and never sees:              *)
(* CredentialProxy (credential_proxy/proxy.py), filled by load_multiple    *)
(* and load_kv of VaultSecretLoader (credential_proxy/vault.py) or by      *)
(* register() itself, and used by inject() followed by resolve().          *)
(*                                                                         *)
(* A credential is an entry in each of several dictionaries, which have no *)
(* lock: a registration writes them one by one, a use reads them one by    *)
(* one.  The description, which decides nothing, is left out.              *)
(***************************************************************************)
EXTENDS Naturals, Sequences

CONSTANTS
  Loaders,    \* threads that register credentials
  Users,      \* threads that call inject(), and resolve() if it succeeds
  Names,
  Secrets,
  Domains,
  Below,      \* <<x, d>>: x ends with "." + d
  Lists,      \* what load_multiple may be given: sequences of items
  None

Items == [name : Names, domains : SUBSET Domains]

ASSUME CredentialAssumption ==
  /\ Below \subseteq Domains \X Domains
  /\ Lists \subseteq Seq(Items)
  /\ None \notin Secrets

VARIABLES
  store,      \* _store
  allowed,    \* _allowed_domains; a name without an entry counts as one without domains
  lpc,        \* where each loader is; "loaded": its call has returned
  list,       \* the items of its call
  at,         \* the one it is at
  secret,     \* what it has read from Vault
  upc,        \* where each user is
  handle,     \* the credential it uses
  target,     \* the host it uses it for
  got,        \* the secret it has resolved
  made,       \* history: the registrations begun
  quiet       \* history: nobody has registered the credential during this use

loading == <<lpc, list, at, secret>>
using   == <<upc, handle, target, got, quiet>>
vars    == <<store, allowed, loading, using, made>>

Init ==
  /\ store = [n \in Names |-> None]
  /\ allowed = [n \in Names |-> {}]
  /\ lpc = [l \in Loaders |-> "idle"]
  /\ list = [l \in Loaders |-> <<>>]
  /\ at = [l \in Loaders |-> 1]
  /\ secret = [l \in Loaders |-> None]
  /\ upc = [u \in Users |-> "idle"]
  /\ handle \in [Users -> Names]
  /\ target \in [Users -> Domains]
  /\ got = [u \in Users |-> None]
  /\ quiet = [u \in Users |-> FALSE]
  /\ made = {}

-----------------------------------------------------------------------------
(* Loading and registering *)

Item(l) == list[l][at[l]]
InMiddle(l, n) == lpc[l] = "domains" /\ Item(l).name = n

\* load_multiple: the items one after the other, an empty list returns at once.
LoadMultiple(l, items) ==
  /\ lpc[l] \in {"idle", "loaded"}
  /\ lpc' = [lpc EXCEPT ![l] = IF items = <<>> THEN "loaded" ELSE "read"]
  /\ list' = [list EXCEPT ![l] = items]
  /\ at' = [at EXCEPT ![l] = 1]
  /\ UNCHANGED <<secret, store, allowed, using, made>>

\* register() by the application, without Vault.
Register(l, item, s) ==
  /\ lpc[l] \in {"idle", "loaded"}
  /\ lpc' = [lpc EXCEPT ![l] = "store"]
  /\ list' = [list EXCEPT ![l] = <<item>>]
  /\ at' = [at EXCEPT ![l] = 1]
  /\ secret' = [secret EXCEPT ![l] = s]
  /\ UNCHANGED <<store, allowed, using, made>>

\* Vault has the key, with whatever value it has been rotated to.
ReadSecret(l, s) ==
  /\ lpc[l] = "read"
  /\ lpc' = [lpc EXCEPT ![l] = "store"]
  /\ secret' = [secret EXCEPT ![l] = s]
  /\ UNCHANGED <<list, at, store, allowed, using, made>>

Ends(l, to) ==
  /\ lpc' = [lpc EXCEPT ![l] = to]
  /\ secret' = [secret EXCEPT ![l] = None]

\* Mutant: an item that fails is skipped.
FailsMutant(l) ==
  IF at[l] < Len(list[l])
  THEN at' = [at EXCEPT ![l] = @ + 1] /\ lpc' = [lpc EXCEPT ![l] = "read"] /\ UNCHANGED <<list, secret>>
  ELSE Ends(l, "loaded") /\ UNCHANGED <<list, at>>
\* The exception leaves load_kv and load_multiple; what was registered stays.
Fails(l) == Ends(l, "idle") /\ UNCHANGED <<list, at>>

\* No such path or key, an empty value, a refusal, no answer.
ReadFails(l) ==
  /\ lpc[l] = "read"
  /\ Fails(l)
  /\ UNCHANGED <<store, allowed, using, made>>

StoreSecret(l) ==
  /\ lpc[l] = "store"
  /\ lpc' = [lpc EXCEPT ![l] = "domains"]
  /\ store' = [store EXCEPT ![Item(l).name] = secret[l]]
  /\ made' = made \cup {<<Item(l).name, secret[l], Item(l).domains>>}
  /\ quiet' = [u \in Users |-> quiet[u] /\ handle[u] # Item(l).name]
  /\ UNCHANGED <<list, at, secret, allowed, upc, handle, target, got>>

\* Mutant: a credential registered again keeps the domains it had.
NewDomainsMutant(item) == allowed[item.name] \cup item.domains
NewDomains(item) == item.domains

StoreDomains(l) ==
  /\ lpc[l] = "domains"
  /\ lpc' = [lpc EXCEPT ![l] = "record"]
  /\ allowed' = [allowed EXCEPT ![Item(l).name] = NewDomains(Item(l))]
  /\ UNCHANGED <<list, at, secret, store, using, made>>

LastItem(l) == at[l] = Len(list[l])

\* Both records are made, and the next item follows.
Recorded(l) ==
  /\ lpc[l] = "record"
  /\ \/ LastItem(l) /\ Ends(l, "loaded") /\ UNCHANGED <<list, at>>
     \/ /\ ~LastItem(l)
        /\ at' = [at EXCEPT ![l] = @ + 1]
        /\ Ends(l, "read")
        /\ UNCHANGED list
  /\ UNCHANGED <<store, allowed, using, made>>

\* A record raises: the credential is registered, the call fails all the same.
RecordFails(l) ==
  /\ lpc[l] = "record"
  /\ Fails(l)
  /\ UNCHANGED <<store, allowed, using, made>>

-----------------------------------------------------------------------------
(* Using *)

Moves(u, to) == upc' = [upc EXCEPT ![u] = to]

\* inject() begins, with the test that the name is in _store.
Inject(u, n, x) ==
  /\ upc[u] = "idle"
  /\ store[n] # None
  /\ Moves(u, "check")
  /\ handle' = [handle EXCEPT ![u] = n]
  /\ target' = [target EXCEPT ![u] = x]
  /\ quiet' = [quiet EXCEPT ![u] = \A l \in Loaders : ~InMiddle(l, n)]
  /\ UNCHANGED <<store, allowed, loading, got, made>>

Covers(D, x) == x \in D \/ \E d \in D : <<x, d>> \in Below

\* Mutant: a credential without domains may go anywhere.
AuthorisesMutant(D, x) == D = {} \/ Covers(D, x)
Authorises(D, x) == D # {} /\ Covers(D, x)

\* The answer of inject(); a record of it that raises ends the use as a denial does.
CheckDomains(u) ==
  /\ upc[u] = "check"
  /\ \/ Authorises(allowed[handle[u]], target[u]) /\ Moves(u, "authorised")
     \/ Moves(u, "idle")
  /\ UNCHANGED <<store, allowed, loading, handle, target, got, quiet, made>>

Resolve(u) ==
  /\ upc[u] = "authorised"
  /\ Moves(u, "holds")
  /\ got' = [got EXCEPT ![u] = store[handle[u]]]
  /\ UNCHANGED <<store, allowed, loading, handle, target, quiet, made>>

\* The call is made, and the secret forgotten.
Used(u) ==
  /\ upc[u] = "holds"
  /\ Moves(u, "idle")
  /\ got' = [got EXCEPT ![u] = None]
  /\ UNCHANGED <<store, allowed, loading, handle, target, quiet, made>>

Next ==
  \/ \E l \in Loaders :
       \/ \E items \in Lists : LoadMultiple(l, items)
       \/ \E items \in Lists, s \in Secrets :
            \E i \in DOMAIN items : Register(l, items[i], s)
       \/ \E s \in Secrets : ReadSecret(l, s)
       \/ ReadFails(l) \/ StoreSecret(l) \/ StoreDomains(l) \/ Recorded(l) \/ RecordFails(l)
  \/ \E u \in Users :
       \/ \E n \in Names, x \in Domains : Inject(u, n, x)
       \/ CheckDomains(u) \/ Resolve(u) \/ Used(u)

Spec == Init /\ [][Next]_vars
-----------------------------------------------------------------------------
(* Properties *)

Registration(r) == r \in Names \X Secrets \X SUBSET Domains

\* Entries, loads and uses have their types; a load under way is at one of its
\* items and holds a secret between its read and its record.
TypeOK ==
  /\ store \in [Names -> Secrets \cup {None}]
  /\ allowed \in [Names -> SUBSET Domains]
  /\ lpc \in [Loaders -> {"idle", "read", "store", "domains", "record", "loaded"}]
  /\ list \in [Loaders -> Seq(Items)]
  /\ at \in [Loaders -> Nat \ {0}]
  /\ secret \in [Loaders -> Secrets \cup {None}]
  /\ \A l \in Loaders :
       /\ lpc[l] \notin {"idle", "loaded"} => at[l] <= Len(list[l])
       /\ lpc[l] \in {"store", "domains", "record"} => secret[l] # None
  /\ upc \in [Users -> {"idle", "check", "authorised", "holds"}]
  /\ handle \in [Users -> Names]
  /\ target \in [Users -> Domains]
  /\ got \in [Users -> Secrets \cup {None}]
  /\ quiet \in [Users -> BOOLEAN]
  /\ \A r \in made : Registration(r)

\* inject() authorises a host only if some registration of the credential covers
\* it, also while the credential has a secret and no domains yet.
Justified ==
  \A u \in Users : upc[u] \in {"authorised", "holds"} =>
    \E r \in made : r[1] = handle[u] /\ Covers(r[3], target[u])

\* A credential that no registration is in the middle of has the secret and the
\* domains of one registration, whatever failed before.  (One loader: two that
\* register the same name may leave the secret of one and the domains of the other.)
WholePair ==
  \A n \in Names : (\A l \in Loaders : ~InMiddle(l, n)) =>
    IF store[n] = None THEN allowed[n] = {} ELSE <<n, store[n], allowed[n]>> \in made

\* The secret resolved after an authorisation was registered for the host, unless
\* the credential has been registered again since inject() began.
KeepsPair ==
  \A u \in Users : upc[u] = "holds" /\ quiet[u] =>
    \E r \in made : r[1] = handle[u] /\ r[2] = got[u] /\ Covers(r[3], target[u])

\* When load_multiple returns, all of its items are in force.  (One loader.)
LoadedAll ==
  \A l \in Loaders : lpc[l] = "loaded" =>
    \A i \in DOMAIN list[l] :
      /\ store[list[l][i].name] # None
      /\ \E j \in i..Len(list[l]) :
           list[l][j].name = list[l][i].name /\ allowed[list[l][j].name] = list[l][j].domains
=============================================================================
