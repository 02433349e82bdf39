------------------------ MODULE CredentialProxyProofs ------------------------
(***************************************************************************)
(* What holds of the credentials for any threads, names, secrets, domains  *)
(* and lists.                                                              *)
(*                                                                         *)
(* OriginInv traces the domains in force to a registration, with any       *)
(* number of loaders.  PairInv, with one loader, says that secret and      *)
(* domains come from the same one, except between the two assignments, and *)
(* that no quiet use overlaps these.  LoadInv, with one loader, says which *)
(* items of a load are in force.  MonInv, with any number, follows what a  *)
(* check of the monitor has found of the names left alone.                 *)
(***************************************************************************)
EXTENDS SecretsMonitor, FiniteSetTheorems, TLAPS

\* Registrations do not overlap: nothing in the code serialises them.
OneLoader == \A a, b \in Loaders : a = b

-----------------------------------------------------------------------------
(* Types *)

\* A load under way is at an item of its list.
LEMMA ItemTyped ==
  ASSUME TypeOK, NEW l \in Loaders, lpc[l] \notin {"idle", "loaded"}
  PROVE  Item(l) \in Items /\ Item(l).name \in Names /\ Item(l).domains \in SUBSET Domains
<1>1. list[l] \in Seq(Items) /\ at[l] \in 1..Len(list[l])
  BY DEF TypeOK
<1>2. list[l][at[l]] \in Items
  BY <1>1
<1> QED BY <1>2 DEF Item, Items

\* The initial values have their types.
LEMMA TypeInit == Init => TypeOK
  BY DEF Init, TypeOK

\* Every step keeps the types.
LEMMA TypeStep == TypeOK /\ [Next]_vars => TypeOK'
<1> SUFFICES ASSUME TypeOK, [Next]_vars PROVE TypeOK'
  OBVIOUS
<1> USE CredentialAssumption DEF TypeOK, loading, using, Registration
<1>1. CASE UNCHANGED vars
  BY <1>1 DEF vars
<1>2. ASSUME NEW l \in Loaders, NEW items \in Lists, LoadMultiple(l, items) PROVE TypeOK'
  <2>1. items \in Seq(Items) /\ (items # <<>> => 1 <= Len(items))
    OBVIOUS
  <2> QED BY <1>2, <2>1 DEF LoadMultiple
<1>3. ASSUME NEW l \in Loaders, NEW items \in Lists, NEW s \in Secrets,
             NEW i \in DOMAIN items, Register(l, items[i], s)
      PROVE  TypeOK'
  <2>1. <<items[i]>> \in Seq(Items) /\ Len(<<items[i]>>) = 1
    OBVIOUS
  <2> QED BY <1>3, <2>1 DEF Register
<1>4. ASSUME NEW l \in Loaders, NEW s \in Secrets, ReadSecret(l, s) PROVE TypeOK'
  BY <1>4 DEF ReadSecret
<1>5. ASSUME NEW l \in Loaders, ReadFails(l) PROVE TypeOK'
  BY <1>5 DEF ReadFails, Fails, Ends
<1>6. ASSUME NEW l \in Loaders, StoreSecret(l) PROVE TypeOK'
  <2>1. Item(l).name \in Names /\ Item(l).domains \in SUBSET Domains
    BY <1>6, ItemTyped DEF StoreSecret
  <2>2. secret[l] \in Secrets
    BY <1>6 DEF StoreSecret
  <2>3. store' \in [Names -> Secrets \cup {None}] /\ \A r \in made' : Registration(r)
    BY <1>6, <2>1, <2>2 DEF StoreSecret
  <2>4. quiet' \in [Users -> BOOLEAN]
    BY <1>6, Zenon DEF StoreSecret
  <2> QED BY <1>6, <2>3, <2>4 DEF StoreSecret
<1>7. ASSUME NEW l \in Loaders, StoreDomains(l) PROVE TypeOK'
  <2>1. Item(l).name \in Names /\ Item(l).domains \in SUBSET Domains
    BY <1>7, ItemTyped DEF StoreDomains
  <2> QED BY <1>7, <2>1 DEF StoreDomains, NewDomains
<1>8. ASSUME NEW l \in Loaders, Recorded(l) PROVE TypeOK'
  <2>1. UNCHANGED <<list, store, allowed, upc, handle, target, got, quiet, made>>
    BY <1>8 DEF Recorded
  <2>2. /\ secret' = [secret EXCEPT ![l] = None]
        /\ \/ lpc' = [lpc EXCEPT ![l] = "loaded"] /\ at' = at
           \/ /\ lpc' = [lpc EXCEPT ![l] = "read"] /\ at' = [at EXCEPT ![l] = @ + 1]
              /\ at[l] # Len(list[l])
    BY <1>8 DEF Recorded, Ends, LastItem
  <2>3. at[l] \in Nat \ {0} /\ Len(list[l]) \in Nat /\ at[l] <= Len(list[l])
    <3>1. lpc[l] = "record" /\ list[l] \in Seq(Items) /\ at[l] \in Nat \ {0}
      BY <1>8 DEF Recorded
    <3>2. at[l] <= Len(list[l])
      BY <3>1
    <3>3. Len(list[l]) \in Nat
      BY <3>1
    <3> QED BY <3>1, <3>2, <3>3
  <2>4. CASE lpc' = [lpc EXCEPT ![l] = "loaded"] /\ at' = at
    BY <2>1, <2>2, <2>4
  <2>5. CASE /\ lpc' = [lpc EXCEPT ![l] = "read"] /\ at' = [at EXCEPT ![l] = @ + 1]
             /\ at[l] # Len(list[l])
    BY <2>1, <2>2, <2>3, <2>5
  <2> QED BY <2>2, <2>4, <2>5
<1>9. ASSUME NEW l \in Loaders, RecordFails(l) PROVE TypeOK'
  BY <1>9 DEF RecordFails, Fails, Ends
<1>10. ASSUME NEW u \in Users, NEW n \in Names, NEW x \in Domains, Inject(u, n, x) PROVE TypeOK'
  <2>1. quiet' \in [Users -> BOOLEAN]
    BY <1>10, Zenon DEF Inject
  <2> QED BY <1>10, <2>1 DEF Inject, Moves
<1>11. ASSUME NEW u \in Users, CheckDomains(u) PROVE TypeOK'
  BY <1>11 DEF CheckDomains, Moves
<1>12. ASSUME NEW u \in Users, Resolve(u) PROVE TypeOK'
  BY <1>12 DEF Resolve, Moves
<1>13. ASSUME NEW u \in Users, Used(u) PROVE TypeOK'
  BY <1>13 DEF Used, Moves
<1> QED BY <1>1, <1>2, <1>3, <1>4, <1>5, <1>6, <1>7, <1>8, <1>9, <1>10, <1>11, <1>12, <1>13 DEF Next

-----------------------------------------------------------------------------
(* Where domains come from: any number of loaders *)

\* A registration is noted before its domains are stored.
Noted ==
  \A l \in Loaders : lpc[l] = "domains" =>
    <<Item(l).name, secret[l], Item(l).domains>> \in made

DomainsMade == \A n \in Names : allowed[n] # {} => \E s \in Secrets : <<n, s, allowed[n]>> \in made

OriginInv == TypeOK /\ Noted /\ DomainsMade /\ Justified

\* Steps of a loader that store nothing.
QuietLoad(l) ==
  \/ \E items \in Lists : LoadMultiple(l, items)
  \/ \E items \in Lists, s \in Secrets : \E i \in DOMAIN items : Register(l, items[i], s)
  \/ \E s \in Secrets : ReadSecret(l, s)
  \/ ReadFails(l) \/ Recorded(l) \/ RecordFails(l)

\* What a step that stores nothing leaves alone.
LEMMA QuietLoadFrame ==
  ASSUME TypeOK, NEW l \in Loaders, QuietLoad(l)
  PROVE  /\ lpc[l] # "domains" /\ lpc'[l] # "domains"
         /\ \A k \in Loaders \ {l} :
              lpc'[k] = lpc[k] /\ list'[k] = list[k] /\ at'[k] = at[k] /\ secret'[k] = secret[k]
         /\ UNCHANGED <<store, allowed, using, made>>
BY DEF TypeOK, QuietLoad, LoadMultiple, Register, ReadSecret, ReadFails, Recorded, RecordFails,
       Fails, Ends

\* What the two assignments of a registration leave alone.
LEMMA StoreFrame ==
  ASSUME TypeOK, NEW l \in Loaders, StoreSecret(l) \/ StoreDomains(l)
  PROVE  /\ \A k \in Loaders : list'[k] = list[k] /\ at'[k] = at[k] /\ secret'[k] = secret[k]
         /\ \A k \in Loaders : Item(k)' = Item(k)
         /\ \A k \in Loaders \ {l} : lpc'[k] = lpc[k]
         /\ UNCHANGED <<upc, handle, target, got>>
         /\ Item(l).name \in Names /\ Item(l).domains \in SUBSET Domains
         /\ secret[l] \in Secrets
<1>1. lpc[l] \in {"store", "domains"}
  BY DEF StoreSecret, StoreDomains
<1>2. Item(l).name \in Names /\ Item(l).domains \in SUBSET Domains
  BY <1>1, ItemTyped
<1>3. secret[l] \in Secrets
  BY <1>1 DEF TypeOK
<1> QED BY <1>2, <1>3 DEF TypeOK, StoreSecret, StoreDomains, Item, using

\* Every step keeps the origin of the domains.
LEMMA OriginStep == OriginInv /\ [Next]_vars => OriginInv'
<1> SUFFICES ASSUME OriginInv, [Next]_vars PROVE OriginInv'
  OBVIOUS
<1>0. TypeOK'
  BY TypeStep DEF OriginInv
<1>1. CASE UNCHANGED vars
  BY <1>0, <1>1 DEF vars, loading, using, OriginInv, Noted, DomainsMade, Justified, Item
<1>2. ASSUME NEW l \in Loaders, QuietLoad(l) PROVE OriginInv'
  <2>1. Noted'
    BY <1>2, QuietLoadFrame DEF OriginInv, Noted, Item
  <2>2. DomainsMade' /\ Justified'
    BY <1>2, QuietLoadFrame DEF OriginInv, DomainsMade, Justified, using
  <2> QED BY <1>0, <2>1, <2>2 DEF OriginInv
<1>3. ASSUME NEW l \in Loaders, StoreSecret(l) PROVE OriginInv'
  <2>1. made' = made \cup {<<Item(l).name, secret[l], Item(l).domains>>} /\ allowed' = allowed
    BY <1>3 DEF StoreSecret
  <2>2. Noted'
    BY <1>3, <2>1, StoreFrame DEF OriginInv, Noted
  <2>3. DomainsMade' /\ Justified'
    BY <1>3, <2>1, StoreFrame DEF OriginInv, DomainsMade, Justified
  <2> QED BY <1>0, <2>2, <2>3 DEF OriginInv
<1>4. ASSUME NEW l \in Loaders, StoreDomains(l) PROVE OriginInv'
  <2>1. /\ made' = made /\ lpc[l] = "domains" /\ lpc'[l] = "record"
        /\ allowed' = [allowed EXCEPT ![Item(l).name] = Item(l).domains]
    BY <1>4 DEF StoreDomains, NewDomains, OriginInv, TypeOK
  <2>2. Noted'
    BY <1>4, <2>1, StoreFrame DEF OriginInv, Noted
  <2>3. DomainsMade'
    BY <1>4, <2>1, StoreFrame DEF OriginInv, TypeOK, DomainsMade, Noted
  <2>4. Justified'
    BY <1>4, <2>1, StoreFrame DEF OriginInv, Justified
  <2> QED BY <1>0, <2>2, <2>3, <2>4 DEF OriginInv
<1>5. ASSUME NEW u \in Users,
             \/ \E n \in Names, x \in Domains : Inject(u, n, x)
             \/ CheckDomains(u) \/ Resolve(u) \/ Used(u)
      PROVE  OriginInv'
  <2>1. UNCHANGED <<store, allowed, loading, made>>
    BY <1>5 DEF Inject, CheckDomains, Resolve, Used
  <2>2. Noted' /\ DomainsMade'
    BY <2>1 DEF loading, OriginInv, Noted, DomainsMade, Item
  <2>3. Justified'
    <3>1. \A v \in Users \ {u} :
            upc'[v] = upc[v] /\ handle'[v] = handle[v] /\ target'[v] = target[v]
      BY <1>5 DEF OriginInv, TypeOK, Inject, CheckDomains, Resolve, Used, Moves
    <3>2. upc'[u] \in {"authorised", "holds"} =>
            \E r \in made : r[1] = handle'[u] /\ Covers(r[3], target'[u])
      <4>1. CASE \E n \in Names, x \in Domains : Inject(u, n, x)
        BY <4>1 DEF OriginInv, TypeOK, Inject, Moves
      <4>2. CASE CheckDomains(u)
        <5> SUFFICES ASSUME upc'[u] \in {"authorised", "holds"}
                     PROVE  \E r \in made : r[1] = handle[u] /\ Covers(r[3], target[u])
          BY <4>2 DEF CheckDomains
        <5>1. allowed[handle[u]] # {} /\ Covers(allowed[handle[u]], target[u])
          BY <4>2 DEF OriginInv, TypeOK, CheckDomains, Moves, Authorises
        <5>2. PICK s \in Secrets : <<handle[u], s, allowed[handle[u]]>> \in made
          BY <5>1 DEF OriginInv, TypeOK, DomainsMade
        <5> QED BY <5>1, <5>2
      <4>3. CASE Resolve(u)
        BY <4>3 DEF OriginInv, TypeOK, Resolve, Moves, Justified
      <4>4. CASE Used(u)
        BY <4>4 DEF OriginInv, TypeOK, Used, Moves
      <4> QED BY <1>5, <4>1, <4>2, <4>3, <4>4
    <3> QED BY <2>1, <3>1, <3>2 DEF OriginInv, Justified
  <2> QED BY <1>0, <2>2, <2>3 DEF OriginInv
<1> QED BY <1>1, <1>2, <1>3, <1>4, <1>5 DEF Next, QuietLoad

\* OriginInv holds with any number of loaders.
LEMMA OriginAlways == Spec => []OriginInv
<1>1. Init => OriginInv
  BY TypeInit DEF Init, OriginInv, Noted, DomainsMade, Justified
<1> QED BY <1>1, OriginStep, PTL DEF Spec

-----------------------------------------------------------------------------
(* Secret and domains of one registration: one loader *)

\* Between the two assignments the secret stored is the one that was noted.
Stored == \A l \in Loaders : lpc[l] = "domains" => store[Item(l).name] = secret[l]

\* During a quiet use nobody is between the two assignments, so that what inject()
\* authorises is covered by what resolve() will find.
QuietUse ==
  \A u \in Users :
    /\ upc[u] # "idle" => store[handle[u]] # None
    /\ upc[u] \in {"check", "authorised"} /\ quiet[u] => \A l \in Loaders : ~InMiddle(l, handle[u])
    /\ upc[u] = "authorised" /\ quiet[u] => Covers(allowed[handle[u]], target[u])

PairInv == OriginInv /\ Stored /\ WholePair /\ QuietUse /\ KeepsPair

\* With one loader, every step keeps secret and domains together.
LEMMA PairStep == OneLoader /\ PairInv /\ [Next]_vars => PairInv'
<1> SUFFICES ASSUME OneLoader, PairInv, [Next]_vars PROVE PairInv'
  OBVIOUS
<1>0. OriginInv' /\ TypeOK
  BY OriginStep DEF PairInv, OriginInv
<1>1. CASE UNCHANGED vars
  BY <1>0, <1>1 DEF vars, loading, using, PairInv, Stored, WholePair, QuietUse, KeepsPair,
                    Item, InMiddle
<1>2. ASSUME NEW l \in Loaders, QuietLoad(l) PROVE PairInv'
  <2>1. \A k \in Loaders, n \in Names : InMiddle(k, n)' <=> InMiddle(k, n)
    BY <1>0, <1>2, QuietLoadFrame DEF InMiddle, Item
  <2>2. Stored'
    BY <1>0, <1>2, QuietLoadFrame DEF PairInv, Stored, Item
  <2>3. UNCHANGED <<store, allowed, made, upc, handle, target, got, quiet>>
    BY <1>0, <1>2, QuietLoadFrame DEF using
  <2>4. WholePair'
    BY <2>1, <2>3 DEF PairInv, WholePair
  <2>5. QuietUse' /\ KeepsPair'
    BY <1>0, <2>1, <2>3 DEF PairInv, QuietUse, KeepsPair, TypeOK
  <2> QED BY <1>0, <2>2, <2>4, <2>5 DEF PairInv
<1>3. ASSUME NEW l \in Loaders, StoreSecret(l) PROVE PairInv'
  <2> DEFINE n == Item(l).name
  <2>1. /\ made' = made \cup {<<n, secret[l], Item(l).domains>>} /\ allowed' = allowed
        /\ lpc[l] = "store" /\ lpc'[l] = "domains"
        /\ store' = [store EXCEPT ![n] = secret[l]]
        /\ \A u \in Users : quiet'[u] = (quiet[u] /\ handle[u] # n)
    BY <1>0, <1>3 DEF StoreSecret, TypeOK
  <2>2. \A k \in Loaders : k = l
    BY DEF OneLoader
  <2>3. Stored'
    BY <1>0, <1>3, <2>1, <2>2, StoreFrame DEF Stored, TypeOK
  <2>4. \A m \in Names \ {n} : store'[m] = store[m] /\ \A k \in Loaders : ~InMiddle(k, m)
    BY <1>0, <2>1, <2>2 DEF TypeOK, InMiddle
  <2>5. lpc'[l] = "domains" /\ Item(l)' = Item(l)
    BY <1>0, <1>3, <2>1, StoreFrame
  <2>6. WholePair'
    <3> SUFFICES ASSUME NEW m \in Names, \A k \in Loaders : ~InMiddle(k, m)'
                 PROVE  IF store'[m] = None THEN allowed'[m] = {}
                        ELSE <<m, store'[m], allowed'[m]>> \in made'
      BY DEF WholePair
    <3>1. m # n
      BY <2>5 DEF InMiddle
    <3> QED BY <2>1, <2>4, <3>1 DEF PairInv, WholePair
  <2>7. \A m \in Names \ {n}, k \in Loaders : ~InMiddle(k, m)'
    BY <1>0, <1>3, <2>1, <2>2, StoreFrame DEF InMiddle
  <2>8. QuietUse'
    <3> SUFFICES ASSUME NEW u \in Users
                 PROVE  /\ upc'[u] # "idle" => store'[handle'[u]] # None
                        /\ upc'[u] \in {"check", "authorised"} /\ quiet'[u]
                             => \A k \in Loaders : ~InMiddle(k, handle[u])'
                        /\ upc'[u] = "authorised" /\ quiet'[u]
                             => Covers(allowed'[handle'[u]], target'[u])
      BY <1>0, <1>3, StoreFrame DEF QuietUse, InMiddle, Covers
    <3>1. upc'[u] = upc[u] /\ handle'[u] = handle[u] /\ target'[u] = target[u]
          /\ handle[u] \in Names
      BY <1>0, <1>3, StoreFrame DEF TypeOK
    <3>2. secret[l] # None
      BY <1>0, <2>1 DEF TypeOK
    <3>3. upc'[u] # "idle" => store'[handle'[u]] # None
      BY <1>0, <2>1, <3>1, <3>2 DEF PairInv, QuietUse, TypeOK
    <3>4. quiet'[u] => handle[u] # n /\ quiet[u]
      BY <2>1
    <3> QED BY <2>1, <2>7, <3>1, <3>3, <3>4 DEF PairInv, QuietUse
  <2>9. KeepsPair'
    BY <1>0, <1>3, <2>1, StoreFrame DEF PairInv, KeepsPair
  <2> QED BY <1>0, <2>3, <2>6, <2>8, <2>9 DEF PairInv
<1>4. ASSUME NEW l \in Loaders, StoreDomains(l) PROVE PairInv'
  <2> DEFINE n == Item(l).name
  <2>1. /\ made' = made /\ store' = store /\ quiet' = quiet
        /\ lpc[l] = "domains" /\ lpc'[l] = "record"
        /\ allowed' = [allowed EXCEPT ![n] = Item(l).domains]
    BY <1>0, <1>4 DEF StoreDomains, NewDomains, TypeOK, using
  <2>2. \A k \in Loaders : k = l
    BY DEF OneLoader
  <2>3. Stored'
    BY <2>1, <2>2 DEF Stored
  <2>4. \A m \in Names \ {n} : allowed'[m] = allowed[m] /\ \A k \in Loaders : ~InMiddle(k, m)
    BY <1>0, <2>1, <2>2 DEF TypeOK, InMiddle
  <2>5. allowed'[n] = Item(l).domains /\ n \in Names /\ store[n] = secret[l] /\ secret[l] # None
    BY <1>0, <1>4, <2>1, StoreFrame DEF TypeOK, PairInv, Stored
  <2>6. <<n, secret[l], Item(l).domains>> \in made
    BY <2>1 DEF PairInv, OriginInv, Noted
  <2>7. WholePair'
    <3> SUFFICES ASSUME NEW m \in Names
                 PROVE  IF store[m] = None THEN allowed'[m] = {}
                        ELSE <<m, store[m], allowed'[m]>> \in made
      BY <2>1 DEF WholePair
    <3>1. CASE m = n
      BY <3>1, <2>5, <2>6
    <3>2. CASE m # n
      BY <3>2, <2>4 DEF PairInv, WholePair
    <3> QED BY <3>1, <3>2
  <2>8. \A k \in Loaders : lpc'[k] # "domains"
    BY <2>1, <2>2
  <2>9. QuietUse'
    <3> SUFFICES ASSUME NEW u \in Users
                 PROVE  /\ upc[u] # "idle" => store[handle[u]] # None
                        /\ upc[u] \in {"check", "authorised"} /\ quiet[u]
                             => \A k \in Loaders : ~InMiddle(k, handle[u])'
                        /\ upc[u] = "authorised" /\ quiet[u]
                             => Covers(allowed'[handle[u]], target[u])
      BY <1>0, <1>4, <2>1, StoreFrame DEF QuietUse, InMiddle, Covers, PairInv, TypeOK
    <3>1. handle[u] \in Names
      BY <1>0 DEF TypeOK
    <3>2. upc[u] = "authorised" /\ quiet[u] => handle[u] # n
      BY <2>1, <3>1 DEF PairInv, QuietUse, InMiddle
    <3> QED BY <2>4, <2>8, <3>1, <3>2 DEF PairInv, QuietUse, InMiddle
  <2>10. KeepsPair'
    BY <1>0, <1>4, <2>1, StoreFrame DEF PairInv, KeepsPair
  <2> QED BY <1>0, <2>3, <2>7, <2>9, <2>10 DEF PairInv
<1>5. ASSUME NEW u \in Users,
             \/ \E n \in Names, x \in Domains : Inject(u, n, x)
             \/ CheckDomains(u) \/ Resolve(u) \/ Used(u)
      PROVE  PairInv'
  <2>1. UNCHANGED <<store, allowed, loading, made>>
    BY <1>5 DEF Inject, CheckDomains, Resolve, Used
  <2>2. Stored'
    BY <2>1 DEF loading, PairInv, Stored, Item
  <2>3. \A k \in Loaders : \A m : InMiddle(k, m)' <=> InMiddle(k, m)
    BY <2>1 DEF loading, InMiddle, Item
  <2>4. WholePair'
    BY <2>1, <2>3 DEF PairInv, WholePair
  <2>5. ASSUME NEW v \in Users \ {u}
        PROVE  /\ upc'[v] = upc[v] /\ handle'[v] = handle[v] /\ target'[v] = target[v]
               /\ quiet'[v] = quiet[v] /\ got'[v] = got[v]
    BY <1>0, <1>5 DEF TypeOK, Inject, CheckDomains, Resolve, Used, Moves
  <2>6. /\ upc'[u] # "idle" => store[handle'[u]] # None
        /\ upc'[u] \in {"check", "authorised"} /\ quiet'[u]
             => \A l \in Loaders : ~InMiddle(l, handle'[u])
        /\ upc'[u] = "authorised" /\ quiet'[u] => Covers(allowed[handle'[u]], target'[u])
        /\ upc'[u] = "holds" /\ quiet'[u] =>
             \E r \in made : r[1] = handle'[u] /\ r[2] = got'[u] /\ Covers(r[3], target'[u])
    <3>1. CASE \E n \in Names, x \in Domains : Inject(u, n, x)
      BY <1>0, <3>1 DEF TypeOK, Inject, Moves
    <3>2. CASE CheckDomains(u)
      BY <1>0, <3>2 DEF TypeOK, CheckDomains, Moves, Authorises, PairInv, QuietUse
    <3>3. CASE Resolve(u)
      <4>1. /\ upc[u] = "authorised" /\ upc'[u] = "holds" /\ got'[u] = store[handle[u]]
            /\ UNCHANGED <<handle, target, quiet>> /\ handle[u] \in Names
        BY <1>0, <3>3 DEF TypeOK, Resolve, Moves
      <4>2. store[handle[u]] # None
            /\ (quiet[u] => /\ \A l \in Loaders : ~InMiddle(l, handle[u])
                           /\ Covers(allowed[handle[u]], target[u]))
        BY <4>1 DEF PairInv, QuietUse
      <4>3. quiet[u] => <<handle[u], store[handle[u]], allowed[handle[u]]>> \in made
        BY <4>1, <4>2 DEF PairInv, WholePair
      <4>4. quiet[u] => \E r \in made : r[1] = handle[u] /\ r[2] = got'[u] /\ Covers(r[3], target[u])
        BY <4>1, <4>2, <4>3
      <4> QED BY <4>1, <4>2, <4>4
    <3>4. CASE Used(u)
      BY <1>0, <3>4 DEF TypeOK, Used, Moves
    <3> QED BY <1>5, <3>1, <3>2, <3>3, <3>4
  <2>7. QuietUse'
    BY <2>1, <2>3, <2>5, <2>6 DEF PairInv, QuietUse, InMiddle, loading, Item, Covers
  <2>8. KeepsPair'
    BY <2>1, <2>5, <2>6 DEF PairInv, KeepsPair
  <2> QED BY <1>0, <2>2, <2>4, <2>7, <2>8 DEF PairInv
<1> QED BY <1>1, <1>2, <1>3, <1>4, <1>5 DEF Next, QuietLoad

\* PairInv holds with one loader.
LEMMA PairAlways == OneLoader /\ Spec => []PairInv
<1>1. Init => PairInv
  BY TypeInit DEF Init, PairInv, OriginInv, Noted, DomainsMade, Justified, Stored, WholePair,
                  QuietUse, KeepsPair
<1>2. OneLoader /\ PairInv /\ [Next]_vars => PairInv'
  BY PairStep
<1>3. CASE OneLoader
  BY <1>1, <1>2, <1>3, PTL DEF Spec
<1>4. CASE ~OneLoader
  BY <1>4
<1> QED BY <1>3, <1>4

-----------------------------------------------------------------------------
(* What a load has put in force: one loader *)

\* The item i is in force, by itself or by a later item, up to m, of its name.
Done(l, i, m) ==
  /\ store[list[l][i].name] # None
  /\ \E j \in i..m :
       list[l][j].name = list[l][i].name /\ allowed[list[l][j].name] = list[l][j].domains

LoadInv ==
  \A l \in Loaders :
    /\ lpc[l] \in {"read", "store", "domains"} => \A i \in 1..(at[l] - 1) : Done(l, i, at[l] - 1)
    /\ lpc[l] = "record" => \A i \in 1..at[l] : Done(l, i, at[l])
    /\ lpc[l] = "loaded" => \A i \in 1..Len(list[l]) : Done(l, i, Len(list[l]))

\* With one loader, nothing undoes what a load has put in force.
LEMMA LoadStep == OneLoader /\ PairInv /\ LoadInv /\ [Next]_vars => LoadInv'
<1> SUFFICES ASSUME OneLoader, PairInv, LoadInv, [Next]_vars PROVE LoadInv'
  OBVIOUS
<1>0. TypeOK
  BY DEF PairInv, OriginInv
<1>1. CASE UNCHANGED <<store, allowed, loading>>
  BY <1>1 DEF loading, LoadInv, Done
<1>2. ASSUME NEW l \in Loaders, QuietLoad(l) PROVE LoadInv'
  <2>1. UNCHANGED <<store, allowed>>
    BY <1>0, <1>2, QuietLoadFrame
  <2>2. \A k \in Loaders : k = l
    BY DEF OneLoader
  <2>3. list[l] \in Seq(Items) /\ at[l] \in Nat \ {0} /\ Len(list[l]) \in Nat
    <3>1. list[l] \in Seq(Items) /\ at[l] \in Nat \ {0}
      BY <1>0 DEF TypeOK
    <3> QED BY <3>1
  <2>4. ASSUME NEW items \in Lists, LoadMultiple(l, items) PROVE LoadInv'
    <3>1. /\ lpc'[l] = IF items = <<>> THEN "loaded" ELSE "read"
          /\ list'[l] = items /\ at'[l] = 1
      BY <1>0, <2>4 DEF LoadMultiple, TypeOK
    <3>2. items = <<>> => Len(items) = 0
      OBVIOUS
    <3> QED BY <2>2, <3>1, <3>2 DEF LoadInv
  <2>5. ASSUME NEW items \in Lists, NEW s \in Secrets, NEW i \in DOMAIN items,
               Register(l, items[i], s)
        PROVE  LoadInv'
    <3>1. lpc'[l] = "store" /\ at'[l] = 1
      BY <1>0, <2>5 DEF Register, TypeOK
    <3> QED BY <2>2, <3>1 DEF LoadInv
  <2>6. CASE (\E s \in Secrets : ReadSecret(l, s)) \/ ReadFails(l) \/ RecordFails(l)
    <3>1. /\ lpc'[l] = "idle" \/ (lpc[l] = "read" /\ lpc'[l] = "store")
          /\ list' = list /\ at' = at
      BY <1>0, <2>6 DEF ReadSecret, ReadFails, RecordFails, Fails, Ends, TypeOK
    <3> QED BY <2>1, <2>2, <3>1 DEF LoadInv, Done
  <2>7. CASE Recorded(l)
    <3>1. /\ lpc[l] = "record" /\ list' = list
          /\ \/ lpc'[l] = "loaded" /\ at' = at /\ at[l] = Len(list[l])
             \/ lpc'[l] = "read" /\ at'[l] = at[l] + 1
      BY <1>0, <2>7 DEF Recorded, LastItem, Ends, TypeOK
    <3>2. \A i \in 1..at[l] : Done(l, i, at[l])
      BY <3>1 DEF LoadInv
    <3>3. CASE lpc'[l] = "loaded" /\ at' = at /\ at[l] = Len(list[l])
      <4>1. (\A i \in 1..Len(list[l]) : Done(l, i, Len(list[l])))'
        BY <2>1, <3>1, <3>2, <3>3 DEF Done
      <4> QED BY <2>2, <3>3, <4>1 DEF LoadInv
    <3>4. CASE lpc'[l] = "read" /\ at'[l] = at[l] + 1
      <4>1. at'[l] - 1 = at[l]
        BY <2>3, <3>4
      <4>2. (\A i \in 1..(at[l] - 1) : Done(l, i, at[l] - 1))'
        BY <2>1, <3>1, <3>2, <4>1 DEF Done
      <4> QED BY <2>2, <3>4, <4>2 DEF LoadInv
    <3> QED BY <3>1, <3>3, <3>4
  <2> QED BY <1>2, <2>4, <2>5, <2>6, <2>7 DEF QuietLoad
<1>3. ASSUME NEW l \in Loaders, StoreSecret(l) PROVE LoadInv'
  <2>1. \A k \in Loaders : k = l
    BY DEF OneLoader
  <2>2. /\ lpc[l] = "store" /\ lpc'[l] = "domains" /\ allowed' = allowed
        /\ list' = list /\ at' = at
        /\ \A n \in Names : store'[n] = store[n] \/ store'[n] = secret[l]
        /\ secret[l] # None
    BY <1>0, <1>3 DEF StoreSecret, TypeOK
  <2>3. \A i \in 1..(at[l] - 1) : Done(l, i, at[l] - 1)
    BY <2>2 DEF LoadInv
  <2>4. \A i \in 1..(at[l] - 1) : list[l][i].name \in Names
    <3>1. list[l] \in Seq(Items) /\ at[l] \in Nat \ {0} /\ at[l] <= Len(list[l])
      BY <1>0, <2>2 DEF TypeOK
    <3>2. \A i \in 1..(at[l] - 1) : i \in 1..Len(list[l])
      BY <3>1
    <3>3. \A i \in 1..Len(list[l]) : list[l][i] \in Items
      BY <3>1
    <3> QED BY <3>2, <3>3 DEF Items
  <2> DEFINE k == at[l] - 1
  <2>5. ASSUME NEW i \in 1..k
        PROVE  /\ store'[list[l][i].name] # None
               /\ \E j \in i..k : /\ list[l][j].name = list[l][i].name
                                  /\ allowed[list[l][j].name] = list[l][j].domains
    <3>1. Done(l, i, k)
      BY <2>3
    <3>2. store'[list[l][i].name] # None
      BY <2>2, <2>4, <3>1 DEF Done
    <3> QED BY <3>1, <3>2 DEF Done
  <2>6. (\A i \in 1..(at[l] - 1) : Done(l, i, at[l] - 1))'
    BY <2>2, <2>5 DEF Done
  <2> QED BY <2>1, <2>2, <2>6 DEF LoadInv
<1>4. ASSUME NEW l \in Loaders, StoreDomains(l) PROVE LoadInv'
  <2> DEFINE n == Item(l).name
             k == at[l]
  <2>1. \A q \in Loaders : q = l
    BY DEF OneLoader
  <2>2. /\ lpc[l] = "domains" /\ lpc'[l] = "record" /\ store' = store
        /\ list' = list /\ at' = at
        /\ allowed' = [allowed EXCEPT ![n] = Item(l).domains]
        /\ n \in Names /\ allowed \in [Names -> SUBSET Domains]
    BY <1>0, <1>4, StoreFrame DEF StoreDomains, NewDomains, TypeOK
  <2>3. \A i \in 1..(k - 1) : Done(l, i, k - 1)
    BY <2>2 DEF LoadInv
  <2>4. store[n] # None
    BY <1>0, <2>2 DEF PairInv, Stored, TypeOK
  <2>5. list[l][k].name = n /\ list[l][k].domains = Item(l).domains /\ k \in Nat \ {0}
    BY <1>0 DEF Item, TypeOK
  <2>6. allowed'[n] = Item(l).domains /\ \A m \in Names : m # n => allowed'[m] = allowed[m]
    BY <2>2
  <2> HIDE DEF n, k
  <2>7. ASSUME NEW i \in 1..k
        PROVE  /\ store[list[l][i].name] # None
               /\ \E j \in i..k : list[l][j].name = list[l][i].name
                                  /\ allowed'[list[l][j].name] = list[l][j].domains
    <3>1. CASE list[l][i].name = n
      BY <2>4, <2>5, <2>6, <3>1
    <3>2. CASE list[l][i].name # n
      <4>1. i \in 1..(k - 1)
        BY <2>5, <3>2
      <4>2. PICK j \in i..(k - 1) : /\ list[l][j].name = list[l][i].name
                                    /\ allowed[list[l][j].name] = list[l][j].domains
        BY <2>3, <4>1 DEF Done
      <4>3. j \in i..k /\ store[list[l][i].name] # None
        BY <2>3, <2>5, <4>1, <4>2 DEF Done
      <4>4. list[l][j].name \in Names
        <5>1. list[l] \in Seq(Items) /\ k <= Len(list[l]) /\ k \in Nat
          BY <1>0, <2>2, <2>5 DEF TypeOK, k
        <5>2. j \in 1..Len(list[l])
          BY <4>1, <4>2, <5>1
        <5>3. list[l][j] \in Items
          BY <5>1, <5>2
        <5> QED BY <5>3 DEF Items
      <4>5. allowed'[list[l][j].name] = allowed[list[l][j].name]
        BY <2>6, <3>2, <4>2, <4>4
      <4> QED BY <4>2, <4>3, <4>5
    <3> QED BY <3>1, <3>2
  <2>8. (\A i \in 1..at[l] : Done(l, i, at[l]))'
    BY <2>2, <2>7 DEF Done, k
  <2> QED BY <2>1, <2>2, <2>8 DEF LoadInv
<1>5. ASSUME NEW u \in Users,
             \/ \E n \in Names, x \in Domains : Inject(u, n, x)
             \/ CheckDomains(u) \/ Resolve(u) \/ Used(u)
      PROVE  LoadInv'
  BY <1>1, <1>5 DEF Inject, CheckDomains, Resolve, Used
<1> QED BY <1>1, <1>2, <1>3, <1>4, <1>5 DEF Next, QuietLoad, vars

-----------------------------------------------------------------------------
(* The monitor, with any number of loaders *)

\* A registration that touches the entries of a name disturbs that name.
LEMMA CalmStep ==
  ASSUME TypeOK, Next, NEW n \in Names, Undisturbed(n), Undisturbed(n)'
  PROVE  store'[n] = store[n] /\ allowed'[n] = allowed[n]
<1>1. ASSUME NEW l \in Loaders, QuietLoad(l) PROVE UNCHANGED <<store, allowed>>
  BY <1>1, QuietLoadFrame
<1>2. ASSUME NEW l \in Loaders, StoreSecret(l)
      PROVE  store'[n] = store[n] /\ allowed'[n] = allowed[n]
  <2>1. Item(l)' = Item(l) /\ lpc'[l] = "domains"
    BY <1>2, StoreFrame DEF StoreSecret, TypeOK
  <2>2. Item(l).name # n
    BY <2>1 DEF Undisturbed, InMiddle
  <2> QED BY <1>2, <2>2 DEF StoreSecret, TypeOK
<1>3. ASSUME NEW l \in Loaders, StoreDomains(l)
      PROVE  store'[n] = store[n] /\ allowed'[n] = allowed[n]
  <2>1. Item(l).name # n
    BY <1>3 DEF Undisturbed, InMiddle, StoreDomains
  <2> QED BY <1>3, <2>1 DEF StoreDomains, TypeOK
<1>4. ASSUME NEW u \in Users,
             \/ \E m \in Names, x \in Domains : Inject(u, m, x)
             \/ CheckDomains(u) \/ Resolve(u) \/ Used(u)
      PROVE  UNCHANGED <<store, allowed>>
  BY <1>4 DEF Inject, CheckDomains, Resolve, Used
<1> QED BY <1>1, <1>2, <1>3, <1>4 DEF Next, QuietLoad

\* What the report has to say of n.
Right(n) == IF store[n] = None THEN "unlisted" ELSE Risk(Cardinality(allowed[n]))

\* Of the calm names: those with a secret, and no others, are listed, and each
\* is still to be looked up or has its risk.
MonInv ==
  /\ TypeOK
  /\ handles \subseteq Names
  /\ calm \subseteq Names
  /\ risk \in [Names -> {"unlisted", "critical", "warning", "ok"}]
  /\ \A n \in calm : Undisturbed(n)
  /\ mpc \in {"listing", "looking"} =>
       \A n \in calm : n \in handles => store[n] # None
  /\ mpc = "listing" => \A n \in calm : n \notin handles => store[n] = None
  /\ mpc = "listing" => risk = NoReport
  /\ mpc = "looking" => \A n \in calm : n \notin handles => risk[n] = Right(n)
  /\ mpc = "reporting" => \A n \in calm : risk[n] = Right(n)
  /\ mpc = "reported" =>
       /\ \A n \in calm : risk[n] = Right(n)
       /\ alert <=> vaultAuth = "no" \/ \E n \in Names : risk[n] = "critical"

\* Every step of the check or of another thread keeps what has been found.
LEMMA MonStep == MonInv /\ [Monitoring \/ ProxyStep]_mvars => MonInv'
<1> SUFFICES ASSUME MonInv, [Monitoring \/ ProxyStep]_mvars PROVE MonInv'
  OBVIOUS
<1>1. CASE UNCHANGED mvars
  BY <1>1 DEF mvars, vars, checking, loading, using, MonInv, TypeOK, Undisturbed, InMiddle,
              Item, Right, Registration
<1>2. CASE ProxyStep
  <2>1. TypeOK'
    BY <1>2, TypeStep DEF ProxyStep, MonInv
  <2>2. \A n \in calm' : n \in calm /\ n \in Names /\ Undisturbed(n)'
    BY <1>2 DEF ProxyStep, MonInv
  <2>3. \A n \in calm' : store'[n] = store[n] /\ allowed'[n] = allowed[n]
    BY <1>2, <2>2, CalmStep DEF ProxyStep, MonInv
  <2>4. \A n \in calm' : Right(n)' = Right(n)
    BY <2>3 DEF Right
  <2>5. UNCHANGED <<mpc, handles, risk, vaultAuth, alert>>
    BY <1>2 DEF ProxyStep, checking
  <2> QED BY <2>1, <2>2, <2>3, <2>4, <2>5 DEF MonInv
<1>3. CASE Monitoring
  <2>0. Monitoring => UNCHANGED vars
    BY DEF Monitoring, CheckBegins, HandlesListed, LooksUp, AsksVault, Reports
  <2>1. TypeOK'
    BY <1>3, <2>0, TypeStep DEF MonInv
  <2>2. /\ \A n \in Names : (Right(n)' = Right(n)) /\ (Undisturbed(n)' <=> Undisturbed(n))
        /\ store' = store
    BY <1>3, <2>0 DEF vars, loading, Right, Undisturbed, InMiddle, Item
  <2>3. CASE CheckBegins
    BY <2>1, <2>2, <2>3 DEF CheckBegins, MonInv, Listed, NoReport
  <2>4. CASE HandlesListed
    <3>1. CASE handles = Listed
      <4>1. \A n \in calm : n \notin handles => risk[n] = Right(n)
        BY <2>4 DEF HandlesListed, MonInv, NoReport, Right
      <4> QED BY <2>1, <2>2, <2>4, <3>1, <4>1 DEF HandlesListed, MonInv
    <3>2. CASE handles # Listed
      BY <2>1, <2>2, <2>4, <3>2 DEF HandlesListed, MonInv
    <3> QED BY <3>1, <3>2
  <2>5. ASSUME NEW n \in Names, LooksUp(n) PROVE MonInv'
    <3>1. risk' = [risk EXCEPT ![n] = Risk(Cardinality(allowed[n]))]
          /\ handles' = handles \ {n} /\ mpc = "looking" /\ n \in handles
          /\ UNCHANGED <<mpc, calm, store>>
      BY <2>5 DEF LooksUp, vars
    <3>2. Risk(Cardinality(allowed[n])) \in {"critical", "warning", "ok"}
      BY DEF Risk
    <3>3. \A m \in calm : m \notin handles' => risk'[m] = Right(m)
      BY <3>1 DEF MonInv, Right
    <3> QED BY <2>1, <2>2, <3>1, <3>2, <3>3 DEF MonInv
  <2>6. CASE AsksVault
    BY <2>1, <2>2, <2>6 DEF AsksVault, MonInv
  <2>7. CASE Reports
    <3>1. NoReport \in [Names -> {"unlisted", "critical", "warning", "ok"}]
      BY DEF NoReport
    <3> QED BY <2>1, <2>2, <2>7, <3>1 DEF Reports, MonInv
  <2> QED BY <1>3, <2>3, <2>4, <2>5, <2>6, <2>7 DEF Monitoring
<1> QED BY <1>1, <1>2, <1>3

\* At the end of a check the report is the property.
LEMMA ReportFollows == MonInv => ReportHolds
<1> SUFFICES ASSUME MonInv, mpc = "reported" PROVE ReportHolds
  BY DEF ReportHolds
<1>1. \A n \in calm : risk[n] = Right(n)
  BY DEF MonInv
<1>2. ASSUME NEW n \in Names
      PROVE  Right(n) = "critical" <=> store[n] # None /\ allowed[n] = {}
  <2>1. allowed[n] \in SUBSET Domains
    BY DEF MonInv, TypeOK
  <2>2. Cardinality(allowed[n]) = 0 <=> allowed[n] = {}
    BY <2>1, MonitorAssumption, FS_Subset, FS_EmptySet
  <2> QED BY <2>2 DEF Right, Risk
<1>3. calm = Names =>
        (alert <=> vaultAuth = "no" \/ \E n \in Names : store[n] # None /\ allowed[n] = {})
  BY <1>1, <1>2 DEF MonInv
<1> QED BY <1>1, <1>3 DEF ReportHolds, Right

-----------------------------------------------------------------------------
(* The theorems *)

\* Credentials, loads and uses keep their types, and a load never runs past its list.
THEOREM TypeCorrect == Spec => []TypeOK
  BY TypeInit, TypeStep, PTL DEF Spec

\* With any number of loaders, a host is authorised only if some registration of
\* the credential covers it.
THEOREM AlwaysJustified == Spec => []Justified
  BY OriginAlways, PTL DEF OriginInv

\* With one loader, a credential at rest has the secret and the domains of one
\* registration.
THEOREM PairsAreWhole == OneLoader /\ Spec => []WholePair
  BY PairAlways, PTL DEF PairInv

\* With one loader, the secret resolved was registered for the host, unless the
\* credential was registered again during the use.
THEOREM PairsAreKept == OneLoader /\ Spec => []KeepsPair
  BY PairAlways, PTL DEF PairInv

\* With one loader, a load that has returned has put all of its items in force.
THEOREM LoadsAll == OneLoader /\ Spec => []LoadedAll
<1>1. Init => LoadInv
  BY DEF Init, LoadInv
<1>2. OneLoader /\ PairInv /\ LoadInv /\ [Next]_vars => LoadInv'
  BY LoadStep
<1>3. PairInv /\ LoadInv => LoadedAll
  <2> SUFFICES ASSUME PairInv, LoadInv, NEW l \in Loaders, lpc[l] = "loaded",
                      NEW i \in DOMAIN list[l]
               PROVE  Done(l, i, Len(list[l]))
    BY DEF LoadedAll, Done
  <2>1. DOMAIN list[l] = 1..Len(list[l])
    BY DEF PairInv, OriginInv, TypeOK
  <2> QED BY <2>1 DEF LoadInv
<1>4. CASE OneLoader
  BY <1>1, <1>2, <1>3, <1>4, PairAlways, PTL DEF Spec
<1>5. CASE ~OneLoader
  BY <1>5
<1> QED BY <1>4, <1>5

\* With any number of loaders, a report is true of the credentials that nobody
\* registered since the check began.
THEOREM ReportsHold == MSpec => []ReportHolds
<1>1. MInit => MonInv
  BY TypeInit DEF MInit, MonInv, NoReport
<1>2. MonInv /\ [Monitoring \/ ProxyStep]_mvars => MonInv'
  BY MonStep
<1>3. MonInv => ReportHolds
  BY ReportFollows
<1> QED BY <1>1, <1>2, <1>3, PTL DEF MSpec
=============================================================================
