----------------------- MODULE TrackedOrderBookProofs -----------------------
(***************************************************************************)
(* Proof that the self-trade registry, with one order inline or several in *)
(* a map, implements the abstract registry, that the stand-alone order     *)
(* book keeps the registry informed of every resting order, and that only  *)
(* Clear leaves it with others, for any accounts, orders and quantities.   *)
(***************************************************************************)
EXTENDS TrackedOrderBook, Sums, FunctionTheorems, TLAPS

-----------------------------------------------------------------------------
(* Maps of orders.                                                         *)

LEMMA InfoMapDomain ==
  ASSUME NEW f
  PROVE  f \in InfoMap <=> DOMAIN f \subseteq OrderId /\ f \in [DOMAIN f -> Info]
BY DEF InfoMap

LEMMA InfoMapNotNil == \A f \in InfoMap : f # NoMap
BY RegistryAssumption

LEMMA PutInfo ==
  ASSUME NEW f \in InfoMap, NEW info \in Info
  PROVE  /\ Put(f, info.id, info) \in InfoMap
         /\ DOMAIN Put(f, info.id, info) = DOMAIN f \cup {info.id}
         /\ Put(f, info.id, info)[info.id] = info
         /\ \A k \in DOMAIN f \ {info.id} : Put(f, info.id, info)[k] = f[k]
<1>1. DOMAIN f \subseteq OrderId /\ f \in [DOMAIN f -> Info] /\ info.id \in OrderId
  BY InfoMapDomain DEF Info
<1>2. /\ DOMAIN Put(f, info.id, info) = DOMAIN f \cup {info.id}
      /\ Put(f, info.id, info) \in [DOMAIN f \cup {info.id} -> Info]
  BY <1>1 DEF Put
<1> QED
  BY <1>1, <1>2, InfoMapDomain DEF Put

LEMMA DropInfo ==
  ASSUME NEW f \in InfoMap, NEW i
  PROVE  /\ Drop(f, i) \in InfoMap
         /\ DOMAIN Drop(f, i) = DOMAIN f \ {i}
         /\ \A k \in DOMAIN f \ {i} : Drop(f, i)[k] = f[k]
<1>1. DOMAIN f \subseteq OrderId /\ f \in [DOMAIN f -> Info]
  BY InfoMapDomain
<1>2. /\ DOMAIN Drop(f, i) = DOMAIN f \ {i}
      /\ Drop(f, i) \in [DOMAIN f \ {i} -> Info]
  BY <1>1 DEF Drop
<1> QED
  BY <1>1, <1>2, InfoMapDomain DEF Drop

\* The map with one order.
LEMMA PutFirst ==
  ASSUME NEW info \in Info
  PROVE  /\ Put(EmptyBook, info.id, info) \in InfoMap
         /\ DOMAIN Put(EmptyBook, info.id, info) = {info.id}
         /\ Put(EmptyBook, info.id, info)[info.id] = info
<1> DEFINE e == EmptyBook
<1>1. e \in InfoMap /\ DOMAIN e = {}
  BY InfoMapDomain DEF EmptyBook
<1> HIDE DEF e
<1>2. /\ Put(e, info.id, info) \in InfoMap
      /\ DOMAIN Put(e, info.id, info) = DOMAIN e \cup {info.id}
      /\ Put(e, info.id, info)[info.id] = info
  BY <1>1, PutInfo
<1> QED
  BY <1>1, <1>2 DEF e

\* An order kept inline stands for the map with that order alone.
LEMMA InlineSet ==
  ASSUME NEW info \in Info
  PROVE  /\ SetWellFormed(Inline(info))
         /\ AsMap(Inline(info)) = Put(EmptyBook, info.id, info)
         /\ Members(Inline(info)) = {info.id}
BY DEF AsMap, Inline, SetWellFormed, Members

\* The map a set stands for is keyed by the ids of its entries.
LEMMA AsMapKeyed ==
  ASSUME NEW set, SetWellFormed(set)
  PROVE  /\ AsMap(set) \in InfoMap /\ DOMAIN AsMap(set) = Members(set)
         /\ \A k \in DOMAIN AsMap(set) : AsMap(set)[k].id = k
<1>1. set.single \in Info /\ (set.orders # NoMap => set.orders \in InfoMap)
  BY DEF SetWellFormed
<1>2. CASE set.orders = NoMap
  <2> DEFINE f == Put(EmptyBook, set.single.id, set.single)
  <2>1. AsMap(set) = f /\ Members(set) = {set.single.id}
    BY <1>2 DEF AsMap, Members
  <2>2. f \in InfoMap /\ DOMAIN f = {set.single.id} /\ f[set.single.id] = set.single
    BY <1>1, PutFirst
  <2> HIDE DEF f
  <2> QED
    BY <2>1, <2>2
<1>3. CASE set.orders # NoMap
  BY <1>1, <1>3 DEF AsMap, Members, SetWellFormed
<1> QED
  BY <1>2, <1>3

-----------------------------------------------------------------------------
(* What registering and unregistering do to the map a set stands for.      *)

\* The inline order replaced, or all orders in a map: the map gains one entry.
LEMMA JoinedMap ==
  ASSUME NEW set, SetWellFormed(set), NEW info \in Info
  PROVE  /\ SetWellFormed(Joined(set, info))
         /\ AsMap(Joined(set, info)) \in InfoMap
         /\ DOMAIN AsMap(Joined(set, info)) = DOMAIN AsMap(set) \cup {info.id}
         /\ AsMap(Joined(set, info))[info.id] = info
         /\ \A k \in DOMAIN AsMap(set) \ {info.id} : AsMap(Joined(set, info))[k] = AsMap(set)[k]
<1> DEFINE m == AsMap(set)
           p == Put(m, info.id, info)
<1>1. /\ m \in InfoMap /\ DOMAIN m = Members(set) /\ \A k \in DOMAIN m : m[k].id = k
  BY AsMapKeyed
<1>2. CASE set.orders = NoMap /\ set.single.id = info.id
  <2>1. Joined(set, info) = Inline(info) /\ Members(set) = {info.id}
    BY <1>2 DEF Joined, Members
  <2> HIDE DEF m
  <2> QED
    BY <1>1, <2>1, InlineSet, PutFirst DEF m
<1>3. CASE ~(set.orders = NoMap /\ set.single.id = info.id)
  <2>1. /\ p \in InfoMap /\ DOMAIN p = DOMAIN m \cup {info.id} /\ p[info.id] = info
        /\ \A k \in DOMAIN m \ {info.id} : p[k] = m[k]
    <3> HIDE DEF m
    <3> QED
      BY <1>1, PutInfo
  <2>2. p # NoMap
    BY <2>1, InfoMapNotNil
  <2> DEFINE n == [set EXCEPT !.orders = p]
  <2>3. Joined(set, info) = n
    BY <1>3 DEF Joined
  <2>4. \E j, k \in DOMAIN p : j # k
    <3>1. CASE set.orders = NoMap
      <4>1. set.single.id \in DOMAIN m /\ set.single.id # info.id
        BY <1>1, <1>3, <3>1 DEF Members
      <4> HIDE DEF m, p
      <4> QED
        BY <2>1, <4>1
    <3>2. CASE set.orders # NoMap
      <4>1. \E j, k \in DOMAIN m : j # k
        BY <3>2 DEF SetWellFormed, AsMap
      <4> HIDE DEF m, p
      <4> QED
        BY <2>1, <4>1
    <3> QED
      BY <3>1, <3>2
  <2> HIDE DEF p, m
  <2>5. n.orders = p /\ n \in [single : Info, orders : InfoMap \cup {NoMap}]
    BY <2>1 DEF SetWellFormed
  <2> HIDE DEF n
  <2>6. AsMap(n) = p
    BY <2>2, <2>5 DEF AsMap
  <2>7. \A k \in DOMAIN p : p[k].id = k
    BY <1>1, <2>1
  <2>8. SetWellFormed(n)
    BY <2>4, <2>5, <2>7 DEF SetWellFormed
  <2> QED
    BY <2>1, <2>3, <2>6, <2>8 DEF m
<1> QED
  BY <1>2, <1>3

\* The inline order kept, or the last of a map put inline again: the map loses
\* one entry, if there is another.
LEMMA ReducedMap ==
  ASSUME NEW set, SetWellFormed(set), NEW i, ~(Members(set) \subseteq {i})
  PROVE  /\ SetWellFormed(Reduced(set, i))
         /\ AsMap(Reduced(set, i)) \in InfoMap
         /\ DOMAIN AsMap(Reduced(set, i)) = DOMAIN AsMap(set) \ {i}
         /\ \A k \in DOMAIN AsMap(set) \ {i} : AsMap(Reduced(set, i))[k] = AsMap(set)[k]
<1> DEFINE m == AsMap(set)
<1>1. m \in InfoMap /\ DOMAIN m = Members(set) /\ \A k \in DOMAIN m : m[k].id = k
  BY AsMapKeyed
<1>2. CASE set.orders = NoMap
  <2>1. Reduced(set, i) = set /\ Members(set) \ {i} = Members(set)
    BY <1>2 DEF Reduced, Members
  <2> QED
    BY <1>1, <2>1
<1>3. CASE set.orders # NoMap /\ \E k \in DOMAIN set.orders : Members(set) \ {i} = {k}
  <2>1. PICK k \in DOMAIN m :
          Members(set) \ {i} = {k} /\ Reduced(set, i) = Inline(m[k])
    BY <1>3 DEF Reduced, AsMap
  <2>2. m[k] \in Info /\ m[k].id = k
    BY <1>1, InfoMapDomain
  <2>3. /\ SetWellFormed(Inline(m[k])) /\ AsMap(Inline(m[k])) \in InfoMap
        /\ DOMAIN AsMap(Inline(m[k])) = {k} /\ AsMap(Inline(m[k]))[k] = m[k]
    BY <2>2, InlineSet, PutFirst
  <2> HIDE DEF m
  <2> QED
    BY <1>1, <2>1, <2>3 DEF m
<1>4. CASE set.orders # NoMap /\ ~\E k \in DOMAIN set.orders : Members(set) \ {i} = {k}
  <2> DEFINE d == Drop(m, i)
             n == [set EXCEPT !.orders = d]
  <2>1. m = set.orders /\ Reduced(set, i) = n
    BY <1>4 DEF Reduced, AsMap
  <2>2. /\ d \in InfoMap /\ DOMAIN d = DOMAIN m \ {i}
        /\ \A k \in DOMAIN m \ {i} : d[k] = m[k]
    <3> HIDE DEF m
    <3> QED
      BY <1>1, DropInfo
  <2>3. \E j, k \in DOMAIN d : j # k
    <3>1. PICK j \in DOMAIN m : j # i
      BY <1>1
    <3>2. \E k \in DOMAIN m : k # i /\ k # j
      BY <1>1, <1>4, <2>1, <3>1
    <3> HIDE DEF m, d
    <3> QED
      BY <2>2, <3>1, <3>2
  <2>4. d # NoMap
    BY <2>2, InfoMapNotNil
  <2> HIDE DEF m, d
  <2>5. n.orders = d /\ n \in [single : Info, orders : InfoMap \cup {NoMap}]
    BY <2>2 DEF SetWellFormed
  <2> HIDE DEF n
  <2>6. AsMap(n) = d
    BY <2>4, <2>5 DEF AsMap
  <2>7. SetWellFormed(n)
    BY <1>1, <2>2, <2>3, <2>5 DEF SetWellFormed
  <2> QED
    BY <2>1, <2>2, <2>6, <2>7 DEF m
<1> QED
  BY <1>2, <1>3, <1>4

-----------------------------------------------------------------------------
(* The registrations in force.                                             *)

LEMMA BySideMap ==
  ASSUME NEW set, SetWellFormed(set), NEW s
  PROVE  BySide(set, s) = {k \in DOMAIN AsMap(set) : AsMap(set)[k].side = s}
<1> DEFINE m == AsMap(set)
<1>1. \A k \in DOMAIN m : m[k].id = k
  BY AsMapKeyed
<1>2. BySide(set, s) = {m[k].id : k \in {j \in DOMAIN m : m[j].side = s}}
  BY DEF BySide
<1> HIDE DEF m
<1> QED
  BY <1>1, <1>2 DEF m

Triple == [account : Account, order : OrderId, side : Side]

\* Order i is registered for account a with side s.
Holds(f, a, i, s) == a \in DOMAIN f /\ i \in DOMAIN AsMap(f[a]) /\ AsMap(f[a])[i].side = s

LEMMA RegistrationsHold ==
  ASSUME SetsWellFormed
  PROVE  \A r \in Triple : r \in Registrations <=> Holds(accountOrders, r.account, r.order, r.side)
BY BySideMap DEF SetsWellFormed, Registrations, GetAccountOrdersBySide, Holds, Triple

LEMMA RegistrationsHoldNext ==
  ASSUME SetsWellFormed'
  PROVE  \A r \in Triple : r \in Registrations' <=> Holds(accountOrders', r.account, r.order, r.side)
BY BySideMap DEF SetsWellFormed, Registrations, GetAccountOrdersBySide, Holds, Triple

LEMMA RegisterOrderEffect ==
  ASSUME SetsWellFormed, NEW i \in OrderId, NEW a \in Account, NEW s \in Side,
         RegisterOrder(i, a, s)
  PROVE  SetsWellFormed' /\ Abstract!Register(i, a, s)
<1> DEFINE info == [id |-> i, side |-> s]
           f == accountOrders
           set == IF a \in DOMAIN f THEN Joined(f[a], info) ELSE Inline(info)
<1>1. info \in Info /\ info.id = i /\ info.side = s
  BY DEF Info
<1>2. f' = Put(f, a, set)
  BY DEF RegisterOrder
<1> HIDE DEF info
<1>3. /\ SetWellFormed(set) /\ i \in DOMAIN AsMap(set) /\ AsMap(set)[i] = info
      /\ a \in DOMAIN f => /\ DOMAIN AsMap(set) = DOMAIN AsMap(f[a]) \cup {i}
                           /\ \A k \in DOMAIN AsMap(f[a]) \ {i} : AsMap(set)[k] = AsMap(f[a])[k]
      /\ a \notin DOMAIN f => DOMAIN AsMap(set) = {i}
  <2>1. CASE a \in DOMAIN f
    <3>1. SetWellFormed(f[a])
      BY <2>1 DEF SetsWellFormed
    <3> QED
      BY <1>1, <2>1, <3>1, JoinedMap
  <2>2. CASE a \notin DOMAIN f
    BY <1>1, <2>2, InlineSet, PutFirst
  <2> QED
    BY <2>1, <2>2
<1> HIDE DEF set
<1>4. DOMAIN f' = DOMAIN f \cup {a} /\ f'[a] = set /\ \A b \in DOMAIN f \ {a} : f'[b] = f[b]
  BY <1>2 DEF Put
<1>5. SetsWellFormed'
  BY <1>3, <1>4 DEF SetsWellFormed
<1> DEFINE t == [account |-> a, order |-> i, side |-> s]
<1>6. \A r \in Triple : r \in Registrations' <=> \/ r = t
                                                \/ /\ r \in Registrations
                                                   /\ ~(r.account = a /\ r.order = i)
  <2> SUFFICES ASSUME NEW r \in Triple
               PROVE  r \in Registrations' <=> \/ r = t
                                               \/ /\ r \in Registrations
                                                  /\ ~(r.account = a /\ r.order = i)
    OBVIOUS
  <2>1. /\ r \in Registrations <=> Holds(f, r.account, r.order, r.side)
        /\ r \in Registrations' <=> Holds(f', r.account, r.order, r.side)
    BY <1>5, RegistrationsHold, RegistrationsHoldNext
  <2>2. r = t <=> r.account = a /\ r.order = i /\ r.side = s
    BY DEF Triple
  <2> HIDE DEF t, f
  <2>3. CASE r.account # a
    BY <1>4, <2>1, <2>2, <2>3 DEF Holds
  <2>4. CASE r.account = a /\ r.order # i
    BY <1>3, <1>4, <2>1, <2>2, <2>4 DEF Holds
  <2>5. CASE r.account = a /\ r.order = i
    BY <1>1, <1>3, <1>4, <2>1, <2>2, <2>5 DEF Holds
  <2> QED
    BY <2>3, <2>4, <2>5
<1>7. /\ Registrations \subseteq Triple /\ Registrations' \subseteq Triple /\ t \in Triple
  BY DEF Registrations, Triple
<1>8. Registrations' = (Registrations \ {r \in Registrations : r.account = a /\ r.order = i}) \cup {t}
  <2> HIDE DEF t
  <2> QED
    BY <1>6, <1>7
<1> QED
  BY <1>5, <1>8 DEF Abstract!Register, Abstract!Of

LEMMA UnregisterOrderEffect ==
  ASSUME SetsWellFormed, NEW i \in OrderId, NEW a \in Account, UnregisterOrder(i, a)
  PROVE  SetsWellFormed' /\ Abstract!Unregister(i, a)
<1> DEFINE f == accountOrders
<1>1. \A b \in DOMAIN f : SetWellFormed(f[b]) /\ DOMAIN AsMap(f[b]) = Members(f[b])
  BY AsMapKeyed DEF SetsWellFormed
<1>2. /\ SetsWellFormed'
      /\ \A b, k, s : Holds(f', b, k, s) <=> Holds(f, b, k, s) /\ ~(b = a /\ k = i)
  <2>1. CASE a \notin DOMAIN f
    <3>1. f' = f
      BY <2>1 DEF UnregisterOrder
    <3> QED
      BY <2>1, <3>1 DEF SetsWellFormed, Holds
  <2>2. CASE a \in DOMAIN f /\ Members(f[a]) \subseteq {i}
    <3>1. f' = Drop(f, a)
      BY <2>2 DEF UnregisterOrder
    <3>2. DOMAIN f' = DOMAIN f \ {a} /\ \A b \in DOMAIN f \ {a} : f'[b] = f[b]
      BY <3>1 DEF Drop
    <3>3. SetsWellFormed'
      BY <3>2 DEF SetsWellFormed
    <3> HIDE DEF f
    <3> QED
      BY <1>1, <2>2, <3>2, <3>3 DEF Holds
  <2>3. CASE a \in DOMAIN f /\ ~(Members(f[a]) \subseteq {i})
    <3> DEFINE set == Reduced(f[a], i)
    <3>1. f' = [f EXCEPT ![a] = set]
      BY <2>3 DEF UnregisterOrder
    <3>2. /\ SetWellFormed(set)
          /\ DOMAIN AsMap(set) = DOMAIN AsMap(f[a]) \ {i}
          /\ \A k \in DOMAIN AsMap(f[a]) \ {i} : AsMap(set)[k] = AsMap(f[a])[k]
      BY <1>1, <2>3, ReducedMap
    <3> HIDE DEF set
    <3>3. DOMAIN f' = DOMAIN f /\ f'[a] = set /\ \A b \in DOMAIN f \ {a} : f'[b] = f[b]
      BY <2>3, <3>1
    <3>4. SetsWellFormed'
      BY <3>2, <3>3 DEF SetsWellFormed
    <3> HIDE DEF f
    <3> QED
      BY <2>3, <3>2, <3>3, <3>4 DEF Holds
  <2> QED
    BY <2>1, <2>2, <2>3 DEF UnregisterOrder
<1>3. \A r \in Triple : r \in Registrations' <=> r \in Registrations /\ ~(r.account = a /\ r.order = i)
  BY <1>2, RegistrationsHold, RegistrationsHoldNext
<1>4. Registrations \subseteq Triple /\ Registrations' \subseteq Triple
  BY DEF Registrations, Triple
<1>5. Registrations' = Registrations \ {r \in Registrations : r.account = a /\ r.order = i}
  BY <1>3, <1>4
<1> QED
  BY <1>2, <1>5 DEF Abstract!Unregister, Abstract!Of

LEMMA ClearRegistryEffect ==
  ASSUME accountOrders' = EmptyBook
  PROVE  SetsWellFormed' /\ Registrations' = {}
BY DEF EmptyBook, SetsWellFormed, Registrations, GetAccountOrdersBySide

-----------------------------------------------------------------------------
(* The theorems about the registry.                                        *)

LEMMA RegistryStep ==
  ASSUME SetsWellFormed, [RegistryNext]_accountOrders
  PROVE  SetsWellFormed' /\ [Abstract!Next]_Registrations
<1>1. ASSUME NEW i \in OrderId, NEW a \in Account, NEW s \in Side, RegisterOrder(i, a, s)
      PROVE  SetsWellFormed' /\ Abstract!Next
  BY <1>1, RegisterOrderEffect DEF Abstract!Next
<1>2. ASSUME NEW i \in OrderId, NEW a \in Account, UnregisterOrder(i, a)
      PROVE  SetsWellFormed' /\ Abstract!Next
  BY <1>2, UnregisterOrderEffect DEF Abstract!Next
<1>3. CASE ClearRegistry
  BY <1>3, ClearRegistryEffect DEF ClearRegistry, Abstract!Next, Abstract!Clear
<1>4. CASE UNCHANGED accountOrders
  BY <1>4 DEF SetsWellFormed, Registrations, GetAccountOrdersBySide
<1> QED
  BY <1>1, <1>2, <1>3, <1>4 DEF RegistryNext

LEMMA RegistryStart ==
  ASSUME RegistryInit
  PROVE  SetsWellFormed /\ Abstract!Init
BY DEF RegistryInit, EmptyBook, SetsWellFormed, Registrations, GetAccountOrdersBySide,
       Abstract!Init

\* An account's set has a map exactly when it has several orders, keyed by id.
THEOREM RegistryInvariant == RegistrySpec => []SetsWellFormed
BY RegistryStart, RegistryStep, PTL DEF RegistrySpec

\* Whatever is registered and unregistered: the getters answer like a registry
\* that keeps one set of registrations.
THEOREM RegistryImplemented == RegistrySpec => ImplementsRegistry
<1>1. RegistryInit => Abstract!Init
  BY RegistryStart
<1>2. SetsWellFormed /\ [RegistryNext]_accountOrders => [Abstract!Next]_Registrations
  BY RegistryStep
<1> QED
  BY <1>1, <1>2, RegistryInvariant, PTL
     DEF RegistrySpec, ImplementsRegistry, Abstract!Spec

-----------------------------------------------------------------------------
(* The counts.                                                             *)

\* The registry is finite.
RegistryFinite ==
  /\ IsFiniteSet(DOMAIN accountOrders)
  /\ \A a \in DOMAIN accountOrders : IsFiniteSet(Members(accountOrders[a]))

LEMMA RegistryFiniteStep ==
  ASSUME SetsWellFormed, RegistryFinite, [RegistryNext]_accountOrders
  PROVE  RegistryFinite'
<1>1. ASSUME NEW i \in OrderId, NEW a \in Account, NEW s \in Side, RegisterOrder(i, a, s)
      PROVE  RegistryFinite'
  <2> DEFINE info == [id |-> i, side |-> s]
             f == accountOrders
             set == IF a \in DOMAIN f THEN Joined(f[a], info) ELSE Inline(info)
  <2>1. info \in Info
    BY DEF Info
  <2>2. f' = Put(f, a, set)
    BY <1>1 DEF RegisterOrder
  <2> HIDE DEF info
  <2>3. IsFiniteSet(Members(set))
    <3>1. CASE a \in DOMAIN f
      <4>1. SetWellFormed(f[a]) /\ IsFiniteSet(Members(f[a]))
        BY <3>1 DEF SetsWellFormed, RegistryFinite
      <4>2. SetWellFormed(set) /\ DOMAIN AsMap(set) = DOMAIN AsMap(f[a]) \cup {info.id}
        BY <2>1, <3>1, <4>1, JoinedMap
      <4>3. Members(set) = Members(f[a]) \cup {info.id}
        BY <4>1, <4>2, AsMapKeyed
      <4> QED
        BY <4>1, <4>3, FS_AddElement
    <3>2. CASE a \notin DOMAIN f
      <4>1. Members(set) = {info.id}
        BY <2>1, <3>2, InlineSet
      <4> QED
        BY <4>1, FS_Singleton
    <3> QED
      BY <3>1, <3>2
  <2> HIDE DEF set
  <2>4. DOMAIN f' = DOMAIN f \cup {a} /\ f'[a] = set /\ \A b \in DOMAIN f \ {a} : f'[b] = f[b]
    BY <2>2 DEF Put
  <2>5. IsFiniteSet(DOMAIN f')
    BY <2>4, FS_AddElement DEF RegistryFinite
  <2> QED
    BY <2>3, <2>4, <2>5 DEF RegistryFinite
<1>2. ASSUME NEW i \in OrderId, NEW a \in Account, UnregisterOrder(i, a)
      PROVE  RegistryFinite'
  <2> DEFINE f == accountOrders
  <2>1. CASE a \notin DOMAIN f
    BY <1>2, <2>1 DEF UnregisterOrder, RegistryFinite
  <2>2. CASE a \in DOMAIN f /\ Members(f[a]) \subseteq {i}
    <3>1. DOMAIN f' = DOMAIN f \ {a} /\ \A b \in DOMAIN f \ {a} : f'[b] = f[b]
      BY <1>2, <2>2 DEF UnregisterOrder, Drop
    <3>2. IsFiniteSet(DOMAIN f')
      BY <3>1, FS_RemoveElement DEF RegistryFinite
    <3> QED
      BY <3>1, <3>2 DEF RegistryFinite
  <2>3. CASE a \in DOMAIN f /\ ~(Members(f[a]) \subseteq {i})
    <3> DEFINE set == Reduced(f[a], i)
    <3>1. f' = [f EXCEPT ![a] = set]
      BY <1>2, <2>3 DEF UnregisterOrder
    <3>2. SetWellFormed(f[a]) /\ DOMAIN AsMap(f[a]) = Members(f[a]) /\ IsFiniteSet(Members(f[a]))
      BY <2>3, AsMapKeyed DEF SetsWellFormed, RegistryFinite
    <3>3. SetWellFormed(set) /\ DOMAIN AsMap(set) = DOMAIN AsMap(f[a]) \ {i}
      BY <2>3, <3>2, ReducedMap
    <3> HIDE DEF set
    <3>4. IsFiniteSet(Members(set))
      <4>1. Members(set) = Members(f[a]) \ {i}
        BY <3>2, <3>3, AsMapKeyed
      <4> QED
        BY <3>2, <4>1, FS_RemoveElement
    <3>5. DOMAIN f' = DOMAIN f /\ f'[a] = set /\ \A b \in DOMAIN f \ {a} : f'[b] = f[b]
      BY <2>3, <3>1
    <3> QED
      BY <3>4, <3>5 DEF RegistryFinite
  <2> QED
    BY <2>1, <2>2, <2>3
<1>3. CASE ClearRegistry
  <2>1. DOMAIN accountOrders' = {}
    BY <1>3 DEF ClearRegistry, EmptyBook
  <2> QED
    BY <2>1, FS_EmptySet DEF RegistryFinite
<1>4. CASE UNCHANGED accountOrders
  BY <1>4 DEF RegistryFinite
<1> QED
  BY <1>1, <1>2, <1>3, <1>4 DEF RegistryNext

LEMMA RegistryFinitely == RegistrySpec => []RegistryFinite
<1>1. RegistryInit => RegistryFinite
  <2>1. RegistryInit => DOMAIN accountOrders = {}
    BY DEF RegistryInit, EmptyBook
  <2> QED
    BY <2>1, FS_EmptySet DEF RegistryFinite
<1>2. SetsWellFormed /\ RegistryFinite /\ [RegistryNext]_accountOrders => RegistryFinite'
  BY RegistryFiniteStep
<1> QED
  BY <1>1, <1>2, RegistryInvariant, PTL DEF RegistrySpec

\* An account has as many registrations as members.
LEMMA AccountRegistrations ==
  ASSUME SetsWellFormed, NEW a \in DOMAIN accountOrders, IsFiniteSet(Members(accountOrders[a]))
  PROVE  LET R == {r \in Registrations : r.account = a}
         IN IsFiniteSet(R) /\ Cardinality(R) = Cardinality(Members(accountOrders[a]))
<1> DEFINE R == {r \in Registrations : r.account = a}
<1>1. PICK m, M : m = AsMap(accountOrders[a]) /\ M = Members(accountOrders[a])
  OBVIOUS
<1>2. m \in InfoMap /\ DOMAIN m = M /\ a \in Account
  BY <1>1, AsMapKeyed DEF SetsWellFormed
<1>3. M \subseteq OrderId /\ \A i \in M : m[i].side \in Side
  BY <1>2, InfoMapDomain DEF Info
<1> DEFINE F == [i \in M |-> [account |-> a, order |-> i, side |-> m[i].side]]
<1>4. \A r \in Triple : r \in R <=> r.account = a /\ r.order \in M /\ m[r.order].side = r.side
  BY <1>1, <1>2, RegistrationsHold DEF Holds
<1>5. R \subseteq Triple
  BY DEF Registrations, Triple
<1> HIDE DEF R
<1>6. \A i \in M : F[i] \in Triple /\ F[i].account = a /\ F[i].order = i /\ F[i].side = m[i].side
  BY <1>2, <1>3 DEF Triple
<1>7. \A r \in Triple : r = [account |-> r.account, order |-> r.order, side |-> r.side]
  BY DEF Triple
<1>8. F \in [M -> R] /\ \A i, j \in M : F[i] = F[j] => i = j
  BY <1>4, <1>6
<1>9. \A r \in R : r.order \in M /\ F[r.order] = r
  BY <1>4, <1>5, <1>7
<1> HIDE DEF F
<1>10. F \in Bijection(M, R)
  BY <1>8, <1>9, Fun_IsBij
<1>11. ExistsBijection(M, R)
  BY <1>10, Fun_ExistsBij
<1>12. IsFiniteSet(R) /\ Cardinality(R) = Cardinality(M)
  BY <1>1, <1>11, FS_Bijection
<1> QED
  BY <1>1, <1>12 DEF R

\* The orders of an account, those of each of its sides, and the count of GetStats are
\* about the same registrations.
THEOREM RegistryGettersAgree == RegistrySpec => []GettersAgree
<1>1. ASSUME SetsWellFormed, NEW a \in Account
      PROVE  GetAccountOrders(a) = UNION {GetAccountOrdersBySide(a, s) : s \in Side}
  <2>1. CASE a \notin DOMAIN accountOrders
    BY <2>1 DEF GetAccountOrders, GetAccountOrdersBySide
  <2>2. CASE a \in DOMAIN accountOrders
    <3>1. PICK set, m : set = accountOrders[a] /\ m = AsMap(set)
      OBVIOUS
    <3>2. SetWellFormed(set)
      BY <1>1, <2>2, <3>1 DEF SetsWellFormed
    <3>3. m \in InfoMap /\ DOMAIN m = Members(set)
      BY <3>1, <3>2, AsMapKeyed
    <3>4. \A k \in DOMAIN m : m[k].side \in Side
      BY <3>3, InfoMapDomain DEF Info
    <3>5. \A s : GetAccountOrdersBySide(a, s) = {k \in DOMAIN m : m[k].side = s}
      BY <2>2, <3>1, <3>2, BySideMap DEF GetAccountOrdersBySide
    <3>6. GetAccountOrders(a) = DOMAIN m
      BY <2>2, <3>1, <3>3 DEF GetAccountOrders
    <3>7. \A k \in DOMAIN m : \E s \in Side : k \in GetAccountOrdersBySide(a, s)
      BY <3>4, <3>5
    <3>8. \A s \in Side : GetAccountOrdersBySide(a, s) \subseteq DOMAIN m
      BY <3>5
    <3> QED
      BY <3>6, <3>7, <3>8
  <2> QED
    BY <2>1, <2>2
<1>2. ASSUME SetsWellFormed, RegistryFinite
      PROVE  TotalOrders = Cardinality(Registrations)
  <2> DEFINE A == DOMAIN accountOrders
             part == [a \in A |-> {r \in Registrations : r.account = a}]
             f == [a \in A |-> Cardinality(Members(accountOrders[a]))]
  <2>1. IsFiniteSet(A) /\ \A a \in A : IsFiniteSet(Members(accountOrders[a]))
    BY <1>2 DEF RegistryFinite
  <2>2. \A a \in A : IsFiniteSet(part[a]) /\ f[a] = Cardinality(part[a])
    BY <1>2, <2>1, AccountRegistrations
  <2>3. \A r \in Registrations : r.account \in A
    <3>1. Registrations \subseteq Triple
      BY DEF Registrations, Triple
    <3> QED
      BY <1>2, <3>1, RegistrationsHold DEF Holds
  <2>4. UNION {part[a] : a \in A} = Registrations
    BY <2>3
  <2>5. \A j, k \in A : j # k => part[j] \cap part[k] = {}
    OBVIOUS
  <2>6. TotalOrders = SumFunctionOnSet(f, A)
    <3>1. TotalOrders = SumFunction(f) /\ DOMAIN f = A
      BY DEF TotalOrders
    <3> HIDE DEF f, A
    <3> QED
      BY <3>1 DEF SumFunction
  <2> HIDE DEF part, f, A
  <2>7. Cardinality(UNION {part[a] : a \in A}) = SumFunctionOnSet(f, A)
    BY <2>1, <2>2, <2>5, SumOfParts DEF A
  <2> QED
    BY <2>4, <2>6, <2>7
<1>3. SetsWellFormed /\ RegistryFinite => GettersAgree
  BY <1>1, <1>2 DEF GettersAgree
<1> QED
  BY <1>3, RegistryInvariant, RegistryFinitely, PTL

-----------------------------------------------------------------------------
(* What the steps of the order book do.                                    *)

LEMMA AddOrderEffect ==
  ASSUME TypeOK, NEW i \in OrderId, NEW a \in Account, NEW s \in Side, NEW q \in Quantity,
         AddOrder(i, a, s, q)
  PROVE  /\ i \notin DOMAIN coreBook /\ DOMAIN coreBook' = DOMAIN coreBook \cup {i}
         /\ TypeOK'
         /\ RegistrationOf(i)' = [account |-> a, order |-> i, side |-> s]
         /\ \A j \in DOMAIN coreBook : RegistrationOf(j)' = RegistrationOf(j)
         /\ TrackSelfTrade => Abstract!Register(i, a, s)
<1> DEFINE e == [side |-> s, qty |-> q]
<1>1. e \in Entry /\ e.side = s
  BY BookAssumption DEF Entry
<1>2. i \notin DOMAIN coreBook /\ coreBook' = Put(coreBook, i, e) /\ orderAccounts' = Put(orderAccounts, i, a)
  BY DEF AddOrder, InsertOrder
<1> HIDE DEF e
<1>3. /\ DOMAIN coreBook' = DOMAIN coreBook \cup {i} /\ coreBook'[i] = e
      /\ coreBook' \in [DOMAIN coreBook' -> Entry]
      /\ \A j \in DOMAIN coreBook : coreBook'[j] = coreBook[j]
  BY <1>1, <1>2 DEF TypeOK, Put
<1>4. /\ orderAccounts'[i] = a /\ orderAccounts' \in [DOMAIN coreBook' -> Account]
      /\ \A j \in DOMAIN coreBook : orderAccounts'[j] = orderAccounts[j]
  BY <1>2, <1>3 DEF TypeOK, Put
<1>5. SetsWellFormed' /\ (TrackSelfTrade => Abstract!Register(i, a, s))
  <2>1. CASE TrackSelfTrade
    BY <2>1, RegisterOrderEffect DEF AddOrder, TypeOK
  <2>2. CASE ~TrackSelfTrade
    BY <2>2 DEF AddOrder, TypeOK, SetsWellFormed
  <2> QED
    BY <2>1, <2>2
<1> QED
  BY <1>1, <1>2, <1>3, <1>4, <1>5 DEF TypeOK, RegistrationOf

LEMMA RemoveOrderEffect ==
  ASSUME TypeOK, NEW i \in OrderId, RemoveOrder(i)
  PROVE  /\ i \in DOMAIN coreBook /\ DOMAIN coreBook' = DOMAIN coreBook \ {i}
         /\ TypeOK'
         /\ \A j \in DOMAIN coreBook' : RegistrationOf(j)' = RegistrationOf(j)
         /\ TrackSelfTrade => Abstract!Unregister(i, orderAccounts[i])
<1>1. /\ i \in DOMAIN coreBook
      /\ coreBook' = Drop(coreBook, i) /\ orderAccounts' = Drop(orderAccounts, i)
  BY DEF RemoveOrder, DeleteOrder
<1>2. /\ DOMAIN coreBook' = DOMAIN coreBook \ {i}
      /\ coreBook' \in [DOMAIN coreBook' -> Entry]
      /\ \A j \in DOMAIN coreBook' : coreBook'[j] = coreBook[j]
  BY <1>1 DEF TypeOK, Drop
<1>3. /\ orderAccounts' \in [DOMAIN coreBook' -> Account]
      /\ \A j \in DOMAIN coreBook' : orderAccounts'[j] = orderAccounts[j]
  BY <1>1, <1>2 DEF TypeOK, Drop
<1>4. SetsWellFormed' /\ (TrackSelfTrade => Abstract!Unregister(i, orderAccounts[i]))
  <2>1. CASE TrackSelfTrade
    BY <1>1, <2>1, UnregisterOrderEffect DEF RemoveOrder, TypeOK
  <2>2. CASE ~TrackSelfTrade
    BY <2>2 DEF RemoveOrder, TypeOK, SetsWellFormed
  <2> QED
    BY <2>1, <2>2
<1> QED
  BY <1>1, <1>2, <1>3, <1>4 DEF TypeOK, RegistrationOf

LEMMA UpdateOrderEffect ==
  ASSUME TypeOK, NEW i \in OrderId, NEW q \in Amount, UpdateOrder(i, q)
  PROVE  /\ DOMAIN coreBook' = DOMAIN coreBook /\ TypeOK'
         /\ \A j \in DOMAIN coreBook : RegistrationOf(j)' = RegistrationOf(j)
         /\ Registrations' = Registrations
<1>1. /\ orderAccounts' = orderAccounts /\ accountOrders' = accountOrders
      /\ coreBook' = coreBook \/ (q > 0 /\ coreBook' = [coreBook EXCEPT ![i].qty = q])
  BY DEF UpdateOrder, ResizeOrder
<1>2. q \in Int
  BY BookAssumption
<1>3. \A j \in DOMAIN coreBook :
        q > 0 => [coreBook[j] EXCEPT !.qty = q] \in Entry /\ [coreBook[j] EXCEPT !.qty = q].side = coreBook[j].side
  BY <1>2 DEF TypeOK, Entry
<1>4. /\ DOMAIN coreBook' = DOMAIN coreBook
      /\ coreBook' \in [DOMAIN coreBook' -> Entry]
      /\ \A j \in DOMAIN coreBook : coreBook'[j].side = coreBook[j].side
  <2>1. CASE coreBook' = coreBook
    BY <2>1 DEF TypeOK
  <2>2. CASE q > 0 /\ coreBook' = [coreBook EXCEPT ![i].qty = q]
    <3>1. \A j \in DOMAIN coreBook :
            coreBook'[j] = IF j = i THEN [coreBook[j] EXCEPT !.qty = q] ELSE coreBook[j]
      BY <2>2
    <3>2. DOMAIN coreBook' = DOMAIN coreBook /\ coreBook' = [j \in DOMAIN coreBook |-> coreBook'[j]]
      BY <2>2
    <3>3. \A j \in DOMAIN coreBook :
            coreBook'[j] \in Entry /\ coreBook'[j].side = coreBook[j].side
      BY <1>3, <2>2, <3>1 DEF TypeOK
    <3> QED
      BY <3>2, <3>3
  <2> QED
    BY <1>1, <2>1, <2>2
<1>5. SetsWellFormed' /\ Registrations' = Registrations
  BY <1>1 DEF TypeOK, SetsWellFormed, Registrations, GetAccountOrdersBySide
<1>6. TypeOK'
  BY <1>1, <1>4, <1>5 DEF TypeOK
<1>7. \A j \in DOMAIN coreBook : RegistrationOf(j)' = RegistrationOf(j)
  BY <1>1, <1>4 DEF RegistrationOf
<1> QED
  BY <1>4, <1>5, <1>6, <1>7

LEMMA ClearEffect ==
  ASSUME TypeOK, Clear
  PROVE  DOMAIN coreBook' = {} /\ TypeOK'
BY DEF Clear, TypeOK, EmptyBook, SetsWellFormed

-----------------------------------------------------------------------------
(* The theorems about the order book.                                      *)

\* A book that does not track registers nothing.
BookInv ==
  /\ TypeOK /\ RestingRegistered
  /\ ~TrackSelfTrade => Registrations = {}

LEMMA BookStart == Init => BookInv
<1> SUFFICES ASSUME Init PROVE BookInv
  OBVIOUS
<1>1. SetsWellFormed /\ Registrations = {}
  BY RegistryStart DEF Init, Abstract!Init
<1> QED
  BY <1>1 DEF Init, BookInv, TypeOK, RestingRegistered, EmptyBook

LEMMA BookStep ==
  ASSUME BookInv, [Next]_vars
  PROVE  BookInv' /\ [Stale' \subseteq Stale \/ Clear]_vars
<1>0. TypeOK /\ RestingRegistered /\ (~TrackSelfTrade => Registrations = {})
  BY DEF BookInv
<1>1. ASSUME NEW i \in OrderId, NEW a \in Account, NEW s \in Side, NEW q \in Quantity,
             AddOrder(i, a, s, q)
      PROVE  BookInv' /\ Stale' \subseteq Stale
  <2> DEFINE t == [account |-> a, order |-> i, side |-> s]
  <2>1. /\ i \notin DOMAIN coreBook /\ DOMAIN coreBook' = DOMAIN coreBook \cup {i} /\ TypeOK'
        /\ RegistrationOf(i)' = t
        /\ \A j \in DOMAIN coreBook : RegistrationOf(j)' = RegistrationOf(j)
    BY <1>0, <1>1, AddOrderEffect
  <2>2. \A j \in DOMAIN coreBook : RegistrationOf(j).order = j
    BY DEF RegistrationOf
  <2>3. \/ /\ TrackSelfTrade
           /\ Registrations' = (Registrations \ Abstract!Of(a, i)) \cup {t}
        \/ ~TrackSelfTrade /\ Registrations' = Registrations
    <3>1. CASE TrackSelfTrade
      BY <1>0, <1>1, <3>1, AddOrderEffect DEF Abstract!Register
    <3>2. CASE ~TrackSelfTrade
      BY <1>1, <3>2 DEF AddOrder, Registrations, GetAccountOrdersBySide
    <3> QED
      BY <3>1, <3>2
  <2>4. \A r \in Abstract!Of(a, i) : r.order = i
    BY DEF Abstract!Of
  <2> HIDE DEF t
  <2>5. RestingRegistered'
    BY <1>0, <2>1, <2>2, <2>3, <2>4 DEF RestingRegistered
  <2>6. Stale' \subseteq Stale
    BY <2>1, <2>3 DEF Stale
  <2> QED
    BY <1>0, <2>1, <2>3, <2>5, <2>6 DEF BookInv
<1>2. ASSUME NEW i \in OrderId, RemoveOrder(i)
      PROVE  BookInv' /\ Stale' \subseteq Stale
  <2>1. /\ i \in DOMAIN coreBook /\ DOMAIN coreBook' = DOMAIN coreBook \ {i} /\ TypeOK'
        /\ \A j \in DOMAIN coreBook' : RegistrationOf(j)' = RegistrationOf(j)
    BY <1>0, <1>2, RemoveOrderEffect
  <2>2. \A j \in DOMAIN coreBook : RegistrationOf(j).order = j
    BY DEF RegistrationOf
  <2>3. \/ TrackSelfTrade /\ Registrations' = Registrations \ Abstract!Of(orderAccounts[i], i)
        \/ ~TrackSelfTrade /\ Registrations' = {}
    <3>1. CASE TrackSelfTrade
      BY <1>0, <1>2, <3>1, RemoveOrderEffect DEF Abstract!Unregister
    <3>2. CASE ~TrackSelfTrade
      BY <1>0, <1>2, <3>2 DEF RemoveOrder, Registrations, GetAccountOrdersBySide
    <3> QED
      BY <3>1, <3>2
  <2>4. /\ \A r \in Abstract!Of(orderAccounts[i], i) : r.order = i
        /\ RegistrationOf(i) \in Registrations =>
             RegistrationOf(i) \in Abstract!Of(orderAccounts[i], i)
    BY DEF Abstract!Of, RegistrationOf
  <2>5. RestingRegistered'
    BY <1>0, <2>1, <2>2, <2>3, <2>4 DEF RestingRegistered
  <2>6. Stale' \subseteq Stale
    BY <2>1, <2>3, <2>4 DEF Stale
  <2> QED
    BY <2>1, <2>3, <2>5, <2>6 DEF BookInv
<1>3. ASSUME NEW i \in OrderId, NEW q \in Amount, UpdateOrder(i, q)
      PROVE  BookInv' /\ Stale' \subseteq Stale
  <2>1. /\ DOMAIN coreBook' = DOMAIN coreBook /\ TypeOK'
        /\ \A j \in DOMAIN coreBook : RegistrationOf(j)' = RegistrationOf(j)
        /\ Registrations' = Registrations
    BY <1>0, <1>3, UpdateOrderEffect
  <2> QED
    BY <1>0, <2>1 DEF BookInv, RestingRegistered, Stale
<1>4. CASE Clear
  <2>1. DOMAIN coreBook' = {} /\ TypeOK'
    BY <1>0, <1>4, ClearEffect
  <2>2. Registrations' = Registrations
    BY <1>4 DEF Clear, Registrations, GetAccountOrdersBySide
  <2> QED
    BY <1>0, <1>4, <2>1, <2>2 DEF BookInv, RestingRegistered
<1>5. CASE UNCHANGED vars
  BY <1>0, <1>5 DEF vars, BookInv, TypeOK, SetsWellFormed, RestingRegistered, RegistrationOf,
                    Registrations, GetAccountOrdersBySide
<1> QED
  BY <1>1, <1>2, <1>3, <1>4, <1>5 DEF Next

\* The order book's maps agree on which orders rest, every quantity that rests is
\* positive, and what the registry holds is well formed.
THEOREM BookTypes == Spec => []TypeOK
<1>1. BookInv /\ [Next]_vars => BookInv'
  BY BookStep
<1>2. BookInv => TypeOK
  BY DEF BookInv
<1> QED
  BY <1>1, <1>2, BookStart, PTL DEF Spec

\* The registry knows every resting order, under its account and on its side,
\* whatever Clear has left in it.
THEOREM BookRegistered == Spec => []RestingRegistered
<1>1. BookInv /\ [Next]_vars => BookInv'
  BY BookStep
<1>2. BookInv => RestingRegistered
  BY DEF BookInv
<1> QED
  BY <1>1, <1>2, BookStart, PTL DEF Spec

\* Only Clear leaves the registry with orders that are gone.
THEOREM BookStaleByClear == Spec => StaleByClearOnly
<1>1. BookInv /\ [Next]_vars => BookInv' /\ [Stale' \subseteq Stale \/ Clear]_vars
  BY BookStep
<1> QED
  BY <1>1, BookStart, PTL DEF Spec, StaleByClearOnly
=============================================================================
