--------------------------- MODULE SelfTradeCheck ---------------------------
(***************************************************************************)
(* The registry of the accounts' orders: self_trade.go.  Most accounts     *)
(* have one order, which is kept inline ("single"); an account with        *)
(* several has them in a map ("orders"), and the inline entry is then      *)
(* whatever it was when the map was made.                                  *)
(*                                                                         *)
(* Every operation holds the mutex s.mu from start to end: one step each.  *)
(***************************************************************************)
EXTENDS CoreBook, Functions

CONSTANTS
  Account,    \* account ids
  OrderId,    \* order ids
  NoMap       \* the nil map

\* accountOrderInfo.
Info == [id : OrderId, side : Side]

\* The maps from order ids to accountOrderInfo.
InfoMap == UNION {[S -> Info] : S \in SUBSET OrderId}

ASSUME RegistryAssumption == NoMap \notin InfoMap

VARIABLE accountOrders      \* accountOrderSet by account

RegistryInit == accountOrders = EmptyBook

-----------------------------------------------------------------------------
(* An account's set.                                                       *)

Inline(info) == [single |-> info, orders |-> NoMap]

\* The ids in an account's set.
Members(set) == IF set.orders = NoMap THEN {set.single.id} ELSE DOMAIN set.orders

\* The map an account's set has, or gets when it needs one.
AsMap(set) == IF set.orders = NoMap THEN Put(EmptyBook, set.single.id, set.single) ELSE set.orders

\* The set once an order is registered: the inline order is replaced by itself,
\* by any other order it is moved to a map.
Joined(set, info) ==
  IF set.orders = NoMap /\ set.single.id = info.id
  THEN Inline(info)
  ELSE [set EXCEPT !.orders = Put(AsMap(set), info.id, info)]

\* Faulty: the map is dropped without putting its last order inline.
WithoutStale(set, i) ==
  IF set.orders = NoMap THEN set
  ELSE IF \E k \in DOMAIN set.orders : Members(set) \ {i} = {k}
       THEN [set EXCEPT !.orders = NoMap]
       ELSE [set EXCEPT !.orders = Drop(@, i)]

\* Faulty: a map with one order left stays a map.
WithoutShrinking(set, i) ==
  IF set.orders = NoMap THEN set ELSE [set EXCEPT !.orders = Drop(@, i)]

\* The set once order i is unregistered, if others stay: the last order of a map
\* goes inline again.
Reduced(set, i) ==
  IF set.orders = NoMap THEN set
  ELSE IF \E k \in DOMAIN set.orders : Members(set) \ {i} = {k}
       THEN Inline(set.orders[CHOOSE k \in DOMAIN set.orders : Members(set) \ {i} = {k}])
       ELSE [set EXCEPT !.orders = Drop(@, i)]

-----------------------------------------------------------------------------
(* The operations.                                                         *)

RegisterOrder(i, a, s) ==
  LET info == [id |-> i, side |-> s]
  IN  accountOrders' = Put(accountOrders, a,
                           IF a \in DOMAIN accountOrders
                           THEN Joined(accountOrders[a], info) ELSE Inline(info))

UnregisterOrder(i, a) ==
  accountOrders' =
    IF a \notin DOMAIN accountOrders THEN accountOrders
    ELSE IF Members(accountOrders[a]) \subseteq {i} THEN Drop(accountOrders, a)
    ELSE [accountOrders EXCEPT ![a] = Reduced(@, i)]

ClearRegistry == accountOrders' = EmptyBook

RegistryNext ==
  \/ \E i \in OrderId, a \in Account :
       UnregisterOrder(i, a) \/ \E s \in Side : RegisterOrder(i, a, s)
  \/ ClearRegistry

RegistrySpec == RegistryInit /\ [][RegistryNext]_accountOrders

-----------------------------------------------------------------------------
(* What callers read.                                                      *)

GetAccountOrders(a) ==
  IF a \in DOMAIN accountOrders THEN Members(accountOrders[a]) ELSE {}

\* The orders of one side in an account's set: the ids of its entries, not the
\* keys they are stored under.
BySide(set, s) ==
  LET m == AsMap(set)
  IN  {m[k].id : k \in {j \in DOMAIN m : m[j].side = s}}

GetAccountOrdersBySide(a, s) ==
  IF a \in DOMAIN accountOrders THEN BySide(accountOrders[a], s) ELSE {}

\* Faulty: an account counts as one order.
AccountsAsOrders == Cardinality(DOMAIN accountOrders)

\* TotalOrders of GetStats.
TotalOrders ==
  SumFunction([a \in DOMAIN accountOrders |-> Cardinality(Members(accountOrders[a]))])

-----------------------------------------------------------------------------
(* Properties.                                                             *)

\* A map is there exactly when there are several orders, keyed by their ids.
SetWellFormed(set) ==
  /\ set \in [single : Info, orders : InfoMap \cup {NoMap}]
  /\ set.orders # NoMap =>
       /\ \A k \in DOMAIN set.orders : set.orders[k].id = k
       /\ \E j, k \in DOMAIN set.orders : j # k

\* An account is known while it has orders, and its set is in the form that goes
\* with their number (RegisterOrder and UnregisterOrder change between the two).
SetsWellFormed ==
  /\ DOMAIN accountOrders \subseteq Account
  /\ \A a \in DOMAIN accountOrders : SetWellFormed(accountOrders[a])

\* The registrations in force, as the callers of the getters see them.
Registrations ==
  {r \in [account : Account, order : OrderId, side : Side] :
     r.order \in GetAccountOrdersBySide(r.account, r.side)}

\* The three ways to look agree: the orders of an account, those of each of its
\* sides, and the count of GetStats.
GettersAgree ==
  /\ \A a \in Account :
       GetAccountOrders(a) = UNION {GetAccountOrdersBySide(a, s) : s \in Side}
  /\ TotalOrders = Cardinality(Registrations)

Abstract == INSTANCE AccountRegistry WITH registered <- Registrations

\* Whatever is registered and unregistered, in whatever order, through the
\* changes from inline to map and back: the getters answer like a registry that
\* keeps one set of registrations.
ImplementsRegistry == Abstract!Spec
=============================================================================
