-------------------------- MODULE TrackedOrderBook --------------------------
(***************************************************************************)
(* The stand-alone order book of orderbook.go, which keeps three things    *)
(* that must tell the same story: the core book, the account of each       *)
(* order, and the self-trade registry it is given.  (The matching engine   *)
(* makes its books without the registry.)                                  *)
(*                                                                         *)
(* Every operation holds ob.mu from start to end and enters the registry's *)
(* mutex at most once: one step each.  An operation that returns an error  *)
(* changes nothing, and is not a step.                                     *)
(***************************************************************************)
EXTENDS SelfTradeCheck

CONSTANTS
  TrackSelfTrade,   \* ob.trackSelfTrade
  Quantity,         \* the quantities orders are added with
  Amount            \* the quantities passed to UpdateOrder

ASSUME BookAssumption ==
  /\ TrackSelfTrade \in BOOLEAN
  /\ Quantity \subseteq Nat \ {0}
  /\ Amount \subseteq Int

VARIABLES
  coreBook,         \* the core book; prices and arrivals play no part here
  orderAccounts     \* the account of each order

vars == <<accountOrders, coreBook, orderAccounts>>

Entry == [side : Side, qty : Nat \ {0}]

Init ==
  /\ RegistryInit
  /\ coreBook = EmptyBook
  /\ orderAccounts = EmptyBook

\* Faulty: the order is registered before the book is asked.
AddOrderRegisteringFirst(i, a, s, q) ==
  /\ IF TrackSelfTrade THEN RegisterOrder(i, a, s) ELSE UNCHANGED accountOrders
  /\ coreBook' = InsertOrder(coreBook, i, [side |-> s, qty |-> q])
  /\ orderAccounts' = IF i \in DOMAIN coreBook THEN orderAccounts ELSE Put(orderAccounts, i, a)

\* AddOrder of order i of account a.
AddOrder(i, a, s, q) ==
  /\ i \notin DOMAIN coreBook
  /\ coreBook' = InsertOrder(coreBook, i, [side |-> s, qty |-> q])
  /\ orderAccounts' = Put(orderAccounts, i, a)
  /\ IF TrackSelfTrade THEN RegisterOrder(i, a, s) ELSE UNCHANGED accountOrders

\* Faulty: the account is looked up after its mapping was removed.
RemoveOrderLate(i) ==
  /\ i \in DOMAIN orderAccounts \cap DOMAIN coreBook
  /\ coreBook' = DeleteOrder(coreBook, i)
  /\ orderAccounts' = Drop(orderAccounts, i)
  /\ UNCHANGED accountOrders

\* Faulty: the account mapping stays.
RemoveOrderLeaking(i) ==
  /\ i \in DOMAIN orderAccounts \cap DOMAIN coreBook
  /\ coreBook' = DeleteOrder(coreBook, i)
  /\ IF TrackSelfTrade THEN UnregisterOrder(i, orderAccounts[i]) ELSE UNCHANGED accountOrders
  /\ UNCHANGED orderAccounts

\* RemoveOrder looks the account up, deletes and unregisters.
RemoveOrder(i) ==
  /\ i \in DOMAIN orderAccounts \cap DOMAIN coreBook
  /\ coreBook' = DeleteOrder(coreBook, i)
  /\ orderAccounts' = Drop(orderAccounts, i)
  /\ IF TrackSelfTrade THEN UnregisterOrder(i, orderAccounts[i]) ELSE UNCHANGED accountOrders

\* UpdateOrder changes the quantity only.
UpdateOrder(i, q) ==
  /\ i \in DOMAIN orderAccounts
  /\ coreBook' = ResizeOrder(coreBook, i, q)
  /\ UNCHANGED <<orderAccounts, accountOrders>>

\* Clear does not touch the registry, though the orders leave the book
\* (self_trade.go:71 asks that they be unregistered then).
Clear ==
  /\ coreBook' = EmptyBook
  /\ orderAccounts' = EmptyBook
  /\ UNCHANGED accountOrders

Next ==
  \/ \E i \in OrderId, a \in Account, s \in Side, q \in Quantity : AddOrder(i, a, s, q)
  \/ \E i \in OrderId : RemoveOrder(i) \/ \E q \in Amount : UpdateOrder(i, q)
  \/ Clear

Spec == Init /\ [][Next]_vars

-----------------------------------------------------------------------------
(* Properties.                                                             *)

\* The values of the variables; the book and the account mapping always hold the
\* same orders (AddOrder, RemoveOrder, Clear).
TypeOK ==
  /\ SetsWellFormed
  /\ DOMAIN coreBook \subseteq OrderId /\ coreBook \in [DOMAIN coreBook -> Entry]
  /\ orderAccounts \in [DOMAIN coreBook -> Account]

\* The registration of a resting order.
RegistrationOf(i) ==
  [account |-> orderAccounts[i], order |-> i, side |-> coreBook[i].side]

\* The registry knows every resting order, under the account the book has for
\* it and on the side it rests on: also after Clear has left it with orders of
\* the same ids, of other accounts or on the other side.
RestingRegistered ==
  TrackSelfTrade => \A i \in DOMAIN coreBook : RegistrationOf(i) \in Registrations

\* Registrations of orders that do not rest.
Stale == Registrations \ {RegistrationOf(i) : i \in DOMAIN coreBook}

\* Only Clear leaves the registry with orders that are gone; adding, removing
\* and updating orders never do.
StaleByClearOnly == [][Stale' \subseteq Stale \/ Clear]_vars
=============================================================================
