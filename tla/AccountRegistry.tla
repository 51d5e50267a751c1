-------------------------- MODULE AccountRegistry --------------------------
(***************************************************************************)
(* What the self-trade registry promises: it remembers, for each account,  *)
(* the orders that were registered and not unregistered since, with the    *)
(* side each was last registered with.  SelfTradeCheck implements this     *)
(* with one order kept inline and several in a map.                        *)
(***************************************************************************)
CONSTANTS
  Account,    \* account ids
  OrderId,    \* order ids
  Side        \* the two sides

VARIABLE registered     \* the registrations in force

Registration == [account : Account, order : OrderId, side : Side]

\* The registrations of order i of account a: at most one.
Of(a, i) == {r \in registered : r.account = a /\ r.order = i}

Init == registered = {}

Register(i, a, s) ==
  registered' = (registered \ Of(a, i)) \cup {[account |-> a, order |-> i, side |-> s]}

Unregister(i, a) == registered' = registered \ Of(a, i)

Clear == registered' = {}

Next ==
  \/ \E i \in OrderId, a \in Account : Unregister(i, a) \/ \E s \in Side : Register(i, a, s)
  \/ Clear

Spec == Init /\ [][Next]_registered
=============================================================================
