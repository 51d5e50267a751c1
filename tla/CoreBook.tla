------------------------------ MODULE CoreBook ------------------------------
(***************************************************************************)
(* The price-level book of package exchange-c/orderbook (imported as       *)
(* coreob), whose source is not part of this repository.  It is modelled   *)
(* from how exchange/orderbook.go, exchange/order_matcher.go and           *)
(* broker/broker_orderbook.go use it: a red-black tree of price levels per *)
(* side, each level a list of orders in arrival order.                     *)
(*                                                                         *)
(* A book is a function from the ids of its resting orders to entries      *)
(* with a side and a quantity and, where priority plays a part, a price    *)
(* and an arrival.  Levels are not stored: a level is the set of the       *)
(* orders of a side that share a price.                                    *)
(***************************************************************************)
EXTENDS Integers, FiniteSets

Side == {"buy", "sell"}

Opposite(side) == IF side = "buy" THEN "sell" ELSE "buy"

EmptyBook == [i \in {} |-> 0]

\* The function f with k mapped to v, and f without k: the Set and Delete of
\* a hash map.
Put(f, k, v) == [x \in DOMAIN f \cup {k} |-> IF x = k THEN v ELSE f[x]]

Drop(f, k) == [x \in DOMAIN f \ {k} |-> f[x]]

-----------------------------------------------------------------------------
(* Order of a side: the best price first, within a price the first in.     *)

\* Price p is reached before price q on the given side.
Better(side, p, q) == IF side = "buy" THEN p > q ELSE p < q

\* The prices of the levels in front of the level of order i.
LevelsAhead(b, i) ==
  {b[j].price : j \in {k \in DOMAIN b : /\ b[k].side = b[i].side
                                        /\ Better(b[i].side, b[k].price, b[i].price)}}

\* Order i is on the level GetBestBid or GetBestAsk returns.
AtBest(b, i) == LevelsAhead(b, i) = {}

\* Order i is on one of the n levels GetTopNBids(n) or GetTopNAsks(n) returns.
WithinTop(b, i, n) == Cardinality(LevelsAhead(b, i)) < n

\* Orders i and j rest on the same side and a traversal of it meets i first.
Before(b, i, j) ==
  /\ b[i].side = b[j].side
  /\ \/ Better(b[i].side, b[i].price, b[j].price)
     \/ b[i].price = b[j].price /\ b[i].arrival < b[j].arrival

-----------------------------------------------------------------------------
(* The three updates.  Each leaves the book alone when it returns an error.*)

\* InsertOrder fails on an id that is already in the book.
InsertOrder(b, i, entry) == IF i \in DOMAIN b THEN b ELSE Put(b, i, entry)

\* DeleteOrder fails on an id that is not in the book.
DeleteOrder(b, i) == Drop(b, i)

\* ModifyOrder replaces the quantity and keeps the place in the level; it
\* fails on an id that is not in the book and on a quantity that is not
\* positive.
ResizeOrder(b, i, q) ==
  IF i \in DOMAIN b /\ q > 0 THEN [b EXCEPT ![i].qty = q] ELSE b
=============================================================================
