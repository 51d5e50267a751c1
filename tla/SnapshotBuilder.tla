-------------------------- MODULE SnapshotBuilder --------------------------
(***************************************************************************)
(* snapshot.go: the snapshot a broker makes of its book.  Its prices are   *)
(* the integer prices of the book times the tick size, TickNum / TickDen;  *)
(* a price p of a snapshot stands here as p * TickNum, to be divided by    *)
(* TickDen.  Quantities are copied.                                        *)
(***************************************************************************)
EXTENDS CoreBook, Sequences, Functions

CONSTANTS
  TickNum, TickDen    \* the tick size, a fraction

ASSUME TickAssumption == TickNum \in Int /\ TickDen \in Nat \ {0}

\* The price levels of a side, best first (all that GetTopNBids, GetTopNAsks choose from).
Levels(b, side) ==
  LET ids    == {i \in DOMAIN b : b[i].side = side}
      prices == {b[i].price : i \in ids}
      NthBest(n) ==
        CHOOSE p \in prices : Cardinality({q \in prices : Better(side, q, p)}) = n - 1
      Total(p) == SumFunction([i \in {j \in ids : b[j].price = p} |-> b[i].qty])
  IN [n \in 1..Cardinality(prices) |-> [price |-> NthBest(n), qty |-> Total(NthBest(n))]]

\* GetTopNBids(n), GetTopNAsks(n).
TopLevels(b, side, n) ==
  SubSeq(Levels(b, side), 1, IF n < Len(Levels(b, side)) THEN n ELSE Len(Levels(b, side)))

\* appendLevels: the levels as orders at scaled prices.
Scaled(levels) ==
  [n \in DOMAIN levels |-> [price |-> levels[n].price * TickNum, qty |-> levels[n].qty]]

\* What GenerateSnapshot makes of the orders: they are levels already, best first.
GenerateSnapshot(symbol, bids, asks) ==
  [symbol |-> symbol, bids |-> bids, asks |-> asks,
   spread |-> IF bids # <<>> /\ asks # <<>> THEN asks[1].price - bids[1].price ELSE 0]

\* The set of the snapshot built, empty when topN or the tick size is refused.
BuildSnapshot(symbol, bids, asks, topN) ==
  IF topN < 0 \/ TickNum <= 0
    THEN {}
    ELSE {GenerateSnapshot(symbol, Scaled(bids), Scaled(asks))}

\* GetSnapshot of a book.
SnapshotOf(symbol, b, topN) ==
  BuildSnapshot(symbol, TopLevels(b, "buy", topN), TopLevels(b, "sell", topN), topN)
=============================================================================
