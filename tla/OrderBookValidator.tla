------------------------- MODULE OrderBookValidator -------------------------
(***************************************************************************)
(* validator.go: the comparison of a rebuilt snapshot, whose prices are    *)
(* scaled (SnapshotBuilder), with one of the exchange, whose prices are    *)
(* not.  Both tests of a level are made on fractions: the tolerance of a   *)
(* price is 1/100, that of a quantity is MaxDriftNum / MaxDriftDen of the  *)
(* exchange's.  The summed differences and the largest price drift of a    *)
(* result, which decide nothing, are left out.                             *)
(***************************************************************************)
EXTENDS SnapshotBuilder

CONSTANTS
  MaxDriftNum, MaxDriftDen    \* maxAllowedDrift, a fraction

ASSUME DriftAssumption == MaxDriftNum \in Nat /\ MaxDriftDen \in Nat \ {0}

Abs(n) == IF n < 0 THEN -n ELSE n

\* A scaled price is more than one hundredth away from an integer price.
PriceOff(scaled, price) == 100 * Abs(scaled - price * TickDen) > TickDen

\* A quantity has drifted too far; an exchange quantity of 0 accepts any.
QuantityOff(rebuiltQty, exchangeQty) ==
  /\ exchangeQty > 0
  /\ Abs(rebuiltQty - exchangeQty) * MaxDriftDen > MaxDriftNum * exchangeQty

\* Faulty: only the levels both sides have are compared.
MismatchedCommon(rebuilt, exchange) ==
  {n \in DOMAIN rebuilt \cap DOMAIN exchange :
     \/ PriceOff(rebuilt[n].price, exchange[n].price)
     \/ QuantityOff(rebuilt[n].qty, exchange[n].qty)}

\* validateSide: the positions that mismatch; the levels are compared by position.
Mismatched(rebuilt, exchange) ==
  {n \in DOMAIN rebuilt \cup DOMAIN exchange :
     \/ n \notin DOMAIN rebuilt \cap DOMAIN exchange
     \/ PriceOff(rebuilt[n].price, exchange[n].price)
     \/ QuantityOff(rebuilt[n].qty, exchange[n].qty)}

\* The set of the result, empty when the symbols differ.
Validate(rebuilt, exchange) ==
  LET bidMismatch == Cardinality(Mismatched(rebuilt.bids, exchange.bids))
      askMismatch == Cardinality(Mismatched(rebuilt.asks, exchange.asks))
  IN IF rebuilt.symbol # exchange.symbol
       THEN {}
       ELSE {[bidMismatch |-> bidMismatch, askMismatch |-> askMismatch,
              valid |-> bidMismatch = 0 /\ askMismatch = 0]}

\* The spread may be off by 1; it is compared when the exchange has both sides.
SpreadOff(spread, exchange) ==
  /\ exchange.bids # <<>> /\ exchange.asks # <<>>
  /\ Abs(spread - (exchange.asks[1].price - exchange.bids[1].price) * TickDen) > TickDen

ValidateQuick(rebuilt, exchange) ==
  /\ rebuilt.symbol = exchange.symbol
  /\ Len(rebuilt.bids) = Len(exchange.bids)
  /\ Len(rebuilt.asks) = Len(exchange.asks)
  /\ ~SpreadOff(rebuilt.spread, exchange)
=============================================================================
