-------------------------- MODULE MCMatchingEngine --------------------------
(***************************************************************************)
(* Instances of MatchingEngine for TLC.                                    *)
(***************************************************************************)
EXTENDS SerialEngine

CONSTANTS A, B, C, DEFAULT, XYZ

Limit(a, side, p, q) ==
  [account |-> a, symbol |-> DEFAULT, side |-> side, type |-> "limit", price |-> p, qty |-> q]

Typed(type, r) == [r EXCEPT !.type = type]

\* Two price levels a side, a seller that is also a buyer, one order of every
\* type, a fill-or-kill order the liquidity test is wrong about, and an order
\* that validation refuses.
SerialRequests ==
  {Limit(A, "sell", 11, 2), Limit(A, "sell", 12, 1), Limit(A, "buy", 12, 2),
   Limit(B, "buy", 11, 1), Limit(B, "sell", 11, 1), Limit(B, "buy", 11, 0),
   Typed("iceberg", Limit(B, "buy", 12, 4)),
   Typed("ioc", Limit(B, "buy", 11, 3)),
   Typed("market", Limit(B, "buy", 11, 3)),
   Typed("fok", Limit(B, "buy", 12, 3)), Typed("fok", Limit(B, "buy", 11, 1))}

\* Three accounts on one side, so that a fourth order finds a queue of three.
QueueRequests ==
  {Limit(A, "sell", 11, 1), Limit(B, "sell", 11, 2), Limit(A, "sell", 12, 2),
   Limit(B, "buy", 12, 2), Limit(C, "buy", 11, 4), Typed("fok", Limit(C, "buy", 12, 5)),
   Typed("market", Limit(C, "buy", 12, 3)), Typed("fok", Limit(C, "sell", 11, 2))}

\* A modification that raises the price and one that validation refuses.
SerialAmendments == {[price |-> 12, qty |-> 2], [price |-> 12, qty |-> 0]}

\* One resting order worth two incoming ones, of the types whose calls take
\* different paths.  They are submitted to one book; a modification moves an
\* order to the other.
InBook(symbol, requests) == {[r EXCEPT !.symbol = symbol] : r \in requests}

RacingRequests ==
  InBook(XYZ, {Limit(A, "sell", 11, 2), Limit(B, "buy", 11, 1),
               Typed("ioc", Limit(B, "buy", 11, 3)),
               Typed("fok", Limit(B, "buy", 11, 2))})

RacingAmendments == {[price |-> 11, qty |-> 1]}
=============================================================================
