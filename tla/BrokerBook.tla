----------------------------- MODULE BrokerBook -----------------------------
(***************************************************************************)
(* broker_orderbook.go and metrics.go: the book a broker rebuilds from the *)
(* messages of an exchange.                                                *)
(*                                                                         *)
(* A BrokerOrderBook is not thread-safe and its callers serialise access:  *)
(* a handler is one step.  A handler that returns an error is a step too,  *)
(* since what an error leaves behind matters here.  Order ids of the       *)
(* exchange are positive, 0 means "no order" in a trade, and the levels of *)
(* a snapshot are given negative ids.  Prices are those of the messages;   *)
(* arrivals play no part.                                                  *)
(***************************************************************************)
EXTENDS CoreBook, Sequences

CONSTANT SymbolID       \* core.SymbolID()

ASSUME SymbolAssumption == SymbolID \in Nat \ {0}

VARIABLES
  core,             \* the core book
  updateCount       \* metrics.updateCount

bookVars == <<core, updateCount>>

BookInit == core = EmptyBook /\ updateCount = 0

\* Called when a handler has succeeded; the time of the last update is left out.
RecordUpdate == updateCount' = updateCount + 1

-----------------------------------------------------------------------------
(* OnOrderIncrement.                                                       *)

\* The core book returns an error.
IncrementFails(inc) ==
  CASE inc.type = "insert" -> inc.order \in DOMAIN core
    [] inc.type = "delete" -> inc.order \notin DOMAIN core
    [] inc.type = "modify" -> inc.order \notin DOMAIN core \/ ~(inc.qty > 0)

\* What the core book makes of an increment.
AfterIncrement(b, inc) ==
  CASE inc.type = "insert" ->
         InsertOrder(b, inc.order, [side |-> inc.side, price |-> inc.price, qty |-> inc.qty])
    [] inc.type = "delete" -> DeleteOrder(b, inc.order)
    [] inc.type = "modify" -> ResizeOrder(b, inc.order, inc.qty)

OnOrderIncrement(inc) ==
  /\ core' = AfterIncrement(core, inc)
  /\ IF IncrementFails(inc) THEN UNCHANGED updateCount ELSE RecordUpdate

-----------------------------------------------------------------------------
(* OnTrade.                                                                *)

\* Faulty: an order that is filled exactly stays.
FilledStrict(b, i, q) ==
  IF i = 0 \/ i \notin DOMAIN b THEN b
  ELSE IF b[i].qty < q THEN DeleteOrder(b, i)
  ELSE ResizeOrder(b, i, b[i].qty - q)

\* One side of a trade: no order, or one the book does not have, is passed over.
Filled(b, i, q) ==
  IF i = 0 \/ i \notin DOMAIN b THEN b
  ELSE IF b[i].qty <= q THEN DeleteOrder(b, i)
  ELSE ResizeOrder(b, i, b[i].qty - q)

\* The buy side, then the sell side; neither can fail.
OnTrade(trade) ==
  /\ core' = Filled(Filled(core, trade.buy, trade.qty), trade.sell, trade.qty)
  /\ RecordUpdate

-----------------------------------------------------------------------------
(* OnSnapshot.                                                             *)

\* The levels of a side that are inserted: those with a quantity, in their order.
LiveLevels(levels, side) ==
  LET live   == {n \in DOMAIN levels : levels[n].qty > 0}
      Nth(k) == levels[CHOOSE n \in live : Cardinality({m \in live : m <= n}) = k]
  IN [k \in 1..Cardinality(live) |-> [side |-> side, price |-> Nth(k).price, qty |-> Nth(k).qty]]

\* What is inserted, in this order.
SnapshotEntries(snap) == LiveLevels(snap.bids, "buy") \o LiveLevels(snap.asks, "sell")

\* Faulty: virtualOrderID is not decremented.
VirtualIDStuck(k) == -1

\* Faulty: virtual ids begin at 0.
VirtualIDFromZero(k) == 1 - k

\* Faulty: virtual ids are taken from the ids of the exchange.
VirtualIDPositive(k) == k

\* The id of the k-th entry.
VirtualID(k) == -k

\* An insertion fails when the id is taken; the loop ends there.
InsertedEntries(snap) ==
  {k \in 1..Len(SnapshotEntries(snap)) :
     \A j \in 1..k : \A i \in 1..(j - 1) : VirtualID(i) # VirtualID(j)}

\* The book the snapshot leaves: complete, or half rebuilt.
RebuiltFrom(snap) ==
  [v \in {VirtualID(k) : k \in InsertedEntries(snap)} |->
     SnapshotEntries(snap)[CHOOSE k \in InsertedEntries(snap) : VirtualID(k) = v]]

\* Faulty: every snapshot is taken for one of the book's symbol.
SymbolIgnored(snap) == TRUE

SymbolMatches(snap) == snap.symbol = SymbolID

\* A snapshot of another symbol is refused before the book is cleared.
OnSnapshot(snap) ==
  /\ core' = IF SymbolMatches(snap) THEN RebuiltFrom(snap) ELSE core
  /\ IF SymbolMatches(snap) /\ InsertedEntries(snap) = 1..Len(SnapshotEntries(snap))
       THEN RecordUpdate
       ELSE UNCHANGED updateCount
=============================================================================
