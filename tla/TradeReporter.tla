--------------------------- MODULE TradeReporter ---------------------------
(***************************************************************************)
(* trade_report.go on its own, for callers that use its exported methods   *)
(* as they like: ids registered again, orders unregistered while they      *)
(* trade, trades whose orders are not tracked, remainders set at will.     *)
(* MatchingEngine has the part of it an engine uses.                       *)
(*                                                                         *)
(* Every method holds r.mu from start to end: one step each.  The reporter *)
(* keeps a pointer to the caller's Order and writes through it: the Orders *)
(* are objects here, several of which may have one id.                     *)
(***************************************************************************)
EXTENDS Integers, Sequences, FiniteSetsExt, Functions

CONSTANTS
  OrderId,       \* the ids of orders
  Copy,          \* tells apart the structs that callers make for one id
  OrderQty,      \* the quantity of an order
  Quantity,      \* the quantities of trades
  Price,         \* the prices of trades
  Remainder,     \* what callers set remainders and canceled quantities to
  MaxInt,        \* the largest integer, 2^63 - 1 in the code
  MaxTrades,     \* bound on the trades
  MaxRegistered  \* bound on the registrations

ASSUME ReporterAssumption ==
  /\ OrderQty \in Nat \ {0} /\ Quantity \subseteq Nat \ {0} /\ Price \subseteq Nat \ {0}
  /\ Remainder \subseteq Int
  /\ MaxInt \in Nat

\* The Order structs: each has an id from the start.
Handle == OrderId \X Copy

IdOf(h) == h[1]

VARIABLES
  order,          \* the Order structs
  orders,         \* r.orders: what is tracked, by id
  tradeCounter,   \* r.tradeCounter
  times           \* how often each struct was registered

vars == <<order, orders, tradeCounter, times>>

\* Orders as NewOrder makes them.
Init ==
  /\ order = [h \in Handle |-> [filled |-> 0, canceled |-> 0, left |-> OrderQty]]
  /\ orders = [i \in {} |-> 0]
  /\ tradeCounter = 0 /\ times = [h \in Handle |-> 0]

Put(f, k, v) == [x \in DOMAIN f \cup {k} |-> IF x = k THEN v ELSE f[x]]

\* Faulty: the integer has no sign.
WrapUnsigned(n) == n % (2 * (MaxInt + 1))

\* A signed integer: one more than the largest is the smallest, -(MaxInt + 1).
Wrap(n) == ((n + MaxInt + 1) % (2 * (MaxInt + 1))) - (MaxInt + 1)

\* What RegisterOrder tracks of a struct.
Tracked(h) ==
  [order |-> h, status |-> "New", filled |-> 0, rem |-> OrderQty, value |-> 0,
   trades |-> <<>>]

\* RegisterOrder forgets what was tracked of the id.
RegisterOrder(h) ==
  /\ MapThenSumSet(LAMBDA g : times[g], Handle) < MaxRegistered
  /\ orders' = Put(orders, IdOf(h), Tracked(h))
  /\ times' = [times EXCEPT ![h] = @ + 1]
  /\ UNCHANGED <<order, tradeCounter>>

\* Faulty: the value is kept in fewer bits, as in an int32.
BookedHalf(t, trade) ==
  [t EXCEPT !.filled = @ + trade.qty, !.rem = @ - trade.qty,
            !.value = (@ + trade.price * trade.qty) % ((MaxInt + 1) \div 2),
            !.trades = Append(@, trade),
            !.status = IF t.rem <= trade.qty THEN "Filled" ELSE "Partial"]

\* updateOrderState, for the tracked order.
Booked(t, trade) ==
  [t EXCEPT !.filled = @ + trade.qty, !.rem = @ - trade.qty,
            !.value = Wrap(@ + trade.price * trade.qty),
            !.trades = Append(@, trade),
            !.status = IF t.rem <= trade.qty THEN "Filled" ELSE "Partial"]

\* A trade of an order with itself is booked on it twice.
BookedFor(t, trade) ==
  IF trade.buy = trade.sell THEN Booked(Booked(t, trade), trade) ELSE Booked(t, trade)

\* Faulty: the sell side is booked first.
BookedSidesSwapped(trade) ==
  IF trade.sell \notin DOMAIN orders THEN {}
  ELSE IF trade.buy \notin DOMAIN orders THEN {trade.sell}
  ELSE {trade.buy, trade.sell}

\* The orders that are booked: the sell side only after the buy side was found.
BookedSides(trade) ==
  IF trade.buy \notin DOMAIN orders THEN {}
  ELSE IF trade.sell \notin DOMAIN orders THEN {trade.buy}
  ELSE {trade.buy, trade.sell}

\* Faulty: the caller's struct is not told of the trade.
SyncedNever(h, ids) == order[h]

\* Faulty: every struct with the id of a booked order gets what is tracked.
SyncedById(h, ids) ==
  IF IdOf(h) \in ids
    THEN [order[h] EXCEPT !.filled = orders'[IdOf(h)].filled, !.left = orders'[IdOf(h)].rem]
    ELSE order[h]

\* The struct of a booked order gets what is tracked.
Synced(h, ids) ==
  IF \E i \in ids : orders'[i].order = h
    THEN [order[h] EXCEPT !.filled = orders'[IdOf(h)].filled,
                          !.left = orders'[IdOf(h)].rem]
    ELSE order[h]

\* Faulty: a trade that fails gives its number back.
CounterAfterReturned(trade) ==
  IF {trade.buy, trade.sell} \subseteq DOMAIN orders THEN trade.id ELSE trade.id - 1

\* A trade keeps its number, whether or not its orders are tracked.
CounterAfter(trade) == trade.id

\* RecordTrade, recordTradeForOrder: the trade takes a number first, and the buy
\* side stays booked when the sell side is not tracked.
RecordTrade(b, s, p, q) ==
  LET trade == [id |-> tradeCounter + 1, buy |-> b, sell |-> s, price |-> p, qty |-> q]
  IN /\ tradeCounter < MaxTrades
     /\ tradeCounter' = CounterAfter(trade)
     /\ orders' = [i \in DOMAIN orders |->
                     IF i \in BookedSides(trade) THEN BookedFor(orders[i], trade) ELSE orders[i]]
     /\ order' = [h \in Handle |-> Synced(h, BookedSides(trade))]
     /\ UNCHANGED times

\* CancelOrder and RejectOrder set the status, whatever it was.
EndOrder(i, status) ==
  /\ i \in DOMAIN orders
  /\ orders' = [orders EXCEPT ![i].status = status]
  /\ UNCHANGED <<order, tradeCounter, times>>

\* UpdateRemainingQty sets the remainder and what is canceled to whatever the caller
\* says, in what is tracked and in the struct.
UpdateRemainingQty(i, remaining, canceled) ==
  /\ i \in DOMAIN orders
  /\ orders' = [orders EXCEPT ![i].rem = remaining]
  /\ order' = [order EXCEPT ![orders[i].order] =
                              [@ EXCEPT !.canceled = canceled, !.left = remaining]]
  /\ UNCHANGED <<tradeCounter, times>>

UnregisterOrder(i) ==
  /\ i \in DOMAIN orders
  /\ orders' = [j \in DOMAIN orders \ {i} |-> orders[j]]
  /\ UNCHANGED <<order, tradeCounter, times>>

\* Clear: trades are numbered from 1 again.
Clear ==
  /\ orders' = [i \in {} |-> 0]
  /\ tradeCounter' = 0
  /\ UNCHANGED <<order, times>>

Next ==
  \/ \E h \in Handle : RegisterOrder(h)
  \/ \E b, s \in OrderId, p \in Price, q \in Quantity : RecordTrade(b, s, p, q)
  \/ \E i \in OrderId :
       \/ \E status \in {"Canceled", "Rejected"} : EndOrder(i, status)
       \/ \E remaining, canceled \in Remainder : UpdateRemainingQty(i, remaining, canceled)
       \/ UnregisterOrder(i)
  \/ Clear

Spec == Init /\ [][Next]_vars

-----------------------------------------------------------------------------
(* The reports.                                                            *)

\* AvgPrice of a report is TotalValue / FilledQty; these are its two halves.
Report(i) ==
  [status |-> orders[i].status, filled |-> orders[i].filled, rem |-> orders[i].rem,
   value |-> orders[i].value, trades |-> orders[i].trades]

\* GetStats.
WithStatus(S) == Cardinality({i \in DOMAIN orders : orders[i].status \in S})
Stats ==
  [total |-> Cardinality(DOMAIN orders), active |-> WithStatus({"New", "Partial"}),
   filled |-> WithStatus({"Filled"}), canceled |-> WithStatus({"Canceled"}),
   rejected |-> WithStatus({"Rejected"}), trades |-> tradeCounter]

-----------------------------------------------------------------------------
(* Properties.                                                             *)

\* The values of the variables; a tracked order is tracked under the id of its
\* struct, and the counts of GetStats add up.
TypeOK ==
  /\ tradeCounter \in Nat /\ times \in [Handle -> Nat]
  /\ Stats.total = Stats.active + Stats.filled + Stats.canceled + Stats.rejected
  /\ \A i \in DOMAIN orders :
       /\ orders[i].order \in Handle /\ IdOf(orders[i].order) = i
       /\ orders[i].status \in {"New", "Partial", "Filled", "Canceled", "Rejected"}
       /\ orders[i].filled \in Nat /\ orders[i].rem \in Int
       /\ orders[i].value \in (-(MaxInt + 1))..MaxInt

QtyOf(trades) == SumFunction([n \in DOMAIN trades |-> trades[n].qty])
ValueOf(trades) == SumFunction([n \in DOMAIN trades |-> trades[n].price * trades[n].qty])

\* A report's fills are those of its trades, whatever its id was used for before and
\* whatever remainders were set, and its average price lies between their prices as
\* long as their values add up to MaxInt at most (updateOrderState, executionReport).
AverageWithinPrices ==
  \A i \in DOMAIN orders :
    LET report == Report(i)
        prices == {report.trades[n].price : n \in DOMAIN report.trades}
    IN /\ report.filled = QtyOf(report.trades)
       /\ report.filled > 0 /\ ValueOf(report.trades) <= MaxInt =>
            /\ \E p \in prices : report.value >= p * report.filled
            /\ \E p \in prices : report.value <= p * report.filled

\* A number names one trade: in whichever reports, and however often, it is listed, it
\* is the same trade, and a report lists its trades in the order they were made.  A
\* trade that failed after its buy side was booked keeps its number, and Clear, which
\* numbers from 1 again, leaves no report with an old one.
TradesNumbered ==
  \A i, j \in DOMAIN orders :
    \A n \in DOMAIN orders[i].trades, m \in DOMAIN orders[j].trades :
      LET first == orders[i].trades[n]  second == orders[j].trades[m]
      IN /\ first.id = second.id => first = second
         /\ i = j /\ n < m => first.id <= second.id

\* The caller's struct agrees with the report, unless it was registered twice: then
\* it keeps the old fills until it trades again.
StructInSync ==
  \A i \in DOMAIN orders :
    times[orders[i].order] = 1 =>
      /\ order[orders[i].order].filled = orders[i].filled
      /\ order[orders[i].order].left = orders[i].rem

\* A struct whose id has been registered with another, or is not tracked any more,
\* is never written again.
ReplacedStructFrozen ==
  [][\A h \in Handle :
       order'[h] # order[h] => \E i \in DOMAIN orders : orders[i].order = h]_vars

\* A trade that is recorded for its seller is recorded for its buyer in the same
\* step: a trade that fails leaves at most the buy side booked.
SellSideNeverAlone ==
  [][\A i \in DOMAIN orders \cap DOMAIN orders' :
       \A n \in DOMAIN orders'[i].trades \ DOMAIN orders[i].trades :
         LET trade == orders'[i].trades[n]
         IN trade.sell = i =>
              /\ trade.buy \in DOMAIN orders'
              /\ \E m \in DOMAIN orders'[trade.buy].trades : orders'[trade.buy].trades[m] = trade]_vars
=============================================================================
