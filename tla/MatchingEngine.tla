--------------------------- MODULE MatchingEngine ---------------------------
(***************************************************************************)
(* The matching engine of package exchange: matching_engine.go drives      *)
(* order_matcher.go (matching), trade_report.go (order status and fills)   *)
(* and one orderbook.go book per symbol.                                   *)
(*                                                                         *)
(* Each client is a goroutine with at most one call into the engine.  A    *)
(* call is cut into steps where the code releases a lock, so that calls of *)
(* different clients interleave exactly where the code lets them:          *)
(*                                                                         *)
(*   engine mutex e.mu      held by Close from start to end ("closing")    *)
(*   book mutex ob.mu       one step per AddOrder, RemoveOrder, UpdateOrder*)
(*   reporter mutex r.mu    one step per RegisterOrder, trade, status      *)
(*   no mutex               Match reads the book one resting order a step  *)
(*                                                                         *)
(* With one client the calls are serialised; with two or more they race.   *)
(***************************************************************************)
EXTENDS CoreBook, Sequences, FiniteSetsExt

CONSTANTS
  Client,           \* the goroutines that call the engine
  Account,          \* account ids
  Symbol,           \* symbols a book may exist for
  DefaultSymbol,    \* the symbol of an order that names none ("DEFAULT")
  Requests,         \* the orders clients submit, without their ids
  Amendments,       \* the [price, qty] pairs clients pass to ModifyOrder
  MaxDepthLevels,   \* price levels the matcher looks at (100 in the code)
  MaxOrders,        \* bound: orders submitted in a behaviour
  MaxArrivals       \* bound: insertions after which nothing is modified

OrderType == {"limit", "market", "ioc", "fok", "iceberg"}

RestingType == {"limit", "iceberg"}

Status == {"New", "Partial", "Filled", "Canceled", "Rejected"}

Positive == Nat \ {0}

OrderId == Positive

\* An order as its client fills it in, before the client gives it an id.
Request == [account : Account, symbol : Symbol, side : Side,
            type : OrderType, price : Int, qty : Int]

ASSUME EngineAssumption ==
  /\ DefaultSymbol \in Symbol
  /\ Requests \subseteq Request
  /\ Amendments \subseteq [price : Int, qty : Int]
  /\ MaxDepthLevels \in Nat \ {0}
  /\ MaxOrders \in Nat
  /\ MaxArrivals \in Nat

\* The Order struct.  "left" is RemainingQty, "canceled" CanceledQty; clients
\* set RemainingQty to Quantity, as NewOrder and every caller in the tests do.
Order == [id : OrderId, account : Account, symbol : Symbol, side : Side,
          type : OrderType, price : Int, qty : Int, left : Int, canceled : Int]

\* A resting order: coreob.Order and its account in orderAccounts, which the
\* book changes together under ob.mu.
Resting == [account : Account, side : Side, price : Positive, qty : Positive, arrival : Nat]

\* trackedOrder, without the prices its average is computed from.
Tracked == [status : Status, filled : Nat, rem : Int]

\* A trade as the matcher made it: the resting side, the quantity, what that
\* leaves of the resting entry and of the incoming order.
Fill == [rest : OrderId, account : Account, price : Positive, qty : Positive,
         restLeft : Nat, left : Nat]

\* A trade as the reporter published it.
Trade == [id : Nat, buy : OrderId, sell : OrderId, buyAccount : Account,
          sellAccount : Account, price : Positive, qty : Positive,
          buyRem : Nat, sellRem : Nat]

PC == {"submit", "register", "liquidity", "match", "record", "remove",
       "update", "unbook", "cancel", "replace"}

\* A call in progress: where it stands, the Order it works on, the local
\* variable "remaining", the trades of Match and the one the loop is at, and
\* whether the book changed under a traversal that holds no lock.
Call == [pc : PC, order : Order, rem : Int, fills : Seq(Fill),
         next : Positive, torn : BOOLEAN]

VARIABLES
  running,        \* e.running
  closing,        \* the client in Close, which holds e.mu: none or one
  book,           \* e.orderBooks; a symbol without a book has an empty one
  arrivals,       \* insertions so far, the time priority inside a level
  orders,         \* the Order structs the reporter was given, by id
  tracked,        \* tradeReporter.orders
  tradeCounter,   \* tradeReporter.tradeCounter
  trades,         \* history: the trades published on both sides
  nextID,         \* the ids clients number their orders with
  call            \* the calls in progress, by client

vars == <<running, closing, book, arrivals, orders, tracked, tradeCounter,
          trades, nextID, call>>

\* The part of the state each mutex guards.
books == <<book, arrivals>>
reporter == <<tracked, tradeCounter, trades>>

Init ==
  /\ running = TRUE
  /\ closing = {}
  /\ book = [s \in Symbol |-> EmptyBook]
  /\ arrivals = 0
  /\ orders = EmptyBook
  /\ tracked = EmptyBook
  /\ tradeCounter = 0
  /\ trades = <<>>
  /\ nextID = 1
  /\ call = EmptyBook

-----------------------------------------------------------------------------
(* Calls.                                                                  *)

Idle(c) == c \notin DOMAIN call /\ c \notin closing

At(c, pc) == c \in DOMAIN call /\ call[c].pc = pc

Begin(c, pc, order) ==
  call' = Put(call, c, [pc |-> pc, order |-> order, rem |-> order.qty,
                        fills |-> <<>>, next |-> 1, torn |-> FALSE])

Goto(c, pc) == call' = [call EXCEPT ![c].pc = pc]

Return(c) == call' = Drop(call, c)

\* An insertion, deletion or clearing of a book disturbs the calls that are
\* walking through it, since Match is given ob.coreBook and takes no lock.
Disturb(calls, symbols) ==
  [d \in DOMAIN calls |->
     IF /\ calls[d].pc \in {"liquidity", "match"}
        /\ calls[d].order.symbol \in symbols
     THEN [calls[d] EXCEPT !.torn = TRUE]
     ELSE calls[d]]

-----------------------------------------------------------------------------
(* Matching: order_matcher.go.                                             *)

\* The checks of validateOrder a client's order can fail.  Clients number
\* their orders from 1 and name an account.
Valid(o) ==
  /\ o.qty > 0
  /\ o.type \in RestingType => o.price > 0

\* Faulty: a level exactly at the order's limit does not match.
PriceMatchStrict(o, price) ==
  IF o.side = "buy" THEN price < o.price ELSE price > o.price

\* isPriceMatch: the level is at the order's limit or better.
PriceMatch(o, price) ==
  IF o.side = "buy" THEN price <= o.price ELSE price >= o.price

\* Orders the incoming order may trade with, whatever their price: the other
\* side, another account, on a level the matcher looks at.
Counterparties(o, b) ==
  {i \in DOMAIN b : /\ b[i].side = Opposite(o.side)
                    /\ b[i].account # o.account
                    /\ WithinTop(b, i, MaxDepthLevels)}

\* The price is checked for every type but market, at every level.
Matchable(o, b) ==
  {i \in Counterparties(o, b) : o.type = "market" \/ PriceMatch(o, b[i].price)}

\* Faulty: the sum counts the orders of the incoming order's account as well.
AvailableWithOwn(o, b) ==
  LET Qty(i) == b[i].qty
  IN  MapThenSumSet(Qty, {i \in DOMAIN b : /\ b[i].side = Opposite(o.side)
                                           /\ PriceMatch(o, b[i].price)})

\* getAvailableLiquidity: the best level counts at any price, the others
\* while they match.
Available(o, b) ==
  LET Qty(i) == b[i].qty
  IN  MapThenSumSet(Qty, {i \in Counterparties(o, b) :
                            AtBest(b, i) \/ PriceMatch(o, b[i].price)})

\* What Match walks through first: the best level.
BestLevel(o, b) == {i \in Matchable(o, b) : AtBest(b, i)}

\* Faulty: the second walk comes through the best level again.
LaterLevelsAll(o, b) == Matchable(o, b)

\* What it walks through then: the top levels, of which it skips the best.
LaterLevels(o, b) == {i \in Matchable(o, b) : ~AtBest(b, i)}

\* The call has traded with order i, and has done so twice.
TradedWith(c, i) == \E k \in DOMAIN call[c].fills : call[c].fills[k].rest = i

TradedTwice(c, i) ==
  \E k, l \in DOMAIN call[c].fills :
    k # l /\ call[c].fills[k].rest = i /\ call[c].fills[l].rest = i

\* The orders still to come in the walk the call is on: those of the first walk
\* while there are some, then those of the second.  A disturbed walk may meet any.
Unvisited(c) ==
  LET o == call[c].order
      b == book[o.symbol]
      first == {i \in BestLevel(o, b) : ~TradedWith(c, i)}
      second == {i \in LaterLevels(o, b) :
                   IF i \in BestLevel(o, b) THEN ~TradedTwice(c, i) ELSE ~TradedWith(c, i)}
  IN  IF call[c].torn THEN first \cup second
      ELSE IF first # {} THEN first ELSE second

\* Faulty: the traversal starts from the last order of the worst level.
ReachedLastFirst(c, i) ==
  \A j \in Unvisited(c) : ~Before(book[call[c].order.symbol], i, j)

\* The walk, which takes each level from its head, is at order i: the first
\* unvisited one, or any once the walk was disturbed.
Reached(c, i) ==
  \/ call[c].torn
  \/ \A j \in Unvisited(c) : ~Before(book[call[c].order.symbol], j, i)

\* Faulty: the larger of the two quantities is traded.
FillOfLarger(i, entry, rem) ==
  LET q == IF entry.qty < rem THEN rem ELSE entry.qty
  IN  [rest |-> i, account |-> entry.account, price |-> entry.price, qty |-> q,
       restLeft |-> entry.qty - q, left |-> rem - q]

\* createTrade, with the quantities matchLevel computes.
FillOf(i, entry, rem) ==
  LET q == IF entry.qty < rem THEN entry.qty ELSE rem
  IN  [rest |-> i, account |-> entry.account, price |-> entry.price, qty |-> q,
       restLeft |-> entry.qty - q, left |-> rem - q]

\* Faulty: all of the order's quantity is canceled, traded or not.
CancelUnmatchedAll(o, rem) ==
  IF o.type \in {"market", "ioc"} /\ rem > 0
  THEN [orders EXCEPT ![o.id].left = 0, ![o.id].canceled = o.qty]
  ELSE orders

\* What Match cancels of an order it could not fill: the local "remaining" for
\* market, RemainingQty, which equals it, for IOC.
CancelUnmatched(o, rem) ==
  IF o.type \in {"market", "ioc"} /\ rem > 0
  THEN [orders EXCEPT ![o.id].left = 0, ![o.id].canceled = rem]
  ELSE orders

-----------------------------------------------------------------------------
(* Reporting: trade_report.go.                                             *)

\* Faulty: the remaining quantity is kept from becoming negative.
ApplyTradeClipped(t, q) ==
  LET left == IF t.rem < q THEN 0 ELSE t.rem - q
  IN  [status |-> IF left = 0 THEN "Filled" ELSE "Partial",
       filled |-> t.filled + q, rem |-> left]

\* Faulty: an order is filled only once it is overfilled.
ApplyTradeLate(t, q) ==
  [status |-> IF t.rem - q < 0 THEN "Filled" ELSE "Partial",
   filled |-> t.filled + q, rem |-> t.rem - q]

\* updateOrderState: what a trade of quantity q does to a tracked order.
ApplyTrade(t, q) ==
  [status |-> IF t.rem - q <= 0 THEN "Filled" ELSE "Partial",
   filled |-> t.filled + q,
   rem    |-> t.rem - q]

\* updateOrderState for each of the tracked orders in ids, with the Order
\* struct synchronised to the tracked state.
BookTrade(ids, q) ==
  /\ tracked' = [i \in DOMAIN tracked |->
                   IF i \in ids THEN ApplyTrade(tracked[i], q) ELSE tracked[i]]
  /\ orders' = [i \in DOMAIN orders |->
                  IF i \in ids /\ i \in DOMAIN tracked
                  THEN [orders[i] EXCEPT !.left = tracked[i].rem - q]
                  ELSE orders[i]]

\* Faulty: a tracked order keeps the status it had.
StatusKept(i, status) == UNCHANGED tracked

\* CancelOrder and RejectOrder: the status of a tracked order changes.
SetStatus(i, status) ==
  tracked' = [j \in DOMAIN tracked |->
                IF j = i THEN [tracked[j] EXCEPT !.status = status] ELSE tracked[j]]

\* The buyer's and the seller's order of a fill.
BuyId(o, f) == IF o.side = "buy" THEN o.id ELSE f.rest
SellId(o, f) == IF o.side = "buy" THEN f.rest ELSE o.id

\* The published Trade.  Only the resting side's remaining quantity is set.
TradeOf(o, f, n) ==
  LET buying == o.side = "buy"
  IN  [id |-> n, buy |-> BuyId(o, f), sell |-> SellId(o, f),
       buyAccount  |-> IF buying THEN o.account ELSE f.account,
       sellAccount |-> IF buying THEN f.account ELSE o.account,
       price |-> f.price, qty |-> f.qty,
       buyRem  |-> IF buying THEN 0 ELSE f.restLeft,
       sellRem |-> IF buying THEN f.restLeft ELSE 0]

-----------------------------------------------------------------------------
(* The book of a symbol: orderbook.go.  The account of an order is stored  *)
(* and removed with it.                                                    *)

\* Faulty: the order stays in the book.
Kept(s, i) == book

\* RemoveOrder: the books once order i has left the book of s.
Without(s, i) == [book EXCEPT ![s] = DeleteOrder(@, i)]

\* UpdateOrder: the books once the entry of order i in s has quantity q.
Resized(s, i, q) == [book EXCEPT ![s] = ResizeOrder(@, i, q)]

\* The entry AddOrder inserts: with the order's full Quantity.
EntryOf(o, n) ==
  [account |-> o.account, side |-> o.side, price |-> o.price, qty |-> o.qty,
   arrival |-> n]

-----------------------------------------------------------------------------
(* SubmitOrder: matching_engine.go.                                        *)

\* A client submits one of its orders.
SubmitOrder(c) ==
  /\ Idle(c)
  /\ nextID <= MaxOrders
  /\ \E r \in Requests :
       Begin(c, "submit",
             [id |-> nextID, account |-> r.account, symbol |-> r.symbol,
              side |-> r.side, type |-> r.type, price |-> r.price,
              qty |-> r.qty, left |-> r.qty, canceled |-> 0])
  /\ nextID' = nextID + 1
  /\ UNCHANGED <<running, closing, books, orders, reporter>>

\* The engine is not running: ErrOrderBookClosed.
TurnAway(c) ==
  /\ At(c, "submit")
  /\ ~running
  /\ Return(c)
  /\ UNCHANGED <<running, closing, books, orders, reporter, nextID>>

\* validateOrder fails: the order is reported rejected, and an order that is
\* already tracked (one being modified) becomes rejected.
Refuse(c) ==
  /\ At(c, "submit")
  /\ running
  /\ ~Valid(call[c].order)
  /\ SetStatus(call[c].order.id, "Rejected")
  /\ Return(c)
  /\ UNCHANGED <<running, closing, books, orders, tradeCounter, trades, nextID>>

\* The checks before the book is looked up; running is read without a lock.
Admit(c) ==
  /\ At(c, "submit")
  /\ running
  /\ Valid(call[c].order)
  /\ Goto(c, "register")
  /\ UNCHANGED <<running, closing, books, orders, reporter, nextID>>

\* getOrCreateOrderBook waits for e.mu; RegisterOrder then overwrites what
\* the reporter knew of the id.
RegisterOrder(c) ==
  /\ At(c, "register")
  /\ closing = {}
  /\ LET o == call[c].order
     IN  /\ tracked' = Put(tracked, o.id, [status |-> "New", filled |-> 0, rem |-> o.qty])
         /\ orders' = Put(orders, o.id, o)
         /\ Goto(c, IF o.type = "fok" THEN "liquidity" ELSE "match")
  /\ UNCHANGED <<running, closing, books, tradeCounter, trades, nextID>>

\* matchFOKOrder finds enough liquidity; a disturbed sum may be any number.
Enough(c) ==
  /\ At(c, "liquidity")
  /\ LET o == call[c].order
     IN  call[c].torn \/ Available(o, book[o.symbol]) >= o.qty
  /\ call' = [call EXCEPT ![c].pc = "match", ![c].torn = FALSE]
  /\ UNCHANGED <<running, closing, books, orders, reporter, nextID>>

\* matchFOKOrder returns ErrInsufficientQty and SubmitOrder rejects the order.
Insufficient(c) ==
  /\ At(c, "liquidity")
  /\ LET o == call[c].order
     IN  call[c].torn \/ Available(o, book[o.symbol]) < o.qty
  /\ SetStatus(call[c].order.id, "Rejected")
  /\ Return(c)
  /\ UNCHANGED <<running, closing, books, orders, tradeCounter, trades, nextID>>

\* matchLevel trades with the resting order it has reached.
MatchNode(c) ==
  /\ At(c, "match")
  /\ call[c].rem > 0
  /\ LET o == call[c].order
         b == book[o.symbol]
     IN  \E i \in Unvisited(c) :
           /\ Reached(c, i)
           /\ LET f == FillOf(i, b[i], call[c].rem)
              IN  /\ call' = [call EXCEPT ![c].fills = Append(@, f), ![c].rem = f.left]
                  /\ orders' = [orders EXCEPT ![o.id].left = f.left]
  /\ UNCHANGED <<running, closing, books, reporter, nextID>>

\* Match returns, and cancels what is left of a market or IOC order.
EndMatch(c) ==
  /\ At(c, "match")
  /\ call[c].rem = 0 \/ call[c].torn \/ Unvisited(c) = {}
  /\ Goto(c, "record")
  /\ orders' = CancelUnmatched(call[c].order, call[c].rem)
  /\ UNCHANGED <<running, closing, books, reporter, nextID>>

-----------------------------------------------------------------------------
(* SubmitOrder, continued: the loop over the trades of Match.              *)

\* The trade the loop is at.
Current(c) == call[c].fills[call[c].next]

Recording(c) == At(c, "record") /\ call[c].next <= Len(call[c].fills)

Recorded(c) == At(c, "record") /\ call[c].next > Len(call[c].fills)

\* recordTradeForOrder finds both orders.  Whether the resting order leaves
\* the book depends on the status the trade gave it.
RecordTrade(c) ==
  /\ Recording(c)
  /\ LET o == call[c].order
         f == Current(c)
     IN  /\ {o.id, f.rest} \subseteq DOMAIN tracked
         /\ tradeCounter' = tradeCounter + 1
         /\ BookTrade({o.id, f.rest}, f.qty)
         /\ trades' = Append(trades, TradeOf(o, f, tradeCounter'))
         /\ Goto(c, IF ApplyTrade(tracked[f.rest], f.qty).status = "Filled"
                    THEN "remove" ELSE "update")
  /\ UNCHANGED <<running, closing, books, nextID>>

\* recordTradeForOrder misses an order, which Close made the reporter forget:
\* SubmitOrder returns the error.  The buy side is booked before the sell
\* side is looked up, and the trade number is used up.
RecordTradeFails(c) ==
  /\ Recording(c)
  /\ LET o == call[c].order
         f == Current(c)
     IN  /\ ~({o.id, f.rest} \subseteq DOMAIN tracked)
         /\ BookTrade({BuyId(o, f)}, f.qty)
  /\ tradeCounter' = tradeCounter + 1
  /\ Return(c)
  /\ UNCHANGED <<running, closing, books, trades, nextID>>

\* RemoveOrder of a resting order the trade filled.  Its error is ignored.
RemoveResting(c) ==
  /\ At(c, "remove")
  /\ LET s == call[c].order.symbol
         i == Current(c).rest
         next == [call EXCEPT ![c].pc = "record", ![c].next = @ + 1]
     IN  /\ book' = Without(s, i)
         /\ call' = IF i \in DOMAIN book[s] THEN Disturb(next, {s}) ELSE next
  /\ UNCHANGED <<running, closing, arrivals, orders, reporter, nextID>>

\* UpdateOrder of a resting order the trade did not fill, to what was left of
\* its entry when Match saw it.  Its error is ignored.
UpdateResting(c) ==
  /\ At(c, "update")
  /\ LET s == call[c].order.symbol
         f == Current(c)
     IN  book' = Resized(s, f.rest, f.restLeft)
  /\ call' = [call EXCEPT ![c].pc = "record", ![c].next = @ + 1]
  /\ UNCHANGED <<running, closing, arrivals, orders, reporter, nextID>>

\* An order that may rest and has a remainder joins the book.
AddOrder(c) ==
  /\ Recorded(c)
  /\ LET o == call[c].order
         s == o.symbol
     IN  /\ o.type \in RestingType
         /\ orders[o.id].left > 0
         /\ book' = [book EXCEPT ![s] = InsertOrder(@, o.id, EntryOf(o, arrivals + 1))]
         /\ call' = Disturb(Drop(call, c), {s})
  /\ arrivals' = arrivals + 1
  /\ UNCHANGED <<running, closing, orders, reporter, nextID>>

\* UpdateRemainingQty for what Match canceled of a market or IOC order.  The
\* status stays what the trades made it.
CancelRemainder(c) ==
  /\ Recorded(c)
  /\ LET o == call[c].order
     IN  /\ o.type \in {"market", "ioc"}
         /\ orders[o.id].canceled > 0
         /\ tracked' = [i \in DOMAIN tracked |->
                          IF i = o.id THEN [tracked[i] EXCEPT !.rem = 0] ELSE tracked[i]]
         /\ orders' = IF o.id \in DOMAIN tracked
                      THEN [orders EXCEPT ![o.id].left = 0] ELSE orders
  /\ Return(c)
  /\ UNCHANGED <<running, closing, books, tradeCounter, trades, nextID>>

\* There is nothing to rest and nothing to cancel.
Finish(c) ==
  /\ Recorded(c)
  /\ LET o == call[c].order
     IN  /\ ~(o.type \in RestingType /\ orders[o.id].left > 0)
         /\ ~(o.type \in {"market", "ioc"} /\ orders[o.id].canceled > 0)
  /\ Return(c)
  /\ UNCHANGED <<running, closing, books, orders, reporter, nextID>>

-----------------------------------------------------------------------------
(* CancelOrder and ModifyOrder: matching_engine.go.                        *)

\* A client asks to cancel an order it believes rests in the book of s.
CancelOrder(c) ==
  /\ Idle(c)
  /\ running
  /\ \E i \in DOMAIN orders, s \in Symbol :
       Begin(c, "unbook", [orders[i] EXCEPT !.symbol = s])
  /\ UNCHANGED <<running, closing, books, orders, reporter, nextID>>

\* A client asks to modify an order it believes rests in the book of s.
ModifyOrder(c) ==
  /\ Idle(c)
  /\ running
  /\ arrivals < MaxArrivals
  /\ \E i \in DOMAIN orders, s \in Symbol, a \in Amendments :
       Begin(c, "replace", [orders[i] EXCEPT !.symbol = s, !.price = a.price, !.qty = a.qty])
  /\ UNCHANGED <<running, closing, books, orders, reporter, nextID>>

\* GetOrderBook waits for e.mu; GetOrder or RemoveOrder finds no such order.
NotFound(c) ==
  /\ At(c, "unbook") \/ At(c, "replace")
  /\ closing = {}
  /\ call[c].order.id \notin DOMAIN book[call[c].order.symbol]
  /\ Return(c)
  /\ UNCHANGED <<running, closing, books, orders, reporter, nextID>>

\* CancelOrder takes the order out of the book.
Unbook(c) ==
  /\ At(c, "unbook")
  /\ closing = {}
  /\ LET o == call[c].order
     IN  /\ o.id \in DOMAIN book[o.symbol]
         /\ book' = Without(o.symbol, o.id)
         /\ call' = Disturb([call EXCEPT ![c].pc = "cancel"], {o.symbol})
  /\ UNCHANGED <<running, closing, arrivals, orders, reporter, nextID>>

\* CancelOrder reports the order canceled, whatever its status has become.
ReportCancel(c) ==
  /\ At(c, "cancel")
  /\ SetStatus(call[c].order.id, "Canceled")
  /\ Return(c)
  /\ UNCHANGED <<running, closing, books, orders, tradeCounter, trades, nextID>>

\* The Order ModifyOrder submits in place of the resting one: a limit order
\* of the same account and side that names no symbol.
ReplacementOf(o, entry) ==
  [id |-> o.id, account |-> entry.account, symbol |-> DefaultSymbol,
   side |-> entry.side, type |-> "limit", price |-> o.price, qty |-> o.qty,
   left |-> o.qty, canceled |-> 0]

\* ModifyOrder takes the order out of the book and calls SubmitOrder.  Its
\* lookups before RemoveOrder read what cannot change while the order rests.
Replace(c) ==
  /\ At(c, "replace")
  /\ closing = {}
  /\ LET o == call[c].order
         s == o.symbol
     IN  /\ o.id \in DOMAIN book[s]
         /\ book' = Without(s, o.id)
         /\ call' = Disturb([call EXCEPT
                               ![c].pc = "submit",
                               ![c].order = ReplacementOf(o, book[s][o.id]),
                               ![c].rem = o.qty],
                            {s})
  /\ UNCHANGED <<running, closing, arrivals, orders, reporter, nextID>>

-----------------------------------------------------------------------------
(* Close: matching_engine.go.                                              *)

\* Close takes e.mu, stops the engine and clears every book.
Close(c) ==
  /\ Idle(c)
  /\ closing = {}
  /\ closing' = {c}
  /\ running' = FALSE
  /\ book' = [s \in Symbol |-> EmptyBook]
  /\ call' = Disturb(call, Symbol)
  /\ UNCHANGED <<arrivals, orders, reporter, nextID>>

\* Faulty: the lock is not released.
ClearReporterLocked(c) ==
  /\ c \in closing
  /\ tracked' = EmptyBook
  /\ tradeCounter' = 0
  /\ UNCHANGED <<running, closing, books, orders, trades, nextID, call>>

\* Close clears the reporter and releases e.mu.
ClearReporter(c) ==
  /\ c \in closing
  /\ closing' = {}
  /\ tracked' = EmptyBook
  /\ tradeCounter' = 0
  /\ UNCHANGED <<running, books, orders, trades, nextID, call>>

-----------------------------------------------------------------------------
(* What a client that is in a call does next, and what it may ask for.     *)

\* The steps that first take e.mu for reading, to look the book up.
Lookup(c) == RegisterOrder(c) \/ NotFound(c) \/ Unbook(c) \/ Replace(c)

Step(c) ==
  \/ Lookup(c)
  \/ TurnAway(c) \/ Refuse(c) \/ Admit(c)
  \/ Enough(c) \/ Insufficient(c) \/ MatchNode(c) \/ EndMatch(c)
  \/ RecordTrade(c) \/ RecordTradeFails(c)
  \/ RemoveResting(c) \/ UpdateResting(c)
  \/ AddOrder(c) \/ CancelRemainder(c) \/ Finish(c)
  \/ ReportCancel(c)
  \/ ClearReporter(c)

Ask(c) == SubmitOrder(c) \/ CancelOrder(c) \/ ModifyOrder(c) \/ Close(c)

Next == \E c \in Client : Step(c) \/ Ask(c)

Spec == Init /\ [][Next]_vars

\* A goroutine that is in a call is scheduled until the call returns.  The one
\* lock held across steps is e.mu, which a client that keeps calling Close takes
\* again and again; a sync.RWMutex lets the readers that wait go first when it
\* is unlocked, so a lookup that is possible again and again does happen.
\* Nothing obliges a client to make another call.
FairSpec ==
  Spec /\ \A c \in Client : WF_vars(Step(c)) /\ SF_vars(Lookup(c))

-----------------------------------------------------------------------------
(* Properties that hold however calls interleave.                          *)

EngineTypeOK ==
  /\ running \in BOOLEAN /\ closing \subseteq Client
  /\ arrivals \in Nat /\ nextID \in Positive

OrdersTypeOK == DOMAIN orders \subseteq OrderId /\ orders \in [DOMAIN orders -> Order]

ReporterTypeOK ==
  /\ DOMAIN tracked \subseteq DOMAIN orders /\ tracked \in [DOMAIN tracked -> Tracked]
  /\ tradeCounter \in Nat /\ trades \in Seq(Trade)

BooksTypeOK ==
  /\ book = [s \in Symbol |-> book[s]]
  /\ \A s \in Symbol : /\ DOMAIN book[s] \subseteq DOMAIN orders
                       /\ book[s] \in [DOMAIN book[s] -> Resting]

CallsTypeOK == DOMAIN call \subseteq Client /\ call \in [DOMAIN call -> Call]

\* The values every variable takes.  Resting and traded quantities are positive,
\* a trade never leaves a negative remainder, and every order in a book or in
\* the reporter is one that was registered.
TypeOK ==
  EngineTypeOK /\ OrdersTypeOK /\ ReporterTypeOK /\ BooksTypeOK /\ CallsTypeOK

\* Conservation of an order's quantity: whatever calls race, what the reporter
\* tracks as filled and remaining adds up to what was ordered, and once the
\* remainder of a market or IOC order is canceled, filled and canceled do
\* (updateOrderState, UpdateRemainingQty).  It ties the reporter to the trades
\* the matcher computed long before, without a lock.
FillsConserved ==
  \A i \in DOMAIN tracked :
    \/ tracked[i].filled + tracked[i].rem = orders[i].qty
    \/ /\ orders[i].type \in {"market", "ioc"}
       /\ tracked[i].rem = 0
       /\ tracked[i].filled + orders[i].canceled = orders[i].qty

\* The calls that still own the order they work on: it is in their hands and
\* will be put into a book by them or by nobody.
Submitting(c) ==
  c \in DOMAIN call /\ call[c].pc \notin {"unbook", "cancel", "replace"}

\* An order is in one place: in one book, or with one call that is submitting
\* it.  A modification takes the order out before it submits it again, so two
\* racing modifications, or a modification and a cancellation, never put an
\* order into books twice (RemoveOrder's check under ob.mu decides).
OnePlacePerOrder ==
  /\ \A s, t \in Symbol : s # t => DOMAIN book[s] \cap DOMAIN book[t] = {}
  /\ \A c \in Client : Submitting(c) =>
       /\ \A s \in Symbol : call[c].order.id \notin DOMAIN book[s]
       /\ \A d \in Client \ {c} : Submitting(d) => call[d].order.id # call[c].order.id

-----------------------------------------------------------------------------
(* What makes these properties inductive.                                  *)

\* The steps of SubmitOrder from validateOrder on, and from RegisterOrder on.
Registered == {"liquidity", "match", "record", "remove", "update"}
Working == {"register"} \cup Registered

\* A call works on a valid order that it registered, and the trade it settles
\* is one of its trades.
WellFormed(m) ==
  /\ m.pc \in Working => Valid(m.order)
  /\ m.pc \in Registered => m.order.id \in DOMAIN orders
  /\ m.pc \in {"remove", "update"} => m.next <= Len(m.fills)

CallsWellFormed == \A c \in DOMAIN call : WellFormed(call[c])

\* Clients number their orders from nextID on; an order is stored by its id.
IdsAllocated ==
  /\ \A i \in DOMAIN orders : orders[i].id = i /\ i < nextID
  /\ \A c \in DOMAIN call : call[c].order.id < nextID

\* The struct the reporter holds is the one the call works on; only orders of
\* the resting types are in trades as the resting side and submitted again.
InAccord(m) ==
  /\ \A k \in DOMAIN m.fills :
       /\ m.fills[k].rest \in DOMAIN orders
       /\ orders[m.fills[k].rest].type \in RestingType
  /\ m.pc \in {"submit", "register"} /\ m.order.id \in DOMAIN orders =>
       m.order.type \in RestingType
  /\ m.pc \in Registered =>
       /\ orders[m.order.id].type = m.order.type
       /\ orders[m.order.id].qty = m.order.qty

\* Only orders of the resting types are in books.
OrdersMatchCalls ==
  /\ \A s \in Symbol : \A i \in DOMAIN book[s] : orders[i].type \in RestingType
  /\ \A c \in DOMAIN call : InAccord(call[c])

\* What call m has left to trade after its first k trades.
Remaining(m, k) == IF k = 0 THEN m.order.qty ELSE m.fills[k].left

\* The trades of a call take the order's quantity down step by step to what
\* Match returns as remaining.
Chained(m) ==
  /\ m.pc \in {"submit", "register", "liquidity", "unbook", "replace"} => m.fills = <<>>
  /\ m.pc \in {"submit", "register", "liquidity", "match", "replace"} => m.next = 1
  /\ m.pc \in {"submit"} \cup Working =>
       /\ m.next <= Len(m.fills) + 1
       /\ \A k \in DOMAIN m.fills : m.fills[k].left + m.fills[k].qty = Remaining(m, k - 1)
       /\ m.rem = Remaining(m, Len(m.fills))

FillsChained == \A c \in DOMAIN call : Chained(call[c])

\* How many of its trades a call has recorded.
RecordedFills(m) == IF m.pc \in {"remove", "update"} THEN m.next ELSE m.next - 1

\* While a market or IOC order is worked on, the reporter is exactly as far as
\* the call: nobody else trades it.  Its canceled quantity is what Match left.
InStep(m) ==
  m.order.type \in {"market", "ioc"} =>
    /\ m.pc \in {"submit", "register"} => m.order.canceled = 0
    /\ m.pc \in Registered =>
         LET i == m.order.id
         IN  /\ orders[i].canceled = IF m.pc \in {"liquidity", "match"} THEN 0 ELSE m.rem
             /\ i \in DOMAIN tracked =>
                  /\ tracked[i].rem = Remaining(m, RecordedFills(m))
                  /\ tracked[i].filled + tracked[i].rem = m.order.qty

VanishingOrdersInStep == \A c \in DOMAIN call : InStep(call[c])

\* The inductive invariant behind TypeOK, OnePlacePerOrder and FillsConserved.
IInv ==
  /\ TypeOK /\ CallsWellFormed
  /\ IdsAllocated /\ OnePlacePerOrder
  /\ OrdersMatchCalls /\ FillsChained /\ VanishingOrdersInStep /\ FillsConserved

-----------------------------------------------------------------------------
(* Progress.                                                               *)

\* Every call returns: matching ends, the loop over the trades ends, and the
\* wait for e.mu ends since Close releases it.
CallsReturn == \A c \in Client : ~Idle(c) ~> Idle(c)

-----------------------------------------------------------------------------
(* Properties of serialised calls, that is of a single client.             *)

Quiescent == \A c \in Client : Idle(c)

Live(i) == i \in DOMAIN tracked /\ tracked[i].status \in {"New", "Partial"}

\* A trade of order i is recorded but its book entry is not yet settled.
Settling(i) ==
  \E c \in Client : (At(c, "remove") \/ At(c, "update")) /\ Current(c).rest = i

\* Resting orders of different accounts never cross: the matcher takes all it
\* may of the other side before the remainder rests, as long as the levels it
\* looks at are all the levels there are.
BookUncrossed ==
  \A s \in Symbol : \A i, j \in DOMAIN book[s] :
    /\ book[s][i].side = "buy" /\ book[s][j].side = "sell"
    /\ book[s][i].account # book[s][j].account
    => book[s][i].price < book[s][j].price

\* Book and reporter agree, one way: an order in a book is one the reporter
\* holds live, with a remainder the entry covers.
RestingIsLive ==
  \A s \in Symbol : \A i \in DOMAIN book[s] :
    ~Settling(i) => /\ Live(i)
                    /\ 0 < tracked[i].rem
                    /\ tracked[i].rem <= book[s][i].qty

\* And the other way: between calls an order that may rest and that the
\* reporter holds live is in a book, where it can trade and be canceled.
LiveOrdersRest ==
  Quiescent =>
    \A i \in DOMAIN tracked :
      Live(i) /\ orders[i].type \in RestingType => \E s \in Symbol : i \in DOMAIN book[s]

\* An order that was filled, canceled or rejected stays so and trades no more.
TerminalStatusFinal ==
  [][\A i \in DOMAIN tracked \cap DOMAIN tracked' :
       ~Live(i) => tracked'[i] = tracked[i]]_vars

\* AddOrder rests the full Quantity of a partly filled order, so that it can be
\* filled beyond its quantity; but never to twice its quantity.
OverfillBounded ==
  /\ \A i \in DOMAIN tracked : tracked[i].filled < 2 * orders[i].qty
  /\ \A s \in Symbol : \A i \in DOMAIN book[s] :
       ~Settling(i) => tracked[i].filled + book[s][i].qty < 2 * orders[i].qty

-----------------------------------------------------------------------------
(* What makes these properties inductive when calls are serialised.        *)

Serialised == \A c, d \in Client : c = d

\* No book changes under a traversal.  A stopped engine has empty books, knows
\* no order once Close has returned, and turns every call away.
Undisturbed ==
  /\ \A c \in DOMAIN call : ~call[c].torn
  /\ closing # {} => ~running /\ DOMAIN call = {}
  /\ ~running => /\ \A s \in Symbol : DOMAIN book[s] = {}
                 /\ closing = {} => DOMAIN tracked = {}
                 /\ \A c \in DOMAIN call : call[c].pc = "submit"

\* The order a call has in hand is in no book.  From RegisterOrder on the
\* reporter is as far with it as the call, whatever its type, and holds it live
\* while something remains.
InHand(m) ==
  LET i == m.order.id
  IN  /\ m.pc \in {"submit", "register"} => m.order.left = m.order.qty
      /\ m.pc \in {"submit", "register", "cancel"} /\ i \in DOMAIN tracked => Live(i)
      /\ m.pc = "cancel" => \A s \in Symbol : i \notin DOMAIN book[s]
      /\ m.pc \in Registered =>
           /\ i \in DOMAIN tracked
           /\ tracked[i].rem = Remaining(m, RecordedFills(m))
           /\ Live(i) <=> tracked[i].rem > 0
           /\ m.order.type \in RestingType =>
                orders[i].left = IF RecordedFills(m) = 0 THEN m.rem ELSE tracked[i].rem

OrdersInHand == \A c \in DOMAIN call : InHand(call[c])

\* The trades of a call that are not settled in the book yet.
Pending(m) == {k \in DOMAIN m.fills : k >= m.next}

\* The trades of a call are with different resting orders, and the entries of
\* those not settled are as Match saw them.
EntriesKept(m) ==
  m.pc \in Registered =>
    LET b == book[m.order.symbol]
    IN  /\ \A k, l \in DOMAIN m.fills : m.fills[k].rest = m.fills[l].rest => k = l
        /\ \A k \in Pending(m) :
             /\ m.fills[k].rest \in DOMAIN b
             /\ b[m.fills[k].rest].qty = m.fills[k].restLeft + m.fills[k].qty

EntriesAwaitTrades == \A c \in DOMAIN call : EntriesKept(call[c])

\* The resting order of a recorded trade is done, and will leave the book, or
\* live, and will keep what Match left of its entry.
InSettlement(m) ==
  LET f == m.fills[m.next]
      t == tracked[f.rest]
  IN  /\ m.pc = "remove" => ~Live(f.rest)
      /\ m.pc = "update" =>
           /\ Live(f.rest) /\ 0 < t.rem /\ t.rem <= f.restLeft
           /\ t.filled + f.restLeft < 2 * orders[f.rest].qty

TradesInSettlement == \A c \in DOMAIN call : InSettlement(call[c])

\* A live order that may rest is in a book or in the hands of a call.
LiveOrdersKept ==
  \A i \in DOMAIN tracked :
    Live(i) /\ orders[i].type \in RestingType /\ closing = {} =>
      \/ \E s \in Symbol : i \in DOMAIN book[s]
      \/ \E c \in DOMAIN call : /\ call[c].order.id = i
                               /\ call[c].pc \notin {"unbook", "replace"}

\* The inductive invariant behind RestingIsLive, LiveOrdersRest,
\* TerminalStatusFinal and OverfillBounded, beside IInv.
SerialInv ==
  /\ Undisturbed /\ OrdersInHand
  /\ EntriesAwaitTrades /\ TradesInSettlement
  /\ RestingIsLive /\ LiveOrdersKept /\ OverfillBounded

\* The prices a level can have.
Prices == {r.price : r \in Requests} \cup {a.price : a \in Amendments}

\* The levels the matcher looks at are all the levels there are.
DepthSuffices == IsFiniteSet(Prices) /\ Cardinality(Prices) <= MaxDepthLevels

PricesKnown ==
  /\ \A s \in Symbol : \A i \in DOMAIN book[s] : book[s][i].price \in Prices
  /\ \A c \in DOMAIN call :
       call[c].pc \in {"submit", "replace"} \cup Working => call[c].order.price \in Prices

\* An entry an incoming order that may rest has to trade with.
Crosses(o, entry) ==
  /\ entry.side = Opposite(o.side)
  /\ entry.account # o.account
  /\ PriceMatch(o, entry.price)

\* An order with a remainder has taken whole entries only and, once Match has
\* returned, every entry it crosses.
Exhausts(m) ==
  m.pc \in Registered /\ m.rem > 0 =>
    /\ \A k \in DOMAIN m.fills : m.fills[k].restLeft = 0
    /\ m.pc \notin {"liquidity", "match"} /\ m.order.type \in RestingType =>
         \A i \in DOMAIN book[m.order.symbol] :
           Crosses(m.order, book[m.order.symbol][i]) =>
             \E k \in Pending(m) : m.fills[k].rest = i

MatchesExhaust == \A c \in DOMAIN call : Exhausts(call[c])

\* The inductive invariant behind BookUncrossed, beside SerialInv.
UncrossedInv == PricesKnown /\ MatchesExhaust /\ BookUncrossed

-----------------------------------------------------------------------------
(* What the documentation says and the code does not do.                   *)

\* "remainder stays in the order book" (order_matcher.go:162).
RemainderRests ==
  Quiescent => \A s \in Symbol : \A i \in DOMAIN book[s] : book[s][i].qty = tracked[i].rem
=============================================================================
