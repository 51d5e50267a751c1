# fin-kit: a verification project

TLA+ modules, TLC configurations and machine-checked proofs about the Go
packages `exchange` and `broker` of fin-kit. Every definition is translated from
the code under `src/`; the C bindings the packages import (`exchange-c/orderbook`,
`hash-c/sdk`) are not part of the repository and are modelled from how the code
uses them.

## 1. Inventory

### Package exchange

| component | state | operations | correct when |
|---|---|---|---|
| `MatchingEngine` (matching_engine.go) | `running`, `orderBooks` by symbol, under `e.mu` | `SubmitOrder`, `CancelOrder`, `ModifyOrder`, `Close`, `GetOrderBook`, `getOrCreateOrderBook` | an order is in one place; books and reporter agree; calls return |
| `OrderMatcher` (order_matcher.go) | the depth limit | `Match` for market, limit, IOC, FOK, iceberg | price-time priority, limits, no self-trade, FOK all or nothing |
| `TradeReporter` (trade_report.go) | tracked orders by id, trade counter, under `r.mu` | `RegisterOrder`, `recordTradeForOrder`, `RecordTrade`, `CancelOrder`, `RejectOrder`, `UpdateRemainingQty`, `UnregisterOrder`, `Clear` | a report says what its trades say; the caller's struct agrees with what is tracked, and a replaced one is left alone |
| `OrderBook` (orderbook.go) | core book, account of each order, under `ob.mu` | `AddOrder`, `RemoveOrder`, `UpdateOrder`, `Clear`, getters | core book, accounts and self-trade registry hold the same orders |
| `SelfTradeCheck` (self_trade.go) | orders of each account, one inline or several in a map | `RegisterOrder`, `UnregisterOrder`, `Check`, `Clear`, getters | behaves as a set of orders per account |
| types (order_type.go) | none | `NewOrder`, `NewIcebergOrder` | orders are valid |

### Package broker

| component | state | operations | correct when |
|---|---|---|---|
| `BrokerOrderBook` (broker_orderbook.go) | core book, metrics | `OnOrderIncrement`, `OnTrade`, `OnSnapshot`, `GetSnapshot`, `Close` | the rebuilt book follows the exchange's over a lossless feed, and again after a snapshot (section 5) |
| `SnapshotBuilder`, `SnapshotPublisher` (snapshot.go, publisher.go) | subscribers | `Subscribe`, `BuildAndPublish` | every subscriber gets every snapshot, in order, and a caller who got one knows that all did |
| `OrderBookValidator` (validator.go) | allowed drift | `Validate`, `ValidateQuick` | valid means equal levels within the drift |
| `MarketDataAdapter` (market_adapter.go, types.go) | none | three parsers, `ValidateRawData` | a message is what its fields say |
| `BrokerMetrics` (metrics.go) | three atomic counters | two `Record...`, three getters | counts match what was done |

Not program logic: `Makefile`, `.github`, `.githooks`; `hft` holds module files
only, `core/*` are empty submodules.

### How the parts interact, and what is hard

The engine's calls run in the callers' goroutines. `SubmitOrder` reads `running`,
validates, looks the book up under `e.mu`, registers the order with the reporter
under `r.mu`, lets the matcher walk the core book **with no lock at all**, and then
settles trade by trade: reporter under `r.mu`, book under `ob.mu`. `ModifyOrder` is
a removal followed by `SubmitOrder`. `Close` holds `e.mu` over all books and the
reporter, so that calls wait for it at their lookups and nowhere else. The broker
book is documented as not thread-safe; what is hard there is the feed: lost,
duplicated and reordered messages, and the virtual ids a snapshot introduces.

The hazards are in `PROJECT.json`, each at its line with the properties that would
catch it going wrong.

## 2. Plan

All of it is done. The order was: the engine first, since it is the one part whose
calls race, then its parts by themselves, then the broker.

1. `CoreBook` - the imported book.
2. `MatchingEngine`, `MCMatchingEngine` - engine, matcher, reporter and books with
   concurrent calls; `MatchingEngineProofs` - types, places, conservation, however
   calls race; books and reporter agree and books stay uncrossed, for calls one after
   the other.
3. `AccountRegistry`, `SelfTradeCheck` - an abstract registry (a set of registrations)
   and the inline-or-map registry.
4. `TrackedOrderBook` - the stand-alone `OrderBook` with self-trade tracking;
   `TrackedOrderBookProofs` - the registry's refinement, and the book over it.
5. `SymbolBooks`, `BookDirectory`, `BookDirectoryProofs` - one book per symbol, the
   double-checked lock that makes it so, `Close` book by book, and the refinement.
6. `PriceTimeExchange`, `SerialEngine` - an abstract exchange that matches an order in
   one step; the engine with one client implements it (`SerialEngineProofs`).
7. `TradeReporter`, `MCTradeReporter`, `TradeReporterProofs` - the stand-alone reporter.
8. `BrokerBook`, `MarketData`, `SnapshotBuilder`, `OrderBookValidator`, composed in
   `BrokerFeed` (instance `MCBrokerFeed`, proofs `BrokerFeedProofs`) - the rebuilt
   book behind a feed that loses, damages, repeats and delays.
9. `SnapshotPublisher`, `SnapshotPublisherProofs` - publication to subscribers that call
   back.
10. `Sums` - what the proofs need to know of sums over finite sets.

## 3. The modules

**`CoreBook`** (external). A book is a function from the ids of resting orders to
entries. A level is the set of the orders of a side with one price, so "best
level", "top n levels" and "traversal order" are definitions, not state. The three
updates do nothing when the library would return an error; taken from use: an
insertion fails on a known id, a deletion and a modification on an unknown one, a
modification on a quantity that is not positive, and keeps the order's place.

**`MatchingEngine`**. A client is a goroutine with at most one call. A call is a
record: where it stands (`pc`), the `Order` it works on, the local `remaining`
(`rem`), the trades `Match` returned (`fills`) and the one the loop is at (`next`).
The steps are cut where the code releases a lock:

| step | code |
|---|---|
| `SubmitOrder` | a client calls with one of `Requests` and a fresh id |
| `TurnAway`, `Refuse`, `Admit` | the read of `running`, `validateOrder`, the rejection |
| `RegisterOrder` | the lookup under `e.mu`, then `RegisterOrder` |
| `Enough`, `Insufficient` | the liquidity test of a fill-or-kill order |
| `MatchNode` | one resting order of `matchLevel`, read without a lock |
| `EndMatch` | the return of `Match`, with what market and IOC orders cancel |
| `RecordTrade`, `RecordTradeFails` | `recordTradeForOrder` |
| `RemoveResting`, `UpdateResting` | `RemoveOrder` or `UpdateOrder` of the resting order |
| `AddOrder`, `CancelRemainder`, `Finish` | the end of `SubmitOrder` |
| `CancelOrder`, `NotFound`, `Unbook`, `ReportCancel` | `CancelOrder` |
| `ModifyOrder`, `NotFound`, `Replace` | `ModifyOrder`, which goes on as a submission |
| `Close`, `ClearReporter` | `Close`, holding `e.mu` (`closing`) in between |

`orders` holds the `Order` structs by id. The reporter keeps the caller's pointer
and writes `RemainingQty` through it, so the model has one struct per id and not a
copy in the call; only what the call passed (`type`, `qty`, `price`) is in the call.

*The unlocked traversal.* The matcher follows the lists of a tree other calls may
be changing. That is a data race: the model lets a call whose book was changed
under it (`torn`) meet the remaining matching orders in any order, stop early, and
find any liquidity. It does not model memory that the C library has freed, nor an
entry that a traversal still holds after it was removed while its id has meanwhile
been put back into a book.
A change of quantity alone does not disturb a traversal.

*The two walks.* `Match` goes through the best level first and then through the top
levels, of which it skips the best. `BestLevel` and `LaterLevels` are the orders of the
two walks, and `Unvisited` those the call has still to meet: of the first walk, until it
is through, then of the second. An order that both walks came through would be met, and
traded with, twice; that none is, and that together they keep to price and time, is for
`ImplementsExchange` to show.

`RemainingQty` equals
`Quantity` when an order is submitted, as `NewOrder` and every caller in the tests
have it.

Left out: timestamps, average prices and the list of trades in a report, the
iceberg's visible quantity (the matcher ignores it), nil arguments, ids and
accounts that are empty (a submission with those is refused like one with no
quantity), and ids that a client uses twice, which `TradeReporter` has.

Definitions commented "Faulty" are used by no specification. Each is a plausible
bug in the definition that follows it; put in its place, it makes one of the
properties fail (`PROJECT.json`, "mutants").

**`MCMatchingEngine`** gives the constants their values for TLC.

**`MatchingEngineProofs`** holds the theorems about calls that race, and after them
those about serialised calls.

**`AccountRegistry`** is what the self-trade registry promises: a set of registrations
(account, order, side), an order being registered at most once with an account.

**`SelfTradeCheck`** is self_trade.go. An account's set keeps one order inline
(`single`) or several in a map (`orders`, `NoMap` when nil); `Joined` and `Reduced`
are the changes between the two in `RegisterOrder` and `UnregisterOrder`. The inline
entry keeps its old value while there is a map, as in the code. Every method holds
`s.mu` from start to end, so each is one step. The refinement mapping,
`Registrations`, is what `GetAccountOrdersBySide` returns for every account and side:
the registry is compared with its promise through what its callers can see.

**`TrackedOrderBook`** is orderbook.go with self-trade tracking, the core book, the
account of each order and the registry side by side. `ob.mu` is held from start to end
and the registry is entered at most once under it, so each method is one step. A
method that returns an error changes nothing and is not a step. The same order id may
be added again once it is gone, for another account or on the other side. Prices and
arrivals are left out: the engine's module has them, and nothing here looks at them.
The engine makes its books without tracking, where this module says only that core
book and accounts agree. Several books that share one registry are not modelled.

**`SymbolBooks`** is what the engine's map of books promises concurrent callers: a
symbol has one book from the start, what is added can be removed until it is cleared.

**`BookDirectory`** is the map itself. A book is an object: it is made once, numbered
in order, and a call that has looked it up keeps it without a lock. `Lookup`, `Missing`
and `NoBook` are the outcomes of the first look under the read lock; `CreateBook` and
`FindBook` those of the second under the write lock (`MustCreate` is the double check);
`AddOrder` and `RemoveOrder` work on the book that was found, under its own mutex.
A client that calls `Close` waits for the write lock (`AskClose`), as calls do that make
a book, and holds it (`Close`) over as many `ClearBook` steps as there are books, in any
order, as Go ranges over a map. Of an order only the id is kept. `MatchingEngine`
clears all books in one step instead; that calls with a book in hand may meet some
cleared and some not is here.

**`PriceTimeExchange`** is what the engine promises one client at a time: `Match` is
one step, in which the order takes from those in front of it by price and time, and
what is left of it rests. A resting order shows a quantity and has a remainder, which
differ as in the code (`Resting`). `asked` and `pending` keep the promise honest: what
is matched is what was submitted.

**`SerialEngine`** is the refinement. The abstract `Submit` is the registration, the
abstract `Match` the return of the matcher (`EndMatch`) or the refusal of a
fill-or-kill order. From then until `SubmitOrder` returns, reporter and book lag
behind, and the mapping shows them as the call will leave them: `BookAfter` applies the
unsettled trades and the entry that will join, `TradesAfter` appends those not recorded
yet. A modification is a `Withdraw` and a `Submit`. `ExchangeInv` at the end of the
module is what makes the refinement inductive (section 6).

**`TradeReporter`** is trade_report.go by itself, for callers that use its exported
methods freely. Order structs are objects, several of which may have one id; the
reporter writes through the pointer of the one it tracks. `RecordTrade` stands for
both `RecordTrade` and its twin for one order, with their partial failure
(`BookedSides`); a trade of an order with itself, which nothing refuses, is booked on it
twice (`BookedFor`). A caller makes a new `Trade` for each call. `UpdateRemainingQty`
sets whatever `Remainder` the caller says, at any time. `Wrap` is the width of
`TotalValue`, whose largest value is `MaxInt`. `MatchingEngine` has the part the engine
uses, with ids used once. **`MCTradeReporter`** adds the symmetry of ids and of structs,
which the reporter only compares with each other.

**`BrokerBook`** is broker_orderbook.go: one step per handler, which also says what an
error leaves behind. A snapshot's levels get the ids -1, -2, ... (`VirtualID`).
`updateCount` is the counter of metrics.go.

**`MarketData`** is market_adapter.go. JSON data is a function from field names to
values; an absent field has its zero value (`Field`). A parser returns the set of the
message it makes, empty for an error.

**`SnapshotBuilder`** and **`OrderBookValidator`** are snapshot.go and validator.go as
operators; prices scaled by the tick size and drifts are fractions, kept as numerator
and denominator. The levels of the core book and what `GenerateSnapshot` makes of
levels are external.

**`BrokerFeed`** composes the four with their environment. The exchange (external)
places, withdraws, amends and trades orders, an order possibly before it is inserted,
and takes snapshots, of other symbols too and with levels of quantity 0. The feed
delivers in turn, loses, damages (cut off, garbled, another format, another type) and
repeats messages at any later time, which after a loss is a delay. `Receive` is the
client's loop: check, parse, call the handler of the type. `log` pairs every message
with the exchange's book after it; `base` and `clean` record since which snapshot
nothing was missed, and are history only. **`MCBrokerFeed`** gives the constants.

**`SnapshotPublisher`** is the path of a snapshot from `GetSnapshot` to the subscribers
and back. `OnSnapshot` is the caller's code and may subscribe others, update the book
and ask for another snapshot, so publications nest: `stack` has those in progress. Go's
`range` fixes the subscribers of a loop when it begins (`size`).

The modules ending in `Proofs` hold the theorems (section 6); **`Sums`** holds the
lemmas about sums of functions over finite sets that several of them need.

## 4. What the runs check

| run | bounds | states | properties |
|---|---|---|---|
| `MatchingEngineSerial` | 1 client, 3 orders, 2 accounts, 1 symbol, modifications, depth limit 1 | 288,000 | `RestingIsLive`, `LiveOrdersRest`, `TerminalStatusFinal`, `ImplementsExchange` |
| `MatchingEngineQueue` | 1 client, 4 orders, 3 accounts, 1 symbol | 314,000 | `BookUncrossed`, `OverfillBounded`, `ImplementsExchange` |
| `MatchingEngineRacing` | 2 clients, 3 orders, 2 accounts, 2 symbols, modifications | 1,610,000 | `TypeOK`, `FillsConserved`, `OnePlacePerOrder`, `IInv` |
| `MatchingEngineProgress` | 2 clients, 2 orders, 2 accounts, 2 symbols | 65,000 | `CallsReturn` |
| `SelfTradeCheck` | 3 orders, 2 accounts | 16,000 | `SetsWellFormed`, `GettersAgree`, `ImplementsRegistry` |
| `TrackedOrderBook` | 2 orders, 2 accounts | 8,700 | `TypeOK`, `RestingRegistered`, `StaleByClearOnly` |
| `BookDirectory` | 3 clients, 2 symbols, 1 order id | 265,000 | `TypeOK`, `OneBookPerSymbol`, `SymbolIDsDistinct`, `ImplementsSymbolBooks`, `CallsEnd` |
| `TradeReporter` | 2 ids with 2 structs each (symmetric), 2 trades, 3 registrations, integers up to 7 | 1,149,000 | `TypeOK`, `AverageWithinPrices`, `TradesNumbered`, `StructInSync`, `ReplacedStructFrozen`, `SellSideNeverAlone` |
| `BrokerFeed` | 4 messages, 2 orders, 2 faults | 590,000 | `TypeOK`, `RealOrdersFollow`, `SnapshotLevelsKept`, `NeverOverstates`, `VerdictRight`, `ChangesCounted`, `DamagedIgnored` |
| `SnapshotPublisher` | 2 updates, 3 subscriptions, 3 snapshots, nested up to 3 deep | 83,000 | `TypeOK`, `ReturnedReachedAll`, `EarlierSeeMore`, `NewerFirstWhenNested` |

*Why these bounds are enough.* Orders meet in pairs and queues. Three orders make
one incoming order sweep two resting ones, of either order of arrival or price;
four make a queue of three, or an order that rests partly filled and is hit again.
There are two price levels a side. With `MaxDepthLevels = 2` (`Queue`, `Racing`,
`Progress`) the depth limit is out of the way; with `MaxDepthLevels = 1` (`Serial`) an
order that has filled the best level rests though the next one crosses it, and the
exchange it is compared with does the same. The quantities are chosen so that fills are exact, partial on either side and
beyond an order's quantity. Two clients suffice for every pair of racing calls, and
the second symbol gives a modified order another book to move to. `MaxArrivals`
bounds modifications, which otherwise could follow one another for ever.
The registry's set changes its form between one order and two; three orders also let
a map grow and shrink without changing form, and leave the inline entry stale behind
a map that no longer has its order. An operation of the tracked book touches one order
and one account; a second of each is what it may disturb, and `Clear` leaves both in
the registry under whatever they are added again as. Neither run bounds the number of
operations.

In the directory three clients are two that miss the same book together and one that
closes the engine between any of their steps; a second symbol makes the second number,
and lets `Close` be half done. An id added twice is a duplicate. The number of calls is
not bounded. The reporter's two structs of one id are the old and the new one of a
registration, the second id is the other side of a trade, and three registrations
replace a struct and register the old one once more. With 7 as the largest integer two
trades at price 4 wrap, and so does one of an order with itself; at price 1 none does.
Two trades of quantity 1 fill an order of quantity 2, and one more, or a remainder that
was set to 1, fills it beyond that. The
feed's four messages are enough for an order that is inserted, caught by a snapshot,
and changed behind it, with a message before or after; two faults are a loss and its
late arrival, or two repetitions of a trade. Two orders are the two sides of a trade or
two levels of a side. Three subscribers are one that calls back with one before and one
after it, and a publication nested in a nested one exists.

*What holds, and when.* The serial properties hold for calls one after the other
and, except `OverfillBounded`'s share of them, no longer when calls race: the code
serialises nothing between matching and settling. What races cannot break is that
an order is in one place (`OnePlacePerOrder`), since `RemoveOrder` decides under
`ob.mu` which of two racing calls takes it out, and that the reporter's quantities
add up (`FillsConserved`), though the trades it records may have been computed from
a book that has changed since. The tracked book's registry always knows what rests
(`RestingRegistered`), also after a `Clear` has left it with orders of the same ids;
what it knows beyond that comes from `Clear` alone (`StaleByClearOnly`): `Clear`
empties book and accounts and unregisters nothing (orderbook.go:281), although
self_trade.go:71 asks for it whenever an order leaves the book.

With one client the matcher's walk from node to node, the loop over its trades, and the
two places that must agree about an order cannot be told from an exchange that matches
in one step (`ImplementsExchange`); price-time priority, limits, self-trade prevention
and the all-or-nothing of fill-or-kill orders are what that exchange's `Hit` says.

The directory's promise holds however calls race with each other and with `Close`,
because no book ever leaves the map. What the reporter run says holds for callers that
do as they like, except that a struct that is registered twice keeps its old fills until
it trades again (`StructInSync` leaves it out). Nothing is said of remainders adding up:
`UpdateRemainingQty` sets them to what its caller says (section 5). A trade whose seller is
not tracked stays booked on its buyer; the converse cannot happen
(`SellSideNeverAlone`), and the trade that failed keeps its number (`TradesNumbered`). An
average price is right as long as the traded value fits.

The rebuilt book follows the exchange exactly as long as nothing was missed, except for
the orders a snapshot stands for, whose levels stay as they were (`RealOrdersFollow`,
`SnapshotLevelsKept`, section 5). Whatever the feed does, it shows no order that was not
published, nor more of it than was (`NeverOverstates`), and never half a snapshot
(`ChangesCounted`). `VerdictRight` is about tick size 1, no allowed drift and levels
with a quantity, where the verdict means what it says. A trade that is repeated is
applied again, which is why `clean` ends with it; the repetition of the latest
increment or snapshot does no harm.

`EarlierSeeMore` is what remains of "every subscriber gets every snapshot" when
subscribers fail, `NewerFirstWhenNested` what remains of their order when subscribers
call back.

*Fairness.* Only two runs need it. In `MatchingEngine` (`FairSpec`) a goroutine in a
call is scheduled until the call returns (weak fairness of its steps). The lookups need
more: another client may call `Close` again and again, and each holds `e.mu`. Go's
`sync.RWMutex` lets readers that wait go first when a writer unlocks, which is strong
fairness of the steps that first take `e.mu` for reading. `BookDirectory` has those that
wait for the write lock besides, in `getOrCreateOrderBook` and in `Close`: a `sync.Mutex` is handed to a goroutine that has
waited long, and an `RWMutex` keeps new readers back while a writer waits, hence strong
fairness of the steps that take the lock, weak fairness of the others. Clients are not
obliged to call. Deadlock is checked in every run but `BrokerFeed`, where the exchange
has no messages left at the bound.

## 5. Where comments and code disagree

Two have a run that ends in a counterexample.

| run | the comment | the code |
|---|---|---|
| `RemainderRests` | "remainder stays in the order book" (order_matcher.go:162) | the full quantity rests (orderbook.go:110); such an order can be filled to less than twice its quantity (`OverfillBounded`) |
| `SnapshotRecovery` | "Recovery after connection loss" (broker_orderbook.go:157) | the levels of a snapshot get virtual ids (:175), so that a later deletion, amendment or trade of an order that was in it does not reach the book, though nothing is missed |

The models do what the code does in these other places, which were met on the way:

- A fill-or-kill order is "completely filled immediately or canceled entirely"
  (order_matcher.go:133), but its liquidity test counts the best level at any price
  (:314): the order may trade nothing and stay New.
- `ModifyOrder` "modifies an existing order's quantity or price" (matching_engine.go:216),
  but the `Order` it submits has no symbol (:242) and goes to the DEFAULT book.
- `CancelOrder` and `GetOrderBook` do not take an empty symbol for DEFAULT, as
  submission does (:298).
- The trade's "Buy order remaining quantity" (order_type.go:106) is set for the resting
  side only (order_matcher.go:279).
- The engine is "Thread-safe via mutex per order book" (matching_engine.go:29), but
  holds no lock from matching to settling: with two clients an order that has ended
  changes its status again, and one admitted before `Close` "clears all order books"
  (:279) may rest after it. `UpdateOrder` writes the remainder `Match` computed
  (matching_engine.go:159), so that the entry of an order two calls have matched ends
  with what the later writer says, and may have grown in between.
- A market or IOC order whose rest is canceled keeps the status New or Partial.
- An order id that is used twice overwrites what the reporter tracks; trade ids begin
  again at 1 after `Clear`. The canceled remainder of a call that began before the id
  was registered again is then written to the new order (trade_report.go:283): its
  filled, remaining and canceled quantities no longer add up.
- `RecordTrade` takes a trade with one order on both sides and books it on that order
  twice (trade_report.go:73).
- A subscriber "will receive all future snapshots" (snapshot.go:29, broker_orderbook.go:248)
  unless one before it fails (publisher.go:34); a snapshot whose publication fails is
  generated but not counted (metrics.go:29).
- The validator accepts any rebuilt quantity where the exchange has 0 (validator.go:140),
  and compares prices that are scaled by the tick size with prices that are not.
- An increment's side is required of every type (market_adapter.go:131), where types.go:59
  requires it of insertions.

## 6. What is proved

*The engine.* For every set of clients, accounts and symbols, every request and
amendment allowed by `EngineAssumption`, and whatever the bounds:

| theorem | states |
|---|---|
| `TypeCorrect` | `Spec => []TypeOK` |
| `OrdersInOnePlace` | `Spec => []OnePlacePerOrder` |
| `QuantityConserved` | `Spec => []FillsConserved` |
| `EngineInvariant` | `Spec => []IInv` |

`EngineAssumption` says that the default symbol is one of the symbols, that requests
and amendments have the fields of an order, and that the depth limit is positive.
Nothing else is assumed: no finite set, no bound on clients.

None of the three properties is inductive by itself. `IInv`, which TLC checks in
`MatchingEngineRacing`, is built up in three layers.

*Types.* That the trades of a call leave no negative remainder and that what is
recorded belongs to a registered order needs `CallsWellFormed`: a call works on a
valid order, it has registered it, and the trade it settles is one of its trades. The
lemmas ending in `Calls` say what each step does to the calls, those ending in
`Types` what it does to books and reporter; `TypesStep` puts them together.

*Places.* `IdsAllocated` tells a new order from every known one. Then three steps can
disturb `OnePlacePerOrder`: a submission brings an id nobody has (`PlacesSubmitOrder`),
a modification takes the order out of its only book into its own hands
(`PlacesReplace`), and `AddOrder` hands it over to a book and returns
(`PlacesAddOrder`). All others put nothing anywhere (`BooksShrink`,
`SubmittingKept`).

*Conservation.* The difficulty is an order that vanishes: when the rest of a market
or IOC order is dropped, the reporter sets its remaining quantity to zero, and the
sum holds only if what it dropped is what `Match` canceled long before. So the
reporter must be exactly as far as the call (`VanishingOrdersInStep`), trade by
trade, along a list of trades that takes the quantity down without a gap
(`FillsChained`); and nobody else may trade the order meanwhile, because it is in no
book and with no other call (`OnePlacePerOrder`) and was never the resting side of a
trade (`OrdersMatchCalls`). `VanishingUntouched` is the lemma that carries this
across the steps of other clients. For an order that may rest the sum is kept by
every trade, however often two calls trade it.

*The engine, one call at a time.* What racing calls break is proved under the
hypothesis `Serialised`, that there is one client, and again for every set of
accounts and symbols, every request and amendment and any number of orders:

| theorem | states |
|---|---|
| `SerialInvariant` | `Serialised /\ Spec => [](IInv /\ SerialInv)` |
| `RestingOrdersLive` | `Serialised /\ Spec => []RestingIsLive` |
| `LiveOrdersInBooks` | `Serialised /\ Spec => []LiveOrdersRest` |
| `DoneOrdersFinal` | `Serialised /\ Spec => TerminalStatusFinal` |
| `OverfillsBounded` | `Serialised /\ Spec => []OverfillBounded` |
| `BooksUncrossed` | `Serialised /\ DepthSuffices /\ Spec => []BookUncrossed` |

`SerialInv` is built on `IInv`. Match has computed all its trades before the first is
settled, so what has to be carried through the settlement is that the book still is
what Match saw: no traversal was disturbed (`Undisturbed`), the trades are with
different entries and those still to come find their entry as it was
(`EntriesAwaitTrades`), a recorded trade leaves its resting order either done and about
to leave or live with what Match left of it (`TradesInSettlement`), and the incoming
order is in nobody else's hands and as far in the reporter as in the call
(`OrdersInHand`). From these each step keeps `RestingIsLive` and `OverfillBounded`;
`LiveOrdersKept` is `LiveOrdersRest` between calls as well as during one. `Close`
leaves nothing behind it, since every call it could interrupt has returned.

`BooksUncrossed` needs a second hypothesis, `DepthSuffices`: there are no more prices
than levels the matcher looks at. It is true of the runs and cannot be dropped, since
the code leaves what is behind the last level alone. `UncrossedInv` says that every
price is one that was asked for, that an order with a remainder has taken whole entries
only, and that once Match has returned every entry it crosses is one of the trades not
settled yet (`MatchesExhaust`): so nothing it crosses is left when it joins the book.

*The engine is an exchange.* The refinement is proved too, from `EngineAssumption` and
for one client, whatever the depth limit, the prices and the number of calls:

| theorem | states |
|---|---|
| `EngineImplementsExchange` | `Serialised /\ Spec => ImplementsExchange` |

Each step of the engine is a step of `PriceTimeExchange` or changes nothing it sees
(`ExchangeStep`). Four definitions say what that is, and a lemma each that it follows
from the state: between settlements books and trades are seen as they are (`QuietView`);
during one, what an entry will lose (`DuesView`), which entries stay and which joins
(`BookView`) and which trades are still to come (`TradesView`). Recording a trade moves
it from those to come to those published and takes its quantity from what is to be lost
(`RecordTradeSeen`); settling it in the book makes the entry what it was seen as
(`SettlingSeen`); the end of the call puts the order where it was seen (`EndSeen`).

The weight is on `EndMatchSeen`, the step in which `Match` returns and the exchange
matches. `ExchangeInv`, the third layer of the invariant beside `IInv` and `SerialInv`,
relates the walk to the promise: entries have different arrivals (`ArrivalsInOrder`), and
the trades made so far are with the first of the entries the order may trade with, in
their order, each for what those in front of it left (`InQueue`). Visiting one more node
keeps that: the two walks share no order and leave none out (`WalksCover`), and what is
met on the best level comes before whatever is on a later one (`ReachedFirst`). When the walk ends, either the order is filled or no entry is left, so
whom it met is whom the exchange's `Hit` names; the order of the trades is the only one
that follows price and time (`OneQueue`). A fill-or-kill order passed the liquidity
test, whose sum is that of `Hit`, except that it counts the best level at any price
(`AvailableToTrade`): where the test is too generous no entry is acceptable and both
trade nothing. TLC finds `ExchangeInv` true as an invariant of `MatchingEngineSerial`
and `MatchingEngineQueue`.

*The registry and the tracked book.* For every set of accounts and orders, finite or
not:

| theorem | states |
|---|---|
| `RegistryInvariant` | `RegistrySpec => []SetsWellFormed` |
| `RegistryImplemented` | `RegistrySpec => ImplementsRegistry` |
| `RegistryGettersAgree` | `RegistrySpec => []GettersAgree` |
| `BookTypes` | `Spec => []TypeOK` |
| `BookRegistered` | `Spec => []RestingRegistered` |
| `BookStaleByClear` | `Spec => StaleByClearOnly` |

`RegistryAssumption` says that the nil map is not one of the maps, `BookAssumption`
that quantities are positive integers and the tracking option is a Boolean.

A set, in either form, stands for one map (`AsMap`). `JoinedMap` and `ReducedMap` are
the heart of the refinement: registering puts one entry into that map and
unregistering drops one, whatever the change of form. `RegistryStep` lifts this to
the set of registrations. It needs `SetsWellFormed`: a map with one order left would
still answer, but unregistering would then drop the account on other terms than the
promise. `RegistryGettersAgree` counts: the registrations are the disjoint union over
the accounts of what each set holds, and each set holds as many as its map has orders.
The book's invariant `BookInv` adds to types and `RestingRegistered` that
a book that does not track registers nothing. `BookStep` uses the registry only
through its promise, by `AddOrderEffect` and `RemoveOrderEffect`: since adding takes
away whatever was registered for the same order and account before, no stale side
survives next to the new one.

*The directory.* For every set of clients, symbols and order ids:

| theorem | states |
|---|---|
| `DirectoryTypes` | `Spec => []TypeOK` |
| `OneBook` | `Spec => []OneBookPerSymbol` |
| `SymbolIDsDiffer` | `Spec => []SymbolIDsDistinct` |
| `DirectoryImplementsBooks` | `Spec => ImplementsSymbolBooks` |

The invariant `DirInv` adds to the two properties that the books are numbered in the
order they were made and that the map has as many symbols as there are books
(`NumberedInOrder`): a symbolID is computed from the size of the map, and is new only
because both grow together. In the refinement a creation adds an empty book, so the
orders of a symbol stay what they are, and an addition or removal works on the one
book those orders are in, by `OneBookPerSymbol`.

*The reporter.* For every set of ids and structs, all quantities and prices and any
width of integers, under `ReporterAssumption` (quantities and prices are positive,
remainders are integers):

| theorem | states |
|---|---|
| `StructsInSync` | `Spec => []StructInSync` |
| `ReplacedStructsFrozen` | `Spec => ReplacedStructFrozen` |
| `SellSideBookedWithBuyer` | `Spec => SellSideNeverAlone` |
| `ReporterTypes` | `Spec => []TypeOK` |
| `TradesAreNumbered` | `Spec => []TradesNumbered` |
| `AveragesWithinPrices` | `Spec => []AverageWithinPrices` |

`RepInv` adds to `StructInSync` that a tracked order is tracked under its struct's id
and that a struct which was never registered is as `NewOrder` made it: that is why it
agrees with what is tracked the first time it is registered. `NumInv` adds to
`TradesNumbered` that no trade has a number beyond the counter: a new one is therefore
in no report yet and comes last in those it joins. `AveragesWithinPrices` is about
sums over the trades of a report, and `AccInv` says that they are kept trade by trade:
what is filled is the sum of the quantities, the tracked value is the sum of the true
ones as long as that fits (`WrapSame`), and some trade has a price at most, another at
least, the true average (`AverageStays`).

*The broker's book.* For every exchange, every feed and any number of faults, under the
assumptions named `...Assumption` of the four modules (a symbol id is not 0, quotes have
positive quantities):

| theorem | states |
|---|---|
| `BookFollows` | `Spec => []RealOrdersFollow` |
| `BookNeverOverstates` | `Spec => []NeverOverstates` |
| `UpdatesCounted` | `Spec => ChangesCounted` |
| `DamageHarmless` | `Spec => DamagedIgnored` |
| `FeedTypes` | `Spec => []TypeOK` |
| `LevelsKept` | `Spec => []SnapshotLevelsKept` |
| `VerdictIsRight` | `Spec => []VerdictRight`, for tick size 1 and no allowed drift |

`FeedInv` has three parts. `LogInv` is about the exchange alone: every message tells the
difference between the book before and after it, and an order is inserted at most once.
`PosInv` places the feed. Then a delivered message makes of the rebuilt book, which has
the exchange's orders since the last snapshot, what it made of the exchange's book; an
order the snapshot stands for is not among the real ids and stays unknown. A snapshot
removes all real orders and adds none, because virtual ids are negative: that is the
same lemma that says that no snapshot fails half way. `BookNeverOverstates` needs no
more of the feed than that every message it hands over was published once.

`LevelsKept` compares levels, that is sums, of two books with different ids. Its
invariant is that of `BookFollows` with types (`ValuesInv`). A snapshot lists the prices
of the exchange's book in order, each once, with the sum of its orders (`LevelsOf`); the
virtual orders it makes are one to a price (`LevelsFromKeys`), so that their levels are
the listed ones (`RebuiltLevels`), and nothing but a snapshot touches a virtual order
(the lemmas named `...Keeps`). `VerdictIsRight` is about the validator alone: with prices
left as they are and no drift its comparison, level by level, is equality of the two
lists. The hypotheses name the one setting in which the comparison is meant to be exact;
section 5 says what it does otherwise.

*The publisher.* For every set of subscribers, any number of updates, subscriptions and
snapshots, and nesting to any depth:

| theorem | states |
|---|---|
| `PublisherTypes` | `Spec => []TypeOK` |
| `ReturnedMeansReceived` | `Spec => []ReturnedReachedAll` |
| `EarlierSubscribersSeeMore` | `Spec => []EarlierSeeMore` |
| `OlderAfterNewerNested` | `Spec => []NewerFirstWhenNested` |

The invariant `PubInv` describes the stack. Publications in progress were begun in its
order, and all but the innermost wait for a subscriber (`Nested`), so that a later number
is never of an older book (`VersionsOrdered`). A publication has reached exactly the
subscribers before its place (`PassedReached`), each once (`ReceivedOnce`); one that was
returned has reached all there were and is on the stack no more (`ReturnedReached`). The
first subscriber is called by every publication at once and so in order
(`FirstInOrder`): what comes late anywhere was overtaken by a nested publication.

*Sums.* The library's induction theorems take an operator as a parameter, which no
installed prover can instantiate. What is needed of sums over finite sets is proved in
`Sums` by least counterexample instead: among the subsets for which a statement fails
one has no smaller, since proper inclusion of finite sets is well founded.

*Only model-checked.* Liveness (`CallsReturn`, `CallsEnd`), which rests on fairness and
so on ENABLED, out of the provers' reach. Every other property of the passing runs is
a theorem.

## 7. Not modelled

- `BrokerOrderBook.Close`: it closes the C library's book, and nothing in the repository
  says what that does to a later call.
- Wall-clock readings (timestamps, the time of the last update), formatting, the
  strings of types, capacities of maps and slices, statistics other than `GetStats`.
- Of the validator, the summed differences and the largest price drift, which decide
  nothing, and the rounding of floating-point numbers there and in prices.
- The syntax of JSON, and the C libraries' own memory.
- The nesting of locks. `Close` takes `ob.mu` and `r.mu` while it holds `e.mu`, and a book
  that tracks takes the registry's mutex under `ob.mu`; nothing takes them the other way
  round. What is done under `ob.mu`, `r.mu` or the registry's mutex is one step here;
  only `e.mu` is a lock that calls wait for.
- Several books that share one self-trade registry; the engine's books do not track.
- Build files, hooks and workflows; `hft`, which holds module files only.
