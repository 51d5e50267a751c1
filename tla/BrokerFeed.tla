----------------------------- MODULE BrokerFeed -----------------------------
(***************************************************************************)
(* A broker's book at the end of a feed.  An exchange changes its book and *)
(* publishes a message for every change, and a snapshot now and then; the  *)
(* feed hands the messages to the broker's client, which parses each and   *)
(* calls the handler of its type.  The feed may lose, damage, repeat and   *)
(* delay messages: the code numbers none of them and cannot tell.          *)
(*                                                                         *)
(* The exchange, the feed and the loop of the client are the environment.  *)
(* What a message does to the rebuilt book is the code's: the parsers of   *)
(* MarketData and the handlers of BrokerBook.                              *)
(***************************************************************************)
EXTENDS BrokerBook, MarketData, OrderBookValidator

CONSTANTS
  OtherSymbol,    \* the symbol of a snapshot meant for another book
  Quote,          \* the orders placed: side, price and qty
  Quantity,       \* the quantities traded and amended to
  MaxMessages,    \* bound on the messages published
  MaxOrders,      \* bound on the orders placed
  MaxFaults       \* bound on the faults of the feed

ASSUME FeedAssumption ==
  /\ OtherSymbol \in Nat \ {0, SymbolID}
  /\ Quote \subseteq [side : Side, price : Nat, qty : Nat \ {0}]
  /\ Quantity \subseteq Nat \ {0}
  /\ MaxMessages \in Nat /\ MaxOrders \in Nat /\ MaxFaults \in Nat

VARIABLES
  log,        \* the messages published, each with the exchange's book after it
  pos,        \* the number of messages the feed has passed over
  base,       \* the position of the snapshot the book was last rebuilt from in
              \* its turn, 0 when there was none
  clean,      \* no message that counts was missed, or repeated late, since base
  faults      \* the number of faults of the feed

vars == <<core, updateCount, log, pos, base, clean, faults>>

\* The exchange's book after k messages.
Version(k) == IF k = 0 THEN EmptyBook ELSE log[k].book

Newest == Version(Len(log))

Init ==
  /\ BookInit
  /\ log = <<>> /\ pos = 0
  /\ base = 0 /\ clean = TRUE /\ faults = 0

-----------------------------------------------------------------------------
(* The exchange.  Its messages are those of types.go, with their kind.     *)

Increment(type, i, quote) ==
  [kind |-> "increment", type |-> type, order |-> i,
   side |-> quote.side, price |-> quote.price, qty |-> quote.qty]

Publish(msg, book) ==
  /\ Len(log) < MaxMessages
  /\ log' = Append(log, [msg |-> msg, book |-> book])
  /\ UNCHANGED <<core, updateCount, pos, base, clean, faults>>

Inserts(i) ==
  {k \in DOMAIN log : /\ log[k].msg.kind = "increment"
                      /\ log[k].msg.type = "insert"
                      /\ log[k].msg.order = i}

\* Order i has traded on arrival, on the given side.
Arrived(i, side) ==
  \E k \in DOMAIN log : /\ log[k].msg.kind = "trade"
                        /\ i = IF side = "buy" THEN log[k].msg.buy ELSE log[k].msg.sell

\* The orders that were never in the book.
Unplaced == {i \in 1..MaxOrders : Inserts(i) = {}}

\* The next order, which may trade before it is inserted.
Arriving == {i \in Unplaced : \A j \in Unplaced : i <= j}

\* An order, or what is left of one that has traded, joins the book.
Place(i, quote) ==
  /\ i \in Arriving /\ ~Arrived(i, Opposite(quote.side))
  /\ Publish(Increment("insert", i, quote), Put(Newest, i, quote))

Withdraw(i) ==
  /\ i \in DOMAIN Newest
  /\ Publish(Increment("delete", i, Newest[i]), Drop(Newest, i))

Amend(i, q) ==
  /\ i \in DOMAIN Newest /\ q # Newest[i].qty
  /\ LET amended == [Newest[i] EXCEPT !.qty = q]
     IN Publish(Increment("modify", i, amended), Put(Newest, i, amended))

\* Order i of the book, if it is one, has traded q.
Reduced(book, i, q) ==
  IF i \notin DOMAIN book THEN book
  ELSE IF book[i].qty = q THEN Drop(book, i)
  ELSE Put(book, i, [book[i] EXCEPT !.qty = @ - q])

\* One side of a trade: an order of the book, one that has just arrived, or none.
OnSide(i, side, q) ==
  \/ i \in DOMAIN Newest /\ Newest[i].side = side /\ q <= Newest[i].qty
  \/ i \in Arriving /\ ~Arrived(i, Opposite(side))
  \/ i = 0

Trade(b, s, q) ==
  /\ OnSide(b, "buy", q) /\ OnSide(s, "sell", q)
  /\ b # s /\ {b, s} \cap DOMAIN Newest # {}
  /\ Publish([kind |-> "trade", buy |-> b, sell |-> s, qty |-> q],
             Reduced(Reduced(Newest, b, q), s, q))

\* The exchange lists its levels, and maybe a price that nobody quotes any more.
TakeSnapshot(symbol, unquoted) ==
  Publish([kind |-> "snapshot", symbol |-> symbol,
           bids |-> Levels(Newest, "buy") \o unquoted, asks |-> Levels(Newest, "sell")],
          Newest)

Exchange ==
  \/ \E i \in 1..MaxOrders :
       \/ \E quote \in Quote : Place(i, quote)
       \/ Withdraw(i)
       \/ \E q \in Quantity : Amend(i, q)
  \/ \E b, s \in 0..MaxOrders, q \in Quantity : Trade(b, s, q)
  \/ \E symbol \in {SymbolID, OtherSymbol}, unquoted \in {<<>>, <<[price |-> 0, qty |-> 0]>>} :
       TakeSnapshot(symbol, unquoted)

-----------------------------------------------------------------------------
(* The client.                                                             *)

\* The exchange's encoding of a message; a deletion has no price and quantity.
DataOf(msg) ==
  CASE msg.kind = "increment" /\ msg.type = "delete" ->
         [type |-> "delete", order_id |-> msg.order, side |-> msg.side]
    [] msg.kind = "increment" /\ msg.type # "delete" ->
         [type |-> msg.type, order_id |-> msg.order, side |-> msg.side,
          price |-> msg.price, quantity |-> msg.qty]
    [] msg.kind = "trade" ->
         [buy_order_id |-> msg.buy, sell_order_id |-> msg.sell, quantity |-> msg.qty]
    [] msg.kind = "snapshot" ->
         [symbol_id |-> msg.symbol, bids |-> msg.bids, asks |-> msg.asks]

Raw(msg) ==
  [type |-> msg.kind, format |-> "JSON", content |-> "JSON", data |-> DataOf(msg),
   symbol |-> SymbolID, timestamped |-> TRUE]

\* Heartbeats have no parser.
Unreadable(raw) ==
  ParseOrderIncrement(raw) \cup ParseTrade(raw) \cup ParseSnapshot(raw) = {}

\* A raw message is checked, parsed, and given to the handler of its type.
Receive(raw) ==
  \/ /\ ValidateRawData(raw)
     /\ \/ \E inc \in ParseOrderIncrement(raw) : OnOrderIncrement(inc)
        \/ \E trade \in ParseTrade(raw) : OnTrade(trade)
        \/ \E snap \in ParseSnapshot(raw) : OnSnapshot(snap)
  \/ /\ ~ValidateRawData(raw) \/ Unreadable(raw)
     /\ UNCHANGED bookVars

-----------------------------------------------------------------------------
(* The feed.                                                               *)

Message(k) == log[k].msg

OwnSnapshot(k) == Message(k).kind = "snapshot" /\ Message(k).symbol = SymbolID

\* A message in its turn.
Deliver ==
  /\ pos < Len(log)
  /\ pos' = pos + 1
  /\ Receive(Raw(Message(pos + 1)))
  /\ IF OwnSnapshot(pos + 1)
       THEN base' = pos + 1 /\ clean' = TRUE
       ELSE UNCHANGED <<base, clean>>
  /\ UNCHANGED <<log, faults>>

\* A fault at the next message, which only counts if it is not a snapshot.
MissNext ==
  /\ pos < Len(log) /\ pos' = pos + 1
  /\ faults < MaxFaults /\ faults' = faults + 1
  /\ clean' = (clean /\ Message(pos + 1).kind = "snapshot")
  /\ UNCHANGED <<log, base>>

Lose == MissNext /\ UNCHANGED bookVars

\* Cut off, garbled, in another format, or under the wrong type.
DamagedForms(raw) ==
  {[raw EXCEPT !.content = c] : c \in Content \ {"JSON"}}
  \cup {[raw EXCEPT !.format = f] : f \in Format \ {"JSON"}}
  \cup {[raw EXCEPT !.type = t] : t \in RawType \ {raw.type}}

Damage == MissNext /\ \E raw \in DamagedForms(Raw(Message(pos + 1))) : Receive(raw)

\* A message comes again, or comes late after it was missed.  Only the repetition
\* of the latest is harmless, unless it is a trade.
Repeat(k) ==
  /\ k <= pos
  /\ faults < MaxFaults /\ faults' = faults + 1
  /\ Receive(Raw(Message(k)))
  /\ IF k = pos /\ OwnSnapshot(k)
       THEN base' = k /\ clean' = TRUE
       ELSE /\ clean' = (clean /\ k = pos /\ Message(k).kind # "trade")
            /\ UNCHANGED base
  /\ UNCHANGED <<log, pos>>

Feed == Deliver \/ Lose \/ Damage \/ \E k \in 1..MaxMessages : Repeat(k)

Next == Exchange \/ Feed

Spec == Init /\ [][Next]_vars

-----------------------------------------------------------------------------
(* Properties.                                                             *)

\* The values of the variables; in particular a rebuilt order has a positive
\* quantity, though a trade may take more than it has left (OnTrade).
TypeOK ==
  /\ DOMAIN core \subseteq (Int \ {0})
  /\ core \in [DOMAIN core -> [side : Side, price : Nat, qty : Nat \ {0}]]
  /\ updateCount \in Nat
  /\ pos \in 0..Len(log) /\ base \in 0..pos
  /\ clean \in BOOLEAN /\ faults \in Nat

\* The orders of a book whose ids are of the exchange, and those of a snapshot.
RealPart(b) == [i \in {j \in DOMAIN b : j > 0} |-> b[i]]
VirtualPart(b) == [i \in {j \in DOMAIN b : j < 0} |-> b[i]]

\* While nothing that counts was missed since the snapshot the book was rebuilt
\* from, its orders are the exchange's, in every field, but for those that were
\* in the exchange's book already when the snapshot was taken (OnOrderIncrement,
\* OnTrade, OnSnapshot).  With no snapshot so far, all orders are the exchange's.
RealOrdersFollow ==
  clean =>
    RealPart(core) =
      [i \in DOMAIN Version(pos) \ DOMAIN Version(base) |-> Version(pos)[i]]

SameLevels(b, c) == \A side \in Side : Levels(b, side) = Levels(c, side)

\* The levels of the snapshot stay as they were, whatever happens to the orders
\* they stand for.
SnapshotLevelsKept == clean => SameLevels(VirtualPart(core), Version(base))

\* Whatever the feed does, the book shows no order that the exchange has not
\* published, on another side, at another price, or larger than it ever was.
NeverOverstates ==
  \A i \in {j \in DOMAIN core : j > 0} :
    /\ \E k \in Inserts(i) : /\ Message(k).side = core[i].side
                             /\ Message(k).price = core[i].price
    /\ \E k \in DOMAIN log : /\ Message(k).kind = "increment" /\ Message(k).order = i
                             /\ Message(k).qty >= core[i].qty

\* Whatever the feed does, a book that changes counts exactly one update
\* (RecordUpdate): a snapshot is never half applied.
ChangesCounted == [][core' # core => updateCount' = updateCount + 1]_vars

\* A damaged message changes no order, also when its data still are JSON and it is
\* taken for a message of another type.
DamagedIgnored == [][Damage => core' = core]_vars

\* For tick size 1 and no allowed drift, the validator's verdict on the rebuilt book
\* against any state of the exchange's is whether the levels are the same, and what
\* it calls valid passes the quick test (Validate, ValidateQuick).
VerdictRight ==
  \A k \in 0..Len(log) :
    LET exchange == [symbol |-> SymbolID, bids |-> Levels(Version(k), "buy"),
                     asks |-> Levels(Version(k), "sell")]
    IN \A rebuilt \in SnapshotOf(SymbolID, core, Cardinality(DOMAIN core)) :
       \A result \in Validate(rebuilt, exchange) :
         /\ result.valid <=> SameLevels(core, Version(k))
         /\ result.valid => ValidateQuick(rebuilt, exchange)

\* What OnSnapshot is for, "recovery after connection loss"
\* (broker_orderbook.go:157): after a snapshot the book follows the exchange.
LevelsFollow == clean => SameLevels(core, Version(pos))
=============================================================================
