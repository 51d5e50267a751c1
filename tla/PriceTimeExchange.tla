------------------------- MODULE PriceTimeExchange -------------------------
(***************************************************************************)
(* What the matching engine promises a client that makes one call at a     *)
(* time: a submitted order is matched in one step with the orders of other *)
(* accounts on the other side, best price first and first in first, each   *)
(* giving what it shows until the order is filled.                         *)
(*                                                                         *)
(* A resting order shows a quantity (qty) and has a remainder (rem); it    *)
(* leaves when the remainder is gone.  The two differ for an order that    *)
(* has traded on arrival: it shows all of what was ordered (AddOrder).     *)
(* SerialEngine shows that the engine implements this.                     *)
(***************************************************************************)
EXTENDS CoreBook, Sequences, FiniteSetsExt

CONSTANTS
  Symbol,          \* the symbols, each with a book
  Id,              \* the ids of orders
  Offer,           \* the orders that may be submitted, without their ids
  MaxDepthLevels   \* the price levels an order is matched with

VARIABLES
  open,            \* the exchange has not been closed
  asked,           \* the order last submitted under each id
  pending,         \* the ids whose order is still to be matched
  book,            \* the resting orders of each symbol
  arrivals,        \* how many orders have joined a book
  trades           \* all trades: buyer, seller, price and qty

Init ==
  /\ open = TRUE
  /\ asked = EmptyBook /\ pending = {}
  /\ book = [s \in Symbol |-> EmptyBook]
  /\ arrivals = 0 /\ trades = <<>>

Acceptable(o, price) ==
  \/ o.type = "market"
  \/ IF o.side = "buy" THEN price <= o.price ELSE price >= o.price

\* The orders of book b an order may trade with.
Eligible(o, b) ==
  {i \in DOMAIN b : /\ b[i].side = Opposite(o.side) /\ b[i].account # o.account
                    /\ WithinTop(b, i, MaxDepthLevels) /\ Acceptable(o, b[i].price)}

Shown(b, S) == MapThenSumSet(LAMBDA i : b[i].qty, S)

\* What the orders in front of order i give.
Ahead(o, b, i) == Shown(b, {j \in Eligible(o, b) : Before(b, j, i)})

\* The orders an order trades with; a fill-or-kill order, with all it needs or none.
Hit(o, b) ==
  IF o.type = "fok" /\ Shown(b, Eligible(o, b)) < o.qty
    THEN {}
    ELSE {i \in Eligible(o, b) : Ahead(o, b, i) < o.qty}

Taken(o, b, i) ==
  IF b[i].qty <= o.qty - Ahead(o, b, i) THEN b[i].qty ELSE o.qty - Ahead(o, b, i)

Traded(o, b) == MapThenSumSet(LAMBDA i : Taken(o, b, i), Hit(o, b))

TradeOf(id, o, b, i) ==
  [buy |-> IF o.side = "buy" THEN id ELSE i, sell |-> IF o.side = "buy" THEN i ELSE id,
   price |-> b[i].price, qty |-> Taken(o, b, i)]

\* The orders of S as a traversal of book b meets them.
Queue(b, S) ==
  LET places == 1..Cardinality(S)
  IN CHOOSE queue \in [places -> S] : \A m, n \in places : m < n => Before(b, queue[m], queue[n])

TradesOf(id, o, b) ==
  LET queue == Queue(b, Hit(o, b))
  IN [n \in DOMAIN queue |-> TradeOf(id, o, b, queue[n])]

\* Book b once the order has traded.
After(o, b) ==
  LET left(i) == b[i].rem - Taken(o, b, i)
  IN [i \in DOMAIN b \ {j \in Hit(o, b) : left(j) <= 0} |->
        IF i \in Hit(o, b) THEN [b[i] EXCEPT !.qty = @ - Taken(o, b, i), !.rem = left(i)]
        ELSE b[i]]

\* What is left of an order rests if its type may.
Rests(o, b) == o.type \in {"limit", "iceberg"} /\ Traded(o, b) < o.qty

Resting(o, b) ==
  [account |-> o.account, side |-> o.side, price |-> o.price, qty |-> o.qty,
   rem |-> o.qty - Traded(o, b), arrival |-> arrivals + 1]

Submit(id, o) ==
  /\ open /\ id \notin pending
  /\ \A s \in Symbol : id \notin DOMAIN book[s]
  /\ asked' = Put(asked, id, o)
  /\ pending' = pending \cup {id}
  /\ UNCHANGED <<open, book, arrivals, trades>>

Match(id) ==
  LET o == asked[id]
      b == book[o.symbol]
  IN /\ id \in pending
     /\ pending' = pending \ {id}
     /\ trades' = trades \o TradesOf(id, o, b)
     /\ book' = [book EXCEPT ![o.symbol] =
                   IF Rests(o, b) THEN Put(After(o, b), id, Resting(o, b)) ELSE After(o, b)]
     /\ arrivals' = IF Rests(o, b) THEN arrivals + 1 ELSE arrivals
     /\ UNCHANGED <<open, asked>>

\* An order leaves: it is canceled, or modified, that is submitted again.
Withdraw(s, i) ==
  /\ open /\ i \in DOMAIN book[s]
  /\ book' = [book EXCEPT ![s] = Drop(@, i)]
  /\ UNCHANGED <<open, asked, pending, arrivals, trades>>

Close ==
  /\ open' = FALSE
  /\ book' = [s \in Symbol |-> EmptyBook]
  /\ UNCHANGED <<asked, pending, arrivals, trades>>

Next ==
  \/ \E id \in Id : Match(id) \/ \E o \in Offer : Submit(id, o)
  \/ \E s \in Symbol, i \in Id : Withdraw(s, i)
  \/ Close

Spec == Init /\ [][Next]_<<open, asked, pending, book, arrivals, trades>>
=============================================================================
