---------------------------- MODULE SerialEngine ----------------------------
(***************************************************************************)
(* The engine with one client implements PriceTimeExchange: matching an    *)
(* order node by node, recording its trades one by one, and settling each  *)
(* in the book looks like one step, which happens when Match returns; the  *)
(* order is submitted when the reporter registers it.                      *)
(*                                                                         *)
(* From then until SubmitOrder returns the book lags behind: the mapping   *)
(* shows it as the call in progress will leave it.                         *)
(***************************************************************************)
EXTENDS MatchingEngine

\* The calls that are settling the trades of Match.
Settlers == {c \in DOMAIN call : call[c].pc \in {"record", "remove", "update"}}

\* The trades of c the loop is at or has before it; those of them not recorded.
UnsettledAt(c) == call[c].next..Len(call[c].fills)
UnrecordedAt(c) == IF At(c, "record") THEN UnsettledAt(c) ELSE UnsettledAt(c) \ {call[c].next}

\* Each resting order is in at most one of a call's trades.
Unsettled == UNION {{call[c].fills[k] : k \in UnsettledAt(c)} : c \in Settlers}
Unrecorded == UNION {{call[c].fills[k] : k \in UnrecordedAt(c)} : c \in Settlers}

\* What remains of resting order i once the trades of the call are recorded.
RemainderOf(i) ==
  tracked[i].rem - MapThenSumSet(LAMBDA f : f.qty, {f \in Unrecorded : f.rest = i})

Leaving(i) == (\E f \in Unsettled : f.rest = i) /\ RemainderOf(i) <= 0

QuantityOf(s, i) ==
  LET F == {f \in Unsettled : f.rest = i}
  IN IF F = {} THEN book[s][i].qty ELSE (CHOOSE f \in F : TRUE).restLeft

EntryAfter(s, i) ==
  [account |-> book[s][i].account, side |-> book[s][i].side, price |-> book[s][i].price,
   qty |-> QuantityOf(s, i), rem |-> RemainderOf(i), arrival |-> book[s][i].arrival]

\* The calls whose order will join a book.
Joining == {c \in Settlers : call[c].order.type \in RestingType /\ call[c].rem > 0}

Joined(c) ==
  LET o == call[c].order
  IN [account |-> o.account, side |-> o.side, price |-> o.price, qty |-> o.qty,
      rem |-> call[c].rem, arrival |-> arrivals + 1]

\* The book of s as the call in progress will leave it.
BookAfter(s) ==
  LET staying == {i \in DOMAIN book[s] : ~Leaving(i)}
      joining == {c \in Joining : call[c].order.symbol = s}
  IN [i \in staying \cup {call[c].order.id : c \in joining} |->
        IF i \in staying THEN EntryAfter(s, i)
        ELSE Joined(CHOOSE c \in joining : call[c].order.id = i)]

Deal(buy, sell, price, qty) == [buy |-> buy, sell |-> sell, price |-> price, qty |-> qty]

\* The trades published, and those the call has still to record.
TradesAfter ==
  LET published == [n \in DOMAIN trades |->
                      Deal(trades[n].buy, trades[n].sell, trades[n].price, trades[n].qty)]
      ToCome(c) ==
        LET o == call[c].order
            first == call[c].next + (IF At(c, "record") THEN 0 ELSE 1)
            due == SubSeq(call[c].fills, first, Len(call[c].fills))
        IN [n \in DOMAIN due |->
              Deal(BuyId(o, due[n]), SellId(o, due[n]), due[n].price, due[n].qty)]
  IN IF Settlers = {} THEN published
     ELSE published \o ToCome(CHOOSE c \in Settlers : TRUE)

\* The orders clients submit, and those ModifyOrder makes of them.
Offers ==
  Requests
    \cup {[account |-> a, symbol |-> DefaultSymbol, side |-> side, type |-> "limit",
           price |-> m.price, qty |-> m.qty] : a \in Account, side \in Side, m \in Amendments}

\* What was asked for under each id, as the client filled it in.
RequestOf(o) ==
  [account |-> o.account, symbol |-> o.symbol, side |-> o.side, type |-> o.type,
   price |-> o.price, qty |-> o.qty]

Asked == [i \in DOMAIN orders |-> RequestOf(orders[i])]

\* The orders Match is working on.
Matching == {call[c].order.id : c \in {d \in DOMAIN call : call[d].pc \in {"liquidity", "match"}}}

Exchange == INSTANCE PriceTimeExchange
  WITH Id <- 1..MaxOrders, Offer <- {r \in Offers : r.qty > 0}, open <- running,
       asked <- Asked, pending <- Matching,
       book <- [s \in Symbol |-> BookAfter(s)], trades <- TradesAfter,
       arrivals <- arrivals + Cardinality(Joining)

\* For calls made one after the other, submission, cancellation, modification and
\* Close are those of an exchange that matches in one step by price and time: the
\* trades published, their quantities and order, which fill-or-kill orders trade, and
\* what rests afterwards.
ImplementsExchange == Exchange!Spec

-----------------------------------------------------------------------------
(* What makes the refinement inductive, beside IInv and SerialInv.         *)

\* No two orders have joined a book at the same time.
ArrivalsInOrder ==
  \A s \in Symbol : \A i \in DOMAIN book[s] :
    /\ book[s][i].arrival <= arrivals
    /\ \A j \in DOMAIN book[s] : book[s][i].arrival = book[s][j].arrival => i = j

\* What is submitted is offered, and is what the reporter was given.
Offered(m) ==
  /\ m.pc \in {"submit"} \cup Working => RequestOf(m.order) \in Offers
  /\ m.pc = "replace" => [price |-> m.order.price, qty |-> m.order.qty] \in Amendments
  /\ m.pc \in Registered => RequestOf(orders[m.order.id]) = RequestOf(m.order)

\* The orders that trades fills are with.
Met(fills) == {fills[k].rest : k \in DOMAIN fills}

\* What the orders of S give order o.
Given(o, b, S) == MapThenSumSet(LAMBDA i : Exchange!Taken(o, b, i), S)

\* The trades fills are with the first of the orders of b that o may trade with, in
\* their order, each for what those in front of it left to take.
InQueue(o, b, fills, rem) ==
  /\ \A k \in DOMAIN fills :
       LET f == fills[k]
       IN /\ f.rest \in Exchange!Eligible(o, b)
          /\ Exchange!Ahead(o, b, f.rest) < o.qty
          /\ f.price = b[f.rest].price /\ f.qty = Exchange!Taken(o, b, f.rest)
          /\ \A j \in Exchange!Eligible(o, b) :
               Before(b, j, f.rest) <=> \E l \in 1..(k - 1) : j = fills[l].rest
  /\ Given(o, b, Met(fills)) = o.qty - rem
  /\ \/ Exchange!Shown(b, Met(fills)) = o.qty - rem
     \/ rem = 0 /\ Exchange!Shown(b, Met(fills)) >= o.qty

\* Match goes through the queue; a fill-or-kill order was found enough before.
Queued(m) ==
  LET b == book[m.order.symbol]
  IN  /\ m.pc = "liquidity" => m.order.type = "fok"
      /\ m.pc = "match" =>
           /\ InQueue(m.order, b, m.fills, m.rem)
           /\ m.order.type = "fok" => Available(m.order, b) >= m.order.qty

\* A resting order that is about to leave its book has nothing left.
NothingLeft(m) ==
  LET i == m.fills[m.next].rest
  IN m.pc = "remove" => i \in DOMAIN tracked /\ tracked[i].rem <= 0

ExchangeInv ==
  nextID <= MaxOrders + 1 /\ ArrivalsInOrder /\ \A c \in DOMAIN call :
    Offered(call[c]) /\ Queued(call[c]) /\ NothingLeft(call[c])
=============================================================================
