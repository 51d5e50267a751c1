------------------------ MODULE MatchingEngineProofs ------------------------
(***************************************************************************)
(* Proof that MatchingEngine is type correct for any number of clients,    *)
(* any requests and any bounds, with what each step does to calls, books   *)
(* and reporter; that an order is in one place, however calls race: in one *)
(* book or with one call that is submitting it; and that the quantity of   *)
(* every order the reporter tracks is conserved.                           *)
(*                                                                         *)
(* Then, for calls made one after the other, that the engine keeps its     *)
(* books and its reporter in agreement, lets an order that is done be      *)
(* done, never fills an order twice over, and leaves no crossed book.      *)
(***************************************************************************)
EXTENDS MatchingEngine, FiniteSetTheorems, TLAPS

-----------------------------------------------------------------------------
(* Maps and calls.                                                         *)

\* Deleting a key of a map with values in S.
LEMMA DropMap ==
  ASSUME NEW S, NEW f, f \in [DOMAIN f -> S], NEW k
  PROVE  /\ DOMAIN Drop(f, k) = DOMAIN f \ {k}
         /\ Drop(f, k) \in [DOMAIN Drop(f, k) -> S]
         /\ \A x \in DOMAIN f \ {k} : Drop(f, k)[x] = f[x]
BY DEF Drop

\* Disturbing calls changes nothing of them but the flag torn.
LEMMA DisturbCalls ==
  ASSUME NEW f, f \in [DOMAIN f -> Call], NEW S
  PROVE  /\ DOMAIN Disturb(f, S) = DOMAIN f
         /\ Disturb(f, S) \in [DOMAIN f -> Call]
         /\ \A d \in DOMAIN f :
              /\ Disturb(f, S)[d].pc = f[d].pc
              /\ Disturb(f, S)[d].order = f[d].order
              /\ Disturb(f, S)[d].rem = f[d].rem
              /\ Disturb(f, S)[d].fills = f[d].fills
              /\ Disturb(f, S)[d].next = f[d].next
BY DEF Disturb, Call

-----------------------------------------------------------------------------
(* What each kind of step does to the calls.                               *)

\* The step leaves the calls of the other clients alone, up to torn.
OthersKept(c) ==
  \A d \in DOMAIN call' \ {c} :
    /\ d \in DOMAIN call
    /\ call'[d].pc = call[d].pc /\ call'[d].order = call[d].order
    /\ call'[d].rem = call[d].rem /\ call'[d].fills = call[d].fills
    /\ call'[d].next = call[d].next

\* The call of c goes to pc and keeps its order and its trades.
Moves(c, pc) ==
  /\ c \in DOMAIN call /\ DOMAIN call' = DOMAIN call
  /\ call'[c].pc = pc /\ call'[c].order = call[c].order
  /\ call'[c].rem = call[c].rem /\ call'[c].fills = call[c].fills
  /\ call'[c].next = call[c].next

\* The steps that end a call.
Returning(c) ==
  \/ TurnAway(c) \/ Refuse(c) \/ Insufficient(c) \/ RecordTradeFails(c)
  \/ AddOrder(c) \/ CancelRemainder(c) \/ Finish(c) \/ NotFound(c) \/ ReportCancel(c)

LEMMA ReturningCalls ==
  ASSUME TypeOK, NEW c \in Client, Returning(c)
  PROVE  /\ c \in DOMAIN call /\ DOMAIN call' = DOMAIN call \ {c}
         /\ CallsTypeOK' /\ OthersKept(c)
<1>1. c \in DOMAIN call
  BY DEF Returning, TurnAway, Refuse, Insufficient, RecordTradeFails, AddOrder,
         CancelRemainder, Finish, NotFound, ReportCancel, Recording, Recorded, At
<1>2. CASE AddOrder(c)
  <2> DEFINE D == Drop(call, c)
             s == call[c].order.symbol
  <2>1. call' = Disturb(D, {s})
    BY <1>2 DEF AddOrder
  <2>2. /\ DOMAIN D = DOMAIN call \ {c} /\ D \in [DOMAIN D -> Call]
        /\ \A x \in DOMAIN call \ {c} : D[x] = call[x]
    BY DropMap DEF TypeOK, CallsTypeOK
  <2> HIDE DEF D
  <2>3. /\ DOMAIN call' = DOMAIN D /\ call' \in [DOMAIN D -> Call]
        /\ \A d \in DOMAIN D :
             /\ call'[d].pc = D[d].pc /\ call'[d].order = D[d].order
             /\ call'[d].rem = D[d].rem /\ call'[d].fills = D[d].fills
             /\ call'[d].next = D[d].next
    BY <2>1, <2>2, DisturbCalls
  <2> QED
    BY <1>1, <2>2, <2>3 DEF OthersKept, TypeOK, CallsTypeOK
<1>3. CASE Returning(c) /\ ~AddOrder(c)
  <2>1. call' = Drop(call, c)
    BY <1>3 DEF Returning, TurnAway, Refuse, Insufficient, RecordTradeFails,
                CancelRemainder, Finish, NotFound, ReportCancel, Return
  <2>2. /\ DOMAIN Drop(call, c) = DOMAIN call \ {c}
        /\ Drop(call, c) \in [DOMAIN Drop(call, c) -> Call]
        /\ \A x \in DOMAIN call \ {c} : Drop(call, c)[x] = call[x]
    BY DropMap DEF TypeOK, CallsTypeOK
  <2> QED
    BY <1>1, <2>1, <2>2 DEF OthersKept, TypeOK, CallsTypeOK
<1> QED
  BY <1>2, <1>3

LEMMA BeginCalls ==
  ASSUME TypeOK, NEW c \in Client, c \notin DOMAIN call, NEW pc \in PC,
         NEW o \in Order, Begin(c, pc, o)
  PROVE  /\ DOMAIN call' = DOMAIN call \cup {c}
         /\ CallsTypeOK' /\ OthersKept(c)
         /\ call'[c] = [pc |-> pc, order |-> o, rem |-> o.qty,
                        fills |-> <<>>, next |-> 1, torn |-> FALSE]
<1> DEFINE m == [pc |-> pc, order |-> o, rem |-> o.qty,
                 fills |-> <<>>, next |-> 1, torn |-> FALSE]
<1>1. m \in Call
  BY DEF Call, Order, Positive
<1>2. call' = Put(call, c, m)
  BY DEF Begin
<1> HIDE DEF m
<1>0. call \in [DOMAIN call -> Call]
  BY DEF TypeOK, CallsTypeOK
<1>3. /\ DOMAIN Put(call, c, m) = DOMAIN call \cup {c}
      /\ Put(call, c, m) \in [DOMAIN Put(call, c, m) -> Call]
      /\ Put(call, c, m)[c] = m
      /\ \A x \in DOMAIN call \ {c} : Put(call, c, m)[x] = call[x]
  BY <1>0, <1>1 DEF Put
<1>4. CallsTypeOK' /\ OthersKept(c) /\ call'[c] = m
  BY <1>2, <1>3 DEF OthersKept, TypeOK, CallsTypeOK
<1> QED
  BY <1>2, <1>3, <1>4 DEF m

\* The order a client submits, and the ones it names to cancel or modify.
LEMMA SubmitOrderCalls ==
  ASSUME TypeOK, NEW c \in Client, SubmitOrder(c)
  PROVE  /\ c \notin DOMAIN call /\ DOMAIN call' = DOMAIN call \cup {c}
         /\ CallsTypeOK' /\ OthersKept(c)
         /\ call'[c].pc = "submit" /\ call'[c].order.id = nextID
         /\ call'[c].order.canceled = 0
         /\ call'[c].rem = call'[c].order.qty /\ call'[c].fills = <<>> /\ call'[c].next = 1
<1>1. PICK r \in Requests :
        Begin(c, "submit",
              [id |-> nextID, account |-> r.account, symbol |-> r.symbol,
               side |-> r.side, type |-> r.type, price |-> r.price,
               qty |-> r.qty, left |-> r.qty, canceled |-> 0])
  BY DEF SubmitOrder
<1> DEFINE o == [id |-> nextID, account |-> r.account, symbol |-> r.symbol,
                 side |-> r.side, type |-> r.type, price |-> r.price,
                 qty |-> r.qty, left |-> r.qty, canceled |-> 0]
<1>2. o \in Order
  BY EngineAssumption DEF Request, Order, OrderId, TypeOK, EngineTypeOK
<1>3. c \notin DOMAIN call /\ "submit" \in PC
  BY DEF SubmitOrder, Idle, PC
<1>4. o.id = nextID /\ o.canceled = 0
  OBVIOUS
<1>5. Begin(c, "submit", o)
  BY <1>1
<1> HIDE DEF o
<1>6. /\ DOMAIN call' = DOMAIN call \cup {c} /\ CallsTypeOK' /\ OthersKept(c)
      /\ call'[c] = [pc |-> "submit", order |-> o, rem |-> o.qty,
                     fills |-> <<>>, next |-> 1, torn |-> FALSE]
  BY <1>2, <1>3, <1>5, BeginCalls
<1> QED
  BY <1>3, <1>4, <1>6

LEMMA NamingCalls ==
  ASSUME TypeOK, NEW c \in Client, CancelOrder(c) \/ ModifyOrder(c)
  PROVE  /\ c \notin DOMAIN call /\ DOMAIN call' = DOMAIN call \cup {c}
         /\ CallsTypeOK' /\ OthersKept(c)
         /\ call'[c].pc \in {"unbook", "replace"}
         /\ \E i \in DOMAIN orders : call'[c].order.id = orders[i].id
         /\ call'[c].fills = <<>> /\ call'[c].next = 1
<1>1. c \notin DOMAIN call /\ "unbook" \in PC /\ "replace" \in PC
  BY DEF CancelOrder, ModifyOrder, Idle, PC
<1>2. PICK pc \in {"unbook", "replace"}, i \in DOMAIN orders, o \in Order :
        o.id = orders[i].id /\ Begin(c, pc, o)
  <2>1. CASE CancelOrder(c)
    <3>1. PICK i \in DOMAIN orders, s \in Symbol :
            Begin(c, "unbook", [orders[i] EXCEPT !.symbol = s])
      BY <2>1 DEF CancelOrder
    <3>2. /\ [orders[i] EXCEPT !.symbol = s] \in Order
          /\ [orders[i] EXCEPT !.symbol = s].id = orders[i].id
      BY DEF TypeOK, OrdersTypeOK, Order
    <3> QED
      BY <3>1, <3>2
  <2>2. CASE ModifyOrder(c)
    <3>1. PICK i \in DOMAIN orders, s \in Symbol, a \in Amendments :
            Begin(c, "replace",
                  [orders[i] EXCEPT !.symbol = s, !.price = a.price, !.qty = a.qty])
      BY <2>2 DEF ModifyOrder
    <3> DEFINE o == [orders[i] EXCEPT !.symbol = s, !.price = a.price, !.qty = a.qty]
    <3>2. o \in Order /\ o.id = orders[i].id
      BY EngineAssumption DEF TypeOK, OrdersTypeOK, Order
    <3> QED
      BY <3>1, <3>2
  <2> QED
    BY <2>1, <2>2
<1>3. /\ DOMAIN call' = DOMAIN call \cup {c} /\ CallsTypeOK' /\ OthersKept(c)
      /\ call'[c] = [pc |-> pc, order |-> o, rem |-> o.qty,
                     fills |-> <<>>, next |-> 1, torn |-> FALSE]
  BY <1>1, <1>2, BeginCalls
<1> QED
  BY <1>1, <1>2, <1>3

\* The steps that only move the program counter.
LEMMA GotoCalls ==
  ASSUME TypeOK, NEW c \in Client, c \in DOMAIN call, NEW pc \in PC, Goto(c, pc)
  PROVE  Moves(c, pc) /\ CallsTypeOK' /\ OthersKept(c)
<1>1. call \in [DOMAIN call -> Call]
  BY DEF TypeOK, CallsTypeOK
<1>2. call' = [d \in DOMAIN call |-> IF d = c THEN [call[c] EXCEPT !.pc = pc] ELSE call[d]]
  BY <1>1 DEF Goto
<1>3. [call[c] EXCEPT !.pc = pc] \in Call
  BY <1>1 DEF Call
<1>4. call' \in [DOMAIN call -> Call]
  BY <1>1, <1>2, <1>3
<1>5. Moves(c, pc)
  BY <1>1, <1>2 DEF Moves, Call
<1>6. OthersKept(c)
  BY <1>2 DEF OthersKept
<1> QED
  BY <1>4, <1>5, <1>6 DEF TypeOK, CallsTypeOK

LEMMA EnoughCalls ==
  ASSUME TypeOK, NEW c \in Client, Enough(c)
  PROVE  Moves(c, "match") /\ CallsTypeOK' /\ OthersKept(c)
<1>1. call \in [DOMAIN call -> Call] /\ c \in DOMAIN call
  BY DEF TypeOK, CallsTypeOK, Enough, At
<1> DEFINE m == [call[c] EXCEPT !.pc = "match", !.torn = FALSE]
<1>2. call' = [d \in DOMAIN call |-> IF d = c THEN m ELSE call[d]]
  BY <1>1 DEF Enough
<1>3. /\ m \in Call /\ m.pc = "match" /\ m.order = call[c].order /\ m.rem = call[c].rem
      /\ m.fills = call[c].fills /\ m.next = call[c].next
  BY <1>1 DEF Call, PC
<1> HIDE DEF m
<1>4. call' \in [DOMAIN call -> Call]
  BY <1>1, <1>2, <1>3
<1>5. Moves(c, "match")
  BY <1>1, <1>2, <1>3 DEF Moves
<1>6. OthersKept(c)
  BY <1>2 DEF OthersKept
<1> QED
  BY <1>4, <1>5, <1>6 DEF TypeOK, CallsTypeOK

LEMMA UnbookCalls ==
  ASSUME TypeOK, NEW c \in Client, Unbook(c)
  PROVE  Moves(c, "cancel") /\ CallsTypeOK' /\ OthersKept(c)
<1>1. call \in [DOMAIN call -> Call] /\ c \in DOMAIN call
  BY DEF TypeOK, CallsTypeOK, Unbook, At
<1> DEFINE m == [call[c] EXCEPT !.pc = "cancel"]
           f == [d \in DOMAIN call |-> IF d = c THEN m ELSE call[d]]
<1>2. call' = Disturb(f, {call[c].order.symbol})
  BY <1>1 DEF Unbook
<1>3. /\ m \in Call /\ m.pc = "cancel" /\ m.order = call[c].order /\ m.rem = call[c].rem
      /\ m.fills = call[c].fills /\ m.next = call[c].next
  BY <1>1 DEF Call, PC
<1> HIDE DEF m
<1>4. /\ f \in [DOMAIN f -> Call] /\ DOMAIN f = DOMAIN call
      /\ f[c] = m /\ \A d \in DOMAIN call \ {c} : f[d] = call[d]
  BY <1>1, <1>3
<1> HIDE DEF f
<1>5. /\ DOMAIN call' = DOMAIN f /\ call' \in [DOMAIN f -> Call]
      /\ \A d \in DOMAIN f :
           /\ call'[d].pc = f[d].pc /\ call'[d].order = f[d].order
           /\ call'[d].rem = f[d].rem /\ call'[d].fills = f[d].fills
           /\ call'[d].next = f[d].next
  BY <1>2, <1>4, DisturbCalls
<1>6. Moves(c, "cancel")
  BY <1>1, <1>3, <1>4, <1>5 DEF Moves
<1>7. OthersKept(c)
  BY <1>4, <1>5 DEF OthersKept
<1> QED
  BY <1>1, <1>4, <1>5, <1>6, <1>7 DEF TypeOK, CallsTypeOK

\* ModifyOrder goes on as SubmitOrder of the replacement.
LEMMA ReplaceCalls ==
  ASSUME TypeOK, NEW c \in Client, Replace(c)
  PROVE  /\ c \in DOMAIN call /\ DOMAIN call' = DOMAIN call
         /\ CallsTypeOK' /\ OthersKept(c)
         /\ call'[c].pc = "submit" /\ call'[c].order.id = call[c].order.id
         /\ call'[c].order.type = "limit" /\ call'[c].rem = call'[c].order.qty
         /\ call'[c].fills = call[c].fills /\ call'[c].next = call[c].next
<1> DEFINE o == call[c].order
           s == o.symbol
           entry == book[s][o.id]
           r == ReplacementOf(o, entry)
           m == [call[c] EXCEPT !.pc = "submit", !.order = r, !.rem = o.qty]
           f == [d \in DOMAIN call |-> IF d = c THEN m ELSE call[d]]
<1>1. call \in [DOMAIN call -> Call] /\ c \in DOMAIN call /\ o.id \in DOMAIN book[s]
  BY DEF TypeOK, CallsTypeOK, Replace, At
<1>2. call' = Disturb(f, {s})
  BY <1>1 DEF Replace
<1>3. o \in Order
  BY <1>1 DEF Call
<1>4. entry \in Resting
  BY <1>1, <1>3 DEF TypeOK, BooksTypeOK, Order
<1>5. /\ r \in Order /\ r.id = o.id /\ r.type = "limit" /\ r.qty = o.qty /\ o.qty \in Int
  BY <1>3, <1>4, EngineAssumption DEF ReplacementOf, Order, Resting, OrderType
<1> HIDE DEF o, r
<1>6. /\ m \in Call /\ m.pc = "submit" /\ m.order = r /\ m.rem = o.qty
      /\ m.fills = call[c].fills /\ m.next = call[c].next
  BY <1>1, <1>5 DEF Call, PC
<1> HIDE DEF m
<1>7. /\ f \in [DOMAIN f -> Call] /\ DOMAIN f = DOMAIN call
      /\ f[c] = m /\ \A d \in DOMAIN call \ {c} : f[d] = call[d]
  BY <1>1, <1>6
<1> HIDE DEF f
<1>8. /\ DOMAIN call' = DOMAIN f /\ call' \in [DOMAIN f -> Call]
      /\ \A d \in DOMAIN f :
           /\ call'[d].pc = f[d].pc /\ call'[d].order = f[d].order
           /\ call'[d].rem = f[d].rem /\ call'[d].fills = f[d].fills
           /\ call'[d].next = f[d].next
  BY <1>2, <1>7, DisturbCalls
<1>9. OthersKept(c)
  BY <1>7, <1>8 DEF OthersKept
<1>10. CallsTypeOK'
  BY <1>7, <1>8 DEF TypeOK, CallsTypeOK
<1> QED
  BY <1>1, <1>5, <1>6, <1>7, <1>8, <1>9, <1>10 DEF o

\* The orders a call may trade with and has not, on whatever level they are.
ToMeet(c) ==
  {i \in Matchable(call[c].order, book[call[c].order.symbol]) : ~TradedWith(c, i)}

\* The two walks share no order, and leave none out.
LEMMA WalksCover ==
  ASSUME NEW c
  PROVE  /\ Unvisited(c) \subseteq ToMeet(c)
         /\ Unvisited(c) = {} => ToMeet(c) = {}
<1> DEFINE o == call[c].order
           b == book[o.symbol]
<1>1. \A i : i \in LaterLevels(o, b) => i \notin BestLevel(o, b)
  BY DEF LaterLevels, BestLevel
<1>2. \A i : i \in Matchable(o, b) <=> i \in BestLevel(o, b) \/ i \in LaterLevels(o, b)
  BY DEF LaterLevels, BestLevel
<1> QED
  BY <1>1, <1>2 DEF Unvisited, ToMeet

\* On an undisturbed walk the order Match is at comes before all it is to meet:
\* the orders of the best level come before those of the later levels.
LEMMA ReachedFirst ==
  ASSUME NEW c, ~call[c].torn, NEW i \in Unvisited(c), Reached(c, i), NEW j \in ToMeet(c)
  PROVE  ~Before(book[call[c].order.symbol], j, i)
<1> DEFINE o == call[c].order
           b == book[o.symbol]
<1>1. i \in Matchable(o, b) /\ j \in Matchable(o, b)
  BY WalksCover DEF ToMeet
<1>2. i \in DOMAIN b /\ j \in DOMAIN b /\ b[i].side = b[j].side
  BY <1>1 DEF Matchable, Counterparties
<1>3. CASE j \in Unvisited(c)
  BY <1>3 DEF Reached
<1>4. CASE j \notin Unvisited(c)
  <2>1. AtBest(b, i) /\ ~AtBest(b, j)
    BY <1>1, <1>4 DEF Unvisited, ToMeet, BestLevel, LaterLevels
  <2>2. b[i].price # b[j].price
    BY <1>2, <2>1 DEF AtBest, LevelsAhead
  <2>3. ~Better(b[i].side, b[j].price, b[i].price)
    BY <1>2, <2>1 DEF AtBest, LevelsAhead
  <2> QED
    BY <1>2, <2>2, <2>3 DEF Before
<1> QED
  BY <1>3, <1>4

\* A match appends a trade with an order in the book, and what the trade takes
\* the incoming order has less.
LEMMA MatchNodeCalls ==
  ASSUME TypeOK, NEW c \in Client, MatchNode(c)
  PROVE  /\ c \in DOMAIN call /\ DOMAIN call' = DOMAIN call
         /\ CallsTypeOK' /\ OthersKept(c)
         /\ call[c].pc = "match" /\ call'[c].pc = "match"
         /\ call'[c].order = call[c].order /\ call'[c].next = call[c].next
         /\ \E f \in Fill :
              /\ f.rest \in DOMAIN book[call[c].order.symbol]
              /\ f.left + f.qty = call[c].rem
              /\ call'[c].fills = Append(call[c].fills, f) /\ call'[c].rem = f.left
              /\ orders' = [orders EXCEPT ![call[c].order.id].left = f.left]
<1> DEFINE o == call[c].order
           b == book[o.symbol]
<1>1. call \in [DOMAIN call -> Call] /\ c \in DOMAIN call /\ call[c].pc = "match"
  BY DEF TypeOK, CallsTypeOK, MatchNode, At
<1>2. call[c] \in Call /\ o \in Order /\ call[c].rem \in Int /\ call[c].rem > 0
  BY <1>1 DEF Call, MatchNode
<1>3. PICK i \in DOMAIN b :
        /\ call' = [call EXCEPT ![c].fills = Append(@, FillOf(i, b[i], call[c].rem)),
                               ![c].rem = FillOf(i, b[i], call[c].rem).left]
        /\ orders' = [orders EXCEPT ![o.id].left = FillOf(i, b[i], call[c].rem).left]
  BY WalksCover DEF MatchNode, ToMeet, Matchable, Counterparties
<1>4. i \in OrderId /\ b[i] \in Resting
  BY <1>2, <1>3 DEF TypeOK, BooksTypeOK, OrdersTypeOK, Order
<1> DEFINE f == FillOf(i, b[i], call[c].rem)
<1>5. f \in Fill /\ f.rest = i /\ f.left + f.qty = call[c].rem
  BY <1>2, <1>4 DEF FillOf, Fill, Resting, Positive
<1> HIDE DEF f
<1> DEFINE m == [call[c] EXCEPT !.fills = Append(call[c].fills, f), !.rem = f.left]
<1>6. call' = [d \in DOMAIN call |-> IF d = c THEN m ELSE call[d]]
  BY <1>1, <1>3 DEF f, Call
<1>7. Append(call[c].fills, f) \in Seq(Fill) /\ f.left \in Int
  BY <1>2, <1>5 DEF Call, Fill
<1>8. /\ m \in Call /\ m.pc = "match" /\ m.order = o /\ m.rem = f.left
      /\ m.fills = Append(call[c].fills, f) /\ m.next = call[c].next
  BY <1>1, <1>2, <1>7 DEF Call
<1> HIDE DEF m
<1>9. call' \in [DOMAIN call -> Call] /\ call'[c] = m
  BY <1>1, <1>6, <1>8
<1>10. OthersKept(c)
  BY <1>6 DEF OthersKept
<1>11. CallsTypeOK' /\ DOMAIN call' = DOMAIN call
  BY <1>9 DEF TypeOK, CallsTypeOK
<1>12. orders' = [orders EXCEPT ![o.id].left = f.left]
  BY <1>3 DEF f
<1> QED
  BY <1>1, <1>3, <1>5, <1>8, <1>9, <1>10, <1>11, <1>12

\* Settling a trade goes on to the next one.
LEMMA SettleCalls ==
  ASSUME TypeOK, NEW c \in Client, RemoveResting(c) \/ UpdateResting(c)
  PROVE  /\ c \in DOMAIN call /\ DOMAIN call' = DOMAIN call
         /\ CallsTypeOK' /\ OthersKept(c)
         /\ call[c].pc \in {"remove", "update"} /\ call'[c].pc = "record"
         /\ call'[c].order = call[c].order /\ call'[c].rem = call[c].rem
         /\ call'[c].fills = call[c].fills /\ call'[c].next = call[c].next + 1
<1>1. call \in [DOMAIN call -> Call] /\ c \in DOMAIN call /\ call[c].pc \in {"remove", "update"}
  BY DEF TypeOK, CallsTypeOK, RemoveResting, UpdateResting, At
<1> DEFINE m == [call[c] EXCEPT !.pc = "record", !.next = call[c].next + 1]
           f == [d \in DOMAIN call |-> IF d = c THEN m ELSE call[d]]
<1>2. f = [call EXCEPT ![c].pc = "record", ![c].next = @ + 1]
  BY <1>1 DEF Call
<1>3. call' = f \/ call' = Disturb(f, {call[c].order.symbol})
  BY <1>2 DEF RemoveResting, UpdateResting
<1>0. call[c] \in Call /\ call[c].next + 1 \in Positive
  BY <1>1 DEF Call, Positive
<1>4. /\ m \in Call /\ m.pc = "record" /\ m.order = call[c].order /\ m.rem = call[c].rem
      /\ m.fills = call[c].fills /\ m.next = call[c].next + 1
  BY <1>0 DEF Call, PC
<1> HIDE DEF m
<1>5. /\ f \in [DOMAIN f -> Call] /\ DOMAIN f = DOMAIN call
      /\ f[c] = m /\ \A d \in DOMAIN call \ {c} : f[d] = call[d]
  BY <1>1, <1>4
<1> HIDE DEF f
<1>6. /\ DOMAIN call' = DOMAIN f /\ call' \in [DOMAIN f -> Call]
      /\ \A d \in DOMAIN f :
           /\ call'[d].pc = f[d].pc /\ call'[d].order = f[d].order
           /\ call'[d].rem = f[d].rem /\ call'[d].fills = f[d].fills
           /\ call'[d].next = f[d].next
  BY <1>3, <1>5, DisturbCalls
<1>7. OthersKept(c)
  BY <1>5, <1>6 DEF OthersKept
<1>8. CallsTypeOK'
  BY <1>5, <1>6 DEF TypeOK, CallsTypeOK
<1> QED
  BY <1>1, <1>4, <1>5, <1>6, <1>7, <1>8

\* Close leaves every call where it is.
LEMMA CloseCalls ==
  ASSUME TypeOK, NEW c \in Client, Close(c) \/ ClearReporter(c)
  PROVE  /\ DOMAIN call' = DOMAIN call /\ CallsTypeOK'
         /\ \A d \in DOMAIN call :
              /\ call'[d].pc = call[d].pc /\ call'[d].order = call[d].order
              /\ call'[d].rem = call[d].rem /\ call'[d].fills = call[d].fills
              /\ call'[d].next = call[d].next
<1>1. call \in [DOMAIN call -> Call]
  BY DEF TypeOK, CallsTypeOK
<1>2. CASE Close(c)
  <2>1. call' = Disturb(call, Symbol)
    BY <1>2 DEF Close
  <2> QED
    BY <1>1, <2>1, DisturbCalls DEF TypeOK, CallsTypeOK
<1>3. CASE ClearReporter(c)
  BY <1>3 DEF ClearReporter, TypeOK, CallsTypeOK
<1> QED
  BY <1>2, <1>3

-----------------------------------------------------------------------------
(* What the reporter and the books do.                                     *)

LEMMA SetStatusTypes ==
  ASSUME TypeOK, NEW i, NEW status \in Status, SetStatus(i, status)
  PROVE  DOMAIN tracked' = DOMAIN tracked /\ tracked' \in [DOMAIN tracked -> Tracked]
<1>1. tracked \in [DOMAIN tracked -> Tracked]
  BY DEF TypeOK, ReporterTypeOK
<1>2. \A j \in DOMAIN tracked : [tracked[j] EXCEPT !.status = status] \in Tracked
  BY <1>1 DEF Tracked
<1> QED
  BY <1>1, <1>2 DEF SetStatus

LEMMA ApplyTradeType ==
  ASSUME NEW t \in Tracked, NEW q \in Nat
  PROVE  /\ ApplyTrade(t, q) \in Tracked
         /\ ApplyTrade(t, q).filled = t.filled + q /\ ApplyTrade(t, q).rem = t.rem - q
BY DEF ApplyTrade, Tracked, Status

LEMMA BookTradeTypes ==
  ASSUME TypeOK, NEW ids, NEW q \in Nat, BookTrade(ids, q)
  PROVE  /\ DOMAIN tracked' = DOMAIN tracked /\ tracked' \in [DOMAIN tracked -> Tracked]
         /\ DOMAIN orders' = DOMAIN orders /\ orders' \in [DOMAIN orders -> Order]
         /\ \A i \in DOMAIN orders :
              /\ orders'[i].id = orders[i].id /\ orders'[i].type = orders[i].type
              /\ orders'[i].qty = orders[i].qty /\ orders'[i].canceled = orders[i].canceled
<1>1. /\ tracked \in [DOMAIN tracked -> Tracked] /\ orders \in [DOMAIN orders -> Order]
      /\ DOMAIN tracked \subseteq DOMAIN orders
  BY DEF TypeOK, ReporterTypeOK, OrdersTypeOK
<1>2. \A i \in DOMAIN tracked : ApplyTrade(tracked[i], q) \in Tracked /\ tracked[i].rem - q \in Int
  BY <1>1, ApplyTradeType DEF Tracked
<1>3. \A i \in DOMAIN orders, n \in Int :
        LET o == [orders[i] EXCEPT !.left = n]
        IN  /\ o \in Order /\ o.id = orders[i].id /\ o.type = orders[i].type
            /\ o.qty = orders[i].qty /\ o.canceled = orders[i].canceled
  BY <1>1 DEF Order
<1>4. DOMAIN tracked' = DOMAIN tracked /\ tracked' \in [DOMAIN tracked -> Tracked]
  BY <1>1, <1>2 DEF BookTrade
<1>5. orders' = [i \in DOMAIN orders |->
                  IF i \in ids /\ i \in DOMAIN tracked
                  THEN [orders[i] EXCEPT !.left = tracked[i].rem - q]
                  ELSE orders[i]]
  BY DEF BookTrade
<1> QED
  BY <1>1, <1>2, <1>3, <1>4, <1>5

LEMMA WithoutTypes ==
  ASSUME TypeOK, NEW s \in Symbol, NEW i, book' = Without(s, i)
  PROVE  /\ book' = [t \in Symbol |-> book'[t]]
         /\ \A t \in Symbol :
              /\ DOMAIN book'[t] = IF t = s THEN DOMAIN book[t] \ {i} ELSE DOMAIN book[t]
              /\ book'[t] \in [DOMAIN book'[t] -> Resting]
<1>1. \A t \in Symbol : book[t] \in [DOMAIN book[t] -> Resting]
  BY DEF TypeOK, BooksTypeOK
<1>2. book = [t \in Symbol |-> book[t]]
  BY DEF TypeOK, BooksTypeOK
<1>3. book' = [t \in Symbol |-> IF t = s THEN Drop(book[s], i) ELSE book[t]]
  BY <1>2, Zenon DEF Without, DeleteOrder
<1>4. /\ DOMAIN Drop(book[s], i) = DOMAIN book[s] \ {i}
      /\ Drop(book[s], i) \in [DOMAIN Drop(book[s], i) -> Resting]
  BY <1>1, DropMap
<1> QED
  BY <1>1, <1>3, <1>4

LEMMA ResizedTypes ==
  ASSUME TypeOK, NEW s \in Symbol, NEW i, NEW q \in Nat, book' = Resized(s, i, q)
  PROVE  /\ book' = [t \in Symbol |-> book'[t]]
         /\ \A t \in Symbol : /\ DOMAIN book'[t] = DOMAIN book[t]
                              /\ book'[t] \in [DOMAIN book'[t] -> Resting]
<1>1. \A t \in Symbol : book[t] \in [DOMAIN book[t] -> Resting]
  BY DEF TypeOK, BooksTypeOK
<1>2. book = [t \in Symbol |-> book[t]]
  BY DEF TypeOK, BooksTypeOK
<1> DEFINE b == ResizeOrder(book[s], i, q)
<1>3. DOMAIN b = DOMAIN book[s] /\ b \in [DOMAIN book[s] -> Resting]
  <2>1. CASE i \in DOMAIN book[s] /\ q > 0
    <3>1. [book[s][i] EXCEPT !.qty = q] \in Resting
      BY <1>1, <2>1 DEF Resting, Positive
    <3>2. b = [j \in DOMAIN book[s] |->
                 IF j = i THEN [book[s][i] EXCEPT !.qty = q] ELSE book[s][j]]
      BY <1>1, <2>1 DEF ResizeOrder
    <3> QED
      BY <1>1, <3>1, <3>2
  <2>2. CASE ~(i \in DOMAIN book[s] /\ q > 0)
    BY <1>1, <2>2 DEF ResizeOrder
  <2> QED
    BY <2>1, <2>2
<1> HIDE DEF b
<1>4. book' = [t \in Symbol |-> IF t = s THEN b ELSE book[t]]
  BY <1>2, Zenon DEF Resized, b
<1> QED
  BY <1>1, <1>3, <1>4

LEMMA AddOrderBooks ==
  ASSUME TypeOK, CallsWellFormed, NEW c \in Client, AddOrder(c)
  PROVE  /\ book' = [t \in Symbol |-> book'[t]]
         /\ call[c].order.symbol \in Symbol /\ call[c].order.id \in DOMAIN orders
         /\ \A t \in Symbol :
              /\ DOMAIN book'[t] = IF t = call[c].order.symbol
                                   THEN DOMAIN book[t] \cup {call[c].order.id}
                                   ELSE DOMAIN book[t]
              /\ book'[t] \in [DOMAIN book'[t] -> Resting]
<1> DEFINE o == call[c].order
           s == o.symbol
           e == EntryOf(o, arrivals + 1)
           b == InsertOrder(book[s], o.id, e)
<1>1. \A t \in Symbol : book[t] \in [DOMAIN book[t] -> Resting]
  BY DEF TypeOK, BooksTypeOK
<1>2. book = [t \in Symbol |-> book[t]]
  BY DEF TypeOK, BooksTypeOK
<1>3. /\ c \in DOMAIN call /\ call[c].pc = "record" /\ o \in Order
      /\ o.type \in RestingType /\ Valid(o) /\ o.id \in DOMAIN orders
  BY DEF AddOrder, Recorded, At, TypeOK, CallsTypeOK, Call, CallsWellFormed,
         WellFormed, Working, Registered
<1>4. e \in Resting
  BY <1>3 DEF EntryOf, Resting, Order, Valid, Positive, TypeOK, EngineTypeOK
<1>5. s \in Symbol
  BY <1>3 DEF Order
<1>6. book' = [book EXCEPT ![s] = b]
  BY Zenon DEF AddOrder
<1> HIDE DEF o, e
<1>7. DOMAIN b = DOMAIN book[s] \cup {o.id} /\ b \in [DOMAIN b -> Resting]
  <2>1. book[s] \in [DOMAIN book[s] -> Resting]
    BY <1>1, <1>5
  <2> QED
    BY <2>1, <1>4 DEF InsertOrder, Put
<1> HIDE DEF b
<1>8. book' = [t \in Symbol |-> IF t = s THEN b ELSE book[t]]
  BY <1>2, <1>6, Zenon
<1> QED
  BY <1>1, <1>3, <1>5, <1>7, <1>8 DEF o

-----------------------------------------------------------------------------
(* Types.                                                                  *)

\* The calls a step leaves alone stay well formed.
LEMMA OthersWellFormed ==
  ASSUME CallsWellFormed, NEW c, OthersKept(c), DOMAIN orders \subseteq DOMAIN orders'
  PROVE  \A d \in DOMAIN call' \ {c} : WellFormed(call[d])'
BY DEF CallsWellFormed, WellFormed, OthersKept, Valid

\* The fill a call records or settles is one of its fills.
LEMMA CurrentFill ==
  ASSUME TypeOK, CallsWellFormed, NEW c \in Client,
         Recording(c) \/ At(c, "remove") \/ At(c, "update")
  PROVE  /\ c \in DOMAIN call /\ call[c] \in Call /\ call[c].order \in Order
         /\ call[c].next \in 1 .. Len(call[c].fills) /\ Current(c) \in Fill
<1>1. c \in DOMAIN call /\ call[c] \in Call
  BY DEF Recording, At, TypeOK, CallsTypeOK
<1>2. call[c].fills \in Seq(Fill) /\ call[c].order \in Order /\ call[c].next \in Positive
  BY <1>1 DEF Call
<1>3. call[c].next <= Len(call[c].fills)
  BY <1>1 DEF Recording, At, CallsWellFormed, WellFormed
<1>4. call[c].next \in 1 .. Len(call[c].fills)
  BY <1>2, <1>3 DEF Positive
<1> QED
  BY <1>1, <1>2, <1>4 DEF Current

LEMMA TypesReturning ==
  ASSUME TypeOK, CallsWellFormed, NEW c \in Client, Returning(c)
  PROVE  TypeOK' /\ CallsWellFormed'
<1>1. /\ c \in DOMAIN call /\ DOMAIN call' = DOMAIN call \ {c}
      /\ CallsTypeOK' /\ OthersKept(c)
  BY ReturningCalls
<1> DEFINE Others == /\ EngineTypeOK' /\ OrdersTypeOK' /\ ReporterTypeOK' /\ BooksTypeOK'
                     /\ DOMAIN orders' = DOMAIN orders
<1>2. Others
  <2>1. CASE TurnAway(c) \/ Finish(c) \/ NotFound(c)
    BY <2>1 DEF TurnAway, Finish, NotFound, books, reporter, TypeOK,
                EngineTypeOK, OrdersTypeOK, ReporterTypeOK, BooksTypeOK
  <2>2. CASE Refuse(c) \/ Insufficient(c) \/ ReportCancel(c)
    <3>1. PICK status \in Status : SetStatus(call[c].order.id, status)
      BY <2>2 DEF Refuse, Insufficient, ReportCancel, Status
    <3>2. DOMAIN tracked' = DOMAIN tracked /\ tracked' \in [DOMAIN tracked -> Tracked]
      BY <3>1, SetStatusTypes
    <3>3. /\ UNCHANGED <<running, closing, book, arrivals, orders, tradeCounter, trades, nextID>>
      BY <2>2 DEF Refuse, Insufficient, ReportCancel, books
    <3> QED
      BY <3>2, <3>3 DEF TypeOK, EngineTypeOK, OrdersTypeOK, ReporterTypeOK, BooksTypeOK
  <2>3. CASE RecordTradeFails(c)
    <3>1. Current(c) \in Fill
      BY <2>3, CurrentFill DEF RecordTradeFails
    <3>2. /\ DOMAIN tracked' = DOMAIN tracked /\ tracked' \in [DOMAIN tracked -> Tracked]
          /\ DOMAIN orders' = DOMAIN orders /\ orders' \in [DOMAIN orders -> Order]
      <4>1. Current(c).qty \in Nat
        BY <3>1 DEF Fill, Positive
      <4>2. BookTrade({BuyId(call[c].order, Current(c))}, Current(c).qty)
        BY <2>3 DEF RecordTradeFails
      <4> QED
        BY <4>1, <4>2, BookTradeTypes
    <3>3. /\ UNCHANGED <<running, closing, book, arrivals, trades, nextID>>
          /\ tradeCounter' = tradeCounter + 1
      BY <2>3 DEF RecordTradeFails, books
    <3>4. OrdersTypeOK' /\ ReporterTypeOK'
      BY <3>2, <3>3 DEF TypeOK, OrdersTypeOK, ReporterTypeOK
    <3>5. BooksTypeOK' /\ EngineTypeOK'
      BY <3>2, <3>3 DEF TypeOK, BooksTypeOK, EngineTypeOK
    <3> QED
      BY <3>2, <3>4, <3>5
  <2>4. CASE AddOrder(c)
    <3>1. /\ book' = [t \in Symbol |-> book'[t]]
          /\ \A t \in Symbol : DOMAIN book'[t] \subseteq DOMAIN orders
          /\ \A t \in Symbol : book'[t] \in [DOMAIN book'[t] -> Resting]
      <4>1. \A t \in Symbol : DOMAIN book[t] \subseteq DOMAIN orders
        BY DEF TypeOK, BooksTypeOK
      <4>2. PICK o : o = call[c].order
        OBVIOUS
      <4>3. /\ book' = [t \in Symbol |-> book'[t]] /\ o.id \in DOMAIN orders
            /\ \A t \in Symbol : /\ DOMAIN book'[t] \subseteq DOMAIN book[t] \cup {o.id}
                                 /\ book'[t] \in [DOMAIN book'[t] -> Resting]
        BY <2>4, <4>2, AddOrderBooks
      <4> QED
        BY <4>1, <4>3
    <3>2. /\ UNCHANGED <<running, closing, orders, tracked, tradeCounter, trades, nextID>>
          /\ arrivals' = arrivals + 1
      BY <2>4 DEF AddOrder, reporter
    <3>3. BooksTypeOK' /\ OrdersTypeOK' /\ ReporterTypeOK'
      BY <3>1, <3>2 DEF TypeOK, OrdersTypeOK, ReporterTypeOK, BooksTypeOK
    <3> QED
      BY <3>2, <3>3 DEF TypeOK, EngineTypeOK
  <2>5. CASE CancelRemainder(c)
    <3> DEFINE i == call[c].order.id
    <3>1. /\ tracked' = [j \in DOMAIN tracked |->
                          IF j = i THEN [tracked[j] EXCEPT !.rem = 0] ELSE tracked[j]]
          /\ orders' = IF i \in DOMAIN tracked THEN [orders EXCEPT ![i].left = 0] ELSE orders
          /\ UNCHANGED <<running, closing, book, arrivals, tradeCounter, trades, nextID>>
      BY <2>5 DEF CancelRemainder, books
    <3>2. DOMAIN tracked' = DOMAIN tracked /\ tracked' \in [DOMAIN tracked -> Tracked]
      <4>1. tracked \in [DOMAIN tracked -> Tracked]
        BY DEF TypeOK, ReporterTypeOK
      <4>2. \A j \in DOMAIN tracked : [tracked[j] EXCEPT !.rem = 0] \in Tracked
        BY <4>1 DEF Tracked
      <4> QED
        BY <3>1, <4>1, <4>2
    <3>3. DOMAIN orders' = DOMAIN orders /\ orders' \in [DOMAIN orders -> Order]
      <4>1. orders \in [DOMAIN orders -> Order]
        BY DEF TypeOK, OrdersTypeOK
      <4>2. \A j \in DOMAIN orders : [orders[j] EXCEPT !.left = 0] \in Order
        BY <4>1 DEF Order
      <4> QED
        BY <3>1, <4>1, <4>2
    <3> QED
      BY <3>1, <3>2, <3>3 DEF TypeOK, EngineTypeOK, OrdersTypeOK, ReporterTypeOK, BooksTypeOK
  <2> QED
    BY <2>1, <2>2, <2>3, <2>4, <2>5 DEF Returning
<1>3. CallsWellFormed'
  BY <1>1, <1>2, OthersWellFormed DEF CallsWellFormed
<1> QED
  BY <1>1, <1>2, <1>3 DEF TypeOK

\* Where the steps that only move the program counter go.
LEMMA MovingCalls ==
  ASSUME TypeOK, NEW c \in Client,
         \/ Admit(c) \/ RegisterOrder(c) \/ Enough(c) \/ EndMatch(c)
         \/ RecordTrade(c) \/ Unbook(c)
  PROVE  /\ CallsTypeOK' /\ OthersKept(c)
         /\ Admit(c) => Moves(c, "register")
         /\ RegisterOrder(c) => Moves(c, IF call[c].order.type = "fok" THEN "liquidity" ELSE "match")
         /\ Enough(c) => Moves(c, "match")
         /\ EndMatch(c) => Moves(c, "record")
         /\ RecordTrade(c) =>
              Moves(c, IF ApplyTrade(tracked[Current(c).rest], Current(c).qty).status = "Filled"
                       THEN "remove" ELSE "update")
         /\ Unbook(c) => Moves(c, "cancel")
<1>1. c \in DOMAIN call
  BY DEF Admit, RegisterOrder, Enough, EndMatch, RecordTrade, Unbook, Recording, At
<1>2. {"register", "liquidity", "match", "record", "remove", "update"} \subseteq PC
  BY DEF PC
<1>3. Admit(c) => Moves(c, "register") /\ CallsTypeOK' /\ OthersKept(c)
  BY <1>1, <1>2, GotoCalls DEF Admit
<1>4. RegisterOrder(c) =>
        /\ Moves(c, IF call[c].order.type = "fok" THEN "liquidity" ELSE "match")
        /\ CallsTypeOK' /\ OthersKept(c)
  BY <1>1, <1>2, GotoCalls DEF RegisterOrder
<1>5. EndMatch(c) => Moves(c, "record") /\ CallsTypeOK' /\ OthersKept(c)
  BY <1>1, <1>2, GotoCalls DEF EndMatch
<1>6. RecordTrade(c) =>
        /\ Moves(c, IF ApplyTrade(tracked[Current(c).rest], Current(c).qty).status = "Filled"
                    THEN "remove" ELSE "update")
        /\ CallsTypeOK' /\ OthersKept(c)
  BY <1>1, <1>2, GotoCalls DEF RecordTrade
<1>7. Enough(c) => Moves(c, "match") /\ CallsTypeOK' /\ OthersKept(c)
  BY EnoughCalls
<1>8. Unbook(c) => Moves(c, "cancel") /\ CallsTypeOK' /\ OthersKept(c)
  BY UnbookCalls
<1> QED
  BY <1>3, <1>4, <1>5, <1>6, <1>7, <1>8

\* RegisterOrder puts the order of the call into both maps.
LEMMA RegisterOrderTypes ==
  ASSUME TypeOK, NEW c \in Client, RegisterOrder(c)
  PROVE  LET o == call[c].order
         IN  /\ c \in DOMAIN call /\ call[c].pc = "register" /\ o \in Order
             /\ DOMAIN tracked' = DOMAIN tracked \cup {o.id}
             /\ tracked' \in [DOMAIN tracked' -> Tracked]
             /\ tracked'[o.id] = [status |-> "New", filled |-> 0, rem |-> o.qty]
             /\ \A i \in DOMAIN tracked \ {o.id} : tracked'[i] = tracked[i]
             /\ DOMAIN orders' = DOMAIN orders \cup {o.id}
             /\ orders' \in [DOMAIN orders' -> Order] /\ orders'[o.id] = o
             /\ \A i \in DOMAIN orders \ {o.id} : orders'[i] = orders[i]
<1> DEFINE o == call[c].order
           t == [status |-> "New", filled |-> 0, rem |-> o.qty]
<1>1. c \in DOMAIN call /\ call[c].pc = "register" /\ o \in Order
  BY DEF RegisterOrder, At, TypeOK, CallsTypeOK, Call
<1>2. t \in Tracked
  BY <1>1 DEF Tracked, Status, Order
<1>3. tracked' = Put(tracked, o.id, t) /\ orders' = Put(orders, o.id, o)
  BY DEF RegisterOrder
<1>4. tracked \in [DOMAIN tracked -> Tracked] /\ orders \in [DOMAIN orders -> Order]
  BY DEF TypeOK, ReporterTypeOK, OrdersTypeOK
<1> HIDE DEF o, t
<1>5. /\ DOMAIN tracked' = DOMAIN tracked \cup {o.id}
      /\ tracked' \in [DOMAIN tracked' -> Tracked] /\ tracked'[o.id] = t
      /\ \A i \in DOMAIN tracked \ {o.id} : tracked'[i] = tracked[i]
  BY <1>2, <1>3, <1>4 DEF Put
<1>6. /\ DOMAIN orders' = DOMAIN orders \cup {o.id}
      /\ orders' \in [DOMAIN orders' -> Order] /\ orders'[o.id] = o
      /\ \A i \in DOMAIN orders \ {o.id} : orders'[i] = orders[i]
  BY <1>1, <1>3, <1>4 DEF Put
<1> QED
  BY <1>1, <1>5, <1>6 DEF o, t

\* EndMatch may cancel what is left of the order of the call.
LEMMA EndMatchOrders ==
  ASSUME TypeOK, CallsWellFormed, NEW c \in Client, EndMatch(c)
  PROVE  LET o == call[c].order
             cancels == o.type \in {"market", "ioc"} /\ call[c].rem > 0
         IN  /\ c \in DOMAIN call /\ call[c].pc = "match"
             /\ DOMAIN orders' = DOMAIN orders /\ orders' \in [DOMAIN orders -> Order]
             /\ \A i \in DOMAIN orders :
                  /\ orders'[i].id = orders[i].id /\ orders'[i].type = orders[i].type
                  /\ orders'[i].qty = orders[i].qty
                  /\ orders'[i].canceled = IF cancels /\ i = o.id THEN call[c].rem
                                           ELSE orders[i].canceled
<1> DEFINE o == call[c].order
           k == call[c].rem
<1>1. c \in DOMAIN call /\ call[c].pc = "match" /\ k \in Int
  BY DEF EndMatch, At, TypeOK, CallsTypeOK, Call
<1>2. orders \in [DOMAIN orders -> Order]
  BY DEF TypeOK, OrdersTypeOK
<1>3. orders' = IF o.type \in {"market", "ioc"} /\ k > 0
                THEN [orders EXCEPT ![o.id].left = 0, ![o.id].canceled = k]
                ELSE orders
  BY DEF EndMatch, CancelUnmatched
<1>5. o.id \in DOMAIN orders
  BY <1>1 DEF CallsWellFormed, WellFormed, Registered
<1> HIDE DEF o, k
<1> DEFINE p(i) == [orders[i] EXCEPT !.left = 0, !.canceled = k]
<1>4. \A i \in DOMAIN orders :
        /\ p(i) \in Order /\ p(i).id = orders[i].id /\ p(i).type = orders[i].type
        /\ p(i).qty = orders[i].qty /\ p(i).canceled = k
  <2> TAKE i \in DOMAIN orders
  <2>1. orders[i] \in Order
    BY <1>2
  <2>2. k \in Int
    BY <1>1
  <2>3. [orders[i] EXCEPT !.left = 0] \in Order
    BY <2>1 DEF Order
  <2>4. p(i) = [[orders[i] EXCEPT !.left = 0] EXCEPT !.canceled = k]
    OBVIOUS
  <2>5. p(i) \in Order
    BY <2>2, <2>3, <2>4 DEF Order
  <2>6. /\ p(i).id = orders[i].id /\ p(i).type = orders[i].type
        /\ p(i).qty = orders[i].qty /\ p(i).canceled = k
    BY <2>1 DEF Order
  <2> QED
    BY <2>5, <2>6
<1>6. CASE o.type \in {"market", "ioc"} /\ k > 0
  <2>1. orders' = [orders EXCEPT ![o.id] = p(o.id)]
    BY <1>2, <1>3, <1>5, <1>6 DEF Order
  <2>2. orders' = [i \in DOMAIN orders |-> IF i = o.id THEN p(o.id) ELSE orders[i]]
    BY <1>2, <2>1
  <2> QED
    BY <1>1, <1>2, <1>4, <1>6, <2>2 DEF o, k
<1>7. CASE ~(o.type \in {"market", "ioc"} /\ k > 0)
  BY <1>1, <1>2, <1>3, <1>7 DEF o, k
<1> QED
  BY <1>6, <1>7

\* A published trade is well formed.
LEMMA TradeOfType ==
  ASSUME NEW o \in Order, NEW f \in Fill, NEW n \in Nat
  PROVE  TradeOf(o, f, n) \in Trade
<1>1. CASE o.side = "buy"
  BY <1>1 DEF TradeOf, Trade, Order, Fill, BuyId, SellId
<1>2. CASE o.side # "buy"
  BY <1>2 DEF TradeOf, Trade, Order, Fill, BuyId, SellId
<1> QED
  BY <1>1, <1>2

LEMMA TypesMoving ==
  ASSUME TypeOK, CallsWellFormed, NEW c \in Client,
         \/ Admit(c) \/ RegisterOrder(c) \/ Enough(c) \/ EndMatch(c)
         \/ RecordTrade(c) \/ Unbook(c)
  PROVE  TypeOK' /\ CallsWellFormed'
<1>1. CallsTypeOK' /\ OthersKept(c)
  BY MovingCalls
<1> DEFINE Others == /\ EngineTypeOK' /\ OrdersTypeOK' /\ ReporterTypeOK' /\ BooksTypeOK'
                     /\ DOMAIN orders \subseteq DOMAIN orders'
<1>2. Others /\ (c \in DOMAIN call' => WellFormed(call[c])')
  <2>1. CASE Admit(c)
    <3>1. Moves(c, "register") /\ Valid(call[c].order)
      BY <2>1, MovingCalls DEF Admit
    <3>2. UNCHANGED <<running, closing, books, orders, reporter, nextID>>
      BY <2>1 DEF Admit
    <3>3. WellFormed(call[c])'
      BY <3>1 DEF Moves, WellFormed, Registered, Valid
    <3> QED
      BY <3>2, <3>3 DEF books, reporter, TypeOK, EngineTypeOK, OrdersTypeOK,
                        ReporterTypeOK, BooksTypeOK
  <2>2. CASE RegisterOrder(c)
    <3> DEFINE o == call[c].order
    <3>1. /\ c \in DOMAIN call /\ call[c].pc = "register" /\ o \in Order
          /\ DOMAIN tracked' = DOMAIN tracked \cup {o.id}
          /\ tracked' \in [DOMAIN tracked' -> Tracked]
          /\ DOMAIN orders' = DOMAIN orders \cup {o.id}
          /\ orders' \in [DOMAIN orders' -> Order]
      BY <2>2, RegisterOrderTypes
    <3>2. Moves(c, "liquidity") \/ Moves(c, "match")
      BY <2>2, MovingCalls
    <3>3. Valid(o)
      BY <3>1 DEF CallsWellFormed, WellFormed, Working
    <3>4. WellFormed(call[c])'
      BY <3>1, <3>2, <3>3 DEF Moves, WellFormed, Registered, Valid
    <3>5. UNCHANGED <<running, closing, book, arrivals, tradeCounter, trades, nextID>>
      BY <2>2 DEF RegisterOrder, books
    <3>6. o.id \in OrderId
      BY <3>1 DEF Order
    <3> HIDE DEF o
    <3>7. EngineTypeOK' /\ OrdersTypeOK' /\ ReporterTypeOK'
      BY <3>1, <3>5, <3>6 DEF TypeOK, EngineTypeOK, OrdersTypeOK, ReporterTypeOK
    <3>8. BooksTypeOK'
      BY <3>1, <3>5 DEF TypeOK, BooksTypeOK
    <3> QED
      BY <3>1, <3>4, <3>7, <3>8
  <2>3. CASE Enough(c)
    <3>1. Moves(c, "match") /\ call[c].pc = "liquidity"
      BY <2>3, MovingCalls DEF Enough, At
    <3>2. UNCHANGED <<running, closing, books, orders, reporter, nextID>>
      BY <2>3 DEF Enough
    <3>3. WellFormed(call[c])'
      BY <3>1, <3>2 DEF Moves, CallsWellFormed, WellFormed, Registered, Working, Valid
    <3> QED
      BY <3>2, <3>3 DEF books, reporter, TypeOK, EngineTypeOK, OrdersTypeOK,
                        ReporterTypeOK, BooksTypeOK
  <2>4. CASE EndMatch(c)
    <3>1. Moves(c, "record") /\ call[c].pc = "match"
      BY <2>4, MovingCalls DEF EndMatch, At
    <3>2. DOMAIN orders' = DOMAIN orders /\ orders' \in [DOMAIN orders -> Order]
      BY <2>4, EndMatchOrders
    <3>3. UNCHANGED <<running, closing, books, reporter, nextID>>
      BY <2>4 DEF EndMatch
    <3>4. WellFormed(call[c])'
      BY <3>1, <3>2 DEF Moves, CallsWellFormed, WellFormed, Registered, Working, Valid
    <3> QED
      BY <3>2, <3>3, <3>4 DEF books, reporter, TypeOK, EngineTypeOK, OrdersTypeOK,
                              ReporterTypeOK, BooksTypeOK
  <2>5. CASE RecordTrade(c)
    <3>1. /\ c \in DOMAIN call /\ call[c].order \in Order /\ Current(c) \in Fill
          /\ call[c].next \in 1 .. Len(call[c].fills) /\ call[c].pc = "record"
      BY <2>5, CurrentFill DEF RecordTrade, Recording, At
    <3>2. Current(c).qty \in Nat
      BY <3>1 DEF Fill, Positive
    <3>3. BookTrade({call[c].order.id, Current(c).rest}, Current(c).qty)
      BY <2>5 DEF RecordTrade
    <3>4. /\ DOMAIN tracked' = DOMAIN tracked /\ tracked' \in [DOMAIN tracked -> Tracked]
          /\ DOMAIN orders' = DOMAIN orders /\ orders' \in [DOMAIN orders -> Order]
      BY <3>2, <3>3, BookTradeTypes
    <3>5. /\ tradeCounter' = tradeCounter + 1
          /\ trades' = Append(trades, TradeOf(call[c].order, Current(c), tradeCounter'))
          /\ UNCHANGED <<running, closing, book, arrivals, nextID>>
      BY <2>5 DEF RecordTrade, books
    <3>6. tradeCounter' \in Nat /\ trades' \in Seq(Trade)
      <4>1. tradeCounter' \in Nat
        BY <3>5 DEF TypeOK, ReporterTypeOK
      <4>2. TradeOf(call[c].order, Current(c), tradeCounter') \in Trade
        BY <3>1, <4>1, TradeOfType
      <4> QED
        BY <3>5, <4>1, <4>2 DEF TypeOK, ReporterTypeOK
    <3>7. Moves(c, "remove") \/ Moves(c, "update")
      BY <2>5, MovingCalls
    <3>8. WellFormed(call[c])'
      BY <3>1, <3>4, <3>7 DEF Moves, CallsWellFormed, WellFormed, Registered, Working, Valid
    <3> QED
      BY <3>4, <3>5, <3>6, <3>8 DEF TypeOK, EngineTypeOK, OrdersTypeOK,
                                    ReporterTypeOK, BooksTypeOK
  <2>6. CASE Unbook(c)
    <3>1. Moves(c, "cancel") /\ call[c].order.symbol \in Symbol
      BY <2>6, MovingCalls DEF Moves, TypeOK, CallsTypeOK, Call, Order
    <3>2. WellFormed(call[c])'
      BY <3>1 DEF Moves, WellFormed, Registered, Working
    <3>3. /\ book' = [t \in Symbol |-> book'[t]]
          /\ \A t \in Symbol : DOMAIN book'[t] \subseteq DOMAIN book[t]
          /\ \A t \in Symbol : book'[t] \in [DOMAIN book'[t] -> Resting]
      BY <2>6, <3>1, WithoutTypes DEF Unbook
    <3>4. UNCHANGED <<running, closing, arrivals, orders, tracked, tradeCounter, trades, nextID>>
      BY <2>6 DEF Unbook, reporter
    <3> QED
      BY <3>2, <3>3, <3>4 DEF TypeOK, EngineTypeOK, OrdersTypeOK, ReporterTypeOK, BooksTypeOK
  <2> QED
    BY <2>1, <2>2, <2>3, <2>4, <2>5, <2>6
<1>3. CallsWellFormed'
  <2>1. \A d \in DOMAIN call' \ {c} : WellFormed(call[d])'
    BY <1>1, <1>2, OthersWellFormed
  <2> QED
    BY <1>2, <2>1 DEF CallsWellFormed
<1> QED
  BY <1>1, <1>2, <1>3 DEF TypeOK

LEMMA MatchNodeOrders ==
  ASSUME TypeOK, CallsWellFormed, NEW c \in Client, MatchNode(c)
  PROVE  /\ DOMAIN orders' = DOMAIN orders /\ orders' \in [DOMAIN orders -> Order]
         /\ \A i \in DOMAIN orders :
              /\ orders'[i].id = orders[i].id /\ orders'[i].type = orders[i].type
              /\ orders'[i].qty = orders[i].qty /\ orders'[i].canceled = orders[i].canceled
<1>1. PICK n \in Int : orders' = [orders EXCEPT ![call[c].order.id].left = n]
  <2>1. PICK f \in Fill : orders' = [orders EXCEPT ![call[c].order.id].left = f.left]
    BY MatchNodeCalls
  <2>2. f.left \in Int
    BY DEF Fill
  <2> QED
    BY <2>1, <2>2
<1>2. orders \in [DOMAIN orders -> Order]
  BY DEF TypeOK, OrdersTypeOK
<1>3. \A i \in DOMAIN orders :
        LET o == [orders[i] EXCEPT !.left = n]
        IN  /\ o \in Order /\ o.id = orders[i].id /\ o.type = orders[i].type
            /\ o.qty = orders[i].qty /\ o.canceled = orders[i].canceled
  BY <1>2 DEF Order
<1> QED
  BY <1>1, <1>2, <1>3

LEMMA TypesWorking ==
  ASSUME TypeOK, CallsWellFormed, NEW c \in Client,
         MatchNode(c) \/ RemoveResting(c) \/ UpdateResting(c) \/ Replace(c)
  PROVE  TypeOK' /\ CallsWellFormed'
<1> DEFINE Others == /\ EngineTypeOK' /\ OrdersTypeOK' /\ ReporterTypeOK' /\ BooksTypeOK'
                     /\ DOMAIN orders' = DOMAIN orders
                     /\ CallsTypeOK' /\ OthersKept(c) /\ WellFormed(call[c])'
<1>1. CASE MatchNode(c)
  <2>1. /\ CallsTypeOK' /\ OthersKept(c) /\ c \in DOMAIN call
        /\ call[c].pc = "match" /\ call'[c].pc = "match" /\ call'[c].order = call[c].order
    BY <1>1, MatchNodeCalls
  <2>2. DOMAIN orders' = DOMAIN orders /\ orders' \in [DOMAIN orders -> Order]
    BY <1>1, MatchNodeOrders
  <2>3. UNCHANGED <<running, closing, books, reporter, nextID>>
    BY <1>1 DEF MatchNode
  <2>4. WellFormed(call[c])'
    BY <2>1, <2>2 DEF CallsWellFormed, WellFormed, Registered, Working, Valid
  <2>5. Others
    BY <2>1, <2>2, <2>3, <2>4 DEF books, reporter, TypeOK, EngineTypeOK, OrdersTypeOK,
                                  ReporterTypeOK, BooksTypeOK
  <2> QED
    BY <2>5, OthersWellFormed DEF CallsWellFormed, TypeOK
<1>2. CASE RemoveResting(c) \/ UpdateResting(c)
  <2>1. /\ CallsTypeOK' /\ OthersKept(c) /\ c \in DOMAIN call
        /\ call[c].pc \in {"remove", "update"} /\ call'[c].pc = "record"
        /\ call'[c].order = call[c].order
    BY <1>2, SettleCalls
  <2>2. UNCHANGED <<running, closing, arrivals, orders, reporter, nextID>>
    BY <1>2 DEF RemoveResting, UpdateResting
  <2>3. WellFormed(call[c])'
    BY <2>1, <2>2 DEF CallsWellFormed, WellFormed, Registered, Working, Valid
  <2>4. Current(c) \in Fill /\ call[c].order.symbol \in Symbol
    BY <1>2, CurrentFill DEF RemoveResting, UpdateResting, Order
  <2>5. /\ book' = [t \in Symbol |-> book'[t]]
        /\ \A t \in Symbol : DOMAIN book'[t] \subseteq DOMAIN book[t]
        /\ \A t \in Symbol : book'[t] \in [DOMAIN book'[t] -> Resting]
    <3>1. CASE RemoveResting(c)
      BY <3>1, <2>4, WithoutTypes DEF RemoveResting
    <3>2. CASE UpdateResting(c)
      <4>1. Current(c).restLeft \in Nat
        BY <2>4 DEF Fill
      <4>2. book' = Resized(call[c].order.symbol, Current(c).rest, Current(c).restLeft)
        BY <3>2 DEF UpdateResting
      <4> QED
        BY <2>4, <4>1, <4>2, ResizedTypes
    <3> QED
      BY <1>2, <3>1, <3>2
  <2>6. Others
    BY <2>1, <2>2, <2>3, <2>5 DEF reporter, TypeOK, EngineTypeOK, OrdersTypeOK,
                                  ReporterTypeOK, BooksTypeOK
  <2> QED
    BY <2>6, OthersWellFormed DEF CallsWellFormed, TypeOK
<1>3. CASE Replace(c)
  <2>1. /\ CallsTypeOK' /\ OthersKept(c) /\ c \in DOMAIN call /\ call'[c].pc = "submit"
    BY <1>3, ReplaceCalls
  <2>2. WellFormed(call[c])'
    BY <2>1 DEF WellFormed, Working, Registered
  <2>3. call[c].order.symbol \in Symbol
    BY <2>1 DEF TypeOK, CallsTypeOK, Call, Order
  <2>4. /\ book' = [t \in Symbol |-> book'[t]]
        /\ \A t \in Symbol : DOMAIN book'[t] \subseteq DOMAIN book[t]
        /\ \A t \in Symbol : book'[t] \in [DOMAIN book'[t] -> Resting]
    BY <1>3, <2>3, WithoutTypes DEF Replace
  <2>5. UNCHANGED <<running, closing, arrivals, orders, reporter, nextID>>
    BY <1>3 DEF Replace
  <2>6. Others
    BY <2>1, <2>2, <2>4, <2>5 DEF reporter, TypeOK, EngineTypeOK, OrdersTypeOK,
                                  ReporterTypeOK, BooksTypeOK
  <2> QED
    BY <2>6, OthersWellFormed DEF CallsWellFormed, TypeOK
<1> QED
  BY <1>1, <1>2, <1>3

LEMMA TypesAsking ==
  ASSUME TypeOK, CallsWellFormed, NEW c \in Client, Ask(c) \/ ClearReporter(c)
  PROVE  TypeOK' /\ CallsWellFormed'
<1>1. CASE SubmitOrder(c)
  <2>1. CallsTypeOK' /\ OthersKept(c) /\ call'[c].pc = "submit"
    BY <1>1, SubmitOrderCalls
  <2>2. /\ UNCHANGED <<running, closing, books, orders, reporter>>
        /\ nextID' = nextID + 1
    BY <1>1 DEF SubmitOrder
  <2>3. WellFormed(call[c])'
    BY <2>1 DEF WellFormed, Working, Registered
  <2>4. nextID' \in Positive
    BY <2>2 DEF TypeOK, EngineTypeOK, Positive
  <2>5. /\ EngineTypeOK' /\ OrdersTypeOK' /\ ReporterTypeOK' /\ BooksTypeOK'
        /\ DOMAIN orders' = DOMAIN orders
    BY <2>2, <2>4 DEF books, reporter, TypeOK, EngineTypeOK, OrdersTypeOK,
                      ReporterTypeOK, BooksTypeOK
  <2> QED
    BY <2>1, <2>3, <2>5, OthersWellFormed DEF CallsWellFormed, TypeOK
<1>2. CASE CancelOrder(c) \/ ModifyOrder(c)
  <2>1. CallsTypeOK' /\ OthersKept(c) /\ call'[c].pc \in {"unbook", "replace"}
    BY <1>2, NamingCalls
  <2>2. UNCHANGED <<running, closing, books, orders, reporter, nextID>>
    BY <1>2 DEF CancelOrder, ModifyOrder
  <2>3. WellFormed(call[c])'
    BY <2>1 DEF WellFormed, Working, Registered
  <2>4. /\ EngineTypeOK' /\ OrdersTypeOK' /\ ReporterTypeOK' /\ BooksTypeOK'
        /\ DOMAIN orders' = DOMAIN orders
    BY <2>2 DEF books, reporter, TypeOK, EngineTypeOK, OrdersTypeOK,
                ReporterTypeOK, BooksTypeOK
  <2> QED
    BY <2>1, <2>3, <2>4, OthersWellFormed DEF CallsWellFormed, TypeOK
<1>3. CASE Close(c) \/ ClearReporter(c)
  <2>1. /\ DOMAIN call' = DOMAIN call /\ CallsTypeOK'
        /\ \A d \in DOMAIN call :
             /\ call'[d].pc = call[d].pc /\ call'[d].order = call[d].order
             /\ call'[d].rem = call[d].rem /\ call'[d].fills = call[d].fills
             /\ call'[d].next = call[d].next
    BY <1>3, CloseCalls
  <2>2. /\ UNCHANGED <<arrivals, orders, trades, nextID>>
        /\ running' \in BOOLEAN /\ closing' \subseteq Client
    BY <1>3 DEF Close, ClearReporter, books, reporter, TypeOK, EngineTypeOK
  <2>3. EmptyBook \in [{} -> Resting] /\ EmptyBook \in [{} -> Tracked] /\ DOMAIN EmptyBook = {}
    BY DEF EmptyBook
  <2>4. ReporterTypeOK' /\ BooksTypeOK'
    <3>1. /\ tracked' \in {tracked, EmptyBook} /\ tradeCounter' \in {tradeCounter, 0}
          /\ book' \in {book, [s \in Symbol |-> EmptyBook]}
      BY <1>3 DEF Close, ClearReporter, books, reporter
    <3>2. ReporterTypeOK'
      <4>1. DOMAIN tracked' \subseteq DOMAIN orders' /\ tracked' \in [DOMAIN tracked' -> Tracked]
        BY <2>2, <2>3, <3>1 DEF TypeOK, ReporterTypeOK
      <4>2. tradeCounter' \in Nat /\ trades' \in Seq(Trade)
        BY <2>2, <3>1 DEF TypeOK, ReporterTypeOK
      <4> QED
        BY <4>1, <4>2 DEF ReporterTypeOK
    <3>3. BooksTypeOK'
      BY <2>2, <2>3, <3>1 DEF TypeOK, BooksTypeOK
    <3> QED
      BY <3>2, <3>3
  <2>5. EngineTypeOK' /\ OrdersTypeOK'
    BY <2>2 DEF TypeOK, EngineTypeOK, OrdersTypeOK
  <2>6. CallsWellFormed'
    BY <2>1, <2>2 DEF CallsWellFormed, WellFormed, Valid
  <2> QED
    BY <2>1, <2>4, <2>5, <2>6 DEF TypeOK
<1> QED
  BY <1>1, <1>2, <1>3 DEF Ask

\* Every step keeps the types and keeps calls well formed.
LEMMA TypesStep ==
  ASSUME TypeOK, CallsWellFormed, [Next]_vars
  PROVE  TypeOK' /\ CallsWellFormed'
<1>1. ASSUME NEW c \in Client, Step(c) \/ Ask(c)
      PROVE  TypeOK' /\ CallsWellFormed'
  BY <1>1, TypesReturning, TypesMoving, TypesWorking, TypesAsking
     DEF Step, Lookup, Returning
<1>2. CASE UNCHANGED vars
  BY <1>2 DEF vars, TypeOK, EngineTypeOK, OrdersTypeOK, ReporterTypeOK, BooksTypeOK,
              CallsTypeOK, CallsWellFormed, WellFormed, Valid
<1> QED
  BY <1>1, <1>2 DEF Next

LEMMA TypesInit ==
  ASSUME Init
  PROVE  TypeOK /\ CallsWellFormed
<1>1. /\ EmptyBook \in [{} -> Resting] /\ EmptyBook \in [{} -> Tracked]
      /\ EmptyBook \in [{} -> Call] /\ EmptyBook \in [{} -> Order] /\ DOMAIN EmptyBook = {}
  BY DEF EmptyBook
<1> QED
  BY <1>1 DEF Init, TypeOK, EngineTypeOK, OrdersTypeOK, ReporterTypeOK, BooksTypeOK,
              CallsTypeOK, CallsWellFormed, Positive

\* Type correctness, for any number of racing clients.
THEOREM TypeCorrect == Spec => []TypeOK
<1>1. Init => TypeOK /\ CallsWellFormed
  BY TypesInit
<1>2. TypeOK /\ CallsWellFormed /\ [Next]_vars => (TypeOK /\ CallsWellFormed)'
  BY TypesStep
<1> QED
  BY <1>1, <1>2, PTL DEF Spec

-----------------------------------------------------------------------------
(* What a step leaves of the orders.                                       *)

\* No step but RegisterOrder changes who is an order, its type or quantity.
LEMMA OrdersKept ==
  ASSUME TypeOK, CallsWellFormed, NEW c \in Client, Step(c) \/ Ask(c), ~RegisterOrder(c)
  PROVE  /\ DOMAIN orders' = DOMAIN orders
         /\ \A i \in DOMAIN orders :
              /\ orders'[i].id = orders[i].id /\ orders'[i].type = orders[i].type
              /\ orders'[i].qty = orders[i].qty
<1>1. orders \in [DOMAIN orders -> Order]
  BY DEF TypeOK, OrdersTypeOK
<1> DEFINE Goal == /\ DOMAIN orders' = DOMAIN orders
                   /\ \A i \in DOMAIN orders :
                        /\ orders'[i].id = orders[i].id /\ orders'[i].type = orders[i].type
                        /\ orders'[i].qty = orders[i].qty
<1>2. CASE UNCHANGED orders
  BY <1>2
<1>3. CASE RecordTrade(c) \/ RecordTradeFails(c)
  <2>1. Current(c) \in Fill
    BY <1>3, CurrentFill DEF RecordTrade, RecordTradeFails
  <2>2. Current(c).qty \in Nat
    BY <2>1 DEF Fill, Positive
  <2>3. \E ids : BookTrade(ids, Current(c).qty)
    BY <1>3 DEF RecordTrade, RecordTradeFails
  <2> QED
    BY <2>2, <2>3, BookTradeTypes
<1>4. CASE MatchNode(c)
  BY <1>4, MatchNodeOrders
<1>5. CASE EndMatch(c)
  BY <1>5, EndMatchOrders
<1>6. CASE CancelRemainder(c)
  <2> DEFINE j == call[c].order.id
  <2>1. orders' = orders \/ orders' = [orders EXCEPT ![j].left = 0]
    BY <1>6 DEF CancelRemainder
  <2> HIDE DEF j
  <2>2. \A i \in DOMAIN orders :
          LET o == [orders[i] EXCEPT !.left = 0]
          IN  o.id = orders[i].id /\ o.type = orders[i].type /\ o.qty = orders[i].qty
    BY <1>1 DEF Order
  <2> QED
    BY <1>1, <2>1, <2>2
<1> QED
  BY <1>2, <1>3, <1>4, <1>5, <1>6
     DEF Step, Ask, Lookup, TurnAway, Refuse, Admit, Enough, Insufficient, RemoveResting,
         UpdateResting, AddOrder, Finish, ReportCancel, NotFound, Unbook, Replace,
         SubmitOrder, CancelOrder, ModifyOrder, Close, ClearReporter

\* No step but AddOrder puts an order into a book.
LEMMA BooksShrink ==
  ASSUME TypeOK, CallsWellFormed, NEW c \in Client, Step(c) \/ Ask(c), ~AddOrder(c)
  PROVE  \A s \in Symbol : DOMAIN book'[s] \subseteq DOMAIN book[s]
<1>1. CASE UNCHANGED book
  BY <1>1
<1>2. CASE RemoveResting(c) \/ Unbook(c) \/ Replace(c)
  <2>1. call[c].order.symbol \in Symbol
    BY <1>2 DEF RemoveResting, Unbook, Replace, At, TypeOK, CallsTypeOK, Call, Order
  <2>2. \E s \in Symbol : \E i : book' = Without(s, i)
    BY <1>2, <2>1 DEF RemoveResting, Unbook, Replace
  <2> QED
    BY <2>2, WithoutTypes
<1>3. CASE UpdateResting(c)
  <2>1. call[c].order \in Order /\ Current(c) \in Fill
    BY <1>3, CurrentFill DEF UpdateResting
  <2>2. call[c].order.symbol \in Symbol /\ Current(c).restLeft \in Nat
    BY <2>1 DEF Order, Fill
  <2>3. book' = Resized(call[c].order.symbol, Current(c).rest, Current(c).restLeft)
    BY <1>3 DEF UpdateResting
  <2> QED
    BY <2>2, <2>3, ResizedTypes
<1>4. CASE Close(c)
  BY <1>4 DEF Close, EmptyBook
<1> QED
  BY <1>1, <1>2, <1>3, <1>4
     DEF Step, Ask, Lookup, TurnAway, Refuse, Admit, RegisterOrder, Enough, Insufficient,
         MatchNode, EndMatch, RecordTrade, RecordTradeFails, CancelRemainder, Finish,
         ReportCancel, NotFound, SubmitOrder, CancelOrder, ModifyOrder, ClearReporter, books

\* A call keeps its id; a new one has the next id or the id of a known order.
LEMMA CallIds ==
  ASSUME TypeOK, CallsWellFormed, NEW c \in Client, Step(c) \/ Ask(c)
  PROVE  \A d \in DOMAIN call' :
           \/ d \in DOMAIN call /\ call'[d].order.id = call[d].order.id
           \/ SubmitOrder(c) /\ call'[d].order.id = nextID
           \/ \E i \in DOMAIN orders : call'[d].order.id = orders[i].id
<1>1. CASE Returning(c)
  BY <1>1, ReturningCalls DEF OthersKept
<1>2. CASE \/ Admit(c) \/ RegisterOrder(c) \/ Enough(c) \/ EndMatch(c)
           \/ RecordTrade(c) \/ Unbook(c)
  BY <1>2, MovingCalls DEF OthersKept, Moves
<1>3. CASE MatchNode(c)
  BY <1>3, MatchNodeCalls DEF OthersKept
<1>4. CASE RemoveResting(c) \/ UpdateResting(c)
  BY <1>4, SettleCalls DEF OthersKept
<1>5. CASE Replace(c)
  BY <1>5, ReplaceCalls DEF OthersKept
<1>6. CASE Close(c) \/ ClearReporter(c)
  BY <1>6, CloseCalls
<1>7. CASE SubmitOrder(c)
  BY <1>7, SubmitOrderCalls DEF OthersKept
<1>8. CASE CancelOrder(c) \/ ModifyOrder(c)
  BY <1>8, NamingCalls DEF OthersKept
<1> QED
  BY <1>1, <1>2, <1>3, <1>4, <1>5, <1>6, <1>7, <1>8 DEF Step, Ask, Lookup, Returning

\* No step but SubmitOrder and Replace gives an order to a call to submit.
LEMMA SubmittingKept ==
  ASSUME TypeOK, CallsWellFormed, NEW c \in Client, Step(c) \/ Ask(c),
         ~SubmitOrder(c), ~Replace(c)
  PROVE  \A d \in Client : Submitting(d)' =>
           Submitting(d) /\ call'[d].order.id = call[d].order.id
<1>1. CASE Returning(c)
  BY <1>1, ReturningCalls DEF OthersKept, Submitting
<1>2. CASE Admit(c) \/ RegisterOrder(c) \/ Enough(c) \/ EndMatch(c) \/ RecordTrade(c)
  <2>1. Submitting(c)
    BY <1>2 DEF Admit, RegisterOrder, Enough, EndMatch, RecordTrade, Recording, At, Submitting
  <2>2. OthersKept(c) /\ call'[c].order = call[c].order
    BY <1>2, MovingCalls DEF Moves
  <2> QED
    BY <2>1, <2>2 DEF OthersKept, Submitting
<1>3. CASE Unbook(c)
  BY <1>3, MovingCalls DEF OthersKept, Moves, Submitting
<1>4. CASE MatchNode(c)
  BY <1>4, MatchNodeCalls DEF OthersKept, Submitting
<1>5. CASE RemoveResting(c) \/ UpdateResting(c)
  BY <1>5, SettleCalls DEF OthersKept, Submitting
<1>6. CASE Close(c) \/ ClearReporter(c)
  BY <1>6, CloseCalls DEF Submitting
<1>7. CASE CancelOrder(c) \/ ModifyOrder(c)
  BY <1>7, NamingCalls DEF OthersKept, Submitting
<1> QED
  BY <1>1, <1>2, <1>3, <1>4, <1>5, <1>6, <1>7 DEF Step, Ask, Lookup, Returning

-----------------------------------------------------------------------------
(* Ids.                                                                    *)

\* Ids stay allocated in sequence.
LEMMA IdsStep ==
  ASSUME TypeOK, CallsWellFormed, IdsAllocated, NEW c \in Client, Step(c) \/ Ask(c)
  PROVE  IdsAllocated'
<1>1. /\ nextID \in Int /\ nextID' \in {nextID, nextID + 1}
      /\ SubmitOrder(c) => nextID' = nextID + 1
  <2>1. nextID \in Int
    BY DEF TypeOK, EngineTypeOK, Positive
  <2>2. nextID' = nextID \/ nextID' = nextID + 1
    BY DEF Step, Ask, Lookup, TurnAway, Refuse, Admit, RegisterOrder, Enough, Insufficient,
           MatchNode, EndMatch, RecordTrade, RecordTradeFails, RemoveResting, UpdateResting,
           AddOrder, CancelRemainder, Finish, ReportCancel, NotFound, Unbook, Replace,
           SubmitOrder, CancelOrder, ModifyOrder, Close, ClearReporter
  <2>3. SubmitOrder(c) => nextID' = nextID + 1
    BY DEF SubmitOrder
  <2> QED
    BY <2>1, <2>2, <2>3
<1>2. /\ \A i \in DOMAIN orders : i \in Int /\ orders[i].id = i /\ i < nextID
      /\ \A d \in DOMAIN call : call[d].order.id \in Int /\ call[d].order.id < nextID
  BY DEF IdsAllocated, TypeOK, OrdersTypeOK, CallsTypeOK, Call, Order, OrderId, Positive
<1>3. \A d \in DOMAIN call' : call'[d].order.id < nextID'
  BY <1>1, <1>2, CallIds
<1>4. \A i \in DOMAIN orders' : orders'[i].id = i /\ i < nextID'
  <2>1. CASE ~RegisterOrder(c)
    BY <1>1, <1>2, <2>1, OrdersKept
  <2>2. CASE RegisterOrder(c)
    <3> DEFINE o == call[c].order
    <3>1. /\ c \in DOMAIN call /\ DOMAIN orders' = DOMAIN orders \cup {o.id}
          /\ orders'[o.id] = o
          /\ \A i \in DOMAIN orders \ {o.id} : orders'[i] = orders[i]
      BY <2>2, RegisterOrderTypes
    <3>2. o.id \in Int /\ o.id < nextID
      BY <1>2, <3>1
    <3> HIDE DEF o
    <3> QED
      BY <1>1, <1>2, <3>1, <3>2
  <2> QED
    BY <2>1, <2>2
<1> QED
  BY <1>3, <1>4 DEF IdsAllocated

-----------------------------------------------------------------------------
(* Places.                                                                 *)

\* Nothing new in a book or with a submitting call: places stay unique.
LEMMA PlacesKept ==
  ASSUME OnePlacePerOrder,
         \A s \in Symbol : DOMAIN book'[s] \subseteq DOMAIN book[s],
         \A d \in Client : Submitting(d)' =>
           Submitting(d) /\ call'[d].order.id = call[d].order.id
  PROVE  OnePlacePerOrder'
BY DEF OnePlacePerOrder

\* A new order has an id that neither a book nor a call knows.
LEMMA PlacesSubmitOrder ==
  ASSUME TypeOK, IdsAllocated, OnePlacePerOrder, NEW c \in Client, SubmitOrder(c)
  PROVE  OnePlacePerOrder'
<1>1. /\ call'[c].order.id = nextID /\ OthersKept(c)
      /\ DOMAIN call' = DOMAIN call \cup {c} /\ c \notin DOMAIN call
  BY SubmitOrderCalls
<1>2. book' = book
  BY DEF SubmitOrder, books
<1>3. \A s \in Symbol : nextID \notin DOMAIN book[s]
  BY DEF TypeOK, BooksTypeOK, EngineTypeOK, Positive, IdsAllocated
<1>4. \A d \in Client : Submitting(d) => call[d].order.id # nextID
  BY DEF Submitting, IdsAllocated, TypeOK, EngineTypeOK, Positive
<1>5. \A d \in Client \ {c} :
        Submitting(d)' => Submitting(d) /\ call'[d].order.id = call[d].order.id
  BY <1>1 DEF OthersKept, Submitting
<1> QED
  BY <1>1, <1>2, <1>3, <1>4, <1>5 DEF OnePlacePerOrder

\* ModifyOrder takes the order out of its only book and into its own hands.
LEMMA PlacesReplace ==
  ASSUME TypeOK, OnePlacePerOrder, NEW c \in Client, Replace(c)
  PROVE  OnePlacePerOrder'
<1> DEFINE i == call[c].order.id
           s == call[c].order.symbol
<1>1. call'[c].order.id = i /\ OthersKept(c)
  BY ReplaceCalls
<1>2. s \in Symbol /\ i \in DOMAIN book[s]
  BY DEF Replace, At, TypeOK, CallsTypeOK, Call, Order
<1>3. \A t \in Symbol : DOMAIN book'[t] = IF t = s THEN DOMAIN book[t] \ {i} ELSE DOMAIN book[t]
  BY <1>2, WithoutTypes DEF Replace
<1>4. \A t \in Symbol : i \notin DOMAIN book'[t] /\ DOMAIN book'[t] \subseteq DOMAIN book[t]
  <2>1. \A t \in Symbol : t # s => i \notin DOMAIN book[t]
    BY <1>2 DEF OnePlacePerOrder
  <2> QED
    BY <1>3, <2>1
<1>5. \A d \in Client \ {c} :
        Submitting(d)' => Submitting(d) /\ call'[d].order.id = call[d].order.id
  BY <1>1 DEF OthersKept, Submitting
<1>6. \A d \in Client \ {c} : Submitting(d) => call[d].order.id # i
  BY <1>2 DEF OnePlacePerOrder
<1> HIDE DEF i, s
<1> QED
  BY <1>1, <1>4, <1>5, <1>6 DEF OnePlacePerOrder

\* AddOrder hands an order that is nowhere else over to a book and returns.
LEMMA PlacesAddOrder ==
  ASSUME TypeOK, CallsWellFormed, OnePlacePerOrder, NEW c \in Client, AddOrder(c)
  PROVE  OnePlacePerOrder'
<1> DEFINE i == call[c].order.id
           s == call[c].order.symbol
<1>1. c \in DOMAIN call /\ DOMAIN call' = DOMAIN call \ {c} /\ OthersKept(c)
  BY ReturningCalls DEF Returning
<1>2. Submitting(c)
  BY DEF AddOrder, Recorded, At, Submitting
<1>3. /\ s \in Symbol
      /\ \A t \in Symbol : DOMAIN book'[t] = IF t = s THEN DOMAIN book[t] \cup {i} ELSE DOMAIN book[t]
  BY AddOrderBooks
<1>4. /\ \A t \in Symbol : i \notin DOMAIN book[t]
      /\ \A d \in Client \ {c} : Submitting(d) => call[d].order.id # i
  BY <1>2 DEF OnePlacePerOrder
<1>5. \A d \in Client : Submitting(d)' =>
        d # c /\ Submitting(d) /\ call'[d].order.id = call[d].order.id
  BY <1>1 DEF OthersKept, Submitting
<1> HIDE DEF i, s
<1>6. \A t, u \in Symbol : t # u => DOMAIN book'[t] \cap DOMAIN book'[u] = {}
  <2> SUFFICES ASSUME NEW t \in Symbol, NEW u \in Symbol, t # u,
                      NEW x \in DOMAIN book'[t], x \in DOMAIN book'[u]
               PROVE  FALSE
    OBVIOUS
  <2>1. DOMAIN book[t] \cap DOMAIN book[u] = {}
    BY DEF OnePlacePerOrder
  <2> QED
    BY <1>3, <1>4, <2>1
<1>7. ASSUME NEW d \in Client, Submitting(d)'
      PROVE  /\ \A t \in Symbol : call'[d].order.id \notin DOMAIN book'[t]
             /\ \A e \in Client \ {d} : Submitting(e)' => call'[e].order.id # call'[d].order.id
  <2>1. d # c /\ Submitting(d) /\ call'[d].order.id = call[d].order.id
    BY <1>5, <1>7
  <2>2. call[d].order.id # i /\ \A t \in Symbol : call[d].order.id \notin DOMAIN book[t]
    BY <1>4, <2>1 DEF OnePlacePerOrder
  <2>3. \A t \in Symbol : call'[d].order.id \notin DOMAIN book'[t]
    BY <1>3, <2>1, <2>2
  <2>4. \A e \in Client \ {d} : Submitting(e)' => call'[e].order.id # call'[d].order.id
    BY <1>5, <2>1 DEF OnePlacePerOrder
  <2> QED
    BY <2>3, <2>4
<1> QED
  BY <1>6, <1>7 DEF OnePlacePerOrder

\* What the theorem needs besides types: ids, to know a new order from the rest.
PlacesInv == TypeOK /\ CallsWellFormed /\ IdsAllocated /\ OnePlacePerOrder

LEMMA PlacesInit == Init => PlacesInv
<1> SUFFICES ASSUME Init PROVE PlacesInv
  OBVIOUS
<1>1. TypeOK /\ CallsWellFormed
  BY TypesInit
<1>2. /\ DOMAIN call = {} /\ DOMAIN orders = {} /\ \A s \in Symbol : DOMAIN book[s] = {}
  BY DEF Init, EmptyBook
<1>3. IdsAllocated
  BY <1>2 DEF IdsAllocated
<1>4. OnePlacePerOrder
  BY <1>2 DEF OnePlacePerOrder, Submitting
<1> QED
  BY <1>1, <1>3, <1>4 DEF PlacesInv

LEMMA PlacesStep == PlacesInv /\ [Next]_vars => PlacesInv'
<1> SUFFICES ASSUME PlacesInv, [Next]_vars PROVE PlacesInv'
  OBVIOUS
<1> USE DEF PlacesInv
<1>1. TypeOK' /\ CallsWellFormed'
  BY TypesStep
<1>2. ASSUME NEW c \in Client, Step(c) \/ Ask(c)
      PROVE  IdsAllocated' /\ OnePlacePerOrder'
  <2>1. IdsAllocated'
    BY <1>2, IdsStep
  <2>2. CASE SubmitOrder(c) \/ Replace(c) \/ AddOrder(c)
    BY <2>1, <2>2, PlacesSubmitOrder, PlacesReplace, PlacesAddOrder
  <2>3. CASE ~(SubmitOrder(c) \/ Replace(c) \/ AddOrder(c))
    BY <1>2, <2>1, <2>3, BooksShrink, SubmittingKept, PlacesKept
  <2> QED
    BY <2>2, <2>3
<1>3. CASE UNCHANGED vars
  BY <1>1, <1>3 DEF vars, IdsAllocated, OnePlacePerOrder, Submitting
<1> QED
  BY <1>1, <1>2, <1>3 DEF Next

\* However calls of any number of clients race, no order is in two books, in a
\* book while a call submits it, or submitted by two calls.
THEOREM OrdersInOnePlace == Spec => []OnePlacePerOrder
<1>1. PlacesInv => OnePlacePerOrder
  BY DEF PlacesInv
<1> QED
  BY <1>1, PlacesInit, PlacesStep, PTL DEF Spec

-----------------------------------------------------------------------------
(* What a step does to the reporter.                                       *)

\* A trade changes the tracked quantities of the orders in ids alone.
LEMMA BookTradeEffect ==
  ASSUME TypeOK, NEW ids, NEW q \in Nat, BookTrade(ids, q)
  PROVE  /\ DOMAIN tracked' = DOMAIN tracked
         /\ \A i \in DOMAIN tracked :
              IF i \in ids THEN /\ tracked'[i].filled = tracked[i].filled + q
                                /\ tracked'[i].rem = tracked[i].rem - q
                           ELSE tracked'[i] = tracked[i]
<1>1. \A i \in DOMAIN tracked : tracked[i] \in Tracked
  BY DEF TypeOK, ReporterTypeOK
<1>2. tracked' = [i \in DOMAIN tracked |->
                    IF i \in ids THEN ApplyTrade(tracked[i], q) ELSE tracked[i]]
  BY DEF BookTrade
<1> QED
  BY <1>1, <1>2, ApplyTradeType

\* A trade is booked on the order of the call and the order it trades with.
LEMMA RecordingEffect ==
  ASSUME TypeOK, CallsWellFormed, NEW c \in Client, RecordTrade(c) \/ RecordTradeFails(c)
  PROVE  /\ c \in DOMAIN call /\ call[c].pc = "record"
         /\ call[c].next \in DOMAIN call[c].fills
         /\ Current(c) \in Fill /\ Current(c) = call[c].fills[call[c].next]
         /\ \E ids \in SUBSET {call[c].order.id, Current(c).rest} :
              /\ BookTrade(ids, Current(c).qty)
              /\ RecordTrade(c) => ids = {call[c].order.id, Current(c).rest}
<1>1. Recording(c) /\ call[c].pc = "record"
  BY DEF RecordTrade, RecordTradeFails, Recording, At
<1>2. /\ c \in DOMAIN call /\ call[c] \in Call
      /\ call[c].next \in 1 .. Len(call[c].fills) /\ Current(c) \in Fill
  BY <1>1, CurrentFill
<1>3. call[c].fills \in Seq(Fill)
  BY <1>2 DEF Call
<1>4. RecordTrade(c) => BookTrade({call[c].order.id, Current(c).rest}, Current(c).qty)
  BY DEF RecordTrade
<1>5. RecordTradeFails(c) /\ ~RecordTrade(c) =>
        /\ BuyId(call[c].order, Current(c)) \in {call[c].order.id, Current(c).rest}
        /\ BookTrade({BuyId(call[c].order, Current(c))}, Current(c).qty)
  BY DEF RecordTradeFails, BuyId
<1>6. call[c].next \in DOMAIN call[c].fills
  BY <1>2, <1>3
<1>7. Current(c) = call[c].fills[call[c].next]
  BY DEF Current
<1> QED
  BY <1>1, <1>2, <1>4, <1>5, <1>6, <1>7

\* The other steps change no tracked quantity.
LEMMA TrackedKept ==
  ASSUME TypeOK, NEW c \in Client, Step(c) \/ Ask(c), ~RegisterOrder(c),
         ~RecordTrade(c), ~RecordTradeFails(c), ~CancelRemainder(c), ~ClearReporter(c)
  PROVE  /\ DOMAIN tracked' = DOMAIN tracked
         /\ \A i \in DOMAIN tracked : /\ tracked'[i].filled = tracked[i].filled
                                      /\ tracked'[i].rem = tracked[i].rem
<1>1. CASE UNCHANGED tracked
  BY <1>1
<1>2. CASE Refuse(c) \/ Insufficient(c) \/ ReportCancel(c)
  <2>1. \A i \in DOMAIN tracked : tracked[i] \in Tracked
    BY DEF TypeOK, ReporterTypeOK
  <2>2. \E i, status : SetStatus(i, status)
    BY <1>2 DEF Refuse, Insufficient, ReportCancel
  <2> QED
    BY <2>1, <2>2 DEF SetStatus, Tracked
<1> QED
  BY <1>1, <1>2
     DEF Step, Ask, Lookup, TurnAway, Admit, Enough, MatchNode, EndMatch, RemoveResting,
         UpdateResting, AddOrder, Finish, NotFound, Unbook, Replace, SubmitOrder,
         CancelOrder, ModifyOrder, Close, reporter

\* Only EndMatch cancels, apart from RegisterOrder, which takes a new struct.
LEMMA CanceledKept ==
  ASSUME TypeOK, CallsWellFormed, NEW c \in Client, Step(c) \/ Ask(c),
         ~RegisterOrder(c), ~EndMatch(c)
  PROVE  \A i \in DOMAIN orders : orders'[i].canceled = orders[i].canceled
<1>1. orders \in [DOMAIN orders -> Order]
  BY DEF TypeOK, OrdersTypeOK
<1>2. CASE UNCHANGED orders
  BY <1>2
<1>3. CASE RecordTrade(c) \/ RecordTradeFails(c)
  <2>1. Current(c) \in Fill /\ \E ids : BookTrade(ids, Current(c).qty)
    BY <1>3, RecordingEffect
  <2>2. Current(c).qty \in Nat
    BY <2>1 DEF Fill, Positive
  <2> QED
    BY <2>1, <2>2, BookTradeTypes
<1>4. CASE MatchNode(c)
  BY <1>4, MatchNodeOrders
<1>5. CASE CancelRemainder(c)
  <2> DEFINE j == call[c].order.id
  <2>1. orders' = orders \/ orders' = [orders EXCEPT ![j].left = 0]
    BY <1>5 DEF CancelRemainder
  <2> HIDE DEF j
  <2>2. \A i \in DOMAIN orders : [orders[i] EXCEPT !.left = 0].canceled = orders[i].canceled
    BY <1>1 DEF Order
  <2> QED
    BY <1>1, <2>1, <2>2
<1> QED
  BY <1>2, <1>3, <1>4, <1>5
     DEF Step, Ask, Lookup, TurnAway, Refuse, Admit, Enough, Insufficient, RemoveResting,
         UpdateResting, AddOrder, Finish, ReportCancel, NotFound, Unbook, Replace,
         SubmitOrder, CancelOrder, ModifyOrder, Close, ClearReporter

-----------------------------------------------------------------------------
(* The trades of a call add up to what it has traded.                      *)

LEMMA ChainedOthers ==
  ASSUME FillsChained, NEW c, OthersKept(c)
  PROVE  \A d \in DOMAIN call' \ {c} : Chained(call[d])'
BY DEF FillsChained, OthersKept, Chained, Remaining

LEMMA ChainedMatchNode ==
  ASSUME TypeOK, FillsChained, NEW c \in Client, MatchNode(c)
  PROVE  Chained(call[c])'
<1> DEFINE m == call[c]
           n == call'[c]
<1>1. /\ c \in DOMAIN call /\ m.pc = "match" /\ n.pc = "match"
      /\ n.order = m.order /\ n.next = m.next
  BY MatchNodeCalls
<1>2. PICK f \in Fill : /\ f.left + f.qty = m.rem
                        /\ n.fills = Append(m.fills, f) /\ n.rem = f.left
  BY MatchNodeCalls
<1>3. m.fills \in Seq(Fill)
  BY <1>1 DEF TypeOK, CallsTypeOK, Call
<1>4. /\ m.next = 1 /\ m.next <= Len(m.fills) + 1
      /\ \A k \in DOMAIN m.fills : m.fills[k].left + m.fills[k].qty = Remaining(m, k - 1)
      /\ m.rem = Remaining(m, Len(m.fills))
  BY <1>1 DEF FillsChained, Chained, Working, Registered
<1> HIDE DEF m, n
<1>5. /\ Len(m.fills) \in Nat /\ DOMAIN m.fills = 1 .. Len(m.fills)
      /\ Len(n.fills) = Len(m.fills) + 1 /\ DOMAIN n.fills = 1 .. Len(m.fills) + 1
      /\ \A k \in DOMAIN m.fills : n.fills[k] = m.fills[k]
      /\ n.fills[Len(m.fills) + 1] = f
  BY <1>2, <1>3
<1>6. \A k \in 0 .. Len(m.fills) : Remaining(n, k) = Remaining(m, k)
  BY <1>1, <1>5 DEF Remaining
<1>7. \A k \in DOMAIN n.fills : n.fills[k].left + n.fills[k].qty = Remaining(n, k - 1)
  <2> SUFFICES ASSUME NEW k \in 1 .. Len(m.fills) + 1
               PROVE  n.fills[k].left + n.fills[k].qty = Remaining(n, k - 1)
    BY <1>5
  <2>1. Remaining(n, k - 1) = Remaining(m, k - 1)
    BY <1>5, <1>6
  <2>2. CASE k \in DOMAIN m.fills
    BY <1>4, <1>5, <2>1, <2>2
  <2>3. CASE k = Len(m.fills) + 1
    BY <1>2, <1>4, <1>5, <2>1, <2>3
  <2> QED
    BY <1>5, <2>2, <2>3
<1>8. n.rem = Remaining(n, Len(n.fills))
  BY <1>2, <1>5 DEF Remaining
<1>9. n.next = 1 /\ n.next <= Len(n.fills) + 1
  BY <1>1, <1>4, <1>5
<1> QED
  BY <1>1, <1>7, <1>8, <1>9 DEF Chained, m, n

LEMMA ChainedStep ==
  ASSUME TypeOK, CallsWellFormed, FillsChained, NEW c \in Client, Step(c) \/ Ask(c)
  PROVE  FillsChained'
<1>1. CASE Returning(c)
  BY <1>1, ReturningCalls, ChainedOthers DEF FillsChained
<1>2. CASE Admit(c) \/ RegisterOrder(c) \/ Enough(c) \/ EndMatch(c)
  <2>1. /\ call[c].pc \in {"submit", "register", "liquidity", "match"}
        /\ c \in DOMAIN call
    BY <1>2 DEF Admit, RegisterOrder, Enough, EndMatch, At
  <2>2. Chained(call[c])
    BY <2>1 DEF FillsChained
  <2>3. OthersKept(c) /\ call'[c].order = call[c].order /\ call'[c].rem = call[c].rem
        /\ call'[c].fills = call[c].fills /\ call'[c].next = call[c].next
    BY <1>2, MovingCalls DEF Moves
  <2>4. /\ call'[c].pc \in {"register", "liquidity", "match", "record"}
        /\ call'[c].pc \in {"register", "liquidity"} => call[c].pc \in {"submit", "register"}
    <3>1. CASE Admit(c)
      BY <3>1, MovingCalls DEF Moves, Admit, At
    <3>2. CASE RegisterOrder(c)
      BY <3>2, MovingCalls DEF Moves, RegisterOrder, At
    <3>3. CASE Enough(c)
      BY <3>3, MovingCalls DEF Moves
    <3>4. CASE EndMatch(c)
      BY <3>4, MovingCalls DEF Moves
    <3> QED
      BY <1>2, <3>1, <3>2, <3>3, <3>4
  <2>5. Chained(call[c])'
    BY <2>1, <2>2, <2>3, <2>4 DEF Chained, Remaining, Working, Registered
  <2> QED
    BY <2>3, <2>5, ChainedOthers DEF FillsChained
<1>3. CASE RecordTrade(c) \/ Unbook(c)
  <2>1. /\ c \in DOMAIN call
        /\ RecordTrade(c) => call[c].pc = "record"
    BY <1>3 DEF RecordTrade, Unbook, Recording, At
  <2>2. Chained(call[c])
    BY <2>1 DEF FillsChained
  <2>3. OthersKept(c) /\ call'[c].order = call[c].order /\ call'[c].rem = call[c].rem
        /\ call'[c].fills = call[c].fills /\ call'[c].next = call[c].next
    BY <1>3, MovingCalls DEF Moves
  <2>4. \/ RecordTrade(c) /\ call'[c].pc \in {"remove", "update"}
        \/ call'[c].pc = "cancel"
    BY <1>3, MovingCalls DEF Moves
  <2>5. Chained(call[c])'
    BY <2>1, <2>2, <2>3, <2>4 DEF Chained, Remaining, Working, Registered
  <2> QED
    BY <2>3, <2>5, ChainedOthers DEF FillsChained
<1>4. CASE MatchNode(c)
  BY <1>4, MatchNodeCalls, ChainedMatchNode, ChainedOthers DEF FillsChained
<1>5. CASE RemoveResting(c) \/ UpdateResting(c)
  <2>1. /\ c \in DOMAIN call /\ OthersKept(c)
        /\ call[c].pc \in {"remove", "update"} /\ call'[c].pc = "record"
        /\ call'[c].order = call[c].order /\ call'[c].rem = call[c].rem
        /\ call'[c].fills = call[c].fills /\ call'[c].next = call[c].next + 1
    BY <1>5, SettleCalls
  <2>2. Chained(call[c]) /\ call[c].next <= Len(call[c].fills)
    BY <2>1 DEF FillsChained, CallsWellFormed, WellFormed
  <2>3. call[c].next \in Int /\ Len(call[c].fills) \in Int
    BY <2>1 DEF TypeOK, CallsTypeOK, Call, Positive
  <2>4. Chained(call[c])'
    BY <2>1, <2>2, <2>3 DEF Chained, Remaining, Working, Registered
  <2> QED
    BY <2>1, <2>4, ChainedOthers DEF FillsChained
<1>6. CASE SubmitOrder(c) \/ CancelOrder(c) \/ ModifyOrder(c)
  <2>1. /\ OthersKept(c) /\ call'[c].fills = <<>> /\ call'[c].next = 1
        /\ \/ call'[c].pc = "submit" /\ call'[c].rem = call'[c].order.qty
           \/ call'[c].pc \in {"unbook", "replace"}
    BY <1>6, SubmitOrderCalls, NamingCalls
  <2>2. Chained(call[c])'
    BY <2>1 DEF Chained, Remaining, Working, Registered
  <2> QED
    BY <2>1, <2>2, ChainedOthers DEF FillsChained
<1>7. CASE Replace(c)
  <2>1. /\ OthersKept(c) /\ c \in DOMAIN call
        /\ call'[c].pc = "submit" /\ call'[c].rem = call'[c].order.qty
        /\ call'[c].fills = call[c].fills /\ call'[c].next = call[c].next
    BY <1>7, ReplaceCalls
  <2>2. call[c].fills = <<>> /\ call[c].next = 1
    BY <1>7, <2>1 DEF FillsChained, Chained, Replace, At
  <2>3. Chained(call[c])'
    BY <2>1, <2>2 DEF Chained, Remaining, Working, Registered
  <2> QED
    BY <2>1, <2>3, ChainedOthers DEF FillsChained
<1>8. CASE Close(c) \/ ClearReporter(c)
  BY <1>8, CloseCalls DEF FillsChained, Chained, Remaining
<1> QED
  BY <1>1, <1>2, <1>3, <1>4, <1>5, <1>6, <1>7, <1>8 DEF Step, Ask, Lookup, Returning

-----------------------------------------------------------------------------
(* The structs the reporter holds are those the calls work on.             *)

\* Orders keep type and quantity: what another call knew of them stays true.
LEMMA AccordOthers ==
  ASSUME OrdersMatchCalls, NEW c, OthersKept(c),
         DOMAIN orders' = DOMAIN orders,
         \A i \in DOMAIN orders : /\ orders'[i].type = orders[i].type
                                  /\ orders'[i].qty = orders[i].qty,
         CallsWellFormed
  PROVE  \A d \in DOMAIN call' \ {c} : InAccord(call[d])'
<1> SUFFICES ASSUME NEW d \in DOMAIN call' \ {c}
             PROVE  InAccord(call[d])'
  OBVIOUS
<1>1. /\ d \in DOMAIN call
      /\ call'[d].pc = call[d].pc /\ call'[d].order = call[d].order
      /\ call'[d].fills = call[d].fills
  BY DEF OthersKept
<1>2. InAccord(call[d]) /\ (call[d].pc \in Registered => call[d].order.id \in DOMAIN orders)
  BY <1>1 DEF OrdersMatchCalls, CallsWellFormed, WellFormed
<1> QED
  BY <1>1, <1>2 DEF InAccord

\* A call that goes on, or begins, without new trades.
LEMMA AccordMoves ==
  ASSUME OrdersMatchCalls, CallsWellFormed, NEW c \in DOMAIN call,
         DOMAIN orders' = DOMAIN orders,
         \A i \in DOMAIN orders : /\ orders'[i].type = orders[i].type
                                  /\ orders'[i].qty = orders[i].qty,
         call'[c].order = call[c].order, call'[c].fills = call[c].fills,
         \/ call[c].pc \in Registered /\ call'[c].pc \in Registered
         \/ call[c].pc \in {"submit", "register"} /\ call'[c].pc \notin Registered
         \/ call'[c].pc \notin {"submit"} \cup Working
  PROVE  InAccord(call[c])'
<1>1. /\ InAccord(call[c])
      /\ call[c].pc \in Registered => call[c].order.id \in DOMAIN orders
  BY DEF OrdersMatchCalls, CallsWellFormed, WellFormed
<1> QED
  BY <1>1 DEF InAccord, Working, Registered

\* A trade with an order of the book is one with an order of a resting type.
LEMMA AccordMatchNode ==
  ASSUME TypeOK, CallsWellFormed, OrdersMatchCalls, NEW c \in Client, MatchNode(c)
  PROVE  InAccord(call[c])'
<1> DEFINE m == call[c]
           n == call'[c]
<1>1. /\ c \in DOMAIN call /\ m.pc = "match" /\ n.pc = "match" /\ n.order = m.order
  BY MatchNodeCalls
<1>2. PICK f \in Fill : f.rest \in DOMAIN book[m.order.symbol] /\ n.fills = Append(m.fills, f)
  BY MatchNodeCalls
<1>3. m.fills \in Seq(Fill) /\ m.order.symbol \in Symbol
  BY <1>1 DEF TypeOK, CallsTypeOK, Call, Order
<1>4. InAccord(m) /\ m.order.id \in DOMAIN orders
  BY <1>1 DEF OrdersMatchCalls, CallsWellFormed, WellFormed, Registered
<1>5. f.rest \in DOMAIN orders /\ orders[f.rest].type \in RestingType
  BY <1>2, <1>3 DEF OrdersMatchCalls, TypeOK, BooksTypeOK
<1>6. /\ DOMAIN orders' = DOMAIN orders
      /\ \A i \in DOMAIN orders : /\ orders'[i].type = orders[i].type
                                   /\ orders'[i].qty = orders[i].qty
  BY MatchNodeOrders
<1>7. \A k \in DOMAIN m.fills : /\ m.fills[k].rest \in DOMAIN orders
                                 /\ orders[m.fills[k].rest].type \in RestingType
  BY <1>4 DEF InAccord
<1>8. orders[m.order.id].type = m.order.type /\ orders[m.order.id].qty = m.order.qty
  BY <1>1, <1>4 DEF InAccord, Registered
<1> HIDE DEF m, n
<1>9. \A k \in DOMAIN n.fills : \/ k \in DOMAIN m.fills /\ n.fills[k] = m.fills[k]
                               \/ n.fills[k] = f
  BY <1>2, <1>3
<1>10. \A k \in DOMAIN n.fills : /\ n.fills[k].rest \in DOMAIN orders
                                  /\ orders[n.fills[k].rest].type \in RestingType
  BY <1>5, <1>7, <1>9
<1> QED
  BY <1>1, <1>4, <1>6, <1>8, <1>10 DEF InAccord, m, n

\* A registered order is with no book and no other submitting call, so that the
\* new struct contradicts nothing that is known of the order.
LEMMA AccordRegister ==
  ASSUME TypeOK, CallsWellFormed, IdsAllocated, OnePlacePerOrder, OrdersMatchCalls,
         NEW c \in Client, RegisterOrder(c)
  PROVE  OrdersMatchCalls'
<1> DEFINE o == call[c].order
<1>1. /\ c \in DOMAIN call /\ call[c].pc = "register"
      /\ DOMAIN orders' = DOMAIN orders \cup {o.id} /\ orders'[o.id] = o
      /\ \A i \in DOMAIN orders \ {o.id} : orders'[i] = orders[i]
  BY RegisterOrderTypes
<1>2. /\ OthersKept(c) /\ DOMAIN call' = DOMAIN call
      /\ call'[c].order = o /\ call'[c].fills = call[c].fills
      /\ call'[c].pc \in Registered
  BY MovingCalls DEF Moves, Registered
<1>3. Submitting(c)
  BY <1>1 DEF Submitting
<1>4. /\ \A s \in Symbol : o.id \notin DOMAIN book[s]
      /\ \A d \in Client \ {c} : Submitting(d) => call[d].order.id # o.id
  BY <1>3 DEF OnePlacePerOrder
<1>5. o.id \in DOMAIN orders => o.type \in RestingType
  BY <1>1 DEF OrdersMatchCalls, InAccord
<1> HIDE DEF o
<1>6. book' = book
  BY DEF RegisterOrder, books
<1>7. \A s \in Symbol : \A i \in DOMAIN book'[s] : orders'[i].type \in RestingType
  BY <1>1, <1>4, <1>6 DEF OrdersMatchCalls, TypeOK, BooksTypeOK
<1>8. \A i \in DOMAIN orders :
        orders[i].type \in RestingType => i \in DOMAIN orders' /\ orders'[i].type \in RestingType
  BY <1>1, <1>5
<1>9. InAccord(call[c])'
  <2>1. InAccord(call[c])
    BY <1>1 DEF OrdersMatchCalls
  <2> QED
    BY <1>1, <1>2, <1>8, <2>1 DEF InAccord, Registered
<1>10. ASSUME NEW d \in DOMAIN call' \ {c}
       PROVE  InAccord(call[d])'
  <2>1. /\ d \in DOMAIN call /\ d \in Client
        /\ call'[d].pc = call[d].pc /\ call'[d].order = call[d].order
        /\ call'[d].fills = call[d].fills
    BY <1>2 DEF OthersKept, TypeOK, CallsTypeOK
  <2>2. InAccord(call[d]) /\ (call[d].pc \in Registered => call[d].order.id \in DOMAIN orders)
    BY <2>1 DEF OrdersMatchCalls, CallsWellFormed, WellFormed
  <2>3. call[d].pc \in {"submit", "register"} \cup Registered => call[d].order.id # o.id
    BY <1>4, <2>1 DEF Submitting, Registered
  <2>4. \A k \in DOMAIN call[d].fills :
          /\ call[d].fills[k].rest \in DOMAIN orders'
          /\ orders'[call[d].fills[k].rest].type \in RestingType
    BY <1>8, <2>2 DEF InAccord
  <2> QED
    BY <1>1, <2>1, <2>2, <2>3, <2>4 DEF InAccord
<1> QED
  BY <1>7, <1>9, <1>10 DEF OrdersMatchCalls

LEMMA AccordStep ==
  ASSUME TypeOK, CallsWellFormed, IdsAllocated, OnePlacePerOrder, OrdersMatchCalls,
         NEW c \in Client, Step(c) \/ Ask(c), ~RegisterOrder(c)
  PROVE  OrdersMatchCalls'
<1>1. /\ DOMAIN orders' = DOMAIN orders
      /\ \A i \in DOMAIN orders : /\ orders'[i].type = orders[i].type
                                   /\ orders'[i].qty = orders[i].qty
  BY OrdersKept
<1>2. \A s \in Symbol : \A i \in DOMAIN book[s] :
        i \in DOMAIN orders /\ orders[i].type \in RestingType
  BY DEF OrdersMatchCalls, TypeOK, BooksTypeOK
<1>3. \A s \in Symbol : \A i \in DOMAIN book'[s] : orders'[i].type \in RestingType
  <2>1. CASE ~AddOrder(c)
    BY <1>1, <1>2, <2>1, BooksShrink
  <2>2. CASE AddOrder(c)
    <3> DEFINE o == call[c].order
    <3>1. /\ c \in DOMAIN call /\ call[c].pc = "record" /\ o.type \in RestingType
      BY <2>2 DEF AddOrder, Recorded, At
    <3>2. orders[o.id].type = o.type
      BY <3>1 DEF OrdersMatchCalls, InAccord, Registered
    <3>3. \A s \in Symbol : DOMAIN book'[s] \subseteq DOMAIN book[s] \cup {o.id}
      BY <2>2, AddOrderBooks
    <3>4. o.id \in DOMAIN orders
      BY <2>2, AddOrderBooks
    <3> HIDE DEF o
    <3> QED
      BY <1>1, <1>2, <3>1, <3>2, <3>3, <3>4
  <2> QED
    BY <2>1, <2>2
<1>4. OthersKept(c) => \A d \in DOMAIN call' \ {c} : InAccord(call[d])'
  BY <1>1, AccordOthers
<1>5. CASE Returning(c)
  BY <1>3, <1>4, <1>5, ReturningCalls DEF OrdersMatchCalls
<1>6. CASE Admit(c) \/ Enough(c) \/ EndMatch(c) \/ RecordTrade(c) \/ Unbook(c)
  <2>1. /\ OthersKept(c) /\ c \in DOMAIN call
        /\ call'[c].order = call[c].order /\ call'[c].fills = call[c].fills
    BY <1>6, MovingCalls DEF Moves
  <2>2. \/ call[c].pc \in Registered /\ call'[c].pc \in Registered
        \/ call[c].pc \in {"submit", "register"} /\ call'[c].pc \notin Registered
        \/ call'[c].pc \notin {"submit"} \cup Working
    <3>1. CASE Admit(c)
      BY <3>1, MovingCalls DEF Moves, Admit, At, Registered
    <3>2. CASE Enough(c)
      BY <3>2, MovingCalls DEF Moves, Enough, At, Registered
    <3>3. CASE EndMatch(c)
      BY <3>3, MovingCalls DEF Moves, EndMatch, At, Registered
    <3>4. CASE RecordTrade(c)
      BY <3>4, MovingCalls DEF Moves, RecordTrade, Recording, At, Registered
    <3>5. CASE Unbook(c)
      BY <3>5, MovingCalls DEF Moves, Registered, Working
    <3> QED
      BY <1>6, <3>1, <3>2, <3>3, <3>4, <3>5
  <2>3. InAccord(call[c])'
    BY <1>1, <2>1, <2>2, AccordMoves
  <2> QED
    BY <1>3, <1>4, <2>1, <2>3 DEF OrdersMatchCalls
<1>7. CASE MatchNode(c)
  BY <1>3, <1>4, <1>7, MatchNodeCalls, AccordMatchNode DEF OrdersMatchCalls
<1>8. CASE RemoveResting(c) \/ UpdateResting(c)
  <2>1. /\ c \in DOMAIN call /\ OthersKept(c)
        /\ call[c].pc \in {"remove", "update"} /\ call'[c].pc = "record"
        /\ call'[c].order = call[c].order /\ call'[c].fills = call[c].fills
    BY <1>8, SettleCalls
  <2>2. call[c].pc \in Registered /\ call'[c].pc \in Registered
    BY <2>1 DEF Registered
  <2>3. InAccord(call[c])'
    BY <1>1, <2>1, <2>2, AccordMoves
  <2> QED
    BY <1>3, <1>4, <2>1, <2>3 DEF OrdersMatchCalls
<1>9. CASE SubmitOrder(c)
  <2>1. /\ OthersKept(c) /\ call'[c].pc = "submit" /\ call'[c].order.id = nextID
        /\ call'[c].fills = <<>>
    BY <1>9, SubmitOrderCalls
  <2>2. nextID \notin DOMAIN orders
    BY DEF IdsAllocated, TypeOK, EngineTypeOK, Positive
  <2>3. InAccord(call[c])'
    BY <1>1, <2>1, <2>2 DEF InAccord, Registered
  <2> QED
    BY <1>3, <1>4, <2>1, <2>3 DEF OrdersMatchCalls
<1>10. CASE CancelOrder(c) \/ ModifyOrder(c)
  <2>1. OthersKept(c) /\ call'[c].pc \in {"unbook", "replace"} /\ call'[c].fills = <<>>
    BY <1>10, NamingCalls
  <2>2. InAccord(call[c])'
    BY <2>1 DEF InAccord, Registered
  <2> QED
    BY <1>3, <1>4, <2>1, <2>2 DEF OrdersMatchCalls
<1>11. CASE Replace(c)
  <2>1. /\ OthersKept(c) /\ c \in DOMAIN call /\ call'[c].pc = "submit"
        /\ call'[c].order.type = "limit" /\ call'[c].fills = call[c].fills
    BY <1>11, ReplaceCalls
  <2>2. InAccord(call[c])
    BY <2>1 DEF OrdersMatchCalls
  <2>3. InAccord(call[c])'
    BY <1>1, <2>1, <2>2 DEF InAccord, Registered, RestingType
  <2> QED
    BY <1>3, <1>4, <2>1, <2>3 DEF OrdersMatchCalls
<1>12. CASE Close(c) \/ ClearReporter(c)
  <2>1. /\ DOMAIN call' = DOMAIN call
        /\ \A d \in DOMAIN call : /\ call'[d].pc = call[d].pc /\ call'[d].order = call[d].order
                                   /\ call'[d].fills = call[d].fills
    BY <1>12, CloseCalls
  <2>2. \A d \in DOMAIN call : InAccord(call[d])'
    BY <1>1, <2>1 DEF OrdersMatchCalls, InAccord, CallsWellFormed, WellFormed
  <2> QED
    BY <1>3, <2>1, <2>2 DEF OrdersMatchCalls
<1> QED
  BY <1>5, <1>6, <1>7, <1>8, <1>9, <1>10, <1>11, <1>12 DEF Step, Ask, Lookup, Returning

-----------------------------------------------------------------------------
(* The reporter is as far as the call with a market or IOC order.          *)

\* The step changes neither what is canceled nor what is tracked of order i.
Untouched(i) ==
  /\ orders'[i].canceled = orders[i].canceled
  /\ i \in DOMAIN tracked' => /\ i \in DOMAIN tracked
                              /\ tracked'[i].filled = tracked[i].filled
                              /\ tracked'[i].rem = tracked[i].rem

Vanishing(m) == m.pc \in Registered /\ m.order.type \in {"market", "ioc"}

\* Steps that leave the reporter's numbers alone leave every order alone.
LEMMA QuietSteps ==
  ASSUME TypeOK, CallsWellFormed, NEW c \in Client, Step(c) \/ Ask(c), ~RegisterOrder(c),
         ~RecordTrade(c), ~RecordTradeFails(c), ~CancelRemainder(c), ~EndMatch(c)
  PROVE  \A i \in DOMAIN orders : Untouched(i)
<1>1. \A i \in DOMAIN orders : orders'[i].canceled = orders[i].canceled
  BY CanceledKept
<1>2. CASE ClearReporter(c)
  BY <1>1, <1>2 DEF ClearReporter, EmptyBook, Untouched
<1>3. CASE ~ClearReporter(c)
  BY <1>1, <1>3, TrackedKept DEF Untouched
<1> QED
  BY <1>2, <1>3

\* No step of one client touches the market or IOC order another works on: it
\* is in no book, so nobody trades with it, and nobody else submits it.
LEMMA VanishingUntouched ==
  ASSUME TypeOK, CallsWellFormed, OnePlacePerOrder, OrdersMatchCalls,
         NEW c \in Client, Step(c) \/ Ask(c),
         NEW d \in DOMAIN call \ {c}, Vanishing(call[d])
  PROVE  Untouched(call[d].order.id)
<1> DEFINE i == call[d].order.id
           j == call[c].order.id
<1>1. /\ d \in Client /\ Submitting(d) /\ i \in DOMAIN orders
      /\ orders[i].type \in {"market", "ioc"}
  BY DEF Vanishing, Submitting, Registered, CallsWellFormed, WellFormed, TypeOK,
         CallsTypeOK, OrdersMatchCalls, InAccord
<1>2. Submitting(c) => i # j
  BY <1>1 DEF OnePlacePerOrder
<1>3. CASE RegisterOrder(c)
  <2>1. /\ Submitting(c)
        /\ DOMAIN tracked' = DOMAIN tracked \cup {j}
        /\ \A k \in DOMAIN tracked \ {j} : tracked'[k] = tracked[k]
        /\ \A k \in DOMAIN orders \ {j} : orders'[k] = orders[k]
    BY <1>3, RegisterOrderTypes DEF Submitting
  <2> HIDE DEF i, j
  <2> QED
    BY <1>1, <1>2, <2>1 DEF Untouched, i
<1>4. CASE RecordTrade(c) \/ RecordTradeFails(c)
  <2> DEFINE r == Current(c).rest
  <2>1. /\ c \in DOMAIN call /\ call[c].pc = "record"
        /\ call[c].next \in DOMAIN call[c].fills
        /\ Current(c) \in Fill /\ Current(c) = call[c].fills[call[c].next]
    BY <1>4, RecordingEffect
  <2>2. PICK ids \in SUBSET {j, r} : BookTrade(ids, Current(c).qty)
    BY <1>4, RecordingEffect
  <2>3. Submitting(c)
    BY <2>1 DEF Submitting
  <2>4. orders[r].type \in RestingType
    BY <2>1 DEF OrdersMatchCalls, InAccord
  <2>5. i # j /\ i # r
    BY <1>1, <1>2, <2>3, <2>4 DEF RestingType
  <2>6. Current(c).qty \in Nat
    BY <2>1 DEF Fill, Positive
  <2>7. orders'[i].canceled = orders[i].canceled
    BY <1>1, <2>2, <2>6, BookTradeTypes
  <2> HIDE DEF i, j, r
  <2>8. i \notin ids
    BY <2>2, <2>5
  <2>9. /\ DOMAIN tracked' = DOMAIN tracked
        /\ i \in DOMAIN tracked => tracked'[i] = tracked[i]
    BY <2>2, <2>6, <2>8, BookTradeEffect
  <2> QED
    BY <2>7, <2>9 DEF Untouched, i
<1>5. CASE CancelRemainder(c)
  <2>1. orders'[i].canceled = orders[i].canceled
    BY <1>1, <1>5, CanceledKept DEF CancelRemainder, Recorded, At, EndMatch, RegisterOrder
  <2>2. Submitting(c)
    BY <1>5 DEF CancelRemainder, Recorded, At, Submitting
  <2>3. DOMAIN tracked' = DOMAIN tracked /\ \A k \in DOMAIN tracked \ {j} : tracked'[k] = tracked[k]
    BY <1>5 DEF CancelRemainder
  <2> HIDE DEF i, j
  <2> QED
    BY <1>2, <2>1, <2>2, <2>3 DEF Untouched, i
<1>6. CASE EndMatch(c)
  <2>1. /\ Submitting(c)
        /\ \A k \in DOMAIN orders \ {j} : orders'[k].canceled = orders[k].canceled
    BY <1>6, EndMatchOrders DEF Submitting
  <2>2. UNCHANGED tracked
    BY <1>6 DEF EndMatch, reporter
  <2> HIDE DEF i, j
  <2> QED
    BY <1>1, <1>2, <2>1, <2>2 DEF Untouched, i
<1>7. CASE /\ ~RegisterOrder(c) /\ ~RecordTrade(c) /\ ~RecordTradeFails(c)
           /\ ~CancelRemainder(c) /\ ~EndMatch(c)
  BY <1>1, <1>7, QuietSteps
<1> QED
  BY <1>3, <1>4, <1>5, <1>6, <1>7

\* A call that stands still stays in step with an order that is left alone.
LEMMA InStepStill ==
  ASSUME VanishingOrdersInStep, NEW d \in DOMAIN call,
         Vanishing(call[d]) => Untouched(call[d].order.id),
         call'[d].pc = call[d].pc, call'[d].order = call[d].order,
         call'[d].rem = call[d].rem, call'[d].fills = call[d].fills,
         call'[d].next = call[d].next
  PROVE  InStep(call[d])'
<1>1. InStep(call[d])
  BY DEF VanishingOrdersInStep
<1> QED
  BY <1>1 DEF InStep, Vanishing, Untouched, RecordedFills, Remaining

LEMMA InStepOthers ==
  ASSUME TypeOK, CallsWellFormed, OnePlacePerOrder, OrdersMatchCalls, VanishingOrdersInStep,
         NEW c \in Client, Step(c) \/ Ask(c), OthersKept(c)
  PROVE  \A d \in DOMAIN call' \ {c} : InStep(call[d])'
<1> SUFFICES ASSUME NEW d \in DOMAIN call' \ {c}
             PROVE  InStep(call[d])'
  OBVIOUS
<1>1. /\ d \in DOMAIN call
      /\ call'[d].pc = call[d].pc /\ call'[d].order = call[d].order
      /\ call'[d].rem = call[d].rem /\ call'[d].fills = call[d].fills
      /\ call'[d].next = call[d].next
  BY DEF OthersKept
<1>2. Vanishing(call[d]) => Untouched(call[d].order.id)
  BY <1>1, VanishingUntouched
<1> QED
  BY <1>1, <1>2, InStepStill

\* An order starts with nothing traded and nothing canceled.
LEMMA InStepRegister ==
  ASSUME TypeOK, CallsWellFormed, FillsChained, VanishingOrdersInStep,
         NEW c \in Client, RegisterOrder(c)
  PROVE  InStep(call[c])'
<1> DEFINE o == call[c].order
<1>1. /\ c \in DOMAIN call /\ call[c].pc = "register" /\ o \in Order
      /\ tracked'[o.id] = [status |-> "New", filled |-> 0, rem |-> o.qty]
      /\ orders'[o.id] = o
  BY RegisterOrderTypes
<1>2. /\ call'[c].pc \in {"liquidity", "match"} /\ call'[c].order = o
      /\ call'[c].next = call[c].next
  BY MovingCalls DEF Moves
<1>3. call[c].next = 1
  BY <1>1 DEF FillsChained, Chained
<1>4. o.type \in {"market", "ioc"} => o.canceled = 0
  BY <1>1 DEF VanishingOrdersInStep, InStep
<1>5. o.qty \in Int
  BY <1>1 DEF Order
<1>6. RecordedFills(call'[c]) = 0
  BY <1>2, <1>3 DEF RecordedFills
<1>7. Remaining(call'[c], RecordedFills(call'[c])) = o.qty
  BY <1>2, <1>6 DEF Remaining
<1>8. tracked'[o.id].rem = o.qty /\ tracked'[o.id].filled + tracked'[o.id].rem = o.qty
  BY <1>1, <1>5
<1> HIDE DEF o
<1> QED
  BY <1>1, <1>2, <1>4, <1>7, <1>8 DEF InStep, Registered

\* What Match leaves of a call's order is never negative.
LEMMA RemNatural ==
  ASSUME TypeOK, CallsWellFormed, FillsChained, NEW c \in DOMAIN call, call[c].pc \in Working
  PROVE  call[c].rem \in Nat
<1> DEFINE m == call[c]
<1>1. m \in Call /\ m.fills \in Seq(Fill) /\ m.order \in Order
  BY DEF TypeOK, CallsTypeOK, Call
<1>2. m.rem = Remaining(m, Len(m.fills))
  BY DEF FillsChained, Chained
<1>3. m.order.qty \in Nat
  BY <1>1 DEF CallsWellFormed, WellFormed, Valid, Order
<1> HIDE DEF m
<1>4. CASE Len(m.fills) = 0
  BY <1>2, <1>3, <1>4 DEF Remaining, m
<1>5. CASE Len(m.fills) # 0
  <2>1. m.fills[Len(m.fills)] \in Fill
    BY <1>1, <1>5
  <2>2. m.rem = m.fills[Len(m.fills)].left
    BY <1>2, <1>5 DEF Remaining
  <2> QED
    BY <2>1, <2>2 DEF Fill, m
<1> QED
  BY <1>4, <1>5

LEMMA InStepEndMatch ==
  ASSUME TypeOK, CallsWellFormed, FillsChained, VanishingOrdersInStep,
         NEW c \in Client, EndMatch(c)
  PROVE  InStep(call[c])'
<1> DEFINE m == call[c]
           i == m.order.id
<1>1. /\ c \in DOMAIN call /\ m.pc = "match"
      /\ \A k \in DOMAIN orders :
           orders'[k].canceled = IF m.order.type \in {"market", "ioc"} /\ m.rem > 0 /\ k = i
                                 THEN m.rem ELSE orders[k].canceled
  BY EndMatchOrders
<1>2. /\ call'[c].pc = "record" /\ call'[c].order = m.order /\ call'[c].rem = m.rem
      /\ call'[c].fills = m.fills /\ call'[c].next = m.next
  BY MovingCalls DEF Moves
<1>3. UNCHANGED tracked
  BY DEF EndMatch, reporter
<1>4. m.rem \in Nat /\ i \in DOMAIN orders
  BY <1>1, RemNatural DEF Working, Registered, CallsWellFormed, WellFormed
<1>5. InStep(m)
  BY <1>1 DEF VanishingOrdersInStep
<1> HIDE DEF m, i
<1>6. m.order.type \in {"market", "ioc"} => orders'[i].canceled = m.rem
  BY <1>1, <1>4, <1>5 DEF InStep, Registered, i
<1> QED
  BY <1>1, <1>2, <1>3, <1>5, <1>6 DEF InStep, Registered, RecordedFills, Remaining, i

LEMMA InStepMatchNode ==
  ASSUME TypeOK, CallsWellFormed, FillsChained, VanishingOrdersInStep,
         NEW c \in Client, MatchNode(c)
  PROVE  InStep(call[c])'
<1> DEFINE m == call[c]
           n == call'[c]
<1>1. /\ c \in DOMAIN call /\ m.pc = "match" /\ n.pc = "match"
      /\ n.order = m.order /\ n.next = m.next
  BY MatchNodeCalls
<1>2. \A k \in DOMAIN orders : orders'[k].canceled = orders[k].canceled
  BY MatchNodeOrders
<1>3. UNCHANGED tracked
  BY DEF MatchNode, reporter
<1>4. m.next = 1 /\ InStep(m) /\ m.order.id \in DOMAIN orders
  BY <1>1 DEF FillsChained, Chained, VanishingOrdersInStep, CallsWellFormed, WellFormed,
              Registered
<1> HIDE DEF m, n
<1>5. RecordedFills(m) = 0 /\ RecordedFills(n) = 0
  BY <1>1, <1>4 DEF RecordedFills
<1>6. Remaining(n, 0) = Remaining(m, 0)
  BY <1>1 DEF Remaining
<1> QED
  BY <1>1, <1>2, <1>3, <1>4, <1>5, <1>6 DEF InStep, Registered, m, n

\* Recording a trade takes the reporter to where the call was after it.
LEMMA InStepRecordTrade ==
  ASSUME TypeOK, CallsWellFormed, FillsChained, OrdersMatchCalls, VanishingOrdersInStep,
         NEW c \in Client, RecordTrade(c)
  PROVE  InStep(call[c])'
<1> DEFINE m == call[c]
           n == call'[c]
           i == m.order.id
           f == Current(c)
<1>1. /\ c \in DOMAIN call /\ m.pc = "record" /\ m.next \in DOMAIN m.fills
      /\ f \in Fill /\ f = m.fills[m.next]
      /\ BookTrade({i, f.rest}, f.qty)
  BY RecordingEffect DEF RecordTrade
<1>2. /\ n.pc \in {"remove", "update"} /\ n.order = m.order /\ n.rem = m.rem
      /\ n.fills = m.fills /\ n.next = m.next
  BY MovingCalls DEF Moves
<1>3. /\ InStep(m) /\ i \in DOMAIN orders
      /\ \A k \in DOMAIN m.fills : m.fills[k].left + m.fills[k].qty = Remaining(m, k - 1)
  BY <1>1 DEF FillsChained, Chained, VanishingOrdersInStep, CallsWellFormed, WellFormed,
              Working, Registered
<1>4. f.qty \in Nat /\ f.left \in Nat
  BY <1>1 DEF Fill, Positive
<1>5. orders'[i].canceled = orders[i].canceled
  BY <1>1, <1>3, <1>4, BookTradeTypes
<1>6. /\ DOMAIN tracked' = DOMAIN tracked
      /\ i \in DOMAIN tracked => /\ tracked'[i].filled = tracked[i].filled + f.qty
                                 /\ tracked'[i].rem = tracked[i].rem - f.qty
  BY <1>1, <1>4, BookTradeEffect
<1>7. i \in DOMAIN tracked => tracked[i].filled \in Int /\ tracked[i].rem \in Int
  BY DEF TypeOK, ReporterTypeOK, Tracked
<1>8. m.next \in Positive
  BY <1>1 DEF TypeOK, CallsTypeOK, Call
<1> HIDE DEF m, n, i, f
<1>9. /\ RecordedFills(m) = m.next - 1 /\ RecordedFills(n) = m.next
      /\ Remaining(n, m.next) = f.left /\ Remaining(m, m.next - 1) = f.left + f.qty
  BY <1>1, <1>2, <1>3, <1>8 DEF RecordedFills, Remaining, Positive
<1>10. ASSUME m.order.type \in {"market", "ioc"}
       PROVE  /\ orders[i].canceled = m.rem
              /\ i \in DOMAIN tracked => /\ tracked[i].rem = f.left + f.qty
                                         /\ tracked[i].filled + tracked[i].rem = m.order.qty
  BY <1>1, <1>3, <1>9, <1>10 DEF InStep, Registered, i
<1>11. ASSUME m.order.type \in {"market", "ioc"}
       PROVE  i \in DOMAIN tracked => /\ tracked'[i].rem = f.left
                                     /\ tracked'[i].filled + tracked'[i].rem = m.order.qty
  BY <1>4, <1>6, <1>7, <1>10, <1>11
<1> QED
  BY <1>2, <1>5, <1>6, <1>9, <1>10, <1>11 DEF InStep, Registered, m, n, i

LEMMA InStepSettle ==
  ASSUME TypeOK, CallsWellFormed, VanishingOrdersInStep,
         NEW c \in Client, RemoveResting(c) \/ UpdateResting(c)
  PROVE  InStep(call[c])'
<1> DEFINE m == call[c]
           n == call'[c]
<1>1. /\ c \in DOMAIN call /\ m.pc \in {"remove", "update"} /\ n.pc = "record"
      /\ n.order = m.order /\ n.rem = m.rem /\ n.fills = m.fills /\ n.next = m.next + 1
  BY SettleCalls
<1>2. UNCHANGED <<orders, tracked>>
  BY DEF RemoveResting, UpdateResting, reporter
<1>3. InStep(m)
  BY <1>1 DEF VanishingOrdersInStep
<1>4. m.next \in Int
  BY <1>1 DEF TypeOK, CallsTypeOK, Call, Positive
<1> HIDE DEF m, n
<1>5. RecordedFills(n) = RecordedFills(m)
  BY <1>1, <1>4 DEF RecordedFills
<1>6. \A k : Remaining(n, k) = Remaining(m, k)
  BY <1>1 DEF Remaining
<1> QED
  BY <1>1, <1>2, <1>3, <1>5, <1>6 DEF InStep, Registered, m, n

LEMMA InStepStep ==
  ASSUME TypeOK, CallsWellFormed, OnePlacePerOrder, OrdersMatchCalls, FillsChained,
         VanishingOrdersInStep, NEW c \in Client, Step(c) \/ Ask(c)
  PROVE  VanishingOrdersInStep'
<1>1. OthersKept(c) => \A d \in DOMAIN call' \ {c} : InStep(call[d])'
  BY InStepOthers
<1>2. CASE Returning(c)
  BY <1>1, <1>2, ReturningCalls DEF VanishingOrdersInStep
<1>3. CASE RegisterOrder(c) \/ EndMatch(c) \/ RecordTrade(c)
  <2>1. OthersKept(c)
    BY <1>3, MovingCalls
  <2>2. InStep(call[c])'
    BY <1>3, InStepRegister, InStepEndMatch, InStepRecordTrade
  <2> QED
    BY <1>1, <2>1, <2>2 DEF VanishingOrdersInStep
<1>4. CASE MatchNode(c)
  BY <1>1, <1>4, MatchNodeCalls, InStepMatchNode DEF VanishingOrdersInStep
<1>5. CASE RemoveResting(c) \/ UpdateResting(c)
  BY <1>1, <1>5, SettleCalls, InStepSettle DEF VanishingOrdersInStep
<1>6. CASE Admit(c) \/ Unbook(c)
  <2>1. /\ OthersKept(c) /\ c \in DOMAIN call /\ call'[c].order = call[c].order
        /\ \/ call[c].pc = "submit" /\ call'[c].pc = "register"
           \/ call'[c].pc = "cancel"
    BY <1>6, MovingCalls DEF Moves, Admit, At
  <2>2. InStep(call[c])
    BY <2>1 DEF VanishingOrdersInStep
  <2>3. InStep(call[c])'
    BY <2>1, <2>2 DEF InStep, Registered
  <2> QED
    BY <1>1, <2>1, <2>3 DEF VanishingOrdersInStep
<1>7. CASE Enough(c)
  <2>1. /\ OthersKept(c) /\ c \in DOMAIN call /\ call[c].pc = "liquidity"
        /\ call'[c].pc = "match" /\ call'[c].order = call[c].order
        /\ call'[c].fills = call[c].fills /\ call'[c].next = call[c].next
    BY <1>7, MovingCalls DEF Moves, Enough, At
  <2>2. InStep(call[c]) /\ UNCHANGED <<orders, tracked>>
    BY <1>7, <2>1 DEF VanishingOrdersInStep, Enough, reporter
  <2>3. InStep(call[c])'
    BY <2>1, <2>2 DEF InStep, Registered, RecordedFills, Remaining
  <2> QED
    BY <1>1, <2>1, <2>3 DEF VanishingOrdersInStep
<1>8. CASE SubmitOrder(c)
  <2>1. OthersKept(c) /\ call'[c].pc = "submit" /\ call'[c].order.canceled = 0
    BY <1>8, SubmitOrderCalls
  <2>2. InStep(call[c])'
    BY <2>1 DEF InStep, Registered
  <2> QED
    BY <1>1, <2>1, <2>2 DEF VanishingOrdersInStep
<1>9. CASE CancelOrder(c) \/ ModifyOrder(c)
  <2>1. OthersKept(c) /\ call'[c].pc \in {"unbook", "replace"}
    BY <1>9, NamingCalls
  <2>2. InStep(call[c])'
    BY <2>1 DEF InStep, Registered
  <2> QED
    BY <1>1, <2>1, <2>2 DEF VanishingOrdersInStep
<1>10. CASE Replace(c)
  <2>1. OthersKept(c) /\ call'[c].order.type = "limit"
    BY <1>10, ReplaceCalls
  <2>2. InStep(call[c])'
    BY <2>1 DEF InStep
  <2> QED
    BY <1>1, <2>1, <2>2 DEF VanishingOrdersInStep
<1>11. CASE Close(c) \/ ClearReporter(c)
  <2>1. \A i \in DOMAIN orders : Untouched(i)
    BY <1>11 DEF Close, ClearReporter, EmptyBook, reporter, Untouched
  <2>2. ASSUME NEW d \in DOMAIN call' PROVE InStep(call[d])'
    <3>1. /\ d \in DOMAIN call
          /\ call'[d].pc = call[d].pc /\ call'[d].order = call[d].order
          /\ call'[d].rem = call[d].rem /\ call'[d].fills = call[d].fills
          /\ call'[d].next = call[d].next
      BY <1>11, CloseCalls
    <3>2. Vanishing(call[d]) => call[d].order.id \in DOMAIN orders
      BY <3>1 DEF Vanishing, CallsWellFormed, WellFormed
    <3> QED
      BY <2>1, <3>1, <3>2, InStepStill
  <2> QED
    BY <2>2 DEF VanishingOrdersInStep
<1> QED
  BY <1>2, <1>3, <1>4, <1>5, <1>6, <1>7, <1>8, <1>9, <1>10, <1>11
     DEF Step, Ask, Lookup, Returning

-----------------------------------------------------------------------------
(* Conservation.                                                           *)

\* FillsConserved for one order.
Conserved(i) ==
  \/ tracked[i].filled + tracked[i].rem = orders[i].qty
  \/ /\ orders[i].type \in {"market", "ioc"}
     /\ tracked[i].rem = 0
     /\ tracked[i].filled + orders[i].canceled = orders[i].qty

\* An order that is left alone stays conserved.
LEMMA ConservedUntouched ==
  ASSUME FillsConserved, NEW i \in DOMAIN tracked', Untouched(i),
         orders'[i].type = orders[i].type, orders'[i].qty = orders[i].qty
  PROVE  Conserved(i)'
BY DEF FillsConserved, Untouched, Conserved

\* While a call works on an order, filled and remaining add up to its quantity:
\* an order that rests is never canceled, for one that vanishes the call knows.
LEMMA ConservedWorking ==
  ASSUME CallsWellFormed, OrdersMatchCalls, VanishingOrdersInStep, FillsConserved,
         NEW c \in DOMAIN call, call[c].pc \in Registered,
         call[c].order.id \in DOMAIN tracked
  PROVE  LET i == call[c].order.id
         IN  tracked[i].filled + tracked[i].rem = orders[i].qty
<1> DEFINE m == call[c]
           i == m.order.id
<1>1. orders[i].type = m.order.type /\ orders[i].qty = m.order.qty
  BY DEF OrdersMatchCalls, InAccord
<1>2. CASE m.order.type \in {"market", "ioc"}
  BY <1>1, <1>2 DEF VanishingOrdersInStep, InStep
<1>3. CASE m.order.type \notin {"market", "ioc"}
  BY <1>1, <1>3 DEF FillsConserved
<1> QED
  BY <1>2, <1>3

\* A trade moves its quantity from remaining to filled on both sides.
LEMMA ConservedRecord ==
  ASSUME TypeOK, CallsWellFormed, OrdersMatchCalls, VanishingOrdersInStep, FillsConserved,
         NEW c \in Client, RecordTrade(c) \/ RecordTradeFails(c)
  PROVE  FillsConserved'
<1> DEFINE j == call[c].order.id
           r == Current(c).rest
           q == Current(c).qty
<1>1. /\ c \in DOMAIN call /\ call[c].pc = "record"
      /\ call[c].next \in DOMAIN call[c].fills
      /\ Current(c) \in Fill /\ Current(c) = call[c].fills[call[c].next]
  BY RecordingEffect
<1>2. PICK ids \in SUBSET {j, r} : BookTrade(ids, q)
  BY RecordingEffect
<1>3. q \in Nat
  BY <1>1 DEF Fill, Positive
<1>4. /\ DOMAIN tracked' = DOMAIN tracked
      /\ \A i \in DOMAIN tracked :
           IF i \in ids THEN /\ tracked'[i].filled = tracked[i].filled + q
                             /\ tracked'[i].rem = tracked[i].rem - q
                        ELSE tracked'[i] = tracked[i]
  BY <1>2, <1>3, BookTradeEffect
<1>5. \A i \in DOMAIN tracked :
        /\ i \in DOMAIN orders /\ tracked[i].filled \in Int /\ tracked[i].rem \in Int
        /\ orders'[i].type = orders[i].type /\ orders'[i].qty = orders[i].qty
        /\ orders'[i].canceled = orders[i].canceled
  BY <1>2, <1>3, BookTradeTypes DEF TypeOK, ReporterTypeOK, Tracked
<1>6. r \in DOMAIN tracked => tracked[r].filled + tracked[r].rem = orders[r].qty
  <2>1. orders[r].type \in RestingType
    BY <1>1 DEF OrdersMatchCalls, InAccord
  <2> QED
    BY <2>1 DEF FillsConserved, RestingType
<1>7. j \in DOMAIN tracked => tracked[j].filled + tracked[j].rem = orders[j].qty
  BY <1>1, ConservedWorking DEF Registered
<1> HIDE DEF j, r, q
<1>8. ASSUME NEW i \in DOMAIN tracked' PROVE Conserved(i)'
  <2>1. CASE i \in ids
    <3>1. tracked[i].filled + tracked[i].rem = orders[i].qty
      BY <1>2, <1>4, <1>6, <1>7, <2>1
    <3>2. tracked'[i].filled + tracked'[i].rem = orders'[i].qty
      BY <1>3, <1>4, <1>5, <2>1, <3>1
    <3> QED
      BY <3>2 DEF Conserved
  <2>2. CASE i \notin ids
    <3>1. Untouched(i)
      BY <1>4, <1>5, <2>2 DEF Untouched
    <3> QED
      BY <1>4, <1>5, <3>1, ConservedUntouched
  <2> QED
    BY <2>1, <2>2
<1> QED
  BY <1>8 DEF FillsConserved, Conserved

\* Match cancels the rest of a market or IOC order while filled and remaining
\* still add up.
LEMMA ConservedEndMatch ==
  ASSUME TypeOK, CallsWellFormed, OrdersMatchCalls, VanishingOrdersInStep, FillsConserved,
         NEW c \in Client, EndMatch(c)
  PROVE  FillsConserved'
<1> DEFINE j == call[c].order.id
<1>1. /\ c \in DOMAIN call /\ call[c].pc = "match"
      /\ \A i \in DOMAIN orders :
           /\ orders'[i].type = orders[i].type /\ orders'[i].qty = orders[i].qty
           /\ i # j => orders'[i].canceled = orders[i].canceled
  BY EndMatchOrders
<1>2. UNCHANGED tracked
  BY DEF EndMatch, reporter
<1>3. DOMAIN tracked \subseteq DOMAIN orders
  BY DEF TypeOK, ReporterTypeOK
<1>4. j \in DOMAIN tracked => tracked[j].filled + tracked[j].rem = orders[j].qty
  BY <1>1, ConservedWorking DEF Registered
<1> HIDE DEF j
<1>5. ASSUME NEW i \in DOMAIN tracked' PROVE Conserved(i)'
  <2>1. CASE i = j
    BY <1>1, <1>2, <1>3, <1>4, <2>1 DEF Conserved
  <2>2. CASE i # j
    BY <1>1, <1>2, <1>3, <2>2, ConservedUntouched DEF Untouched
  <2> QED
    BY <2>1, <2>2
<1> QED
  BY <1>5 DEF FillsConserved, Conserved

\* The reporter's remainder of an order that vanishes is dropped when all its
\* trades are recorded: it is then exactly what Match canceled.
LEMMA ConservedCancelRemainder ==
  ASSUME TypeOK, CallsWellFormed, OrdersMatchCalls, FillsChained, VanishingOrdersInStep,
         FillsConserved, NEW c \in Client, CancelRemainder(c)
  PROVE  FillsConserved'
<1> DEFINE m == call[c]
           j == m.order.id
<1>1. /\ c \in DOMAIN call /\ m.pc = "record" /\ m.next > Len(m.fills)
      /\ m.order.type \in {"market", "ioc"}
      /\ tracked' = [i \in DOMAIN tracked |->
                       IF i = j THEN [tracked[i] EXCEPT !.rem = 0] ELSE tracked[i]]
  BY DEF CancelRemainder, Recorded, At
<1>2. m.next \in Int /\ Len(m.fills) \in Int
  BY <1>1 DEF TypeOK, CallsTypeOK, Call, Positive
<1>3. m.next <= Len(m.fills) + 1 /\ m.rem = Remaining(m, Len(m.fills))
  BY <1>1 DEF FillsChained, Chained, Working, Registered
<1>4. InStep(m) /\ orders[j].type = m.order.type /\ orders[j].qty = m.order.qty
  BY <1>1 DEF VanishingOrdersInStep, OrdersMatchCalls, InAccord, Registered
<1>5. ~RegisterOrder(c) /\ ~EndMatch(c)
  BY <1>1 DEF RegisterOrder, EndMatch, At
<1>6. \A i \in DOMAIN orders :
        /\ orders'[i].type = orders[i].type /\ orders'[i].qty = orders[i].qty
        /\ orders'[i].canceled = orders[i].canceled
  BY <1>5, OrdersKept, CanceledKept DEF Step
<1>7. DOMAIN tracked \subseteq DOMAIN orders /\ \A i \in DOMAIN tracked : tracked[i] \in Tracked
  BY DEF TypeOK, ReporterTypeOK
<1> HIDE DEF m, j
<1>8. RecordedFills(m) = Len(m.fills)
  BY <1>1, <1>2, <1>3 DEF RecordedFills
<1>9. j \in DOMAIN tracked => /\ tracked[j].rem = orders[j].canceled
                              /\ tracked[j].filled + tracked[j].rem = orders[j].qty
  BY <1>1, <1>3, <1>4, <1>8 DEF InStep, Registered, j
<1>10. j \in DOMAIN tracked => tracked'[j].rem = 0 /\ tracked'[j].filled = tracked[j].filled
  BY <1>1, <1>7 DEF Tracked
<1>11. ASSUME NEW i \in DOMAIN tracked' PROVE Conserved(i)'
  <2>1. i \in DOMAIN tracked
    BY <1>1
  <2>2. CASE i = j
    BY <1>1, <1>4, <1>6, <1>7, <1>9, <1>10, <2>1, <2>2 DEF Conserved
  <2>3. CASE i # j
    BY <1>1, <1>6, <1>7, <2>1, <2>3, ConservedUntouched DEF Untouched
  <2> QED
    BY <2>2, <2>3
<1> QED
  BY <1>11 DEF FillsConserved, Conserved

LEMMA ConservedStep ==
  ASSUME TypeOK, CallsWellFormed, OrdersMatchCalls, FillsChained, VanishingOrdersInStep,
         FillsConserved, NEW c \in Client, Step(c) \/ Ask(c)
  PROVE  FillsConserved'
<1>1. CASE RecordTrade(c) \/ RecordTradeFails(c)
  BY <1>1, ConservedRecord
<1>2. CASE EndMatch(c)
  BY <1>2, ConservedEndMatch
<1>3. CASE CancelRemainder(c)
  BY <1>3, ConservedCancelRemainder
<1>4. CASE RegisterOrder(c)
  <2> DEFINE o == call[c].order
  <2>1. /\ o \in Order
        /\ DOMAIN tracked' = DOMAIN tracked \cup {o.id}
        /\ tracked'[o.id] = [status |-> "New", filled |-> 0, rem |-> o.qty]
        /\ \A i \in DOMAIN tracked \ {o.id} : tracked'[i] = tracked[i]
        /\ orders'[o.id] = o
        /\ \A i \in DOMAIN orders \ {o.id} : orders'[i] = orders[i]
    BY <1>4, RegisterOrderTypes
  <2>2. DOMAIN tracked \subseteq DOMAIN orders
    BY DEF TypeOK, ReporterTypeOK
  <2>3. o.qty \in Int
    BY <2>1 DEF Order
  <2> HIDE DEF o
  <2>4. ASSUME NEW i \in DOMAIN tracked' PROVE Conserved(i)'
    <3>1. CASE i = o.id
      BY <2>1, <2>3, <3>1 DEF Conserved
    <3>2. CASE i # o.id
      BY <2>1, <2>2, <3>2, ConservedUntouched DEF Untouched
    <3> QED
      BY <3>1, <3>2
  <2> QED
    BY <2>4 DEF FillsConserved, Conserved
<1>5. CASE /\ ~RegisterOrder(c) /\ ~RecordTrade(c) /\ ~RecordTradeFails(c)
           /\ ~CancelRemainder(c) /\ ~EndMatch(c)
  <2>1. /\ \A i \in DOMAIN orders : Untouched(i)
        /\ \A i \in DOMAIN orders : /\ orders'[i].type = orders[i].type
                                     /\ orders'[i].qty = orders[i].qty
    BY <1>5, QuietSteps, OrdersKept
  <2>2. DOMAIN tracked' \subseteq DOMAIN orders
    <3>1. CASE ClearReporter(c)
      BY <3>1 DEF ClearReporter, EmptyBook
    <3>2. CASE ~ClearReporter(c)
      BY <1>5, <3>2, TrackedKept DEF TypeOK, ReporterTypeOK
    <3> QED
      BY <3>1, <3>2
  <2>3. ASSUME NEW i \in DOMAIN tracked' PROVE Conserved(i)'
    BY <2>1, <2>2, ConservedUntouched
  <2> QED
    BY <2>3 DEF FillsConserved, Conserved
<1> QED
  BY <1>1, <1>2, <1>3, <1>4, <1>5

-----------------------------------------------------------------------------
(* The inductive invariant.                                                *)

LEMMA InvInit == Init => IInv
<1> SUFFICES ASSUME Init PROVE IInv
  OBVIOUS
<1>1. PlacesInv
  BY PlacesInit
<1>2. /\ DOMAIN call = {} /\ DOMAIN tracked = {} /\ \A s \in Symbol : DOMAIN book[s] = {}
  BY DEF Init, EmptyBook
<1> QED
  BY <1>1, <1>2 DEF PlacesInv, IInv, OrdersMatchCalls, FillsChained, VanishingOrdersInStep,
                    FillsConserved

LEMMA InvStutter ==
  ASSUME IInv, UNCHANGED vars
  PROVE  OrdersMatchCalls' /\ FillsChained' /\ VanishingOrdersInStep' /\ FillsConserved'
<1>1. OrdersMatchCalls /\ FillsChained /\ VanishingOrdersInStep /\ FillsConserved
  BY DEF IInv
<1>2. book' = book /\ orders' = orders /\ tracked' = tracked /\ call' = call
  BY DEF vars
<1>3. OrdersMatchCalls'
  BY <1>1, <1>2 DEF OrdersMatchCalls, InAccord
<1>4. FillsChained'
  BY <1>1, <1>2 DEF FillsChained, Chained, Remaining
<1>5. VanishingOrdersInStep'
  BY <1>1, <1>2 DEF VanishingOrdersInStep, InStep, RecordedFills, Remaining
<1>6. FillsConserved'
  BY <1>1, <1>2 DEF FillsConserved
<1> QED
  BY <1>3, <1>4, <1>5, <1>6

LEMMA InvStep == IInv /\ [Next]_vars => IInv'
<1> SUFFICES ASSUME IInv, [Next]_vars PROVE IInv'
  OBVIOUS
<1>1. /\ TypeOK /\ CallsWellFormed /\ IdsAllocated /\ OnePlacePerOrder
      /\ OrdersMatchCalls /\ FillsChained /\ VanishingOrdersInStep /\ FillsConserved
  BY DEF IInv
<1>2. TypeOK' /\ CallsWellFormed' /\ IdsAllocated' /\ OnePlacePerOrder'
  BY <1>1, PlacesStep DEF PlacesInv
<1>3. ASSUME NEW c \in Client, Step(c) \/ Ask(c)
      PROVE  OrdersMatchCalls' /\ FillsChained' /\ VanishingOrdersInStep' /\ FillsConserved'
  <2>1. OrdersMatchCalls'
    BY <1>1, <1>3, AccordRegister, AccordStep
  <2>2. FillsChained'
    BY <1>1, <1>3, ChainedStep
  <2>3. VanishingOrdersInStep'
    BY <1>1, <1>3, InStepStep
  <2>4. FillsConserved'
    BY <1>1, <1>3, ConservedStep
  <2> QED
    BY <2>1, <2>2, <2>3, <2>4
<1>4. ASSUME UNCHANGED vars
      PROVE  OrdersMatchCalls' /\ FillsChained' /\ VanishingOrdersInStep' /\ FillsConserved'
  BY <1>4, InvStutter
<1>5. OrdersMatchCalls' /\ FillsChained' /\ VanishingOrdersInStep' /\ FillsConserved'
  BY <1>3, <1>4 DEF Next
<1> QED
  BY <1>2, <1>5 DEF IInv

\* However calls of any number of clients race, and at whatever point Close
\* interrupts them, what the reporter tracks as filled and remaining, or as
\* filled and canceled, adds up to the quantity of the order.
THEOREM QuantityConserved == Spec => []FillsConserved
<1>1. IInv => FillsConserved
  BY DEF IInv
<1> QED
  BY <1>1, InvInit, InvStep, PTL DEF Spec

\* The invariant behind it: among its parts, the trades of a call take its order
\* down from its quantity step by step to what Match returns as remaining, and
\* the reporter is as far as the call with every market and IOC order.
THEOREM EngineInvariant == Spec => []IInv
BY InvInit, InvStep, PTL DEF Spec

-----------------------------------------------------------------------------
(* A single call at a time.                                                *)

\* No step changes the tracked state of an order that is done.
DoneStaysDone ==
  \A i \in DOMAIN tracked \cap DOMAIN tracked' : ~Live(i) => tracked'[i] = tracked[i]

\* An entry and the tracked state of its order agree.
Agrees(s, i) ==
  /\ Live(i)
  /\ 0 < tracked[i].rem /\ tracked[i].rem <= book[s][i].qty
  /\ tracked[i].filled + book[s][i].qty < 2 * orders[i].qty

LEMMA Alone ==
  ASSUME Serialised, TypeOK, NEW c \in Client
  PROVE  DOMAIN call \subseteq {c} /\ closing \subseteq {c}
BY DEF Serialised, TypeOK, CallsTypeOK, EngineTypeOK

\* While no trade is being settled every entry agrees with the reporter.
LEMMA EntriesAgree ==
  ASSUME Serialised, TypeOK, RestingIsLive, OverfillBounded,
         NEW c \in Client, ~At(c, "remove"), ~At(c, "update")
  PROVE  \A s \in Symbol : \A i \in DOMAIN book[s] : Agrees(s, i)
BY DEF Serialised, RestingIsLive, OverfillBounded, Settling, Agrees

\* While one is, all but the entry it is about do.
LEMMA OtherEntriesAgree ==
  ASSUME Serialised, TypeOK, RestingIsLive, OverfillBounded, NEW c \in Client
  PROVE  \A s \in Symbol : \A i \in DOMAIN book[s] : i # Current(c).rest => Agrees(s, i)
BY DEF Serialised, RestingIsLive, OverfillBounded, Settling, Agrees

\* And the other way round.
LEMMA AgreementRests ==
  ASSUME \A s \in Symbol : \A i \in DOMAIN book[s] : Agrees(s, i) \/ Settling(i),
         \A i \in DOMAIN tracked : tracked[i].filled < 2 * orders[i].qty
  PROVE  RestingIsLive /\ OverfillBounded
BY DEF RestingIsLive, OverfillBounded, Agrees

\* An order a call is submitting or about to cancel is in no book.
LEMMA InHandUnbooked ==
  ASSUME IInv, SerialInv, NEW c \in Client, c \in DOMAIN call,
         call[c].pc \notin {"unbook", "replace"}
  PROVE  \A s \in Symbol : call[c].order.id \notin DOMAIN book[s]
BY DEF IInv, OnePlacePerOrder, Submitting, SerialInv, OrdersInHand, InHand

-----------------------------------------------------------------------------
(* Steps that end a call.                                                  *)

\* A call ends and leaves books and orders alone: what is tracked may change for
\* the order in hand.
LEMMA SerialEnd ==
  ASSUME Serialised, IInv, SerialInv, TypeOK', NEW c \in Client, c \in DOMAIN call,
         NEW j, j = call[c].order.id, DOMAIN call' = DOMAIN call \ {c},
         ~At(c, "remove"), ~At(c, "update"),
         book' = book, running' = running, closing' = closing,
         DOMAIN tracked' = DOMAIN tracked,
         \A i \in DOMAIN tracked : i # j => tracked'[i] = tracked[i],
         \A i \in DOMAIN tracked : tracked'[i].filled = tracked[i].filled,
         \A i \in DOMAIN orders : /\ orders'[i].type = orders[i].type
                                  /\ orders'[i].qty = orders[i].qty,
         call[c].pc \notin {"unbook", "replace"} =>
           /\ j \in DOMAIN tracked => Live(j) \/ tracked'[j] = tracked[j]
           /\ j \in DOMAIN tracked /\ closing = {} =>
                ~(Live(j)' /\ orders[j].type \in RestingType),
         call[c].pc \in {"unbook", "replace"} => tracked' = tracked
  PROVE  SerialInv' /\ DoneStaysDone
<1>1. DOMAIN call' = {}
  BY Alone DEF IInv
<1>2. \A i \in DOMAIN tracked : i \in DOMAIN orders
  BY DEF IInv, TypeOK, ReporterTypeOK
<1>3. \A s \in Symbol : \A i \in DOMAIN book[s] :
        /\ Agrees(s, i) /\ i \in DOMAIN tracked /\ i \in DOMAIN orders
  BY EntriesAgree, <1>2 DEF IInv, SerialInv, Agrees, Live
<1>4. \A s \in Symbol : \A i \in DOMAIN book[s] : tracked'[i] = tracked[i]
  <2>1. CASE call[c].pc \in {"unbook", "replace"}
    BY <2>1
  <2>2. CASE call[c].pc \notin {"unbook", "replace"}
    BY <2>2, <1>3, InHandUnbooked
  <2> QED
    BY <2>1, <2>2
<1>5. \A s \in Symbol : \A i \in DOMAIN book'[s] : Agrees(s, i)'
  BY <1>3, <1>4 DEF Agrees, Live
<1>6. \A i \in DOMAIN tracked' : tracked'[i].filled < 2 * orders'[i].qty
  BY <1>2 DEF SerialInv, OverfillBounded
<1>7. RestingIsLive' /\ OverfillBounded'
  BY <1>5, <1>6 DEF RestingIsLive, OverfillBounded, Agrees
<1>8. Undisturbed'
  BY <1>1 DEF SerialInv, Undisturbed
<1>9. LiveOrdersKept'
  <2> SUFFICES ASSUME NEW i \in DOMAIN tracked', Live(i)', orders'[i].type \in RestingType,
                      closing' = {}
               PROVE  \E s \in Symbol : i \in DOMAIN book'[s]
    BY DEF LiveOrdersKept
  <2>1. CASE i = j /\ call[c].pc \notin {"unbook", "replace"}
    BY <2>1, <1>2
  <2>2. CASE i # j \/ call[c].pc \in {"unbook", "replace"}
    <3>1. tracked'[i] = tracked[i] /\ Live(i) /\ orders[i].type \in RestingType
      BY <2>2, <1>2 DEF Live
    <3>2. \/ \E s \in Symbol : i \in DOMAIN book[s]
          \/ \E d \in DOMAIN call : /\ call[d].order.id = i
                                   /\ call[d].pc \notin {"unbook", "replace"}
      BY <3>1 DEF SerialInv, LiveOrdersKept
    <3>3. \A d \in DOMAIN call : d = c
      BY Alone DEF IInv
    <3> QED
      BY <2>2, <3>2, <3>3
  <2> QED
    BY <2>1, <2>2
<1>10. DoneStaysDone
  BY DEF DoneStaysDone
<1> QED
  BY <1>1, <1>7, <1>8, <1>9, <1>10
     DEF SerialInv, OrdersInHand, EntriesAwaitTrades, TradesInSettlement

\* A call works on an order with something left to trade until it has recorded
\* a trade.
LEMMA InHandLive ==
  ASSUME IInv, SerialInv, NEW c \in DOMAIN call,
         call[c].pc \in {"submit", "register", "liquidity", "match", "cancel"}
  PROVE  call[c].order.id \in DOMAIN tracked => Live(call[c].order.id)
<1> DEFINE m == call[c]
<1>1. CASE m.pc \in {"submit", "register", "cancel"}
  BY <1>1 DEF SerialInv, OrdersInHand, InHand
<1>2. CASE m.pc \in {"liquidity", "match"}
  <2>1. m.next = 1 /\ Valid(m.order) /\ m.order \in Order
    BY <1>2 DEF IInv, FillsChained, Chained, CallsWellFormed, WellFormed, Working, Registered,
                TypeOK, CallsTypeOK, Call
  <2>2. m.order.qty > 0
    BY <2>1 DEF Valid
  <2>3. Remaining(m, RecordedFills(m)) = m.order.qty
    BY <1>2, <2>1 DEF Remaining, RecordedFills
  <2> QED
    BY <1>2, <2>2, <2>3 DEF SerialInv, OrdersInHand, InHand, Registered
<1> QED
  BY <1>1, <1>2

\* The order is refused, lacks liquidity or is canceled.
LEMMA SerialStatus ==
  ASSUME Serialised, IInv, SerialInv, TypeOK', NEW c \in Client,
         Refuse(c) \/ Insufficient(c) \/ ReportCancel(c)
  PROVE  SerialInv' /\ DoneStaysDone
<1>1. c \in DOMAIN call /\ DOMAIN call' = DOMAIN call \ {c}
  BY ReturningCalls DEF Returning, IInv
<1>2. /\ call[c].pc \in {"submit", "liquidity", "cancel"}
      /\ book' = book /\ running' = running /\ closing' = closing /\ orders' = orders
  BY DEF Refuse, Insufficient, ReportCancel, At, books
<1>3. PICK j : j = call[c].order.id
  OBVIOUS
<1>4. PICK st \in {"Rejected", "Canceled"} : SetStatus(j, st)
  BY <1>3 DEF Refuse, Insufficient, ReportCancel
<1>5. /\ DOMAIN tracked' = DOMAIN tracked
      /\ \A i \in DOMAIN tracked : i # j => tracked'[i] = tracked[i]
      /\ \A i \in DOMAIN tracked : tracked'[i].filled = tracked[i].filled
      /\ j \in DOMAIN tracked => tracked'[j].status = st
  <2>1. tracked \in [DOMAIN tracked -> Tracked]
    BY DEF IInv, TypeOK, ReporterTypeOK
  <2> QED
    BY <1>4, <2>1 DEF SetStatus, Tracked
<1>6. ~Live(j)'
  BY <1>5 DEF Live
<1>7. j \in DOMAIN tracked => Live(j)
  BY <1>1, <1>2, <1>3, InHandLive
<1>8. ~At(c, "remove") /\ ~At(c, "update")
  BY <1>2 DEF At
<1>9. call[c].pc \notin {"unbook", "replace"}
  BY <1>2
<1> QED
  BY <1>1, <1>2, <1>3, <1>5, <1>6, <1>7, <1>8, <1>9, SerialEnd

\* The engine is stopped, the order is not found, or the call has nothing left
\* to do for it.
LEMMA SerialQuietEnd ==
  ASSUME Serialised, IInv, SerialInv, TypeOK', NEW c \in Client,
         TurnAway(c) \/ NotFound(c)
  PROVE  SerialInv' /\ DoneStaysDone
<1>1. c \in DOMAIN call /\ DOMAIN call' = DOMAIN call \ {c}
  BY ReturningCalls DEF Returning, IInv
<1>2. /\ call[c].pc \in {"submit", "unbook", "replace"}
      /\ call[c].pc = "submit" => ~running
      /\ book' = book /\ running' = running /\ closing' = closing /\ orders' = orders
      /\ tracked' = tracked
  BY DEF TurnAway, NotFound, At, books, reporter
<1>3. PICK j : j = call[c].order.id
  OBVIOUS
<1>4. call[c].pc = "submit" /\ closing = {} => DOMAIN tracked = {}
  BY <1>2 DEF SerialInv, Undisturbed
<1>5. closing = {}
  BY <1>1 DEF SerialInv, Undisturbed
<1>6. ~At(c, "remove") /\ ~At(c, "update")
  BY <1>2 DEF At
<1>7. call[c].pc \notin {"unbook", "replace"} => j \notin DOMAIN tracked
  BY <1>2, <1>4, <1>5
<1> QED
  BY <1>1, <1>2, <1>3, <1>6, <1>7, SerialEnd

\* Once its trades are recorded the call, the reporter and, for an order that may
\* rest, the Order struct agree on what remains.
LEMMA RecordedRemainder ==
  ASSUME IInv, SerialInv, NEW c \in Client, Recorded(c)
  PROVE  LET o == call[c].order
         IN  /\ c \in DOMAIN call /\ call[c].pc = "record" /\ o \in Order
             /\ o.id \in DOMAIN tracked /\ o.id \in DOMAIN orders
             /\ orders[o.id].type = o.type /\ orders[o.id].qty = o.qty
             /\ tracked[o.id].rem = call[c].rem
             /\ Live(o.id) <=> call[c].rem > 0
             /\ o.type \in RestingType => orders[o.id].left = call[c].rem
             /\ o.type \in {"market", "ioc"} => orders[o.id].canceled = call[c].rem
<1> DEFINE m == call[c]
<1>1. c \in DOMAIN call /\ m.pc = "record" /\ m.next > Len(m.fills) /\ m \in Call
  BY DEF Recorded, At, IInv, TypeOK, CallsTypeOK
<1>2. m.order \in Order /\ m.next \in Positive /\ Len(m.fills) \in Nat
  BY <1>1 DEF Call
<1>3. m.next <= Len(m.fills) + 1 /\ m.rem = Remaining(m, Len(m.fills))
  BY <1>1 DEF IInv, FillsChained, Chained, Working, Registered
<1>4. RecordedFills(m) = Len(m.fills)
  BY <1>1, <1>2, <1>3 DEF RecordedFills, Positive
<1>5. m.pc \in Registered /\ InHand(m) /\ WellFormed(m) /\ InAccord(m) /\ InStep(m)
  BY <1>1 DEF Registered, SerialInv, OrdersInHand, IInv, CallsWellFormed, OrdersMatchCalls,
              VanishingOrdersInStep
<1>6. m.order.id \in DOMAIN tracked /\ tracked[m.order.id].rem = m.rem
  BY <1>3, <1>4, <1>5 DEF InHand
<1>7. m.order.type \in RestingType => orders[m.order.id].left = m.rem
  BY <1>5, <1>6 DEF InHand
<1>8. m.order.type \in {"market", "ioc"} => orders[m.order.id].canceled = m.rem
  BY <1>1, <1>5 DEF InStep
<1>9. Live(m.order.id) <=> m.rem > 0
  BY <1>5, <1>6 DEF InHand
<1>10. /\ m.order.id \in DOMAIN orders
       /\ orders[m.order.id].type = m.order.type /\ orders[m.order.id].qty = m.order.qty
  BY <1>5 DEF WellFormed, InAccord
<1> QED
  BY <1>1, <1>2, <1>6, <1>7, <1>8, <1>9, <1>10

LEMMA SerialCancelRemainder ==
  ASSUME Serialised, IInv, SerialInv, TypeOK', NEW c \in Client, CancelRemainder(c)
  PROVE  SerialInv' /\ DoneStaysDone
<1>1. c \in DOMAIN call /\ DOMAIN call' = DOMAIN call \ {c}
  BY ReturningCalls DEF Returning, IInv
<1>2. Recorded(c) /\ book' = book /\ running' = running /\ closing' = closing
  BY DEF CancelRemainder, books
<1>3. PICK j : j = call[c].order.id
  OBVIOUS
<1>4. /\ orders[j].type \in {"market", "ioc"} /\ orders[j].canceled > 0
      /\ Live(j)
  BY <1>2, <1>3, RecordedRemainder DEF CancelRemainder
<1>5. tracked' = [i \in DOMAIN tracked |->
                    IF i = j THEN [tracked[i] EXCEPT !.rem = 0] ELSE tracked[i]]
  BY <1>3 DEF CancelRemainder
<1>6. /\ DOMAIN tracked' = DOMAIN tracked
      /\ \A i \in DOMAIN tracked : i # j => tracked'[i] = tracked[i]
      /\ \A i \in DOMAIN tracked : tracked'[i].filled = tracked[i].filled
  <2>1. tracked \in [DOMAIN tracked -> Tracked]
    BY DEF IInv, TypeOK, ReporterTypeOK
  <2> QED
    BY <1>5, <2>1 DEF Tracked
<1>7. \A i \in DOMAIN orders : /\ orders'[i].type = orders[i].type
                               /\ orders'[i].qty = orders[i].qty
  <2>1. Step(c) /\ ~RegisterOrder(c)
    BY <1>2 DEF Step, RegisterOrder, Recorded, At
  <2> QED
    BY <2>1, OrdersKept DEF IInv
<1>8. call[c].pc = "record" /\ ~At(c, "remove") /\ ~At(c, "update")
  BY <1>2 DEF Recorded, At
<1>9. orders[j].type \notin RestingType
  BY <1>4 DEF RestingType
<1>10. call[c].pc \notin {"unbook", "replace"}
  BY <1>8
<1> QED
  BY <1>1, <1>2, <1>3, <1>4, <1>6, <1>7, <1>8, <1>9, <1>10, SerialEnd

LEMMA SerialFinish ==
  ASSUME Serialised, IInv, SerialInv, TypeOK', NEW c \in Client, Finish(c)
  PROVE  SerialInv' /\ DoneStaysDone
<1>1. c \in DOMAIN call /\ DOMAIN call' = DOMAIN call \ {c}
  BY ReturningCalls DEF Returning, IInv
<1>2. /\ Recorded(c) /\ book' = book /\ running' = running /\ closing' = closing
      /\ tracked' = tracked /\ orders' = orders
  BY DEF Finish, books, reporter
<1>3. PICK j : j = call[c].order.id
  OBVIOUS
<1>4. call[c].pc = "record" /\ ~At(c, "remove") /\ ~At(c, "update")
  BY <1>2 DEF Recorded, At
<1>5. orders[j].type \in RestingType => ~Live(j)
  BY <1>2, <1>3, RecordedRemainder DEF Finish
<1>6. ~(Live(j)' /\ orders[j].type \in RestingType)
  BY <1>2, <1>5 DEF Live
<1>7. call[c].pc \notin {"unbook", "replace"}
  BY <1>4
<1> QED
  BY <1>1, <1>2, <1>3, <1>4, <1>6, <1>7, SerialEnd

\* AddOrder puts the order in hand into its book, beside what is there.
LEMMA AddOrderEffect ==
  ASSUME IInv, SerialInv, NEW c \in Client, AddOrder(c)
  PROVE  LET o == call[c].order
         IN  /\ o \in Order /\ o.symbol \in Symbol /\ o.type \in RestingType
             /\ DOMAIN book'[o.symbol] = DOMAIN book[o.symbol] \cup {o.id}
             /\ book'[o.symbol][o.id] = EntryOf(o, arrivals + 1)
             /\ \A i \in DOMAIN book[o.symbol] :
                  i # o.id /\ book'[o.symbol][i] = book[o.symbol][i]
             /\ \A s \in Symbol : s # o.symbol => book'[s] = book[s]
<1> DEFINE o == call[c].order
           e == EntryOf(o, arrivals + 1)
           b == InsertOrder(book[o.symbol], o.id, e)
<1>1. c \in DOMAIN call /\ call[c].pc = "record" /\ o.type \in RestingType
  BY DEF AddOrder, Recorded, At
<1>2. o \in Order /\ o.symbol \in Symbol
  BY <1>1 DEF IInv, TypeOK, CallsTypeOK, Call, Order
<1>3. o.id \notin DOMAIN book[o.symbol]
  BY <1>1, <1>2, InHandUnbooked
<1>4. book' = [book EXCEPT ![o.symbol] = b]
  BY DEF AddOrder
<1>5. /\ DOMAIN b = DOMAIN book[o.symbol] \cup {o.id} /\ b[o.id] = e
      /\ \A i \in DOMAIN book[o.symbol] : b[i] = book[o.symbol][i]
  BY <1>3 DEF InsertOrder, Put
<1>6. book = [s \in Symbol |-> book[s]]
  BY DEF IInv, TypeOK, BooksTypeOK
<1>7. book'[o.symbol] = b /\ \A s \in Symbol : s # o.symbol => book'[s] = book[s]
  BY <1>2, <1>4, <1>6
<1> HIDE DEF b
<1> QED
  BY <1>1, <1>2, <1>3, <1>5, <1>7

LEMMA SerialAddOrder ==
  ASSUME Serialised, IInv, SerialInv, TypeOK', NEW c \in Client, AddOrder(c)
  PROVE  SerialInv' /\ DoneStaysDone
<1>1. c \in DOMAIN call /\ DOMAIN call' = {}
  BY ReturningCalls, Alone DEF Returning, IInv
<1>2. /\ Recorded(c) /\ running' = running /\ closing' = closing
      /\ tracked' = tracked /\ orders' = orders
  BY DEF AddOrder, reporter
<1>3. PICK o : o = call[c].order
  OBVIOUS
<1>4. PICK j : j = o.id
  OBVIOUS
<1>5. /\ o \in Order /\ o.symbol \in Symbol
      /\ DOMAIN book'[o.symbol] = DOMAIN book[o.symbol] \cup {j}
      /\ book'[o.symbol][j].qty = o.qty
      /\ \A i \in DOMAIN book[o.symbol] : i # j /\ book'[o.symbol][i] = book[o.symbol][i]
      /\ \A s \in Symbol : s # o.symbol => book'[s] = book[s]
  <2>1. /\ o \in Order /\ o.symbol \in Symbol
        /\ DOMAIN book'[o.symbol] = DOMAIN book[o.symbol] \cup {j}
        /\ book'[o.symbol][j] = EntryOf(o, arrivals + 1)
        /\ \A i \in DOMAIN book[o.symbol] : i # j /\ book'[o.symbol][i] = book[o.symbol][i]
        /\ \A s \in Symbol : s # o.symbol => book'[s] = book[s]
    BY <1>3, <1>4, AddOrderEffect
  <2>2. EntryOf(o, arrivals + 1).qty = o.qty
    BY DEF EntryOf
  <2> QED
    BY <2>1, <2>2
<1>6. call[c].pc = "record" /\ ~At(c, "remove") /\ ~At(c, "update")
  BY <1>2 DEF Recorded, At
<1>7. /\ j \in DOMAIN tracked /\ orders[j].qty = o.qty
      /\ orders[j].left = call[c].rem /\ tracked[j].rem = call[c].rem
      /\ Live(j) <=> call[c].rem > 0
  BY <1>2, <1>3, <1>4, AddOrderEffect, RecordedRemainder
<1>8. Live(j) /\ tracked[j].rem > 0
  BY <1>3, <1>4, <1>7 DEF AddOrder
<1>9. tracked[j].filled + tracked[j].rem = o.qty
  BY <1>1, <1>3, <1>4, <1>6, <1>7, ConservedWorking DEF IInv, Registered
<1>10. tracked[j] \in Tracked /\ o.qty \in Int
  BY <1>5, <1>7 DEF IInv, TypeOK, ReporterTypeOK, Order
<1>11. Agrees(o.symbol, j)'
  <2>1. /\ tracked[j].rem <= o.qty
        /\ tracked[j].filled + o.qty < 2 * o.qty
    BY <1>8, <1>9, <1>10 DEF Tracked
  <2>2. book'[o.symbol][j].qty = o.qty
    BY <1>5
  <2>3. Live(j)'
    BY <1>2, <1>8 DEF Live
  <2> QED
    BY <1>2, <1>3, <1>7, <1>8, <2>1, <2>2, <2>3 DEF Agrees
<1>12. \A s \in Symbol : \A i \in DOMAIN book[s] : Agrees(s, i)
  BY <1>6, EntriesAgree DEF IInv, SerialInv
<1>13. ASSUME NEW s \in Symbol, NEW i \in DOMAIN book'[s]
       PROVE  Agrees(s, i)'
  <2>1. CASE s = o.symbol /\ i = j
    BY <2>1, <1>5, <1>11
  <2>2. CASE ~(s = o.symbol /\ i = j)
    <3>1. i \in DOMAIN book[s] /\ book'[s][i] = book[s][i]
      BY <2>2, <1>5
    <3> QED
      BY <3>1, <1>2, <1>12 DEF Agrees, Live
  <2> QED
    BY <2>1, <2>2
<1>14. RestingIsLive' /\ OverfillBounded'
  <2>1. \A i \in DOMAIN tracked' : tracked'[i].filled < 2 * orders'[i].qty
    BY <1>2 DEF SerialInv, OverfillBounded
  <2> QED
    BY <1>13, <2>1 DEF RestingIsLive, OverfillBounded, Agrees
<1>15. LiveOrdersKept'
  <2> SUFFICES ASSUME NEW i \in DOMAIN tracked, Live(i), orders[i].type \in RestingType,
                      closing = {}
               PROVE  \E s \in Symbol : i \in DOMAIN book'[s]
    BY <1>2 DEF LiveOrdersKept, Live
  <2>1. \/ \E s \in Symbol : i \in DOMAIN book[s]
        \/ \E d \in DOMAIN call : call[d].order.id = i
    BY DEF SerialInv, LiveOrdersKept
  <2>2. \A d \in DOMAIN call : d = c
    BY Alone DEF IInv
  <2>3. \A s \in Symbol : DOMAIN book[s] \subseteq DOMAIN book'[s]
    BY <1>5
  <2> QED
    BY <2>1, <2>2, <2>3, <1>3, <1>4, <1>5
<1>16. Undisturbed'
  <2>1. running
    BY <1>1, <1>6 DEF SerialInv, Undisturbed
  <2> QED
    BY <1>1, <1>2, <2>1 DEF SerialInv, Undisturbed
<1>17. DoneStaysDone
  BY <1>2 DEF DoneStaysDone
<1> QED
  BY <1>1, <1>14, <1>15, <1>16, <1>17
     DEF SerialInv, OrdersInHand, EntriesAwaitTrades, TradesInSettlement

\* The reporter knows both orders of every trade.
LEMMA SerialTradesRecorded ==
  ASSUME Serialised, IInv, SerialInv, NEW c \in Client, Recording(c)
  PROVE  /\ {call[c].order.id, Current(c).rest} \subseteq DOMAIN tracked
         /\ Live(call[c].order.id) /\ call[c].order.id # Current(c).rest
         /\ Current(c).rest \in DOMAIN book[call[c].order.symbol]
         /\ Agrees(call[c].order.symbol, Current(c).rest)
         /\ book[call[c].order.symbol][Current(c).rest].qty
              = Current(c).restLeft + Current(c).qty
<1> DEFINE m == call[c]
           f == Current(c)
<1>1. /\ c \in DOMAIN call /\ m.pc = "record" /\ m.order \in Order
      /\ m.next \in 1 .. Len(m.fills) /\ f \in Fill /\ m \in Call
  BY CurrentFill DEF IInv, Recording, At, TypeOK, CallsTypeOK
<1>2. m.next \in Pending(m) /\ f = m.fills[m.next]
  BY <1>1 DEF Pending, Current, Call
<1>3. m.pc \in Registered /\ InHand(m) /\ EntriesKept(m) /\ Chained(m)
  BY <1>1 DEF Registered, SerialInv, OrdersInHand, EntriesAwaitTrades, IInv, FillsChained
<1>4. /\ f.rest \in DOMAIN book[m.order.symbol]
      /\ book[m.order.symbol][f.rest].qty = f.restLeft + f.qty
  BY <1>2, <1>3 DEF EntriesKept
<1>5. Agrees(m.order.symbol, f.rest)
  <2>1. ~At(c, "remove") /\ ~At(c, "update")
    BY <1>1 DEF At
  <2> QED
    BY <1>1, <1>4, <2>1, EntriesAgree DEF IInv, SerialInv, Order
<1>6. m.order.id # f.rest
  BY <1>1, <1>4, InHandUnbooked DEF Order
<1>7. m.order.id \in DOMAIN tracked /\ Live(m.order.id)
  <2>1. m.fills[m.next].left + m.fills[m.next].qty = Remaining(m, m.next - 1)
    BY <1>1, <1>3 DEF Chained, Working, Registered, Call
  <2>2. RecordedFills(m) = m.next - 1
    BY <1>1 DEF RecordedFills
  <2>3. Remaining(m, RecordedFills(m)) > 0
    BY <1>1, <1>2, <2>1, <2>2 DEF Fill, Positive
  <2> QED
    BY <1>3, <2>3 DEF InHand
<1> QED
  BY <1>1, <1>4, <1>5, <1>6, <1>7 DEF Agrees, Live

-----------------------------------------------------------------------------
(* Steps within a call: nothing is disturbed.                              *)

\* The steps after which the call goes on.
Continuing(c) ==
  \/ Admit(c) \/ RegisterOrder(c) \/ Enough(c) \/ EndMatch(c) \/ RecordTrade(c)
  \/ MatchNode(c) \/ RemoveResting(c) \/ UpdateResting(c) \/ Unbook(c) \/ Replace(c)

LEMMA ContinuingCalls ==
  ASSUME TypeOK, NEW c \in Client, Continuing(c)
  PROVE  c \in DOMAIN call /\ DOMAIN call' = DOMAIN call /\ call[c] \in Call
<1>1. c \in DOMAIN call
  BY DEF Continuing, Admit, RegisterOrder, Enough, EndMatch, RecordTrade, MatchNode,
         RemoveResting, UpdateResting, Unbook, Replace, Recording, At
<1>2. DOMAIN call' = DOMAIN call
  BY MovingCalls, MatchNodeCalls, SettleCalls, ReplaceCalls DEF Continuing, Moves
<1> QED
  BY <1>1, <1>2 DEF TypeOK, CallsTypeOK

\* Disturbing the books does not tear a call that is not traversing one.
LEMMA DisturbUntorn ==
  ASSUME NEW f, NEW S, NEW d \in DOMAIN f, f[d].pc \notin {"liquidity", "match"}
  PROVE  Disturb(f, S)[d] = f[d]
BY DEF Disturb

LEMMA ContinuingUntorn ==
  ASSUME TypeOK, NEW c \in Client, Continuing(c), ~call[c].torn
  PROVE  ~call'[c].torn
<1> DEFINE m == call[c]
<1>1. c \in DOMAIN call /\ m \in Call
  BY ContinuingCalls
<1>2. CASE \/ Admit(c) \/ RegisterOrder(c) \/ EndMatch(c) \/ RecordTrade(c)
  <2>1. PICK pc : call' = [call EXCEPT ![c].pc = pc]
    BY <1>2 DEF Admit, RegisterOrder, EndMatch, RecordTrade, Goto
  <2> QED
    BY <1>1, <2>1 DEF Call
<1>3. CASE Enough(c)
  BY <1>1, <1>3 DEF Enough, Call
<1>4. CASE MatchNode(c)
  <2>1. PICK f : call' = [call EXCEPT ![c].fills = Append(@, f), ![c].rem = f.left]
    BY <1>4 DEF MatchNode
  <2> QED
    BY <1>1, <2>1 DEF Call
<1>5. CASE RemoveResting(c) \/ UpdateResting(c)
  <2> DEFINE next == [call EXCEPT ![c].pc = "record", ![c].next = @ + 1]
  <2>1. c \in DOMAIN next /\ next[c].pc = "record" /\ ~next[c].torn
    BY <1>1 DEF Call
  <2>2. PICK s : call' = next \/ call' = Disturb(next, {s})
    BY <1>5 DEF RemoveResting, UpdateResting
  <2> HIDE DEF next
  <2>3. Disturb(next, {s})[c] = next[c]
    BY <2>1, DisturbUntorn
  <2> QED
    BY <2>1, <2>2, <2>3
<1>6. CASE Unbook(c)
  <2> DEFINE next == [call EXCEPT ![c].pc = "cancel"]
  <2>1. c \in DOMAIN next /\ next[c].pc = "cancel" /\ ~next[c].torn
    BY <1>1 DEF Call
  <2>2. PICK s : call' = Disturb(next, {s})
    BY <1>6 DEF Unbook
  <2> HIDE DEF next
  <2>3. Disturb(next, {s})[c] = next[c]
    BY <2>1, DisturbUntorn
  <2> QED
    BY <2>1, <2>2, <2>3
<1>7. CASE Replace(c)
  <2>1. PICK r, s, q :
          call' = Disturb([call EXCEPT ![c].pc = "submit", ![c].order = r, ![c].rem = q], {s})
    BY <1>7 DEF Replace
  <2> DEFINE next == [call EXCEPT ![c].pc = "submit", ![c].order = r, ![c].rem = q]
  <2>2. c \in DOMAIN next /\ next[c].pc = "submit" /\ ~next[c].torn
    BY <1>1 DEF Call
  <2>3. call' = Disturb(next, {s})
    BY <2>1
  <2> HIDE DEF next
  <2>4. Disturb(next, {s})[c] = next[c]
    BY <2>2, DisturbUntorn
  <2> QED
    BY <2>2, <2>3, <2>4
<1> QED
  BY <1>2, <1>3, <1>4, <1>5, <1>6, <1>7 DEF Continuing

LEMMA UndisturbedContinuing ==
  ASSUME Serialised, IInv, SerialInv, NEW c \in Client, Continuing(c)
  PROVE  Undisturbed'
<1>1. /\ DOMAIN call = {c} /\ DOMAIN call' = {c} /\ closing = {}
      /\ ~call'[c].torn
  BY ContinuingCalls, ContinuingUntorn, Alone DEF IInv, SerialInv, Undisturbed
<1>2. running
  <2>1. call[c].pc = "submit" => running
    BY DEF Continuing, Admit, RegisterOrder, Enough, EndMatch, RecordTrade, MatchNode,
           RemoveResting, UpdateResting, Unbook, Replace, Recording, At
  <2> QED
    BY <1>1, <2>1 DEF SerialInv, Undisturbed
<1>3. running' = running /\ closing' = closing
  BY DEF Continuing, Admit, RegisterOrder, Enough, EndMatch, RecordTrade, MatchNode,
         RemoveResting, UpdateResting, Unbook, Replace
<1> QED
  BY <1>1, <1>2, <1>3 DEF Undisturbed

LEMMA UndisturbedAsking ==
  ASSUME Serialised, IInv, SerialInv, TypeOK', NEW c \in Client,
         SubmitOrder(c) \/ CancelOrder(c) \/ ModifyOrder(c)
  PROVE  Undisturbed' /\ DOMAIN call = {} /\ DOMAIN call' = {c}
<1>1. /\ DOMAIN call = {} /\ closing = {} /\ running' = running /\ closing' = closing
      /\ book' = book /\ tracked' = tracked
  <2>1. DOMAIN call \subseteq {c} /\ closing \subseteq {c}
    BY Alone DEF IInv
  <2>2. /\ Idle(c) /\ running' = running /\ closing' = closing
        /\ book' = book /\ tracked' = tracked
    BY DEF SubmitOrder, CancelOrder, ModifyOrder, books, reporter
  <2> QED
    BY <2>1, <2>2 DEF Idle
<1>2. PICK o : \/ Begin(c, "submit", o)
               \/ running /\ (Begin(c, "unbook", o) \/ Begin(c, "replace", o))
  BY DEF SubmitOrder, CancelOrder, ModifyOrder
<1>3. /\ DOMAIN call' = {c} /\ ~call'[c].torn
      /\ \/ call'[c].pc = "submit"
         \/ running /\ call'[c].pc \in {"unbook", "replace"}
  BY <1>1, <1>2 DEF Begin, Put
<1> QED
  BY <1>1, <1>2, <1>3 DEF SerialInv, Undisturbed

-----------------------------------------------------------------------------
(* Steps that leave the books and the reporter alone.                      *)

LEMMA SerialStill ==
  ASSUME Serialised, IInv, SerialInv, NEW c \in Client,
         ~At(c, "remove"), ~At(c, "update"),
         book' = book, tracked' = tracked, closing' = closing,
         \A i \in DOMAIN orders : /\ orders'[i].type = orders[i].type
                                  /\ orders'[i].qty = orders[i].qty,
         c \in DOMAIN call /\ call[c].pc \notin {"unbook", "replace"} =>
           /\ c \in DOMAIN call' /\ call'[c].pc \notin {"unbook", "replace"}
           /\ call'[c].order.id = call[c].order.id
  PROVE  RestingIsLive' /\ OverfillBounded' /\ LiveOrdersKept' /\ DoneStaysDone
<1>1. \A i \in DOMAIN tracked : i \in DOMAIN orders
  BY DEF IInv, TypeOK, ReporterTypeOK
<1>2. \A s \in Symbol : \A i \in DOMAIN book[s] : Agrees(s, i) /\ i \in DOMAIN orders
  BY EntriesAgree, <1>1 DEF IInv, SerialInv, Agrees, Live
<1>3. \A s \in Symbol : \A i \in DOMAIN book'[s] : Agrees(s, i)'
  BY <1>2 DEF Agrees, Live
<1>4. \A i \in DOMAIN tracked' : tracked'[i].filled < 2 * orders'[i].qty
  BY <1>1 DEF SerialInv, OverfillBounded
<1>5. RestingIsLive' /\ OverfillBounded'
  BY <1>3, <1>4 DEF RestingIsLive, OverfillBounded, Agrees
<1>6. LiveOrdersKept'
  <2> SUFFICES ASSUME NEW i \in DOMAIN tracked, Live(i), orders[i].type \in RestingType,
                      closing = {}, \A s \in Symbol : i \notin DOMAIN book[s]
               PROVE  \E d \in DOMAIN call' : /\ call'[d].order.id = i
                                             /\ call'[d].pc \notin {"unbook", "replace"}
    BY <1>1 DEF LiveOrdersKept, Live
  <2>1. \E d \in DOMAIN call : /\ call[d].order.id = i
                               /\ call[d].pc \notin {"unbook", "replace"}
    BY DEF SerialInv, LiveOrdersKept
  <2>2. \A d \in DOMAIN call : d = c
    BY Alone DEF IInv
  <2> QED
    BY <2>1, <2>2
<1> QED
  BY <1>5, <1>6 DEF DoneStaysDone

\* What is left of SerialInv once the call of c is known.
LEMMA SerialCall ==
  ASSUME Serialised, TypeOK', NEW c \in Client,
         Undisturbed', RestingIsLive', OverfillBounded', LiveOrdersKept',
         InHand(call[c])', EntriesKept(call[c])', InSettlement(call[c])'
  PROVE  SerialInv'
<1>1. \A d \in DOMAIN call' : d = c
  BY DEF Serialised, TypeOK, CallsTypeOK
<1> QED
  BY <1>1 DEF SerialInv, OrdersInHand, EntriesAwaitTrades, TradesInSettlement

\* A client asks for something: its call has no trades yet.
LEMMA SerialAsking ==
  ASSUME Serialised, IInv, SerialInv, TypeOK', NEW c \in Client,
         SubmitOrder(c) \/ CancelOrder(c) \/ ModifyOrder(c)
  PROVE  SerialInv' /\ DoneStaysDone
<1>1. Undisturbed' /\ DOMAIN call = {} /\ DOMAIN call' = {c}
  BY UndisturbedAsking
<1>2. /\ book' = book /\ tracked' = tracked /\ closing' = closing /\ orders' = orders
  BY DEF SubmitOrder, CancelOrder, ModifyOrder, books, reporter
<1>3. ~At(c, "remove") /\ ~At(c, "update")
  BY <1>1 DEF At
<1>4. RestingIsLive' /\ OverfillBounded' /\ LiveOrdersKept' /\ DoneStaysDone
  BY <1>1, <1>2, <1>3, SerialStill
<1>5. call'[c].pc \in {"submit", "unbook", "replace"}
  BY SubmitOrderCalls, NamingCalls DEF IInv
<1>6. InHand(call[c])'
  <2>1. CASE SubmitOrder(c)
    <3>1. PICK r \in Requests :
            Begin(c, "submit",
                  [id |-> nextID, account |-> r.account, symbol |-> r.symbol,
                   side |-> r.side, type |-> r.type, price |-> r.price,
                   qty |-> r.qty, left |-> r.qty, canceled |-> 0])
      BY <2>1 DEF SubmitOrder
    <3>2. call'[c].pc = "submit" /\ call'[c].order.left = call'[c].order.qty
      BY <1>1, <3>1 DEF Begin, Put
    <3>3. call'[c].order.id \notin DOMAIN tracked
      <4>1. call'[c].order.id = nextID
        BY <2>1, SubmitOrderCalls DEF IInv
      <4>2. DOMAIN tracked \subseteq DOMAIN orders /\ nextID \notin DOMAIN orders
        BY DEF IInv, IdsAllocated, TypeOK, ReporterTypeOK, EngineTypeOK, Positive
      <4> QED
        BY <4>1, <4>2
    <3> QED
      BY <1>2, <3>2, <3>3 DEF InHand, Registered
  <2>2. CASE CancelOrder(c) \/ ModifyOrder(c)
    <3>1. call'[c].pc \in {"unbook", "replace"}
      BY <2>2, NamingCalls DEF IInv
    <3> QED
      BY <3>1 DEF InHand, Registered
  <2> QED
    BY <2>1, <2>2
<1>7. EntriesKept(call[c])' /\ InSettlement(call[c])'
  BY <1>5 DEF EntriesKept, InSettlement, Registered
<1> QED
  BY <1>1, <1>4, <1>6, <1>7, SerialCall

-----------------------------------------------------------------------------
(* Matching.                                                               *)

LEMMA SerialAdmit ==
  ASSUME Serialised, IInv, SerialInv, TypeOK', NEW c \in Client, Admit(c)
  PROVE  SerialInv' /\ DoneStaysDone
<1>1. Undisturbed'
  BY UndisturbedContinuing DEF Continuing
<1>2. Moves(c, "register")
  BY MovingCalls DEF IInv
<1>3. /\ c \in DOMAIN call /\ call[c].pc = "submit" /\ orders' = orders
      /\ book' = book /\ tracked' = tracked /\ closing' = closing
  BY DEF Admit, At, books, reporter
<1>4. RestingIsLive' /\ OverfillBounded' /\ LiveOrdersKept' /\ DoneStaysDone
  <2>1. ~At(c, "remove") /\ ~At(c, "update")
    BY <1>3 DEF At
  <2>2. /\ c \in DOMAIN call' /\ call'[c].pc \notin {"unbook", "replace"}
        /\ call'[c].order.id = call[c].order.id
    BY <1>2, <1>3 DEF Moves
  <2> QED
    BY <1>3, <2>1, <2>2, SerialStill
<1>5. InHand(call[c])'
  BY <1>2, <1>3 DEF SerialInv, OrdersInHand, InHand, Moves, Registered, Live
<1>6. EntriesKept(call[c])' /\ InSettlement(call[c])'
  BY <1>2 DEF EntriesKept, InSettlement, Registered, Moves
<1> QED
  BY <1>1, <1>4, <1>5, <1>6, SerialCall

LEMMA SerialEnough ==
  ASSUME Serialised, IInv, SerialInv, TypeOK', NEW c \in Client, Enough(c)
  PROVE  SerialInv' /\ DoneStaysDone
<1>1. Undisturbed'
  BY UndisturbedContinuing DEF Continuing
<1>2. Moves(c, "match")
  BY MovingCalls DEF IInv
<1>3. /\ c \in DOMAIN call /\ call[c].pc = "liquidity" /\ orders' = orders
      /\ book' = book /\ tracked' = tracked /\ closing' = closing
  BY DEF Enough, At, books, reporter
<1>4. RestingIsLive' /\ OverfillBounded' /\ LiveOrdersKept' /\ DoneStaysDone
  <2>1. ~At(c, "remove") /\ ~At(c, "update")
    BY <1>3 DEF At
  <2>2. /\ c \in DOMAIN call' /\ call'[c].pc \notin {"unbook", "replace"}
        /\ call'[c].order.id = call[c].order.id
    BY <1>2, <1>3 DEF Moves
  <2> QED
    BY <1>3, <2>1, <2>2, SerialStill
<1>5. InHand(call[c]) /\ EntriesKept(call[c])
  BY <1>3 DEF SerialInv, OrdersInHand, EntriesAwaitTrades
<1>6. InHand(call[c])'
  BY <1>2, <1>3, <1>5 DEF InHand, Moves, Registered, Live, Remaining, RecordedFills
<1>7. EntriesKept(call[c])' /\ InSettlement(call[c])'
  BY <1>2, <1>3, <1>5 DEF EntriesKept, InSettlement, Registered, Moves, Pending
<1> QED
  BY <1>1, <1>4, <1>6, <1>7, SerialCall

LEMMA SerialEndMatch ==
  ASSUME Serialised, IInv, SerialInv, TypeOK', NEW c \in Client, EndMatch(c)
  PROVE  SerialInv' /\ DoneStaysDone
<1>1. Undisturbed'
  BY UndisturbedContinuing DEF Continuing
<1>2. Moves(c, "record")
  BY MovingCalls DEF IInv
<1>3. /\ c \in DOMAIN call /\ call[c].pc = "match"
      /\ book' = book /\ tracked' = tracked /\ closing' = closing
      /\ call[c].order.type \in RestingType => orders' = orders
  BY DEF EndMatch, At, books, reporter, CancelUnmatched, RestingType
<1>4. \A i \in DOMAIN orders : /\ orders'[i].type = orders[i].type
                               /\ orders'[i].qty = orders[i].qty
  BY EndMatchOrders DEF IInv
<1>5. RestingIsLive' /\ OverfillBounded' /\ LiveOrdersKept' /\ DoneStaysDone
  <2>1. ~At(c, "remove") /\ ~At(c, "update")
    BY <1>3 DEF At
  <2>2. /\ c \in DOMAIN call' /\ call'[c].pc \notin {"unbook", "replace"}
        /\ call'[c].order.id = call[c].order.id
    BY <1>2, <1>3 DEF Moves
  <2> QED
    BY <1>3, <1>4, <2>1, <2>2, SerialStill
<1>6. InHand(call[c]) /\ EntriesKept(call[c])
  BY <1>3 DEF SerialInv, OrdersInHand, EntriesAwaitTrades
<1>7. InHand(call[c])'
  BY <1>2, <1>3, <1>6 DEF InHand, Moves, Registered, Live, Remaining, RecordedFills
<1>8. EntriesKept(call[c])' /\ InSettlement(call[c])'
  BY <1>2, <1>3, <1>6 DEF EntriesKept, InSettlement, Registered, Moves, Pending
<1> QED
  BY <1>1, <1>5, <1>7, <1>8, SerialCall

\* The trade Match makes is with an order it has no trade with yet, at what its
\* entry and the incoming order allow.
LEMMA MatchNodeFill ==
  ASSUME TypeOK, NEW c \in Client, MatchNode(c)
  PROVE  LET m == call[c]
             b == book[m.order.symbol]
         IN  /\ c \in DOMAIN call /\ m.pc = "match" /\ m \in Call
             /\ call'[c].pc = "match" /\ call'[c].order = m.order /\ call'[c].next = m.next
             /\ \E i \in Unvisited(c) :
                  /\ i \in DOMAIN b /\ b[i] \in Resting
                  /\ call'[c].fills = Append(m.fills, FillOf(i, b[i], m.rem))
                  /\ call'[c].rem = FillOf(i, b[i], m.rem).left
                  /\ orders' = [orders EXCEPT ![m.order.id].left = FillOf(i, b[i], m.rem).left]
<1> DEFINE m == call[c]
           b == book[m.order.symbol]
<1>1. c \in DOMAIN call /\ m.pc = "match" /\ m \in Call
  BY DEF MatchNode, At, TypeOK, CallsTypeOK
<1>2. PICK i \in Unvisited(c) :
        /\ call' = [call EXCEPT ![c].fills = Append(@, FillOf(i, b[i], m.rem)),
                                ![c].rem = FillOf(i, b[i], m.rem).left]
        /\ orders' = [orders EXCEPT ![m.order.id].left = FillOf(i, b[i], m.rem).left]
  BY DEF MatchNode
<1>3. i \in DOMAIN b /\ b[i] \in Resting
  <2>1. i \in DOMAIN b
    BY WalksCover DEF ToMeet, Matchable, Counterparties
  <2> QED
    BY <1>1, <2>1 DEF TypeOK, BooksTypeOK, Call, Order
<1>4. /\ call'[c].pc = "match" /\ call'[c].order = m.order /\ call'[c].next = m.next
      /\ call'[c].fills = Append(m.fills, FillOf(i, b[i], m.rem))
      /\ call'[c].rem = FillOf(i, b[i], m.rem).left
  <2>1. PICK f : f = FillOf(i, b[i], m.rem)
    OBVIOUS
  <2>2. call' = [call EXCEPT ![c].fills = Append(@, f), ![c].rem = f.left]
    BY <1>2, <2>1
  <2>3. /\ call'[c].pc = "match" /\ call'[c].order = m.order /\ call'[c].next = m.next
        /\ call'[c].fills = Append(m.fills, f) /\ call'[c].rem = f.left
    BY <1>1, <2>2 DEF Call
  <2> QED
    BY <2>1, <2>3
<1> QED
  BY <1>1, <1>2, <1>3, <1>4

\* What FillOf takes of an entry and leaves of it and of the incoming order.
LEMMA FillOfParts ==
  ASSUME NEW i, NEW entry \in Resting, NEW rem \in Nat
  PROVE  LET f == FillOf(i, entry, rem)
         IN  /\ f.rest = i /\ f.qty \in Nat /\ f.restLeft \in Nat /\ f.left \in Nat
             /\ entry.qty = f.restLeft + f.qty
             /\ f.left > 0 => f.restLeft = 0
BY DEF FillOf, Resting, Positive

LEMMA SerialMatchNode ==
  ASSUME Serialised, IInv, SerialInv, TypeOK', NEW c \in Client, MatchNode(c)
  PROVE  SerialInv' /\ DoneStaysDone
<1> DEFINE m == call[c]
           b == book[m.order.symbol]
<1>1. Undisturbed'
  BY UndisturbedContinuing DEF Continuing
<1>2. PICK i \in Unvisited(c) :
        /\ i \in DOMAIN b /\ b[i] \in Resting
        /\ call'[c].fills = Append(m.fills, FillOf(i, b[i], m.rem))
        /\ call'[c].rem = FillOf(i, b[i], m.rem).left
        /\ orders' = [orders EXCEPT ![m.order.id].left = FillOf(i, b[i], m.rem).left]
  BY MatchNodeFill DEF IInv
<1>3. PICK f : f = FillOf(i, b[i], m.rem)
  OBVIOUS
<1>4. /\ c \in DOMAIN call /\ m.pc = "match" /\ m \in Call /\ m.order \in Order
      /\ call'[c].pc = "match" /\ call'[c].order = m.order /\ call'[c].next = m.next
      /\ book' = book /\ tracked' = tracked /\ closing' = closing
  BY MatchNodeFill DEF IInv, MatchNode, books, reporter, Call
<1>5. DOMAIN call' = DOMAIN call
  BY ContinuingCalls DEF Continuing, IInv
<1>6. /\ InHand(m) /\ EntriesKept(m) /\ Chained(m) /\ WellFormed(m)
      /\ m.next = 1 /\ m.rem \in Nat
  <2>1. InHand(m) /\ EntriesKept(m) /\ Chained(m) /\ WellFormed(m)
    BY <1>4 DEF SerialInv, OrdersInHand, EntriesAwaitTrades, IInv, FillsChained, CallsWellFormed
  <2> QED
    BY <1>4, <2>1, RemNatural DEF Chained, IInv, Working, Registered
<1>7. /\ f.rest = i /\ b[i].qty = f.restLeft + f.qty
  <2>1. m.rem \in Nat /\ b[i] \in Resting
    BY <1>2, <1>6
  <2> HIDE DEF b, m
  <2> QED
    BY <1>3, <2>1, FillOfParts
<1>8. /\ \A j \in DOMAIN orders : /\ orders'[j].type = orders[j].type
                                  /\ orders'[j].qty = orders[j].qty
      /\ orders'[m.order.id].left = f.left
  <2>1. m.order.id \in DOMAIN orders
    BY <1>4, <1>6 DEF WellFormed, Registered
  <2>2. orders' = [orders EXCEPT ![m.order.id].left = f.left]
    BY <1>2, <1>3
  <2>3. orders \in [DOMAIN orders -> Order]
    BY DEF IInv, TypeOK, OrdersTypeOK
  <2>4. orders'[m.order.id].left = f.left
    BY <2>1, <2>2, <2>3 DEF Order
  <2> QED
    BY <2>4, MatchNodeOrders DEF IInv
<1>9. RestingIsLive' /\ OverfillBounded' /\ LiveOrdersKept' /\ DoneStaysDone
  <2>1. ~At(c, "remove") /\ ~At(c, "update")
    BY <1>4 DEF At
  <2>2. /\ c \in DOMAIN call' /\ call'[c].pc \notin {"unbook", "replace"}
        /\ call'[c].order.id = call[c].order.id
    BY <1>4, <1>5
  <2> QED
    BY <1>4, <1>8, <2>1, <2>2, SerialStill
<1>10. InHand(call[c])'
  <2>1. /\ call'[c].rem = f.left /\ m.pc \in Registered /\ call'[c].pc \in Registered
        /\ call'[c].pc \notin {"submit", "register", "cancel", "remove", "update"}
    BY <1>2, <1>3, <1>4 DEF Registered
  <2>2. RecordedFills(m) = 0 /\ RecordedFills(call[c])' = 0
    BY <1>4, <1>6 DEF RecordedFills
  <2>3. Remaining(m, 0) = m.order.qty /\ (\A k : k = 0 => Remaining(call'[c], k) = m.order.qty)
    BY <1>4 DEF Remaining
  <2>4. /\ m.order.id \in DOMAIN tracked /\ tracked[m.order.id].rem = m.order.qty
        /\ Live(m.order.id) <=> m.order.qty > 0
    BY <1>6, <2>1, <2>2, <2>3 DEF InHand
  <2> QED
    BY <1>4, <1>8, <2>1, <2>2, <2>3, <2>4 DEF InHand, Live
<1>11. EntriesKept(call[c])'
  <2>1. /\ call'[c].fills = Append(m.fills, f) /\ m.fills \in Seq(Fill)
        /\ call'[c].order.symbol = m.order.symbol /\ book' = book
    BY <1>2, <1>3, <1>4 DEF Call
  <2>2. \A k \in DOMAIN m.fills : m.fills[k].rest # f.rest
    BY <1>2, <1>7, WalksCover DEF ToMeet, TradedWith
  <2>3. /\ DOMAIN call'[c].fills = DOMAIN m.fills \cup {Len(m.fills) + 1}
        /\ \A k \in DOMAIN m.fills : call'[c].fills[k] = m.fills[k]
        /\ call'[c].fills[Len(m.fills) + 1] = f
    BY <2>1
  <2>4. \A k \in DOMAIN m.fills : k \in Pending(m)
    BY <1>4, <1>6 DEF Pending, Call
  <2>5. /\ \A k, l \in DOMAIN m.fills : m.fills[k].rest = m.fills[l].rest => k = l
        /\ \A k \in DOMAIN m.fills : /\ m.fills[k].rest \in DOMAIN b
                                    /\ b[m.fills[k].rest].qty = m.fills[k].restLeft + m.fills[k].qty
    BY <1>4, <1>6, <2>4 DEF EntriesKept, Registered
  <2>6. \A k, l \in DOMAIN call'[c].fills : call'[c].fills[k].rest = call'[c].fills[l].rest => k = l
    BY <2>2, <2>3, <2>5
  <2>7. \A k \in DOMAIN call'[c].fills :
          /\ call'[c].fills[k].rest \in DOMAIN b
          /\ b[call'[c].fills[k].rest].qty = call'[c].fills[k].restLeft + call'[c].fills[k].qty
    BY <1>2, <1>7, <2>3, <2>5
  <2> QED
    BY <2>1, <2>6, <2>7 DEF EntriesKept, Pending
<1>12. InSettlement(call[c])'
  BY <1>4 DEF InSettlement
<1> QED
  BY <1>1, <1>9, <1>10, <1>11, <1>12, SerialCall

-----------------------------------------------------------------------------
(* Registering an order and recording its trades.                          *)

LEMMA SerialRegister ==
  ASSUME Serialised, IInv, SerialInv, TypeOK', NEW c \in Client, RegisterOrder(c)
  PROVE  SerialInv' /\ DoneStaysDone
<1> DEFINE m == call[c]
<1>1. Undisturbed'
  BY UndisturbedContinuing DEF Continuing
<1>2. PICK pc \in {"liquidity", "match"} : Moves(c, pc)
  BY MovingCalls DEF IInv
<1>3. PICK o : o = m.order
  OBVIOUS
<1>4. PICK j : j = o.id
  OBVIOUS
<1>5. /\ c \in DOMAIN call /\ m.pc = "register" /\ o \in Order
      /\ DOMAIN tracked' = DOMAIN tracked \cup {j}
      /\ tracked'[j] = [status |-> "New", filled |-> 0, rem |-> o.qty]
      /\ \A i \in DOMAIN tracked \ {j} : tracked'[i] = tracked[i]
      /\ orders'[j] = o
      /\ \A i \in DOMAIN orders \ {j} : orders'[i] = orders[i]
  BY <1>3, <1>4, RegisterOrderTypes DEF IInv
<1>6. book' = book /\ closing' = closing
  BY DEF RegisterOrder, books
<1>7. /\ Valid(o) /\ m.fills = <<>> /\ m.next = 1 /\ m.rem = o.qty /\ o.left = o.qty
      /\ o.qty > 0
  <2>1. WellFormed(m) /\ Chained(m) /\ InHand(m)
    BY <1>5 DEF IInv, CallsWellFormed, FillsChained, SerialInv, OrdersInHand
  <2>2. Len(m.fills) = 0
    BY <1>5, <2>1 DEF Chained
  <2> QED
    BY <1>3, <1>5, <2>1, <2>2 DEF WellFormed, Chained, InHand, Working, Remaining, Valid
<1>8. \A s \in Symbol : j \notin DOMAIN book[s]
  BY <1>3, <1>4, <1>5, InHandUnbooked
<1>9. \A i \in DOMAIN tracked : i \in DOMAIN orders
  BY DEF IInv, TypeOK, ReporterTypeOK
<1>10. \A s \in Symbol : \A i \in DOMAIN book[s] : Agrees(s, i) /\ i \in DOMAIN tracked
  <2>1. ~At(c, "remove") /\ ~At(c, "update")
    BY <1>5 DEF At
  <2> QED
    BY <2>1, EntriesAgree DEF IInv, SerialInv, Agrees, Live
<1>11. \A s \in Symbol : \A i \in DOMAIN book'[s] : Agrees(s, i)'
  BY <1>5, <1>6, <1>8, <1>9, <1>10 DEF Agrees, Live
<1>12. \A i \in DOMAIN tracked' : tracked'[i].filled < 2 * orders'[i].qty
  <2>1. tracked'[j].filled < 2 * orders'[j].qty
    BY <1>5, <1>7 DEF Order
  <2> QED
    BY <1>5, <1>9, <2>1 DEF SerialInv, OverfillBounded
<1>13. RestingIsLive' /\ OverfillBounded'
  BY <1>11, <1>12 DEF RestingIsLive, OverfillBounded, Agrees
<1>14. c \in DOMAIN call' /\ call'[c].pc = pc /\ call'[c].order = o
  BY <1>2, <1>3 DEF Moves
<1>15. LiveOrdersKept'
  <2> SUFFICES ASSUME NEW i \in DOMAIN tracked', Live(i)', orders'[i].type \in RestingType,
                      closing = {}, i # j
               PROVE  \E s \in Symbol : i \in DOMAIN book[s]
    BY <1>4, <1>6, <1>14 DEF LiveOrdersKept
  <2>1. i \in DOMAIN tracked /\ Live(i) /\ orders[i].type \in RestingType
    BY <1>5, <1>9 DEF Live
  <2>2. \/ \E s \in Symbol : i \in DOMAIN book[s]
        \/ \E d \in DOMAIN call : call[d].order.id = i
    BY <2>1 DEF SerialInv, LiveOrdersKept
  <2>3. \A d \in DOMAIN call : d = c
    BY Alone DEF IInv
  <2> QED
    BY <2>2, <2>3, <1>3, <1>4
<1>16. InHand(call[c])'
  <2>1. /\ call'[c].fills = <<>> /\ call'[c].next = 1 /\ call'[c].rem = o.qty
        /\ call'[c].pc \in Registered
        /\ call'[c].pc \notin {"submit", "register", "cancel", "remove", "update"}
    BY <1>2, <1>7, <1>14 DEF Moves, Registered
  <2>2. RecordedFills(call[c])' = 0
    BY <2>1 DEF RecordedFills
  <2>3. Remaining(call[c], RecordedFills(call[c]))' = o.qty
    BY <1>14, <2>2 DEF Remaining
  <2>4. Live(j)' /\ tracked'[j].rem = o.qty /\ j \in DOMAIN tracked'
    BY <1>5 DEF Live
  <2> QED
    BY <1>4, <1>5, <1>7, <1>14, <2>1, <2>2, <2>3, <2>4 DEF InHand, Live
<1>17. EntriesKept(call[c])' /\ InSettlement(call[c])'
  BY <1>2, <1>7, <1>14 DEF EntriesKept, InSettlement, Registered, Moves, Pending
<1>18. DoneStaysDone
  <2>1. j \in DOMAIN tracked => Live(j)
    BY <1>3, <1>4, <1>5, InHandLive
  <2> QED
    BY <1>5, <2>1 DEF DoneStaysDone
<1> QED
  BY <1>1, <1>13, <1>15, <1>16, <1>17, <1>18, SerialCall

\* What recording the next trade does to the two orders, and to no other.
LEMMA RecordTradeEffect ==
  ASSUME IInv, NEW c \in Client, RecordTrade(c),
         NEW o, o = call[c].order, NEW f, f = Current(c)
  PROVE  /\ DOMAIN tracked' = DOMAIN tracked
         /\ \A x \in DOMAIN tracked :
              IF x \in {o.id, f.rest} THEN /\ tracked'[x].filled = tracked[x].filled + f.qty
                                           /\ tracked'[x].rem = tracked[x].rem - f.qty
                                           /\ Live(x)' <=> tracked[x].rem - f.qty > 0
                                      ELSE tracked'[x] = tracked[x]
         /\ DOMAIN orders' = DOMAIN orders
         /\ \A x \in DOMAIN orders : /\ orders'[x].type = orders[x].type
                                     /\ orders'[x].qty = orders[x].qty
         /\ o.id \in DOMAIN tracked => orders'[o.id].left = tracked[o.id].rem - f.qty
         /\ DOMAIN call' = DOMAIN call
         /\ Moves(c, IF tracked[f.rest].rem - f.qty <= 0 THEN "remove" ELSE "update")
<1>1. c \in DOMAIN call /\ o \in Order /\ f \in Fill /\ f.qty \in Nat
  BY CurrentFill DEF RecordTrade, IInv, Fill, Positive
<1>2. BookTrade({o.id, f.rest}, f.qty) /\ {o.id, f.rest} \subseteq DOMAIN tracked
  BY DEF RecordTrade
<1>3. DOMAIN tracked \subseteq DOMAIN orders /\ tracked \in [DOMAIN tracked -> Tracked]
      /\ orders \in [DOMAIN orders -> Order]
  BY DEF IInv, TypeOK, ReporterTypeOK, OrdersTypeOK
<1>4. \A x \in DOMAIN tracked :
        IF x \in {o.id, f.rest} THEN /\ tracked'[x].filled = tracked[x].filled + f.qty
                                     /\ tracked'[x].rem = tracked[x].rem - f.qty
                                     /\ Live(x)' <=> tracked[x].rem - f.qty > 0
                                ELSE tracked'[x] = tracked[x]
  <2> TAKE x \in DOMAIN tracked
  <2>1. x \in DOMAIN tracked' /\ tracked[x].rem \in Int
        /\ tracked'[x] = IF x \in {o.id, f.rest} THEN ApplyTrade(tracked[x], f.qty) ELSE tracked[x]
    BY <1>2, <1>3 DEF BookTrade, Tracked
  <2>2. CASE x \in {o.id, f.rest}
    <3>1. /\ tracked'[x].filled = tracked[x].filled + f.qty
          /\ tracked'[x].rem = tracked[x].rem - f.qty
          /\ tracked'[x].status = IF tracked[x].rem - f.qty <= 0 THEN "Filled" ELSE "Partial"
      BY <2>1, <2>2 DEF ApplyTrade
    <3> QED
      BY <1>1, <2>1, <2>2, <3>1 DEF Live
  <2>3. CASE x \notin {o.id, f.rest}
    BY <2>1, <2>3
  <2> QED
    BY <2>2, <2>3
<1>5. o.id \in DOMAIN tracked => orders'[o.id].left = tracked[o.id].rem - f.qty
  BY <1>2, <1>3 DEF BookTrade, Order
<1>6. /\ DOMAIN orders' = DOMAIN orders /\ DOMAIN tracked' = DOMAIN tracked
      /\ \A x \in DOMAIN orders : /\ orders'[x].type = orders[x].type
                                  /\ orders'[x].qty = orders[x].qty
  BY <1>1, <1>2, BookTradeTypes DEF IInv
<1>7. Moves(c, IF tracked[f.rest].rem - f.qty <= 0 THEN "remove" ELSE "update")
  <2>1. Moves(c, IF ApplyTrade(tracked[f.rest], f.qty).status = "Filled" THEN "remove" ELSE "update")
    BY MovingCalls DEF IInv
  <2>2. ApplyTrade(tracked[f.rest], f.qty).status = "Filled" <=> tracked[f.rest].rem - f.qty <= 0
    BY DEF ApplyTrade
  <2> QED
    BY <2>1, <2>2
<1>8. DOMAIN call' = DOMAIN call
  BY <1>7 DEF Moves
<1> QED
  BY <1>4, <1>5, <1>6, <1>7, <1>8

LEMMA SerialRecordTrade ==
  ASSUME Serialised, IInv, SerialInv, TypeOK', NEW c \in Client, RecordTrade(c)
  PROVE  SerialInv' /\ DoneStaysDone
<1>1. PICK m : m = call[c]
  OBVIOUS
<1>2. PICK f : f = Current(c)
  OBVIOUS
<1>3. PICK i : i = m.order.id
  OBVIOUS
<1>4. PICK r : r = f.rest
  OBVIOUS
<1>5. /\ DOMAIN tracked' = DOMAIN tracked
      /\ \A x \in DOMAIN tracked :
           IF x \in {i, r} THEN /\ tracked'[x].filled = tracked[x].filled + f.qty
                                /\ tracked'[x].rem = tracked[x].rem - f.qty
                                /\ Live(x)' <=> tracked[x].rem - f.qty > 0
                           ELSE tracked'[x] = tracked[x]
      /\ DOMAIN orders' = DOMAIN orders
      /\ \A x \in DOMAIN orders : /\ orders'[x].type = orders[x].type
                                  /\ orders'[x].qty = orders[x].qty
      /\ i \in DOMAIN tracked => orders'[i].left = tracked[i].rem - f.qty
  BY <1>1, <1>2, <1>3, <1>4, RecordTradeEffect
<1>6. PICK pc \in {"remove", "update"} :
        /\ Moves(c, pc)
        /\ pc = "remove" <=> tracked[r].rem - f.qty <= 0
  BY <1>1, <1>2, <1>4, RecordTradeEffect
<1>7. book' = book /\ closing' = closing
  BY DEF RecordTrade, books
<1>8. /\ c \in DOMAIN call /\ m \in Call /\ m.pc = "record" /\ m.order \in Order
      /\ m.next \in 1 .. Len(m.fills) /\ f \in Fill /\ f = m.fills[m.next]
  BY <1>1, <1>2, CurrentFill DEF RecordTrade, Recording, At, IInv, TypeOK, CallsTypeOK, Current
<1>9. /\ i \in DOMAIN tracked /\ r \in DOMAIN tracked /\ Live(i) /\ i # r
      /\ m.order.symbol \in Symbol /\ r \in DOMAIN book[m.order.symbol]
      /\ Agrees(m.order.symbol, r)
      /\ book[m.order.symbol][r].qty = f.restLeft + f.qty
  BY <1>1, <1>2, <1>3, <1>4, <1>8, SerialTradesRecorded DEF RecordTrade, Order
<1>10. /\ tracked \in [DOMAIN tracked -> Tracked] /\ orders \in [DOMAIN orders -> Order]
       /\ DOMAIN tracked \subseteq DOMAIN orders
  BY DEF IInv, TypeOK, ReporterTypeOK, OrdersTypeOK
<1>11. \A x \in DOMAIN tracked : /\ tracked[x].filled \in Nat /\ tracked[x].rem \in Int
                                 /\ orders[x].qty \in Int
  BY <1>10 DEF Tracked, Order
<1>12. f.qty \in Nat /\ f.qty > 0 /\ f.restLeft \in Nat /\ f.left \in Nat
  BY <1>8 DEF Fill, Positive
<1>13. /\ InHand(m) /\ EntriesKept(m) /\ Chained(m) /\ WellFormed(m) /\ InAccord(m)
       /\ m.pc \in Registered
  BY <1>1, <1>8 DEF SerialInv, OrdersInHand, EntriesAwaitTrades, IInv, FillsChained,
                    CallsWellFormed, OrdersMatchCalls, Registered
<1>14. tracked[i].rem - f.qty = f.left
  <2>1. m.fills[m.next].left + m.fills[m.next].qty = Remaining(m, m.next - 1)
    BY <1>8, <1>13 DEF Chained, Working, Call
  <2>2. RecordedFills(m) = m.next - 1
    BY <1>8 DEF RecordedFills
  <2>3. tracked[i].rem = f.left + f.qty
    BY <1>3, <1>8, <1>13, <2>1, <2>2 DEF InHand
  <2> QED
    BY <1>12, <2>3
<1>15. tracked[i].filled + tracked[i].rem = orders[i].qty /\ orders[i].qty > 0
  <2>1. tracked[i].filled + tracked[i].rem = orders[i].qty
    BY <1>1, <1>3, <1>8, <1>9, <1>13, ConservedWorking DEF IInv
  <2> QED
    BY <2>1, <1>3, <1>13 DEF WellFormed, InAccord, Valid, Working
<1>16. /\ tracked[r].rem - f.qty <= f.restLeft
       /\ tracked'[r].filled + f.restLeft < 2 * orders[r].qty
       /\ tracked'[r].filled < 2 * orders[r].qty
  <2>1. /\ tracked[r].rem <= f.restLeft + f.qty
        /\ tracked[r].filled + (f.restLeft + f.qty) < 2 * orders[r].qty
    BY <1>9 DEF Agrees
  <2>2. tracked'[r].filled = tracked[r].filled + f.qty
    BY <1>5, <1>9
  <2> QED
    BY <2>1, <2>2, <1>9, <1>10, <1>11, <1>12
<1>17. /\ c \in DOMAIN call' /\ call'[c].pc = pc /\ call'[c].order = m.order
       /\ call'[c].rem = m.rem /\ call'[c].fills = m.fills /\ call'[c].next = m.next
  BY <1>1, <1>6 DEF Moves
<1>18. \A x \in DOMAIN tracked : Live(x)' => Live(x)
  BY <1>4, <1>5, <1>9 DEF Agrees, Live
<1>19. RestingIsLive' /\ OverfillBounded'
  <2>1. ASSUME NEW s \in Symbol, NEW x \in DOMAIN book'[s]
        PROVE  Agrees(s, x)' \/ Settling(x)'
    <3>1. CASE x = r
      BY <1>2, <1>4, <1>6, <1>8, <1>17, <3>1 DEF Settling, At, Current
    <3>2. CASE x # r
      <4>1. x # i
        BY <1>1, <1>3, <1>7, <1>8, InHandUnbooked
      <4>2. Agrees(s, x)
        <5>1. ~At(c, "remove") /\ ~At(c, "update")
          BY <1>1, <1>8 DEF At
        <5> QED
          BY <5>1, <1>7, EntriesAgree DEF IInv, SerialInv
      <4>3. x \in DOMAIN tracked /\ tracked'[x] = tracked[x] /\ orders'[x].qty = orders[x].qty
        BY <3>2, <4>1, <4>2, <1>5, <1>10 DEF Agrees, Live
      <4> QED
        BY <4>2, <4>3, <1>5, <1>7 DEF Agrees, Live
    <3> QED
      BY <3>1, <3>2
  <2>2. ASSUME NEW x \in DOMAIN tracked'
        PROVE  tracked'[x].filled < 2 * orders'[x].qty
    <3>1. x \in DOMAIN tracked /\ orders'[x].qty = orders[x].qty
      BY <1>5, <1>10
    <3>2. CASE x = i
      <4>1. tracked'[i].filled = tracked[i].filled + f.qty
        BY <1>5, <1>9
      <4> QED
        BY <3>1, <3>2, <4>1, <1>11, <1>12, <1>14, <1>15
    <3>3. CASE x = r
      BY <3>1, <3>3, <1>16
    <3>4. CASE x \notin {i, r}
      BY <3>1, <3>4, <1>5 DEF SerialInv, OverfillBounded
    <3> QED
      BY <3>2, <3>3, <3>4
  <2> QED
    BY <2>1, <2>2 DEF RestingIsLive, OverfillBounded, Agrees
<1>20. LiveOrdersKept'
  <2> SUFFICES ASSUME NEW x \in DOMAIN tracked, Live(x), orders[x].type \in RestingType,
                      closing = {}, \A s \in Symbol : x \notin DOMAIN book[s]
               PROVE  x = m.order.id
    BY <1>5, <1>6, <1>7, <1>10, <1>17, <1>18 DEF LiveOrdersKept
  <2>1. \E d \in DOMAIN call : call[d].order.id = x
    BY DEF SerialInv, LiveOrdersKept
  <2>2. \A d \in DOMAIN call : d = c
    BY Alone DEF IInv
  <2> QED
    BY <1>1, <2>1, <2>2
<1>21. InHand(call[c])'
  <2>1. RecordedFills(call[c])' = m.next /\ m.next # 0
    BY <1>6, <1>8, <1>17 DEF RecordedFills
  <2>2. Remaining(call[c], RecordedFills(call[c]))' = f.left
    BY <1>8, <1>17, <2>1 DEF Remaining
  <2>3. /\ tracked'[i].rem = f.left /\ i \in DOMAIN tracked'
        /\ Live(i)' <=> f.left > 0
        /\ orders'[i].left = tracked'[i].rem
    BY <1>5, <1>9, <1>14
  <2>4. /\ call'[c].pc \in Registered /\ call'[c].pc \notin {"submit", "register", "cancel"}
        /\ call'[c].order.id = i
    BY <1>3, <1>6, <1>17 DEF Registered
  <2> QED
    BY <2>1, <2>2, <2>3, <2>4 DEF InHand, Live
<1>22. EntriesKept(call[c])'
  BY <1>7, <1>13, <1>17 DEF EntriesKept, Pending
<1>23. InSettlement(call[c])'
  <2>1. call'[c].fills[call'[c].next].rest = r /\ call'[c].fills[call'[c].next].restLeft = f.restLeft
    BY <1>4, <1>8, <1>17
  <2>2. pc = "remove" => ~Live(r)'
    BY <1>5, <1>6, <1>9, <1>11, <1>12
  <2>3. pc = "update" => /\ Live(r)' /\ 0 < tracked'[r].rem /\ tracked'[r].rem <= f.restLeft
                         /\ tracked'[r].filled + f.restLeft < 2 * orders'[r].qty
    BY <1>5, <1>6, <1>9, <1>10, <1>11, <1>12, <1>16
  <2> QED
    BY <1>17, <2>1, <2>2, <2>3 DEF InSettlement, Live
<1>24. DoneStaysDone
  BY <1>5, <1>9 DEF DoneStaysDone, Agrees
<1>25. Undisturbed'
  BY UndisturbedContinuing DEF Continuing
<1> QED
  BY <1>19, <1>20, <1>21, <1>22, <1>23, <1>24, <1>25, SerialCall

-----------------------------------------------------------------------------
(* Settling trades in the book.                                            *)

LEMMA WithoutEffect ==
  ASSUME TypeOK, NEW s \in Symbol, NEW i, book' = Without(s, i)
  PROVE  \A t \in Symbol :
           /\ DOMAIN book'[t] = IF t = s THEN DOMAIN book[t] \ {i} ELSE DOMAIN book[t]
           /\ \A x \in DOMAIN book'[t] : book'[t][x] = book[t][x]
<1>1. book = [t \in Symbol |-> book[t]]
  BY DEF TypeOK, BooksTypeOK
<1>2. /\ book'[s] = Drop(book[s], i)
      /\ \A t \in Symbol : t # s => book'[t] = book[t]
  BY <1>1 DEF Without, DeleteOrder
<1>3. /\ DOMAIN Drop(book[s], i) = DOMAIN book[s] \ {i}
      /\ \A x \in DOMAIN book[s] \ {i} : Drop(book[s], i)[x] = book[s][x]
  BY DEF Drop
<1> QED
  BY <1>2, <1>3

LEMMA ResizedEffect ==
  ASSUME TypeOK, NEW s \in Symbol, NEW i \in DOMAIN book[s], NEW q \in Nat, q > 0,
         book' = Resized(s, i, q)
  PROVE  /\ \A t \in Symbol : DOMAIN book'[t] = DOMAIN book[t]
         /\ \A t \in Symbol : \A x \in DOMAIN book[t] :
              ~(t = s /\ x = i) => book'[t][x] = book[t][x]
         /\ book'[s][i].qty = q
         /\ book'[s][i].account = book[s][i].account
         /\ book'[s][i].side = book[s][i].side
         /\ book'[s][i].price = book[s][i].price
<1>1. book = [t \in Symbol |-> book[t]] /\ book[s] \in [DOMAIN book[s] -> Resting]
  BY DEF TypeOK, BooksTypeOK
<1>2. /\ book'[s] = [book[s] EXCEPT ![i].qty = q]
      /\ \A t \in Symbol : t # s => book'[t] = book[t]
  BY <1>1 DEF Resized, ResizeOrder
<1>3. /\ DOMAIN book'[s] = DOMAIN book[s] /\ book'[s][i] = [book[s][i] EXCEPT !.qty = q]
      /\ \A x \in DOMAIN book[s] : x # i => book'[s][x] = book[s][x]
  BY <1>1, <1>2
<1>4. /\ book'[s][i].qty = q
      /\ book'[s][i].account = book[s][i].account
      /\ book'[s][i].side = book[s][i].side
      /\ book'[s][i].price = book[s][i].price
  BY <1>1, <1>3 DEF Resting
<1> QED
  BY <1>2, <1>3, <1>4

\* What holds while a trade is being settled, and what settling does to the call.
LEMMA SettlingCall ==
  ASSUME Serialised, IInv, SerialInv, NEW c \in Client, RemoveResting(c) \/ UpdateResting(c),
         NEW m, m = call[c], NEW f, f = Current(c)
  PROVE  /\ c \in DOMAIN call /\ DOMAIN call' = DOMAIN call /\ m \in Call
         /\ m.pc \in {"remove", "update"} /\ m.order.symbol \in Symbol
         /\ m.next \in DOMAIN m.fills /\ m.next \in Nat /\ f = m.fills[m.next] /\ f \in Fill
         /\ f.rest \in DOMAIN book[m.order.symbol]
         /\ \A k \in DOMAIN m.fills : m.fills[k].rest = f.rest => k = m.next
         /\ InHand(m) /\ EntriesKept(m) /\ InSettlement(m)
         /\ call'[c].pc = "record" /\ call'[c].order = m.order /\ call'[c].rem = m.rem
         /\ call'[c].fills = m.fills /\ call'[c].next = m.next + 1
         /\ tracked' = tracked /\ orders' = orders /\ closing' = closing
<1>1. /\ c \in DOMAIN call /\ m.pc \in {"remove", "update"} /\ m \in Call
      /\ m.order \in Order /\ m.next \in 1 .. Len(m.fills) /\ f \in Fill
      /\ f = m.fills[m.next]
  BY CurrentFill DEF IInv, RemoveResting, UpdateResting, At, TypeOK, CallsTypeOK, Current
<1>2. m.next \in DOMAIN m.fills /\ m.next \in Nat /\ m.order.symbol \in Symbol
  BY <1>1 DEF Call, Order
<1>3. InHand(m) /\ EntriesKept(m) /\ InSettlement(m) /\ m.pc \in Registered
  BY <1>1 DEF SerialInv, OrdersInHand, EntriesAwaitTrades, TradesInSettlement, Registered
<1>4. /\ f.rest \in DOMAIN book[m.order.symbol]
      /\ \A k \in DOMAIN m.fills : m.fills[k].rest = f.rest => k = m.next
  BY <1>1, <1>2, <1>3 DEF EntriesKept, Pending
<1>5. /\ DOMAIN call' = DOMAIN call
      /\ call'[c].pc = "record" /\ call'[c].order = m.order /\ call'[c].rem = m.rem
      /\ call'[c].fills = m.fills /\ call'[c].next = m.next + 1
  BY SettleCalls DEF IInv
<1>6. tracked' = tracked /\ orders' = orders /\ closing' = closing
  BY DEF RemoveResting, UpdateResting, reporter
<1> QED
  BY <1>1, <1>2, <1>3, <1>4, <1>5, <1>6

\* Settling leaves the order in hand as it is, and its own trade behind.
LEMMA SettlingInHand ==
  ASSUME Serialised, IInv, SerialInv, NEW c \in Client, RemoveResting(c) \/ UpdateResting(c)
  PROVE  InHand(call[c])' /\ InSettlement(call[c])'
<1>1. PICK m : m = call[c]
  OBVIOUS
<1>2. /\ m.pc \in {"remove", "update"} /\ m.next \in Nat /\ InHand(m) /\ m \in Call
      /\ call'[c].pc = "record" /\ call'[c].order = m.order /\ call'[c].rem = m.rem
      /\ call'[c].fills = m.fills /\ call'[c].next = m.next + 1
      /\ tracked' = tracked /\ orders' = orders
  BY <1>1, SettlingCall
<1>3. RecordedFills(m) = m.next /\ RecordedFills(call[c])' = m.next
  BY <1>2 DEF RecordedFills
<1>4. Remaining(call[c], RecordedFills(call[c]))' = Remaining(m, RecordedFills(m))
  BY <1>2, <1>3 DEF Remaining
<1>5. m.pc \in Registered /\ call'[c].pc \in Registered
  BY <1>2 DEF Registered
<1>6. InHand(call[c])'
  BY <1>2, <1>3, <1>4, <1>5 DEF InHand, Live
<1> QED
  BY <1>2, <1>6 DEF InSettlement

LEMMA SerialRemoveResting ==
  ASSUME Serialised, IInv, SerialInv, TypeOK', NEW c \in Client, RemoveResting(c)
  PROVE  SerialInv' /\ DoneStaysDone
<1>1. PICK m : m = call[c]
  OBVIOUS
<1>2. PICK f : f = Current(c)
  OBVIOUS
<1>3. PICK r : r = f.rest
  OBVIOUS
<1>4. PICK s : s = m.order.symbol
  OBVIOUS
<1>5. /\ c \in DOMAIN call /\ DOMAIN call' = DOMAIN call /\ m \in Call
      /\ m.pc = "remove" /\ s \in Symbol
      /\ m.next \in DOMAIN m.fills /\ m.next \in Nat /\ f = m.fills[m.next]
      /\ r \in DOMAIN book[s]
      /\ \A k \in DOMAIN m.fills : m.fills[k].rest = r => k = m.next
      /\ InHand(m) /\ EntriesKept(m) /\ InSettlement(m)
      /\ call'[c].pc = "record" /\ call'[c].order = m.order
      /\ call'[c].fills = m.fills /\ call'[c].next = m.next + 1
      /\ tracked' = tracked /\ orders' = orders /\ closing' = closing
  <2>1. m.pc = "remove"
    BY <1>1 DEF RemoveResting, At
  <2> QED
    BY <1>1, <1>2, <1>3, <1>4, <2>1, SettlingCall
<1>6. \A t \in Symbol :
        /\ DOMAIN book'[t] = IF t = s THEN DOMAIN book[t] \ {r} ELSE DOMAIN book[t]
        /\ \A x \in DOMAIN book'[t] : book'[t][x] = book[t][x]
  <2>1. book' = Without(s, r) /\ TypeOK
    BY <1>1, <1>2, <1>3, <1>4 DEF RemoveResting, IInv
  <2> QED
    BY <1>5, <2>1, WithoutEffect
<1>7. \A t \in Symbol : r \in DOMAIN book[t] => t = s
  BY <1>5 DEF IInv, OnePlacePerOrder
<1>8. RestingIsLive' /\ OverfillBounded'
  <2>1. ASSUME NEW t \in Symbol, NEW x \in DOMAIN book'[t]
        PROVE  Agrees(t, x)'
    <3>1. x \in DOMAIN book[t] /\ book'[t][x] = book[t][x] /\ x # r
      BY <1>6, <1>7
    <3>2. Agrees(t, x)
      BY <1>2, <1>3, <3>1, OtherEntriesAgree DEF IInv, SerialInv
    <3> QED
      BY <1>5, <3>1, <3>2 DEF Agrees, Live
  <2>2. \A x \in DOMAIN tracked' : tracked'[x].filled < 2 * orders'[x].qty
    BY <1>5 DEF SerialInv, OverfillBounded
  <2> QED
    BY <2>1, <2>2 DEF RestingIsLive, OverfillBounded, Agrees
<1>9. LiveOrdersKept'
  <2> SUFFICES ASSUME NEW x \in DOMAIN tracked, Live(x), orders[x].type \in RestingType,
                      closing = {}
               PROVE  (\E t \in Symbol : x \in DOMAIN book'[t]) \/ x = m.order.id
    BY <1>5 DEF LiveOrdersKept, Live
  <2>1. (\E t \in Symbol : x \in DOMAIN book[t]) \/ \E d \in DOMAIN call : call[d].order.id = x
    BY DEF SerialInv, LiveOrdersKept
  <2>2. \A d \in DOMAIN call : d = c
    BY Alone DEF IInv
  <2>3. x # r
    BY <1>3, <1>5 DEF InSettlement
  <2> QED
    BY <1>1, <1>6, <2>1, <2>2, <2>3
<1>10. EntriesKept(call[c])'
  <2>1. m.pc \in Registered
    BY <1>5 DEF Registered
  <2>2. ASSUME NEW k \in DOMAIN m.fills, k >= m.next + 1
        PROVE  /\ m.fills[k].rest \in DOMAIN book'[s]
               /\ book'[s][m.fills[k].rest].qty = m.fills[k].restLeft + m.fills[k].qty
    <3>1. k \in Pending(m) /\ k # m.next
      BY <1>5, <2>2 DEF Pending, Call
    <3>2. /\ m.fills[k].rest \in DOMAIN book[s] /\ m.fills[k].rest # r
          /\ book[s][m.fills[k].rest].qty = m.fills[k].restLeft + m.fills[k].qty
      BY <1>4, <1>5, <2>1, <3>1 DEF EntriesKept
    <3> QED
      BY <1>5, <1>6, <3>2
  <2> QED
    BY <1>4, <1>5, <2>1, <2>2 DEF EntriesKept, Pending
<1>11. InHand(call[c])' /\ InSettlement(call[c])'
  BY SettlingInHand
<1>12. Undisturbed'
  BY UndisturbedContinuing DEF Continuing
<1>13. DoneStaysDone
  BY <1>5 DEF DoneStaysDone
<1> QED
  BY <1>8, <1>9, <1>10, <1>11, <1>12, <1>13, SerialCall

LEMMA SerialUpdateResting ==
  ASSUME Serialised, IInv, SerialInv, TypeOK', NEW c \in Client, UpdateResting(c)
  PROVE  SerialInv' /\ DoneStaysDone
<1>1. PICK m : m = call[c]
  OBVIOUS
<1>2. PICK f : f = Current(c)
  OBVIOUS
<1>3. PICK r : r = f.rest
  OBVIOUS
<1>4. PICK s : s = m.order.symbol
  OBVIOUS
<1>5. /\ c \in DOMAIN call /\ DOMAIN call' = DOMAIN call /\ m \in Call
      /\ m.pc = "update" /\ s \in Symbol
      /\ m.next \in DOMAIN m.fills /\ m.next \in Nat /\ f = m.fills[m.next] /\ f \in Fill
      /\ r \in DOMAIN book[s]
      /\ \A k \in DOMAIN m.fills : m.fills[k].rest = r => k = m.next
      /\ InHand(m) /\ EntriesKept(m) /\ InSettlement(m)
      /\ call'[c].pc = "record" /\ call'[c].order = m.order
      /\ call'[c].fills = m.fills /\ call'[c].next = m.next + 1
      /\ tracked' = tracked /\ orders' = orders /\ closing' = closing
  <2>1. m.pc = "update"
    BY <1>1 DEF UpdateResting, At
  <2> QED
    BY <1>1, <1>2, <1>3, <1>4, <2>1, SettlingCall
<1>6. /\ Live(r) /\ 0 < tracked[r].rem /\ tracked[r].rem <= f.restLeft
      /\ tracked[r].filled + f.restLeft < 2 * orders[r].qty
  BY <1>3, <1>5 DEF InSettlement
<1>7. f.restLeft \in Nat /\ f.restLeft > 0
  <2>1. tracked[r].rem \in Int /\ f.restLeft \in Nat
    BY <1>5, <1>6 DEF Live, IInv, TypeOK, ReporterTypeOK, Tracked, Fill
  <2> QED
    BY <1>6, <2>1
<1>8. /\ \A t \in Symbol : DOMAIN book'[t] = DOMAIN book[t]
      /\ \A t \in Symbol : \A x \in DOMAIN book[t] :
           ~(t = s /\ x = r) => book'[t][x] = book[t][x]
      /\ book'[s][r].qty = f.restLeft
  <2>1. PICK q : q = f.restLeft
    OBVIOUS
  <2>2. book' = Resized(s, r, q) /\ TypeOK /\ q \in Nat /\ q > 0
    BY <1>1, <1>2, <1>3, <1>4, <1>7, <2>1 DEF UpdateResting, IInv
  <2>3. /\ \A t \in Symbol : DOMAIN book'[t] = DOMAIN book[t]
        /\ \A t \in Symbol : \A x \in DOMAIN book[t] :
             ~(t = s /\ x = r) => book'[t][x] = book[t][x]
        /\ book'[s][r].qty = q
    BY <1>5, <2>2, ResizedEffect
  <2> QED
    BY <2>1, <2>3
<1>9. \A t \in Symbol : r \in DOMAIN book[t] => t = s
  BY <1>5 DEF IInv, OnePlacePerOrder
<1>10. RestingIsLive' /\ OverfillBounded'
  <2>1. ASSUME NEW t \in Symbol, NEW x \in DOMAIN book'[t]
        PROVE  Agrees(t, x)'
    <3>1. CASE x = r
      <4>1. t = s
        BY <1>8, <1>9, <3>1
      <4> QED
        BY <1>5, <1>6, <1>8, <3>1, <4>1 DEF Agrees, Live
    <3>2. CASE x # r
      <4>1. Agrees(t, x) /\ book'[t][x] = book[t][x]
        BY <1>2, <1>3, <1>8, <3>2, OtherEntriesAgree DEF IInv, SerialInv
      <4> QED
        BY <1>5, <4>1 DEF Agrees, Live
    <3> QED
      BY <3>1, <3>2
  <2>2. \A x \in DOMAIN tracked' : tracked'[x].filled < 2 * orders'[x].qty
    BY <1>5 DEF SerialInv, OverfillBounded
  <2> QED
    BY <2>1, <2>2 DEF RestingIsLive, OverfillBounded, Agrees
<1>11. LiveOrdersKept'
  <2> SUFFICES ASSUME NEW x \in DOMAIN tracked, Live(x), orders[x].type \in RestingType,
                      closing = {}
               PROVE  (\E t \in Symbol : x \in DOMAIN book'[t]) \/ x = m.order.id
    BY <1>5 DEF LiveOrdersKept, Live
  <2>1. (\E t \in Symbol : x \in DOMAIN book[t]) \/ \E d \in DOMAIN call : call[d].order.id = x
    BY DEF SerialInv, LiveOrdersKept
  <2>2. \A d \in DOMAIN call : d = c
    BY Alone DEF IInv
  <2> QED
    BY <1>1, <1>8, <2>1, <2>2
<1>12. EntriesKept(call[c])'
  <2>1. m.pc \in Registered
    BY <1>5 DEF Registered
  <2>2. ASSUME NEW k \in DOMAIN m.fills, k >= m.next + 1
        PROVE  /\ m.fills[k].rest \in DOMAIN book'[s]
               /\ book'[s][m.fills[k].rest].qty = m.fills[k].restLeft + m.fills[k].qty
    <3>1. k \in Pending(m) /\ k # m.next
      BY <1>5, <2>2 DEF Pending, Call
    <3>2. /\ m.fills[k].rest \in DOMAIN book[s] /\ m.fills[k].rest # r
          /\ book[s][m.fills[k].rest].qty = m.fills[k].restLeft + m.fills[k].qty
      BY <1>4, <1>5, <2>1, <3>1 DEF EntriesKept
    <3> QED
      BY <1>5, <1>8, <3>2
  <2> QED
    BY <1>4, <1>5, <2>1, <2>2 DEF EntriesKept, Pending
<1>13. InHand(call[c])' /\ InSettlement(call[c])'
  BY SettlingInHand
<1>14. Undisturbed'
  BY UndisturbedContinuing DEF Continuing
<1>15. DoneStaysDone
  BY <1>5 DEF DoneStaysDone
<1> QED
  BY <1>10, <1>11, <1>12, <1>13, <1>14, <1>15, SerialCall

-----------------------------------------------------------------------------
(* Cancellation, modification and Close.                                   *)

\* CancelOrder and ModifyOrder take a live order out of its book and keep it in
\* hand.
LEMMA SerialTakeOut ==
  ASSUME Serialised, IInv, SerialInv, TypeOK', NEW c \in Client, Unbook(c) \/ Replace(c)
  PROVE  SerialInv' /\ DoneStaysDone
<1>1. PICK i : i = call[c].order.id
  OBVIOUS
<1>2. PICK s : s = call[c].order.symbol
  OBVIOUS
<1>3. /\ c \in DOMAIN call /\ DOMAIN call' = DOMAIN call /\ call[c] \in Call
      /\ s \in Symbol
  BY <1>2, ContinuingCalls DEF Continuing, IInv, Call, Order
<1>4. /\ call[c].pc \in {"unbook", "replace"} /\ i \in DOMAIN book[s]
      /\ book' = Without(s, i)
      /\ tracked' = tracked /\ orders' = orders /\ closing' = closing
  BY <1>1, <1>2 DEF Unbook, Replace, At, reporter
<1>5. \A t \in Symbol :
        /\ DOMAIN book'[t] = IF t = s THEN DOMAIN book[t] \ {i} ELSE DOMAIN book[t]
        /\ \A x \in DOMAIN book'[t] : book'[t][x] = book[t][x]
  BY <1>3, <1>4, WithoutEffect DEF IInv
<1>6. \A t \in Symbol : i \in DOMAIN book[t] => t = s
  BY <1>3, <1>4 DEF IInv, OnePlacePerOrder
<1>7. \A t \in Symbol : \A x \in DOMAIN book[t] : Agrees(t, x)
  <2>1. ~At(c, "remove") /\ ~At(c, "update")
    BY <1>4 DEF At
  <2> QED
    BY <2>1, EntriesAgree DEF IInv, SerialInv
<1>8. RestingIsLive' /\ OverfillBounded'
  <2>1. \A t \in Symbol : \A x \in DOMAIN book'[t] : Agrees(t, x)'
    BY <1>4, <1>5, <1>7 DEF Agrees, Live
  <2>2. \A x \in DOMAIN tracked' : tracked'[x].filled < 2 * orders'[x].qty
    BY <1>4 DEF SerialInv, OverfillBounded
  <2> QED
    BY <2>1, <2>2 DEF RestingIsLive, OverfillBounded, Agrees
<1>9. /\ call'[c].pc \in {"cancel", "submit"} /\ call'[c].order.id = i
      /\ call'[c].pc = "submit" => call'[c].order.left = call'[c].order.qty
  <2>1. CASE Unbook(c)
    BY <1>1, <2>1, MovingCalls DEF IInv, Moves
  <2>2. CASE Replace(c)
    <3>1. call'[c].pc = "submit" /\ call'[c].order.id = i
      BY <1>1, <2>2, ReplaceCalls DEF IInv
    <3>2. PICK q, t, o, e :
            /\ o = ReplacementOf(call[c].order, e)
            /\ call' = Disturb([call EXCEPT ![c].pc = "submit", ![c].order = o, ![c].rem = q], {t})
      BY <2>2 DEF Replace
    <3> DEFINE next == [call EXCEPT ![c].pc = "submit", ![c].order = o, ![c].rem = q]
    <3>3. c \in DOMAIN next /\ next[c].pc = "submit" /\ next[c].order = o
      BY <1>3 DEF Call
    <3>4. call' = Disturb(next, {t})
      BY <3>2
    <3> HIDE DEF next
    <3>5. Disturb(next, {t})[c] = next[c]
      BY <3>3, DisturbUntorn
    <3>6. o.left = o.qty
      BY <3>2 DEF ReplacementOf
    <3> QED
      BY <3>1, <3>3, <3>4, <3>5, <3>6
  <2> QED
    BY <2>1, <2>2
<1>10. Live(i)
  BY <1>3, <1>4, <1>7 DEF Agrees
<1>11. InHand(call[c])'
  <2>1. \A t \in Symbol : i \notin DOMAIN book'[t]
    BY <1>5, <1>6
  <2> QED
    BY <1>4, <1>9, <1>10, <2>1 DEF InHand, Registered, Live
<1>12. EntriesKept(call[c])' /\ InSettlement(call[c])'
  BY <1>9 DEF EntriesKept, InSettlement, Registered
<1>13. LiveOrdersKept'
  <2> SUFFICES ASSUME NEW x \in DOMAIN tracked, Live(x), orders[x].type \in RestingType,
                      closing = {}
               PROVE  (\E t \in Symbol : x \in DOMAIN book'[t]) \/ x = i
    BY <1>3, <1>4, <1>9 DEF LiveOrdersKept, Live
  <2>1. (\E t \in Symbol : x \in DOMAIN book[t]) \/ \E d \in DOMAIN call : call[d].order.id = x
    BY DEF SerialInv, LiveOrdersKept
  <2>2. \A d \in DOMAIN call : d = c
    BY Alone DEF IInv
  <2> QED
    BY <1>1, <1>5, <2>1, <2>2
<1>14. Undisturbed'
  BY UndisturbedContinuing DEF Continuing
<1>15. DoneStaysDone
  BY <1>4 DEF DoneStaysDone
<1> QED
  BY <1>8, <1>11, <1>12, <1>13, <1>14, <1>15, SerialCall

\* Close first empties the books, then the reporter.
LEMMA SerialClose ==
  ASSUME Serialised, IInv, SerialInv, TypeOK', NEW c \in Client, Close(c) \/ ClearReporter(c)
  PROVE  SerialInv' /\ DoneStaysDone
<1>1. DOMAIN call = {} /\ DOMAIN call' = {}
  <2>1. DOMAIN call = {}
    <3>1. CASE Close(c)
      <4>1. DOMAIN call \subseteq {c}
        BY Alone DEF IInv
      <4> QED
        BY <3>1, <4>1 DEF Close, Idle
    <3>2. CASE ClearReporter(c)
      BY <3>2 DEF ClearReporter, SerialInv, Undisturbed
    <3> QED
      BY <3>1, <3>2
  <2> QED
    BY <2>1, CloseCalls DEF IInv
<1>2. /\ ~running' /\ orders' = orders
      /\ \A s \in Symbol : DOMAIN book'[s] = {}
  <2>1. CASE Close(c)
    BY <2>1 DEF Close, EmptyBook
  <2>2. CASE ClearReporter(c)
    BY <2>2 DEF ClearReporter, SerialInv, Undisturbed, books
  <2> QED
    BY <2>1, <2>2
<1>3. \/ closing' = {} /\ DOMAIN tracked' = {}
      \/ closing' # {} /\ tracked' = tracked
  BY DEF Close, ClearReporter, EmptyBook, reporter
<1>4. Undisturbed'
  BY <1>1, <1>2, <1>3 DEF Undisturbed
<1>5. RestingIsLive' /\ OverfillBounded' /\ LiveOrdersKept'
  BY <1>2, <1>3 DEF RestingIsLive, OverfillBounded, LiveOrdersKept, SerialInv
<1>6. OrdersInHand' /\ EntriesAwaitTrades' /\ TradesInSettlement'
  BY <1>1 DEF OrdersInHand, EntriesAwaitTrades, TradesInSettlement
<1>7. DoneStaysDone
  BY <1>3 DEF DoneStaysDone
<1> QED
  BY <1>4, <1>5, <1>6, <1>7 DEF SerialInv

-----------------------------------------------------------------------------
(* The theorems about books and reporter.                                  *)

LEMMA SerialInit == Init => SerialInv
<1> SUFFICES ASSUME Init
             PROVE  SerialInv
  OBVIOUS
<1>1. /\ running /\ closing = {} /\ DOMAIN call = {} /\ DOMAIN tracked = {}
      /\ \A s \in Symbol : DOMAIN book[s] = {}
  BY DEF Init, EmptyBook
<1> QED
  BY <1>1 DEF SerialInv, Undisturbed, OrdersInHand, EntriesAwaitTrades, TradesInSettlement,
              RestingIsLive, LiveOrdersKept, OverfillBounded

LEMMA SerialStutter ==
  ASSUME SerialInv, UNCHANGED vars
  PROVE  SerialInv' /\ DoneStaysDone
<1>1. /\ running' = running /\ closing' = closing /\ book' = book /\ orders' = orders
      /\ tracked' = tracked /\ call' = call
  BY DEF vars
<1>2. Undisturbed' /\ EntriesAwaitTrades'
  BY <1>1 DEF SerialInv, Undisturbed, EntriesAwaitTrades, EntriesKept, Pending
<1>4. OrdersInHand' /\ TradesInSettlement'
  <2>1. OrdersInHand'
    BY <1>1 DEF SerialInv, OrdersInHand, InHand, Live, Remaining, RecordedFills
  <2>2. TradesInSettlement'
    BY <1>1 DEF SerialInv, TradesInSettlement, InSettlement, Live
  <2> QED
    BY <2>1, <2>2
<1>3. RestingIsLive' /\ LiveOrdersKept' /\ OverfillBounded'
  BY <1>1 DEF SerialInv, RestingIsLive, LiveOrdersKept, OverfillBounded, Settling, Current, At, Live
<1> QED
  BY <1>1, <1>2, <1>3, <1>4 DEF SerialInv, DoneStaysDone

\* Of serialised calls every step keeps the invariant and leaves an order that is
\* done as it is.
LEMMA SerialStep ==
  ASSUME Serialised, IInv, SerialInv, [Next]_vars
  PROVE  SerialInv' /\ DoneStaysDone
<1>1. TypeOK'
  BY InvStep DEF IInv
<1>2. ASSUME NEW c \in Client, Step(c) \/ Ask(c)
      PROVE  SerialInv' /\ DoneStaysDone
  <2>1. CASE TurnAway(c) \/ NotFound(c)
    BY <1>1, <2>1, SerialQuietEnd
  <2>2. CASE Refuse(c) \/ Insufficient(c) \/ ReportCancel(c)
    BY <1>1, <2>2, SerialStatus
  <2>3. CASE RecordTradeFails(c)
    BY <2>3, SerialTradesRecorded DEF RecordTradeFails
  <2>4. CASE AddOrder(c)
    BY <1>1, <2>4, SerialAddOrder
  <2>5. CASE CancelRemainder(c)
    BY <1>1, <2>5, SerialCancelRemainder
  <2>6. CASE Finish(c)
    BY <1>1, <2>6, SerialFinish
  <2>7. CASE Admit(c)
    BY <1>1, <2>7, SerialAdmit
  <2>8. CASE RegisterOrder(c)
    BY <1>1, <2>8, SerialRegister
  <2>9. CASE Enough(c)
    BY <1>1, <2>9, SerialEnough
  <2>10. CASE MatchNode(c)
    BY <1>1, <2>10, SerialMatchNode
  <2>11. CASE EndMatch(c)
    BY <1>1, <2>11, SerialEndMatch
  <2>12. CASE RecordTrade(c)
    BY <1>1, <2>12, SerialRecordTrade
  <2>13. CASE RemoveResting(c)
    BY <1>1, <2>13, SerialRemoveResting
  <2>14. CASE UpdateResting(c)
    BY <1>1, <2>14, SerialUpdateResting
  <2>15. CASE Unbook(c) \/ Replace(c)
    BY <1>1, <2>15, SerialTakeOut
  <2>16. CASE SubmitOrder(c) \/ CancelOrder(c) \/ ModifyOrder(c)
    BY <1>1, <2>16, SerialAsking
  <2>17. CASE Close(c) \/ ClearReporter(c)
    BY <1>1, <2>17, SerialClose
  <2> QED
    BY <1>2, <2>1, <2>2, <2>3, <2>4, <2>5, <2>6, <2>7, <2>8, <2>9, <2>10, <2>11, <2>12,
       <2>13, <2>14, <2>15, <2>16, <2>17 DEF Step, Lookup, Ask
<1>3. CASE UNCHANGED vars
  BY <1>3, SerialStutter
<1> QED
  BY <1>2, <1>3 DEF Next

\* The invariant of serialised calls: among its parts, the order a call has in
\* hand is in no book and as far as the reporter has it, and the entries its trades
\* are with are as Match saw them until they are settled.
THEOREM SerialInvariant ==
  ASSUME Serialised
  PROVE  Spec => [](IInv /\ SerialInv)
<1>1. Init => IInv /\ SerialInv
  BY InvInit, SerialInit
<1>2. IInv /\ SerialInv /\ [Next]_vars => (IInv /\ SerialInv)'
  BY InvStep, SerialStep
<1> QED
  BY <1>1, <1>2, PTL DEF Spec

\* Between any two steps of calls that do not race, an entry of a book belongs to
\* an order the reporter holds live, with a remainder the entry covers, but for
\* the entry of the trade that is being settled.
THEOREM RestingOrdersLive ==
  ASSUME Serialised
  PROVE  Spec => []RestingIsLive
<1>1. SerialInv => RestingIsLive
  BY DEF SerialInv
<1> QED
  BY <1>1, SerialInvariant, PTL

\* Between calls that do not race, every order of a resting type the reporter
\* holds live is in a book.
THEOREM LiveOrdersInBooks ==
  ASSUME Serialised
  PROVE  Spec => []LiveOrdersRest
<1>1. IInv /\ SerialInv => LiveOrdersRest
  <2> SUFFICES ASSUME IInv, SerialInv, Quiescent
               PROVE  \A i \in DOMAIN tracked :
                        Live(i) /\ orders[i].type \in RestingType =>
                          \E s \in Symbol : i \in DOMAIN book[s]
    BY DEF LiveOrdersRest
  <2>1. DOMAIN call = {} /\ closing = {}
    BY DEF Quiescent, Idle, IInv, TypeOK, CallsTypeOK, EngineTypeOK
  <2> QED
    BY <2>1 DEF SerialInv, LiveOrdersKept
<1> QED
  BY <1>1, SerialInvariant, PTL

\* When calls do not race, an order that is filled, canceled or rejected keeps
\* its status and its quantities.
THEOREM DoneOrdersFinal ==
  ASSUME Serialised
  PROVE  Spec => TerminalStatusFinal
<1>1. IInv /\ SerialInv /\ [Next]_vars =>
        [\A i \in DOMAIN tracked \cap DOMAIN tracked' :
           ~Live(i) => tracked'[i] = tracked[i]]_vars
  BY SerialStep DEF DoneStaysDone
<1> QED
  BY <1>1, SerialInvariant, PTL DEF Spec, TerminalStatusFinal

\* When calls do not race, resting a partly filled order with its full quantity
\* fills no order to twice its quantity.
THEOREM OverfillsBounded ==
  ASSUME Serialised
  PROVE  Spec => []OverfillBounded
<1>1. SerialInv => OverfillBounded
  BY DEF SerialInv
<1> QED
  BY <1>1, SerialInvariant, PTL

-----------------------------------------------------------------------------
(* No crossed book.                                                        *)

\* A step that takes orders out of books or changes their quantities.
BooksOnlyLose ==
  \A s \in Symbol :
    /\ DOMAIN book'[s] \subseteq DOMAIN book[s]
    /\ \A i \in DOMAIN book'[s] : /\ book'[s][i].account = book[s][i].account
                                  /\ book'[s][i].side = book[s][i].side
                                  /\ book'[s][i].price = book[s][i].price

LEMMA OnlyAddOrderAdds ==
  ASSUME TypeOK, CallsWellFormed, NEW c \in Client, Step(c) \/ Ask(c), ~AddOrder(c)
  PROVE  BooksOnlyLose
<1>1. CASE UpdateResting(c)
  <2>1. PICK f : f = Current(c)
    OBVIOUS
  <2>2. PICK s : s = call[c].order.symbol
    OBVIOUS
  <2>3. s \in Symbol /\ f.restLeft \in Nat /\ book' = Resized(s, f.rest, f.restLeft)
    BY <1>1, <2>1, <2>2, CurrentFill DEF UpdateResting, Order, Fill
  <2>4. CASE f.rest \in DOMAIN book[s] /\ f.restLeft > 0
    <3>1. PICK q : q = f.restLeft
      OBVIOUS
    <3>2. /\ \A t \in Symbol : DOMAIN book'[t] = DOMAIN book[t]
          /\ \A t \in Symbol : \A x \in DOMAIN book[t] :
               ~(t = s /\ x = f.rest) => book'[t][x] = book[t][x]
          /\ book'[s][f.rest].account = book[s][f.rest].account
          /\ book'[s][f.rest].side = book[s][f.rest].side
          /\ book'[s][f.rest].price = book[s][f.rest].price
      BY <2>3, <2>4, <3>1, ResizedEffect
    <3> QED
      BY <3>2 DEF BooksOnlyLose
  <2>5. CASE ~(f.rest \in DOMAIN book[s] /\ f.restLeft > 0)
    <3>1. \A t \in Symbol : book'[t] = book[t]
      BY <2>3, <2>5 DEF Resized, ResizeOrder, TypeOK, BooksTypeOK
    <3> QED
      BY <3>1 DEF BooksOnlyLose
  <2> QED
    BY <2>4, <2>5
<1>2. CASE RemoveResting(c) \/ Unbook(c) \/ Replace(c)
  <2>1. call[c].order.symbol \in Symbol
    <3>1. call[c] \in Call
      BY <1>2, ContinuingCalls DEF Continuing
    <3> QED
      BY <3>1 DEF Call, Order
  <2>2. PICK s, i : s \in Symbol /\ book' = Without(s, i)
    BY <1>2, <2>1 DEF RemoveResting, Unbook, Replace
  <2>3. \A t \in Symbol :
          /\ DOMAIN book'[t] = IF t = s THEN DOMAIN book[t] \ {i} ELSE DOMAIN book[t]
          /\ \A x \in DOMAIN book'[t] : book'[t][x] = book[t][x]
    BY <2>2, WithoutEffect
  <2> QED
    BY <2>3 DEF BooksOnlyLose
<1>3. CASE Close(c)
  BY <1>3 DEF Close, EmptyBook, BooksOnlyLose
<1>4. CASE ~UpdateResting(c) /\ ~RemoveResting(c) /\ ~Unbook(c) /\ ~Replace(c) /\ ~Close(c)
  <2>1. book' = book
    BY <1>4 DEF Step, Ask, Lookup, TurnAway, Refuse, Admit, RegisterOrder, Enough, Insufficient,
                MatchNode, EndMatch, RecordTrade, RecordTradeFails, CancelRemainder, Finish,
                NotFound, ReportCancel, ClearReporter, SubmitOrder, CancelOrder, ModifyOrder, books
  <2> QED
    BY <2>1 DEF BooksOnlyLose
<1> QED
  BY <1>1, <1>2, <1>3, <1>4

\* When the matcher looks at as many levels as there are prices, every order is
\* on a level it looks at.
LEMMA AllLevelsSeen ==
  ASSUME DepthSuffices, PricesKnown, NEW s \in Symbol, NEW i \in DOMAIN book[s],
         \A j \in DOMAIN book[s] : book[s][j].price \in Int
  PROVE  WithinTop(book[s], i, MaxDepthLevels)
<1> DEFINE b == book[s]
           p == b[i].price
           L == LevelsAhead(b, i)
<1>1. p \in Prices /\ p \in Int /\ \A j \in DOMAIN b : b[j].price \in Prices
  BY DEF PricesKnown
<1>2. L \subseteq Prices \ {p}
  BY <1>1 DEF LevelsAhead, Better
<1>3. /\ IsFiniteSet(Prices \ {p})
      /\ Cardinality(Prices \ {p}) = Cardinality(Prices) - 1
  BY <1>1, FS_RemoveElement DEF DepthSuffices
<1>4. Cardinality(L) <= Cardinality(Prices \ {p})
  BY <1>2, <1>3, FS_Subset
<1>5. /\ Cardinality(L) \in Nat /\ Cardinality(Prices) \in Nat
  BY <1>2, <1>3, FS_Subset, FS_CardinalityType DEF DepthSuffices
<1>6. Cardinality(L) < MaxDepthLevels
  BY <1>3, <1>4, <1>5, EngineAssumption DEF DepthSuffices
<1> QED
  BY <1>6 DEF WithinTop

\* The prices of entries and orders are prices clients asked for.
LEMMA PricesStep ==
  ASSUME Serialised, IInv, SerialInv, PricesKnown, TypeOK', NEW c \in Client, Step(c) \/ Ask(c)
  PROVE  PricesKnown'
<1>1. \A s \in Symbol : \A i \in DOMAIN book'[s] : book'[s][i].price \in Prices
  <2>1. CASE ~AddOrder(c)
    <3>1. BooksOnlyLose
      BY <2>1, OnlyAddOrderAdds DEF IInv
    <3> QED
      BY <3>1 DEF BooksOnlyLose, PricesKnown
  <2>2. CASE AddOrder(c)
    <3>1. PICK o : o = call[c].order
      OBVIOUS
    <3>2. PICK e : e = EntryOf(o, arrivals + 1)
      OBVIOUS
    <3>3. /\ DOMAIN book'[o.symbol] = DOMAIN book[o.symbol] \cup {o.id}
          /\ book'[o.symbol][o.id] = e
          /\ \A i \in DOMAIN book[o.symbol] : book'[o.symbol][i] = book[o.symbol][i]
          /\ \A s \in Symbol : s # o.symbol => book'[s] = book[s]
      BY <2>2, <3>1, <3>2, AddOrderEffect
    <3>4. e.price \in Prices
      <4>1. o.price \in Prices
        BY <2>2, <3>1 DEF AddOrder, Recorded, At, PricesKnown, Working, Registered
      <4> QED
        BY <3>2, <4>1 DEF EntryOf
    <3> QED
      BY <3>3, <3>4 DEF PricesKnown
  <2> QED
    BY <2>1, <2>2
<1>2. ASSUME NEW d \in DOMAIN call', call'[d].pc \in {"submit", "replace"} \cup Working
      PROVE  call'[d].order.price \in Prices
  <2>1. d = c
    BY <1>2, Serialised DEF Serialised, TypeOK, CallsTypeOK
  <2>2. CASE Continuing(c) /\ ~Replace(c)
    <3>1. /\ c \in DOMAIN call /\ call'[c].order = call[c].order
          /\ call[c].pc \in {"submit"} \cup Working \/ call'[c].pc = "cancel"
      <4>1. CASE \/ Admit(c) \/ RegisterOrder(c) \/ Enough(c) \/ EndMatch(c) \/ RecordTrade(c)
                 \/ Unbook(c)
        BY <4>1, MovingCalls DEF Moves, IInv, Admit, RegisterOrder, Enough, EndMatch, RecordTrade,
           Recording, At, Working, Registered
      <4>2. CASE MatchNode(c)
        BY <4>2, MatchNodeCalls DEF IInv, Working, Registered
      <4>3. CASE RemoveResting(c) \/ UpdateResting(c)
        BY <4>3, SettleCalls DEF IInv, Working, Registered
      <4> QED
        BY <2>2, <4>1, <4>2, <4>3 DEF Continuing
    <3>2. call'[c].pc # "cancel"
      BY <1>2, <2>1 DEF Working, Registered
    <3> QED
      BY <2>1, <3>1, <3>2 DEF PricesKnown
  <2>3. CASE Replace(c)
    <3>1. call[c] \in Call /\ c \in DOMAIN call /\ call[c].pc = "replace"
      BY <2>3, ContinuingCalls DEF Continuing, IInv, Replace, At
    <3>2. PICK q, t, o, e :
            /\ o = ReplacementOf(call[c].order, e)
            /\ call' = Disturb([call EXCEPT ![c].pc = "submit", ![c].order = o, ![c].rem = q], {t})
      BY <2>3 DEF Replace
    <3> DEFINE next == [call EXCEPT ![c].pc = "submit", ![c].order = o, ![c].rem = q]
    <3>3. c \in DOMAIN next /\ next[c].pc = "submit" /\ next[c].order = o
      BY <3>1 DEF Call
    <3>4. call' = Disturb(next, {t})
      BY <3>2
    <3> HIDE DEF next
    <3>5. Disturb(next, {t})[c] = next[c]
      BY <3>3, DisturbUntorn
    <3>6. o.price = call[c].order.price
      BY <3>2 DEF ReplacementOf
    <3>7. call[c].order.price \in Prices
      BY <3>1 DEF PricesKnown
    <3> QED
      BY <2>1, <3>3, <3>4, <3>5, <3>6, <3>7
  <2>4. CASE SubmitOrder(c)
    <3>1. PICK r \in Requests :
            Begin(c, "submit",
                  [id |-> nextID, account |-> r.account, symbol |-> r.symbol,
                   side |-> r.side, type |-> r.type, price |-> r.price,
                   qty |-> r.qty, left |-> r.qty, canceled |-> 0])
      BY <2>4 DEF SubmitOrder
    <3>2. call'[c].order.price = r.price
      BY <3>1 DEF Begin, Put
    <3> QED
      BY <2>1, <3>2 DEF Prices
  <2>5. CASE ModifyOrder(c)
    <3>1. PICK i \in DOMAIN orders, s \in Symbol, a \in Amendments :
            Begin(c, "replace", [orders[i] EXCEPT !.symbol = s, !.price = a.price, !.qty = a.qty])
      BY <2>5 DEF ModifyOrder
    <3>2. orders[i] \in Order
      BY DEF IInv, TypeOK, OrdersTypeOK
    <3>3. PICK o : o = [orders[i] EXCEPT !.symbol = s, !.price = a.price, !.qty = a.qty]
      OBVIOUS
    <3>4. o.price = a.price
      BY <3>2, <3>3 DEF Order
    <3>5. call'[c].order = o
      BY <3>1, <3>3 DEF Begin, Put
    <3> QED
      BY <2>1, <3>4, <3>5 DEF Prices
  <2>6. CASE CancelOrder(c)
    <3>1. PICK o : Begin(c, "unbook", o)
      BY <2>6 DEF CancelOrder
    <3>2. call'[c].pc = "unbook"
      BY <3>1 DEF Begin, Put
    <3> QED
      BY <1>2, <2>1, <3>2 DEF Working, Registered
  <2>7. CASE Returning(c) \/ Close(c) \/ ClearReporter(c)
    <3>1. c \notin DOMAIN call'
      <4>1. CASE Returning(c)
        BY <4>1, ReturningCalls DEF IInv
      <4>2. CASE Close(c)
        BY <4>2, CloseCalls DEF IInv, Close, Idle
      <4>3. CASE ClearReporter(c)
        BY <4>3, CloseCalls DEF IInv, ClearReporter, SerialInv, Undisturbed
      <4> QED
        BY <2>7, <4>1, <4>2, <4>3
    <3> QED
      BY <2>1, <3>1
  <2> QED
    BY <2>2, <2>3, <2>4, <2>5, <2>6, <2>7 DEF Step, Lookup, Ask, Continuing, Returning
<1> QED
  BY <1>1, <1>2 DEF PricesKnown

\* What holds of the call in progress, for the steps that follow Match.
LEMMA ExhaustsCall ==
  ASSUME Serialised, TypeOK', NEW c \in Client, Exhausts(call[c])' \/ c \notin DOMAIN call'
  PROVE  MatchesExhaust'
BY DEF Serialised, TypeOK, CallsTypeOK, MatchesExhaust

\* Match takes whole entries while something remains.
LEMMA ExhaustsMatchNode ==
  ASSUME Serialised, IInv, SerialInv, MatchesExhaust, NEW c \in Client, MatchNode(c)
  PROVE  Exhausts(call[c])'
<1> DEFINE m == call[c]
           b == book[m.order.symbol]
<1>1. PICK i \in Unvisited(c) :
        /\ i \in DOMAIN b /\ b[i] \in Resting
        /\ call'[c].fills = Append(m.fills, FillOf(i, b[i], m.rem))
        /\ call'[c].rem = FillOf(i, b[i], m.rem).left
  BY MatchNodeFill DEF IInv
<1>2. PICK f : f = FillOf(i, b[i], m.rem)
  OBVIOUS
<1>3. c \in DOMAIN call /\ m.pc = "match" /\ m \in Call /\ call'[c].pc = "match" /\ m.rem > 0
  BY MatchNodeFill DEF IInv, MatchNode
<1>4. m.rem \in Nat /\ m.pc \in Registered
  BY <1>3, RemNatural DEF IInv, Working, Registered
<1>5. f.left > 0 => f.restLeft = 0
  BY <1>1, <1>2, <1>4, FillOfParts
<1>6. \A k \in DOMAIN m.fills : m.fills[k].restLeft = 0
  BY <1>3, <1>4 DEF MatchesExhaust, Exhausts
<1>7. call'[c].fills = Append(m.fills, f) /\ m.fills \in Seq(Fill) /\ call'[c].rem = f.left
  BY <1>1, <1>2, <1>3 DEF Call
<1>8. ASSUME f.left > 0, NEW k \in DOMAIN call'[c].fills
      PROVE  call'[c].fills[k].restLeft = 0
  <2>1. \/ k \in DOMAIN m.fills /\ call'[c].fills[k] = m.fills[k]
        \/ call'[c].fills[k] = f
    BY <1>7
  <2> QED
    BY <1>5, <1>6, <1>8, <2>1
<1> QED
  BY <1>3, <1>7, <1>8 DEF Exhausts

\* Match ends with a remainder only when every order it may trade with is in one
\* of its trades.
LEMMA ExhaustsEndMatch ==
  ASSUME Serialised, DepthSuffices, IInv, SerialInv, PricesKnown, MatchesExhaust,
         NEW c \in Client, EndMatch(c)
  PROVE  Exhausts(call[c])'
<1> DEFINE m == call[c]
           o == m.order
           b == book[o.symbol]
<1>1. /\ c \in DOMAIN call /\ m.pc = "match" /\ m \in Call /\ o \in Order /\ o.symbol \in Symbol
  BY DEF EndMatch, At, IInv, TypeOK, CallsTypeOK, Call, Order
<1>2. Moves(c, "record") /\ book' = book
  BY MovingCalls DEF IInv, EndMatch, books
<1>3. /\ call'[c].pc = "record" /\ call'[c].order = o /\ call'[c].rem = m.rem
      /\ call'[c].fills = m.fills /\ call'[c].next = m.next
  BY <1>2 DEF Moves
<1>4. m.next = 1 /\ m.pc \in Registered /\ ~m.torn
  BY <1>1 DEF IInv, FillsChained, Chained, Registered, SerialInv, Undisturbed
<1>5. ASSUME m.rem > 0
      PROVE  \A k \in DOMAIN m.fills : m.fills[k].restLeft = 0
  BY <1>1, <1>4, <1>5 DEF MatchesExhaust, Exhausts
<1>6. ASSUME m.rem > 0, o.type \in RestingType, NEW i \in DOMAIN b, Crosses(o, b[i])
      PROVE  \E k \in Pending(m) : m.fills[k].rest = i
  <2>1. Unvisited(c) = {}
    BY <1>4, <1>6 DEF EndMatch
  <2>2. b \in [DOMAIN b -> Resting]
    BY <1>1 DEF IInv, TypeOK, BooksTypeOK
  <2>3. WithinTop(b, i, MaxDepthLevels)
    BY <1>1, <2>2, AllLevelsSeen DEF Resting, Positive
  <2>4. i \in Matchable(o, b)
    BY <1>6, <2>3 DEF Crosses, Matchable, Counterparties
  <2>5. \E k \in DOMAIN m.fills : m.fills[k].rest = i
    BY <2>1, <2>4, WalksCover DEF ToMeet, TradedWith
  <2> QED
    BY <1>1, <1>4, <2>5 DEF Pending, Call
<1>7. Pending(call[c])' = Pending(m)
  BY <1>3 DEF Pending
<1> QED
  BY <1>2, <1>3, <1>5, <1>6, <1>7 DEF Exhausts

\* Of an order with a remainder every trade removes its resting order.
LEMMA ExhaustsSettle ==
  ASSUME Serialised, IInv, SerialInv, MatchesExhaust, NEW c \in Client,
         RemoveResting(c) \/ UpdateResting(c)
  PROVE  Exhausts(call[c])'
<1>1. PICK m : m = call[c]
  OBVIOUS
<1>2. PICK f : f = Current(c)
  OBVIOUS
<1>3. PICK s : s = m.order.symbol
  OBVIOUS
<1>4. /\ c \in DOMAIN call /\ m \in Call
      /\ m.pc \in {"remove", "update"} /\ s \in Symbol
      /\ m.next \in DOMAIN m.fills /\ m.next \in Nat /\ f = m.fills[m.next] /\ f \in Fill
      /\ f.rest \in DOMAIN book[s]
      /\ InSettlement(m)
      /\ call'[c].pc = "record" /\ call'[c].order = m.order /\ call'[c].rem = m.rem
      /\ call'[c].fills = m.fills /\ call'[c].next = m.next + 1
  BY <1>1, <1>2, <1>3, SettlingCall
<1>5. SUFFICES ASSUME m.rem > 0
               PROVE  Exhausts(call[c])'
  BY <1>4 DEF Exhausts
<1>6. /\ \A k \in DOMAIN m.fills : m.fills[k].restLeft = 0
      /\ m.order.type \in RestingType =>
           \A i \in DOMAIN book[s] :
             Crosses(m.order, book[s][i]) => \E k \in Pending(m) : m.fills[k].rest = i
  BY <1>1, <1>3, <1>4, <1>5 DEF MatchesExhaust, Exhausts, Registered
<1>7. m.pc = "remove"
  <2>1. SUFFICES ASSUME m.pc = "update"
                 PROVE  FALSE
    BY <1>4
  <2>2. 0 < tracked[f.rest].rem /\ tracked[f.rest].rem <= f.restLeft /\ f.rest \in DOMAIN tracked
    BY <1>4, <2>1 DEF InSettlement, Live
  <2>3. tracked[f.rest].rem \in Int /\ f.restLeft = 0
    BY <1>4, <1>6, <2>2 DEF IInv, TypeOK, ReporterTypeOK, Tracked
  <2> QED
    BY <2>2, <2>3
<1>8. RemoveResting(c)
  BY <1>1, <1>7 DEF UpdateResting, At
<1>9. /\ DOMAIN book'[s] = DOMAIN book[s] \ {f.rest}
      /\ \A i \in DOMAIN book'[s] : book'[s][i] = book[s][i]
  <2>1. book' = Without(s, f.rest) /\ TypeOK
    BY <1>1, <1>2, <1>3, <1>8 DEF RemoveResting, IInv
  <2> QED
    BY <1>4, <2>1, WithoutEffect
<1>10. ASSUME m.order.type \in RestingType, NEW i \in DOMAIN book'[s],
              Crosses(m.order, book'[s][i])
       PROVE  \E k \in DOMAIN m.fills : k >= m.next + 1 /\ m.fills[k].rest = i
  <2>1. i \in DOMAIN book[s] /\ i # f.rest /\ Crosses(m.order, book[s][i])
    BY <1>9, <1>10
  <2>2. PICK k \in Pending(m) : m.fills[k].rest = i
    BY <1>6, <1>10, <2>1
  <2>3. k \in DOMAIN m.fills /\ k >= m.next /\ k # m.next
    BY <1>4, <2>1, <2>2 DEF Pending
  <2>4. k \in Nat
    BY <1>4, <2>3 DEF Call
  <2> QED
    BY <1>4, <2>2, <2>3, <2>4
<1> QED
  BY <1>3, <1>4, <1>6, <1>10 DEF Exhausts, Pending

LEMMA ExhaustsStep ==
  ASSUME Serialised, DepthSuffices, IInv, SerialInv, PricesKnown, MatchesExhaust, TypeOK',
         NEW c \in Client, Step(c) \/ Ask(c)
  PROVE  MatchesExhaust'
<1>1. CASE MatchNode(c)
  BY <1>1, ExhaustsMatchNode, ExhaustsCall
<1>2. CASE EndMatch(c)
  BY <1>2, ExhaustsEndMatch, ExhaustsCall
<1>3. CASE RemoveResting(c) \/ UpdateResting(c)
  BY <1>3, ExhaustsSettle, ExhaustsCall
<1>4. CASE RegisterOrder(c) \/ Enough(c)
  <2>1. PICK pc \in {"liquidity", "match"} : Moves(c, pc)
    BY <1>4, MovingCalls DEF IInv
  <2>2. c \in DOMAIN call /\ call[c].pc \in {"register", "liquidity"} /\ call[c] \in Call
    BY <1>4 DEF RegisterOrder, Enough, At, IInv, TypeOK, CallsTypeOK
  <2>3. call[c].fills = <<>>
    BY <2>2 DEF IInv, FillsChained, Chained
  <2>4. Exhausts(call[c])'
    BY <2>1, <2>3 DEF Moves, Exhausts
  <2> QED
    BY <2>4, ExhaustsCall
<1>5. CASE RecordTrade(c)
  <2>1. PICK m : m = call[c]
    OBVIOUS
  <2>2. PICK pc \in {"remove", "update"} : Moves(c, pc)
    BY <1>5, MovingCalls DEF IInv
  <2>3. c \in DOMAIN call /\ m.pc = "record" /\ book' = book
    BY <1>5, <2>1 DEF RecordTrade, Recording, At, books
  <2>4. /\ call'[c].pc = pc /\ call'[c].order = m.order /\ call'[c].rem = m.rem
        /\ call'[c].fills = m.fills /\ call'[c].next = m.next
    BY <2>1, <2>2 DEF Moves
  <2>5. Exhausts(m) /\ m.pc \in Registered
    BY <2>1, <2>3 DEF MatchesExhaust, Registered
  <2>6. Exhausts(call[c])'
    BY <2>3, <2>4, <2>5 DEF Exhausts, Pending
  <2> QED
    BY <2>6, ExhaustsCall
<1>6. CASE Admit(c) \/ Unbook(c) \/ Replace(c)
  <2>1. call'[c].pc \in {"register", "cancel", "submit"}
    BY <1>6, MovingCalls, ReplaceCalls DEF IInv, Moves
  <2>2. Exhausts(call[c])'
    BY <2>1 DEF Exhausts, Registered
  <2> QED
    BY <2>2, ExhaustsCall
<1>7. CASE SubmitOrder(c) \/ CancelOrder(c) \/ ModifyOrder(c)
  <2>1. call'[c].pc \in {"submit", "unbook", "replace"}
    BY <1>7, SubmitOrderCalls, NamingCalls DEF IInv
  <2>2. Exhausts(call[c])'
    BY <2>1 DEF Exhausts, Registered
  <2> QED
    BY <2>2, ExhaustsCall
<1>8. CASE Returning(c)
  <2>1. c \notin DOMAIN call'
    BY <1>8, ReturningCalls DEF IInv
  <2> QED
    BY <2>1, ExhaustsCall
<1>9. CASE Close(c) \/ ClearReporter(c)
  <2>1. c \notin DOMAIN call'
    <3>1. CASE Close(c)
      BY <3>1, CloseCalls DEF IInv, Close, Idle
    <3>2. CASE ClearReporter(c)
      BY <3>2, CloseCalls DEF IInv, ClearReporter, SerialInv, Undisturbed
    <3> QED
      BY <1>9, <3>1, <3>2
  <2> QED
    BY <2>1, ExhaustsCall
<1> QED
  BY <1>1, <1>2, <1>3, <1>4, <1>5, <1>6, <1>7, <1>8, <1>9 DEF Step, Lookup, Ask, Returning

\* An order that joins a book crosses none of its entries.
LEMMA JoiningUncrossed ==
  ASSUME Serialised, IInv, SerialInv, MatchesExhaust, NEW c \in Client, AddOrder(c)
  PROVE  \A i \in DOMAIN book[call[c].order.symbol] :
           ~Crosses(call[c].order, book[call[c].order.symbol][i])
<1> DEFINE m == call[c]
<1>1. /\ Recorded(c) /\ c \in DOMAIN call /\ m.pc = "record" /\ m \in Call
      /\ m.order.type \in RestingType /\ m.next > Len(m.fills)
  BY DEF AddOrder, Recorded, At, IInv, TypeOK, CallsTypeOK
<1>2. m.rem > 0
  <2>1. orders[m.order.id].left = m.rem
    BY <1>1, RecordedRemainder
  <2> QED
    BY <2>1 DEF AddOrder
<1>3. Pending(m) = {}
  BY <1>1 DEF Pending, Call, Positive
<1> QED
  BY <1>1, <1>2, <1>3 DEF MatchesExhaust, Exhausts, Registered

LEMMA UncrossedStep ==
  ASSUME Serialised, IInv, SerialInv, MatchesExhaust, BookUncrossed,
         NEW c \in Client, Step(c) \/ Ask(c)
  PROVE  BookUncrossed'
<1>1. CASE ~AddOrder(c)
  <2>1. BooksOnlyLose
    BY <1>1, OnlyAddOrderAdds DEF IInv
  <2> QED
    BY <2>1 DEF BooksOnlyLose, BookUncrossed
<1>2. CASE AddOrder(c)
  <2>1. PICK o : o = call[c].order
    OBVIOUS
  <2>2. PICK e : e = EntryOf(o, arrivals + 1)
    OBVIOUS
  <2>3. PICK s : s = o.symbol
    OBVIOUS
  <2>4. PICK n : n = o.id
    OBVIOUS
  <2>5. /\ o \in Order /\ DOMAIN book'[s] = DOMAIN book[s] \cup {n} /\ book'[s][n] = e
        /\ \A i \in DOMAIN book[s] : i # n /\ book'[s][i] = book[s][i]
        /\ \A t \in Symbol : t # s => book'[t] = book[t]
    BY <1>2, <2>1, <2>2, <2>3, <2>4, AddOrderEffect
  <2>6. e.side = o.side /\ e.price = o.price /\ e.account = o.account
    BY <2>2 DEF EntryOf
  <2>7. \A i \in DOMAIN book[s] : ~Crosses(o, book[s][i])
    BY <1>2, <2>1, <2>3, JoiningUncrossed
  <2>8. \A i \in DOMAIN book[s] : book[s][i].price \in Int
    <3>1. s \in Symbol
      BY <2>3, <2>5 DEF Order
    <3> QED
      BY <3>1 DEF IInv, TypeOK, BooksTypeOK, Resting, Positive
  <2>9. o.price \in Int
    BY <2>5 DEF Order
  <2> SUFFICES ASSUME NEW t \in Symbol, NEW i \in DOMAIN book'[t], NEW j \in DOMAIN book'[t],
                      book'[t][i].side = "buy", book'[t][j].side = "sell",
                      book'[t][i].account # book'[t][j].account
               PROVE  book'[t][i].price < book'[t][j].price
    BY DEF BookUncrossed
  <2>10. CASE t # s
    BY <2>5, <2>10 DEF BookUncrossed
  <2>11. CASE t = s /\ i # n /\ j # n
    BY <2>5, <2>11 DEF BookUncrossed
  <2>12. CASE t = s /\ i = n /\ j # n
    <3>1. j \in DOMAIN book[s] /\ book'[t][j] = book[s][j] /\ book'[t][i] = e
      BY <2>5, <2>12
    <3>2. ~PriceMatch(o, book[s][j].price)
      BY <2>6, <2>7, <3>1 DEF Crosses, Opposite
    <3> QED
      BY <2>6, <2>8, <2>9, <3>1, <3>2 DEF PriceMatch
  <2>13. CASE t = s /\ i # n /\ j = n
    <3>1. i \in DOMAIN book[s] /\ book'[t][i] = book[s][i] /\ book'[t][j] = e
      BY <2>5, <2>13
    <3>2. ~PriceMatch(o, book[s][i].price)
      BY <2>6, <2>7, <3>1 DEF Crosses, Opposite
    <3> QED
      BY <2>6, <2>8, <2>9, <3>1, <3>2 DEF PriceMatch
  <2>14. ~(t = s /\ i = n /\ j = n)
    BY <2>5
  <2> QED
    BY <2>10, <2>11, <2>12, <2>13, <2>14
<1> QED
  BY <1>1, <1>2

LEMMA UncrossedInit == Init => UncrossedInv
BY DEF Init, EmptyBook, UncrossedInv, PricesKnown, MatchesExhaust, BookUncrossed

LEMMA UncrossedInvStep ==
  ASSUME Serialised, DepthSuffices, IInv, SerialInv, UncrossedInv, [Next]_vars
  PROVE  UncrossedInv'
<1>1. TypeOK'
  BY InvStep DEF IInv
<1>2. ASSUME NEW c \in Client, Step(c) \/ Ask(c)
      PROVE  UncrossedInv'
  BY <1>1, <1>2, PricesStep, ExhaustsStep, UncrossedStep DEF UncrossedInv
<1>3. CASE UNCHANGED vars
  BY <1>3 DEF vars, UncrossedInv, PricesKnown, MatchesExhaust, Exhausts, Pending, BookUncrossed
<1> QED
  BY <1>2, <1>3 DEF Next

\* When calls do not race and there are no more prices than levels the matcher
\* looks at, resting orders of different accounts never cross: Match takes every
\* entry an order crosses before its remainder rests.
THEOREM BooksUncrossed ==
  ASSUME Serialised, DepthSuffices
  PROVE  Spec => []BookUncrossed
<1>1. Init => IInv /\ SerialInv /\ UncrossedInv
  BY InvInit, SerialInit, UncrossedInit
<1>2. IInv /\ SerialInv /\ UncrossedInv /\ [Next]_vars => (IInv /\ SerialInv /\ UncrossedInv)'
  BY InvStep, SerialStep, UncrossedInvStep
<1>3. UncrossedInv => BookUncrossed
  BY DEF UncrossedInv
<1> QED
  BY <1>1, <1>2, <1>3, PTL DEF Spec
=============================================================================
