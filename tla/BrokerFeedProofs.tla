-------------------------- MODULE BrokerFeedProofs --------------------------
(***************************************************************************)
(* Proofs about a rebuilt book, for any exchange and any feed              *)
(* (BrokerFeed): that its orders are the exchange's, that its levels are   *)
(* those of the snapshot, and that the validator's verdict is right.       *)
(***************************************************************************)
EXTENDS BrokerFeed, SequenceTheorems, FunctionTheorems, Sums, TLAPS

OrderType == [side : Side, price : Nat, qty : Nat \ {0}]

-----------------------------------------------------------------------------
(* What a message is taken for.                                            *)

\* What a handler is given of an increment.
IncrementOf(m) ==
  [type |-> m.type, order |-> m.order,
   price |-> IF m.type = "delete" THEN 0 ELSE m.price,
   qty |-> IF m.type = "delete" THEN 0 ELSE m.qty,
   side |-> m.side]

LEMMA ReceiveIncrement ==
  ASSUME NEW m, m.kind = "increment", m.type \in IncrementType, m.side \in Side,
         Receive(Raw(m))
  PROVE  OnOrderIncrement(IncrementOf(m))
<1>1. /\ Raw(m).type = "increment" /\ Raw(m).format = "JSON" /\ Raw(m).content = "JSON"
      /\ Raw(m).symbol = SymbolID /\ Raw(m).timestamped = TRUE
  BY DEF Raw
<1>2. ValidateRawData(Raw(m))
  BY <1>1, SymbolAssumption DEF ValidateRawData
<1>3. ParseTrade(Raw(m)) = {} /\ ParseSnapshot(Raw(m)) = {}
  BY <1>1 DEF ParseTrade, ParseSnapshot, Readable
<1>4. ParseOrderIncrement(Raw(m)) = {IncrementOf(m)}
  <2>1. CASE m.type = "delete"
    <3>1. Raw(m).data = [type |-> "delete", order_id |-> m.order, side |-> m.side]
      BY <2>1 DEF Raw, DataOf
    <3> QED
      BY <1>1, <2>1, <3>1 DEF ParseOrderIncrement, Readable, Field, IncrementOf
  <2>2. CASE m.type # "delete"
    <3>1. Raw(m).data = [type |-> m.type, order_id |-> m.order, side |-> m.side,
                         price |-> m.price, quantity |-> m.qty]
      BY <2>2 DEF Raw, DataOf
    <3> QED
      BY <1>1, <2>2, <3>1 DEF ParseOrderIncrement, Readable, Field, IncrementOf
  <2> QED
    BY <2>1, <2>2
<1> QED
  BY <1>2, <1>3, <1>4 DEF Receive, Unreadable

LEMMA ReceiveTrade ==
  ASSUME NEW m, m.kind = "trade", Receive(Raw(m))
  PROVE  OnTrade([buy |-> m.buy, sell |-> m.sell, qty |-> m.qty])
<1>1. /\ Raw(m).type = "trade" /\ Raw(m).format = "JSON" /\ Raw(m).content = "JSON"
      /\ Raw(m).symbol = SymbolID /\ Raw(m).timestamped = TRUE
  BY DEF Raw
<1>2. ValidateRawData(Raw(m))
  BY <1>1, SymbolAssumption DEF ValidateRawData
<1>3. ParseOrderIncrement(Raw(m)) = {} /\ ParseSnapshot(Raw(m)) = {}
  BY <1>1 DEF ParseOrderIncrement, ParseSnapshot, Readable
<1>4. Raw(m).data = [buy_order_id |-> m.buy, sell_order_id |-> m.sell, quantity |-> m.qty]
  BY DEF Raw, DataOf
<1>5. ParseTrade(Raw(m)) = {[buy |-> m.buy, sell |-> m.sell, qty |-> m.qty]}
  BY <1>1, <1>4 DEF ParseTrade, Readable, Field
<1> QED
  BY <1>2, <1>3, <1>5 DEF Receive, Unreadable

LEMMA ReceiveSnapshot ==
  ASSUME NEW m, m.kind = "snapshot", Receive(Raw(m))
  PROVE  OnSnapshot([symbol |-> m.symbol, bids |-> m.bids, asks |-> m.asks])
<1>1. /\ Raw(m).type = "snapshot" /\ Raw(m).format = "JSON" /\ Raw(m).content = "JSON"
      /\ Raw(m).symbol = SymbolID /\ Raw(m).timestamped = TRUE
  BY DEF Raw
<1>2. ValidateRawData(Raw(m))
  BY <1>1, SymbolAssumption DEF ValidateRawData
<1>3. ParseOrderIncrement(Raw(m)) = {} /\ ParseTrade(Raw(m)) = {}
  BY <1>1 DEF ParseOrderIncrement, ParseTrade, Readable
<1>4. Raw(m).data = [symbol_id |-> m.symbol, bids |-> m.bids, asks |-> m.asks]
  BY DEF Raw, DataOf
<1>5. ParseSnapshot(Raw(m)) = {[symbol |-> m.symbol, bids |-> m.bids, asks |-> m.asks]}
  BY <1>1, <1>4 DEF ParseSnapshot, Readable, Field
<1> QED
  BY <1>2, <1>3, <1>5 DEF Receive, Unreadable

\* A damaged message is taken for nothing, for a trade of no orders or for a snapshot
\* of no symbol.
LEMMA ReceiveDamaged ==
  ASSUME NEW m, m.kind \in {"increment", "trade", "snapshot"},
         m.kind = "increment" => m.type \in IncrementType,
         NEW raw \in DamagedForms(Raw(m)), Receive(raw)
  PROVE  core' = core
<1> DEFINE data == DataOf(m)
<1>1. /\ raw.data = data
      /\ raw.type # m.kind \/ raw.format # "JSON" \/ raw.content # "JSON"
  <2>1. /\ Raw(m).data = data /\ Raw(m).type = m.kind
        /\ Raw(m) = [type |-> m.kind, format |-> "JSON", content |-> "JSON", data |-> data,
                     symbol |-> SymbolID, timestamped |-> TRUE]
    BY DEF Raw
  <2> HIDE DEF data
  <2> QED
    BY <2>1 DEF DamagedForms
<1>2. m.kind = "increment" =>
        \/ data = [type |-> "delete", order_id |-> m.order, side |-> m.side]
        \/ data = [type |-> m.type, order_id |-> m.order, side |-> m.side,
                   price |-> m.price, quantity |-> m.qty]
  BY DEF DataOf
<1>3. m.kind = "trade" =>
        data = [buy_order_id |-> m.buy, sell_order_id |-> m.sell, quantity |-> m.qty]
  BY DEF DataOf
<1>4. m.kind = "snapshot" =>
        data = [symbol_id |-> m.symbol, bids |-> m.bids, asks |-> m.asks]
  BY DEF DataOf
<1> HIDE DEF data
<1>5. m.kind # "increment" => Field(data, "type", "") = ""
  BY <1>3, <1>4 DEF Field
<1>6. m.kind # "trade" =>
        Field(data, "buy_order_id", 0) = 0 /\ Field(data, "sell_order_id", 0) = 0
  BY <1>2, <1>4 DEF Field
<1>7. m.kind # "snapshot" => Field(data, "symbol_id", 0) = 0
  BY <1>2, <1>3 DEF Field
<1>8. ParseOrderIncrement(raw) = {}
  BY <1>1, <1>5 DEF ParseOrderIncrement, Readable, IncrementType
<1>9. ASSUME NEW trade \in ParseTrade(raw), OnTrade(trade)
      PROVE  core' = core
  <2>1. m.kind # "trade"
    BY <1>1, <1>9 DEF ParseTrade, Readable
  <2>2. trade.buy = 0 /\ trade.sell = 0
    BY <1>1, <1>6, <1>9, <2>1 DEF ParseTrade
  <2> QED
    BY <1>9, <2>2 DEF OnTrade, Filled
<1>10. ASSUME NEW snap \in ParseSnapshot(raw), OnSnapshot(snap)
       PROVE  core' = core
  <2>1. m.kind # "snapshot"
    BY <1>1, <1>10 DEF ParseSnapshot, Readable
  <2>2. snap.symbol = 0
    BY <1>1, <1>7, <1>10, <2>1 DEF ParseSnapshot
  <2> QED
    BY <1>10, <2>2, SymbolAssumption DEF OnSnapshot, SymbolMatches
<1> QED
  BY <1>8, <1>9, <1>10 DEF Receive, bookVars

-----------------------------------------------------------------------------
(* One book follows another.                                               *)

\* The orders of b are those of v, but for those of w.
Follows(b, v, w) == RealPart(b) = [i \in DOMAIN v \ DOMAIN w |-> v[i]]

\* A book of the exchange.
Book(v) ==
  /\ DOMAIN v \subseteq (Nat \ {0}) /\ IsFiniteSet(DOMAIN v)
  /\ \A i \in DOMAIN v : v[i] \in OrderType
  /\ v = [i \in DOMAIN v |-> v[i]]

LEMMA FollowsAt ==
  ASSUME NEW b, NEW v, NEW w
  PROVE  Follows(b, v, w) <=>
           /\ \A i : i \in DOMAIN b /\ i > 0 <=> i \in DOMAIN v \ DOMAIN w
           /\ \A i \in DOMAIN v \ DOMAIN w : b[i] = v[i]
<1>1. DOMAIN RealPart(b) = {j \in DOMAIN b : j > 0}
  BY DEF RealPart
<1>2. \A i \in DOMAIN RealPart(b) : RealPart(b)[i] = b[i]
  BY DEF RealPart
<1>3. RealPart(b) = [i \in DOMAIN RealPart(b) |-> b[i]]
  BY DEF RealPart
<1> QED
  BY <1>1, <1>2, <1>3 DEF Follows

\* Each update of a book, made to both.
LEMMA FollowsPut ==
  ASSUME NEW b, NEW v, NEW w, Follows(b, v, w), Book(v),
         NEW i \in Nat \ {0}, NEW e \in OrderType,
         i \notin DOMAIN v, i \notin DOMAIN w
  PROVE  Follows(InsertOrder(b, i, e), Put(v, i, e), w) /\ Book(Put(v, i, e))
<1>1. i \notin DOMAIN b
  BY FollowsAt
<1>2. /\ DOMAIN Put(b, i, e) = DOMAIN b \cup {i} /\ DOMAIN Put(v, i, e) = DOMAIN v \cup {i}
      /\ \A j \in DOMAIN b : Put(b, i, e)[j] = b[j]
      /\ \A j \in DOMAIN v : Put(v, i, e)[j] = v[j]
      /\ Put(b, i, e)[i] = e /\ Put(v, i, e)[i] = e
  BY <1>1 DEF Put
<1>3. Follows(Put(b, i, e), Put(v, i, e), w)
  BY <1>2, FollowsAt
<1>4. Put(v, i, e) = [j \in DOMAIN Put(v, i, e) |-> Put(v, i, e)[j]]
  BY DEF Put
<1> QED
  BY <1>1, <1>2, <1>3, <1>4, FS_AddElement DEF InsertOrder, Book

LEMMA FollowsDrop ==
  ASSUME NEW b, NEW v, NEW w, Follows(b, v, w), Book(v), NEW i
  PROVE  Follows(Drop(b, i), Drop(v, i), w) /\ Book(Drop(v, i))
<1>1. /\ DOMAIN Drop(b, i) = DOMAIN b \ {i} /\ DOMAIN Drop(v, i) = DOMAIN v \ {i}
      /\ \A j \in DOMAIN b \ {i} : Drop(b, i)[j] = b[j]
      /\ \A j \in DOMAIN v \ {i} : Drop(v, i)[j] = v[j]
      /\ Drop(v, i) = [j \in DOMAIN Drop(v, i) |-> Drop(v, i)[j]]
  BY DEF Drop
<1>2. Follows(Drop(b, i), Drop(v, i), w)
  BY <1>1, FollowsAt
<1> QED
  BY <1>1, <1>2, FS_RemoveElement DEF Book

LEMMA FollowsResize ==
  ASSUME NEW b, NEW v, NEW w, Follows(b, v, w), Book(v),
         NEW i \in DOMAIN v, NEW q \in Nat \ {0}
  PROVE  /\ Follows(ResizeOrder(b, i, q), Put(v, i, [v[i] EXCEPT !.qty = q]), w)
         /\ Book(Put(v, i, [v[i] EXCEPT !.qty = q]))
<1> DEFINE e == [v[i] EXCEPT !.qty = q]
           r == ResizeOrder(b, i, q)
<1>1. e \in OrderType
  BY DEF Book, OrderType
<1>2. i \in DOMAIN b => b[i] = v[i]
  BY FollowsAt DEF Book
<1>3. /\ DOMAIN r = DOMAIN b
      /\ \A j \in DOMAIN b \ {i} : r[j] = b[j]
      /\ i \in DOMAIN b => r[i] = e
  BY <1>2 DEF ResizeOrder
<1> HIDE DEF e, r
<1>4. /\ DOMAIN Put(v, i, e) = DOMAIN v
      /\ \A j \in DOMAIN v \ {i} : Put(v, i, e)[j] = v[j]
      /\ Put(v, i, e)[i] = e
      /\ Put(v, i, e) = [j \in DOMAIN Put(v, i, e) |-> Put(v, i, e)[j]]
  BY DEF Put
<1>5. Follows(r, Put(v, i, e), w)
  BY <1>3, <1>4, FollowsAt
<1>6. Book(Put(v, i, e))
  BY <1>1, <1>4 DEF Book
<1> QED
  BY <1>5, <1>6 DEF e, r

\* One side of a trade that an order of the exchange's book, if it is one, can fill.
LEMMA FollowsReduced ==
  ASSUME NEW b, NEW v, NEW w, Follows(b, v, w), Book(v),
         NEW i \in Nat, NEW q \in Nat \ {0},
         i \in DOMAIN v => q <= v[i].qty
  PROVE  Follows(Filled(b, i, q), Reduced(v, i, q), w) /\ Book(Reduced(v, i, q))
<1>1. CASE i \notin DOMAIN v
  <2>1. i = 0 \/ i \notin DOMAIN b
    BY <1>1, FollowsAt
  <2> QED
    BY <1>1, <2>1 DEF Filled, Reduced
<1>2. CASE i \in DOMAIN v
  <2>1. i # 0 /\ v[i].qty \in Nat \ {0} /\ (i \in DOMAIN b => b[i] = v[i])
    BY <1>2, FollowsAt DEF Book, OrderType
  <2>2. CASE v[i].qty = q
    <3>1. Reduced(v, i, q) = Drop(v, i)
      BY <1>2, <2>2 DEF Reduced
    <3>2. Filled(b, i, q) = IF i \in DOMAIN b THEN Drop(b, i) ELSE b
      BY <2>1, <2>2 DEF Filled, DeleteOrder
    <3>3. Follows(Drop(b, i), Drop(v, i), w) /\ Book(Drop(v, i))
      BY FollowsDrop
    <3>4. i \notin DOMAIN b => Follows(b, Drop(v, i), w)
      <4>1. DOMAIN Drop(v, i) = DOMAIN v \ {i} /\ \A j \in DOMAIN v \ {i} : Drop(v, i)[j] = v[j]
        BY DEF Drop
      <4> QED
        BY <4>1, FollowsAt
    <3> QED
      BY <3>1, <3>2, <3>3, <3>4
  <2>3. CASE v[i].qty # q
    <3>1. v[i].qty - q \in Nat \ {0}
      BY <1>2, <2>1, <2>3
    <3>2. Reduced(v, i, q) = Put(v, i, [v[i] EXCEPT !.qty = v[i].qty - q])
      BY <1>2, <2>3 DEF Reduced
    <3>3. Filled(b, i, q) = ResizeOrder(b, i, v[i].qty - q)
      <4>1. CASE i \notin DOMAIN b
        BY <4>1 DEF Filled, ResizeOrder
      <4>2. CASE i \in DOMAIN b
        <5>1. b[i].qty = v[i].qty /\ ~(b[i].qty <= q)
          BY <1>2, <2>1, <2>3, <4>2
        <5> QED
          BY <2>1, <4>2, <5>1 DEF Filled
      <4> QED
        BY <4>1, <4>2
    <3> QED
      BY <1>2, <3>1, <3>2, <3>3, FollowsResize
  <2> QED
    BY <2>2, <2>3
<1> QED
  BY <1>1, <1>2

\* A book rebuilt from a snapshot has no orders of the exchange.
LEMMA FollowsRebuilt ==
  ASSUME NEW snap, NEW v
  PROVE  Follows(RebuiltFrom(snap), v, v)
<1>1. \A i \in DOMAIN RebuiltFrom(snap) : ~(i > 0)
  BY DEF RebuiltFrom, InsertedEntries, VirtualID
<1> QED
  BY <1>1, FollowsAt

-----------------------------------------------------------------------------
(* The exchange's log.                                                     *)

IsInsert(m) == m.kind = "increment" /\ m.type = "insert"

EntryOf(m) == [side |-> m.side, price |-> m.price, qty |-> m.qty]

\* A price that nobody quotes, or none.
Unquoted == {<<>>, <<[price |-> 0, qty |-> 0]>>}

\* Message m lists the levels of book v, and maybe a price that nobody quotes.
Lists(m, v) ==
  \E unquoted \in Unquoted :
    m.bids = Levels(v, "buy") \o unquoted /\ m.asks = Levels(v, "sell")

\* Message m tells what has changed from book v to book w.
Tells(m, v, w) ==
  \/ /\ IsInsert(m) /\ m.side \in Side /\ m.order \in Nat \ {0} /\ EntryOf(m) \in OrderType
     /\ w = Put(v, m.order, EntryOf(m))
  \/ /\ m.kind = "increment" /\ m.type = "delete" /\ m.side \in Side
     /\ m.order \in Nat \ {0}
     /\ w = Drop(v, m.order)
  \/ /\ m.kind = "increment" /\ m.type = "modify" /\ m.side \in Side
     /\ m.order \in DOMAIN v /\ m.qty \in Nat \ {0}
     /\ w = Put(v, m.order, [v[m.order] EXCEPT !.qty = m.qty])
  \/ /\ m.kind = "trade" /\ m.buy \in Nat /\ m.sell \in Nat /\ m.buy # m.sell
     /\ m.qty \in Nat \ {0}
     /\ \A i \in {m.buy, m.sell} : i \in DOMAIN v => m.qty <= v[i].qty
     /\ w = Reduced(Reduced(v, m.buy, m.qty), m.sell, m.qty)
  \/ m.kind = "snapshot" /\ Lists(m, v) /\ w = v

\* Every message tells the change it was published with, and an order is inserted
\* once, before anything else is known of it.
LogInv ==
  /\ Len(log) \in Nat /\ log = [k \in 1..Len(log) |-> log[k]]
  /\ \A k \in 1..Len(log) : Tells(Message(k), Version(k - 1), Version(k))
  /\ \A k \in 1..Len(log) : IsInsert(Message(k)) =>
       \A j \in 0..(k - 1) : Message(k).order \notin DOMAIN Version(j)
  /\ \A k \in 0..Len(log) : Book(Version(k))
  /\ \A k \in 0..Len(log) : \A i \in DOMAIN Version(k) : Inserts(i) # {}

LEMMA AppendAny ==
  ASSUME NEW s, NEW e, Len(s) \in Nat, s = [k \in 1..Len(s) |-> s[k]]
  PROVE  /\ Len(Append(s, e)) = Len(s) + 1
         /\ Append(s, e)[Len(s) + 1] = e
         /\ \A k \in 1..Len(s) : Append(s, e)[k] = s[k]
         /\ Append(s, e) = [k \in 1..(Len(s) + 1) |-> Append(s, e)[k]]
<1> DEFINE S == {s[k] : k \in 1..Len(s)} \cup {e}
<1>1. s \in Seq(S)
  BY SMT
<1>2. e \in S
  OBVIOUS
<1> HIDE DEF S
<1>3. Append(s, e) \in Seq(S)
  BY <1>1, <1>2
<1>4. Len(Append(s, e)) = Len(s) + 1
  BY <1>1, <1>2
<1>5. Append(s, e) \in [1..(Len(s) + 1) -> S]
  BY <1>3, <1>4, LenProperties
<1>6. Append(s, e) = [k \in 1..(Len(s) + 1) |-> Append(s, e)[k]]
  BY <1>5
<1>7. Append(s, e)[Len(s) + 1] = e /\ \A k \in 1..Len(s) : Append(s, e)[k] = s[k]
  BY <1>1, <1>2
<1> QED
  BY <1>4, <1>6, <1>7

\* What was published stays.
LEMMA PublishKeeps ==
  ASSUME LogInv, NEW m, NEW w, Publish(m, w), NEW n, n = Len(log)
  PROVE  /\ n \in Nat /\ Len(log') = n + 1
         /\ log' = [k \in 1..(n + 1) |-> log'[k]]
         /\ Message(n + 1)' = m /\ Version(n + 1)' = w
         /\ \A k \in 1..n : Message(k)' = Message(k)
         /\ \A k \in 0..n : Version(k)' = Version(k)
         /\ DOMAIN log = 1..n /\ DOMAIN log' = 1..(n + 1)
<1> DEFINE e == [msg |-> m, book |-> w]
<1>1. n \in Nat /\ log = [k \in 1..n |-> log[k]] /\ log' = Append(log, e)
  BY DEF LogInv, Publish
<1>2. /\ Len(log') = n + 1 /\ log'[n + 1] = e
      /\ \A k \in 1..n : log'[k] = log[k]
      /\ log' = [k \in 1..(n + 1) |-> log'[k]]
  BY <1>1, AppendAny
<1>3. \A k \in 1..n : Message(k)' = Message(k)
  BY <1>2 DEF Message
<1>4. \A k \in 0..n : Version(k)' = Version(k)
  BY <1>1, <1>2 DEF Version
<1>5. Message(n + 1)' = m /\ Version(n + 1)' = w
  BY <1>1, <1>2 DEF Message, Version
<1>6. DOMAIN log = 1..n /\ DOMAIN log' = 1..(n + 1)
  BY <1>1, <1>2
<1> QED
  BY <1>1, <1>2, <1>3, <1>4, <1>5, <1>6

LEMMA PublishLog ==
  ASSUME LogInv, NEW m, NEW w, Publish(m, w),
         Tells(m, Newest, w), Book(w),
         IsInsert(m) => Inserts(m.order) = {},
         \A i \in DOMAIN w : i \in DOMAIN Newest \/ (IsInsert(m) /\ m.order = i)
  PROVE  LogInv'
<1>0. PICK n : n = Len(log)
  OBVIOUS
<1>1. /\ n \in Nat /\ Len(log') = n + 1
      /\ log' = [k \in 1..(n + 1) |-> log'[k]]
      /\ Message(n + 1)' = m /\ Version(n + 1)' = w
      /\ \A k \in 1..n : Message(k)' = Message(k)
      /\ \A k \in 0..n : Version(k)' = Version(k)
      /\ DOMAIN log = 1..n /\ DOMAIN log' = 1..(n + 1)
  BY <1>0, PublishKeeps
<1>2. Newest = Version(n)
  BY <1>0 DEF Newest
<1>3. /\ \A k \in 1..n : Tells(Message(k), Version(k - 1), Version(k))
      /\ \A k \in 1..n : IsInsert(Message(k)) =>
           \A j \in 0..(k - 1) : Message(k).order \notin DOMAIN Version(j)
      /\ \A k \in 0..n : Book(Version(k))
      /\ \A k \in 0..n : \A i \in DOMAIN Version(k) : Inserts(i) # {}
  BY <1>0 DEF LogInv
<1>4. ASSUME NEW k \in 1..(n + 1)
      PROVE  Tells(Message(k), Version(k - 1), Version(k))'
  <2>1. CASE k = n + 1
    <3>1. Message(k)' = m /\ Version(k)' = w /\ k - 1 = n
      BY <1>1, <2>1
    <3>2. Version(k - 1)' = Newest
      BY <1>1, <1>2, <3>1
    <3> QED
      BY <3>1, <3>2 DEF Tells, IsInsert, EntryOf
  <2>2. CASE k \in 1..n
    <3>1. /\ Message(k)' = Message(k) /\ Version(k)' = Version(k)
          /\ Version(k - 1)' = Version(k - 1)
      BY <1>1, <2>2
    <3> QED
      BY <1>3, <2>2, <3>1 DEF Tells, IsInsert, EntryOf
  <2> QED
    BY <1>1, <2>1, <2>2
<1>5. ASSUME NEW k \in 1..(n + 1), IsInsert(Message(k))', NEW j \in 0..(k - 1)
      PROVE  Message(k).order' \notin DOMAIN Version(j)'
  <2>1. CASE k = n + 1
    BY <1>1, <1>3, <1>5, <2>1 DEF IsInsert
  <2>2. CASE k \in 1..n
    BY <1>1, <1>3, <1>5, <2>2 DEF IsInsert
  <2> QED
    BY <1>1, <2>1, <2>2
<1>6. ASSUME NEW k \in 0..(n + 1)
      PROVE  Book(Version(k))'
  <2>1. CASE k = n + 1
    BY <1>1, <2>1 DEF Book
  <2>2. CASE k \in 0..n
    BY <1>1, <1>3, <2>2 DEF Book
  <2> QED
    BY <1>1, <2>1, <2>2
<1>7. \A i : Inserts(i) \subseteq Inserts(i)'
  BY <1>1 DEF Inserts, Message
<1>8. ASSUME NEW k \in 0..(n + 1), NEW i \in DOMAIN Version(k)'
      PROVE  Inserts(i)' # {}
  <2>1. CASE k \in 0..n
    BY <1>1, <1>3, <1>7, <2>1
  <2>2. CASE k = n + 1 /\ i \in DOMAIN Newest
    BY <1>1, <1>2, <1>3, <1>7, <2>2
  <2>3. CASE k = n + 1 /\ IsInsert(m) /\ m.order = i
    <3>1. n + 1 \in Inserts(i)'
      BY <1>1, <2>3 DEF Inserts, IsInsert, Message
    <3> QED
      BY <3>1
  <2> QED
    BY <1>1, <2>1, <2>2, <2>3
<1> QED
  BY <1>1, <1>4, <1>5, <1>6, <1>8 DEF LogInv

-----------------------------------------------------------------------------
(* The steps of the exchange.                                              *)

LEMMA NewestBook ==
  ASSUME LogInv
  PROVE  Book(Newest) /\ Follows(Newest, Newest, EmptyBook)
         /\ \A i : Inserts(i) = {} => i \notin DOMAIN Newest
<1>1. Len(log) \in 0..Len(log)
  BY DEF LogInv
<1>2. Book(Newest) /\ \A i \in DOMAIN Newest : Inserts(i) # {}
  BY <1>1 DEF LogInv, Newest
<1>3. \A i : i \in DOMAIN Newest /\ i > 0 <=> i \in DOMAIN Newest \ DOMAIN EmptyBook
  BY <1>2 DEF Book, EmptyBook
<1> QED
  BY <1>2, <1>3, FollowsAt

LEMMA PlaceLog ==
  ASSUME LogInv, NEW i \in 1..MaxOrders, NEW quote \in Quote, Place(i, quote)
  PROVE  LogInv'
<1> DEFINE m == Increment("insert", i, quote)
<1>1. /\ quote \in OrderType /\ i \in Nat \ {0} /\ Inserts(i) = {}
      /\ Publish(m, Put(Newest, i, quote))
  BY FeedAssumption DEF Place, Arriving, Unplaced, OrderType
<1>2. /\ IsInsert(m) /\ m.order = i /\ m.side \in Side /\ EntryOf(m) = quote
  BY <1>1 DEF Increment, IsInsert, EntryOf, OrderType
<1> HIDE DEF m
<1>3. Book(Put(Newest, i, quote))
  <2>1. i \notin DOMAIN EmptyBook
    BY DEF EmptyBook
  <2> QED
    BY <1>1, <2>1, NewestBook, FollowsPut
<1>4. Tells(m, Newest, Put(Newest, i, quote))
  BY <1>1, <1>2 DEF Tells
<1>5. \A j \in DOMAIN Put(Newest, i, quote) : j \in DOMAIN Newest \/ j = i
  BY DEF Put
<1> QED
  BY <1>1, <1>2, <1>3, <1>4, <1>5, PublishLog

LEMMA WithdrawLog ==
  ASSUME LogInv, NEW i \in 1..MaxOrders, Withdraw(i)
  PROVE  LogInv'
<1> DEFINE m == Increment("delete", i, Newest[i])
<1>1. i \in DOMAIN Newest /\ Newest[i] \in OrderType /\ Publish(m, Drop(Newest, i))
  BY NewestBook DEF Withdraw, Book
<1>2. /\ m.kind = "increment" /\ m.type = "delete" /\ m.order = i /\ m.side \in Side
      /\ ~IsInsert(m) /\ m.order \in Nat \ {0}
  BY <1>1 DEF Increment, IsInsert, OrderType
<1> HIDE DEF m
<1>3. Book(Drop(Newest, i))
  BY NewestBook, FollowsDrop
<1>4. Tells(m, Newest, Drop(Newest, i))
  BY <1>2 DEF Tells
<1>5. \A j \in DOMAIN Drop(Newest, i) : j \in DOMAIN Newest
  BY DEF Drop
<1> QED
  BY <1>1, <1>2, <1>3, <1>4, <1>5, PublishLog

LEMMA AmendLog ==
  ASSUME LogInv, NEW i \in 1..MaxOrders, NEW q \in Quantity, Amend(i, q)
  PROVE  LogInv'
<1> DEFINE amended == [Newest[i] EXCEPT !.qty = q]
           m == Increment("modify", i, amended)
<1>1. /\ i \in DOMAIN Newest /\ Newest[i] \in OrderType /\ q \in Nat \ {0}
      /\ Publish(m, Put(Newest, i, amended))
  BY NewestBook, FeedAssumption DEF Amend, Book
<1>2. amended.side \in Side /\ amended.qty = q
  BY <1>1 DEF OrderType
<1>3. Book(Put(Newest, i, amended))
  BY <1>1, NewestBook, FollowsResize
<1>4. /\ m.kind = "increment" /\ m.type = "modify" /\ m.order = i /\ m.side \in Side
      /\ m.qty = q /\ ~IsInsert(m)
  <2> HIDE DEF amended
  <2> QED
    BY <1>2 DEF Increment, IsInsert
<1>5. \A j \in DOMAIN Put(Newest, i, amended) : j \in DOMAIN Newest
  BY <1>1 DEF Put
<1> HIDE DEF m
<1>6. Tells(m, Newest, Put(Newest, i, amended))
  BY <1>1, <1>4 DEF Tells
<1> QED
  BY <1>1, <1>3, <1>4, <1>5, <1>6, PublishLog

LEMMA ReducedDomain ==
  ASSUME NEW v, NEW i, NEW q
  PROVE  DOMAIN Reduced(v, i, q) \subseteq DOMAIN v
BY DEF Reduced, Drop, Put

LEMMA TradeLog ==
  ASSUME LogInv, NEW b \in 0..MaxOrders, NEW s \in 0..MaxOrders, NEW q \in Quantity,
         Trade(b, s, q)
  PROVE  LogInv'
<1> DEFINE m == [kind |-> "trade", buy |-> b, sell |-> s, qty |-> q]
           v == Reduced(Newest, b, q)
           w == Reduced(v, s, q)
<1>1. /\ b \in Nat /\ s \in Nat /\ q \in Nat \ {0} /\ b # s
      /\ Publish(m, w)
  BY FeedAssumption DEF Trade
<1>2. \A i \in {b, s} : i \in DOMAIN Newest => q <= Newest[i].qty
  <2>1. \A i \in Arriving : i \notin DOMAIN Newest
    BY NewestBook DEF Arriving, Unplaced
  <2>2. 0 \notin DOMAIN Newest
    BY NewestBook DEF Book
  <2> QED
    BY <2>1, <2>2 DEF Trade, OnSide
<1>3. Book(v) /\ Follows(v, v, EmptyBook)
  <2>1. Book(v)
    BY <1>1, <1>2, NewestBook, FollowsReduced
  <2>2. \A i : i \in DOMAIN v /\ i > 0 <=> i \in DOMAIN v \ DOMAIN EmptyBook
    BY <2>1 DEF Book, EmptyBook
  <2> QED
    BY <2>1, <2>2, FollowsAt
<1>4. s \in DOMAIN v => q <= v[s].qty
  <2>1. s \in DOMAIN v => s \in DOMAIN Newest /\ v[s] = Newest[s]
    BY <1>1 DEF Reduced, Drop, Put
  <2> QED
    BY <1>2, <2>1
<1>5. Book(w)
  <2> HIDE DEF v
  <2> QED
    BY <1>1, <1>3, <1>4, FollowsReduced DEF w
<1>6. \A i \in DOMAIN w : i \in DOMAIN Newest
  BY ReducedDomain
<1>7. Tells(m, Newest, w) /\ ~IsInsert(m)
  BY <1>1, <1>2 DEF Tells, IsInsert
<1> HIDE DEF m, w
<1> QED
  BY <1>1, <1>5, <1>6, <1>7, PublishLog

LEMMA TakeSnapshotLog ==
  ASSUME LogInv, NEW symbol, NEW unquoted \in Unquoted,
         TakeSnapshot(symbol, unquoted)
  PROVE  LogInv'
<1> DEFINE m == [kind |-> "snapshot", symbol |-> symbol,
                 bids |-> Levels(Newest, "buy") \o unquoted, asks |-> Levels(Newest, "sell")]
<1>1. Publish(m, Newest)
  BY DEF TakeSnapshot
<1>2. m.kind = "snapshot" /\ Lists(m, Newest)
  BY DEF Lists
<1> HIDE DEF m
<1>3. Tells(m, Newest, Newest) /\ ~IsInsert(m)
  BY <1>2 DEF Tells, IsInsert
<1>4. Book(Newest)
  BY NewestBook
<1> QED
  BY <1>1, <1>3, <1>4, PublishLog

-----------------------------------------------------------------------------
(* A message in its turn, and the latest one again.                        *)

\* What m makes of a book that follows v follows w.
LEMMA TurnFollows ==
  ASSUME NEW m, NEW v, NEW w, NEW u, Tells(m, v, w), Book(v), Follows(core, v, u),
         IsInsert(m) => m.order \notin DOMAIN v /\ m.order \notin DOMAIN u,
         m.kind # "snapshot", Receive(Raw(m))
  PROVE  Follows(core', w, u)
<1>1. CASE IsInsert(m)
  <2>1. /\ m.kind = "increment" /\ m.type = "insert" /\ m.side \in Side
        /\ m.order \in Nat \ {0} /\ EntryOf(m) \in OrderType
        /\ w = Put(v, m.order, EntryOf(m))
    BY <1>1 DEF IsInsert, Tells
  <2>2. OnOrderIncrement(IncrementOf(m))
    BY <2>1, ReceiveIncrement DEF IncrementType
  <2>3. core' = InsertOrder(core, m.order, EntryOf(m))
    BY <2>1, <2>2 DEF OnOrderIncrement, AfterIncrement, IncrementOf, EntryOf
  <2> QED
    BY <1>1, <2>1, <2>3, FollowsPut
<1>2. CASE m.kind = "increment" /\ m.type = "delete"
  <2>1. m.side \in Side /\ w = Drop(v, m.order)
    BY <1>2 DEF IsInsert, Tells
  <2>2. OnOrderIncrement(IncrementOf(m))
    BY <1>2, <2>1, ReceiveIncrement DEF IncrementType
  <2>3. core' = Drop(core, m.order)
    BY <1>2, <2>2 DEF OnOrderIncrement, AfterIncrement, IncrementOf, DeleteOrder
  <2> QED
    BY <2>1, <2>3, FollowsDrop
<1>3. CASE m.kind = "increment" /\ m.type = "modify"
  <2>1. /\ m.side \in Side /\ m.order \in DOMAIN v /\ m.qty \in Nat \ {0}
        /\ w = Put(v, m.order, [v[m.order] EXCEPT !.qty = m.qty])
    BY <1>3 DEF IsInsert, Tells
  <2>2. OnOrderIncrement(IncrementOf(m))
    BY <1>3, <2>1, ReceiveIncrement DEF IncrementType
  <2>3. core' = ResizeOrder(core, m.order, m.qty)
    BY <1>3, <2>2 DEF OnOrderIncrement, AfterIncrement, IncrementOf
  <2> QED
    BY <2>1, <2>3, FollowsResize
<1>4. CASE m.kind = "trade"
  <2>1. /\ m.buy \in Nat /\ m.sell \in Nat /\ m.buy # m.sell /\ m.qty \in Nat \ {0}
        /\ \A i \in {m.buy, m.sell} : i \in DOMAIN v => m.qty <= v[i].qty
        /\ w = Reduced(Reduced(v, m.buy, m.qty), m.sell, m.qty)
    BY <1>4 DEF IsInsert, Tells
  <2> DEFINE half == Reduced(v, m.buy, m.qty)
             b == Filled(core, m.buy, m.qty)
  <2>2. OnTrade([buy |-> m.buy, sell |-> m.sell, qty |-> m.qty])
    BY <1>4, ReceiveTrade
  <2>3. core' = Filled(b, m.sell, m.qty)
    BY <2>2 DEF OnTrade
  <2>4. Follows(b, half, u) /\ Book(half)
    BY <2>1, FollowsReduced
  <2>5. m.sell \in DOMAIN half => m.qty <= half[m.sell].qty
    <3>1. m.sell \in DOMAIN half => m.sell \in DOMAIN v /\ half[m.sell] = v[m.sell]
      BY <2>1 DEF Reduced, Drop, Put
    <3> QED
      BY <2>1, <3>1
  <2> HIDE DEF half, b
  <2>6. Follows(Filled(b, m.sell, m.qty), Reduced(half, m.sell, m.qty), u)
    BY <2>1, <2>4, <2>5, FollowsReduced
  <2> QED
    BY <2>1, <2>3, <2>6 DEF half
<1> QED
  BY <1>1, <1>2, <1>3, <1>4 DEF Tells, IsInsert

\* An increment that comes again right away changes nothing.
LEMMA AgainFollows ==
  ASSUME NEW m, NEW v, NEW w, NEW u, Tells(m, v, w), Book(w), Book(v), Follows(core, w, u),
         IsInsert(m) => m.order \notin DOMAIN u,
         m.kind = "increment", Receive(Raw(m))
  PROVE  Follows(core', w, u)
<1>1. CASE IsInsert(m)
  <2>1. /\ m.kind = "increment" /\ m.type = "insert" /\ m.side \in Side
        /\ m.order \in Nat \ {0} /\ w = Put(v, m.order, EntryOf(m))
    BY <1>1 DEF IsInsert, Tells
  <2>2. OnOrderIncrement(IncrementOf(m))
    BY <2>1, ReceiveIncrement DEF IncrementType
  <2>3. core' = InsertOrder(core, m.order, EntryOf(m))
    BY <2>1, <2>2 DEF OnOrderIncrement, AfterIncrement, IncrementOf, EntryOf
  <2>4. m.order \in DOMAIN w \ DOMAIN u
    BY <1>1, <2>1 DEF Put
  <2>5. m.order \in DOMAIN core
    BY <2>4, FollowsAt
  <2> QED
    BY <2>3, <2>5 DEF InsertOrder
<1>2. CASE m.type = "delete"
  <2>1. m.side \in Side /\ w = Drop(v, m.order)
    BY <1>2 DEF IsInsert, Tells
  <2>2. OnOrderIncrement(IncrementOf(m))
    BY <1>2, <2>1, ReceiveIncrement DEF IncrementType
  <2>3. core' = Drop(core, m.order)
    BY <1>2, <2>2 DEF OnOrderIncrement, AfterIncrement, IncrementOf, DeleteOrder
  <2>4. Drop(w, m.order) = w
    BY <2>1 DEF Drop
  <2> QED
    BY <2>3, <2>4, FollowsDrop
<1>3. CASE m.type = "modify"
  <2>1. /\ m.side \in Side /\ m.order \in DOMAIN v /\ m.qty \in Nat \ {0}
        /\ w = Put(v, m.order, [v[m.order] EXCEPT !.qty = m.qty])
    BY <1>3 DEF IsInsert, Tells
  <2>2. OnOrderIncrement(IncrementOf(m))
    BY <1>3, <2>1, ReceiveIncrement DEF IncrementType
  <2>3. core' = ResizeOrder(core, m.order, m.qty)
    BY <1>3, <2>2 DEF OnOrderIncrement, AfterIncrement, IncrementOf
  <2>4. Put(w, m.order, [w[m.order] EXCEPT !.qty = m.qty]) = w /\ m.order \in DOMAIN w
    <3>1. w[m.order] = [v[m.order] EXCEPT !.qty = m.qty] /\ m.order \in DOMAIN w
      BY <2>1 DEF Put
    <3>2. v[m.order] \in OrderType
      BY <2>1 DEF Book
    <3>3. [w[m.order] EXCEPT !.qty = m.qty] = w[m.order]
      BY <3>1, <3>2 DEF OrderType
    <3>4. w = [i \in DOMAIN w |-> w[i]]
      BY DEF Book
    <3>5. Put(w, m.order, w[m.order]) = w
      BY <3>1, <3>4 DEF Put
    <3> QED
      BY <3>1, <3>3, <3>5
  <2> QED
    BY <2>1, <2>3, <2>4, FollowsResize
<1> QED
  BY <1>1, <1>2, <1>3 DEF Tells, IsInsert

-----------------------------------------------------------------------------
(* The invariant.                                                          *)

PosInv ==
  /\ pos \in Nat /\ base \in Nat /\ base <= pos /\ pos <= Len(log)
  /\ base > 0 => Message(base).kind = "snapshot"

FeedInv == LogInv /\ PosInv /\ RealOrdersFollow

\* The places of the feed as constants, which a prime leaves alone.
LEMMA PlacesInv ==
  ASSUME NEW p, NEW b, p = pos, b = base
  PROVE  RealOrdersFollow <=> (clean => Follows(core, Version(p), Version(b)))
BY DEF RealOrdersFollow, Follows

LEMMA PlacesInvNext ==
  ASSUME NEW p, NEW b, p = pos', b = base', UNCHANGED log
  PROVE  RealOrdersFollow' <=> (clean' => Follows(core', Version(p), Version(b)))
BY DEF RealOrdersFollow, Follows, Version

\* The versions and messages the feed has passed over stay.
LEMMA PublishInv ==
  ASSUME FeedInv, NEW m, NEW w, Publish(m, w), LogInv'
  PROVE  FeedInv'
<1>1. PICK n, p, b : n = Len(log) /\ p = pos /\ b = base
  OBVIOUS
<1>2. /\ n \in Nat /\ Len(log') = n + 1
      /\ \A k \in 1..n : Message(k)' = Message(k)
      /\ \A k \in 0..n : Version(k)' = Version(k)
  BY <1>1, PublishKeeps DEF FeedInv
<1>3. p \in 0..n /\ b \in 0..n /\ (b > 0 => b \in 1..n)
  BY <1>1, <1>2 DEF FeedInv, PosInv
<1>4. UNCHANGED <<core, pos, base, clean>>
  BY DEF Publish
<1>5. Version(pos)' = Version(pos) /\ Version(base)' = Version(base)
  <2>1. Version(p)' = Version(p) /\ Version(b)' = Version(b)
    BY <1>2, <1>3
  <2> QED
    BY <1>1, <1>4, <2>1 DEF Version
<1>6. base > 0 => Message(base)' = Message(base)
  <2>1. b > 0 => Message(b)' = Message(b)
    BY <1>2, <1>3
  <2> QED
    BY <1>1, <1>4, <2>1 DEF Message
<1>7. PosInv'
  BY <1>1, <1>2, <1>4, <1>6 DEF FeedInv, PosInv
<1>8. RealOrdersFollow'
  BY <1>4, <1>5 DEF FeedInv, RealOrdersFollow, RealPart
<1> QED
  BY <1>7, <1>8 DEF FeedInv

LEMMA LogUnchanged ==
  ASSUME LogInv, UNCHANGED log
  PROVE  LogInv'
BY DEF LogInv, Message, Version, Inserts

LEMMA DeliverInv ==
  ASSUME FeedInv, Deliver
  PROVE  FeedInv'
<1>1. PICK n, p, b : n = Len(log) /\ p = pos /\ b = base
  OBVIOUS
<1> DEFINE k == p + 1
           m == Message(k)
           snap == [symbol |-> m.symbol, bids |-> m.bids, asks |-> m.asks]
<1>2. /\ n \in Nat /\ p \in Nat /\ b \in Nat /\ b <= p /\ k \in 1..n
      /\ pos' = k /\ UNCHANGED log /\ Receive(Raw(m))
  BY <1>1 DEF FeedInv, LogInv, PosInv, Deliver
<1>3. /\ Tells(m, Version(p), Version(k)) /\ Book(Version(p))
      /\ IsInsert(m) => m.order \notin DOMAIN Version(p) /\ m.order \notin DOMAIN Version(b)
  <2>1. k - 1 = p /\ p \in 0..(k - 1) /\ b \in 0..(k - 1) /\ p \in 0..n
    BY <1>2
  <2> HIDE DEF k
  <2> QED
    BY <1>1, <1>2, <2>1 DEF FeedInv, LogInv
<1>4. clean => Follows(core, Version(p), Version(b))
  BY <1>1, PlacesInv DEF FeedInv
<1>5. CASE OwnSnapshot(k)
  <2>1. base' = k /\ m.kind = "snapshot" /\ m.symbol = SymbolID
    BY <1>1, <1>5 DEF Deliver, OwnSnapshot
  <2>2. core' = RebuiltFrom(snap)
    <3>1. OnSnapshot(snap)
      BY <1>2, <2>1, ReceiveSnapshot
    <3> QED
      BY <2>1, <3>1 DEF OnSnapshot, SymbolMatches
  <2>3. RealOrdersFollow'
    <3>1. Follows(core', Version(k), Version(k))
      BY <2>2, FollowsRebuilt
    <3> HIDE DEF k
    <3> QED
      BY <1>2, <2>1, <3>1, PlacesInvNext
  <2>4. PosInv'
    BY <1>1, <1>2, <2>1 DEF PosInv, Message
  <2> QED
    BY <1>2, <2>3, <2>4, LogUnchanged DEF FeedInv
<1>6. CASE ~OwnSnapshot(k)
  <2>1. base' = b /\ clean' = clean
    BY <1>1, <1>6 DEF Deliver
  <2>2. ASSUME clean
        PROVE  Follows(core', Version(k), Version(b))
    <3>1. CASE m.kind = "snapshot"
      <4>1. OnSnapshot(snap)
        BY <1>2, <3>1, ReceiveSnapshot
      <4>2. core' = core
        BY <1>6, <3>1, <4>1 DEF OnSnapshot, SymbolMatches, OwnSnapshot
      <4>3. Version(k) = Version(p)
        BY <1>3, <3>1 DEF Tells, IsInsert
      <4> QED
        BY <1>4, <2>2, <4>2, <4>3
    <3>2. CASE m.kind # "snapshot"
      <4> HIDE DEF k, m
      <4> QED
        BY <1>2, <1>3, <1>4, <2>2, <3>2, TurnFollows
    <3> QED
      BY <3>1, <3>2
  <2>3. RealOrdersFollow'
    <3> HIDE DEF k, m
    <3> QED
      BY <1>2, <2>1, <2>2, PlacesInvNext
  <2>4. PosInv'
    BY <1>1, <1>2, <2>1 DEF FeedInv, PosInv, Message
  <2> QED
    BY <1>2, <2>3, <2>4, LogUnchanged DEF FeedInv
<1> QED
  BY <1>5, <1>6

\* A message is missed: only a snapshot may be without more ado.
LEMMA MissInv ==
  ASSUME FeedInv, MissNext, Message(pos + 1).kind = "snapshot" => core' = core
  PROVE  FeedInv'
<1>1. PICK n, p, b : n = Len(log) /\ p = pos /\ b = base
  OBVIOUS
<1> DEFINE k == p + 1
<1>2. /\ n \in Nat /\ p \in Nat /\ b \in Nat /\ b <= p /\ k \in 1..n /\ k - 1 = p
      /\ pos' = k /\ base' = b /\ UNCHANGED log
      /\ clean' = (clean /\ Message(k).kind = "snapshot")
      /\ Message(k).kind = "snapshot" => core' = core
  BY <1>1 DEF FeedInv, LogInv, PosInv, MissNext
<1>3. clean => Follows(core, Version(p), Version(b))
  BY <1>1, PlacesInv DEF FeedInv
<1> HIDE DEF k
<1>4. clean' => Follows(core', Version(k), Version(b))
  <2> SUFFICES ASSUME clean, Message(k).kind = "snapshot"
               PROVE  Follows(core', Version(k), Version(b))
    BY <1>2
  <2>1. Tells(Message(k), Version(p), Version(k))
    BY <1>1, <1>2 DEF FeedInv, LogInv
  <2>2. Version(k) = Version(p)
    BY <2>1 DEF Tells, IsInsert
  <2> QED
    BY <1>2, <1>3, <2>2
<1>5. RealOrdersFollow'
  BY <1>2, <1>4, PlacesInvNext
<1>6. PosInv'
  BY <1>1, <1>2 DEF FeedInv, PosInv, Message
<1> QED
  BY <1>2, <1>5, <1>6, LogUnchanged DEF FeedInv

LEMMA DamageKeeps ==
  ASSUME FeedInv, Damage
  PROVE  core' = core
<1>1. PICK k : k = pos + 1
  OBVIOUS
<1>2. Tells(Message(k), Version(k - 1), Version(k))
  BY <1>1 DEF Damage, MissNext, FeedInv, LogInv, PosInv
<1>3. /\ Message(k).kind \in {"increment", "trade", "snapshot"}
      /\ Message(k).kind = "increment" => Message(k).type \in IncrementType
  BY <1>2 DEF Tells, IsInsert, IncrementType
<1> QED
  BY <1>1, <1>3, ReceiveDamaged DEF Damage

LEMMA RepeatInv ==
  ASSUME FeedInv, NEW k \in 1..MaxMessages, Repeat(k)
  PROVE  FeedInv'
<1>1. PICK n, p, b : n = Len(log) /\ p = pos /\ b = base
  OBVIOUS
<1> DEFINE m == Message(k)
           snap == [symbol |-> m.symbol, bids |-> m.bids, asks |-> m.asks]
<1>2. /\ n \in Nat /\ p \in Nat /\ b \in Nat /\ b <= p /\ p <= n /\ k \in 1..n /\ k <= p
      /\ pos' = p /\ UNCHANGED log /\ Receive(Raw(m))
  BY <1>1, FeedAssumption DEF FeedInv, LogInv, PosInv, Repeat
<1>3. clean => Follows(core, Version(p), Version(b))
  BY <1>1, PlacesInv DEF FeedInv
<1>4. CASE k = p /\ OwnSnapshot(k)
  <2>1. base' = k /\ m.kind = "snapshot" /\ m.symbol = SymbolID
    BY <1>1, <1>4 DEF Repeat, OwnSnapshot
  <2>2. core' = RebuiltFrom(snap)
    <3>1. OnSnapshot(snap)
      BY <1>2, <2>1, ReceiveSnapshot
    <3> QED
      BY <2>1, <3>1 DEF OnSnapshot, SymbolMatches
  <2>3. RealOrdersFollow'
    <3>1. Follows(core', Version(k), Version(k))
      BY <2>2, FollowsRebuilt
    <3> QED
      BY <1>2, <1>4, <2>1, <3>1, PlacesInvNext
  <2>4. PosInv'
    BY <1>1, <1>2, <1>4, <2>1 DEF PosInv, Message
  <2> QED
    BY <1>2, <2>3, <2>4, LogUnchanged DEF FeedInv
<1>5. CASE ~(k = p /\ OwnSnapshot(k))
  <2>1. base' = b /\ clean' = (clean /\ k = p /\ m.kind # "trade")
    BY <1>1, <1>5 DEF Repeat
  <2>2. ASSUME clean, k = p, m.kind # "trade"
        PROVE  Follows(core', Version(p), Version(b))
    <3>1. Tells(m, Version(k - 1), Version(k)) /\ k - 1 \in 0..n /\ k \in 0..n
      BY <1>1, <1>2 DEF FeedInv, LogInv
    <3>2. CASE m.kind = "snapshot"
      <4>1. OnSnapshot(snap)
        BY <1>2, <3>2, ReceiveSnapshot
      <4>2. core' = core
        BY <1>5, <2>2, <3>2, <4>1 DEF OnSnapshot, SymbolMatches, OwnSnapshot
      <4> QED
        BY <1>3, <2>2, <4>2
    <3>3. CASE m.kind = "increment"
      <4>1. b <= k - 1
        <5>1. b # k
          BY <1>1, <1>2, <3>3 DEF FeedInv, PosInv
        <5> QED
          BY <1>2, <2>2, <5>1
      <4>2. IsInsert(m) => m.order \notin DOMAIN Version(b)
        BY <1>1, <1>2, <4>1 DEF FeedInv, LogInv
      <4>3. Book(Version(k - 1)) /\ Book(Version(k))
        BY <1>1, <3>1 DEF FeedInv, LogInv
      <4>4. Follows(core, Version(k), Version(b))
        BY <1>3, <2>2
      <4> HIDE DEF m
      <4>5. Follows(core', Version(k), Version(b))
        BY <1>2, <3>1, <3>3, <4>2, <4>3, <4>4, AgainFollows
      <4> QED
        BY <2>2, <4>5
    <3> QED
      BY <2>2, <3>1, <3>2, <3>3 DEF Tells, IsInsert
  <2>3. RealOrdersFollow'
    <3> HIDE DEF m
    <3> QED
      BY <1>2, <2>1, <2>2, PlacesInvNext
  <2>4. PosInv'
    BY <1>1, <1>2, <2>1 DEF FeedInv, PosInv, Message
  <2> QED
    BY <1>2, <2>3, <2>4, LogUnchanged DEF FeedInv
<1> QED
  BY <1>4, <1>5

LEMMA FeedStart == ASSUME Init PROVE FeedInv
<1>1. Len(log) = 0 /\ pos = 0 /\ base = 0 /\ log = <<>> /\ core = EmptyBook
  BY DEF Init, BookInit
<1>2. Version(0) = EmptyBook
  BY DEF Version
<1>3. Book(EmptyBook) /\ DOMAIN EmptyBook = {}
  BY FS_EmptySet DEF EmptyBook, Book
<1>4. LogInv
  <2>1. log = [k \in 1..Len(log) |-> log[k]]
    BY <1>1, EmptySeq, LenProperties
  <2> QED
    BY <1>1, <1>2, <1>3, <2>1 DEF LogInv
<1>5. PosInv
  BY <1>1 DEF PosInv
<1>6. Follows(core, Version(0), Version(0))
  BY <1>1, <1>2, <1>3, FollowsAt
<1> QED
  BY <1>1, <1>4, <1>5, <1>6, PlacesInv DEF FeedInv

LEMMA FeedStep ==
  ASSUME FeedInv, [Next]_vars
  PROVE  FeedInv'
<1>1. ASSUME NEW i \in 1..MaxOrders, NEW quote \in Quote, Place(i, quote)
      PROVE  FeedInv'
  BY <1>1, PlaceLog, PublishInv DEF Place, FeedInv
<1>2. ASSUME NEW i \in 1..MaxOrders, Withdraw(i)
      PROVE  FeedInv'
  <2>1. PICK m, w : Publish(m, w)
    BY <1>2 DEF Withdraw
  <2> QED
    BY <1>2, <2>1, WithdrawLog, PublishInv DEF FeedInv
<1>3. ASSUME NEW i \in 1..MaxOrders, NEW q \in Quantity, Amend(i, q)
      PROVE  FeedInv'
  <2>1. PICK m, w : Publish(m, w)
    BY <1>3 DEF Amend
  <2> QED
    BY <1>3, <2>1, AmendLog, PublishInv DEF FeedInv
<1>4. ASSUME NEW b \in 0..MaxOrders, NEW s \in 0..MaxOrders, NEW q \in Quantity, Trade(b, s, q)
      PROVE  FeedInv'
  <2>1. PICK m, w : Publish(m, w)
    BY <1>4 DEF Trade
  <2> QED
    BY <1>4, <2>1, TradeLog, PublishInv DEF FeedInv
<1>5. ASSUME NEW symbol, NEW unquoted \in Unquoted, TakeSnapshot(symbol, unquoted)
      PROVE  FeedInv'
  <2>1. PICK m, w : Publish(m, w)
    BY <1>5 DEF TakeSnapshot
  <2> QED
    BY <1>5, <2>1, TakeSnapshotLog, PublishInv DEF FeedInv
<1>6. CASE Exchange
  BY <1>1, <1>2, <1>3, <1>4, <1>5, <1>6 DEF Exchange, Unquoted
<1>7. CASE Deliver
  BY <1>7, DeliverInv
<1>8. CASE Lose
  BY <1>8, MissInv DEF Lose, bookVars
<1>9. CASE Damage
  BY <1>9, DamageKeeps, MissInv DEF Damage
<1>10. ASSUME NEW k \in 1..MaxMessages, Repeat(k)
       PROVE  FeedInv'
  BY <1>10, RepeatInv
<1>11. CASE UNCHANGED vars
  <2>1. UNCHANGED <<log, pos, base, clean, core>>
    BY <1>11 DEF vars
  <2>2. PosInv' /\ RealOrdersFollow'
    BY <2>1 DEF FeedInv, PosInv, Message, RealOrdersFollow, RealPart, Version
  <2> QED
    BY <2>1, <2>2, LogUnchanged DEF FeedInv
<1> QED
  BY <1>6, <1>7, <1>8, <1>9, <1>10, <1>11 DEF Next, Feed

LEMMA FeedInvariant == Spec => []FeedInv
<1>1. Init => FeedInv
  BY FeedStart
<1>2. FeedInv /\ [Next]_vars => FeedInv'
  BY FeedStep
<1> QED
  BY <1>1, <1>2, PTL DEF Spec

-----------------------------------------------------------------------------
(* The theorems.                                                           *)

\* For any exchange and any feed: as long as nothing that counts was missed since the
\* last snapshot, the rebuilt book has every order placed since, and no other.
THEOREM BookFollows == Spec => []RealOrdersFollow
<1>1. FeedInv => RealOrdersFollow
  BY DEF FeedInv
<1> QED
  BY <1>1, FeedInvariant, PTL

\* No damaged message changes an order of any exchange's broker.
THEOREM DamageHarmless == Spec => DamagedIgnored
<1>1. FeedInv /\ [Next]_vars => [Damage => core' = core]_vars
  BY DamageKeeps
<1> QED
  BY <1>1, FeedInvariant, PTL DEF Spec, DamagedIgnored

-----------------------------------------------------------------------------
(* Changes are counted.                                                    *)

CoreIsMap == core = [i \in DOMAIN core |-> core[i]]

LEMMA IncrementCounts ==
  ASSUME CoreIsMap, NEW inc, inc.type \in IncrementType, OnOrderIncrement(inc)
  PROVE  CoreIsMap' /\ (core' # core => updateCount' = updateCount + 1)
<1>1. core' = AfterIncrement(core, inc)
      /\ (~IncrementFails(inc) => updateCount' = updateCount + 1)
  BY DEF OnOrderIncrement, RecordUpdate
<1>2. CASE inc.type = "insert"
  <2> DEFINE e == [side |-> inc.side, price |-> inc.price, qty |-> inc.qty]
  <2>1. core' = InsertOrder(core, inc.order, e)
    BY <1>1, <1>2 DEF AfterIncrement
  <2>2. IncrementFails(inc) <=> inc.order \in DOMAIN core
    BY <1>2 DEF IncrementFails
  <2> HIDE DEF e
  <2> QED
    BY <1>1, <2>1, <2>2 DEF InsertOrder, Put, CoreIsMap
<1>3. CASE inc.type = "delete"
  <2>1. core' = Drop(core, inc.order)
    BY <1>1, <1>3 DEF AfterIncrement, DeleteOrder
  <2>2. IncrementFails(inc) <=> inc.order \notin DOMAIN core
    BY <1>3 DEF IncrementFails
  <2> QED
    BY <1>1, <2>1, <2>2 DEF Drop, CoreIsMap
<1>4. CASE inc.type = "modify"
  <2>1. core' = ResizeOrder(core, inc.order, inc.qty)
    BY <1>1, <1>4 DEF AfterIncrement
  <2>2. IncrementFails(inc) <=> inc.order \notin DOMAIN core \/ ~(inc.qty > 0)
    BY <1>4 DEF IncrementFails
  <2>3. CASE IncrementFails(inc)
    BY <1>1, <2>1, <2>2, <2>3 DEF ResizeOrder, CoreIsMap
  <2>4. CASE ~IncrementFails(inc)
    BY <1>1, <2>1, <2>4 DEF ResizeOrder, CoreIsMap
  <2> QED
    BY <2>3, <2>4
<1> QED
  BY <1>2, <1>3, <1>4 DEF IncrementType

LEMMA FilledIsMap ==
  ASSUME NEW b, b = [i \in DOMAIN b |-> b[i]], NEW i, NEW q
  PROVE  Filled(b, i, q) = [j \in DOMAIN Filled(b, i, q) |-> Filled(b, i, q)[j]]
BY DEF Filled, DeleteOrder, Drop, ResizeOrder

LEMMA SnapshotCounts ==
  ASSUME CoreIsMap, NEW snap, OnSnapshot(snap)
  PROVE  CoreIsMap' /\ (core' # core => updateCount' = updateCount + 1)
<1>1. InsertedEntries(snap) = 1..Len(SnapshotEntries(snap))
  BY DEF InsertedEntries, VirtualID
<1>2. CASE SymbolMatches(snap)
  BY <1>1, <1>2 DEF OnSnapshot, RecordUpdate, RebuiltFrom, CoreIsMap
<1>3. CASE ~SymbolMatches(snap)
  BY <1>3 DEF OnSnapshot, CoreIsMap
<1> QED
  BY <1>2, <1>3

\* Of whatever the client is given.
LEMMA ReceiveCounts ==
  ASSUME CoreIsMap, NEW raw, Receive(raw)
  PROVE  CoreIsMap' /\ (core' # core => updateCount' = updateCount + 1)
<1>1. ASSUME NEW inc \in ParseOrderIncrement(raw), OnOrderIncrement(inc)
      PROVE  CoreIsMap' /\ (core' # core => updateCount' = updateCount + 1)
  <2>1. inc.type \in IncrementType
    <3>1. Field(raw.data, "type", "") \in IncrementType /\ inc.type = raw.data["type"]
      <4> DEFINE guard == /\ Readable(raw, "increment")
                          /\ Field(raw.data, "type", "") \in IncrementType
                          /\ Field(raw.data, "side", "") \in Side
                 made == [type |-> raw.data["type"], order |-> Field(raw.data, "order_id", 0),
                          price |-> Field(raw.data, "price", 0),
                          qty |-> Field(raw.data, "quantity", 0), side |-> raw.data["side"]]
      <4>1. ParseOrderIncrement(raw) = IF guard THEN {made} ELSE {}
        BY DEF ParseOrderIncrement
      <4>2. made.type = raw.data["type"]
        OBVIOUS
      <4>3. guard => Field(raw.data, "type", "") \in IncrementType
        OBVIOUS
      <4> HIDE DEF guard, made
      <4> QED
        BY <1>1, <4>1, <4>2, <4>3
    <3>2. "" \notin IncrementType
      BY DEF IncrementType
    <3> QED
      BY <3>1, <3>2 DEF Field
  <2> QED
    BY <1>1, <2>1, IncrementCounts
<1>2. ASSUME NEW trade \in ParseTrade(raw), OnTrade(trade)
      PROVE  CoreIsMap' /\ (core' # core => updateCount' = updateCount + 1)
  BY <1>2, FilledIsMap DEF OnTrade, RecordUpdate, CoreIsMap
<1>3. ASSUME NEW snap \in ParseSnapshot(raw), OnSnapshot(snap)
      PROVE  CoreIsMap' /\ (core' # core => updateCount' = updateCount + 1)
  BY <1>3, SnapshotCounts
<1>4. CASE UNCHANGED bookVars
  BY <1>4 DEF bookVars, CoreIsMap
<1> QED
  BY <1>1, <1>2, <1>3, <1>4 DEF Receive

LEMMA NextCounts ==
  ASSUME CoreIsMap, [Next]_vars
  PROVE  CoreIsMap' /\ [core' # core => updateCount' = updateCount + 1]_vars
<1>1. CASE UNCHANGED core
  BY <1>1 DEF CoreIsMap
<1>2. CASE \E raw : Receive(raw)
  BY <1>2, ReceiveCounts
<1>3. Exchange => UNCHANGED core
  BY DEF Exchange, Place, Withdraw, Amend, Trade, TakeSnapshot, Publish
<1>4. Feed => UNCHANGED core \/ \E raw : Receive(raw)
  BY DEF Feed, Deliver, Lose, Damage, Repeat, bookVars
<1> QED
  BY <1>1, <1>2, <1>3, <1>4 DEF Next, vars

\* Whatever the feed does, a book that changes counts one update.
THEOREM UpdatesCounted == Spec => ChangesCounted
<1>1. Init => CoreIsMap
  BY DEF Init, BookInit, EmptyBook, CoreIsMap
<1>2. CoreIsMap /\ [Next]_vars =>
        CoreIsMap' /\ [core' # core => updateCount' = updateCount + 1]_vars
  BY NextCounts
<1> QED
  BY <1>1, <1>2, PTL DEF Spec, ChangesCounted

-----------------------------------------------------------------------------
(* The book shows nothing that was not published.                          *)

\* Order i was placed like o, and was once as large.
Published(i, o) ==
  /\ o \in OrderType
  /\ \E k \in Inserts(i) : Message(k).side = o.side /\ Message(k).price = o.price
  /\ \E k \in DOMAIN log : /\ Message(k).kind = "increment" /\ Message(k).order = i
                           /\ Message(k).qty \in Nat /\ Message(k).qty >= o.qty

AllPublished(b) == \A i \in DOMAIN b : i > 0 => Published(i, b[i])

\* An order that gets smaller stays one that was published.
LEMMA PublishedSmaller ==
  ASSUME NEW i, NEW o, Published(i, o), NEW q \in Nat \ {0}, q <= o.qty
  PROVE  Published(i, [o EXCEPT !.qty = q])
<1> DEFINE r == [o EXCEPT !.qty = q]
<1>1. o \in OrderType /\ r \in OrderType /\ r.side = o.side /\ r.price = o.price /\ r.qty = q
  BY DEF Published, OrderType
<1> HIDE DEF r
<1>2. o.qty \in Nat
  BY <1>1 DEF OrderType
<1>3. PICK k \in DOMAIN log : /\ Message(k).kind = "increment" /\ Message(k).order = i
                              /\ Message(k).qty \in Nat /\ Message(k).qty >= o.qty
  BY DEF Published
<1>4. Message(k).qty >= q
  BY <1>2, <1>3
<1>5. \E j \in Inserts(i) : Message(j).side = r.side /\ Message(j).price = r.price
  BY <1>1 DEF Published
<1>6. r.qty = q /\ r \in OrderType
  BY <1>1
<1>7. Published(i, r)
  BY <1>3, <1>4, <1>5, <1>6 DEF Published
<1> QED
  BY <1>7 DEF r

LEMMA AllPublishedFilled ==
  ASSUME NEW b, AllPublished(b), NEW i \in Nat, NEW q \in Nat \ {0}
  PROVE  AllPublished(Filled(b, i, q))
<1>1. CASE i = 0 \/ i \notin DOMAIN b
  BY <1>1 DEF Filled
<1>2. CASE i # 0 /\ i \in DOMAIN b
  <2>1. Published(i, b[i]) /\ b[i].qty \in Nat \ {0}
    BY <1>2 DEF AllPublished, Published, OrderType
  <2>2. CASE b[i].qty <= q
    BY <1>2, <2>2 DEF Filled, DeleteOrder, Drop, AllPublished
  <2>3. CASE ~(b[i].qty <= q)
    <3>1. b[i].qty - q \in Nat \ {0} /\ b[i].qty - q <= b[i].qty
      BY <2>1, <2>3
    <3> DEFINE r == [b[i] EXCEPT !.qty = b[i].qty - q]
    <3>2. Filled(b, i, q) = [b EXCEPT ![i] = r]
      BY <1>2, <2>3, <3>1 DEF Filled, ResizeOrder
    <3>3. Published(i, r)
      BY <2>1, <3>1, PublishedSmaller
    <3> HIDE DEF r
    <3> QED
      BY <3>2, <3>3 DEF AllPublished
  <2> QED
    BY <2>2, <2>3
<1> QED
  BY <1>1, <1>2

\* A message of the log keeps the book so, in its turn or not.
LEMMA ReceivePublished ==
  ASSUME LogInv, AllPublished(core), NEW k \in 1..Len(log), Receive(Raw(Message(k)))
  PROVE  AllPublished(core')
<1> DEFINE m == Message(k)
           v == Version(k - 1)
<1>1. Tells(m, v, Version(k)) /\ k \in DOMAIN log
  BY DEF LogInv
<1>2. CASE IsInsert(m)
  <2>1. /\ m.kind = "increment" /\ m.type = "insert" /\ m.side \in Side
        /\ m.order \in Nat \ {0} /\ EntryOf(m) \in OrderType
    BY <1>1, <1>2 DEF IsInsert, Tells
  <2>2. OnOrderIncrement(IncrementOf(m))
    BY <2>1, ReceiveIncrement DEF IncrementType
  <2>3. core' = InsertOrder(core, m.order, EntryOf(m))
    BY <2>1, <2>2 DEF OnOrderIncrement, AfterIncrement, IncrementOf, EntryOf
  <2>4. k \in Inserts(m.order)
    BY <1>1, <2>1 DEF Inserts, Message
  <2>5. Published(m.order, EntryOf(m))
    BY <1>1, <2>1, <2>4 DEF Published, EntryOf, OrderType
  <2> HIDE DEF m
  <2> QED
    BY <2>3, <2>5 DEF InsertOrder, Put, AllPublished
<1>3. CASE m.kind = "increment" /\ m.type = "delete"
  <2>1. m.side \in Side
    BY <1>1, <1>3 DEF IsInsert, Tells
  <2>2. OnOrderIncrement(IncrementOf(m))
    BY <1>3, <2>1, ReceiveIncrement DEF IncrementType
  <2>3. core' = Drop(core, m.order)
    BY <1>3, <2>2 DEF OnOrderIncrement, AfterIncrement, IncrementOf, DeleteOrder
  <2> HIDE DEF m
  <2> QED
    BY <2>3 DEF Drop, AllPublished
<1>4. CASE m.kind = "increment" /\ m.type = "modify"
  <2>1. m.side \in Side /\ m.qty \in Nat \ {0}
    BY <1>1, <1>4 DEF IsInsert, Tells
  <2>2. OnOrderIncrement(IncrementOf(m))
    BY <1>4, <2>1, ReceiveIncrement DEF IncrementType
  <2>3. core' = ResizeOrder(core, m.order, m.qty)
    BY <1>4, <2>2 DEF OnOrderIncrement, AfterIncrement, IncrementOf
  <2>4. CASE m.order \notin DOMAIN core
    BY <2>3, <2>4 DEF ResizeOrder
  <2>5. CASE m.order \in DOMAIN core
    <3> DEFINE r == [core[m.order] EXCEPT !.qty = m.qty]
    <3>1. core' = [core EXCEPT ![m.order] = r]
      BY <2>1, <2>3, <2>5 DEF ResizeOrder
    <3>2. ASSUME m.order > 0
          PROVE  Published(m.order, r)
      <4>1. Published(m.order, core[m.order])
        BY <2>5, <3>2 DEF AllPublished
      <4>2. r \in OrderType /\ r.side = core[m.order].side /\ r.price = core[m.order].price
            /\ r.qty = m.qty
        BY <2>1, <4>1 DEF Published, OrderType
      <4> HIDE DEF r
      <4> QED
        BY <1>1, <1>4, <2>1, <4>1, <4>2 DEF Published
    <3> HIDE DEF r, m
    <3> QED
      BY <3>1, <3>2 DEF AllPublished
  <2> QED
    BY <2>4, <2>5
<1>5. CASE m.kind = "trade"
  <2>1. m.buy \in Nat /\ m.sell \in Nat /\ m.qty \in Nat \ {0}
    BY <1>1, <1>5 DEF IsInsert, Tells
  <2>2. OnTrade([buy |-> m.buy, sell |-> m.sell, qty |-> m.qty])
    BY <1>5, ReceiveTrade
  <2>3. core' = Filled(Filled(core, m.buy, m.qty), m.sell, m.qty)
    BY <2>2 DEF OnTrade
  <2> HIDE DEF m
  <2>4. AllPublished(Filled(core, m.buy, m.qty))
    BY <2>1, AllPublishedFilled
  <2> QED
    BY <2>1, <2>3, <2>4, AllPublishedFilled
<1>6. CASE m.kind = "snapshot"
  <2> DEFINE snap == [symbol |-> m.symbol, bids |-> m.bids, asks |-> m.asks]
  <2>1. OnSnapshot(snap)
    BY <1>6, ReceiveSnapshot
  <2>2. \A i \in DOMAIN RebuiltFrom(snap) : ~(i > 0)
    BY DEF RebuiltFrom, InsertedEntries, VirtualID
  <2> HIDE DEF snap
  <2> QED
    BY <2>1, <2>2 DEF OnSnapshot, AllPublished
<1> QED
  BY <1>1, <1>2, <1>3, <1>4, <1>5, <1>6 DEF Tells, IsInsert

\* What was published stays published.
LEMMA PublishPublished ==
  ASSUME LogInv, AllPublished(core), NEW m, NEW w, Publish(m, w)
  PROVE  AllPublished(core)'
<1>1. PICK n : n = Len(log)
  OBVIOUS
<1>2. /\ \A k \in 1..n : Message(k)' = Message(k)
      /\ DOMAIN log = 1..n /\ DOMAIN log \subseteq DOMAIN log'
  BY <1>1, PublishKeeps
<1>3. \A i : Inserts(i) \subseteq Inserts(i)'
  BY <1>2 DEF Inserts, Message
<1>4. \A i : Inserts(i) \subseteq 1..n
  BY <1>2 DEF Inserts
<1>5. \A i, o : Published(i, o) => Published(i, o)'
  BY <1>2, <1>3, <1>4 DEF Published
<1> QED
  BY <1>5 DEF Publish, AllPublished

LEMMA PublishedUnchanged ==
  ASSUME UNCHANGED log
  PROVE  \A b : AllPublished(b) <=> AllPublished(b)'
BY DEF AllPublished, Published, Inserts, Message

LEMMA PublishedStep ==
  ASSUME FeedInv, AllPublished(core), [Next]_vars
  PROVE  AllPublished(core)'
<1>1. CASE \E m, w : Publish(m, w)
  BY <1>1, PublishPublished DEF FeedInv
<1>2. CASE UNCHANGED log /\ AllPublished(core')
  <2>1. PICK b : b = core'
    OBVIOUS
  <2>2. AllPublished(b)'
    BY <1>2, <2>1, PublishedUnchanged
  <2> QED
    BY <2>1, <2>2 DEF AllPublished
<1>3. Exchange => \E m, w : Publish(m, w)
  BY DEF Exchange, Place, Withdraw, Amend, Trade, TakeSnapshot
<1>4. CASE Deliver
  <2>1. PICK k : k = pos + 1
    OBVIOUS
  <2>2. k \in 1..Len(log) /\ Receive(Raw(Message(k))) /\ UNCHANGED log
    BY <1>4, <2>1 DEF Deliver, FeedInv, LogInv, PosInv
  <2> QED
    BY <1>2, <2>2, ReceivePublished DEF FeedInv
<1>5. CASE Lose \/ Damage
  BY <1>2, <1>5, DamageKeeps DEF Lose, Damage, MissNext, bookVars
<1>6. ASSUME NEW k \in 1..MaxMessages, Repeat(k)
      PROVE  AllPublished(core)'
  <2>1. k \in 1..Len(log) /\ Receive(Raw(Message(k))) /\ UNCHANGED log
    BY <1>6, FeedAssumption DEF Repeat, FeedInv, LogInv, PosInv
  <2> QED
    BY <1>2, <2>1, ReceivePublished DEF FeedInv
<1>7. CASE UNCHANGED vars
  BY <1>2, <1>7 DEF vars
<1> QED
  BY <1>1, <1>3, <1>4, <1>5, <1>6, <1>7 DEF Next, Feed

\* Whatever any feed loses, damages, repeats or delays, the book shows no order that
\* was not published, elsewhere, or larger than it ever was.
THEOREM BookNeverOverstates == Spec => []NeverOverstates
<1>1. Init => AllPublished(core)
  BY DEF Init, BookInit, EmptyBook, AllPublished
<1>2. FeedInv /\ AllPublished(core) /\ [Next]_vars => AllPublished(core)'
  BY PublishedStep
<1>3. AllPublished(core) => NeverOverstates
  BY DEF AllPublished, Published, NeverOverstates
<1> QED
  BY <1>1, <1>2, <1>3, FeedInvariant, PTL DEF Spec

-----------------------------------------------------------------------------
(* The price levels of a book.                                             *)

\* The orders of a side, their prices, and what is quoted at a price.
OfSide(b, side) == {i \in DOMAIN b : b[i].side = side}
Prices(b, side) == {b[i].price : i \in OfSide(b, side)}
AtPrice(b, side, p) == {i \in OfSide(b, side) : b[i].price = p}
QtyAt(b, side, p) == SumFunction([i \in AtPrice(b, side, p) |-> b[i].qty])

\* The prices of a set in front of one, and the n-th best.
Ahead(P, side, p) == {q \in P : Better(side, q, p)}
NthBest(P, side, n) == CHOOSE p \in P : Cardinality(Ahead(P, side, p)) = n - 1

LEMMA LevelsAre ==
  ASSUME NEW b, NEW side
  PROVE  Levels(b, side) =
           [n \in 1..Cardinality(Prices(b, side)) |->
              [price |-> NthBest(Prices(b, side), side, n),
               qty |-> QtyAt(b, side, NthBest(Prices(b, side), side, n))]]
BY DEF Levels, Prices, OfSide, AtPrice, QtyAt, Ahead, NthBest

\* Prices are ranked from the best: each has a place, and each place one price.
LEMMA PricesRanked ==
  ASSUME NEW P, IsFiniteSet(P), P \subseteq Int, NEW side \in Side
  PROVE  /\ Cardinality(P) \in Nat
         /\ \A n \in 1..Cardinality(P) : /\ NthBest(P, side, n) \in P
                                         /\ Cardinality(Ahead(P, side, NthBest(P, side, n))) = n - 1
         /\ \A p \in P : \E n \in 1..Cardinality(P) : p = NthBest(P, side, n)
<1> DEFINE N == Cardinality(P)
           rank == [p \in P |-> Cardinality(Ahead(P, side, p)) + 1]
<1>1. N \in Nat
  BY FS_CardinalityType
<1>2. \A p \in P : /\ Ahead(P, side, p) \subseteq P /\ p \notin Ahead(P, side, p)
                   /\ IsFiniteSet(Ahead(P, side, p))
  <2>1. \A p \in P : p \notin Ahead(P, side, p) /\ Ahead(P, side, p) \subseteq P
    BY DEF Ahead, Better
  <2> QED
    BY <2>1, FS_Subset
<1>3. \A p \in P : Cardinality(Ahead(P, side, p)) \in 0..(N - 1)
  <2> SUFFICES ASSUME NEW p \in P
               PROVE  Cardinality(Ahead(P, side, p)) \in 0..(N - 1)
    OBVIOUS
  <2>1. PICK c \in Nat : c = Cardinality(Ahead(P, side, p))
    BY <1>2, FS_CardinalityType
  <2>2. c <= N /\ (N = c => P = Ahead(P, side, p))
    BY <1>2, <2>1, FS_Subset
  <2>3. N # c
    BY <1>2, <2>2
  <2> QED
    BY <1>1, <2>1, <2>2, <2>3
<1>4. ASSUME NEW p \in P, NEW q \in P, Better(side, p, q)
      PROVE  Cardinality(Ahead(P, side, p)) < Cardinality(Ahead(P, side, q))
  <2>1. /\ Ahead(P, side, p) \subseteq Ahead(P, side, q)
        /\ p \in Ahead(P, side, q) /\ p \notin Ahead(P, side, p)
    <3>1. \A r \in P : Better(side, r, p) => Better(side, r, q)
      BY <1>4 DEF Better
    <3> QED
      BY <1>2, <1>4, <3>1 DEF Ahead
  <2>2. PICK c \in Nat, d \in Nat :
          c = Cardinality(Ahead(P, side, p)) /\ d = Cardinality(Ahead(P, side, q))
    BY <1>2, FS_CardinalityType
  <2>3. c <= d /\ (d = c => Ahead(P, side, q) = Ahead(P, side, p))
    BY <1>2, <2>1, <2>2, FS_Subset
  <2> QED
    BY <2>1, <2>2, <2>3
<1>5. \A p, q \in P : p = q \/ Better(side, p, q) \/ Better(side, q, p)
  BY DEF Better
<1>6. rank \in [P -> 1..N] /\ \A p, q \in P : rank[p] = rank[q] => p = q
  <2>1. \A p \in P : Cardinality(Ahead(P, side, p)) + 1 \in 1..N
    BY <1>1, <1>3
  <2>2. \A p, q \in P : rank[p] = rank[q] => Cardinality(Ahead(P, side, p)) = Cardinality(Ahead(P, side, q))
    BY <1>3
  <2>3. \A p, q \in P : rank[p] = rank[q] => p = q
    BY <1>3, <1>4, <1>5, <2>2
  <2> QED
    BY <2>1, <2>3
<1>7. rank \in Surjection(P, 1..N)
  <2>1. rank \in Injection(P, 1..N)
    BY <1>6, Fun_IsInj
  <2>2. IsFiniteSet(1..N) /\ Cardinality(1..N) = N
    BY <1>1, FS_Interval
  <2> HIDE DEF rank
  <2> QED
    BY <2>1, <2>2, FS_Injection
<1>8. \A n \in 1..N : \E p \in P : rank[p] = n
  BY <1>7 DEF Surjection
<1>9. \A n \in 1..N : \E p \in P : Cardinality(Ahead(P, side, p)) = n - 1
  BY <1>3, <1>8
<1>10. \A n \in 1..N : /\ NthBest(P, side, n) \in P
                       /\ Cardinality(Ahead(P, side, NthBest(P, side, n))) = n - 1
  BY <1>9 DEF NthBest
<1>11. ASSUME NEW p \in P
       PROVE  \E n \in 1..N : p = NthBest(P, side, n)
  <2>1. PICK n \in 1..N : n = rank[p]
    BY <1>6
  <2>2. rank[NthBest(P, side, n)] = n
    BY <1>3, <1>10
  <2> HIDE DEF rank
  <2> QED
    BY <1>6, <1>10, <2>1, <2>2
<1> QED
  BY <1>1, <1>10, <1>11

\* Books with the same prices, and the same quoted at each, have the same levels.
LEMMA LevelsSame ==
  ASSUME NEW b, NEW c, NEW side \in Side, Prices(b, side) = Prices(c, side),
         IsFiniteSet(Prices(b, side)), Prices(b, side) \subseteq Int,
         \A p \in Prices(b, side) : QtyAt(b, side, p) = QtyAt(c, side, p)
  PROVE  Levels(b, side) = Levels(c, side)
<1>1. PICK P : P = Prices(b, side)
  OBVIOUS
<1>2. \A n \in 1..Cardinality(P) : NthBest(P, side, n) \in P
  BY <1>1, PricesRanked
<1>3. \A n \in 1..Cardinality(P) :
        [price |-> NthBest(P, side, n), qty |-> QtyAt(b, side, NthBest(P, side, n))]
          = [price |-> NthBest(P, side, n), qty |-> QtyAt(c, side, NthBest(P, side, n))]
  BY <1>1, <1>2
<1>4. /\ Levels(b, side) = [n \in 1..Cardinality(P) |-> [price |-> NthBest(P, side, n),
                              qty |-> QtyAt(b, side, NthBest(P, side, n))]]
      /\ Levels(c, side) = [n \in 1..Cardinality(P) |-> [price |-> NthBest(P, side, n),
                              qty |-> QtyAt(c, side, NthBest(P, side, n))]]
  BY <1>1, LevelsAre
<1> QED
  BY <1>3, <1>4

\* A finite set of orders.
FiniteBook(b) == IsFiniteSet(DOMAIN b) /\ \A i \in DOMAIN b : b[i] \in OrderType

LEMMA SumOfOne ==
  ASSUME NEW f, NEW x, DOMAIN f = {x}, f[x] \in Int
  PROVE  SumFunction(f) = f[x]
<1>1. IsFiniteSet({x}) /\ {x} \ {x} = {}
  BY FS_Singleton
<1>2. SumFunctionOnSet(f, {x}) = f[x] + SumFunctionOnSet(f, {x} \ {x})
  BY <1>1, SumWithout
<1>3. SumFunctionOnSet(f, {x}) = f[x] + 0
  BY <1>1, <1>2, SumEmpty
<1> QED
  BY <1>3 DEF SumFunction

\* What is quoted at the price of a level is positive.
LEMMA QtyPositive ==
  ASSUME NEW b, FiniteBook(b), NEW side, NEW p \in Prices(b, side)
  PROVE  QtyAt(b, side, p) \in Nat \ {0}
<1> DEFINE A == AtPrice(b, side, p)
           f == [i \in A |-> b[i].qty]
<1>1. A \subseteq DOMAIN b
  BY DEF AtPrice, OfSide
<1>2. IsFiniteSet(A) /\ \A i \in A : b[i].qty \in Nat \ {0}
  BY <1>1, FS_Subset DEF FiniteBook, OrderType
<1>3. PICK i : i \in A
  BY DEF Prices, AtPrice
<1>4. QtyAt(b, side, p) = SumFunctionOnSet(f, A)
  <2>1. QtyAt(b, side, p) = SumFunction(f) /\ DOMAIN f = A
    BY DEF QtyAt
  <2> HIDE DEF f, A
  <2> QED
    BY <2>1 DEF SumFunction
<1>5. \A j \in A : f[j] \in Nat \ {0}
  BY <1>2
<1> HIDE DEF f, A
<1>6. SumFunctionOnSet(f, A) = f[i] + SumFunctionOnSet(f, A \ {i})
  BY <1>2, <1>3, <1>5, SumWithout
<1>7. SumFunctionOnSet(f, A \ {i}) \in Nat
  <2>1. IsFiniteSet(A \ {i}) /\ \A j \in A \ {i} : f[j] \in Nat
    BY <1>2, <1>5, FS_RemoveElement
  <2> QED
    BY <2>1, SumNat
<1>8. PICK x \in Nat \ {0}, y \in Nat : x = f[i] /\ y = SumFunctionOnSet(f, A \ {i})
  BY <1>3, <1>5, <1>7
<1>9. QtyAt(b, side, p) = x + y
  BY <1>4, <1>6, <1>8
<1> QED
  BY <1>8, <1>9

\* The levels of a side: one for each price, best first, with what is quoted there.
LEMMA LevelsOf ==
  ASSUME NEW b, FiniteBook(b), NEW side \in Side, NEW L, L = Levels(b, side)
  PROVE  /\ IsFiniteSet(Prices(b, side)) /\ Prices(b, side) \subseteq Nat
         /\ Cardinality(Prices(b, side)) <= Cardinality(DOMAIN b)
         /\ L \in Seq([price : Nat, qty : Nat \ {0}])
         /\ Len(L) = Cardinality(Prices(b, side)) /\ DOMAIN L = 1..Len(L)
         /\ L \in [1..Len(L) -> [price : Nat, qty : Nat \ {0}]]
         /\ \A n \in 1..Len(L) : L[n].qty = QtyAt(b, side, L[n].price)
         /\ Prices(b, side) = {L[n].price : n \in 1..Len(L)}
         /\ \A m, n \in 1..Len(L) : L[m].price = L[n].price => m = n
<1> DEFINE P == Prices(b, side)
           Level == [price : Nat, qty : Nat \ {0}]
           S == OfSide(b, side)
<1>1. P \subseteq Nat /\ P \subseteq Int
  BY DEF Prices, OfSide, FiniteBook, OrderType
<1>2. IsFiniteSet(P) /\ Cardinality(P) <= Cardinality(DOMAIN b)
  <2>1. IsFiniteSet(S) /\ Cardinality(S) <= Cardinality(DOMAIN b)
    <3>1. S \in SUBSET DOMAIN b
      BY DEF OfSide
    <3> HIDE DEF S
    <3> QED
      BY <3>1, FS_Subset DEF FiniteBook
  <2> DEFINE f == [i \in S |-> b[i].price]
  <2>2. f \in [S -> P] /\ \A p \in P : \E i \in S : f[i] = p
    BY DEF Prices
  <2>3. f \in Surjection(S, P)
    BY <2>2, Fun_IsSurj
  <2> HIDE DEF f, S, P
  <2>4. IsFiniteSet(P) /\ Cardinality(P) <= Cardinality(S)
    BY <2>1, <2>3, FS_Surjection
  <2> QED
    BY <2>1, <2>4, FS_CardinalityType DEF FiniteBook
<1>3. PICK N \in Nat : N = Cardinality(P)
  BY <1>2, FS_CardinalityType
<1> DEFINE p(n) == NthBest(P, side, n)
<1>4. /\ \A n \in 1..N : p(n) \in P /\ Cardinality(Ahead(P, side, p(n))) = n - 1
      /\ \A q \in P : \E n \in 1..N : q = p(n)
  BY <1>1, <1>2, <1>3, PricesRanked
<1>5. L = [n \in 1..N |-> [price |-> p(n), qty |-> QtyAt(b, side, p(n))]]
  BY <1>3, LevelsAre
<1>6. \A n \in 1..N : p(n) \in Nat /\ QtyAt(b, side, p(n)) \in Nat \ {0}
  BY <1>1, <1>4, QtyPositive
<1> HIDE DEF p, P
<1>7. \A n \in 1..N : L[n] \in Level /\ L[n].price = p(n) /\ L[n].qty = QtyAt(b, side, p(n))
  BY <1>5, <1>6
<1>8. L \in [1..N -> Level]
  BY <1>5, <1>7
<1> HIDE DEF Level
<1>9. L \in Seq(Level) /\ Len(L) = N /\ DOMAIN L = 1..N
  BY <1>3, <1>8
<1>10. \A m, n \in 1..N : p(m) = p(n) => m = n
  BY <1>4
<1>11. P = {L[n].price : n \in 1..N}
  BY <1>4, <1>7
<1>12. N = Len(L)
  BY <1>9
<1>13. /\ \A n \in 1..Len(L) : L[n].qty = QtyAt(b, side, L[n].price)
       /\ \A m, n \in 1..Len(L) : L[m].price = L[n].price => m = n
  BY <1>7, <1>10, <1>12
<1>14. L \in [1..Len(L) -> Level] /\ P = {L[n].price : n \in 1..Len(L)} /\ DOMAIN L = 1..Len(L)
  BY <1>8, <1>9, <1>11, <1>12
<1> QED
  BY <1>1, <1>2, <1>3, <1>9, <1>12, <1>13, <1>14 DEF P, Level

-----------------------------------------------------------------------------
(* A book rebuilt from the levels of another.                              *)

LevelType == [price : Nat, qty : Nat \ {0}]

LEMMA UpTo ==
  ASSUME NEW n \in Nat
  PROVE  IsFiniteSet(1..n) /\ Cardinality(1..n) = n
BY FS_Interval

\* All the levels of a book are inserted, a price that nobody quotes is not.
LEMMA LiveLevelsAre ==
  ASSUME NEW L \in Seq(LevelType), NEW unquoted \in Unquoted, NEW side
  PROVE  LiveLevels(L \o unquoted, side) =
           [k \in 1..Len(L) |-> [side |-> side, price |-> L[k].price, qty |-> L[k].qty]]
<1> DEFINE ls == L \o unquoted
           live == {n \in DOMAIN ls : ls[n].qty > 0}
           Nth(k) == ls[CHOOSE n \in live : Cardinality({m \in live : m <= n}) = k]
<1>1. Len(L) \in Nat /\ \A n \in 1..Len(L) : L[n] \in LevelType /\ L[n].qty > 0
  <2>1. \A n \in 1..Len(L) : L[n] \in LevelType
    OBVIOUS
  <2> QED
    BY <2>1 DEF LevelType
<1>2. /\ \A n \in 1..Len(L) : n \in DOMAIN ls /\ ls[n] = L[n]
      /\ \A n \in DOMAIN ls : n \in 1..Len(L) \/ ls[n].qty = 0
  <2> DEFINE T == LevelType \cup {[price |-> 0, qty |-> 0]}
  <2>1. L \in Seq(T) /\ unquoted \in Seq(T)
    <3>1. L \in [1..Len(L) -> LevelType]
      BY LenProperties
    <3>2. L \in [1..Len(L) -> T]
      BY <3>1
    <3>3. [price |-> 0, qty |-> 0] \in T
      OBVIOUS
    <3> HIDE DEF T
    <3>4. L \in Seq(T)
      BY <1>1, <3>2
    <3>5. <<>> \in Seq(T) /\ <<[price |-> 0, qty |-> 0]>> \in Seq(T)
      BY <3>3
    <3>6. unquoted \in Seq(T)
      BY <3>5 DEF Unquoted
    <3> QED
      BY <3>4, <3>6
  <2>2. \/ Len(unquoted) = 0
        \/ Len(unquoted) = 1 /\ unquoted[1].qty = 0
    BY DEF Unquoted
  <2> HIDE DEF T
  <2>3. /\ DOMAIN ls = 1..(Len(L) + Len(unquoted))
        /\ \A n \in 1..Len(L) : ls[n] = L[n]
        /\ \A n \in (Len(L) + 1)..(Len(L) + Len(unquoted)) : ls[n] = unquoted[n - Len(L)]
    BY <2>1
  <2> QED
    BY <1>1, <2>2, <2>3
<1> HIDE DEF ls
<1>3. live = 1..Len(L)
  BY <1>1, <1>2
<1>4. Cardinality(live) = Len(L)
  <2>1. Cardinality(1..Len(L)) = Len(L)
    BY <1>1, UpTo
  <2> QED
    BY <1>3, <2>1
<1>5. ASSUME NEW k \in 1..Len(L)
      PROVE  Nth(k) = L[k]
  <2>1. \A n \in live : {m \in live : m <= n} = 1..n
    BY <1>1, <1>3
  <2>2. \A n \in Nat : Cardinality(1..n) = n
    BY UpTo
  <2>3. \A n \in live : Cardinality({m \in live : m <= n}) = n
    <3>1. live \subseteq Nat
      BY <1>1, <1>3
    <3> HIDE DEF live
    <3> QED
      BY <2>1, <2>2, <3>1
  <2> HIDE DEF live
  <2>4. (CHOOSE n \in live : Cardinality({m \in live : m <= n}) = k) = k
    BY <1>3, <2>3
  <2> QED
    BY <1>2, <2>4
<1>6. LiveLevels(ls, side) =
        [k \in 1..Cardinality(live) |-> [side |-> side, price |-> Nth(k).price, qty |-> Nth(k).qty]]
  BY DEF LiveLevels
<1> HIDE DEF live, Nth
<1> QED
  BY <1>4, <1>5, <1>6 DEF ls

\* The orders of a side are as large as the levels of L, order key[n] as the n-th.
Keyed(r, side, key, L) ==
  /\ \A i : i \in OfSide(r, side) <=> \E n \in 1..Len(L) : i = key[n]
  /\ \A m, n \in 1..Len(L) : key[m] = key[n] => m = n
  /\ \A n \in 1..Len(L) : r[key[n]].price = L[n].price /\ r[key[n]].qty = L[n].qty

\* Orders as large as the levels of a side, one for each, make the same levels.
LEMMA LevelsFromKeys ==
  ASSUME NEW v, FiniteBook(v), NEW side \in Side, NEW L, L = Levels(v, side),
         NEW r, NEW key, Keyed(r, side, key, L)
  PROVE  Levels(r, side) = Levels(v, side)
<1>0. /\ \A i : i \in OfSide(r, side) <=> \E n \in 1..Len(L) : i = key[n]
      /\ \A m, n \in 1..Len(L) : key[m] = key[n] => m = n
      /\ \A n \in 1..Len(L) : r[key[n]].price = L[n].price /\ r[key[n]].qty = L[n].qty
  BY DEF Keyed
<1>1. /\ IsFiniteSet(Prices(v, side)) /\ Prices(v, side) \subseteq Nat
      /\ L \in [1..Len(L) -> LevelType]
      /\ \A n \in 1..Len(L) : L[n].qty = QtyAt(v, side, L[n].price)
      /\ Prices(v, side) = {L[n].price : n \in 1..Len(L)}
      /\ \A m, n \in 1..Len(L) : L[m].price = L[n].price => m = n
  <2>1. /\ IsFiniteSet(Prices(v, side)) /\ Prices(v, side) \subseteq Nat
        /\ L \in [1..Len(L) -> [price : Nat, qty : Nat \ {0}]]
    BY LevelsOf
  <2>2. \A n \in 1..Len(L) : L[n].qty = QtyAt(v, side, L[n].price)
    BY LevelsOf
  <2>3. /\ Prices(v, side) = {L[n].price : n \in 1..Len(L)}
        /\ \A m, n \in 1..Len(L) : L[m].price = L[n].price => m = n
    BY LevelsOf
  <2>4. L \in [1..Len(L) -> LevelType]
    BY <2>1 DEF LevelType
  <2> QED
    BY <2>1, <2>2, <2>3, <2>4
<1>2. \A n \in 1..Len(L) : L[n].qty \in Int
  BY <1>1 DEF LevelType
<1>3. Prices(r, side) = Prices(v, side)
  <2>1. \A p \in Prices(r, side) : p \in Prices(v, side)
    BY <1>0, <1>1 DEF Prices
  <2>2. \A n \in 1..Len(L) : L[n].price \in Prices(r, side)
    <3> TAKE n \in 1..Len(L)
    <3>1. key[n] \in OfSide(r, side) /\ r[key[n]].price = L[n].price
      BY <1>0
    <3>2. r[key[n]].price \in Prices(r, side)
      BY <3>1 DEF Prices
    <3> QED
      BY <3>1, <3>2
  <2> QED
    BY <1>1, <2>1, <2>2
<1>4. ASSUME NEW p \in Prices(v, side)
      PROVE  QtyAt(v, side, p) = QtyAt(r, side, p)
  <2>1. PICK n \in 1..Len(L) : p = L[n].price
    BY <1>1
  <2>2. PICK i : i = key[n]
    OBVIOUS
  <2>3. r[i].price = p /\ r[i].qty = L[n].qty /\ i \in OfSide(r, side)
    BY <1>0, <2>1, <2>2
  <2>4. AtPrice(r, side, p) = {i}
    <3>1. ASSUME NEW j \in AtPrice(r, side, p)
          PROVE  j = i
      <4>1. PICK m \in 1..Len(L) : j = key[m]
        BY <1>0, <3>1 DEF AtPrice
      <4>2. L[m].price = p
        BY <1>0, <3>1, <4>1 DEF AtPrice
      <4> QED
        BY <1>1, <2>1, <2>2, <4>1, <4>2
    <3>2. i \in AtPrice(r, side, p)
      BY <2>3 DEF AtPrice
    <3> QED
      BY <3>1, <3>2
  <2> DEFINE f == [j \in AtPrice(r, side, p) |-> r[j].qty]
  <2>5. DOMAIN f = {i} /\ f[i] = L[n].qty /\ f[i] \in Int
    BY <1>2, <2>3, <2>4
  <2>6. QtyAt(r, side, p) = SumFunction(f)
    BY DEF QtyAt
  <2> HIDE DEF f
  <2>7. QtyAt(r, side, p) = L[n].qty
    BY <2>5, <2>6, SumOfOne
  <2> QED
    BY <1>1, <2>1, <2>7
<1>5. Prices(v, side) \subseteq Int
  BY <1>1
<1>6. Prices(v, side) = Prices(r, side) /\ IsFiniteSet(Prices(v, side))
  BY <1>1, <1>3
<1>7. Levels(v, side) = Levels(r, side)
  BY <1>4, <1>5, <1>6, LevelsSame
<1> QED
  BY <1>7

\* The values of a rebuilt book.
Orders(b) ==
  /\ IsFiniteSet(DOMAIN b) /\ DOMAIN b \subseteq Int \ {0}
  /\ \A i \in DOMAIN b : b[i] \in OrderType
  /\ b = [i \in DOMAIN b |-> b[i]]

\* A book rebuilt from the levels of v has levels of its own only, the same.
LEMMA RebuiltLevels ==
  ASSUME NEW v, FiniteBook(v), NEW snap, Lists(snap, v), NEW r, r = RebuiltFrom(snap)
  PROVE  Orders(r) /\ SameLevels(VirtualPart(r), v)
<1>1. PICK unquoted \in Unquoted : /\ snap.bids = Levels(v, "buy") \o unquoted
                                   /\ snap.asks = Levels(v, "sell")
  BY DEF Lists
<1>2. PICK B, A : B = Levels(v, "buy") /\ A = Levels(v, "sell")
  OBVIOUS
<1>3. /\ B \in Seq(LevelType) /\ A \in Seq(LevelType)
      /\ Len(B) \in Nat /\ Len(A) \in Nat
      /\ \A n \in 1..Len(B) : B[n] \in LevelType
      /\ \A n \in 1..Len(A) : A[n] \in LevelType
  <2>1. B \in Seq(LevelType) /\ A \in Seq(LevelType)
    BY <1>2, LevelsOf DEF Side, LevelType
  <2> QED
    BY <2>1
<1> DEFINE EB == [k \in 1..Len(B) |-> [side |-> "buy", price |-> B[k].price, qty |-> B[k].qty]]
           EA == [k \in 1..Len(A) |-> [side |-> "sell", price |-> A[k].price, qty |-> A[k].qty]]
           E == SnapshotEntries(snap)
           N == Len(B) + Len(A)
<1>4. LiveLevels(snap.bids, "buy") = EB /\ LiveLevels(snap.asks, "sell") = EA
  <2>1. LiveLevels(B \o unquoted, "buy") = EB
    BY <1>3, LiveLevelsAre
  <2>2. LiveLevels(A \o <<>>, "sell") = EA
    <3>1. PICK none : none = <<>>
      OBVIOUS
    <3>2. none \in Unquoted
      BY <3>1 DEF Unquoted
    <3>3. LiveLevels(A \o none, "sell") = EA
      BY <1>3, <3>2, LiveLevelsAre
    <3> QED
      BY <3>1, <3>3
  <2>3. A \o <<>> = A
    BY <1>3
  <2> QED
    BY <1>1, <1>2, <2>1, <2>2, <2>3
<1>5. EB \in Seq(OrderType) /\ EA \in Seq(OrderType) /\ Len(EB) = Len(B) /\ Len(EA) = Len(A)
  <2>1. /\ \A k \in 1..Len(B) : EB[k] \in OrderType
        /\ \A k \in 1..Len(A) : EA[k] \in OrderType
    BY <1>3 DEF LevelType, OrderType, Side
  <2>2. EB \in [1..Len(B) -> OrderType] /\ EA \in [1..Len(A) -> OrderType]
    BY <2>1
  <2> HIDE DEF EB, EA
  <2>3. EB \in Seq(OrderType) /\ EA \in Seq(OrderType)
    <3>1. PICK nb \in Nat, na \in Nat : nb = Len(B) /\ na = Len(A)
      BY <1>3
    <3>2. EB \in [1..nb -> OrderType] /\ EA \in [1..na -> OrderType]
      BY <2>2, <3>1
    <3> QED
      BY <3>1, <3>2
  <2>4. DOMAIN EB = 1..Len(B) /\ DOMAIN EA = 1..Len(A)
    BY <2>2
  <2>5. DOMAIN EB = 1..Len(EB) /\ DOMAIN EA = 1..Len(EA) /\ Len(EB) \in Nat /\ Len(EA) \in Nat
    BY <2>3, LenProperties
  <2> QED
    BY <1>3, <2>3, <2>4, <2>5
<1>6. E = EB \o EA
  BY <1>4 DEF SnapshotEntries
<1>7. /\ Len(E) = N /\ N \in Nat
      /\ \A k \in 1..Len(B) : E[k] = EB[k]
      /\ \A k \in 1..Len(A) : E[Len(B) + k] = EA[k]
      /\ \A k \in 1..N : E[k] \in OrderType
  <2> HIDE DEF EA, EB, E
  <2>1. E \in Seq(OrderType) /\ Len(E) = N
    <3>1. EB \o EA \in Seq(OrderType) /\ Len(EB \o EA) = Len(EB) + Len(EA)
      BY <1>5
    <3> QED
      BY <1>5, <1>6, <3>1
  <2>2. \A k \in 1..Len(A) : E[Len(B) + k] = EA[k]
    BY <1>3, <1>5, <1>6
  <2> QED
    BY <1>3, <1>5, <1>6, <2>1, <2>2
<1> HIDE DEF E
<1>8. InsertedEntries(snap) = 1..N
  BY <1>7 DEF InsertedEntries, VirtualID, E
<1>9. /\ r = [i \in {-k : k \in 1..N} |-> E[-i]]
      /\ DOMAIN r = {-k : k \in 1..N} /\ \A k \in 1..N : r[-k] = E[k]
  <2>1. ASSUME NEW i \in {-k : k \in 1..N}
        PROVE  (CHOOSE k \in 1..N : -k = i) = -i
    BY <1>7, <2>1
  <2>2. r = [i \in {-k : k \in 1..N} |-> E[CHOOSE k \in 1..N : -k = i]]
    BY <1>8 DEF RebuiltFrom, VirtualID, E
  <2>3. r = [i \in {-k : k \in 1..N} |-> E[-i]]
    BY <2>1, <2>2
  <2>4. \A k \in 1..N : -(-k) = k
    BY <1>7
  <2> HIDE DEF N
  <2> QED
    BY <2>3, <2>4
<1>10. Orders(r)
  <2>1. IsFiniteSet(1..N)
    BY <1>7, FS_Interval
  <2> DEFINE minus == [k \in 1..N |-> -k]
  <2>2. minus \in Surjection(1..N, DOMAIN r)
    <3>1. minus \in [1..N -> DOMAIN r] /\ \A i \in DOMAIN r : \E k \in 1..N : minus[k] = i
      BY <1>9
    <3> QED
      BY <3>1, Fun_IsSurj
  <2> HIDE DEF minus, N
  <2>3. IsFiniteSet(DOMAIN r)
    BY <2>1, <2>2, FS_Surjection
  <2>4. DOMAIN r \subseteq Int \ {0}
    BY <1>7, <1>9
  <2>5. \A i \in DOMAIN r : r[i] \in OrderType
    BY <1>7, <1>9
  <2>6. r = [i \in DOMAIN r |-> r[i]]
    BY <1>9
  <2> QED
    BY <2>3, <2>4, <2>5, <2>6 DEF Orders
<1>11. VirtualPart(r) = r
  <2>1. \A i \in DOMAIN r : i < 0
    BY <1>7, <1>9
  <2>2. {i \in DOMAIN r : i < 0} = DOMAIN r
    BY <2>1
  <2> QED
    BY <1>10, <2>2 DEF VirtualPart, Orders
<1> DEFINE bid == [k \in 1..Len(B) |-> -k]
           ask == [k \in 1..Len(A) |-> -(Len(B) + k)]
<1>12. /\ \A k \in 1..Len(B) :
            /\ k \in 1..N /\ bid[k] = -k /\ bid[k] \in DOMAIN r /\ r[bid[k]] = EB[k]
            /\ r[bid[k]].side = "buy" /\ r[bid[k]].price = B[k].price
            /\ r[bid[k]].qty = B[k].qty
       /\ \A m, n \in 1..Len(B) : bid[m] = bid[n] => m = n
  <2>1. \A k \in 1..Len(B) : k \in 1..N
    BY <1>3
  <2>2. \A k \in 1..Len(B) : bid[k] \in DOMAIN r /\ r[bid[k]] = EB[k]
    <3> HIDE DEF N, EB
    <3> QED
      BY <1>7, <1>9, <2>1
  <2>3. \A m, n \in 1..Len(B) : bid[m] = bid[n] => m = n
    BY <1>3
  <2> QED
    BY <2>1, <2>2, <2>3
<1>13. /\ \A k \in 1..Len(A) :
            /\ Len(B) + k \in 1..N /\ ask[k] = -(Len(B) + k)
            /\ ask[k] \in DOMAIN r /\ r[ask[k]] = EA[k]
            /\ r[ask[k]].side = "sell" /\ r[ask[k]].price = A[k].price
            /\ r[ask[k]].qty = A[k].qty
       /\ \A m, n \in 1..Len(A) : ask[m] = ask[n] => m = n
  <2>1. \A k \in 1..Len(A) : Len(B) + k \in 1..N
    BY <1>3
  <2>2. \A k \in 1..Len(A) : ask[k] \in DOMAIN r /\ r[ask[k]] = EA[k]
    <3> HIDE DEF N, EA
    <3> QED
      BY <1>7, <1>9, <2>1
  <2>3. \A m, n \in 1..Len(A) : ask[m] = ask[n] => m = n
    BY <1>3
  <2> QED
    BY <2>1, <2>2, <2>3
<1>14. \A i \in DOMAIN r : \/ \E n \in 1..Len(B) : i = bid[n]
                           \/ \E n \in 1..Len(A) : i = ask[n]
  <2>1. ASSUME NEW k \in 1..N
        PROVE  \/ \E n \in 1..Len(B) : -k = bid[n]
               \/ \E n \in 1..Len(A) : -k = ask[n]
    <3>1. CASE k <= Len(B)
      BY <1>3, <3>1
    <3>2. CASE k > Len(B)
      <4>1. PICK n \in 1..Len(A) : k = Len(B) + n
        <5>1. k - Len(B) \in 1..Len(A) /\ k = Len(B) + (k - Len(B))
          BY <1>3, <3>2
        <5> QED
          BY <5>1
      <4> QED
        BY <4>1
    <3> QED
      BY <1>3, <3>1, <3>2
  <2> HIDE DEF bid, ask, N
  <2> QED
    BY <1>9, <2>1
<1> HIDE DEF bid, ask, EA, EB, N
<1>15. /\ OfSide(r, "buy") = {bid[n] : n \in 1..Len(B)}
       /\ OfSide(r, "sell") = {ask[n] : n \in 1..Len(A)}
  <2>1. "buy" # "sell"
    OBVIOUS
  <2>2. \A i \in DOMAIN r : r[i].side = "buy" => \E n \in 1..Len(B) : i = bid[n]
    BY <1>13, <1>14, <2>1
  <2>3. \A i \in DOMAIN r : r[i].side = "sell" => \E n \in 1..Len(A) : i = ask[n]
    BY <1>12, <1>14, <2>1
  <2> QED
    BY <1>12, <1>13, <2>2, <2>3 DEF OfSide
<1>16. Levels(r, "buy") = Levels(v, "buy")
  <2>1. PICK side \in Side : side = "buy"
    BY DEF Side
  <2>2. Keyed(r, side, bid, B)
    BY <1>12, <1>15, <2>1 DEF Keyed
  <2>3. B = Levels(v, side)
    BY <1>2, <2>1
  <2>4. Levels(r, side) = Levels(v, side)
    BY <2>2, <2>3, LevelsFromKeys
  <2> QED
    BY <2>1, <2>4
<1>17. Levels(r, "sell") = Levels(v, "sell")
  <2>1. PICK side \in Side : side = "sell"
    BY DEF Side
  <2>2. Keyed(r, side, ask, A)
    BY <1>13, <1>15, <2>1 DEF Keyed
  <2>3. A = Levels(v, side)
    BY <1>2, <2>1
  <2>4. Levels(r, side) = Levels(v, side)
    BY <2>2, <2>3, LevelsFromKeys
  <2> QED
    BY <2>1, <2>4
<1> QED
  BY <1>10, <1>11, <1>16, <1>17 DEF SameLevels, Side

-----------------------------------------------------------------------------
(* What a message leaves of the levels of a snapshot.                      *)

\* Book c has orders like book b, and the same virtual ones.
Keeps(b, c) == Orders(c) /\ VirtualPart(c) = VirtualPart(b)

LEMMA KeepsInsert ==
  ASSUME NEW b, Orders(b), NEW i \in Nat \ {0}, NEW e \in OrderType
  PROVE  Keeps(b, InsertOrder(b, i, e))
<1>1. CASE i \in DOMAIN b
  BY <1>1 DEF InsertOrder, Keeps
<1>2. CASE i \notin DOMAIN b
  <2> DEFINE c == Put(b, i, e)
  <2>1. /\ DOMAIN c = DOMAIN b \cup {i} /\ c[i] = e
        /\ \A j \in DOMAIN b : c[j] = b[j]
        /\ c = [j \in DOMAIN c |-> c[j]]
    BY <1>2 DEF Put
  <2> HIDE DEF c
  <2>2. IsFiniteSet(DOMAIN c)
    BY <2>1, FS_AddElement DEF Orders
  <2>3. Orders(c)
    BY <2>1, <2>2 DEF Orders
  <2>4. {j \in DOMAIN c : j < 0} = {j \in DOMAIN b : j < 0}
    BY <2>1 DEF Orders
  <2>5. VirtualPart(c) = VirtualPart(b)
    BY <2>1, <2>4 DEF VirtualPart
  <2> QED
    BY <1>2, <2>3, <2>5 DEF InsertOrder, Keeps, c
<1> QED
  BY <1>1, <1>2

LEMMA KeepsDrop ==
  ASSUME NEW b, Orders(b), NEW i \in Nat \ {0}
  PROVE  Keeps(b, Drop(b, i))
<1> DEFINE c == Drop(b, i)
<1>1. /\ DOMAIN c = DOMAIN b \ {i}
      /\ \A j \in DOMAIN c : c[j] = b[j]
      /\ c = [j \in DOMAIN c |-> c[j]]
  BY DEF Drop
<1> HIDE DEF c
<1>2. IsFiniteSet(DOMAIN c)
  BY <1>1, FS_RemoveElement DEF Orders
<1>3. Orders(c)
  BY <1>1, <1>2 DEF Orders
<1>4. {j \in DOMAIN c : j < 0} = {j \in DOMAIN b : j < 0}
  BY <1>1 DEF Orders
<1>5. VirtualPart(c) = VirtualPart(b)
  BY <1>1, <1>4 DEF VirtualPart
<1> QED
  BY <1>3, <1>5 DEF Keeps, c

LEMMA KeepsResize ==
  ASSUME NEW b, Orders(b), NEW i \in Nat \ {0}, NEW q \in Nat \ {0}
  PROVE  Keeps(b, ResizeOrder(b, i, q))
<1>1. CASE i \notin DOMAIN b
  BY <1>1 DEF ResizeOrder, Keeps
<1>2. CASE i \in DOMAIN b
  <2> DEFINE r == [b[i] EXCEPT !.qty = q]
             c == [b EXCEPT ![i] = r]
  <2>1. ResizeOrder(b, i, q) = c
    BY <1>2 DEF ResizeOrder
  <2>2. r \in OrderType
    BY <1>2 DEF Orders, OrderType
  <2> HIDE DEF r
  <2>3. /\ DOMAIN c = DOMAIN b /\ c[i] = r
        /\ \A j \in DOMAIN b \ {i} : c[j] = b[j]
        /\ c = [j \in DOMAIN c |-> c[j]]
    BY <1>2 DEF Orders
  <2> HIDE DEF c
  <2>4. Orders(c)
    BY <2>2, <2>3 DEF Orders
  <2>5. {j \in DOMAIN c : j < 0} = {j \in DOMAIN b : j < 0} /\ ~(i < 0)
    BY <2>3 DEF Orders
  <2>6. VirtualPart(c) = VirtualPart(b)
    BY <2>3, <2>5 DEF VirtualPart
  <2> QED
    BY <2>1, <2>4, <2>6 DEF Keeps
<1> QED
  BY <1>1, <1>2

LEMMA KeepsFilled ==
  ASSUME NEW b, Orders(b), NEW i \in Nat, NEW q \in Nat \ {0}
  PROVE  Keeps(b, Filled(b, i, q))
<1>1. CASE i = 0 \/ i \notin DOMAIN b
  BY <1>1 DEF Filled, Keeps
<1>2. CASE i # 0 /\ i \in DOMAIN b /\ b[i].qty <= q
  BY <1>2, KeepsDrop DEF Filled, DeleteOrder
<1>3. CASE i # 0 /\ i \in DOMAIN b /\ ~(b[i].qty <= q)
  <2>1. b[i].qty - q \in Nat \ {0}
    BY <1>3 DEF Orders, OrderType
  <2> QED
    BY <1>3, <2>1, KeepsResize DEF Filled
<1> QED
  BY <1>1, <1>2, <1>3

\* A message of the log replaces the virtual orders, or leaves them alone.
LEMMA ReceiveKeeps ==
  ASSUME LogInv, Orders(core), NEW k \in 1..Len(log), Receive(Raw(Message(k)))
  PROVE  /\ OwnSnapshot(k) => Orders(core') /\ SameLevels(VirtualPart(core'), Version(k))
         /\ ~OwnSnapshot(k) => Keeps(core, core')
<1>1. PICK m, v : m = Message(k) /\ v = Version(k - 1)
  OBVIOUS
<1>2. Tells(m, v, Version(k)) /\ Receive(Raw(m))
  BY <1>1 DEF LogInv
<1>3. Book(v) /\ FiniteBook(Version(k))
  <2>1. k - 1 \in 0..Len(log) /\ k \in 0..Len(log)
    BY DEF LogInv
  <2> QED
    BY <1>1, <2>1 DEF LogInv, Book, FiniteBook
<1>4. OwnSnapshot(k) <=> m.kind = "snapshot" /\ m.symbol = SymbolID
  BY <1>1 DEF OwnSnapshot
<1>5. CASE IsInsert(m)
  <2>1. /\ m.kind = "increment" /\ m.type = "insert" /\ m.side \in Side
        /\ m.order \in Nat \ {0} /\ EntryOf(m) \in OrderType
    BY <1>2, <1>5 DEF IsInsert, Tells
  <2>2. OnOrderIncrement(IncrementOf(m))
    BY <1>2, <2>1, ReceiveIncrement DEF IncrementType
  <2>3. core' = InsertOrder(core, m.order, EntryOf(m))
    BY <2>1, <2>2 DEF OnOrderIncrement, AfterIncrement, IncrementOf, EntryOf
  <2> QED
    BY <1>4, <2>1, <2>3, KeepsInsert
<1>6. CASE m.kind = "increment" /\ m.type = "delete"
  <2>1. m.side \in Side /\ m.order \in Nat \ {0}
    BY <1>2, <1>6 DEF IsInsert, Tells
  <2>2. OnOrderIncrement(IncrementOf(m))
    BY <1>2, <1>6, <2>1, ReceiveIncrement DEF IncrementType
  <2>3. core' = Drop(core, m.order)
    BY <1>6, <2>2 DEF OnOrderIncrement, AfterIncrement, IncrementOf, DeleteOrder
  <2> QED
    BY <1>4, <1>6, <2>1, <2>3, KeepsDrop
<1>7. CASE m.kind = "increment" /\ m.type = "modify"
  <2>1. m.side \in Side /\ m.qty \in Nat \ {0} /\ m.order \in Nat \ {0}
    BY <1>2, <1>3, <1>7 DEF IsInsert, Tells, Book
  <2>2. OnOrderIncrement(IncrementOf(m))
    BY <1>2, <1>7, <2>1, ReceiveIncrement DEF IncrementType
  <2>3. core' = ResizeOrder(core, m.order, m.qty)
    BY <1>7, <2>2 DEF OnOrderIncrement, AfterIncrement, IncrementOf
  <2> QED
    BY <1>4, <1>7, <2>1, <2>3, KeepsResize
<1>8. CASE m.kind = "trade"
  <2>1. m.buy \in Nat /\ m.sell \in Nat /\ m.qty \in Nat \ {0}
    BY <1>2, <1>8 DEF IsInsert, Tells
  <2>2. OnTrade([buy |-> m.buy, sell |-> m.sell, qty |-> m.qty])
    BY <1>2, <1>8, ReceiveTrade
  <2>3. PICK b : b = Filled(core, m.buy, m.qty)
    OBVIOUS
  <2>4. core' = Filled(b, m.sell, m.qty)
    BY <2>2, <2>3 DEF OnTrade
  <2>5. Keeps(core, b)
    BY <2>1, <2>3, KeepsFilled
  <2>6. Keeps(b, core')
    BY <2>1, <2>4, <2>5, KeepsFilled DEF Keeps
  <2> QED
    BY <1>4, <1>8, <2>5, <2>6 DEF Keeps
<1>9. CASE m.kind = "snapshot"
  <2>1. PICK snap : snap = [symbol |-> m.symbol, bids |-> m.bids, asks |-> m.asks]
    OBVIOUS
  <2>2. OnSnapshot(snap)
    BY <1>2, <1>9, <2>1, ReceiveSnapshot
  <2>3. CASE m.symbol # SymbolID
    BY <1>4, <2>1, <2>2, <2>3 DEF OnSnapshot, SymbolMatches, Keeps
  <2>4. CASE m.symbol = SymbolID
    <3>1. core' = RebuiltFrom(snap)
      BY <2>1, <2>2, <2>4 DEF OnSnapshot, SymbolMatches
    <3>2. Lists(m, v) /\ Version(k) = v
      BY <1>2, <1>9 DEF Tells, IsInsert
    <3>3. Lists(snap, Version(k))
      BY <2>1, <3>2 DEF Lists
    <3>4. Orders(core') /\ SameLevels(VirtualPart(core'), Version(k))
      BY <1>3, <3>1, <3>3, RebuiltLevels
    <3> QED
      BY <1>4, <1>9, <2>4, <3>4
  <2> QED
    BY <2>3, <2>4
<1> QED
  BY <1>2, <1>5, <1>6, <1>7, <1>8, <1>9 DEF Tells, IsInsert

\* A message counts at most once.
LEMMA ReceiveUpdates ==
  ASSUME updateCount \in Nat, NEW raw, Receive(raw)
  PROVE  updateCount' \in Nat
BY DEF Receive, OnOrderIncrement, OnTrade, OnSnapshot, RecordUpdate, bookVars

ValuesInv == Orders(core) /\ updateCount \in Nat /\ clean \in BOOLEAN /\ faults \in Nat

LevelsInv == FeedInv /\ ValuesInv /\ SnapshotLevelsKept

LEMMA LevelsInvNext ==
  ASSUME NEW b, b = base', UNCHANGED log
  PROVE  SnapshotLevelsKept' <=> (clean' => SameLevels(VirtualPart(core'), Version(b)))
BY DEF SnapshotLevelsKept, Version

LEMMA PublishLevels ==
  ASSUME LevelsInv, NEW m, NEW w, Publish(m, w)
  PROVE  ValuesInv' /\ SnapshotLevelsKept'
<1>1. UNCHANGED <<core, updateCount, base, clean, faults>>
  BY DEF Publish
<1>2. PICK n, b : n = Len(log) /\ b = base
  OBVIOUS
<1>3. Version(b)' = Version(b)
  <2>1. b \in 0..n
    BY <1>2 DEF LevelsInv, FeedInv, LogInv, PosInv
  <2> QED
    BY <1>2, <2>1, PublishKeeps DEF LevelsInv, FeedInv
<1>4. Version(base)' = Version(base)
  BY <1>1, <1>2, <1>3 DEF Version
<1>5. ValuesInv'
  BY <1>1 DEF LevelsInv, ValuesInv
<1>6. SnapshotLevelsKept'
  BY <1>1, <1>4 DEF LevelsInv, SnapshotLevelsKept, VirtualPart
<1> QED
  BY <1>5, <1>6

LEMMA DeliverLevels ==
  ASSUME LevelsInv, Deliver
  PROVE  ValuesInv' /\ SnapshotLevelsKept'
<1>1. PICK k, b : k = pos + 1 /\ b = base
  OBVIOUS
<1>2. /\ k \in 1..Len(log) /\ Receive(Raw(Message(k))) /\ UNCHANGED <<log, faults>>
  BY <1>1 DEF Deliver, LevelsInv, FeedInv, LogInv, PosInv
<1>3. /\ OwnSnapshot(k) => Orders(core') /\ SameLevels(VirtualPart(core'), Version(k))
      /\ ~OwnSnapshot(k) => Keeps(core, core')
  BY <1>2, ReceiveKeeps DEF LevelsInv, FeedInv, ValuesInv
<1>4. IF OwnSnapshot(k) THEN base' = k /\ clean' = TRUE ELSE base' = b /\ clean' = clean
  BY <1>1 DEF Deliver
<1>5. ValuesInv'
  BY <1>2, <1>3, <1>4, ReceiveUpdates DEF LevelsInv, ValuesInv, Keeps
<1>6. clean => SameLevels(VirtualPart(core), Version(b))
  BY <1>1 DEF LevelsInv, SnapshotLevelsKept
<1>7. SnapshotLevelsKept'
  <2>1. CASE OwnSnapshot(k)
    BY <1>2, <1>3, <1>4, <2>1, LevelsInvNext
  <2>2. CASE ~OwnSnapshot(k)
    BY <1>2, <1>3, <1>4, <1>6, <2>2, LevelsInvNext DEF Keeps
  <2> QED
    BY <2>1, <2>2
<1> QED
  BY <1>5, <1>7

LEMMA MissLevels ==
  ASSUME LevelsInv, MissNext, core' = core, updateCount' \in Nat
  PROVE  ValuesInv' /\ SnapshotLevelsKept'
<1>1. PICK b : b = base
  OBVIOUS
<1>2. base' = b /\ UNCHANGED log /\ (clean' => clean) /\ clean' \in BOOLEAN /\ faults' \in Nat
  BY <1>1 DEF MissNext, LevelsInv, ValuesInv
<1>3. clean => SameLevels(VirtualPart(core), Version(b))
  BY <1>1 DEF LevelsInv, SnapshotLevelsKept
<1>4. SnapshotLevelsKept'
  BY <1>2, <1>3, LevelsInvNext
<1>5. ValuesInv'
  BY <1>2 DEF LevelsInv, ValuesInv
<1> QED
  BY <1>4, <1>5

LEMMA RepeatLevels ==
  ASSUME LevelsInv, NEW k \in 1..MaxMessages, Repeat(k)
  PROVE  ValuesInv' /\ SnapshotLevelsKept'
<1>1. PICK b, p : b = base /\ p = pos
  OBVIOUS
<1>2. /\ k \in 1..Len(log) /\ Receive(Raw(Message(k))) /\ UNCHANGED log /\ faults' \in Nat
  BY FeedAssumption DEF Repeat, LevelsInv, FeedInv, LogInv, PosInv, ValuesInv
<1>3. /\ OwnSnapshot(k) => Orders(core') /\ SameLevels(VirtualPart(core'), Version(k))
      /\ ~OwnSnapshot(k) => Keeps(core, core')
  BY <1>2, ReceiveKeeps DEF LevelsInv, FeedInv, ValuesInv
<1>4. IF k = p /\ OwnSnapshot(k)
        THEN base' = k /\ clean' = TRUE
        ELSE base' = b /\ clean' = (clean /\ k = p /\ Message(k).kind # "trade")
  BY <1>1 DEF Repeat
<1>5. ValuesInv'
  BY <1>2, <1>3, <1>4, ReceiveUpdates DEF LevelsInv, ValuesInv, Keeps
<1>6. clean => SameLevels(VirtualPart(core), Version(b))
  BY <1>1 DEF LevelsInv, SnapshotLevelsKept
<1>7. SnapshotLevelsKept'
  <2>1. CASE OwnSnapshot(k) /\ k = p
    BY <1>2, <1>3, <1>4, <2>1, LevelsInvNext
  <2>2. CASE ~OwnSnapshot(k)
    BY <1>2, <1>3, <1>4, <1>6, <2>2, LevelsInvNext DEF Keeps
  <2>3. CASE OwnSnapshot(k) /\ k # p
    BY <1>2, <1>4, <2>3, LevelsInvNext
  <2> QED
    BY <2>1, <2>2, <2>3
<1> QED
  BY <1>5, <1>7

LEMMA LevelsStep ==
  ASSUME LevelsInv, [Next]_vars
  PROVE  LevelsInv'
<1>1. FeedInv'
  BY FeedStep DEF LevelsInv
<1>2. Exchange => \E m, w : Publish(m, w)
  BY DEF Exchange, Place, Withdraw, Amend, Trade, TakeSnapshot
<1>3. CASE Exchange
  BY <1>1, <1>2, <1>3, PublishLevels DEF LevelsInv
<1>4. CASE Deliver
  BY <1>1, <1>4, DeliverLevels DEF LevelsInv
<1>5. CASE Lose
  <2>1. MissNext /\ core' = core /\ updateCount' \in Nat
    BY <1>5 DEF Lose, bookVars, LevelsInv, ValuesInv
  <2> QED
    BY <1>1, <2>1, MissLevels DEF LevelsInv
<1>6. CASE Damage
  <2>1. MissNext /\ core' = core
    BY <1>6, DamageKeeps DEF Damage, LevelsInv
  <2>2. updateCount' \in Nat
    BY <1>6, ReceiveUpdates DEF Damage, LevelsInv, ValuesInv
  <2> QED
    BY <1>1, <2>1, <2>2, MissLevels DEF LevelsInv
<1>7. ASSUME NEW k \in 1..MaxMessages, Repeat(k)
      PROVE  LevelsInv'
  BY <1>1, <1>7, RepeatLevels DEF LevelsInv
<1>8. CASE UNCHANGED vars
  <2>1. ValuesInv'
    BY <1>8 DEF vars, LevelsInv, ValuesInv
  <2>2. SnapshotLevelsKept'
    BY <1>8 DEF vars, LevelsInv, SnapshotLevelsKept, VirtualPart, Version
  <2> QED
    BY <1>1, <2>1, <2>2 DEF LevelsInv
<1> QED
  BY <1>3, <1>4, <1>5, <1>6, <1>7, <1>8 DEF Next, Feed

LEMMA LevelsInvariant == Spec => []LevelsInv
<1>1. Init => LevelsInv
  <2> SUFFICES ASSUME Init
               PROVE  LevelsInv
    OBVIOUS
  <2>1. core = EmptyBook /\ base = 0 /\ updateCount = 0 /\ faults = 0 /\ clean = TRUE
    BY DEF Init, BookInit
  <2>2. DOMAIN EmptyBook = {} /\ EmptyBook = [i \in DOMAIN EmptyBook |-> EmptyBook[i]]
    BY DEF EmptyBook
  <2>3. Orders(EmptyBook)
    BY <2>2, FS_EmptySet DEF Orders
  <2>4. VirtualPart(EmptyBook) = EmptyBook
    BY DEF VirtualPart, EmptyBook
  <2>5. SnapshotLevelsKept
    BY <2>1, <2>4 DEF SnapshotLevelsKept, SameLevels, Version
  <2> QED
    BY <2>1, <2>3, <2>5, FeedStart DEF LevelsInv, ValuesInv
<1>2. LevelsInv /\ [Next]_vars => LevelsInv'
  BY LevelsStep
<1> QED
  BY <1>1, <1>2, PTL DEF Spec

\* For any exchange and any feed, a rebuilt book has only orders with a side, a price
\* and a positive quantity (OnOrderIncrement, OnTrade, OnSnapshot).
THEOREM FeedTypes == Spec => []TypeOK
<1>1. LevelsInv => TypeOK
  <2> SUFFICES ASSUME LevelsInv
               PROVE  TypeOK
    OBVIOUS
  <2>1. Orders(core)
    BY DEF LevelsInv, ValuesInv
  <2>2. core \in [DOMAIN core -> OrderType] /\ DOMAIN core \subseteq Int \ {0}
    BY <2>1 DEF Orders
  <2> QED
    BY <2>2 DEF LevelsInv, ValuesInv, FeedInv, LogInv, PosInv, TypeOK, OrderType
<1> QED
  BY <1>1, LevelsInvariant, PTL

\* For any exchange and any feed: as long as nothing that counts was missed since the
\* last snapshot, the orders OnSnapshot made of it still show its levels.
THEOREM LevelsKept == Spec => []SnapshotLevelsKept
<1>1. LevelsInv => SnapshotLevelsKept
  BY DEF LevelsInv
<1> QED
  BY <1>1, LevelsInvariant, PTL

-----------------------------------------------------------------------------
(* The validator.                                                          *)

\* The sequences of levels a book can have.
LevelSeq(L) == L \in Seq(LevelType) /\ L \in [1..Len(L) -> LevelType] /\ Len(L) \in Nat

LEMMA LevelsSeq ==
  ASSUME NEW b, FiniteBook(b), NEW side \in Side
  PROVE  /\ LevelSeq(Levels(b, side))
         /\ Len(Levels(b, side)) <= Cardinality(DOMAIN b)
<1>1. PICK L : L = Levels(b, side)
  OBVIOUS
<1>2. L \in Seq([price : Nat, qty : Nat \ {0}]) /\ L \in [1..Len(L) -> [price : Nat, qty : Nat \ {0}]]
  BY <1>1, LevelsOf
<1>3. Len(L) = Cardinality(Prices(b, side)) /\ Cardinality(Prices(b, side)) <= Cardinality(DOMAIN b)
  BY <1>1, LevelsOf
<1> QED
  BY <1>1, <1>2, <1>3 DEF LevelSeq, LevelType

\* With as many levels asked for as there are orders, all are given; tick size 1
\* leaves their prices alone.
LEMMA AllLevels ==
  ASSUME TickNum = 1, NEW b, FiniteBook(b), NEW side \in Side
  PROVE  Scaled(TopLevels(b, side, Cardinality(DOMAIN b))) = Levels(b, side)
<1>1. PICK L, n : L = Levels(b, side) /\ n = Cardinality(DOMAIN b)
  OBVIOUS
<1>2. LevelSeq(L) /\ Len(L) <= n /\ n \in Nat
  BY <1>1, LevelsSeq, FS_CardinalityType DEF FiniteBook
<1>3. TopLevels(b, side, n) = L
  <2>1. TopLevels(b, side, n) = SubSeq(L, 1, Len(L))
    <3>1. ~(n < Len(L))
      BY <1>2 DEF LevelSeq
    <3> QED
      BY <1>1, <3>1 DEF TopLevels
  <2>2. SubSeq(L, 1, Len(L)) = L
    BY <1>2 DEF LevelSeq
  <2> QED
    BY <2>1, <2>2
<1>4. Scaled(L) = L
  <2>1. DOMAIN L = 1..Len(L) /\ \A k \in 1..Len(L) : L[k] \in LevelType
    BY <1>2 DEF LevelSeq
  <2>2. \A k \in DOMAIN L : [price |-> L[k].price * TickNum, qty |-> L[k].qty] = L[k]
    BY <2>1 DEF LevelType
  <2>3. Scaled(L) = [k \in DOMAIN L |-> L[k]]
    BY <2>2 DEF Scaled
  <2> QED
    BY <1>2, <2>3 DEF LevelSeq
<1> QED
  BY <1>1, <1>3, <1>4

\* Without drift, the levels that mismatch are those that differ.
LEMMA MismatchIsDifference ==
  ASSUME TickDen = 1, MaxDriftNum = 0, NEW L, NEW M, LevelSeq(L), LevelSeq(M)
  PROVE  Cardinality(Mismatched(L, M)) = 0 <=> L = M
<1> DEFINE X == Mismatched(L, M)
<1>1. /\ DOMAIN L = 1..Len(L) /\ DOMAIN M = 1..Len(M)
      /\ Len(L) \in Nat /\ Len(M) \in Nat
      /\ \A k \in DOMAIN L : L[k] \in LevelType
      /\ \A k \in DOMAIN M : M[k] \in LevelType
      /\ L = [k \in DOMAIN L |-> L[k]] /\ M = [k \in DOMAIN M |-> M[k]]
  BY DEF LevelSeq
<1>2. IsFiniteSet(X)
  <2>1. IsFiniteSet(DOMAIN L) /\ IsFiniteSet(DOMAIN M)
    BY <1>1, UpTo
  <2>2. IsFiniteSet(DOMAIN L \cup DOMAIN M)
    BY <2>1, FS_Union
  <2>3. X \subseteq DOMAIN L \cup DOMAIN M
    BY DEF Mismatched
  <2> HIDE DEF X
  <2> QED
    BY <2>2, <2>3, FS_Subset
<1>3. Cardinality(X) = 0 <=> X = {}
  <2> HIDE DEF X
  <2> QED
    BY <1>2, FS_EmptySet
<1>4. ASSUME NEW k \in DOMAIN L \cap DOMAIN M
      PROVE  PriceOff(L[k].price, M[k].price) \/ QuantityOff(L[k].qty, M[k].qty) <=> L[k] # M[k]
  <2>1. PICK p \in Nat, q \in Nat, x \in Nat \ {0}, y \in Nat \ {0} :
          L[k] = [price |-> p, qty |-> x] /\ M[k] = [price |-> q, qty |-> y]
    BY <1>1 DEF LevelType
  <2>2. PriceOff(p, q) <=> p # q
    BY DEF PriceOff, Abs
  <2>3. QuantityOff(x, y) <=> x # y
    <3>1. Abs(x - y) \in Nat /\ (Abs(x - y) = 0 <=> x = y)
      BY DEF Abs
    <3>2. PICK d \in Nat : d = Abs(x - y) /\ (d = 0 <=> x = y)
      BY <3>1
    <3>3. d * MaxDriftDen > 0 <=> d # 0
      BY DriftAssumption
    <3> QED
      BY <3>2, <3>3 DEF QuantityOff
  <2> QED
    BY <2>1, <2>2, <2>3
<1>5. X = {} <=> L = M
  <2>1. ASSUME X = {}
        PROVE  L = M
    <3>1. \A k \in DOMAIN L \cup DOMAIN M : k \in DOMAIN L \cap DOMAIN M
      BY <2>1 DEF Mismatched
    <3>2. DOMAIN L = DOMAIN M
      BY <3>1
    <3>3. \A k \in DOMAIN L : L[k] = M[k]
      <4>1. \A k \in DOMAIN L \cap DOMAIN M :
              ~(PriceOff(L[k].price, M[k].price) \/ QuantityOff(L[k].qty, M[k].qty))
        BY <2>1 DEF Mismatched
      <4> QED
        BY <1>4, <3>2, <4>1
    <3> QED
      BY <1>1, <3>2, <3>3
  <2>2. ASSUME L = M
        PROVE  X = {}
    BY <1>4, <2>2 DEF Mismatched
  <2> QED
    BY <2>1, <2>2
<1> QED
  BY <1>3, <1>5

\* For tick size 1 and no allowed drift, any exchange and any feed: the validator
\* accepts a rebuilt book exactly when its levels are those of the exchange's, and what
\* it accepts passes the quick test (Validate, ValidateQuick).
THEOREM VerdictIsRight ==
  ASSUME TickNum = 1, TickDen = 1, MaxDriftNum = 0
  PROVE  Spec => []VerdictRight
<1>1. LevelsInv => VerdictRight
  <2> SUFFICES ASSUME LevelsInv, NEW k \in 0..Len(log)
               PROVE  LET exchange == [symbol |-> SymbolID,
                                       bids |-> Levels(Version(k), "buy"),
                                       asks |-> Levels(Version(k), "sell")]
                      IN \A rebuilt \in SnapshotOf(SymbolID, core, Cardinality(DOMAIN core)) :
                           \A result \in Validate(rebuilt, exchange) :
                             /\ result.valid <=> SameLevels(core, Version(k))
                             /\ result.valid => ValidateQuick(rebuilt, exchange)
    BY DEF VerdictRight
  <2>1. PICK b, v : b = core /\ v = Version(k)
    OBVIOUS
  <2>2. FiniteBook(b) /\ FiniteBook(v)
    BY <2>1 DEF LevelsInv, ValuesInv, Orders, FeedInv, LogInv, Book, FiniteBook
  <2>3. PICK B, A, VB, VA : /\ B = Levels(b, "buy") /\ A = Levels(b, "sell")
                            /\ VB = Levels(v, "buy") /\ VA = Levels(v, "sell")
    OBVIOUS
  <2>4. LevelSeq(B) /\ LevelSeq(A) /\ LevelSeq(VB) /\ LevelSeq(VA)
    BY <2>2, <2>3, LevelsSeq DEF Side
  <2>5. SameLevels(b, v) <=> B = VB /\ A = VA
    BY <2>3 DEF SameLevels, Side
  <2>6. PICK exchange : exchange = [symbol |-> SymbolID, bids |-> VB, asks |-> VA]
    OBVIOUS
  <2>7. SUFFICES ASSUME NEW rebuilt \in SnapshotOf(SymbolID, b, Cardinality(DOMAIN b)),
                        NEW result \in Validate(rebuilt, exchange)
                 PROVE  /\ result.valid <=> B = VB /\ A = VA
                        /\ result.valid => ValidateQuick(rebuilt, exchange)
    BY <2>1, <2>3, <2>5, <2>6
  <2>8. rebuilt = GenerateSnapshot(SymbolID, B, A)
    <3>1. rebuilt = GenerateSnapshot(SymbolID,
                      Scaled(TopLevels(b, "buy", Cardinality(DOMAIN b))),
                      Scaled(TopLevels(b, "sell", Cardinality(DOMAIN b))))
      BY <2>7 DEF SnapshotOf, BuildSnapshot
    <3>2. /\ Scaled(TopLevels(b, "buy", Cardinality(DOMAIN b))) = B
          /\ Scaled(TopLevels(b, "sell", Cardinality(DOMAIN b))) = A
      BY <2>2, <2>3, AllLevels DEF Side
    <3> QED
      BY <3>1, <3>2
  <2>9. /\ rebuilt.symbol = SymbolID /\ rebuilt.bids = B /\ rebuilt.asks = A
        /\ rebuilt.spread = IF B # <<>> /\ A # <<>> THEN A[1].price - B[1].price ELSE 0
    BY <2>8 DEF GenerateSnapshot
  <2>10. result.valid <=> /\ Cardinality(Mismatched(B, VB)) = 0
                          /\ Cardinality(Mismatched(A, VA)) = 0
    <3>1. exchange.symbol = SymbolID /\ exchange.bids = VB /\ exchange.asks = VA
      BY <2>6
    <3>2. PICK x, y : /\ x = Cardinality(Mismatched(B, VB))
                      /\ y = Cardinality(Mismatched(A, VA))
      OBVIOUS
    <3>3. result = [bidMismatch |-> x, askMismatch |-> y, valid |-> x = 0 /\ y = 0]
      BY <2>7, <2>9, <3>1, <3>2 DEF Validate
    <3>4. result.valid = (x = 0 /\ y = 0)
      BY <3>3
    <3> QED
      BY <3>2, <3>4
  <2>11. result.valid <=> B = VB /\ A = VA
    BY <2>4, <2>10, MismatchIsDifference
  <2>12. ASSUME B = VB, A = VA
         PROVE  ValidateQuick(rebuilt, exchange)
    <3>1. exchange.symbol = SymbolID /\ exchange.bids = B /\ exchange.asks = A
      BY <2>6, <2>12
    <3>2. ~SpreadOff(rebuilt.spread, exchange)
      <4>1. CASE B = <<>> \/ A = <<>>
        BY <3>1, <4>1 DEF SpreadOff
      <4>2. CASE B # <<>> /\ A # <<>>
        <5>1. 1 \in 1..Len(B) /\ 1 \in 1..Len(A)
          BY <2>4, <4>2 DEF LevelSeq
        <5>2. A[1].price \in Nat /\ B[1].price \in Nat
          BY <2>4, <5>1 DEF LevelSeq, LevelType
        <5>3. PICK d \in Int : d = A[1].price - B[1].price
          BY <5>2
        <5>4. rebuilt.spread = d /\ exchange.asks[1].price - exchange.bids[1].price = d
          BY <2>9, <3>1, <4>2, <5>3
        <5>5. Abs(d - d * TickDen) = 0
          BY DEF Abs
        <5> QED
          BY <5>4, <5>5 DEF SpreadOff
      <4> QED
        BY <4>1, <4>2
    <3> QED
      BY <2>9, <3>1, <3>2 DEF ValidateQuick
  <2> QED
    BY <2>11, <2>12
<1> QED
  BY <1>1, LevelsInvariant, PTL
=============================================================================
