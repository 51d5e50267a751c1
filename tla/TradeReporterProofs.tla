------------------------ MODULE TradeReporterProofs ------------------------
(***************************************************************************)
(* Proofs about the reporter for callers that use it as they like: which   *)
(* Order structs it writes, when they agree with the reports, what a trade *)
(* that fails leaves behind, and what fills, remainders and values add up  *)
(* to.                                                                     *)
(***************************************************************************)
EXTENDS TradeReporter, SequenceTheorems, Sums, TLAPS

Struct == [filled : Int, canceled : Int, left : Int]

IsList(s) == Len(s) \in Nat /\ s = [n \in 1..Len(s) |-> s[n]]

IsTracked(t) ==
  /\ t = [order |-> t.order, status |-> t.status, filled |-> t.filled, rem |-> t.rem,
          value |-> t.value, trades |-> t.trades]
  /\ t.order \in Handle /\ t.filled \in Int /\ t.rem \in Int /\ IsList(t.trades)

\* What is tracked of an id is about a registered struct of that id, and a struct
\* that was never registered is as NewOrder made it.
RepInv ==
  /\ order \in [Handle -> Struct] /\ times \in [Handle -> Nat]
  /\ \A i \in DOMAIN orders : /\ IsTracked(orders[i]) /\ IdOf(orders[i].order) = i
                              /\ times[orders[i].order] > 0
  /\ \A h \in Handle : times[h] = 0 => order[h].filled = 0 /\ order[h].left = OrderQty
  /\ StructInSync

-----------------------------------------------------------------------------
(* Lists of trades.                                                        *)

LEMMA AppendList ==
  ASSUME NEW s, NEW e, IsList(s)
  PROVE  /\ IsList(Append(s, e)) /\ Len(Append(s, e)) = Len(s) + 1
         /\ Append(s, e)[Len(s) + 1] = e
         /\ DOMAIN s = 1..Len(s) /\ DOMAIN Append(s, e) = 1..(Len(s) + 1)
         /\ \A n \in 1..Len(s) : Append(s, e)[n] = s[n]
<1> DEFINE S == {s[n] : n \in 1..Len(s)} \cup {e}
<1>1. s \in Seq(S) /\ e \in S
  BY SMT DEF IsList
<1> HIDE DEF S
<1>2. Append(s, e) \in Seq(S) /\ Len(Append(s, e)) = Len(s) + 1
  BY <1>1
<1>3. Append(s, e) \in [1..(Len(s) + 1) -> S]
  BY <1>2, LenProperties
<1>4. Append(s, e)[Len(s) + 1] = e
  BY <1>1
<1>5. s = [n \in 1..Len(s) |-> s[n]] /\ Len(s) \in Nat
  BY DEF IsList
<1>6. Append(s, e) = [n \in 1..Len(Append(s, e)) |-> Append(s, e)[n]]
  BY <1>2, <1>3
<1>7. DOMAIN s = 1..Len(s) /\ DOMAIN Append(s, e) = 1..(Len(s) + 1)
  BY <1>3, <1>5
<1>8. Len(Append(s, e)) \in Nat
  BY <1>2, <1>5
<1>9. \A n \in 1..Len(s) : Append(s, e)[n] = s[n]
  BY <1>1, AppendProperties
<1> QED
  BY <1>2, <1>4, <1>6, <1>7, <1>8, <1>9 DEF IsList

\* A list that goes on with a trade, once or more.
GoesOnWith(old, new, trade) ==
  LET added == DOMAIN new \ DOMAIN old
  IN /\ DOMAIN old \subseteq DOMAIN new /\ added # {} /\ DOMAIN new \subseteq Nat
     /\ \A n \in DOMAIN old : new[n] = old[n]
     /\ \A m \in added : new[m] = trade /\ \A n \in DOMAIN old : n < m

LEMMA AppendGoesOn ==
  ASSUME NEW s, IsList(s), NEW e
  PROVE  GoesOnWith(s, Append(s, e), e)
<1>1. Len(s) \in Nat
  BY DEF IsList
<1>2. PICK k, t : k \in Nat /\ k = Len(s) /\ t = Append(s, e)
  BY <1>1
<1>3. /\ DOMAIN s = 1..k /\ DOMAIN t = 1..(k + 1) /\ t[k + 1] = e
      /\ \A n \in 1..k : t[n] = s[n]
  BY <1>2, AppendList
<1>4. /\ 1..k \subseteq 1..(k + 1) /\ (1..(k + 1)) \ (1..k) = {k + 1} /\ 1..(k + 1) \subseteq Nat
      /\ \A n \in 1..k : n < k + 1
  BY <1>2
<1>5. /\ DOMAIN s \subseteq DOMAIN t /\ DOMAIN t \ DOMAIN s = {k + 1} /\ DOMAIN t \subseteq Nat
      /\ \A n \in DOMAIN s : t[n] = s[n] /\ n < k + 1
  BY <1>3, <1>4
<1>6. GoesOnWith(s, t, e)
  BY <1>3, <1>5 DEF GoesOnWith
<1> QED
  BY <1>2, <1>6

LEMMA GoesOnTwice ==
  ASSUME NEW s, NEW t, NEW u, NEW e, GoesOnWith(s, t, e), GoesOnWith(t, u, e)
  PROVE  GoesOnWith(s, u, e)
BY DEF GoesOnWith

-----------------------------------------------------------------------------
(* A trade is booked.                                                      *)

LEMMA BookedTracked ==
  ASSUME NEW t, IsTracked(t), NEW trade, trade.qty \in Nat
  PROVE  /\ IsTracked(Booked(t, trade)) /\ Booked(t, trade).order = t.order
         /\ Booked(t, trade).trades = Append(t.trades, trade)
<1> DEFINE value == Wrap(t.value + trade.price * trade.qty)
           status == IF t.rem <= trade.qty THEN "Filled" ELSE "Partial"
           r == [order |-> t.order, status |-> status, filled |-> t.filled + trade.qty,
                 rem |-> t.rem - trade.qty, value |-> value,
                 trades |-> Append(t.trades, trade)]
<1>1. Booked(t, trade) =
        [t EXCEPT !.filled = t.filled + trade.qty, !.rem = t.rem - trade.qty,
                  !.value = value, !.trades = Append(t.trades, trade), !.status = status]
  BY DEF Booked
<1>2. t.filled + trade.qty \in Int /\ t.rem - trade.qty \in Int /\ IsList(Append(t.trades, trade))
  BY AppendList DEF IsTracked
<1> HIDE DEF value, status
<1>3. Booked(t, trade) = r
  BY <1>1 DEF IsTracked
<1> QED
  BY <1>2, <1>3 DEF IsTracked

LEMMA BookedForTracked ==
  ASSUME NEW t, IsTracked(t), NEW trade, trade.qty \in Nat
  PROVE  /\ IsTracked(BookedFor(t, trade)) /\ BookedFor(t, trade).order = t.order
         /\ GoesOnWith(t.trades, BookedFor(t, trade).trades, trade)
<1>1. PICK u : u = Booked(t, trade)
  OBVIOUS
<1>2. IsTracked(u) /\ u.order = t.order /\ GoesOnWith(t.trades, u.trades, trade)
  BY <1>1, BookedTracked, AppendGoesOn DEF IsTracked
<1>3. PICK v : v = Booked(u, trade)
  OBVIOUS
<1>4. IsTracked(v) /\ v.order = u.order /\ GoesOnWith(u.trades, v.trades, trade)
  BY <1>2, <1>3, BookedTracked, AppendGoesOn DEF IsTracked
<1>5. GoesOnWith(t.trades, v.trades, trade)
  BY <1>2, <1>4, GoesOnTwice
<1>6. BookedFor(t, trade) = u \/ BookedFor(t, trade) = v
  BY <1>1, <1>3 DEF BookedFor
<1> QED
  BY <1>2, <1>4, <1>5, <1>6

\* What RecordTrade does to the orders it books and to the others.
LEMMA RecordTradeOrders ==
  ASSUME RepInv, NEW b \in OrderId, NEW s \in OrderId, NEW p \in Price, NEW q \in Quantity,
         RecordTrade(b, s, p, q)
  PROVE  \E trade :
           /\ trade.buy = b /\ trade.sell = s /\ trade.price = p /\ trade.qty = q
           /\ trade.id = tradeCounter + 1 /\ tradeCounter' = tradeCounter + 1
           /\ \A i \in BookedSides(trade) :
                /\ orders'[i] = BookedFor(orders[i], trade)
                /\ GoesOnWith(orders[i].trades, orders'[i].trades, trade)
           /\ BookedSides(trade) \subseteq DOMAIN orders /\ DOMAIN orders' = DOMAIN orders
           /\ s \in BookedSides(trade) => b \in BookedSides(trade)
           /\ BookedSides(trade) \subseteq {b, s}
           /\ \A i \in DOMAIN orders : IsTracked(orders'[i]) /\ orders'[i].order = orders[i].order
           /\ \A i \in DOMAIN orders \ BookedSides(trade) : orders'[i] = orders[i]
           /\ order' = [h \in Handle |-> Synced(h, BookedSides(trade))]
           /\ UNCHANGED times
<1> DEFINE trade == [id |-> tradeCounter + 1, buy |-> b, sell |-> s, price |-> p, qty |-> q]
           ids == BookedSides(trade)
<1>1. /\ trade.buy = b /\ trade.sell = s /\ trade.qty \in Nat
      /\ trade.price = p /\ trade.qty = q /\ trade.id = tradeCounter + 1
  BY ReporterAssumption
<1>2. /\ orders' = [i \in DOMAIN orders |-> IF i \in ids THEN BookedFor(orders[i], trade) ELSE orders[i]]
      /\ order' = [h \in Handle |-> Synced(h, ids)] /\ UNCHANGED times
      /\ tradeCounter' = tradeCounter + 1
  BY DEF RecordTrade, CounterAfter
<1> HIDE DEF trade
<1>3. ids \subseteq DOMAIN orders /\ ids \subseteq {b, s} /\ (s \in ids => b \in ids)
  BY <1>1 DEF BookedSides
<1> HIDE DEF ids
<1>4. \A i \in DOMAIN orders : IsTracked(orders[i])
  BY DEF RepInv
<1>5. \A i \in ids : /\ IsTracked(orders'[i]) /\ orders'[i].order = orders[i].order
                     /\ GoesOnWith(orders[i].trades, orders'[i].trades, trade)
  BY <1>1, <1>2, <1>3, <1>4, BookedForTracked
<1>6. /\ DOMAIN orders' = DOMAIN orders /\ \A i \in DOMAIN orders \ ids : orders'[i] = orders[i]
      /\ \A i \in ids : orders'[i] = BookedFor(orders[i], trade)
  BY <1>2, <1>3
<1> QED
  BY <1>1, <1>2, <1>3, <1>4, <1>5, <1>6 DEF ids

\* The structs of the booked orders get what is tracked, the others keep what they have.
LEMMA SyncedStructs ==
  ASSUME RepInv, NEW ids \in SUBSET DOMAIN orders,
         \A i \in DOMAIN orders : IsTracked(orders'[i]) /\ orders'[i].order = orders[i].order,
         order' = [h \in Handle |-> Synced(h, ids)]
  PROVE  /\ order' \in [Handle -> Struct]
         /\ \A i \in ids : /\ order'[orders[i].order].filled = orders'[i].filled
                           /\ order'[orders[i].order].left = orders'[i].rem
         /\ \A h \in Handle : (\A i \in ids : orders[i].order # h) => order'[h] = order[h]
<1>1. \A i \in ids : orders[i].order \in Handle /\ IdOf(orders[i].order) = i
  BY DEF RepInv, IsTracked
<1>2. ASSUME NEW h \in Handle, NEW i \in ids, orders[i].order = h
      PROVE  /\ order'[h] \in Struct
             /\ order'[h].filled = orders'[i].filled /\ order'[h].left = orders'[i].rem
  <2>1. IdOf(h) = i /\ orders'[i].order = h /\ order[h] \in Struct
        /\ orders'[i].filled \in Int /\ orders'[i].rem \in Int
    BY <1>1, <1>2 DEF RepInv, IsTracked
  <2>2. order'[h] = [order[h] EXCEPT !.filled = orders'[i].filled, !.left = orders'[i].rem]
    BY <1>2, <2>1 DEF Synced
  <2> QED
    BY <2>1, <2>2 DEF Struct
<1>3. ASSUME NEW h \in Handle, \A i \in ids : orders[i].order # h
      PROVE  order'[h] = order[h] /\ order[h] \in Struct
  BY <1>3 DEF Synced, RepInv
<1> QED
  BY <1>1, <1>2, <1>3

-----------------------------------------------------------------------------
(* The invariant.                                                          *)

LEMMA RepStart == ASSUME Init PROVE RepInv
<1>1. [filled |-> 0, canceled |-> 0, left |-> OrderQty] \in Struct
  BY ReporterAssumption DEF Struct
<1> QED
  BY <1>1 DEF Init, RepInv, StructInSync

LEMMA RegisterInv ==
  ASSUME RepInv, NEW h \in Handle, RegisterOrder(h)
  PROVE  RepInv'
<1>1. /\ UNCHANGED order
      /\ times' = [times EXCEPT ![h] = times[h] + 1]
      /\ DOMAIN orders' = DOMAIN orders \cup {IdOf(h)} /\ orders'[IdOf(h)] = Tracked(h)
      /\ \A i \in DOMAIN orders \ {IdOf(h)} : orders'[i] = orders[i]
  BY DEF RegisterOrder, Put
<1>2. /\ IsTracked(Tracked(h)) /\ Tracked(h).order = h
      /\ Tracked(h).filled = 0 /\ Tracked(h).rem = OrderQty
  <2>1. IsList(<<>>)
    BY EmptySeq, LenProperties DEF IsList
  <2> QED
    BY <2>1, ReporterAssumption DEF IsTracked, Tracked
<1>3. /\ times' \in [Handle -> Nat] /\ times'[h] > 0
      /\ times'[h] = 1 => times[h] = 0
      /\ \A g \in Handle \ {h} : times'[g] = times[g]
  BY <1>1 DEF RepInv
<1>4. \A i \in DOMAIN orders \ {IdOf(h)} : orders[i].order \in Handle \ {h}
  BY DEF RepInv, IsTracked
<1>5. StructInSync'
  BY <1>1, <1>2, <1>3, <1>4 DEF RepInv, StructInSync
<1>6. \A i \in DOMAIN orders' : /\ IsTracked(orders'[i]) /\ IdOf(orders'[i].order) = i
                                /\ times'[orders'[i].order] > 0
  BY <1>1, <1>2, <1>3, <1>4 DEF RepInv
<1> QED
  BY <1>1, <1>3, <1>5, <1>6 DEF RepInv, IsTracked, IsList

LEMMA RecordTradeInv ==
  ASSUME RepInv, NEW b \in OrderId, NEW s \in OrderId, NEW p \in Price, NEW q \in Quantity,
         RecordTrade(b, s, p, q)
  PROVE  RepInv'
<1>1. PICK trade :
        /\ BookedSides(trade) \subseteq DOMAIN orders /\ DOMAIN orders' = DOMAIN orders
        /\ \A i \in DOMAIN orders : IsTracked(orders'[i]) /\ orders'[i].order = orders[i].order
        /\ \A i \in DOMAIN orders \ BookedSides(trade) : orders'[i] = orders[i]
        /\ order' = [h \in Handle |-> Synced(h, BookedSides(trade))]
        /\ UNCHANGED times
  BY RecordTradeOrders
<1>2. PICK ids : ids = BookedSides(trade)
  OBVIOUS
<1>3. /\ order' \in [Handle -> Struct]
      /\ \A i \in ids : /\ order'[orders[i].order].filled = orders'[i].filled
                        /\ order'[orders[i].order].left = orders'[i].rem
      /\ \A h \in Handle : (\A i \in ids : orders[i].order # h) => order'[h] = order[h]
  BY <1>1, <1>2, SyncedStructs
<1>4. \A i \in DOMAIN orders : orders[i].order \in Handle /\ IdOf(orders[i].order) = i
                               /\ times[orders[i].order] > 0
  BY DEF RepInv, IsTracked
<1>5. StructInSync'
  <2> SUFFICES ASSUME NEW i \in DOMAIN orders', times'[orders'[i].order] = 1
               PROVE  /\ order'[orders'[i].order].filled = orders'[i].filled
                      /\ order'[orders'[i].order].left = orders'[i].rem
    BY DEF StructInSync
  <2>1. CASE i \in ids
    BY <1>1, <1>3, <2>1
  <2>2. CASE i \notin ids
    <3>1. \A j \in ids : orders[j].order # orders[i].order
      BY <1>1, <1>2, <1>4, <2>2
    <3> QED
      BY <1>1, <1>2, <1>3, <1>4, <2>2, <3>1 DEF RepInv, StructInSync
  <2> QED
    BY <2>1, <2>2
<1>6. \A h \in Handle : times[h] = 0 => order'[h] = order[h]
  BY <1>1, <1>2, <1>3, <1>4
<1>7. \A i \in DOMAIN orders' : /\ IsTracked(orders'[i]) /\ IdOf(orders'[i].order) = i
                                /\ times'[orders'[i].order] > 0
  BY <1>1, <1>4
<1>8. \A h \in Handle : times'[h] = 0 => order'[h].filled = 0 /\ order'[h].left = OrderQty
  BY <1>1, <1>6 DEF RepInv
<1> QED
  BY <1>1, <1>3, <1>5, <1>7, <1>8 DEF RepInv, IsTracked, IsList

LEMMA EndOrderInv ==
  ASSUME RepInv, NEW i, NEW status, EndOrder(i, status)
  PROVE  RepInv'
<1>1. /\ i \in DOMAIN orders /\ DOMAIN orders' = DOMAIN orders
      /\ orders'[i] = [orders[i] EXCEPT !.status = status]
      /\ \A j \in DOMAIN orders \ {i} : orders'[j] = orders[j]
      /\ UNCHANGED <<order, times>>
  BY DEF EndOrder
<1>2. \A j \in DOMAIN orders : IsTracked(orders[j])
  BY DEF RepInv
<1>3. /\ IsTracked(orders'[i]) /\ orders'[i].order = orders[i].order
      /\ orders'[i].filled = orders[i].filled /\ orders'[i].rem = orders[i].rem
  BY <1>1, <1>2 DEF IsTracked
<1>4. \A j \in DOMAIN orders' : /\ IsTracked(orders'[j]) /\ IdOf(orders'[j].order) = j
                                /\ times'[orders'[j].order] > 0
  BY <1>1, <1>2, <1>3 DEF RepInv
<1>5. StructInSync'
  <2> SUFFICES ASSUME NEW j \in DOMAIN orders', times'[orders'[j].order] = 1
               PROVE  /\ order'[orders'[j].order].filled = orders'[j].filled
                      /\ order'[orders'[j].order].left = orders'[j].rem
    BY DEF StructInSync
  <2>1. /\ orders'[j].order = orders[j].order
        /\ orders'[j].filled = orders[j].filled /\ orders'[j].rem = orders[j].rem
    BY <1>1, <1>3
  <2> QED
    BY <1>1, <2>1 DEF RepInv, StructInSync
<1> QED
  BY <1>1, <1>4, <1>5 DEF RepInv, IsTracked, IsList

LEMMA UpdateRemainingInv ==
  ASSUME RepInv, NEW i, NEW remaining \in Remainder, NEW canceled \in Remainder,
         UpdateRemainingQty(i, remaining, canceled)
  PROVE  /\ RepInv'
         /\ \A h \in Handle : order'[h] # order[h] => h = orders[i].order
<1> DEFINE g == orders[i].order
<1>1. /\ i \in DOMAIN orders /\ DOMAIN orders' = DOMAIN orders
      /\ orders'[i] = [orders[i] EXCEPT !.rem = remaining]
      /\ \A j \in DOMAIN orders \ {i} : orders'[j] = orders[j]
      /\ order' = [order EXCEPT ![g] = [order[g] EXCEPT !.canceled = canceled, !.left = remaining]]
      /\ UNCHANGED times
  BY DEF UpdateRemainingQty
<1>2. \A j \in DOMAIN orders : /\ IsTracked(orders[j]) /\ orders[j].order \in Handle
                               /\ IdOf(orders[j].order) = j /\ times[orders[j].order] > 0
  BY DEF RepInv, IsTracked
<1>3. /\ IsTracked(orders'[i]) /\ orders'[i].order = g
      /\ orders'[i].filled = orders[i].filled /\ orders'[i].rem = remaining
  BY <1>1, <1>2, ReporterAssumption DEF IsTracked
<1>4. g \in Handle /\ remaining \in Int /\ canceled \in Int /\ order \in [Handle -> Struct]
  BY <1>1, <1>2, ReporterAssumption DEF RepInv
<1> HIDE DEF g
<1>5. /\ order' \in [Handle -> Struct]
      /\ order'[g].filled = order[g].filled /\ order'[g].left = remaining
      /\ \A h \in Handle \ {g} : order'[h] = order[h]
  <2> DEFINE r == [order[g] EXCEPT !.canceled = canceled, !.left = remaining]
  <2>1. order[g] \in Struct
    BY <1>4
  <2>2. r \in Struct /\ r.filled = order[g].filled /\ r.left = remaining
    <3> DEFINE r0 == [order[g] EXCEPT !.canceled = canceled]
    <3>1. r0 \in Struct /\ r0.filled = order[g].filled
      BY <1>4, <2>1 DEF Struct
    <3>2. r = [r0 EXCEPT !.left = remaining]
      OBVIOUS
    <3> HIDE DEF r0, r
    <3> QED
      BY <1>4, <3>1, <3>2 DEF Struct
  <2>3. order' = [order EXCEPT ![g] = r]
    BY <1>1
  <2> HIDE DEF r
  <2> QED
    BY <1>4, <2>2, <2>3
<1>6. \A j \in DOMAIN orders \ {i} : orders[j].order # g
  BY <1>1, <1>2 DEF g
<1>7. StructInSync'
  <2>1. times[g] = 1 => order[g].filled = orders[i].filled
    BY <1>1 DEF g, RepInv, StructInSync
  <2> SUFFICES ASSUME NEW j \in DOMAIN orders', times'[orders'[j].order] = 1
               PROVE  /\ order'[orders'[j].order].filled = orders'[j].filled
                      /\ order'[orders'[j].order].left = orders'[j].rem
    BY DEF StructInSync
  <2>2. CASE j = i
    BY <1>1, <1>3, <1>5, <2>1, <2>2
  <2>3. CASE j # i
    BY <1>1, <1>2, <1>5, <1>6, <2>3 DEF RepInv, StructInSync
  <2> QED
    BY <2>2, <2>3
<1>8. \A j \in DOMAIN orders' : /\ IsTracked(orders'[j]) /\ IdOf(orders'[j].order) = j
                                /\ times'[orders'[j].order] > 0
  BY <1>1, <1>2, <1>3 DEF g
<1>9. \A h \in Handle : times'[h] = 0 => order'[h].filled = 0 /\ order'[h].left = OrderQty
  BY <1>1, <1>2, <1>5 DEF g, RepInv
<1>10. RepInv'
  BY <1>1, <1>5, <1>7, <1>8, <1>9 DEF RepInv, IsTracked, IsList
<1> QED
  BY <1>5, <1>10 DEF g

\* Orders that are not tracked any more.
LEMMA FewerInv ==
  ASSUME RepInv, UNCHANGED <<order, times>>, DOMAIN orders' \subseteq DOMAIN orders,
         \A i \in DOMAIN orders' : orders'[i] = orders[i]
  PROVE  RepInv'
<1>1. StructInSync'
  BY DEF RepInv, StructInSync
<1> QED
  BY <1>1 DEF RepInv, IsTracked, IsList

LEMMA RepStep ==
  ASSUME RepInv, [Next]_vars
  PROVE  RepInv'
<1>1. ASSUME NEW i \in OrderId, UnregisterOrder(i)
      PROVE  RepInv'
  <2>1. /\ UNCHANGED <<order, times>> /\ DOMAIN orders' \subseteq DOMAIN orders
        /\ \A j \in DOMAIN orders' : orders'[j] = orders[j]
    BY <1>1 DEF UnregisterOrder
  <2> QED
    BY <2>1, FewerInv
<1>2. CASE Clear
  <2>1. /\ UNCHANGED <<order, times>> /\ DOMAIN orders' \subseteq DOMAIN orders
        /\ \A j \in DOMAIN orders' : orders'[j] = orders[j]
    BY <1>2 DEF Clear
  <2> QED
    BY <2>1, FewerInv
<1>3. CASE UNCHANGED vars
  BY <1>3, FewerInv DEF vars
<1> QED
  BY <1>1, <1>2, <1>3, RegisterInv, RecordTradeInv, EndOrderInv, UpdateRemainingInv DEF Next

LEMMA RepInvariant == Spec => []RepInv
<1>1. Init => RepInv
  BY RepStart
<1>2. RepInv /\ [Next]_vars => RepInv'
  BY RepStep
<1> QED
  BY <1>1, <1>2, PTL DEF Spec

-----------------------------------------------------------------------------
(* The theorems.                                                           *)

\* The caller's struct of an id that is tracked says what the report says, unless the
\* struct was registered twice.
THEOREM StructsInSync == Spec => []StructInSync
BY RepInvariant, PTL DEF RepInv

\* Only structs that are tracked are written.
LEMMA FrozenStep ==
  ASSUME RepInv, [Next]_vars, NEW h \in Handle, order'[h] # order[h]
  PROVE  \E i \in DOMAIN orders : orders[i].order = h
<1>1. ASSUME NEW b \in OrderId, NEW s \in OrderId, NEW p \in Price, NEW q \in Quantity,
             RecordTrade(b, s, p, q)
      PROVE  \E i \in DOMAIN orders : orders[i].order = h
  <2>1. PICK trade :
          /\ BookedSides(trade) \subseteq DOMAIN orders
          /\ \A i \in DOMAIN orders : IsTracked(orders'[i]) /\ orders'[i].order = orders[i].order
          /\ order' = [g \in Handle |-> Synced(g, BookedSides(trade))]
    BY <1>1, RecordTradeOrders
  <2> QED
    BY <2>1, SyncedStructs
<1>2. ASSUME NEW i \in OrderId, NEW remaining \in Remainder, NEW canceled \in Remainder,
             UpdateRemainingQty(i, remaining, canceled)
      PROVE  \E j \in DOMAIN orders : orders[j].order = h
  BY <1>2, UpdateRemainingInv DEF UpdateRemainingQty
<1>3. \/ UNCHANGED order
      \/ \E b, s \in OrderId, p \in Price, q \in Quantity : RecordTrade(b, s, p, q)
      \/ \E i \in OrderId, remaining, canceled \in Remainder :
           UpdateRemainingQty(i, remaining, canceled)
  BY DEF Next, vars, RegisterOrder, EndOrder, UnregisterOrder, Clear
<1> QED
  BY <1>1, <1>2, <1>3

\* A struct whose id was registered with another, or unregistered, is never written.
THEOREM ReplacedStructsFrozen == Spec => ReplacedStructFrozen
<1>1. RepInv /\ [Next]_vars =>
        [\A h \in Handle :
           order'[h] # order[h] => \E i \in DOMAIN orders : orders[i].order = h]_vars
  BY FrozenStep
<1> QED
  BY <1>1, RepInvariant, PTL DEF Spec, ReplacedStructFrozen

\* What a step adds to the trades of its orders.
SellSideBooked ==
  \A i \in DOMAIN orders \cap DOMAIN orders' :
    \A n \in DOMAIN orders'[i].trades \ DOMAIN orders[i].trades :
      LET trade == orders'[i].trades[n]
      IN trade.sell = i =>
           /\ trade.buy \in DOMAIN orders'
           /\ \E m \in DOMAIN orders'[trade.buy].trades : orders'[trade.buy].trades[m] = trade

LEMMA NoNewTrades ==
  ASSUME \A i \in DOMAIN orders \cap DOMAIN orders' :
           \/ orders'[i].trades = orders[i].trades
           \/ DOMAIN orders'[i].trades = {}
  PROVE  SellSideBooked
BY DEF SellSideBooked

LEMMA SellSideStep ==
  ASSUME RepInv, [Next]_vars
  PROVE  SellSideBooked
<1>1. ASSUME NEW b \in OrderId, NEW s \in OrderId, NEW p \in Price, NEW q \in Quantity,
             RecordTrade(b, s, p, q)
      PROVE  SellSideBooked
  <2>1. PICK trade :
          /\ trade.buy = b /\ trade.sell = s
          /\ BookedSides(trade) \subseteq DOMAIN orders /\ DOMAIN orders' = DOMAIN orders
          /\ s \in BookedSides(trade) => b \in BookedSides(trade)
          /\ \A i \in BookedSides(trade) :
               GoesOnWith(orders[i].trades, orders'[i].trades, trade)
          /\ \A i \in DOMAIN orders \ BookedSides(trade) : orders'[i] = orders[i]
    BY <1>1, RecordTradeOrders
  <2>2. PICK ids : ids = BookedSides(trade)
    OBVIOUS
  <2>3. \A i \in ids :
          /\ \A m \in DOMAIN orders'[i].trades \ DOMAIN orders[i].trades : orders'[i].trades[m] = trade
          /\ \E m \in DOMAIN orders'[i].trades : orders'[i].trades[m] = trade
    BY <2>1, <2>2 DEF GoesOnWith
  <2> SUFFICES ASSUME NEW i \in DOMAIN orders,
                      NEW n \in DOMAIN orders'[i].trades \ DOMAIN orders[i].trades,
                      orders'[i].trades[n].sell = i
               PROVE  LET t == orders'[i].trades[n]
                      IN /\ t.buy \in DOMAIN orders'
                         /\ \E m \in DOMAIN orders'[t.buy].trades :
                              orders'[t.buy].trades[m] = t
    BY <2>1 DEF SellSideBooked
  <2>4. i \in ids
    BY <2>1, <2>2
  <2>5. orders'[i].trades[n] = trade
    BY <2>3, <2>4
  <2>6. i = s /\ b \in ids
    BY <2>1, <2>2, <2>4, <2>5
  <2> QED
    BY <2>1, <2>2, <2>3, <2>5, <2>6
<1>2. ASSUME NEW h \in Handle, RegisterOrder(h)
      PROVE  SellSideBooked
  <2>1. /\ orders'[IdOf(h)] = Tracked(h)
        /\ \A i \in DOMAIN orders \ {IdOf(h)} : orders'[i] = orders[i]
    BY <1>2 DEF RegisterOrder, Put
  <2>2. Tracked(h).trades = <<>> /\ DOMAIN <<>> = {}
    BY EmptySeq, LenProperties DEF Tracked
  <2> QED
    BY <2>1, <2>2, NoNewTrades
<1>3. ASSUME NEW i, NEW status, EndOrder(i, status)
      PROVE  SellSideBooked
  BY <1>3, NoNewTrades DEF EndOrder, RepInv, IsTracked
<1>4. ASSUME NEW i, NEW remaining, NEW canceled, UpdateRemainingQty(i, remaining, canceled)
      PROVE  SellSideBooked
  BY <1>4, NoNewTrades DEF UpdateRemainingQty, RepInv, IsTracked
<1>5. ASSUME NEW i, UnregisterOrder(i)
      PROVE  SellSideBooked
  BY <1>5, NoNewTrades DEF UnregisterOrder
<1>6. CASE Clear
  BY <1>6, NoNewTrades DEF Clear
<1>7. CASE UNCHANGED vars
  BY <1>7, NoNewTrades DEF vars
<1> QED
  BY <1>1, <1>2, <1>3, <1>4, <1>5, <1>6, <1>7 DEF Next

\* A trade that fails halfway leaves the buy side booked, never the sell side alone.
THEOREM SellSideBookedWithBuyer == Spec => SellSideNeverAlone
<1>1. RepInv /\ [Next]_vars => [SellSideBooked]_vars
  BY SellSideStep
<1> QED
  BY <1>1, RepInvariant, PTL DEF Spec, SellSideNeverAlone, SellSideBooked
-----------------------------------------------------------------------------
(* Arithmetic of quantities and values.                                    *)

LEMMA ModRange ==
  ASSUME NEW a \in Int, NEW m \in Nat, m > 0
  PROVE  a % m \in 0..(m - 1)
BY SMT

LEMMA ModSame ==
  ASSUME NEW m \in Nat, m > 0, NEW a \in 0..(m - 1)
  PROVE  a % m = a
BY SMT

LEMMA Products ==
  ASSUME NEW a \in Nat, NEW b \in Nat, NEW c \in Nat
  PROVE  /\ a * (b + c) = a * b + a * c /\ a * c \in Nat /\ b * c \in Nat
         /\ a >= b => a * c >= b * c
BY SMT

LEMMA WrapRange ==
  ASSUME NEW n \in Int
  PROVE  Wrap(n) \in (-(MaxInt + 1))..MaxInt
<1>1. PICK M \in Nat : M = MaxInt + 1 /\ M > 0 /\ MaxInt \in Nat
  BY ReporterAssumption
<1>2. PICK r : r = (n + M) % (2 * M)
  OBVIOUS
<1>3. r \in 0..(2 * M - 1)
  BY <1>1, <1>2, ModRange
<1>4. Wrap(n) = r - M
  BY <1>1, <1>2 DEF Wrap
<1> QED
  BY <1>1, <1>3, <1>4

LEMMA WrapSame ==
  ASSUME NEW n \in 0..MaxInt
  PROVE  Wrap(n) = n
<1>1. PICK M \in Nat : M = MaxInt + 1 /\ M > 0 /\ MaxInt \in Nat
  BY ReporterAssumption
<1>2. n + M \in 0..(2 * M - 1)
  BY <1>1
<1>3. (n + M) % (2 * M) = n + M
  BY <1>1, <1>2, ModSame
<1>4. Wrap(n) = ((n + M) % (2 * M)) - M
  BY <1>1 DEF Wrap
<1> QED
  BY <1>1, <1>3, <1>4

\* The sum of a list grows by what is appended.
LEMMA OneMoreSum ==
  ASSUME NEW k \in Nat, NEW f, DOMAIN f = 1..k, \A n \in 1..k : f[n] \in Nat,
         NEW g, DOMAIN g = 1..(k + 1), \A n \in 1..k : g[n] = f[n], g[k + 1] \in Nat
  PROVE  /\ SumFunction(g) = SumFunction(f) + g[k + 1]
         /\ SumFunction(f) \in Nat /\ SumFunction(g) \in Nat
<1>1. IsFiniteSet(1..k) /\ k + 1 \notin 1..k /\ 1..(k + 1) = 1..k \cup {k + 1}
  <2>1. IsFiniteSet(1..k)
    BY FS_Interval
  <2>2. k + 1 \notin 1..k /\ 1..(k + 1) = 1..k \cup {k + 1}
    OBVIOUS
  <2> QED
    BY <2>1, <2>2
<1>2. SumFunctionOnSet(g, 1..k \cup {k + 1}) = SumFunctionOnSet(f, 1..k) + g[k + 1]
  BY <1>1, SumWith
<1>3. SumFunctionOnSet(f, 1..k) \in Nat
  BY <1>1, SumNat
<1>4. PICK x \in Nat : x = SumFunctionOnSet(f, 1..k)
  BY <1>3
<1>5. PICK y \in Nat : y = g[k + 1]
  OBVIOUS
<1>6. SumFunction(f) = x /\ SumFunction(g) = x + y
  BY <1>1, <1>2, <1>4, <1>5 DEF SumFunction
<1> QED
  BY <1>5, <1>6

\* Lists of trades.
IsTradeList(s) ==
  /\ IsList(s)
  /\ \A n \in 1..Len(s) : s[n].price \in Nat /\ s[n].qty \in Nat \ {0}

LEMMA AppendTrade ==
  ASSUME NEW s, IsTradeList(s), NEW e, e.price \in Nat, e.qty \in Nat \ {0}
  PROVE  /\ IsTradeList(Append(s, e))
         /\ QtyOf(s) \in Nat /\ ValueOf(s) \in Nat
         /\ QtyOf(Append(s, e)) = QtyOf(s) + e.qty
         /\ ValueOf(Append(s, e)) = ValueOf(s) + e.price * e.qty
         /\ DOMAIN Append(s, e) = DOMAIN s \cup {Len(s) + 1}
         /\ \A n \in DOMAIN s : Append(s, e)[n] = s[n]
         /\ Append(s, e)[Len(s) + 1] = e /\ Len(s) + 1 \notin DOMAIN s
<1>1. PICK k \in Nat : k = Len(s)
  BY DEF IsTradeList, IsList
<1>2. PICK t : t = Append(s, e)
  OBVIOUS
<1>3. DOMAIN s = 1..k /\ DOMAIN t = 1..(k + 1) /\ t[k + 1] = e /\ IsList(t) /\ Len(t) = k + 1
  BY <1>1, <1>2, AppendList DEF IsTradeList
<1>4. \A n \in 1..k : t[n] = s[n]
  <2> DEFINE S == {s[n] : n \in 1..Len(s)} \cup {e}
  <2>1. s \in Seq(S) /\ e \in S
    BY SMT DEF IsTradeList, IsList
  <2> HIDE DEF S
  <2> QED
    BY <1>1, <1>2, <2>1, AppendProperties
<1>5. \A n \in 1..k : s[n].price \in Nat /\ s[n].qty \in Nat \ {0}
  BY <1>1 DEF IsTradeList
<1>6. \A n \in 1..(k + 1) : n \in 1..k \/ n = k + 1
  OBVIOUS
<1>7. IsTradeList(t)
  BY <1>3, <1>4, <1>5, <1>6 DEF IsTradeList
<1>8. QtyOf(t) = QtyOf(s) + e.qty /\ QtyOf(s) \in Nat
  <2> DEFINE f == [n \in DOMAIN s |-> s[n].qty]
             g == [n \in DOMAIN t |-> t[n].qty]
  <2>1. DOMAIN f = 1..k /\ \A n \in 1..k : f[n] \in Nat
    BY <1>3, <1>5
  <2>2. DOMAIN g = 1..(k + 1) /\ (\A n \in 1..k : g[n] = f[n]) /\ g[k + 1] = e.qty
    BY <1>3, <1>4, <1>6
  <2>3. QtyOf(s) = SumFunction(f) /\ QtyOf(t) = SumFunction(g)
    BY DEF QtyOf
  <2> HIDE DEF f, g
  <2> QED
    BY <2>1, <2>2, <2>3, OneMoreSum
<1>9. ValueOf(t) = ValueOf(s) + e.price * e.qty /\ ValueOf(s) \in Nat
  <2> DEFINE f == [n \in DOMAIN s |-> s[n].price * s[n].qty]
             g == [n \in DOMAIN t |-> t[n].price * t[n].qty]
  <2>1. DOMAIN f = 1..k /\ \A n \in 1..k : f[n] \in Nat
    BY <1>3, <1>5, Products
  <2>2. /\ DOMAIN g = 1..(k + 1) /\ (\A n \in 1..k : g[n] = f[n])
        /\ g[k + 1] = e.price * e.qty /\ e.price * e.qty \in Nat
    BY <1>3, <1>4, <1>6, Products
  <2>3. ValueOf(s) = SumFunction(f) /\ ValueOf(t) = SumFunction(g)
    BY DEF ValueOf
  <2> HIDE DEF f, g
  <2>4. SumFunction(g) = SumFunction(f) + g[k + 1] /\ SumFunction(f) \in Nat
    BY <2>1, <2>2, OneMoreSum
  <2> QED
    BY <2>2, <2>3, <2>4
<1>10. DOMAIN t = DOMAIN s \cup {k + 1} /\ k + 1 \notin DOMAIN s
  BY <1>3
<1> QED
  BY <1>1, <1>2, <1>3, <1>4, <1>7, <1>8, <1>9, <1>10

-----------------------------------------------------------------------------
(* What is tracked of an order adds up.                                    *)

\* The fills are the trades of the report, and so is the value as long as it does not
\* overflow; their average lies between two of their prices.
Accounted(t) ==
  LET V == ValueOf(t.trades)
      Q == QtyOf(t.trades)
  IN /\ IsTradeList(t.trades)
     /\ t.filled = Q /\ Q \in Nat
     /\ t.value \in (-(MaxInt + 1))..MaxInt
     /\ V \in Nat /\ (V <= MaxInt => t.value = V)
     /\ Q = 0 => V = 0
     /\ Q > 0 => /\ \E m \in DOMAIN t.trades : V >= t.trades[m].price * Q
                 /\ \E m \in DOMAIN t.trades : V <= t.trades[m].price * Q

LEMMA TrackedAccounted ==
  ASSUME NEW h
  PROVE  Accounted(Tracked(h))
<1>1. <<>> = [n \in {} |-> 0] /\ DOMAIN <<>> = {} /\ Len(<<>>) = 0 /\ IsList(<<>>)
  BY EmptySeq, LenProperties DEF IsList
<1>2. IsTradeList(<<>>)
  BY <1>1 DEF IsTradeList
<1>3. QtyOf(<<>>) = 0
  <2>1. DOMAIN [n \in DOMAIN <<>> |-> <<>>[n].qty] = {}
    BY <1>1
  <2> QED
    BY <2>1, SumEmpty DEF QtyOf, SumFunction
<1>4. ValueOf(<<>>) = 0
  <2>1. DOMAIN [n \in DOMAIN <<>> |-> <<>>[n].price * <<>>[n].qty] = {}
    BY <1>1
  <2> QED
    BY <2>1, SumEmpty DEF ValueOf, SumFunction
<1>5. Tracked(h).trades = <<>> /\ Tracked(h).filled = 0 /\ Tracked(h).value = 0
  BY DEF Tracked
<1>6. PICK t : t = Tracked(h)
  OBVIOUS
<1>7. 0 \in (-(MaxInt + 1))..MaxInt
  BY ReporterAssumption
<1>8. t.trades = <<>> /\ t.filled = 0 /\ t.value = 0
  BY <1>5, <1>6
<1>9. Accounted(t)
  BY <1>2, <1>3, <1>4, <1>7, <1>8 DEF Accounted
<1> QED
  BY <1>6, <1>9

\* With a trade of price p and quantity q the average stays between two prices.
LEMMA AverageStays ==
  ASSUME NEW V \in Nat, NEW Q \in Nat, NEW a \in Nat, NEW p \in Nat, NEW q \in Nat
  PROVE  /\ V >= a * Q => \/ V + p * q >= a * (Q + q)
                          \/ V + p * q >= p * (Q + q)
         /\ V <= a * Q => \/ V + p * q <= a * (Q + q)
                          \/ V + p * q <= p * (Q + q)
<1>1. /\ a * (Q + q) = a * Q + a * q /\ a * Q \in Nat /\ a * q \in Nat
      /\ p * (Q + q) = p * Q + p * q /\ p * Q \in Nat /\ p * q \in Nat
  BY Products
<1>2. \/ p * q >= a * q /\ p * Q >= a * Q
      \/ a * q >= p * q /\ a * Q >= p * Q
  <2>1. p >= a \/ a >= p
    OBVIOUS
  <2> QED
    BY <2>1, Products
<1>3. PICK aQ \in Nat, aq \in Nat, pQ \in Nat, pq \in Nat :
         aQ = a * Q /\ aq = a * q /\ pQ = p * Q /\ pq = p * q
  BY <1>1
<1>4. a * (Q + q) = aQ + aq /\ p * (Q + q) = pQ + pq
  BY <1>1, <1>3
<1>5. (pq >= aq /\ pQ >= aQ) \/ (aq >= pq /\ aQ >= pQ)
  BY <1>2, <1>3
<1>6. /\ V >= aQ => V + pq >= aQ + aq \/ V + pq >= pQ + pq
      /\ V <= aQ => V + pq <= aQ + aq \/ V + pq <= pQ + pq
  BY <1>5
<1> QED
  BY <1>3, <1>4, <1>6

LEMMA BookedAccounted ==
  ASSUME NEW t, IsTracked(t), Accounted(t),
         NEW trade, trade.price \in Nat, trade.qty \in Nat \ {0}
  PROVE  Accounted(Booked(t, trade))
<1>1. PICK l, l1 : l = t.trades /\ l1 = Append(l, trade)
  OBVIOUS
<1>2. PICK V, Q, V1, Q1, p, q :
        /\ V = ValueOf(l) /\ Q = QtyOf(l) /\ V1 = ValueOf(l1) /\ Q1 = QtyOf(l1)
        /\ p = trade.price /\ q = trade.qty
  OBVIOUS
<1>3. PICK r : r = Booked(t, trade)
  OBVIOUS
<1>4. /\ IsTradeList(l) /\ t.filled = Q /\ Q \in Nat /\ V \in Nat /\ (V <= MaxInt => t.value = V)
      /\ t.value \in (-(MaxInt + 1))..MaxInt /\ (Q = 0 => V = 0)
      /\ Q > 0 => /\ \E m \in DOMAIN l : V >= l[m].price * Q
                  /\ \E m \in DOMAIN l : V <= l[m].price * Q
  BY <1>1, <1>2 DEF Accounted
<1>5. /\ IsTradeList(l1) /\ Q1 = Q + q /\ V1 = V + p * q
      /\ DOMAIN l1 = DOMAIN l \cup {Len(l) + 1}
      /\ \A m \in DOMAIN l : l1[m] = l[m]
      /\ l1[Len(l) + 1] = trade
      /\ p \in Nat /\ q \in Nat \ {0}
  <2>1. /\ IsTradeList(Append(l, trade))
        /\ QtyOf(Append(l, trade)) = QtyOf(l) + trade.qty
        /\ ValueOf(Append(l, trade)) = ValueOf(l) + trade.price * trade.qty
        /\ DOMAIN Append(l, trade) = DOMAIN l \cup {Len(l) + 1}
        /\ \A m \in DOMAIN l : Append(l, trade)[m] = l[m]
        /\ Append(l, trade)[Len(l) + 1] = trade
    BY <1>4, AppendTrade
  <2> QED
    BY <1>1, <1>2, <2>1
<1>6. p * q \in Nat /\ p * q >= 0
  BY <1>5, Products
<1>7. V1 \in Nat /\ Q1 \in Nat /\ Q1 # 0 /\ V <= V1
  <2>1. PICK v \in Nat : v = p * q
    BY <1>6
  <2>2. V1 = V + v /\ Q1 = Q + q
    BY <1>5, <2>1
  <2> QED
    BY <1>4, <1>5, <2>2
<1>8. r.filled = Q1 /\ r.value = Wrap(t.value + p * q) /\ r.trades = l1
  <2>1. t = [order |-> t.order, status |-> t.status, filled |-> t.filled, rem |-> t.rem,
             value |-> t.value, trades |-> t.trades]
    BY DEF IsTracked
  <2> QED
    BY <1>1, <1>2, <1>3, <1>4, <1>5, <2>1 DEF Booked
<1>9. r.value \in (-(MaxInt + 1))..MaxInt
  <2>1. t.value + p * q \in Int
    BY <1>4, <1>6, ReporterAssumption
  <2> QED
    BY <1>8, <2>1, WrapRange
<1>10. V1 <= MaxInt => r.value = V1
  <2> SUFFICES ASSUME V1 <= MaxInt
               PROVE  r.value = V1
    OBVIOUS
  <2>1. V <= MaxInt
    BY <1>4, <1>7, ReporterAssumption
  <2>2. t.value + p * q = V1 /\ V1 \in 0..MaxInt
    BY <1>4, <1>5, <1>7, <2>1, ReporterAssumption
  <2> QED
    BY <1>8, <2>2, WrapSame
<1>11. \A m \in DOMAIN l : l[m].price \in Nat
  <2>1. DOMAIN l = 1..Len(l)
    BY <1>4, AppendList DEF IsTradeList
  <2> QED
    BY <1>4, <2>1 DEF IsTradeList
<1>12. /\ \E m \in DOMAIN l1 : V1 >= l1[m].price * Q1
       /\ \E m \in DOMAIN l1 : V1 <= l1[m].price * Q1
  <2>1. CASE Q = 0
    <3>1. PICK v \in Nat : v = p * q
      BY <1>6
    <3>2. V1 = v /\ Q1 = q
      BY <1>4, <1>5, <2>1, <3>1
    <3>3. Len(l) + 1 \in DOMAIN l1 /\ l1[Len(l) + 1].price = p
      BY <1>2, <1>5
    <3> QED
      BY <3>1, <3>2, <3>3
  <2>2. CASE Q > 0
    <3>1. PICK m \in DOMAIN l : V >= l[m].price * Q
      BY <1>4, <2>2
    <3>2. V1 >= l[m].price * Q1 \/ V1 >= p * Q1
      BY <1>4, <1>5, <1>11, <3>1, AverageStays
    <3>3. PICK n \in DOMAIN l : V <= l[n].price * Q
      BY <1>4, <2>2
    <3>4. V1 <= l[n].price * Q1 \/ V1 <= p * Q1
      BY <1>4, <1>5, <1>11, <3>3, AverageStays
    <3>5. m \in DOMAIN l1 /\ n \in DOMAIN l1 /\ l1[m] = l[m] /\ l1[n] = l[n]
          /\ Len(l) + 1 \in DOMAIN l1 /\ l1[Len(l) + 1].price = p
      BY <1>2, <1>5
    <3> QED
      BY <3>2, <3>4, <3>5
  <2> QED
    BY <1>4, <2>1, <2>2
<1>13. Accounted(r)
  BY <1>2, <1>5, <1>7, <1>8, <1>9, <1>10, <1>12 DEF Accounted
<1> QED
  BY <1>3, <1>13

Statuses == {"New", "Partial", "Filled", "Canceled", "Rejected"}

\* The same when the trade is of the order with itself.
LEMMA BookedForAccounted ==
  ASSUME NEW t, IsTracked(t), Accounted(t),
         NEW trade, trade.price \in Nat, trade.qty \in Nat \ {0}
  PROVE  Accounted(BookedFor(t, trade)) /\ BookedFor(t, trade).status \in Statuses
<1>1. ASSUME NEW u, IsTracked(u)
      PROVE  Booked(u, trade).status \in Statuses
  <2>1. u = [order |-> u.order, status |-> u.status, filled |-> u.filled, rem |-> u.rem,
             value |-> u.value, trades |-> u.trades]
    BY <1>1 DEF IsTracked
  <2> QED
    BY <2>1 DEF Booked, Statuses
<1>2. PICK u : u = Booked(t, trade)
  OBVIOUS
<1>3. Accounted(u) /\ IsTracked(u) /\ u.status \in Statuses
  BY <1>1, <1>2, BookedAccounted, BookedTracked
<1>4. PICK v : v = Booked(u, trade)
  OBVIOUS
<1>5. Accounted(v) /\ v.status \in Statuses
  BY <1>1, <1>3, <1>4, BookedAccounted
<1>6. BookedFor(t, trade) = u \/ BookedFor(t, trade) = v
  BY <1>2, <1>4 DEF BookedFor
<1> QED
  BY <1>3, <1>5, <1>6

-----------------------------------------------------------------------------
(* The invariant of what is accounted.                                     *)

AccInv ==
  /\ IsFiniteSet(DOMAIN orders) /\ tradeCounter \in Nat
  /\ \A i \in DOMAIN orders : Accounted(orders[i]) /\ orders[i].status \in Statuses

LEMMA AccStart == ASSUME Init PROVE AccInv
<1>1. DOMAIN orders = {} /\ IsFiniteSet({})
  BY FS_EmptySet DEF Init
<1> QED
  BY <1>1 DEF Init, AccInv

LEMMA AccRegister ==
  ASSUME RepInv, AccInv, NEW h \in Handle, RegisterOrder(h)
  PROVE  AccInv'
<1>1. /\ UNCHANGED tradeCounter
      /\ DOMAIN orders' = DOMAIN orders \cup {IdOf(h)} /\ orders'[IdOf(h)] = Tracked(h)
      /\ \A i \in DOMAIN orders \ {IdOf(h)} : orders'[i] = orders[i]
  BY DEF RegisterOrder, Put
<1>2. Tracked(h).status \in Statuses /\ Accounted(Tracked(h))
  BY TrackedAccounted DEF Tracked, Statuses
<1>3. IsFiniteSet(DOMAIN orders') /\ tradeCounter' \in Nat
  BY <1>1, FS_AddElement DEF AccInv
<1>4. \A i \in DOMAIN orders' : Accounted(orders'[i]) /\ orders'[i].status \in Statuses
  BY <1>1, <1>2 DEF AccInv
<1> QED
  BY <1>3, <1>4 DEF AccInv, Accounted

LEMMA AccRecordTrade ==
  ASSUME RepInv, AccInv, NEW b \in OrderId, NEW s \in OrderId, NEW p \in Price,
         NEW q \in Quantity, RecordTrade(b, s, p, q)
  PROVE  AccInv'
<1>1. PICK trade :
        /\ trade.price = p /\ trade.qty = q /\ tradeCounter' = tradeCounter + 1
        /\ \A i \in BookedSides(trade) : orders'[i] = BookedFor(orders[i], trade)
        /\ BookedSides(trade) \subseteq DOMAIN orders /\ DOMAIN orders' = DOMAIN orders
        /\ \A i \in DOMAIN orders \ BookedSides(trade) : orders'[i] = orders[i]
  BY RecordTradeOrders
<1>2. PICK ids : ids = BookedSides(trade)
  OBVIOUS
<1>3. p \in Nat /\ q \in Nat \ {0}
  BY ReporterAssumption
<1>4. ASSUME NEW i \in ids
      PROVE  Accounted(orders'[i]) /\ orders'[i].status \in Statuses
  <2>1. /\ orders'[i] = BookedFor(orders[i], trade)
        /\ IsTracked(orders[i]) /\ Accounted(orders[i])
    BY <1>1, <1>2 DEF RepInv, AccInv
  <2> QED
    BY <1>1, <1>3, <2>1, BookedForAccounted
<1>5. \A i \in DOMAIN orders : Accounted(orders'[i]) /\ orders'[i].status \in Statuses
  BY <1>1, <1>2, <1>4 DEF AccInv
<1>6. IsFiniteSet(DOMAIN orders') /\ tradeCounter' \in Nat
  BY <1>1 DEF AccInv
<1> QED
  BY <1>1, <1>5, <1>6 DEF AccInv, Accounted

LEMMA AccEndOrder ==
  ASSUME RepInv, AccInv, NEW i, NEW status \in {"Canceled", "Rejected"}, EndOrder(i, status)
  PROVE  AccInv'
<1>1. /\ i \in DOMAIN orders /\ DOMAIN orders' = DOMAIN orders
      /\ orders'[i] = [orders[i] EXCEPT !.status = status]
      /\ \A j \in DOMAIN orders \ {i} : orders'[j] = orders[j]
      /\ UNCHANGED tradeCounter
  BY DEF EndOrder
<1>2. IsTracked(orders[i])
  BY <1>1 DEF RepInv
<1>3. /\ orders'[i].trades = orders[i].trades /\ orders'[i].filled = orders[i].filled
      /\ orders'[i].value = orders[i].value /\ orders'[i].status \in Statuses
  BY <1>1, <1>2 DEF IsTracked, Statuses
<1>4. Accounted(orders'[i])
  BY <1>1, <1>3 DEF AccInv, Accounted
<1> QED
  BY <1>1, <1>3, <1>4 DEF AccInv, Accounted

LEMMA AccUpdateRemaining ==
  ASSUME RepInv, AccInv, NEW i, NEW remaining, NEW canceled,
         UpdateRemainingQty(i, remaining, canceled)
  PROVE  AccInv'
<1>1. /\ i \in DOMAIN orders /\ DOMAIN orders' = DOMAIN orders
      /\ orders'[i] = [orders[i] EXCEPT !.rem = remaining]
      /\ \A j \in DOMAIN orders \ {i} : orders'[j] = orders[j]
      /\ UNCHANGED tradeCounter
  BY DEF UpdateRemainingQty
<1>2. IsTracked(orders[i])
  BY <1>1 DEF RepInv
<1>3. /\ orders'[i].trades = orders[i].trades /\ orders'[i].filled = orders[i].filled
      /\ orders'[i].value = orders[i].value /\ orders'[i].status = orders[i].status
  BY <1>1, <1>2 DEF IsTracked
<1>4. Accounted(orders'[i])
  BY <1>1, <1>3 DEF AccInv, Accounted
<1> QED
  BY <1>1, <1>3, <1>4 DEF AccInv, Accounted

\* Orders that are not tracked any more.
LEMMA AccFewer ==
  ASSUME AccInv, DOMAIN orders' \subseteq DOMAIN orders,
         \A i \in DOMAIN orders' : orders'[i] = orders[i], tradeCounter' \in Nat
  PROVE  AccInv'
<1>1. IsFiniteSet(DOMAIN orders')
  BY FS_Subset DEF AccInv
<1> QED
  BY <1>1 DEF AccInv, Accounted

LEMMA AccStep ==
  ASSUME RepInv, AccInv, [Next]_vars
  PROVE  AccInv'
<1>1. ASSUME NEW i \in OrderId, UnregisterOrder(i)
      PROVE  AccInv'
  BY <1>1, AccFewer DEF UnregisterOrder, AccInv
<1>2. CASE Clear
  BY <1>2, AccFewer DEF Clear
<1>3. CASE UNCHANGED vars
  BY <1>3, AccFewer DEF vars, AccInv
<1> QED
  BY <1>1, <1>2, <1>3, AccRegister, AccRecordTrade, AccEndOrder, AccUpdateRemaining DEF Next

LEMMA AccInvariant == Spec => [](RepInv /\ AccInv)
<1>1. Init => RepInv /\ AccInv
  BY RepStart, AccStart
<1>2. RepInv /\ AccInv /\ [Next]_vars => RepInv' /\ AccInv'
  BY RepStep, AccStep
<1> QED
  BY <1>1, <1>2, PTL DEF Spec

-----------------------------------------------------------------------------
(* The theorems on what is reported.                                       *)

\* Four disjoint sets that make up a finite set have its size together.
LEMMA FourParts ==
  ASSUME NEW D, IsFiniteSet(D), NEW A, NEW B, NEW C, NEW E, D = A \cup B \cup C \cup E,
         A \cap B = {}, (A \cup B) \cap C = {}, (A \cup B \cup C) \cap E = {}
  PROVE  Cardinality(D) = Cardinality(A) + Cardinality(B) + Cardinality(C) + Cardinality(E)
<1>1. IsFiniteSet(A) /\ IsFiniteSet(B) /\ IsFiniteSet(C) /\ IsFiniteSet(E)
  BY FS_Subset
<1>2. PICK a \in Nat, b \in Nat, c \in Nat, e \in Nat :
        a = Cardinality(A) /\ b = Cardinality(B) /\ c = Cardinality(C) /\ e = Cardinality(E)
  BY <1>1, FS_CardinalityType
<1>3. IsFiniteSet(A \cup B) /\ Cardinality(A \cup B) = a + b
  BY <1>1, <1>2, TwoParts
<1>4. IsFiniteSet(A \cup B \cup C) /\ Cardinality(A \cup B \cup C) = a + b + c
  BY <1>1, <1>2, <1>3, TwoParts
<1>5. Cardinality(A \cup B \cup C \cup E) = a + b + c + e
  BY <1>1, <1>2, <1>4, TwoParts
<1> QED
  BY <1>2, <1>5

\* What is tracked has the types it should, values wrap around, and the orders that
\* GetStats counts by status are all that are tracked.
THEOREM ReporterTypes == Spec => []TypeOK
<1>1. ASSUME RepInv, AccInv
      PROVE  TypeOK
  <2>1. Stats.total = Stats.active + Stats.filled + Stats.canceled + Stats.rejected
    <3> DEFINE Of(S) == {i \in DOMAIN orders : orders[i].status \in S}
    <3>1. /\ DOMAIN orders = Of({"New", "Partial"}) \cup Of({"Filled"}) \cup Of({"Canceled"})
                             \cup Of({"Rejected"})
          /\ Of({"New", "Partial"}) \cap Of({"Filled"}) = {}
          /\ (Of({"New", "Partial"}) \cup Of({"Filled"})) \cap Of({"Canceled"}) = {}
          /\ (Of({"New", "Partial"}) \cup Of({"Filled"}) \cup Of({"Canceled"}))
               \cap Of({"Rejected"}) = {}
      BY <1>1 DEF AccInv, Statuses
    <3>2. \A S : WithStatus(S) = Cardinality(Of(S))
      BY DEF WithStatus
    <3> HIDE DEF Of
    <3>3. IsFiniteSet(DOMAIN orders)
      BY <1>1 DEF AccInv
    <3>4. Cardinality(DOMAIN orders) = WithStatus({"New", "Partial"}) + WithStatus({"Filled"})
                                       + WithStatus({"Canceled"}) + WithStatus({"Rejected"})
      BY <3>1, <3>2, <3>3, FourParts
    <3> QED
      BY <3>4 DEF Stats
  <2>2. \A i \in DOMAIN orders :
          /\ orders[i].order \in Handle /\ IdOf(orders[i].order) = i
          /\ orders[i].status \in {"New", "Partial", "Filled", "Canceled", "Rejected"}
          /\ orders[i].filled \in Nat /\ orders[i].rem \in Int
          /\ orders[i].value \in (-(MaxInt + 1))..MaxInt
    BY <1>1 DEF RepInv, AccInv, IsTracked, Accounted, Statuses
  <2> QED
    BY <1>1, <2>1, <2>2 DEF RepInv, AccInv, TypeOK
<1> QED
  BY <1>1, AccInvariant, PTL

\* A report's average price is never outside the prices of its trades unless the sum of
\* their values overflows.
THEOREM AveragesWithinPrices == Spec => []AverageWithinPrices
<1>1. ASSUME RepInv, AccInv
      PROVE  AverageWithinPrices
  <2>5. \A i \in DOMAIN orders : Report(i).filled = QtyOf(Report(i).trades)
    BY <1>1 DEF AccInv, Accounted, Report
  <2> SUFFICES ASSUME NEW i \in DOMAIN orders, Report(i).filled > 0,
                      ValueOf(Report(i).trades) <= MaxInt
               PROVE  LET prices == {Report(i).trades[n].price : n \in DOMAIN Report(i).trades}
                      IN /\ \E p \in prices : Report(i).value >= p * Report(i).filled
                         /\ \E p \in prices : Report(i).value <= p * Report(i).filled
    BY <2>5 DEF AverageWithinPrices
  <2>1. PICK t : t = orders[i]
    OBVIOUS
  <2>2. Report(i).filled = t.filled /\ Report(i).value = t.value /\ Report(i).trades = t.trades
    BY <2>1 DEF Report
  <2>3. Accounted(t)
    BY <1>1, <2>1 DEF AccInv
  <2>4. /\ t.value = ValueOf(t.trades) /\ t.filled = QtyOf(t.trades)
        /\ \E m \in DOMAIN t.trades : ValueOf(t.trades) >= t.trades[m].price * QtyOf(t.trades)
        /\ \E m \in DOMAIN t.trades : ValueOf(t.trades) <= t.trades[m].price * QtyOf(t.trades)
    BY <2>2, <2>3 DEF Accounted
  <2> QED
    BY <2>2, <2>4
<1> QED
  BY <1>1, AccInvariant, PTL

-----------------------------------------------------------------------------
(* The numbers of trades.                                                  *)

\* The numbers in use are those the counter has reached.
NumInv ==
  /\ tradeCounter \in Nat
  /\ \A i \in DOMAIN orders : \A n \in DOMAIN orders[i].trades :
       n \in Nat /\ orders[i].trades[n].id \in 1..tradeCounter
  /\ TradesNumbered

\* No step but RecordTrade lists a trade.
OnlyListed(i) ==
  \/ DOMAIN orders'[i].trades = {}
  \/ i \in DOMAIN orders /\ orders'[i].trades = orders[i].trades

LEMMA NumFewer ==
  ASSUME NumInv, UNCHANGED tradeCounter \/ (tradeCounter' = 0 /\ DOMAIN orders' = {}),
         \A i \in DOMAIN orders' : OnlyListed(i)
  PROVE  NumInv'
<1>1. ASSUME NEW i \in DOMAIN orders', NEW n \in DOMAIN orders'[i].trades
      PROVE  /\ i \in DOMAIN orders /\ n \in DOMAIN orders[i].trades
             /\ orders'[i].trades[n] = orders[i].trades[n]
  BY DEF OnlyListed
<1>2. TradesNumbered'
  BY <1>1 DEF NumInv, TradesNumbered
<1>3. \A i \in DOMAIN orders' : \A n \in DOMAIN orders'[i].trades :
        n \in Nat /\ orders'[i].trades[n].id \in 1..tradeCounter'
  BY <1>1 DEF NumInv
<1> QED
  BY <1>2, <1>3 DEF NumInv

LEMMA NumRecordTrade ==
  ASSUME RepInv, NumInv, NEW b \in OrderId, NEW s \in OrderId, NEW p \in Price,
         NEW q \in Quantity, RecordTrade(b, s, p, q)
  PROVE  NumInv'
<1>1. PICK trade :
        /\ trade.id = tradeCounter + 1 /\ tradeCounter' = tradeCounter + 1
        /\ \A i \in BookedSides(trade) : GoesOnWith(orders[i].trades, orders'[i].trades, trade)
        /\ BookedSides(trade) \subseteq DOMAIN orders /\ DOMAIN orders' = DOMAIN orders
        /\ \A i \in DOMAIN orders \ BookedSides(trade) : orders'[i] = orders[i]
  BY RecordTradeOrders
<1> DEFINE Old(i, n) == n \in DOMAIN orders[i].trades
<1>2. ASSUME NEW i \in DOMAIN orders, NEW n \in DOMAIN orders'[i].trades
      PROVE  /\ Old(i, n) => /\ orders'[i].trades[n] = orders[i].trades[n]
                             /\ orders[i].trades[n].id \in 1..tradeCounter
             /\ ~Old(i, n) => /\ orders'[i].trades[n] = trade
                              /\ \A m \in DOMAIN orders[i].trades : m < n
             /\ n \in Nat
  <2>1. CASE i \in BookedSides(trade)
    BY <1>1, <2>1 DEF GoesOnWith, NumInv
  <2>2. CASE i \notin BookedSides(trade)
    BY <1>1, <2>2 DEF NumInv
  <2> QED
    BY <2>1, <2>2
<1>3. PICK k \in Nat : k = tradeCounter
  BY DEF NumInv
<1>4. TradesNumbered'
  <2> SUFFICES ASSUME NEW i \in DOMAIN orders, NEW j \in DOMAIN orders,
                      NEW n \in DOMAIN orders'[i].trades, NEW m \in DOMAIN orders'[j].trades
               PROVE  LET first == orders'[i].trades[n]  second == orders'[j].trades[m]
                      IN /\ first.id = second.id => first = second
                         /\ i = j /\ n < m => first.id <= second.id
    BY <1>1 DEF TradesNumbered
  <2>1. CASE Old(i, n) /\ Old(j, m)
    BY <1>2, <2>1 DEF NumInv, TradesNumbered
  <2>2. CASE Old(i, n) /\ ~Old(j, m)
    BY <1>1, <1>2, <1>3, <2>2
  <2>3. CASE ~Old(i, n) /\ Old(j, m)
    BY <1>1, <1>2, <1>3, <2>3
  <2>4. CASE ~Old(i, n) /\ ~Old(j, m)
    BY <1>1, <1>2, <1>3, <2>4
  <2> QED
    BY <2>1, <2>2, <2>3, <2>4
<1>5. \A i \in DOMAIN orders' : \A n \in DOMAIN orders'[i].trades :
        n \in Nat /\ orders'[i].trades[n].id \in 1..tradeCounter'
  BY <1>1, <1>2, <1>3
<1> QED
  BY <1>1, <1>3, <1>4, <1>5 DEF NumInv

LEMMA NumStep ==
  ASSUME RepInv, NumInv, [Next]_vars
  PROVE  NumInv'
<1>1. ASSUME NEW h \in Handle, RegisterOrder(h)
      PROVE  NumInv'
  <2>1. /\ DOMAIN orders' = DOMAIN orders \cup {IdOf(h)} /\ orders'[IdOf(h)] = Tracked(h)
        /\ \A i \in DOMAIN orders \ {IdOf(h)} : orders'[i] = orders[i]
        /\ UNCHANGED tradeCounter
    BY <1>1 DEF RegisterOrder, Put
  <2>2. Tracked(h).trades = <<>> /\ DOMAIN <<>> = {}
    BY EmptySeq, LenProperties DEF Tracked
  <2>3. DOMAIN orders'[IdOf(h)].trades = {}
    <3>1. orders'[IdOf(h)].trades = <<>>
      BY <2>1, <2>2
    <3> QED
      BY ONLY <2>2, <3>1
  <2>4. ASSUME NEW i \in DOMAIN orders'
        PROVE  OnlyListed(i)
    BY <2>1, <2>3 DEF OnlyListed
  <2> QED
    BY <2>1, <2>4, NumFewer
<1>2. ASSUME NEW i, NEW status, EndOrder(i, status)
      PROVE  NumInv'
  <2>1. /\ i \in DOMAIN orders /\ DOMAIN orders' = DOMAIN orders
        /\ orders'[i] = [orders[i] EXCEPT !.status = status] /\ IsTracked(orders[i])
        /\ \A j \in DOMAIN orders \ {i} : orders'[j] = orders[j]
        /\ UNCHANGED tradeCounter
    BY <1>2 DEF EndOrder, RepInv
  <2>2. orders'[i].trades = orders[i].trades
    BY <2>1 DEF IsTracked
  <2> QED
    BY <2>1, <2>2, NumFewer DEF OnlyListed
<1>3. ASSUME NEW i, NEW remaining, NEW canceled, UpdateRemainingQty(i, remaining, canceled)
      PROVE  NumInv'
  BY <1>3, NumFewer DEF UpdateRemainingQty, RepInv, IsTracked, OnlyListed
<1>4. ASSUME NEW i, UnregisterOrder(i)
      PROVE  NumInv'
  BY <1>4, NumFewer DEF UnregisterOrder, OnlyListed
<1>5. CASE Clear
  BY <1>5, NumFewer DEF Clear, OnlyListed
<1>6. CASE UNCHANGED vars
  BY <1>6, NumFewer DEF vars, OnlyListed
<1> QED
  BY <1>1, <1>2, <1>3, <1>4, <1>5, <1>6, NumRecordTrade DEF Next

\* A number names one trade in every report, whatever failed, was cleared or was
\* registered again.
THEOREM TradesAreNumbered == Spec => []TradesNumbered
<1>1. Init => RepInv /\ NumInv
  BY RepStart DEF Init, NumInv, TradesNumbered
<1>2. RepInv /\ NumInv /\ [Next]_vars => RepInv' /\ NumInv'
  BY RepStep, NumStep
<1>3. NumInv => TradesNumbered
  BY DEF NumInv
<1> QED
  BY <1>1, <1>2, <1>3, PTL DEF Spec
=============================================================================
