------------------------ MODULE BookDirectoryProofs ------------------------
(***************************************************************************)
(* Proof that the map of books, in which a book is made when its symbol is *)
(* first asked for, implements one book per symbol that is there from the  *)
(* start, for any clients, symbols and orders.                             *)
(***************************************************************************)
EXTENDS BookDirectory, FiniteSetTheorems, TLAPS

\* Books are numbered, and given symbolIDs, in the order they were made.
NumberedInOrder ==
  /\ Cardinality(DOMAIN orderBooks) = Cardinality(BookId)
  /\ \A b \in BookId : made[b].symbolID = b

\* The inductive invariant.
DirInv == TypeOK /\ OneBookPerSymbol /\ NumberedInOrder

-----------------------------------------------------------------------------
(* The calls.                                                              *)

\* The call of c, which is in the code at pc.
LEMMA CallAt ==
  ASSUME TypeOK, NEW c, NEW pc, At(c, pc)
  PROVE  c \in Client /\ c \in DOMAIN call /\ call[c] \in CallRecord /\ call[c].pc = pc
BY DEF TypeOK, At

\* A call that goes on stays the call it was.
LEMMA GoOnCalls ==
  ASSUME TypeOK, NEW c \in DOMAIN call, NEW pc \in {"lookup", "create", "found"}, NEW b,
         GoOn(c, pc, b), BookId \subseteq BookId', b \in BookId' \cup {0}
  PROVE  /\ DOMAIN call' \subseteq Client /\ call' \in [DOMAIN call' -> CallRecord']
         /\ DOMAIN call' = DOMAIN call
         /\ call'[c].pc = pc /\ call'[c].ob = b /\ call'[c].symbol = call[c].symbol
         /\ \A d \in DOMAIN call \ {c} : call'[d] = call[d]
<1>1. DOMAIN call' = DOMAIN call /\ \A d \in DOMAIN call \ {c} : call'[d] = call[d]
  BY DEF GoOn
<1>2. \A d \in DOMAIN call : call[d] \in CallRecord
  BY DEF TypeOK
<1>3. CallRecord \subseteq CallRecord'
  BY DEF CallRecord
<1>4. call'[c] = [call[c] EXCEPT !.pc = pc, !.ob = b]
  BY DEF GoOn
<1>5. /\ call'[c] \in CallRecord'
      /\ call'[c].pc = pc /\ call'[c].ob = b /\ call'[c].symbol = call[c].symbol
  BY <1>2, <1>4 DEF CallRecord
<1>6. call' = [d \in DOMAIN call |-> call'[d]]
  BY <1>1 DEF GoOn
<1> QED
  BY <1>1, <1>2, <1>3, <1>5, <1>6 DEF TypeOK

\* A call that returns leaves the others alone.
LEMMA ReturnCalls ==
  ASSUME TypeOK, NEW c \in Client, NEW result \in Books!Outcome, Return(c, result),
         UNCHANGED made
  PROVE  /\ DOMAIN call' \subseteq Client /\ call' \in [DOMAIN call' -> CallRecord']
         /\ DOMAIN call' = DOMAIN call \ {c}
         /\ \A d \in DOMAIN call' : call'[d] = call[d]
         /\ outcome' \in [Client -> {"none", "added", "duplicate", "removed", "notFound"}]
<1>1. CallRecord' = CallRecord
  BY DEF CallRecord, BookId
<1>2. call' = [d \in DOMAIN call \ {c} |-> call[d]]
  BY DEF Return
<1> QED
  BY <1>1, <1>2 DEF TypeOK, Return, Books!Outcome

-----------------------------------------------------------------------------
(* Steps.                                                                  *)

LEMMA StartInv == ASSUME Init PROVE DirInv
<1>1. BookId = {} /\ DOMAIN orderBooks = {} /\ DOMAIN call = {} /\ DOMAIN content = {}
  BY DEF Init, BookId
<1>2. IsFiniteSet({}) /\ Cardinality({}) = 0
  BY FS_EmptySet
<1>3. {} = 1..0
  OBVIOUS
<1>4. TypeOK
  BY <1>1, <1>2, <1>3 DEF Init, TypeOK
<1> QED
  BY <1>1, <1>2, <1>4 DEF DirInv, OneBookPerSymbol, NumberedInOrder

\* Of a step that makes no book and touches neither books nor their contents, only
\* the calls need a look.
LEMMA SameBooks ==
  ASSUME DirInv, UNCHANGED <<orderBooks, made>>,
         content' \in [BookId -> SUBSET OrderId],
         closing' \subseteq Client, writer' \subseteq Client, uncleared' \subseteq BookId,
         DOMAIN call' \subseteq Client, call' \in [DOMAIN call' -> CallRecord'],
         outcome' \in [Client -> {"none", "added", "duplicate", "removed", "notFound"}],
         \A c \in DOMAIN call' :
           call'[c].pc = "found" =>
             /\ HasBook(call'[c].symbol)
             /\ orderBooks[call'[c].symbol] = call'[c].ob
  PROVE  DirInv'
<1>1. BookId' = BookId
  BY DEF BookId
<1>2. TypeOK'
  BY <1>1 DEF DirInv, TypeOK
<1>3. OneBookPerSymbol'
  BY <1>1 DEF DirInv, OneBookPerSymbol, HasBook
<1>4. NumberedInOrder'
  BY <1>1 DEF DirInv, NumberedInOrder
<1> QED
  BY <1>2, <1>3, <1>4 DEF DirInv

\* A book is made for a symbol that has none: it takes the next number, which is
\* also its symbolID.
LEMMA CreateBookInv ==
  ASSUME DirInv, NEW c \in Client, CreateBook(c)
  PROVE  /\ DirInv'
         /\ \A b \in BookId : b \in BookId' /\ made'[b] = made[b] /\ content'[b] = content[b]
         /\ \A b \in BookId' \ BookId : content'[b] = {}
<1> DEFINE s == call[c].symbol
           n == Cardinality(BookId)
<1>1. /\ c \in DOMAIN call /\ call[c] \in CallRecord /\ s \in Symbol /\ s \notin DOMAIN orderBooks
  BY CallAt DEF DirInv, CreateBook, MustCreate, HasBook, CallRecord
<1>2. /\ n \in Nat /\ BookId = 1..n /\ n + 1 \notin BookId
      /\ IsFiniteSet(BookId) /\ IsFiniteSet(DOMAIN orderBooks)
      /\ Cardinality(DOMAIN orderBooks) = n
  BY FS_CardinalityType DEF DirInv, TypeOK, NumberedInOrder
<1>3. /\ DOMAIN orderBooks' = DOMAIN orderBooks \cup {s}
      /\ orderBooks'[s] = n + 1
      /\ \A t \in DOMAIN orderBooks : orderBooks'[t] = orderBooks[t]
      /\ orderBooks' = [t \in DOMAIN orderBooks' |-> orderBooks'[t]]
  BY <1>1 DEF CreateBook
<1>4. /\ BookId' = BookId \cup {n + 1} /\ BookId' = 1..(n + 1)
      /\ made'[n + 1] = [symbol |-> s, symbolID |-> n + 1]
      /\ \A b \in BookId : made'[b] = made[b]
      /\ made' = [b \in BookId' |-> made'[b]]
  <2>1. /\ BookId' = BookId \cup {n + 1}
        /\ \A b \in BookId : made'[b] = made[b]
        /\ made' = [b \in BookId' |-> made'[b]]
    BY <1>2 DEF CreateBook, BookId
  <2>2. made'[n + 1] = [symbol |-> s, symbolID |-> n + 1]
    BY <1>2 DEF CreateBook, NextSymbolID
  <2>3. 1..(n + 1) = 1..n \cup {n + 1}
    BY <1>2
  <2> QED
    BY <1>2, <2>1, <2>2, <2>3
<1>5. /\ DOMAIN content' = BookId' /\ content'[n + 1] = {}
      /\ \A b \in BookId : content'[b] = content[b]
      /\ content' = [b \in BookId' |-> content'[b]]
  BY <1>2, <1>4 DEF CreateBook
<1>6. /\ IsFiniteSet(BookId') /\ Cardinality(BookId') = n + 1
      /\ IsFiniteSet(DOMAIN orderBooks') /\ Cardinality(DOMAIN orderBooks') = n + 1
  BY <1>1, <1>2, <1>3, <1>4, FS_AddElement
<1>7. /\ DOMAIN call' \subseteq Client /\ call' \in [DOMAIN call' -> CallRecord']
      /\ DOMAIN call' = DOMAIN call
      /\ call'[c].pc = "found" /\ call'[c].ob = n + 1 /\ call'[c].symbol = s
      /\ \A d \in DOMAIN call \ {c} : call'[d] = call[d]
  <2>1. /\ GoOn(c, "found", n + 1) /\ BookId \subseteq BookId' /\ n + 1 \in BookId' \cup {0}
    BY <1>4 DEF CreateBook
  <2> HIDE DEF n
  <2> QED
    BY <1>1, <2>1, GoOnCalls DEF DirInv
<1> HIDE DEF s, n
<1>8. TypeOK'
  <2>1. made' \in [BookId' -> [symbol : Symbol, symbolID : Nat \ {0}]]
    BY <1>1, <1>2, <1>4 DEF DirInv, TypeOK
  <2>2. content' \in [BookId' -> SUBSET OrderId]
    BY <1>4, <1>5 DEF DirInv, TypeOK
  <2>3. orderBooks' \in [DOMAIN orderBooks' -> BookId']
    BY <1>3, <1>4 DEF DirInv, TypeOK
  <2>4. \A t \in DOMAIN orderBooks' : made'[orderBooks'[t]].symbol = t
    BY <1>3, <1>4 DEF DirInv, TypeOK
  <2>5. /\ closing' \subseteq Client /\ writer' \subseteq Client /\ uncleared' \subseteq BookId'
        /\ outcome' \in [Client -> {"none", "added", "duplicate", "removed", "notFound"}]
    BY <1>4 DEF CreateBook, DirInv, TypeOK
  <2>6. BookId' = 1..Cardinality(BookId') /\ IsFiniteSet(BookId')
    BY <1>4, <1>6
  <2>7. DOMAIN orderBooks' \subseteq Symbol /\ IsFiniteSet(DOMAIN orderBooks')
    BY <1>1, <1>3, <1>6 DEF DirInv, TypeOK
  <2> QED
    BY <1>7, <2>1, <2>2, <2>3, <2>4, <2>5, <2>6, <2>7 DEF TypeOK
<1>9. OneBookPerSymbol'
  <2>1. ASSUME NEW d \in DOMAIN call', call'[d].pc = "found"
        PROVE  call'[d].symbol \in DOMAIN orderBooks' /\ orderBooks'[call'[d].symbol] = call'[d].ob
    <3>1. CASE d = c
      BY <1>3, <1>7, <3>1 DEF HasBook
    <3>2. CASE d # c
      BY <1>3, <1>7, <2>1, <3>2 DEF DirInv, OneBookPerSymbol, HasBook
    <3> QED
      BY <3>1, <3>2
  <2>2. ASSUME NEW b \in BookId'
        PROVE  made'[b].symbol \in DOMAIN orderBooks' /\ orderBooks'[made'[b].symbol] = b
    <3>1. CASE b = n + 1
      BY <1>3, <1>4, <3>1 DEF HasBook
    <3>2. CASE b \in BookId
      BY <1>3, <1>4, <3>2 DEF DirInv, OneBookPerSymbol, HasBook
    <3> QED
      BY <1>4, <3>1, <3>2
  <2> QED
    BY <2>1, <2>2 DEF OneBookPerSymbol, HasBook
<1>10. NumberedInOrder'
  BY <1>4, <1>6 DEF DirInv, NumberedInOrder
<1> QED
  BY <1>4, <1>5, <1>8, <1>9, <1>10 DEF DirInv

\* A step of a call that goes on with the book of its symbol, or with none.
LEMMA GoOnInv ==
  ASSUME DirInv, NEW c \in Client, NEW pc \in {"create", "found"}, NEW b,
         c \in DOMAIN call, GoOn(c, pc, b),
         pc = "create" => b = 0,
         pc = "found" => call[c].symbol \in DOMAIN orderBooks /\ b = orderBooks[call[c].symbol],
         UNCHANGED <<orderBooks, made, content, closing, writer, uncleared, outcome>>
  PROVE  DirInv'
<1>1. BookId' = BookId /\ b \in BookId \cup {0}
  BY DEF BookId, DirInv, TypeOK
<1>2. /\ DOMAIN call' \subseteq Client /\ call' \in [DOMAIN call' -> CallRecord']
      /\ DOMAIN call' = DOMAIN call
      /\ call'[c].pc = pc /\ call'[c].ob = b /\ call'[c].symbol = call[c].symbol
      /\ \A d \in DOMAIN call \ {c} : call'[d] = call[d]
  BY <1>1, GoOnCalls DEF DirInv
<1>3. ASSUME NEW d \in DOMAIN call', call'[d].pc = "found"
      PROVE  HasBook(call'[d].symbol) /\ orderBooks[call'[d].symbol] = call'[d].ob
  <2>1. CASE d = c
    BY <1>2, <1>3, <2>1 DEF HasBook
  <2>2. CASE d # c
    BY <1>2, <1>3, <2>2 DEF DirInv, OneBookPerSymbol
  <2> QED
    BY <2>1, <2>2
<1>4. /\ content' \in [BookId -> SUBSET OrderId]
      /\ closing' \subseteq Client /\ writer' \subseteq Client /\ uncleared' \subseteq BookId
      /\ outcome' \in [Client -> {"none", "added", "duplicate", "removed", "notFound"}]
  BY DEF DirInv, TypeOK
<1> QED
  BY <1>2, <1>3, <1>4, SameBooks

\* A step that returns, maybe after changing the orders of a book.
LEMMA ReturnInv ==
  ASSUME DirInv, NEW c \in Client, NEW result \in Books!Outcome, Return(c, result),
         content' \in [BookId -> SUBSET OrderId],
         UNCHANGED <<orderBooks, made, closing, writer, uncleared>>
  PROVE  DirInv'
<1>1. /\ DOMAIN call' \subseteq Client /\ call' \in [DOMAIN call' -> CallRecord']
      /\ DOMAIN call' = DOMAIN call \ {c}
      /\ \A d \in DOMAIN call' : call'[d] = call[d]
      /\ outcome' \in [Client -> {"none", "added", "duplicate", "removed", "notFound"}]
  BY ReturnCalls DEF DirInv
<1>2. \A d \in DOMAIN call' :
        call'[d].pc = "found" =>
          HasBook(call'[d].symbol) /\ orderBooks[call'[d].symbol] = call'[d].ob
  BY <1>1 DEF DirInv, OneBookPerSymbol
<1>3. closing' \subseteq Client /\ writer' \subseteq Client /\ uncleared' \subseteq BookId
  BY DEF DirInv, TypeOK
<1> QED
  BY <1>1, <1>2, <1>3, SameBooks

\* A step of Close, which takes part in no call.
LEMMA CloseInv ==
  ASSUME DirInv, content' \in [BookId -> SUBSET OrderId],
         closing' \subseteq Client, writer' \subseteq Client, uncleared' \subseteq BookId,
         UNCHANGED <<orderBooks, made, call, outcome>>
  PROVE  DirInv'
<1>1. CallRecord' = CallRecord
  BY DEF CallRecord, BookId
<1>2. /\ DOMAIN call' \subseteq Client /\ call' \in [DOMAIN call' -> CallRecord']
      /\ outcome' \in [Client -> {"none", "added", "duplicate", "removed", "notFound"}]
  BY <1>1 DEF DirInv, TypeOK
<1>3. \A d \in DOMAIN call' :
        call'[d].pc = "found" =>
          HasBook(call'[d].symbol) /\ orderBooks[call'[d].symbol] = call'[d].ob
  BY DEF DirInv, OneBookPerSymbol
<1> QED
  BY <1>2, <1>3, SameBooks

LEMMA CallInv ==
  ASSUME DirInv, NEW c \in Client, NEW op \in {"submit", "cancel"}, NEW s \in Symbol,
         NEW i \in OrderId, Call(c, op, s, i)
  PROVE  DirInv'
<1> DEFINE new == [op |-> op, symbol |-> s, order |-> i, pc |-> "lookup", ob |-> 0]
<1>1. CallRecord' = CallRecord /\ new \in CallRecord
  BY DEF Call, CallRecord, BookId
<1>2. new.pc # "found"
  OBVIOUS
<1> HIDE DEF new
<1>3. call' = [d \in DOMAIN call \cup {c} |-> IF d = c THEN new ELSE call[d]]
  BY DEF Call, new
<1>4. DOMAIN call' \subseteq Client /\ call' \in [DOMAIN call' -> CallRecord']
  BY <1>1, <1>3 DEF DirInv, TypeOK
<1>5. \A d \in DOMAIN call' :
        call'[d].pc = "found" =>
          HasBook(call'[d].symbol) /\ orderBooks[call'[d].symbol] = call'[d].ob
  BY <1>2, <1>3 DEF DirInv, OneBookPerSymbol
<1>6. /\ content' \in [BookId -> SUBSET OrderId]
      /\ closing' \subseteq Client /\ writer' \subseteq Client /\ uncleared' \subseteq BookId
      /\ outcome' \in [Client -> {"none", "added", "duplicate", "removed", "notFound"}]
  BY DEF Call, DirInv, TypeOK
<1> QED
  BY <1>4, <1>5, <1>6, SameBooks DEF Call

-----------------------------------------------------------------------------
(* The refinement.                                                         *)

\* The orders of a symbol are those of its book.
RestingIsContent ==
  /\ \A s \in DOMAIN orderBooks : RestingOf(s) = content[orderBooks[s]]
  /\ \A s \in Symbol \ DOMAIN orderBooks : RestingOf(s) = {}

LEMMA RestingInBook == DirInv => RestingIsContent
<1> SUFFICES ASSUME DirInv PROVE RestingIsContent
  OBVIOUS
<1>1. \A s \in DOMAIN orderBooks : {d \in BookId : made[d].symbol = s} = {orderBooks[s]}
  BY DEF DirInv, TypeOK, OneBookPerSymbol, HasBook
<1>2. \A s \in Symbol \ DOMAIN orderBooks : {d \in BookId : made[d].symbol = s} = {}
  BY DEF DirInv, OneBookPerSymbol, HasBook
<1> QED
  BY <1>1, <1>2 DEF RestingOf, RestingIsContent

LEMMA RestingSame ==
  ASSUME UNCHANGED <<made, content>>
  PROVE  UNCHANGED [s \in Symbol |-> RestingOf(s)]
BY DEF RestingOf, BookId

\* A new book has no orders.
LEMMA RestingCreate ==
  ASSUME DirInv, NEW c \in Client, CreateBook(c)
  PROVE  UNCHANGED [s \in Symbol |-> RestingOf(s)]
<1>1. /\ \A b \in BookId : b \in BookId' /\ made'[b] = made[b] /\ content'[b] = content[b]
      /\ \A b \in BookId' \ BookId : content'[b] = {}
  BY CreateBookInv
<1>2. ASSUME NEW s \in Symbol
      PROVE  RestingOf(s)' = RestingOf(s)
  <2>1. RestingOf(s) = UNION {content[b] : b \in {d \in BookId : made[d].symbol = s}}
    BY DEF RestingOf
  <2>2. RestingOf(s)' = UNION {content'[b] : b \in {d \in BookId' : made'[d].symbol = s}}
    BY DEF RestingOf
  <2>3. \A x : x \in RestingOf(s)' <=> x \in RestingOf(s)
    BY <1>1, <2>1, <2>2
  <2> QED
    BY <2>3
<1> QED
  BY <1>2

\* What changes in the book of a symbol changes in its orders, and nowhere else.
LEMMA RestingChange ==
  ASSUME DirInv, NEW s \in DOMAIN orderBooks, NEW S \in SUBSET OrderId,
         content' = [content EXCEPT ![orderBooks[s]] = S],
         UNCHANGED <<orderBooks, made>>, DirInv'
  PROVE  [t \in Symbol |-> RestingOf(t)]' =
           [[t \in Symbol |-> RestingOf(t)] EXCEPT ![s] = S]
<1>1. orderBooks[s] \in BookId /\ s \in Symbol
  BY DEF DirInv, TypeOK
<1>2. \A t \in DOMAIN orderBooks \ {s} : orderBooks[t] # orderBooks[s]
  BY DEF DirInv, TypeOK
<1>3. /\ \A t \in DOMAIN orderBooks : RestingOf(t) = content[orderBooks[t]]
      /\ \A t \in Symbol \ DOMAIN orderBooks : RestingOf(t) = {}
  BY RestingInBook DEF RestingIsContent
<1>4. /\ \A t \in DOMAIN orderBooks : RestingOf(t)' = content'[orderBooks[t]]
      /\ \A t \in Symbol \ DOMAIN orderBooks : RestingOf(t)' = {}
  <2>1. RestingIsContent'
    BY RestingInBook, PTL
  <2> QED
    BY <2>1 DEF RestingIsContent
<1>5. /\ content'[orderBooks[s]] = S
      /\ \A t \in DOMAIN orderBooks \ {s} : content'[orderBooks[t]] = content[orderBooks[t]]
  BY <1>1, <1>2 DEF DirInv, TypeOK
<1>6. \A t \in Symbol : RestingOf(t)' = IF t = s THEN S ELSE RestingOf(t)
  BY <1>3, <1>4, <1>5
<1> QED
  BY <1>1, <1>6

-----------------------------------------------------------------------------
(* The theorems.                                                           *)

abstract == <<[s \in Symbol |-> RestingOf(s)], outcome>>

LEMMA DirStart == ASSUME Init PROVE Books!Init
BY DEF Init, RestingOf, BookId, Books!Init

\* Adding to the book of a symbol adds to the orders of the symbol, removing takes
\* them out: the same ids are refused.
LEMMA AddOrderStep ==
  ASSUME DirInv, NEW c \in Client, AddOrder(c)
  PROVE  DirInv' /\ Books!Next
<1> DEFINE s == call[c].symbol
           i == call[c].order
           b == call[c].ob
<1>1. /\ c \in DOMAIN call /\ call[c] \in CallRecord /\ call[c].pc = "found"
      /\ s \in DOMAIN orderBooks /\ s \in Symbol /\ orderBooks[s] = b /\ b \in BookId
      /\ i \in OrderId
  BY CallAt DEF AddOrder, DirInv, TypeOK, OneBookPerSymbol, HasBook, CallRecord
<1>2. /\ content' = [content EXCEPT ![b] = content[b] \cup {i}]
      /\ Return(c, IF i \in content[b] THEN "duplicate" ELSE "added")
      /\ content[b] \cup {i} \in SUBSET OrderId
      /\ content' \in [BookId -> SUBSET OrderId]
      /\ UNCHANGED <<orderBooks, made, closing, writer, uncleared>>
  BY <1>1 DEF AddOrder, DirInv, TypeOK
<1> HIDE DEF s, i, b
<1>3. DirInv'
  <2>1. (IF i \in content[b] THEN "duplicate" ELSE "added") \in Books!Outcome
    BY DEF Books!Outcome
  <2> QED
    BY <1>2, <2>1, ReturnInv
<1>4. [t \in Symbol |-> RestingOf(t)]' =
        [[t \in Symbol |-> RestingOf(t)] EXCEPT ![s] = content[b] \cup {i}]
  BY <1>1, <1>2, <1>3, RestingChange
<1>5. RestingOf(s) = content[b]
  BY <1>1, RestingInBook DEF RestingIsContent
<1>6. outcome' = [outcome EXCEPT ![c] = IF i \in content[b] THEN "duplicate" ELSE "added"]
  BY <1>2 DEF Return
<1>7. Books!Add(c, s, i)
  <2> DEFINE resting == [t \in Symbol |-> RestingOf(t)]
  <2>1. resting[s] = content[b]
    BY <1>1, <1>5
  <2>2. CASE i \in content[b]
    <3>1. content[b] \cup {i} = resting[s] /\ resting = [resting EXCEPT ![s] = resting[s]]
      BY <1>1, <2>1, <2>2
    <3>2. UNCHANGED resting
      BY <1>4, <3>1
    <3> QED
      BY <1>1, <1>6, <2>1, <2>2, <3>2 DEF Books!Add
  <2>3. CASE ~(i \in content[b])
    BY <1>1, <1>4, <1>6, <2>1, <2>3 DEF Books!Add
  <2> QED
    BY <2>2, <2>3
<1> QED
  BY <1>1, <1>3, <1>7 DEF Books!Next

LEMMA RemoveOrderStep ==
  ASSUME DirInv, NEW c \in Client, RemoveOrder(c)
  PROVE  DirInv' /\ Books!Next
<1> DEFINE s == call[c].symbol
           i == call[c].order
           b == call[c].ob
<1>1. /\ c \in DOMAIN call /\ call[c] \in CallRecord /\ call[c].pc = "found"
      /\ s \in DOMAIN orderBooks /\ s \in Symbol /\ orderBooks[s] = b /\ b \in BookId
      /\ i \in OrderId
  BY CallAt DEF RemoveOrder, DirInv, TypeOK, OneBookPerSymbol, HasBook, CallRecord
<1>2. /\ content' = [content EXCEPT ![b] = content[b] \ {i}]
      /\ Return(c, IF i \in content[b] THEN "removed" ELSE "notFound")
      /\ content[b] \ {i} \in SUBSET OrderId
      /\ content' \in [BookId -> SUBSET OrderId]
      /\ UNCHANGED <<orderBooks, made, closing, writer, uncleared>>
  BY <1>1 DEF RemoveOrder, DirInv, TypeOK
<1> HIDE DEF s, i, b
<1>3. DirInv'
  <2>1. (IF i \in content[b] THEN "removed" ELSE "notFound") \in Books!Outcome
    BY DEF Books!Outcome
  <2> QED
    BY <1>2, <2>1, ReturnInv
<1>4. [t \in Symbol |-> RestingOf(t)]' =
        [[t \in Symbol |-> RestingOf(t)] EXCEPT ![s] = content[b] \ {i}]
  BY <1>1, <1>2, <1>3, RestingChange
<1>5. RestingOf(s) = content[b]
  BY <1>1, RestingInBook DEF RestingIsContent
<1>6. outcome' = [outcome EXCEPT ![c] = IF i \in content[b] THEN "removed" ELSE "notFound"]
  BY <1>2 DEF Return
<1>7. Books!Remove(c, s, i)
  <2> DEFINE resting == [t \in Symbol |-> RestingOf(t)]
  <2>1. resting[s] = content[b]
    BY <1>1, <1>5
  <2>2. CASE i \notin content[b]
    <3>1. content[b] \ {i} = resting[s] /\ resting = [resting EXCEPT ![s] = resting[s]]
      BY <1>1, <2>1, <2>2
    <3>2. UNCHANGED resting
      BY <1>4, <3>1
    <3> QED
      BY <1>1, <1>6, <2>1, <2>2, <3>2 DEF Books!Remove
  <2>3. CASE ~(i \notin content[b])
    BY <1>1, <1>4, <1>6, <2>1, <2>3 DEF Books!Remove
  <2> QED
    BY <2>2, <2>3
<1> QED
  BY <1>1, <1>3, <1>7 DEF Books!Next

\* A removal that finds no book finds no order.
LEMMA NoBookStep ==
  ASSUME DirInv, NEW c \in Client, NoBook(c)
  PROVE  DirInv' /\ Books!Next
<1> DEFINE s == call[c].symbol
           i == call[c].order
<1>1. s \in Symbol /\ i \in OrderId /\ s \notin DOMAIN orderBooks
  BY CallAt DEF NoBook, HasBook, DirInv, CallRecord
<1>2. Return(c, "notFound") /\ UNCHANGED <<orderBooks, made, content, closing, writer, uncleared>>
  BY DEF NoBook
<1> HIDE DEF s, i
<1>3. DirInv'
  <2>1. "notFound" \in Books!Outcome /\ content' \in [BookId -> SUBSET OrderId]
    BY <1>2 DEF Books!Outcome, DirInv, TypeOK
  <2> QED
    BY <1>2, <2>1, ReturnInv
<1>4. RestingOf(s) = {}
  BY <1>1, RestingInBook DEF RestingIsContent
<1>5. UNCHANGED [t \in Symbol |-> RestingOf(t)]
  BY <1>2, RestingSame
<1>6. Books!Remove(c, s, i)
  BY <1>1, <1>2, <1>4, <1>5 DEF Books!Remove, Return
<1> QED
  BY <1>1, <1>3, <1>6 DEF Books!Next

LEMMA ClearBookStep ==
  ASSUME DirInv, NEW b \in BookId, ClearBook(b)
  PROVE  DirInv' /\ Books!Next
<1> DEFINE s == made[b].symbol
<1>1. s \in DOMAIN orderBooks /\ s \in Symbol /\ orderBooks[s] = b
  BY DEF DirInv, TypeOK, OneBookPerSymbol, HasBook
<1> HIDE DEF s
<1>2. /\ content' = [content EXCEPT ![b] = {}]
      /\ content' \in [BookId -> SUBSET OrderId]
      /\ closing' \subseteq Client /\ writer' \subseteq Client /\ uncleared' \subseteq BookId
      /\ UNCHANGED <<orderBooks, made, call, outcome>>
  BY DEF ClearBook, DirInv, TypeOK
<1>3. DirInv'
  BY <1>2, CloseInv
<1>4. [t \in Symbol |-> RestingOf(t)]' = [[t \in Symbol |-> RestingOf(t)] EXCEPT ![s] = {}]
  BY <1>1, <1>2, <1>3, RestingChange
<1>5. Books!Clear(s)
  BY <1>2, <1>4 DEF Books!Clear
<1> QED
  BY <1>1, <1>3, <1>5 DEF Books!Next

\* One step per action: what it does to the books, and what callers see of it.
LEMMA DirStep ==
  ASSUME DirInv, [Next]_vars
  PROVE  DirInv' /\ [Books!Next]_abstract
<1>1. ASSUME NEW c \in Client, NEW op \in {"submit", "cancel"}, NEW s \in Symbol,
             NEW i \in OrderId, Call(c, op, s, i)
      PROVE  DirInv' /\ Books!Next
  <2>1. DirInv'
    BY <1>1, CallInv
  <2>2. UNCHANGED [t \in Symbol |-> RestingOf(t)]
    BY <1>1, RestingSame DEF Call
  <2>3. Books!Call(c)
    BY <1>1, <2>2 DEF Call, Books!Call
  <2> QED
    BY <2>1, <2>3 DEF Books!Next
<1>2. ASSUME NEW c \in Client, Lookup(c) \/ Missing(c) \/ FindBook(c)
      PROVE  DirInv' /\ UNCHANGED abstract
  <2>1. \E pc \in {"create", "found"} : \E b :
          /\ c \in DOMAIN call /\ GoOn(c, pc, b)
          /\ pc = "create" => b = 0
          /\ pc = "found" =>
               call[c].symbol \in DOMAIN orderBooks /\ b = orderBooks[call[c].symbol]
    BY <1>2 DEF Lookup, Missing, FindBook, At, HasBook, MustCreate
  <2>2. UNCHANGED <<orderBooks, made, content, closing, writer, uncleared, outcome>>
    BY <1>2 DEF Lookup, Missing, FindBook
  <2> QED
    BY <2>1, <2>2, GoOnInv, RestingSame DEF abstract
<1>3. ASSUME NEW c \in Client, NoBook(c)
      PROVE  DirInv' /\ Books!Next
  BY <1>3, NoBookStep
<1>4. ASSUME NEW c \in Client, CreateBook(c)
      PROVE  DirInv' /\ UNCHANGED abstract
  BY <1>4, CreateBookInv, RestingCreate DEF CreateBook, abstract
<1>5. ASSUME NEW c \in Client, AddOrder(c)
      PROVE  DirInv' /\ Books!Next
  BY <1>5, AddOrderStep
<1>6. ASSUME NEW c \in Client, RemoveOrder(c)
      PROVE  DirInv' /\ Books!Next
  BY <1>6, RemoveOrderStep
<1>7. ASSUME NEW c \in Client, AskClose(c) \/ Close(c) \/ EndClose(c)
      PROVE  DirInv' /\ UNCHANGED abstract
  <2>1. /\ content' \in [BookId -> SUBSET OrderId]
        /\ closing' \subseteq Client /\ writer' \subseteq Client /\ uncleared' \subseteq BookId
        /\ UNCHANGED <<orderBooks, made, content, call, outcome>>
    BY <1>7 DEF AskClose, Close, EndClose, DirInv, TypeOK
  <2> QED
    BY <2>1, CloseInv, RestingSame DEF abstract
<1>8. ASSUME NEW b \in BookId, ClearBook(b)
      PROVE  DirInv' /\ Books!Next
  BY <1>8, ClearBookStep
<1>9. CASE UNCHANGED vars
  <2>1. /\ content' \in [BookId -> SUBSET OrderId]
        /\ closing' \subseteq Client /\ writer' \subseteq Client /\ uncleared' \subseteq BookId
        /\ UNCHANGED <<orderBooks, made, content, call, outcome>>
    BY <1>9 DEF vars, DirInv, TypeOK
  <2> QED
    BY <2>1, CloseInv, RestingSame DEF abstract
<1> QED
  BY <1>1, <1>2, <1>3, <1>4, <1>5, <1>6, <1>7, <1>8, <1>9 DEF Next

\* However calls and Close interleave, the map and the books are well-formed, a call
\* that has a book has the one its symbol keeps, and no two books share a symbolID.
THEOREM DirectoryInvariant == Spec => []DirInv
<1>1. Init => DirInv
  BY StartInv
<1>2. DirInv /\ [Next]_vars => DirInv'
  BY DirStep
<1> QED
  BY <1>1, <1>2, PTL DEF Spec

\* In particular the map has a book for each of its symbols, made for that symbol.
THEOREM DirectoryTypes == Spec => []TypeOK
BY DirectoryInvariant, PTL DEF DirInv

\* Every call of a symbol works on the same book, however many calls missed it.
THEOREM OneBook == Spec => []OneBookPerSymbol
BY DirectoryInvariant, PTL DEF DirInv

\* A symbolID is the size of a map, and still nobody else's.
THEOREM SymbolIDsDiffer == Spec => []SymbolIDsDistinct
<1>1. DirInv => SymbolIDsDistinct
  BY DEF DirInv, NumberedInOrder, SymbolIDsDistinct
<1> QED
  BY <1>1, DirectoryInvariant, PTL

\* Callers cannot tell the map from books that were there from the start.
THEOREM DirectoryImplementsBooks == Spec => ImplementsSymbolBooks
<1>1. Init => Books!Init
  BY DirStart
<1>2. DirInv /\ [Next]_vars => [Books!Next]_abstract
  BY DirStep
<1> QED
  BY <1>1, <1>2, DirectoryInvariant, PTL
     DEF Spec, ImplementsSymbolBooks, Books!Spec, abstract
=============================================================================
