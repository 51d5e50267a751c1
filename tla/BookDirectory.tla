--------------------------- MODULE BookDirectory ---------------------------
(***************************************************************************)
(* The map of books of matching_engine.go and how calls reach a book:      *)
(* getOrCreateOrderBook with its double check, the lookups, and Close,     *)
(* which clears book after book.  What MatchingEngine takes for granted,   *)
(* that a symbol is a book, is shown here.                                 *)
(*                                                                         *)
(* A book is an object: it is made once, and a call that has looked it up  *)
(* keeps working on it without e.mu.  Every access to the map holds e.mu;  *)
(* only Close waits for it as a step of its own and holds it for longer    *)
(* than a step.                                                            *)
(***************************************************************************)
EXTENDS Integers, FiniteSets

CONSTANTS
  Client,      \* the goroutines
  Symbol,      \* the symbols of orders
  OrderId      \* the ids of orders

VARIABLES
  orderBooks,  \* the map: the book of each symbol that has one
  made,        \* every book made by NewOrderBook: its symbol and symbolID
  content,     \* the orders in each book made
  closing,     \* the clients in Close that wait for e.mu
  writer,      \* the client in Close, which holds e.mu: none or one
  uncleared,   \* the books Close has still to clear
  call,        \* the call of each client that is in one
  outcome      \* how the last call of each client ended

vars == <<orderBooks, made, content, closing, writer, uncleared, call, outcome>>

\* The books, in the order they were made.
BookId == DOMAIN made

Init ==
  /\ orderBooks = [s \in {} |-> 0]
  /\ made = [b \in {} |-> 0] /\ content = [b \in {} |-> {}]
  /\ closing = {} /\ writer = {} /\ uncleared = {}
  /\ call = [c \in {} |-> 0]
  /\ outcome = [c \in Client |-> "none"]

HasBook(s) == s \in DOMAIN orderBooks

\* The call of c goes on at pc with book b; it ends with a result.
GoOn(c, pc, b) == call' = [call EXCEPT ![c].pc = pc, ![c].ob = b]

Return(c, result) ==
  /\ call' = [d \in DOMAIN call \ {c} |-> call[d]]
  /\ outcome' = [outcome EXCEPT ![c] = result]

\* A client that is in no call and not in Close.
Idle(c) == c \notin DOMAIN call \cup closing \cup writer

\* A client calls SubmitOrder or CancelOrder for order i of symbol s.
Call(c, op, s, i) ==
  /\ Idle(c)
  /\ call' = [d \in DOMAIN call \cup {c} |->
                IF d = c THEN [op |-> op, symbol |-> s, order |-> i, pc |-> "lookup", ob |-> 0]
                ELSE call[d]]
  /\ outcome' = [outcome EXCEPT ![c] = "none"]
  /\ UNCHANGED <<orderBooks, made, content, closing, writer, uncleared>>

At(c, pc) == c \in DOMAIN call /\ call[c].pc = pc

\* The lookup under the read lock: the book is there.
Lookup(c) ==
  /\ At(c, "lookup") /\ writer = {}
  /\ HasBook(call[c].symbol)
  /\ GoOn(c, "found", orderBooks[call[c].symbol])
  /\ UNCHANGED <<orderBooks, made, content, closing, writer, uncleared, outcome>>

\* SubmitOrder finds none and lets go of the lock.
Missing(c) ==
  /\ At(c, "lookup") /\ writer = {}
  /\ ~HasBook(call[c].symbol) /\ call[c].op = "submit"
  /\ GoOn(c, "create", 0)
  /\ UNCHANGED <<orderBooks, made, content, closing, writer, uncleared, outcome>>

\* CancelOrder finds none and returns an error.
NoBook(c) ==
  /\ At(c, "lookup") /\ writer = {}
  /\ ~HasBook(call[c].symbol) /\ call[c].op = "cancel"
  /\ Return(c, "notFound")
  /\ UNCHANGED <<orderBooks, made, content, closing, writer, uncleared>>

\* Faulty: a call that found no book makes one.
MustCreateAlways(s) == TRUE

\* The double check, under the write lock.
MustCreate(s) == ~HasBook(s)

\* Faulty: symbol ids begin at 0.
NextSymbolIDFromZero == Cardinality(DOMAIN orderBooks)

\* The size of the map when the book is made, plus one.
NextSymbolID == Cardinality(DOMAIN orderBooks) + 1

\* A new book under the write lock.
CreateBook(c) ==
  LET s == call[c].symbol
      b == Cardinality(BookId) + 1
  IN /\ At(c, "create") /\ writer = {}
     /\ MustCreate(s)
     /\ orderBooks' = [t \in DOMAIN orderBooks \cup {s} |-> IF t = s THEN b ELSE orderBooks[t]]
     /\ made' = [d \in BookId \cup {b} |->
                   IF d = b THEN [symbol |-> s, symbolID |-> NextSymbolID] ELSE made[d]]
     /\ content' = [d \in BookId \cup {b} |-> IF d = b THEN {} ELSE content[d]]
     /\ GoOn(c, "found", b)
     /\ UNCHANGED <<closing, writer, uncleared, outcome>>

\* Another call has made the book since.
FindBook(c) ==
  LET s == call[c].symbol
  IN /\ At(c, "create") /\ writer = {}
     /\ ~MustCreate(s)
     /\ GoOn(c, "found", orderBooks[s])
     /\ UNCHANGED <<orderBooks, made, content, closing, writer, uncleared, outcome>>

\* ob.AddOrder, at the end of SubmitOrder, under ob.mu.
AddOrder(c) ==
  LET b == call[c].ob  i == call[c].order
  IN /\ At(c, "found") /\ call[c].op = "submit"
     /\ content' = [content EXCEPT ![b] = @ \cup {i}]
     /\ Return(c, IF i \in content[b] THEN "duplicate" ELSE "added")
     /\ UNCHANGED <<orderBooks, made, closing, writer, uncleared>>

\* ob.RemoveOrder, in CancelOrder, under ob.mu.
RemoveOrder(c) ==
  LET b == call[c].ob  i == call[c].order
  IN /\ At(c, "found") /\ call[c].op = "cancel"
     /\ content' = [content EXCEPT ![b] = @ \ {i}]
     /\ Return(c, IF i \in content[b] THEN "removed" ELSE "notFound")
     /\ UNCHANGED <<orderBooks, made, closing, writer, uncleared>>

\* A client calls Close, which waits for e.mu.
AskClose(c) ==
  /\ Idle(c)
  /\ closing' = closing \cup {c}
  /\ UNCHANGED <<orderBooks, made, content, writer, uncleared, call, outcome>>

\* Faulty: Close also empties the map.
CloseForgetting(c) ==
  /\ c \in closing /\ writer = {}
  /\ closing' = closing \ {c} /\ writer' = {c}
  /\ uncleared' = {orderBooks[s] : s \in DOMAIN orderBooks}
  /\ orderBooks' = [s \in {} |-> 0]
  /\ UNCHANGED <<made, content, call, outcome>>

\* Close takes e.mu and ranges over the map, which keeps its books.
Close(c) ==
  /\ c \in closing /\ writer = {}
  /\ closing' = closing \ {c} /\ writer' = {c}
  /\ uncleared' = {orderBooks[s] : s \in DOMAIN orderBooks}
  /\ UNCHANGED <<orderBooks, made, content, call, outcome>>

\* ob.Clear of one of the books, under its ob.mu.
ClearBook(b) ==
  /\ b \in uncleared
  /\ content' = [content EXCEPT ![b] = {}]
  /\ uncleared' = uncleared \ {b}
  /\ UNCHANGED <<orderBooks, made, closing, writer, call, outcome>>

\* Faulty: Close returns without unlocking e.mu.
EndCloseLocked(c) ==
  /\ c \in writer /\ uncleared = {}
  /\ UNCHANGED vars

EndClose(c) ==
  /\ c \in writer /\ uncleared = {}
  /\ writer' = {}
  /\ UNCHANGED <<orderBooks, made, content, closing, uncleared, call, outcome>>

Next ==
  \/ \E c \in Client :
       \/ \E op \in {"submit", "cancel"}, s \in Symbol, i \in OrderId : Call(c, op, s, i)
       \/ Lookup(c) \/ Missing(c) \/ NoBook(c)
       \/ CreateBook(c) \/ FindBook(c)
       \/ AddOrder(c) \/ RemoveOrder(c)
       \/ AskClose(c) \/ Close(c) \/ EndClose(c)
  \/ \E b \in BookId : ClearBook(b)

Spec == Init /\ [][Next]_vars

\* A goroutine that is in a call is scheduled.  Before it has its book, and before
\* Close clears the books, it waits for e.mu, which clients may take for Close again
\* and again: a sync.RWMutex lets the readers that wait go first when it is unlocked,
\* and hands itself over to a writer that has waited for long.
UnlockedSteps(c) == AddOrder(c) \/ RemoveOrder(c) \/ EndClose(c)

LockingSteps(c) ==
  Lookup(c) \/ Missing(c) \/ NoBook(c) \/ CreateBook(c) \/ FindBook(c) \/ Close(c)

FairSpec ==
  /\ Spec
  /\ WF_vars(\E b \in BookId : ClearBook(b))
  /\ \A c \in Client : WF_vars(UnlockedSteps(c)) /\ SF_vars(LockingSteps(c))

-----------------------------------------------------------------------------
(* Properties.                                                             *)

CallRecord ==
  [op : {"submit", "cancel"}, symbol : Symbol, order : OrderId,
   pc : {"lookup", "create", "found"}, ob : BookId \cup {0}]

\* The values of the variables; a book in the map was made for its symbol.
TypeOK ==
  /\ BookId = 1..Cardinality(BookId) /\ IsFiniteSet(BookId)
  /\ made \in [BookId -> [symbol : Symbol, symbolID : Nat \ {0}]]
  /\ content \in [BookId -> SUBSET OrderId]
  /\ DOMAIN orderBooks \subseteq Symbol /\ IsFiniteSet(DOMAIN orderBooks)
  /\ orderBooks \in [DOMAIN orderBooks -> BookId]
  /\ \A s \in DOMAIN orderBooks : made[orderBooks[s]].symbol = s
  /\ closing \subseteq Client /\ writer \subseteq Client /\ uncleared \subseteq BookId
  /\ DOMAIN call \subseteq Client /\ call \in [DOMAIN call -> CallRecord]
  /\ outcome \in [Client -> {"none", "added", "duplicate", "removed", "notFound"}]

\* The book a call works on is the one every other call of its symbol will find,
\* however many calls missed it at first (getOrCreateOrderBook).
OneBookPerSymbol ==
  /\ \A c \in DOMAIN call :
       call[c].pc = "found" =>
         /\ HasBook(call[c].symbol)
         /\ orderBooks[call[c].symbol] = call[c].ob
  /\ \A b \in BookId : HasBook(made[b].symbol) /\ orderBooks[made[b].symbol] = b

\* No two books have a symbolID in common, though it is the size of a map.
SymbolIDsDistinct ==
  \A a, b \in BookId : made[a].symbolID = made[b].symbolID => a = b

\* The orders of a symbol, in whichever books.
RestingOf(s) == UNION {content[b] : b \in {d \in BookId : made[d].symbol = s}}

Books == INSTANCE SymbolBooks WITH resting <- [s \in Symbol |-> RestingOf(s)]

\* Calls cannot tell the map from one book per symbol that is there from the start:
\* what was added can be removed, until it is cleared.
ImplementsSymbolBooks == Books!Spec

\* Every call and every Close ends: neither a call that has missed its book nor a
\* Close waits for ever for the write lock, whoever closes the engine meanwhile.
CallsEnd == \A c \in Client : ~Idle(c) ~> Idle(c)
=============================================================================
