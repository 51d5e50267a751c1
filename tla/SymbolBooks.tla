---------------------------- MODULE SymbolBooks ----------------------------
(***************************************************************************)
(* What the engine's map of books promises its concurrent callers: every   *)
(* symbol has one book from the start, an order added to it can be removed *)
(* until the book is cleared, and a removal that finds nothing says so.    *)
(* BookDirectory, which makes the books when they are first asked for,     *)
(* implements this.                                                        *)
(***************************************************************************)
CONSTANTS
  Client, Symbol, OrderId

VARIABLES
  resting,      \* the orders of each symbol
  outcome       \* how the last call of each client ended

Outcome == {"none", "added", "duplicate", "removed", "notFound"}

Init ==
  /\ resting = [s \in Symbol |-> {}]
  /\ outcome = [c \in Client |-> "none"]

Add(c, s, i) ==
  \/ /\ i \notin resting[s]
     /\ resting' = [resting EXCEPT ![s] = @ \cup {i}]
     /\ outcome' = [outcome EXCEPT ![c] = "added"]
  \/ /\ i \in resting[s]
     /\ outcome' = [outcome EXCEPT ![c] = "duplicate"]
     /\ UNCHANGED resting

Remove(c, s, i) ==
  \/ /\ i \in resting[s]
     /\ resting' = [resting EXCEPT ![s] = @ \ {i}]
     /\ outcome' = [outcome EXCEPT ![c] = "removed"]
  \/ /\ i \notin resting[s]
     /\ outcome' = [outcome EXCEPT ![c] = "notFound"]
     /\ UNCHANGED resting

Clear(s) ==
  /\ resting' = [resting EXCEPT ![s] = {}]
  /\ UNCHANGED outcome

\* A client is called again.
Call(c) ==
  /\ outcome' = [outcome EXCEPT ![c] = "none"]
  /\ UNCHANGED resting

Next ==
  \/ \E c \in Client : \/ Call(c)
                       \/ \E s \in Symbol, i \in OrderId : Add(c, s, i) \/ Remove(c, s, i)
  \/ \E s \in Symbol : Clear(s)

Spec == Init /\ [][Next]_<<resting, outcome>>
=============================================================================
