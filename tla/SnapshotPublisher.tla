------------------------- MODULE SnapshotPublisher -------------------------
(***************************************************************************)
(* How a broker's snapshot reaches its subscribers: GetSnapshot and        *)
(* Subscribe of broker_orderbook.go, BuildAndPublish of snapshot.go,       *)
(* publisher.go.  All of it runs in one goroutine, but OnSnapshot of a     *)
(* subscriber is the caller's code: it may subscribe others, update the    *)
(* book, and ask for another snapshot, which is published within the       *)
(* publication of the first.                                               *)
(*                                                                         *)
(* The book is the number of its updates, a subscriber the number of its   *)
(* subscription; one that subscribes twice has two.                        *)
(***************************************************************************)
EXTENDS Integers, SequencesExt

CONSTANTS
  MaxUpdates,      \* bound on the updates of the book
  MaxSubscribers,  \* bound on the subscriptions
  MaxSnapshots,    \* bound on the snapshots asked for
  MaxNested        \* bound on the publications in progress

VARIABLES
  version,         \* the updates of the book
  subscribers,     \* the number of subscriptions, len(p.subscribers)
  begun,           \* for each snapshot built: the subscriptions there were
  stack,           \* the publications in progress, the innermost last
  received,        \* what each subscriber was called with, in order
  returned,        \* the snapshots GetSnapshot returned without an error
  snapshotCount    \* metrics.snapshotCount

vars == <<version, subscribers, begun, stack, received, returned, snapshotCount>>

Init ==
  /\ version = 0 /\ subscribers = 0
  /\ begun = <<>> /\ stack = <<>> /\ received = <<>>
  /\ returned = {} /\ snapshotCount = 0

\* Callers' code runs: between calls, or in a subscriber's OnSnapshot.
CallerRuns == stack # <<>> => Last(stack).calling

\* A handler of the book succeeds.
Update ==
  /\ CallerRuns /\ version < MaxUpdates
  /\ version' = version + 1
  /\ UNCHANGED <<subscribers, begun, stack, received, returned, snapshotCount>>

Subscribe ==
  /\ CallerRuns /\ subscribers < MaxSubscribers
  /\ subscribers' = subscribers + 1
  /\ received' = Append(received, <<>>)
  /\ UNCHANGED <<version, begun, stack, returned, snapshotCount>>

\* A negative topN is refused before anything is published or counted.
RefuseTopN(topN) ==
  /\ CallerRuns /\ topN < 0
  /\ UNCHANGED vars

\* GetSnapshot builds the snapshot; the loop of Publish ranges over the
\* subscribers there are now.
GetSnapshot(topN) ==
  /\ CallerRuns /\ topN >= 0
  /\ Len(begun) < MaxSnapshots /\ Len(stack) < MaxNested
  /\ begun' = Append(begun, subscribers)
  /\ stack' = Append(stack, [number |-> Len(begun) + 1, version |-> version,
                             size |-> subscribers, next |-> 1, calling |-> FALSE])
  /\ UNCHANGED <<version, subscribers, received, returned, snapshotCount>>

Top == Last(stack)

Publishing == stack # <<>> /\ ~Top.calling

\* All subscribers are given the same snapshot.
Delivered(frame) == [number |-> frame.number, version |-> frame.version]

\* Faulty: the subscribers are called last to first.
PositionReversed(frame) == frame.size + 1 - frame.next

\* The subscriber the loop is at.
Position(frame) == frame.next

\* Faulty: the loop also goes over those who subscribed since it began.
CallSubscriberLive ==
  /\ Publishing /\ Top.next <= subscribers
  /\ received' = [received EXCEPT ![Position(Top)] = Append(@, Delivered(Top))]
  /\ stack' = [stack EXCEPT ![Len(stack)].calling = TRUE]
  /\ UNCHANGED <<version, subscribers, begun, returned, snapshotCount>>

\* The loop calls OnSnapshot of the next subscriber.
CallSubscriber ==
  /\ Publishing /\ Top.next <= Top.size
  /\ received' = [received EXCEPT ![Position(Top)] = Append(@, Delivered(Top))]
  /\ stack' = [stack EXCEPT ![Len(stack)].calling = TRUE]
  /\ UNCHANGED <<version, subscribers, begun, returned, snapshotCount>>

\* It returns no error, and the loop goes on.
SubscriberAccepts ==
  /\ stack # <<>> /\ Top.calling
  /\ stack' = [stack EXCEPT ![Len(stack)].calling = FALSE, ![Len(stack)].next = @ + 1]
  /\ UNCHANGED <<version, subscribers, begun, received, returned, snapshotCount>>

\* Faulty: the error ends the loop but not the publication.
SubscriberFailsQuietly ==
  /\ stack # <<>> /\ Top.calling
  /\ stack' = [stack EXCEPT ![Len(stack)].calling = FALSE, ![Len(stack)].next = Top.size + 1]
  /\ UNCHANGED <<version, subscribers, begun, received, returned, snapshotCount>>

\* It returns an error, which Publish and GetSnapshot return: those after it are
\* not called and nothing is counted.
SubscriberFails ==
  /\ stack # <<>> /\ Top.calling
  /\ stack' = Front(stack)
  /\ UNCHANGED <<version, subscribers, begun, received, returned, snapshotCount>>

\* The loop is over: RecordSnapshot counts it, GetSnapshot returns it.
Finish ==
  /\ Publishing /\ Top.next > Top.size
  /\ stack' = Front(stack)
  /\ snapshotCount' = snapshotCount + 1
  /\ returned' = returned \cup {Top.number}
  /\ UNCHANGED <<version, subscribers, begun, received>>

Next ==
  \/ Update \/ Subscribe
  \/ \E topN \in {-1, 5} : GetSnapshot(topN) \/ RefuseTopN(topN)
  \/ CallSubscriber \/ SubscriberAccepts \/ SubscriberFails \/ Finish

Spec == Init /\ [][Next]_vars

-----------------------------------------------------------------------------
(* Properties.                                                             *)

\* The snapshots subscriber j was called with, and how often with snapshot n.
NumbersOf(j) == {received[j][k].number : k \in DOMAIN received[j]}
Times(j, n) == Cardinality({k \in DOMAIN received[j] : received[j][k].number = n})

\* The values of the variables; at most one publication is not in a callback, the
\* innermost, and publications were begun in the order of the stack.
TypeOK ==
  /\ version \in Nat /\ snapshotCount \in Nat
  /\ subscribers = Len(received) /\ returned \subseteq DOMAIN begun
  /\ \A k \in DOMAIN stack :
       /\ stack[k].number \in DOMAIN begun /\ stack[k].size = begun[stack[k].number]
       /\ stack[k].next \in 1..(stack[k].size + 1) /\ stack[k].version <= version
       /\ k < Len(stack) => stack[k].calling /\ stack[k].number < stack[k + 1].number

\* A caller to whom GetSnapshot returned a snapshot knows that every subscriber
\* there was when it asked has been called with it exactly once, and the count is
\* that of those calls: whoever subscribed, failed or asked for snapshots of their
\* own in between (Publish, RecordSnapshot).
ReturnedReachedAll ==
  /\ snapshotCount = Cardinality(returned)
  /\ \A n \in returned : \A j \in 1..begun[n] : Times(j, n) = 1

\* Nobody is called with a snapshot that was asked for before he subscribed, and
\* those who subscribed before him have been called with it: an error keeps it from
\* later subscribers only.
EarlierSeeMore ==
  \A j \in 1..subscribers :
    /\ \A n \in NumbersOf(j) : j <= begun[n]
    /\ \A i \in 1..(j - 1) : NumbersOf(j) \subseteq NumbersOf(i)

\* A subscriber meets an older book after a newer one only when the newer was asked
\* for within the publication of the older: by a subscriber before him.  In
\* particular the first subscriber never does.
NewerFirstWhenNested ==
  \A j \in 1..subscribers : \A k \in DOMAIN received[j] : \A m \in 1..(k - 1) :
    received[j][m].version > received[j][k].version =>
      /\ received[j][m].number > received[j][k].number
      /\ j > 1
=============================================================================
