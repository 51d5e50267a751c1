---------------------- MODULE SnapshotPublisherProofs ----------------------
(***************************************************************************)
(* Proofs about the publication of snapshots, for any number of            *)
(* subscribers, snapshots and publications in progress, whatever the       *)
(* subscribers do when they are called (SnapshotPublisher).                *)
(***************************************************************************)
EXTENDS SnapshotPublisher, SequenceTheorems, FiniteSetTheorems, TLAPS

Snap == [number : Nat, version : Nat]
Frame == [number : Nat, version : Nat, size : Nat, next : Nat, calling : BOOLEAN]

\* The subscribers a publication in progress has called.
Passed(frame) == IF frame.calling THEN frame.next ELSE frame.next - 1

\* The snapshots that are published or were received.
Known ==
  {Delivered(stack[k]) : k \in DOMAIN stack}
  \cup UNION {{received[j][k] : k \in DOMAIN received[j]} : j \in DOMAIN received}

Shapes ==
  /\ version \in Nat /\ snapshotCount \in Nat
  /\ begun \in Seq(Nat) /\ stack \in Seq(Frame) /\ received \in Seq(Seq(Snap))
  /\ subscribers = Len(received)
  /\ \A n \in DOMAIN begun : begun[n] <= subscribers

\* The publications in progress were begun in the order of the stack, each is at a
\* subscriber of its own, and all but the innermost wait for one.  A publication that
\* has not called anybody is of the latest snapshot.
Nested ==
  /\ \A k \in DOMAIN stack :
       /\ stack[k].number \in DOMAIN begun /\ stack[k].size = begun[stack[k].number]
       /\ stack[k].next \in 1..(stack[k].size + 1)
       /\ stack[k].calling => stack[k].next <= stack[k].size
       /\ \A m \in DOMAIN stack : k < m => stack[k].calling /\ stack[k].number < stack[m].number
  /\ Publishing /\ Top.next = 1 => Top.number = Len(begun)

\* A later snapshot is not of an older book.
VersionsOrdered ==
  /\ \A a \in Known : a.number \in DOMAIN begun /\ a.version <= version
  /\ \A a, b \in Known : a.number <= b.number => a.version <= b.version

\* No snapshot is received twice.
ReceivedOnce ==
  \A j \in DOMAIN received : \A k, m \in DOMAIN received[j] :
    received[j][k].number = received[j][m].number => k = m

\* A publication in progress has reached the subscribers it has passed.
PassedReached ==
  \A k \in DOMAIN stack : \A j \in DOMAIN received :
    stack[k].number \in NumbersOf(j) <=> j <= Passed(stack[k])

\* A snapshot that was returned is published, has reached all, and is counted.
ReturnedReached ==
  /\ returned \subseteq DOMAIN begun
  /\ \A n \in returned : /\ \A j \in 1..begun[n] : n \in NumbersOf(j)
                         /\ \A k \in DOMAIN stack : stack[k].number # n
  /\ IsFiniteSet(returned) /\ snapshotCount = Cardinality(returned)

\* The first subscriber receives the snapshots in the order they were asked for.
FirstInOrder ==
  subscribers > 0 =>
    \A k, m \in DOMAIN received[1] : m < k => received[1][m].number < received[1][k].number

PubInv ==
  /\ Shapes /\ Nested /\ VersionsOrdered /\ ReceivedOnce /\ PassedReached
  /\ ReturnedReached /\ EarlierSeeMore /\ FirstInOrder

-----------------------------------------------------------------------------
(* The stack and what was received, as functions.                          *)

LEMMA Appended ==
  ASSUME NEW S, NEW s \in Seq(S), NEW e \in S
  PROVE  /\ Append(s, e) \in Seq(S) /\ Len(s) \in Nat /\ Len(Append(s, e)) = Len(s) + 1
         /\ DOMAIN Append(s, e) = DOMAIN s \cup {Len(s) + 1} /\ Len(s) + 1 \notin DOMAIN s
         /\ DOMAIN s = 1..Len(s)
         /\ \A i \in DOMAIN s : Append(s, e)[i] = s[i]
         /\ Append(s, e)[Len(s) + 1] = e
<1>1. /\ Append(s, e) \in Seq(S) /\ Len(Append(s, e)) = Len(s) + 1
      /\ \A i \in 1..Len(s) : Append(s, e)[i] = s[i]
      /\ Append(s, e)[Len(s) + 1] = e
  BY AppendProperties
<1>2. Len(s) \in Nat /\ DOMAIN s = 1..Len(s)
  BY LenProperties
<1>3. DOMAIN Append(s, e) = 1..(Len(s) + 1)
  BY <1>1, LenProperties
<1>4. 1..(Len(s) + 1) = 1..Len(s) \cup {Len(s) + 1} /\ Len(s) + 1 \notin 1..Len(s)
  BY <1>2
<1> QED
  BY <1>1, <1>2, <1>3, <1>4

LEMMA Domains ==
  ASSUME Shapes
  PROVE  /\ Len(begun) \in Nat /\ DOMAIN begun = 1..Len(begun)
         /\ \A n \in DOMAIN begun : begun[n] \in Nat
         /\ Len(stack) \in Nat /\ DOMAIN stack = 1..Len(stack)
         /\ stack \in [1..Len(stack) -> Frame]
         /\ \A k \in DOMAIN stack : stack[k] \in Frame
         /\ subscribers \in Nat /\ DOMAIN received = 1..subscribers
         /\ received \in [1..subscribers -> Seq(Snap)]
         /\ \A j \in DOMAIN received :
              /\ Len(received[j]) \in Nat /\ DOMAIN received[j] = 1..Len(received[j])
              /\ received[j] \in Seq(Snap)
              /\ \A k \in DOMAIN received[j] : received[j][k] \in Snap
<1>1. begun \in [1..Len(begun) -> Nat] /\ Len(begun) \in Nat
  BY LenProperties DEF Shapes
<1>2. stack \in [1..Len(stack) -> Frame] /\ Len(stack) \in Nat
  BY LenProperties DEF Shapes
<1>3. received \in [1..Len(received) -> Seq(Snap)] /\ Len(received) \in Nat
  BY LenProperties DEF Shapes
<1>4. \A s \in Seq(Snap) : /\ Len(s) \in Nat /\ DOMAIN s = 1..Len(s)
                           /\ \A k \in DOMAIN s : s[k] \in Snap
  BY LenProperties, ElementOfSeq
<1>5. subscribers = Len(received)
  BY DEF Shapes
<1> HIDE DEF Snap
<1> QED
  BY <1>1, <1>2, <1>3, <1>4, <1>5

LEMMA TopOfStack ==
  ASSUME Shapes, stack # <<>>
  PROVE  /\ Len(stack) \in DOMAIN stack /\ Top = stack[Len(stack)] /\ Top \in Frame
<1>1. Len(stack) \in Nat \ {0}
  BY EmptySeq DEF Shapes
<1> QED
  BY <1>1, Domains DEF Top, Last

\* A publication ends.
LEMMA Popped ==
  ASSUME Shapes, stack # <<>>, stack' = Front(stack)
  PROVE  /\ stack' \in Seq(Frame) /\ Len(stack') = Len(stack) - 1
         /\ DOMAIN stack' = 1..(Len(stack) - 1)
         /\ \A k \in DOMAIN stack' : stack'[k] = stack[k]
<1>1. Len(stack) \in Nat \ {0} /\ \A i \in 1..(Len(stack) - 1) : stack[i] \in Frame
  BY TopOfStack, Domains
<1> DEFINE n == Len(stack) - 1
<1>2. stack' = SubSeq(stack, 1, n) /\ n \in Nat
  BY <1>1 DEF Front
<1> HIDE DEF n
<1>3. /\ SubSeq(stack, 1, n) \in Seq(Frame) /\ Len(SubSeq(stack, 1, n)) = n
      /\ \A i \in 1..n : SubSeq(stack, 1, n)[i] = stack[i]
  <2>1. \A i \in 1..n : stack[i] \in Frame
    BY <1>1 DEF n
  <2>2. /\ SubSeq(stack, 1, n) \in Seq(Frame)
        /\ Len(SubSeq(stack, 1, n)) = IF 1 <= n THEN n - 1 + 1 ELSE 0
        /\ \A i \in 1..(n - 1 + 1) : SubSeq(stack, 1, n)[i] = stack[1 + i - 1]
    BY <1>2, <2>1, SubSeqProperties
  <2> QED
    BY <1>2, <2>2
<1>4. stack' \in Seq(Frame) /\ Len(stack') = n /\ \A i \in 1..n : stack'[i] = stack[i]
  BY <1>2, <1>3
<1>5. DOMAIN stack' = 1..n
  BY <1>4, LenProperties
<1> QED
  BY <1>4, <1>5 DEF n

\* The innermost publication goes on.
LEMMA TopReplaced ==
  ASSUME Shapes, stack # <<>>, NEW f \in Frame, stack' = [stack EXCEPT ![Len(stack)] = f]
  PROVE  /\ stack' \in Seq(Frame) /\ Len(stack') = Len(stack) /\ DOMAIN stack' = DOMAIN stack
         /\ stack'[Len(stack)] = f /\ Top' = f /\ stack' # <<>>
         /\ \A k \in DOMAIN stack : k # Len(stack) => stack'[k] = stack[k]
<1>1. Len(stack) \in 1..Len(stack) /\ Len(stack) \in Nat
  BY TopOfStack, Domains
<1>2. stack \in Seq(Frame)
  BY DEF Shapes
<1>3. /\ stack' \in Seq(Frame) /\ Len(stack') = Len(stack)
      /\ \A j \in 1..Len(stack) : stack'[j] = IF j = Len(stack) THEN f ELSE stack[j]
  BY <1>1, <1>2, ExceptSeq
<1>4. DOMAIN stack' = 1..Len(stack) /\ DOMAIN stack = 1..Len(stack)
  BY <1>2, <1>3, LenProperties
<1>5. stack' # <<>>
  BY <1>1, <1>3, EmptySeq
<1> QED
  BY <1>1, <1>3, <1>4, <1>5 DEF Top, Last

LEMMA ReceptionKept ==
  ASSUME UNCHANGED <<received, subscribers, begun>>,
         ReceivedOnce, EarlierSeeMore, FirstInOrder
  PROVE  ReceivedOnce' /\ EarlierSeeMore' /\ FirstInOrder'
<1>1. ReceivedOnce' /\ FirstInOrder'
  BY DEF ReceivedOnce, FirstInOrder
<1>2. \A j : NumbersOf(j)' = NumbersOf(j)
  BY DEF NumbersOf
<1>3. EarlierSeeMore'
  BY <1>2 DEF EarlierSeeMore
<1> QED
  BY <1>1, <1>3

-----------------------------------------------------------------------------
(* Callers' code: the book is updated, somebody subscribes.                *)

LEMMA UpdateInv ==
  ASSUME PubInv, Update
  PROVE  PubInv'
<1>1. /\ version' = version + 1 /\ version \in Nat
      /\ UNCHANGED <<subscribers, begun, stack, received, returned, snapshotCount>>
  BY DEF Update, PubInv, Shapes
<1>2. Shapes'
  BY <1>1 DEF PubInv, Shapes
<1>3. Nested'
  BY <1>1 DEF PubInv, Nested, Publishing, Top
<1>4. VersionsOrdered'
  <2>1. Known' = Known
    BY <1>1 DEF Known
  <2>2. \A a \in Known : a.version \in Nat
    BY Domains DEF PubInv, Known, Delivered, Frame, Snap
  <2> QED
    BY <1>1, <2>1, <2>2 DEF PubInv, VersionsOrdered
<1>5. ReceivedOnce' /\ PassedReached' /\ ReturnedReached'
  BY <1>1 DEF PubInv, ReceivedOnce, PassedReached, ReturnedReached, NumbersOf
<1>6. EarlierSeeMore' /\ FirstInOrder'
  BY <1>1 DEF PubInv, EarlierSeeMore, FirstInOrder, NumbersOf
<1> QED
  BY <1>2, <1>3, <1>4, <1>5, <1>6 DEF PubInv

LEMMA SubscribeInv ==
  ASSUME PubInv, Subscribe
  PROVE  PubInv'
<1>0. PICK new : new = subscribers + 1
  OBVIOUS
<1>1. /\ subscribers' = new /\ received' = Append(received, <<>>)
      /\ UNCHANGED <<version, begun, stack, returned, snapshotCount>>
  BY <1>0 DEF Subscribe
<1>2. Shapes
  BY DEF PubInv
<1>3. received \in Seq(Seq(Snap)) /\ <<>> \in Seq(Snap) /\ Len(received) = subscribers
  BY <1>2, EmptySeq DEF Shapes
<1>4. /\ received' \in Seq(Seq(Snap)) /\ Len(received') = new
      /\ DOMAIN received' = DOMAIN received \cup {new} /\ new \notin DOMAIN received
      /\ \A j \in DOMAIN received : received'[j] = received[j]
      /\ DOMAIN received'[new] = {}
  <2>1. DOMAIN <<>> = {}
    BY <1>3, EmptySeq, LenProperties
  <2> DEFINE S == Seq(Snap)
  <2>2. received \in Seq(S) /\ <<>> \in S
    BY <1>3
  <2> HIDE DEF S
  <2>3. /\ received' \in Seq(S) /\ Len(received') = Len(received) + 1
        /\ DOMAIN received' = DOMAIN received \cup {Len(received) + 1}
        /\ Len(received) + 1 \notin DOMAIN received
        /\ \A j \in DOMAIN received : received'[j] = received[j]
        /\ received'[Len(received) + 1] = <<>>
    BY <1>1, <2>2, Appended
  <2> QED
    BY <1>0, <1>3, <2>1, <2>3 DEF S
<1>5. /\ \A j \in DOMAIN received : NumbersOf(j)' = NumbersOf(j)
      /\ NumbersOf(new)' = {}
  BY <1>4 DEF NumbersOf
<1>6. Shapes'
  BY <1>0, <1>1, <1>2, <1>4, Domains DEF Shapes
<1>7. Nested'
  BY <1>1 DEF PubInv, Nested, Publishing, Top
<1>8. VersionsOrdered'
  <2>1. Known' = Known
    BY <1>1, <1>4 DEF Known
  <2> QED
    BY <1>1, <2>1 DEF PubInv, VersionsOrdered
<1>9. ReceivedOnce'
  BY <1>4 DEF PubInv, ReceivedOnce
<1>10. PassedReached'
  <2> SUFFICES ASSUME NEW k \in DOMAIN stack, NEW j \in DOMAIN received'
               PROVE  stack[k].number \in NumbersOf(j)' <=> j <= Passed(stack[k])
    BY <1>1 DEF PassedReached
  <2>1. CASE j \in DOMAIN received
    BY <1>5, <2>1 DEF PubInv, PassedReached
  <2>2. CASE j = new
    <3>1. /\ stack[k].number \in DOMAIN begun /\ stack[k].size = begun[stack[k].number]
          /\ stack[k].next \in 1..(stack[k].size + 1)
          /\ stack[k].calling => stack[k].next <= stack[k].size
      BY DEF PubInv, Nested
    <3>2. stack[k].size <= subscribers /\ stack[k].size \in Nat /\ subscribers \in Nat
      BY <1>2, <3>1, Domains DEF Shapes
    <3>3. Passed(stack[k]) <= subscribers
      BY <3>1, <3>2 DEF Passed
    <3>4. ~(new <= Passed(stack[k]))
      BY <1>0, <3>1, <3>2, <3>3 DEF Passed
    <3> QED
      BY <1>5, <2>2, <3>4
  <2> QED
    BY <1>4, <2>1, <2>2
<1>11. ReturnedReached'
  <2>1. \A n \in DOMAIN begun : 1..begun[n] \subseteq DOMAIN received
    BY <1>2, Domains DEF Shapes
  <2> QED
    BY <1>1, <1>5, <2>1 DEF PubInv, ReturnedReached
<1>12. EarlierSeeMore'
  <2>1. DOMAIN received = 1..subscribers /\ DOMAIN received' = 1..subscribers'
        /\ subscribers \in Nat /\ subscribers' = subscribers + 1
    BY <1>0, <1>1, <1>2, <1>4, Domains
  <2> SUFFICES ASSUME NEW j \in DOMAIN received'
               PROVE  /\ \A n \in NumbersOf(j)' : j <= begun[n]
                      /\ \A i \in 1..(j - 1) : NumbersOf(j)' \subseteq NumbersOf(i)'
    BY <1>1, <2>1 DEF EarlierSeeMore
  <2>2. CASE j \in DOMAIN received
    BY <1>5, <2>1, <2>2 DEF PubInv, EarlierSeeMore
  <2>3. CASE j = new
    BY <1>5, <2>3
  <2> QED
    BY <1>4, <2>2, <2>3
<1>13. FirstInOrder'
  <2>1. DOMAIN received = 1..subscribers /\ subscribers \in Nat
    BY <1>2, Domains
  <2>2. CASE subscribers = 0
    BY <1>0, <1>4, <2>2 DEF FirstInOrder
  <2>3. CASE subscribers > 0
    BY <1>4, <2>1, <2>3 DEF PubInv, FirstInOrder
  <2> QED
    BY <2>1, <2>2, <2>3
<1> QED
  BY <1>6, <1>7, <1>8, <1>9, <1>10, <1>11, <1>12, <1>13 DEF PubInv

-----------------------------------------------------------------------------
(* A publication begins.                                                   *)

LEMMA GetSnapshotInv ==
  ASSUME PubInv, NEW topN, GetSnapshot(topN)
  PROVE  PubInv'
<1>0. PICK n, l : n = Len(begun) + 1 /\ l = Len(stack) + 1
  OBVIOUS
<1>1. PICK f : f = [number |-> n, version |-> version, size |-> subscribers, next |-> 1,
                    calling |-> FALSE]
  OBVIOUS
<1>2. /\ begun' = Append(begun, subscribers) /\ stack' = Append(stack, f)
      /\ UNCHANGED <<version, subscribers, received, returned, snapshotCount>>
      /\ stack # <<>> => stack[Len(stack)].calling
  BY <1>0, <1>1 DEF GetSnapshot, CallerRuns, Last
<1>3. Shapes
  BY DEF PubInv
<1>4. /\ begun' \in Seq(Nat) /\ Len(begun') = n /\ Len(begun) \in Nat
      /\ DOMAIN begun' = DOMAIN begun \cup {n} /\ n \notin DOMAIN begun
      /\ DOMAIN begun = 1..Len(begun)
      /\ \A i \in DOMAIN begun : begun'[i] = begun[i]
      /\ begun'[n] = subscribers
  <2>1. begun \in Seq(Nat) /\ subscribers \in Nat
    BY <1>3, Domains DEF Shapes
  <2> QED
    BY <1>0, <1>2, <2>1, Appended
<1>5. /\ stack' \in Seq(Frame) /\ Len(stack') = l /\ Len(stack) \in Nat
      /\ DOMAIN stack' = DOMAIN stack \cup {l} /\ l \notin DOMAIN stack
      /\ DOMAIN stack = 1..Len(stack)
      /\ \A k \in DOMAIN stack : stack'[k] = stack[k]
      /\ stack'[l] = f
  <2>1. stack \in Seq(Frame) /\ f \in Frame
    <3>1. subscribers \in Nat /\ version \in Nat /\ n \in Nat
      BY <1>0, <1>3, Domains DEF Shapes
    <3> QED
      BY <1>1, <1>3, <3>1 DEF Shapes, Frame
  <2> HIDE DEF Frame
  <2> QED
    BY <1>0, <1>2, <2>1, Appended
<1>6. Shapes'
  BY <1>2, <1>3, <1>4, <1>5 DEF Shapes
<1>7. \A k \in DOMAIN stack : stack[k].number \in DOMAIN begun /\ stack[k].number < n
  BY <1>0, <1>4 DEF PubInv, Nested
<1>8. \A k \in DOMAIN stack : k # Len(stack) => k + 1 \in DOMAIN stack /\ k < Len(stack)
  BY <1>5
<1>9. Nested'
  <2>1. Top' = f
    BY <1>5 DEF Top, Last
  <2>2. Publishing' /\ Top'.next = 1 => Top'.number = Len(begun')
    BY <1>1, <1>4, <2>1
  <2>3. ASSUME NEW k \in DOMAIN stack
        PROVE  /\ stack'[k].number \in DOMAIN begun' /\ stack'[k].size = begun'[stack'[k].number]
               /\ stack'[k].next \in 1..(stack'[k].size + 1)
               /\ stack'[k].calling => stack'[k].next <= stack'[k].size
               /\ \A m \in DOMAIN stack' :
                    k < m => stack'[k].calling /\ stack'[k].number < stack'[m].number
    <3>1. /\ stack'[k].number \in DOMAIN begun' /\ stack'[k].size = begun'[stack'[k].number]
          /\ stack'[k].next \in 1..(stack'[k].size + 1)
          /\ stack'[k].calling => stack'[k].next <= stack'[k].size
      BY <1>4, <1>5, <1>7 DEF PubInv, Nested
    <3>2. stack[k].calling
      <4>1. stack # <<>> /\ Len(stack) \in DOMAIN stack
        BY <1>3, <1>5, EmptySeq DEF Shapes
      <4> QED
        BY <1>2, <1>8, <4>1 DEF PubInv, Nested
    <3>3. ASSUME NEW m \in DOMAIN stack', k < m
          PROVE  stack'[k].number < stack'[m].number
      <4>1. CASE m = l
        BY <1>1, <1>5, <1>7, <4>1
      <4>2. CASE m # l
        BY <1>5, <3>3, <4>2 DEF PubInv, Nested
      <4> QED
        BY <4>1, <4>2
    <3> QED
      BY <1>5, <3>1, <3>2, <3>3
  <2>4. /\ stack'[l].number \in DOMAIN begun' /\ stack'[l].size = begun'[stack'[l].number]
        /\ stack'[l].next \in 1..(stack'[l].size + 1)
        /\ ~stack'[l].calling /\ \A m \in DOMAIN stack' : ~(l < m)
    <3>1. f.number = n /\ f.size = subscribers /\ f.next = 1 /\ f.calling = FALSE
      BY <1>1
    <3>2. subscribers \in Nat /\ l \in Nat
      BY <1>0, <1>3, <1>5, Domains
    <3> QED
      BY <1>0, <1>4, <1>5, <3>1, <3>2
  <2> QED
    BY <1>5, <2>2, <2>3, <2>4 DEF Nested
<1>10. VersionsOrdered'
  <2>1. PICK new : new = [number |-> n, version |-> version]
    OBVIOUS
  <2>2. Known' = Known \cup {new}
    <3>1. Delivered(f) = new
      BY <1>1, <2>1 DEF Delivered
    <3>2. \A k \in DOMAIN stack : Delivered(stack'[k]) = Delivered(stack[k])
      BY <1>5
    <3>3. {Delivered(stack'[k]) : k \in DOMAIN stack'}
            = {Delivered(stack[k]) : k \in DOMAIN stack} \cup {new}
      BY <1>5, <3>1, <3>2
    <3>4. PICK R : R = UNION {{received[j][k] : k \in DOMAIN received[j]} : j \in DOMAIN received}
      OBVIOUS
    <3>5. PICK D : D = {Delivered(stack[k]) : k \in DOMAIN stack}
      OBVIOUS
    <3>6. Known = D \cup R
      BY <3>4, <3>5 DEF Known
    <3>7. R = UNION {{received'[j][k] : k \in DOMAIN received'[j]} : j \in DOMAIN received'}
      BY <1>2, <3>4
    <3>8. Known' = {Delivered(stack'[k]) : k \in DOMAIN stack'} \cup R
      BY <3>7 DEF Known, Delivered
    <3> QED
      BY <3>3, <3>5, <3>6, <3>8
  <2>3. \A a \in Known : a.number \in DOMAIN begun /\ a.version <= version
    BY DEF PubInv, VersionsOrdered
  <2>4. \A a \in Known : a.number < n /\ a.number \in Nat
    BY <1>0, <1>4, <2>3
  <2>5. new.number = n /\ new.version = version /\ version \in Nat /\ n \in Nat
    BY <1>0, <1>3, <1>4, <2>1 DEF Shapes
  <2>6. \A a, b \in Known' : a.number <= b.number => a.version <= b.version
    BY <2>2, <2>3, <2>4, <2>5 DEF PubInv, VersionsOrdered
  <2>7. \A a \in Known' : a.number \in DOMAIN begun' /\ a.version <= version'
    BY <1>2, <1>4, <2>2, <2>3, <2>5
  <2> QED
    BY <2>6, <2>7 DEF VersionsOrdered
<1>11. ReceivedOnce'
  BY <1>2 DEF PubInv, ReceivedOnce
<1>12. \A j \in DOMAIN received : NumbersOf(j)' = NumbersOf(j) /\ n \notin NumbersOf(j)
  <2> TAKE j \in DOMAIN received
  <2>1. NumbersOf(j) \subseteq DOMAIN begun
    BY DEF PubInv, VersionsOrdered, Known, NumbersOf
  <2> QED
    BY <1>2, <1>4, <2>1 DEF NumbersOf
<1>13. PassedReached'
  <2> SUFFICES ASSUME NEW k \in DOMAIN stack', NEW j \in DOMAIN received
               PROVE  stack'[k].number \in NumbersOf(j)' <=> j <= Passed(stack'[k])
    BY <1>2 DEF PassedReached
  <2>1. CASE k \in DOMAIN stack
    BY <1>5, <1>12, <2>1 DEF PubInv, PassedReached
  <2>2. CASE k = l
    <3>1. Passed(f) = 0 /\ f.number = n
      BY <1>1 DEF Passed
    <3>2. j \in Nat /\ j > 0
      BY <1>3, Domains
    <3> QED
      BY <1>5, <1>12, <2>2, <3>1, <3>2
  <2> QED
    BY <1>5, <2>1, <2>2
<1>14. ReturnedReached'
  <2>1. \A i \in DOMAIN begun : 1..begun[i] \subseteq DOMAIN received
    BY <1>3, Domains DEF Shapes
  <2>2. returned \subseteq DOMAIN begun
    BY DEF PubInv, ReturnedReached
  <2>3. \A i \in returned : \A k \in DOMAIN stack' : stack'[k].number # i
    BY <1>1, <1>4, <1>5, <2>2 DEF PubInv, ReturnedReached
  <2>4. \A i \in returned : \A j \in 1..begun'[i] : i \in NumbersOf(j)'
    BY <1>4, <1>12, <2>1, <2>2 DEF PubInv, ReturnedReached
  <2> QED
    BY <1>2, <1>4, <2>2, <2>3, <2>4 DEF PubInv, ReturnedReached
<1>15. EarlierSeeMore'
  <2>1. DOMAIN received = 1..subscribers /\ subscribers' = subscribers /\ subscribers \in Nat
    BY <1>2, <1>3, Domains
  <2>2. \A j \in DOMAIN received : NumbersOf(j) \subseteq DOMAIN begun
    BY DEF PubInv, VersionsOrdered, Known, NumbersOf
  <2> SUFFICES ASSUME NEW j \in DOMAIN received
               PROVE  /\ \A i \in NumbersOf(j)' : j <= begun'[i]
                      /\ \A i \in 1..(j - 1) : NumbersOf(j)' \subseteq NumbersOf(i)'
    BY <2>1 DEF EarlierSeeMore
  <2>3. \A i \in NumbersOf(j)' : j <= begun'[i]
    BY <1>4, <1>12, <2>1, <2>2 DEF PubInv, EarlierSeeMore
  <2>4. \A i \in 1..(j - 1) : NumbersOf(j)' \subseteq NumbersOf(i)'
    BY <1>12, <2>1 DEF PubInv, EarlierSeeMore
  <2> QED
    BY <2>3, <2>4
<1>16. FirstInOrder'
  BY <1>2 DEF PubInv, FirstInOrder
<1> QED
  BY <1>6, <1>9, <1>10, <1>11, <1>13, <1>14, <1>15, <1>16 DEF PubInv

-----------------------------------------------------------------------------
(* A subscriber is called.                                                 *)

\* What the call does to the publication and to the subscriber.
LEMMA CallEffect ==
  ASSUME PubInv, CallSubscriber, NEW p, p = Top.next, NEW a, a = Delivered(Top)
  PROVE  /\ stack # <<>> /\ Top = stack[Len(stack)] /\ ~Top.calling
         /\ p \in DOMAIN received /\ p <= Top.size /\ a.number = Top.number
         /\ a \in Snap /\ a \in Known
         /\ UNCHANGED <<version, subscribers, begun, returned, snapshotCount>>
         /\ stack' \in Seq(Frame) /\ Len(stack') = Len(stack) /\ DOMAIN stack' = DOMAIN stack
         /\ Top'.number = Top.number /\ Top'.version = Top.version /\ Top'.size = Top.size
         /\ Top'.next = p /\ Top'.calling /\ stack'[Len(stack)] = Top' /\ stack' # <<>>
         /\ \A k \in DOMAIN stack : k # Len(stack) => stack'[k] = stack[k]
         /\ received' \in Seq(Seq(Snap)) /\ Len(received') = subscribers
         /\ DOMAIN received' = DOMAIN received
         /\ \A j \in DOMAIN received : j # p => received'[j] = received[j]
         /\ DOMAIN received'[p] = DOMAIN received[p] \cup {Len(received[p]) + 1}
         /\ \A k \in DOMAIN received[p] : received'[p][k] = received[p][k]
         /\ received'[p][Len(received[p]) + 1] = a
<1>1. /\ stack # <<>> /\ ~Top.calling /\ Top.next <= Top.size
      /\ received' = [received EXCEPT ![p] = Append(received[p], a)]
      /\ stack' = [stack EXCEPT ![Len(stack)].calling = TRUE]
      /\ UNCHANGED <<version, subscribers, begun, returned, snapshotCount>>
  BY DEF CallSubscriber, Publishing, Position
<1>2. Shapes
  BY DEF PubInv
<1>3. Len(stack) \in DOMAIN stack /\ Top = stack[Len(stack)] /\ Top \in Frame
  BY <1>1, <1>2, TopOfStack
<1>4. p \in DOMAIN received
  <2>1. /\ Top.number \in DOMAIN begun /\ Top.size = begun[Top.number]
        /\ Top.next \in 1..(Top.size + 1)
    BY <1>3 DEF PubInv, Nested
  <2>2. Top.size \in Nat /\ Top.size <= subscribers /\ subscribers \in Nat
    BY <1>2, <2>1, Domains DEF Shapes
  <2> QED
    BY <1>1, <1>2, <2>1, <2>2, Domains
<1>5. PICK f : f = [Top EXCEPT !.calling = TRUE]
  OBVIOUS
<1>6. /\ f \in Frame /\ f.number = Top.number /\ f.version = Top.version /\ f.size = Top.size
      /\ f.next = p /\ f.calling
  BY <1>3, <1>5 DEF Frame
<1>7. stack' = [stack EXCEPT ![Len(stack)] = f]
  BY <1>1, <1>3, <1>5
<1>8. /\ stack' \in Seq(Frame) /\ Len(stack') = Len(stack) /\ DOMAIN stack' = DOMAIN stack
      /\ stack'[Len(stack)] = f /\ Top' = f /\ stack' # <<>>
      /\ \A k \in DOMAIN stack : k # Len(stack) => stack'[k] = stack[k]
  BY <1>1, <1>2, <1>6, <1>7, TopReplaced
<1>9. a \in Snap /\ a \in Known /\ a.number = Top.number
  BY <1>3 DEF Delivered, Frame, Snap, Known
<1>10. received[p] \in Seq(Snap)
  BY <1>2, <1>4, Domains
<1>11. PICK s : s = Append(received[p], a)
  OBVIOUS
<1>12. /\ s \in Seq(Snap) /\ DOMAIN s = DOMAIN received[p] \cup {Len(received[p]) + 1}
       /\ \A k \in DOMAIN received[p] : s[k] = received[p][k]
       /\ s[Len(received[p]) + 1] = a
  <2> HIDE DEF Snap
  <2> QED
    BY <1>9, <1>10, <1>11, Appended
<1>13. /\ received' \in Seq(Seq(Snap)) /\ Len(received') = subscribers
       /\ DOMAIN received' = DOMAIN received /\ received'[p] = s
       /\ \A j \in DOMAIN received : j # p => received'[j] = received[j]
  <2> DEFINE S == Seq(Snap)
  <2>1. received \in Seq(S) /\ s \in S /\ received' = [received EXCEPT ![p] = s]
    BY <1>1, <1>2, <1>11, <1>12 DEF Shapes
  <2> HIDE DEF S
  <2>2. p \in 1..Len(received)
    BY <1>4, <2>1, LenProperties
  <2>3. /\ received' \in Seq(S) /\ Len(received') = Len(received)
        /\ \A j \in 1..Len(received) : received'[j] = IF j = p THEN s ELSE received[j]
    BY <2>1, <2>2, ExceptSeq
  <2>4. DOMAIN received' = 1..Len(received) /\ DOMAIN received = 1..Len(received)
    BY <2>1, <2>3, LenProperties
  <2>5. Len(received) = subscribers
    BY <1>2 DEF Shapes
  <2> QED
    BY <2>2, <2>3, <2>4, <2>5 DEF S
<1> QED
  BY <1>1, <1>3, <1>4, <1>6, <1>8, <1>9, <1>12, <1>13

LEMMA CallSubscriberInv ==
  ASSUME PubInv, CallSubscriber
  PROVE  PubInv'
<1>0. PICK p, a, n, l, top : /\ p = Top.next /\ a = Delivered(Top) /\ n = Top.number
                             /\ l = Len(stack) /\ top = Top
  OBVIOUS
<1>1. Shapes
  BY DEF PubInv
<1>2. /\ stack # <<>> /\ top = stack[l] /\ ~top.calling /\ top.number = n /\ top.next = p
      /\ p \in DOMAIN received /\ p <= top.size /\ a.number = n
      /\ a \in Snap /\ a \in Known
      /\ UNCHANGED <<version, subscribers, begun, returned, snapshotCount>>
      /\ stack' \in Seq(Frame) /\ Len(stack') = l /\ DOMAIN stack' = DOMAIN stack
      /\ Top'.number = n /\ Top'.version = top.version /\ Top'.size = top.size
      /\ Top'.next = p /\ Top'.calling /\ stack'[l] = Top' /\ stack' # <<>>
      /\ \A k \in DOMAIN stack : k # l => stack'[k] = stack[k]
  BY <1>0, CallEffect
<1>3. PICK e : e = Len(received[p]) + 1
  OBVIOUS
<1>4. /\ received' \in Seq(Seq(Snap)) /\ Len(received') = subscribers
      /\ DOMAIN received' = DOMAIN received
      /\ \A j \in DOMAIN received : j # p => received'[j] = received[j]
      /\ DOMAIN received'[p] = DOMAIN received[p] \cup {e}
      /\ \A k \in DOMAIN received[p] : received'[p][k] = received[p][k]
      /\ received'[p][e] = a
  BY <1>0, <1>3, CallEffect
<1>5. l \in DOMAIN stack /\ l \in Nat /\ DOMAIN stack = 1..l /\ top \in Frame
  BY <1>0, <1>1, <1>2, Domains, TopOfStack
<1>6. /\ \A j \in DOMAIN received : j # p => NumbersOf(j)' = NumbersOf(j)
      /\ NumbersOf(p)' = NumbersOf(p) \cup {n}
  BY <1>2, <1>4 DEF NumbersOf
<1>7. Shapes'
  BY <1>1, <1>2, <1>4 DEF Shapes
<1>8. \A k \in DOMAIN stack : k # l => stack[k].calling /\ stack[k].number # n
  <2>1. \A k \in DOMAIN stack : stack[k].number \in Nat
    BY <1>1, Domains DEF Frame
  <2>2. \A k \in DOMAIN stack : k # l => k < l
    BY <1>5
  <2>3. \A k \in DOMAIN stack : k < l => stack[k].calling /\ stack[k].number < n
    BY <1>2, <1>5 DEF PubInv, Nested
  <2> QED
    BY <1>2, <1>5, <2>1, <2>2, <2>3
<1>9. Nested'
  <2>1. Publishing' /\ Top'.next = 1 => Top'.number = Len(begun')
    BY <1>2 DEF Publishing
  <2>2. \A k \in DOMAIN stack :
          /\ stack'[k].number = stack[k].number /\ stack'[k].size = stack[k].size
          /\ stack'[k].next = stack[k].next
          /\ stack[k].calling => stack'[k].calling
          /\ stack'[k].calling => stack[k].calling \/ stack[k].next <= stack[k].size
    BY <1>2
  <2> QED
    BY <1>2, <2>1, <2>2 DEF PubInv, Nested
<1>10. VersionsOrdered'
  <2>1. Known' \subseteq Known
    <3> SUFFICES ASSUME NEW b \in Known'
                 PROVE  b \in Known
      OBVIOUS
    <3>1. ASSUME NEW k \in DOMAIN stack', b = Delivered(stack'[k])
          PROVE  b \in Known
      <4>1. Delivered(stack'[k]) = Delivered(stack[k])
        BY <1>2, <3>1 DEF Delivered
      <4> QED
        BY <1>2, <3>1, <4>1 DEF Known
    <3>2. ASSUME NEW j \in DOMAIN received', NEW k \in DOMAIN received'[j], b = received'[j][k]
          PROVE  b \in Known
      <4>1. CASE j = p /\ k = e
        BY <1>2, <1>4, <3>2, <4>1
      <4>2. CASE ~(j = p /\ k = e)
        <5>1. k \in DOMAIN received[j] /\ b = received[j][k]
          BY <1>4, <3>2, <4>2
        <5> QED
          BY <1>4, <5>1 DEF Known
      <4> QED
        BY <4>1, <4>2
    <3>3. \/ \E k \in DOMAIN stack' : b = Delivered(stack'[k])
          \/ \E j \in DOMAIN received' : \E k \in DOMAIN received'[j] : b = received'[j][k]
      BY DEF Known, Delivered
    <3> QED
      BY <3>1, <3>2, <3>3
  <2> QED
    BY <1>2, <2>1 DEF PubInv, VersionsOrdered
<1>11. n \notin NumbersOf(p)
  BY <1>1, <1>2, <1>5, Domains DEF PubInv, PassedReached, Passed
<1>12. ReceivedOnce'
  <2> SUFFICES ASSUME NEW j \in DOMAIN received,
                      NEW k \in DOMAIN received'[j], NEW m \in DOMAIN received'[j],
                      received'[j][k].number = received'[j][m].number
               PROVE  k = m
    BY <1>4 DEF ReceivedOnce
  <2>1. CASE j # p
    BY <1>4, <2>1 DEF PubInv, ReceivedOnce
  <2>2. CASE j = p
    <3>1. \A i \in DOMAIN received[p] : received'[p][i].number # n
      BY <1>4, <1>11 DEF NumbersOf
    <3> QED
      BY <1>2, <1>4, <2>2, <3>1 DEF PubInv, ReceivedOnce
  <2> QED
    BY <2>1, <2>2
<1>13. PassedReached'
  <2> SUFFICES ASSUME NEW k \in DOMAIN stack, NEW j \in DOMAIN received
               PROVE  stack'[k].number \in NumbersOf(j)' <=> j <= Passed(stack'[k])
    BY <1>2, <1>4 DEF PassedReached
  <2>1. stack[k].number \in NumbersOf(j) <=> j <= Passed(stack[k])
    BY DEF PubInv, PassedReached
  <2>2. CASE k # l
    BY <1>2, <1>6, <1>8, <2>1, <2>2
  <2>3. CASE k = l
    <3>1. Passed(top) = p - 1 /\ stack'[k].number = n /\ Passed(stack'[k]) = p
      BY <1>2, <2>3 DEF Passed
    <3>2. j \in Nat /\ p \in Nat
      BY <1>1, <1>2, Domains
    <3>3. n \in NumbersOf(j) <=> j <= p - 1
      BY <1>2, <2>1, <2>3, <3>1
    <3> QED
      BY <1>6, <3>1, <3>2, <3>3
  <2> QED
    BY <2>2, <2>3
<1>14. ReturnedReached'
  <2>1. \A j \in DOMAIN received : NumbersOf(j) \subseteq NumbersOf(j)'
    BY <1>6
  <2>2. \A i \in DOMAIN begun : 1..begun[i] \subseteq DOMAIN received
    BY <1>1, Domains DEF Shapes
  <2>3. \A k \in DOMAIN stack : stack'[k].number = stack[k].number
    BY <1>2
  <2> QED
    BY <1>2, <2>1, <2>2, <2>3 DEF PubInv, ReturnedReached
<1>15. EarlierSeeMore'
  <2>1. DOMAIN received = 1..subscribers /\ subscribers \in Nat
    BY <1>1, Domains
  <2> SUFFICES ASSUME NEW j \in DOMAIN received
               PROVE  /\ \A i \in NumbersOf(j)' : j <= begun[i]
                      /\ \A i \in 1..(j - 1) : NumbersOf(j)' \subseteq NumbersOf(i)'
    BY <1>2, <2>1 DEF EarlierSeeMore
  <2>2. p <= begun[n]
    BY <1>2, <1>5 DEF PubInv, Nested
  <2>3. \A i \in 1..(p - 1) : n \in NumbersOf(i)
    <3>1. \A i \in DOMAIN received : n \in NumbersOf(i) <=> i <= p - 1
      BY <1>2, <1>5 DEF PubInv, PassedReached, Passed
    <3> QED
      BY <1>2, <2>1, <3>1
  <2>4. \A i \in NumbersOf(j)' : j <= begun[i]
    BY <1>6, <2>1, <2>2 DEF PubInv, EarlierSeeMore
  <2>5. \A i \in 1..(j - 1) : NumbersOf(j)' \subseteq NumbersOf(i)'
    <3>1. \A i \in 1..(j - 1) : NumbersOf(j) \subseteq NumbersOf(i) /\ i \in DOMAIN received
                                /\ i # j
      BY <2>1 DEF PubInv, EarlierSeeMore
    <3>2. \A i \in 1..(j - 1) : NumbersOf(i) \subseteq NumbersOf(i)'
      BY <1>6, <3>1
    <3> QED
      BY <1>6, <2>3, <3>1, <3>2
  <2> QED
    BY <2>4, <2>5
<1>16. FirstInOrder'
  <2>1. subscribers > 0 /\ 1 \in DOMAIN received
    BY <1>1, <1>2, Domains
  <2> SUFFICES ASSUME NEW k \in DOMAIN received'[1], NEW m \in DOMAIN received'[1], m < k
               PROVE  received'[1][m].number < received'[1][k].number
    BY <1>2 DEF FirstInOrder
  <2>2. CASE p # 1
    BY <1>4, <2>1, <2>2 DEF PubInv, FirstInOrder
  <2>3. CASE p = 1
    <3>1. n = Len(begun)
      BY <1>0, <1>2, <2>3 DEF PubInv, Nested, Publishing
    <3>2. \A i \in DOMAIN received[1] : received[1][i].number < n
      <4>1. \A i \in DOMAIN received[1] : received[1][i] \in Known
                                          /\ received[1][i].number \in NumbersOf(1)
        BY <2>1 DEF Known, NumbersOf
      <4>2. \A i \in DOMAIN received[1] : received[1][i].number \in DOMAIN begun
                                          /\ received[1][i].number # n
        BY <1>11, <2>3, <4>1 DEF PubInv, VersionsOrdered
      <4> QED
        BY <1>1, <3>1, <4>2, Domains
    <3>3. e \in Nat /\ \A i \in DOMAIN received[1] : i \in Nat /\ i < e
      BY <1>1, <1>3, <2>1, <2>3, Domains
    <3>4. m \in DOMAIN received[1]
      BY <1>4, <2>3, <3>3
    <3>5. CASE k = e
      BY <1>2, <1>4, <2>3, <3>2, <3>4, <3>5
    <3>6. CASE k # e
      BY <1>4, <2>1, <2>3, <3>4, <3>6 DEF PubInv, FirstInOrder
    <3> QED
      BY <3>5, <3>6
  <2> QED
    BY <2>2, <2>3
<1> QED
  BY <1>7, <1>9, <1>10, <1>12, <1>13, <1>14, <1>15, <1>16 DEF PubInv

-----------------------------------------------------------------------------
(* The subscriber returns.                                                 *)

LEMMA AcceptInv ==
  ASSUME PubInv, SubscriberAccepts
  PROVE  PubInv'
<1>0. PICK top, l : top = Top /\ l = Len(stack)
  OBVIOUS
<1>1. Shapes
  BY DEF PubInv
<1>2. /\ stack # <<>> /\ top.calling
      /\ stack' = [stack EXCEPT ![l].calling = FALSE, ![l].next = @ + 1]
      /\ UNCHANGED <<version, subscribers, begun, received, returned, snapshotCount>>
  BY <1>0 DEF SubscriberAccepts
<1>3. l \in DOMAIN stack /\ top = stack[l] /\ top \in Frame
  BY <1>0, <1>1, <1>2, TopOfStack
<1>4. PICK f : f = [top EXCEPT !.calling = FALSE, !.next = top.next + 1]
  OBVIOUS
<1>5. /\ f \in Frame /\ f.number = top.number /\ f.version = top.version /\ f.size = top.size
      /\ f.next = top.next + 1 /\ f.calling = FALSE
  <2>1. PICK g : g = [top EXCEPT !.calling = FALSE]
    OBVIOUS
  <2>2. /\ g \in Frame /\ g.number = top.number /\ g.version = top.version
        /\ g.size = top.size /\ g.next = top.next /\ g.calling = FALSE
    BY <1>3, <2>1 DEF Frame
  <2>3. f = [g EXCEPT !.next = top.next + 1]
    BY <1>4, <2>1
  <2>4. top.next + 1 \in Nat
    BY <1>3 DEF Frame
  <2> QED
    BY <2>2, <2>3, <2>4 DEF Frame
<1>6. stack' = [stack EXCEPT ![l] = f]
  <2>1. DOMAIN stack' = DOMAIN stack /\ \A k \in DOMAIN stack : k # l => stack'[k] = stack[k]
    BY <1>1, <1>2, Domains
  <2>2. stack'[l] = f
    BY <1>1, <1>2, <1>3, <1>4, Domains
  <2> QED
    BY <1>1, <1>2, <1>3, <1>4, Domains
<1>7. /\ stack' \in Seq(Frame) /\ Len(stack') = l /\ DOMAIN stack' = DOMAIN stack
      /\ stack'[l] = f /\ Top' = f /\ stack' # <<>>
      /\ \A k \in DOMAIN stack : k # l => stack'[k] = stack[k]
  BY <1>0, <1>1, <1>2, <1>5, <1>6, TopReplaced
<1>8. \A k \in DOMAIN stack : /\ stack'[k].number = stack[k].number
                              /\ Delivered(stack'[k]) = Delivered(stack[k])
                              /\ Passed(stack'[k]) = Passed(stack[k])
                              /\ stack'[k].size = stack[k].size
  <2>1. Delivered(f) = Delivered(top) /\ Passed(f) = Passed(top)
    BY <1>2, <1>3, <1>5 DEF Delivered, Passed, Frame
  <2> QED
    BY <1>3, <1>5, <1>7, <2>1
<1>9. Shapes'
  BY <1>1, <1>2, <1>7 DEF Shapes
<1>10. Nested'
  <2>1. top.next \in 1..top.size /\ top.size \in Nat
    BY <1>2, <1>3 DEF PubInv, Nested, Frame
  <2>2. Publishing' /\ Top'.next = 1 => Top'.number = Len(begun')
    BY <1>5, <1>7, <2>1
  <2>3. DOMAIN stack = 1..l /\ l \in Nat
    BY <1>0, <1>1, Domains
  <2> SUFFICES ASSUME NEW k \in DOMAIN stack
               PROVE  /\ stack'[k].number \in DOMAIN begun
                      /\ stack'[k].size = begun[stack'[k].number]
                      /\ stack'[k].next \in 1..(stack'[k].size + 1)
                      /\ stack'[k].calling => stack'[k].next <= stack'[k].size
                      /\ \A m \in DOMAIN stack :
                           k < m => stack'[k].calling /\ stack'[k].number < stack'[m].number
    BY <1>2, <1>7, <2>2 DEF Nested
  <2>4. CASE k # l
    BY <1>7, <1>8, <2>4 DEF PubInv, Nested
  <2>5. CASE k = l
    <3>1. \A m \in DOMAIN stack : ~(k < m)
      BY <2>3, <2>5
    <3> QED
      BY <1>3, <1>5, <1>7, <2>1, <2>5, <3>1 DEF PubInv, Nested
  <2> QED
    BY <2>4, <2>5
<1>11. VersionsOrdered'
  <2>1. PICK R : R = UNION {{received[j][k] : k \in DOMAIN received[j]} : j \in DOMAIN received}
    OBVIOUS
  <2>2. R = UNION {{received'[j][k] : k \in DOMAIN received'[j]} : j \in DOMAIN received'}
    BY <1>2, <2>1
  <2>3. Known' = {Delivered(stack'[k]) : k \in DOMAIN stack'} \cup R
    BY <2>2 DEF Known, Delivered
  <2>4. Known = {Delivered(stack[k]) : k \in DOMAIN stack} \cup R
    BY <2>1 DEF Known
  <2>5. {Delivered(stack'[k]) : k \in DOMAIN stack'} = {Delivered(stack[k]) : k \in DOMAIN stack}
    BY <1>7, <1>8
  <2> QED
    BY <1>2, <2>3, <2>4, <2>5 DEF PubInv, VersionsOrdered
<1>12. PassedReached'
  <2> SUFFICES ASSUME NEW k \in DOMAIN stack, NEW j \in DOMAIN received
               PROVE  stack'[k].number \in NumbersOf(j)' <=> j <= Passed(stack'[k])
    BY <1>2, <1>7 DEF PassedReached
  <2>1. NumbersOf(j)' = NumbersOf(j)
    BY <1>2 DEF NumbersOf
  <2>2. stack[k].number \in NumbersOf(j) <=> j <= Passed(stack[k])
    BY DEF PubInv, PassedReached
  <2> QED
    BY <1>8, <2>1, <2>2
<1>13. ReturnedReached'
  <2>1. \A j : NumbersOf(j)' = NumbersOf(j)
    BY <1>2 DEF NumbersOf
  <2> QED
    BY <1>2, <1>7, <1>8, <2>1 DEF PubInv, ReturnedReached
<1>14. ReceivedOnce' /\ EarlierSeeMore' /\ FirstInOrder'
  BY <1>2, ReceptionKept DEF PubInv
<1> QED
  BY <1>9, <1>10, <1>11, <1>12, <1>13, <1>14 DEF PubInv

\* A publication ends, returned or failed.
LEMMA EndInv ==
  ASSUME PubInv, stack # <<>>, stack' = Front(stack),
         UNCHANGED <<version, subscribers, begun, received>>
  PROVE  /\ Shapes /\ (snapshotCount' \in Nat => Shapes')
         /\ Nested' /\ VersionsOrdered' /\ PassedReached'
         /\ ReceivedOnce' /\ EarlierSeeMore' /\ FirstInOrder'
         /\ DOMAIN stack' \subseteq DOMAIN stack /\ Top.number \in Nat
         /\ \A k \in DOMAIN stack' : stack'[k] = stack[k] /\ stack'[k].number # Top.number
<1>0. PICK l : l = Len(stack)
  OBVIOUS
<1>1. Shapes
  BY DEF PubInv
<1>2. /\ stack' \in Seq(Frame) /\ Len(stack') = l - 1 /\ DOMAIN stack' = 1..(l - 1)
      /\ \A k \in DOMAIN stack' : stack'[k] = stack[k]
  BY <1>0, <1>1, Popped
<1>3. l \in DOMAIN stack /\ l \in Nat /\ DOMAIN stack = 1..l /\ Top = stack[l]
  BY <1>0, <1>1, TopOfStack, Domains
<1>4. DOMAIN stack' \subseteq DOMAIN stack /\ \A k \in DOMAIN stack' : k < l
  BY <1>2, <1>3
<1>5. \A k \in DOMAIN stack : stack[k].number \in Nat
  BY <1>1, Domains DEF Frame
<1>6. \A k \in DOMAIN stack' : stack'[k].calling /\ stack'[k].number < Top.number
  BY <1>2, <1>3, <1>4 DEF PubInv, Nested
<1>7. \A k \in DOMAIN stack' : stack'[k].number # Top.number
  BY <1>2, <1>3, <1>4, <1>5, <1>6
<1>8. Nested'
  <2>1. ~Publishing'
    <3>1. CASE stack' = <<>>
      BY <3>1 DEF Publishing
    <3>2. CASE stack' # <<>>
      <4>1. Len(stack') \in Nat \ {0}
        BY <1>2, <3>2, EmptySeq
      <4>2. Len(stack') \in DOMAIN stack'
        BY <1>2, <1>3, <4>1
      <4> QED
        BY <1>6, <4>2 DEF Publishing, Top, Last
    <3> QED
      BY <3>1, <3>2
  <2>2. \A k \in DOMAIN stack' : k \in DOMAIN stack /\ stack'[k] = stack[k]
    BY <1>2, <1>4
  <2> QED
    BY <2>1, <2>2 DEF PubInv, Nested
<1>9. VersionsOrdered'
  <2>1. PICK R : R = UNION {{received[j][k] : k \in DOMAIN received[j]} : j \in DOMAIN received}
    OBVIOUS
  <2>2. R = UNION {{received'[j][k] : k \in DOMAIN received'[j]} : j \in DOMAIN received'}
    BY <2>1
  <2>3. Known' = {Delivered(stack'[k]) : k \in DOMAIN stack'} \cup R
    BY <2>2 DEF Known, Delivered
  <2>4. Known = {Delivered(stack[k]) : k \in DOMAIN stack} \cup R
    BY <2>1 DEF Known
  <2>5. {Delivered(stack'[k]) : k \in DOMAIN stack'}
          \subseteq {Delivered(stack[k]) : k \in DOMAIN stack}
    BY <1>2, <1>4
  <2>6. Known' \subseteq Known
    BY <2>3, <2>4, <2>5
  <2> QED
    BY <2>6 DEF PubInv, VersionsOrdered
<1>10. PassedReached'
  BY <1>2, <1>4 DEF PubInv, PassedReached, NumbersOf
<1>11. ReceivedOnce' /\ EarlierSeeMore' /\ FirstInOrder'
  BY ReceptionKept DEF PubInv
<1>12. snapshotCount' \in Nat => Shapes'
  BY <1>1, <1>2 DEF Shapes
<1> QED
  BY <1>1, <1>2, <1>3, <1>4, <1>5, <1>7, <1>8, <1>9, <1>10, <1>11, <1>12

LEMMA FailInv ==
  ASSUME PubInv, SubscriberFails
  PROVE  PubInv'
<1>1. /\ stack # <<>> /\ stack' = Front(stack)
      /\ UNCHANGED <<version, subscribers, begun, received, returned, snapshotCount>>
  BY DEF SubscriberFails
<1>2. /\ Shapes' /\ Nested' /\ VersionsOrdered' /\ PassedReached'
      /\ ReceivedOnce' /\ EarlierSeeMore' /\ FirstInOrder'
      /\ DOMAIN stack' \subseteq DOMAIN stack /\ \A k \in DOMAIN stack' : stack'[k] = stack[k]
  BY <1>1, EndInv DEF Shapes
<1>3. ReturnedReached'
  BY <1>1, <1>2 DEF PubInv, ReturnedReached, NumbersOf
<1> QED
  BY <1>2, <1>3 DEF PubInv

LEMMA FinishInv ==
  ASSUME PubInv, Finish
  PROVE  PubInv'
<1>0. PICK n, top : n = Top.number /\ top = Top
  OBVIOUS
<1>1. /\ stack # <<>> /\ stack' = Front(stack) /\ ~top.calling /\ top.next > top.size
      /\ UNCHANGED <<version, subscribers, begun, received>>
      /\ returned' = returned \cup {n} /\ snapshotCount' = snapshotCount + 1
  BY <1>0 DEF Finish, Publishing
<1>2. /\ Shapes /\ (snapshotCount' \in Nat => Shapes')
      /\ Nested' /\ VersionsOrdered' /\ PassedReached'
      /\ ReceivedOnce' /\ EarlierSeeMore' /\ FirstInOrder'
      /\ DOMAIN stack' \subseteq DOMAIN stack
      /\ \A k \in DOMAIN stack' : stack'[k] = stack[k] /\ stack'[k].number # n
  BY <1>0, <1>1, EndInv
<1>3. Len(stack) \in DOMAIN stack /\ top = stack[Len(stack)] /\ top \in Frame
  BY <1>0, <1>1, <1>2, TopOfStack
<1>4. n \in DOMAIN begun /\ n \notin returned
  BY <1>0, <1>3 DEF PubInv, Nested, ReturnedReached
<1>5. \A j \in 1..begun[n] : n \in NumbersOf(j)
  <2>1. top.size = begun[n] /\ top.size \in Nat /\ top.next \in Nat /\ top.size <= subscribers
    BY <1>0, <1>2, <1>3 DEF PubInv, Nested, Shapes, Frame
  <2>2. Passed(top) >= top.size
    BY <1>1, <2>1 DEF Passed
  <2>3. \A j \in DOMAIN received : j <= Passed(top) => n \in NumbersOf(j)
    BY <1>0, <1>3 DEF PubInv, PassedReached
  <2>4. DOMAIN received = 1..subscribers /\ subscribers \in Nat /\ Passed(top) \in Int
    BY <1>2, <2>1, Domains DEF Passed
  <2> QED
    BY <2>1, <2>2, <2>3, <2>4
<1>6. IsFiniteSet(returned') /\ snapshotCount' = Cardinality(returned')
  BY <1>1, <1>4, FS_AddElement DEF PubInv, ReturnedReached
<1>7. \A i \in returned' : /\ i \in DOMAIN begun
                           /\ \A j \in 1..begun[i] : i \in NumbersOf(j)
                           /\ \A k \in DOMAIN stack' : stack'[k].number # i
  BY <1>1, <1>2, <1>4, <1>5 DEF PubInv, ReturnedReached
<1>8. ReturnedReached'
  <2>1. \A j : NumbersOf(j)' = NumbersOf(j)
    BY <1>1 DEF NumbersOf
  <2> QED
    BY <1>1, <1>6, <1>7, <2>1 DEF ReturnedReached
<1>9. snapshotCount' \in Nat
  BY <1>1, <1>2 DEF Shapes
<1> QED
  BY <1>2, <1>8, <1>9 DEF PubInv

-----------------------------------------------------------------------------
(* The theorems.                                                           *)

LEMMA PubStart == ASSUME Init PROVE PubInv
<1>1. /\ <<>> \in Seq(Nat) /\ <<>> \in Seq(Frame) /\ <<>> \in Seq(Seq(Snap))
      /\ Len(<<>>) = 0
  BY EmptySeq
<1>2. DOMAIN <<>> = {}
  BY <1>1, LenProperties
<1>3. Shapes /\ Nested
  BY <1>1, <1>2 DEF Init, Shapes, Nested, Publishing
<1>4. VersionsOrdered /\ ReceivedOnce /\ PassedReached
  BY <1>2 DEF Init, VersionsOrdered, Known, ReceivedOnce, PassedReached
<1>5. ReturnedReached
  BY FS_EmptySet DEF Init, ReturnedReached
<1>6. EarlierSeeMore /\ FirstInOrder
  BY DEF Init, EarlierSeeMore, FirstInOrder
<1> QED
  BY <1>3, <1>4, <1>5, <1>6 DEF PubInv

LEMMA PubStep ==
  ASSUME PubInv, [Next]_vars
  PROVE  PubInv'
<1>1. CASE UNCHANGED vars
  <2>1. Shapes' /\ Nested'
    BY <1>1 DEF vars, PubInv, Shapes, Nested, Publishing, Top
  <2>2. Known' = Known
    BY <1>1 DEF vars, Known, Delivered
  <2>3. VersionsOrdered'
    BY <1>1, <2>2 DEF vars, PubInv, VersionsOrdered
  <2>4. ReceivedOnce' /\ EarlierSeeMore' /\ FirstInOrder'
    BY <1>1, ReceptionKept DEF vars, PubInv
  <2>5. PassedReached' /\ ReturnedReached'
    BY <1>1 DEF vars, PubInv, PassedReached, ReturnedReached, NumbersOf
  <2> QED
    BY <2>1, <2>3, <2>4, <2>5 DEF PubInv
<1>2. ASSUME NEW topN, RefuseTopN(topN)
      PROVE  UNCHANGED vars
  BY <1>2 DEF RefuseTopN
<1> QED
  BY <1>1, <1>2, UpdateInv, SubscribeInv, GetSnapshotInv, CallSubscriberInv, AcceptInv,
     FailInv, FinishInv DEF Next

LEMMA PubInvariant == Spec => []PubInv
<1>1. Init => PubInv
  BY PubStart
<1>2. PubInv /\ [Next]_vars => PubInv'
  BY PubStep
<1> QED
  BY <1>1, <1>2, PTL DEF Spec

\* The values of the variables; the publications in progress are nested.
THEOREM PublisherTypes == Spec => []TypeOK
<1>1. PubInv => TypeOK
  <2> SUFFICES ASSUME PubInv
               PROVE  TypeOK
    OBVIOUS
  <2>1. Shapes
    BY DEF PubInv
  <2>2. Len(stack) \in Nat /\ DOMAIN stack = 1..Len(stack)
    BY <2>1, Domains
  <2>3. ASSUME NEW k \in DOMAIN stack
        PROVE  /\ stack[k].version <= version
               /\ k < Len(stack) => stack[k].calling /\ stack[k].number < stack[k + 1].number
    <3>1. Delivered(stack[k]) \in Known /\ Delivered(stack[k]).version = stack[k].version
      BY DEF Known, Delivered
    <3>2. k < Len(stack) => k + 1 \in DOMAIN stack /\ k < k + 1
      BY <2>2
    <3> QED
      BY <3>1, <3>2 DEF PubInv, VersionsOrdered, Nested
  <2> QED
    BY <2>1, <2>3 DEF PubInv, Shapes, Nested, ReturnedReached, TypeOK
<1> QED
  BY <1>1, PubInvariant, PTL

\* Who is returned a snapshot knows that every subscriber there was when he asked was
\* called with it exactly once, and the counter counts just these calls.
THEOREM ReturnedMeansReceived == Spec => []ReturnedReachedAll
<1>1. PubInv => ReturnedReachedAll
  <2> SUFFICES ASSUME PubInv, NEW n \in returned, NEW j \in 1..begun[n]
               PROVE  Times(j, n) = 1
    BY DEF ReturnedReachedAll, PubInv, ReturnedReached
  <2>1. n \in NumbersOf(j) /\ j \in DOMAIN received
    <3>1. n \in DOMAIN begun /\ n \in NumbersOf(j)
      BY DEF PubInv, ReturnedReached
    <3>2. begun[n] \in Nat /\ begun[n] <= subscribers /\ subscribers \in Nat
          /\ DOMAIN received = 1..subscribers
      BY <3>1, Domains DEF PubInv, Shapes
    <3> QED
      BY <3>1, <3>2
  <2>2. PICK k \in DOMAIN received[j] : received[j][k].number = n
    BY <2>1 DEF NumbersOf
  <2>3. {m \in DOMAIN received[j] : received[j][m].number = n} = {k}
    BY <2>1, <2>2 DEF PubInv, ReceivedOnce
  <2> QED
    BY <2>3, FS_Singleton DEF Times
<1> QED
  BY <1>1, PubInvariant, PTL

\* Nobody is called with a snapshot from before he subscribed, nor with one that
\* somebody before him was not called with.
THEOREM EarlierSubscribersSeeMore == Spec => []EarlierSeeMore
BY PubInvariant, PTL DEF PubInv

\* An older book comes after a newer one only where publications are nested.
THEOREM OlderAfterNewerNested == Spec => []NewerFirstWhenNested
<1>1. PubInv => NewerFirstWhenNested
  <2> SUFFICES ASSUME PubInv, NEW j \in 1..subscribers, NEW k \in DOMAIN received[j],
                      NEW m \in 1..(k - 1),
                      received[j][m].version > received[j][k].version
               PROVE  received[j][m].number > received[j][k].number /\ j > 1
    BY DEF NewerFirstWhenNested
  <2>1. Shapes
    BY DEF PubInv
  <2>2. j \in DOMAIN received /\ j \in Nat
    BY <2>1, Domains
  <2>3. m \in DOMAIN received[j] /\ m < k
    <3>1. Len(received[j]) \in Nat /\ DOMAIN received[j] = 1..Len(received[j])
      BY <2>1, <2>2, Domains
    <3> QED
      BY <3>1
  <2>4. received[j][m] \in Known /\ received[j][k] \in Known
    BY <2>2, <2>3 DEF Known
  <2>5. received[j][m] \in Snap /\ received[j][k] \in Snap
    BY <2>1, <2>2, <2>3, Domains
  <2>6. received[j][m].number > received[j][k].number
    BY <2>4, <2>5 DEF PubInv, VersionsOrdered, Snap
  <2>7. j = 1 => received[j][m].number < received[j][k].number
    <3>1. j = 1 => subscribers > 0
      BY <2>1, Domains
    <3> QED
      BY <2>3, <3>1 DEF PubInv, FirstInOrder
  <2> QED
    BY <2>2, <2>5, <2>6, <2>7 DEF Snap
<1> QED
  BY <1>1, PubInvariant, PTL
=============================================================================
