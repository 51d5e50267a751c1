------------------------- MODULE SerialEngineProofs -------------------------
(***************************************************************************)
(* Proof that the engine, when calls are made one after the other,         *)
(* implements PriceTimeExchange.                                           *)
(***************************************************************************)
EXTENDS SerialEngine, MatchingEngineProofs, Sums

-----------------------------------------------------------------------------
(* The sums of the exchange.                                               *)

LEMMA ShownIsSum ==
  ASSUME NEW b, NEW S
  PROVE  Exchange!Shown(b, S) = SumFunctionOnSet([i \in S |-> b[i].qty], S)
<1> DEFINE f == [i \in S |-> b[i].qty]
           Summing(g) == g = [s \in SUBSET S |->
                                IF s = {} THEN 0
                                ELSE b[CHOOSE x \in s : TRUE].qty
                                       + g[s \ {CHOOSE x \in s : TRUE}]]
<1>1. \A g : Recursion(g, f, S) <=> Summing(g)
  BY AnyTaken DEF Recursion, Any
<1>2. Total(f, S) = (CHOOSE g : Summing(g))[S]
  BY <1>1 DEF Total
<1>3. Exchange!Shown(b, S) = Total(f, S)
  BY <1>2 DEF Exchange!Shown, Exchange!MapThenSumSet, Exchange!MapThenFoldSet
<1> QED
  BY <1>3, SumIsTotal

LEMMA GivenIsSum ==
  ASSUME NEW o, NEW b, NEW S
  PROVE  Given(o, b, S) = SumFunctionOnSet([i \in S |-> Exchange!Taken(o, b, i)], S)
<1> DEFINE f == [i \in S |-> Exchange!Taken(o, b, i)]
           Summing(g) == g = [s \in SUBSET S |->
                                IF s = {} THEN 0
                                ELSE Exchange!Taken(o, b, CHOOSE x \in s : TRUE)
                                       + g[s \ {CHOOSE x \in s : TRUE}]]
<1>1. \A g : Recursion(g, f, S) <=> Summing(g)
  BY AnyTaken DEF Recursion, Any
<1>2. Total(f, S) = (CHOOSE g : Summing(g))[S]
  BY <1>1 DEF Total
<1>3. Given(o, b, S) = Total(f, S)
  BY <1>2 DEF Given, MapThenSumSet, MapThenFoldSet
<1> QED
  BY <1>3, SumIsTotal

LEMMA TradedIsGiven ==
  ASSUME NEW o, NEW b
  PROVE  Exchange!Traded(o, b) = Given(o, b, Exchange!Hit(o, b))
BY DEF Exchange!Traded, Given, MapThenSumSet, MapThenFoldSet,
       Exchange!MapThenSumSet, Exchange!MapThenFoldSet

LEMMA AvailableIsShown ==
  ASSUME NEW o, NEW b
  PROVE  Available(o, b) =
           Exchange!Shown(b, {i \in Counterparties(o, b) :
                                AtBest(b, i) \/ PriceMatch(o, b[i].price)})
BY DEF Available, Exchange!Shown, MapThenSumSet, MapThenFoldSet,
       Exchange!MapThenSumSet, Exchange!MapThenFoldSet

LEMMA ShownParts ==
  ASSUME NEW b, NEW S, IsFiniteSet(S), \A i \in S : b[i].qty \in Nat
  PROVE  /\ Exchange!Shown(b, {}) = 0 /\ Exchange!Shown(b, S) \in Nat
         /\ \A T \in SUBSET S : /\ Exchange!Shown(b, T) \in Nat
                                /\ Exchange!Shown(b, T) <= Exchange!Shown(b, S)
         /\ \A i \in S : Exchange!Shown(b, S) = b[i].qty + Exchange!Shown(b, S \ {i})
<1> DEFINE f(T) == [i \in T |-> b[i].qty]
           g == f(S)
<1>1. \A T : Exchange!Shown(b, T) = SumFunctionOnSet(f(T), T)
  BY ShownIsSum
<1>2. \A i \in S : g[i] \in Nat /\ g[i] \in Int
  OBVIOUS
<1>3. ASSUME NEW T \in SUBSET S
      PROVE  SumFunctionOnSet(f(T), T) = SumFunctionOnSet(g, T) /\ IsFiniteSet(T)
  <2>1. IsFiniteSet(T) /\ \A i \in T : g[i] \in Int /\ f(T)[i] = g[i]
    BY FS_Subset
  <2> HIDE DEF f, g
  <2> QED
    BY <2>1, SumSame
<1>4. SumFunctionOnSet(g, {}) = 0
  BY SumEmpty
<1>5. ASSUME NEW T \in SUBSET S
      PROVE  SumFunctionOnSet(g, T) \in Nat /\ SumFunctionOnSet(g, T) <= SumFunctionOnSet(g, S)
  <2>1. IsFiniteSet(T) /\ \A i \in T : g[i] \in Nat
    BY <1>3
  <2> HIDE DEF g
  <2> QED
    BY <1>2, <2>1, SumNat, SumMonotone
<1>6. ASSUME NEW i \in S
      PROVE  SumFunctionOnSet(g, S) = b[i].qty + SumFunctionOnSet(g, S \ {i})
  <2>1. g[i] = b[i].qty
    OBVIOUS
  <2> HIDE DEF g
  <2> QED
    BY <1>2, <2>1, SumWithout
<1>7. \A T \in SUBSET S : Exchange!Shown(b, T) = SumFunctionOnSet(g, T)
  <2> HIDE DEF f, g
  <2> QED
    BY <1>1, <1>3
<1> HIDE DEF f, g
<1>8. {} \in SUBSET S /\ S \in SUBSET S /\ \A i \in S : S \ {i} \in SUBSET S
  OBVIOUS
<1> QED
  BY <1>4, <1>5, <1>6, <1>7, <1>8

LEMMA ShownSame ==
  ASSUME NEW b, NEW d, NEW S, IsFiniteSet(S),
         \A i \in S : b[i].qty \in Int /\ d[i].qty = b[i].qty
  PROVE  Exchange!Shown(d, S) = Exchange!Shown(b, S)
<1>1. [i \in S |-> d[i].qty] = [i \in S |-> b[i].qty]
  OBVIOUS
<1> QED
  BY <1>1, ShownIsSum

LEMMA GivenParts ==
  ASSUME NEW o, NEW b, NEW S, IsFiniteSet(S), NEW y, y \notin S,
         \A i \in S \cup {y} : Exchange!Taken(o, b, i) \in Int
  PROVE  /\ Given(o, b, {}) = 0
         /\ Given(o, b, S \cup {y}) = Given(o, b, S) + Exchange!Taken(o, b, y)
<1> DEFINE f(T) == [i \in T |-> Exchange!Taken(o, b, i)]
<1>1. \A T : Given(o, b, T) = SumFunctionOnSet(f(T), T)
  BY GivenIsSum
<1>2. PICK g, h : g = f(S) /\ h = f(S \cup {y})
  OBVIOUS
<1>3. /\ \A i \in S : g[i] \in Int /\ h[i] = g[i]
      /\ h[y] \in Int /\ h[y] = Exchange!Taken(o, b, y)
  BY <1>2
<1>4. SumFunctionOnSet(h, S \cup {y}) = SumFunctionOnSet(g, S) + h[y]
  BY <1>3, SumWith
<1>5. SumFunctionOnSet(f({}), {}) = 0
  BY SumEmpty
<1> QED
  BY <1>1, <1>2, <1>3, <1>4, <1>5

-----------------------------------------------------------------------------
(* The order in which a book is traversed.                                 *)

Ordered(b) ==
  /\ IsFiniteSet(DOMAIN b)
  /\ \A i \in DOMAIN b : /\ b[i].side \in Side /\ b[i].price \in Int /\ b[i].arrival \in Int
                         /\ b[i].qty \in Nat /\ b[i].qty > 0
                         /\ \A j \in DOMAIN b : b[i].arrival = b[j].arrival => i = j

LEMMA BeforeOrder ==
  ASSUME NEW b, Ordered(b), NEW i \in DOMAIN b, NEW j \in DOMAIN b
  PROVE  /\ ~Before(b, i, i) /\ ~(Before(b, i, j) /\ Before(b, j, i))
         /\ b[i].side = b[j].side /\ i # j => Before(b, i, j) \/ Before(b, j, i)
BY DEF Ordered, Before, Better, Side

LEMMA LeastIndex ==
  ASSUME NEW n \in Nat, NEW D, D \subseteq 1..n, D # {}
  PROVE  \E k \in D : \A l \in D : ~(l < k)
<1>1. PICK I : I = 1..n
  OBVIOUS
<1>2. PICK E : E = {1..l : l \in D}
  OBVIOUS
<1>3. IsFiniteSet(I)
  BY <1>1, FS_Interval
<1>4. E \subseteq SUBSET I
  BY <1>1, <1>2
<1>5. E # {}
  BY <1>2
<1>6. PICK x \in E : \A y \in E : y \subseteq x => y = x
  BY <1>3, <1>4, <1>5, LeastSubset
<1>7. PICK k \in D : x = 1..k
  BY <1>2, <1>6
<1>8. ASSUME NEW l \in D, l < k
      PROVE  FALSE
  <2>1. l \in Nat /\ k \in Nat /\ k >= 1
    OBVIOUS
  <2>2. 1..l \in E /\ 1..l \subseteq x
    BY <1>2, <1>7, <1>8, <2>1
  <2>3. 1..l = 1..k
    BY <1>6, <1>7, <2>2
  <2>4. k \in 1..k /\ k \notin 1..l
    BY <1>8, <2>1
  <2> QED
    BY <2>3, <2>4
<1> QED
  BY <1>8

\* Sequence q has n orders, in the order of book b; and all of p are in q.
InOrder(q, n, b) ==
  /\ DOMAIN q = 1..n /\ \A k \in 1..n : q[k] \in DOMAIN b
  /\ \A k, l \in 1..n : k < l => Before(b, q[k], q[l])

Covered(p, q, n) == \A k \in 1..n : \E l \in 1..n : p[k] = q[l]

Same(p, q, n) == \A k \in 1..n : p[k] = q[k]

\* Two sequences with the same members that both follow the order of a book are one.
LEMMA OneQueue ==
  ASSUME NEW b, Ordered(b), NEW n \in Nat, NEW p, InOrder(p, n, b), NEW q, InOrder(q, n, b),
         Covered(p, q, n), Covered(q, p, n)
  PROVE  Same(p, q, n)
<1> USE DEF InOrder, Covered, Same
<1>1. PICK D : D = {k \in 1..n : p[k] # q[k]}
  OBVIOUS
<1>2. SUFFICES ASSUME D # {}
               PROVE  FALSE
  BY <1>1
<1>3. PICK k \in 1..n : p[k] # q[k] /\ \A l \in 1..n : l < k => p[l] = q[l]
  <2>1. D \subseteq 1..n
    BY <1>1
  <2>2. PICK k \in D : \A l \in D : ~(l < k)
    BY <1>2, <2>1, LeastIndex
  <2> QED
    BY <1>1, <2>2
<1>4. PICK l \in 1..n : p[k] = q[l]
  BY <1>3
<1>5. PICK m \in 1..n : q[k] = p[m]
  BY <1>3
<1>6. l > k /\ m > k
  <2>1. ~(l < k)
    <3>1. l < k => p[l] = p[k] /\ Before(b, p[l], p[k])
      BY <1>3, <1>4
    <3> QED
      BY <1>3, <3>1, BeforeOrder
  <2>2. ~(m < k)
    <3>1. m < k => q[m] = q[k] /\ Before(b, q[m], q[k])
      BY <1>3, <1>5
    <3> QED
      BY <1>3, <3>1, BeforeOrder
  <2>3. l # k /\ m # k
    BY <1>3, <1>4, <1>5
  <2>4. l \in Nat /\ k \in Nat /\ m \in Nat
    BY <1>3, <1>4, <1>5
  <2> QED
    BY <2>1, <2>2, <2>3, <2>4
<1>7. Before(b, q[k], q[l]) /\ Before(b, p[k], p[m])
  BY <1>3, <1>6
<1>8. Before(b, q[k], p[k]) /\ Before(b, p[k], q[k])
  BY <1>4, <1>5, <1>7
<1> QED
  BY <1>3, <1>8, BeforeOrder

-----------------------------------------------------------------------------
(* The queue of the orders an order may trade with.                        *)

\* Order r and book d are order o and book b but for what a trade does not look at.
Alike(o, r, b, d) ==
  /\ r.account = o.account /\ r.side = o.side /\ r.type = o.type
  /\ r.price = o.price /\ r.qty = o.qty
  /\ DOMAIN d = DOMAIN b
  /\ \A i \in DOMAIN b :
       /\ d[i].account = b[i].account /\ d[i].side = b[i].side /\ d[i].price = b[i].price
       /\ d[i].qty = b[i].qty /\ d[i].arrival = b[i].arrival

LEMMA AlikeEligible ==
  ASSUME NEW o, NEW r, NEW b, NEW d, Alike(o, r, b, d)
  PROVE  /\ Exchange!Eligible(r, d) = Exchange!Eligible(o, b)
         /\ Exchange!Eligible(o, b) \subseteq DOMAIN b
         /\ \A i, j \in DOMAIN b : Before(d, i, j) <=> Before(b, i, j)
<1>1. \A i \in DOMAIN b : LevelsAhead(d, i) = LevelsAhead(b, i)
  BY DEF Alike, LevelsAhead
<1>2. \A i, j \in DOMAIN b : Before(d, i, j) <=> Before(b, i, j)
  BY DEF Alike, Before
<1>3. \A i \in DOMAIN b : i \in Exchange!Eligible(r, d) <=> i \in Exchange!Eligible(o, b)
  BY <1>1 DEF Alike, Exchange!Eligible, Exchange!Acceptable, WithinTop, Opposite,
              Exchange!WithinTop, Exchange!Opposite, Exchange!LevelsAhead,
              Exchange!Better, LevelsAhead, Better
<1>4. /\ Exchange!Eligible(r, d) \subseteq DOMAIN b
      /\ Exchange!Eligible(o, b) \subseteq DOMAIN b
  BY DEF Alike, Exchange!Eligible
<1> QED
  BY <1>2, <1>3, <1>4

LEMMA AheadIsShown ==
  ASSUME NEW o, NEW b, NEW i
  PROVE  Exchange!Ahead(o, b, i) =
           Exchange!Shown(b, {j \in Exchange!Eligible(o, b) : Before(b, j, i)})
BY DEF Exchange!Ahead, Exchange!Before, Exchange!Better, Before, Better

LEMMA EligibleParts ==
  ASSUME NEW b, Ordered(b), NEW o
  PROVE  /\ Exchange!Eligible(o, b) \subseteq DOMAIN b
         /\ \A S \in SUBSET Exchange!Eligible(o, b) :
              IsFiniteSet(S) /\ \A i \in S : b[i].qty \in Nat /\ b[i].qty > 0
         /\ \A i, j \in Exchange!Eligible(o, b) :
              ~Before(b, i, i) /\ (i # j => (Before(b, i, j) <=> ~Before(b, j, i)))
<1>1. /\ Exchange!Eligible(o, b) \subseteq DOMAIN b
      /\ \A i, j \in Exchange!Eligible(o, b) : b[i].side = b[j].side
  BY DEF Exchange!Eligible
<1>2. IsFiniteSet(DOMAIN b) /\ \A i \in DOMAIN b : b[i].qty \in Nat /\ b[i].qty > 0
  BY DEF Ordered
<1>3. ASSUME NEW S \in SUBSET Exchange!Eligible(o, b)
      PROVE  IsFiniteSet(S)
  BY <1>1, <1>2, FS_Subset
<1>4. \A i, j \in Exchange!Eligible(o, b) :
        ~Before(b, i, i) /\ (i # j => (Before(b, i, j) <=> ~Before(b, j, i)))
  BY <1>1, BeforeOrder
<1> QED
  BY <1>1, <1>2, <1>3, <1>4

LEMMA AlikeQueue ==
  ASSUME NEW o, NEW r, NEW b, NEW d, Ordered(b), Alike(o, r, b, d)
  PROVE  /\ \A i \in Exchange!Eligible(o, b) :
              /\ Exchange!Ahead(r, d, i) = Exchange!Ahead(o, b, i)
              /\ Exchange!Taken(r, d, i) = Exchange!Taken(o, b, i)
         /\ \A S \in SUBSET Exchange!Eligible(o, b) :
              /\ Exchange!Shown(d, S) = Exchange!Shown(b, S)
              /\ Given(r, d, S) = Given(o, b, S)
<1>1. PICK E : E = Exchange!Eligible(o, b)
  OBVIOUS
<1>2. /\ Exchange!Eligible(r, d) = E /\ E \subseteq DOMAIN b
      /\ \A i, j \in E : Before(d, i, j) <=> Before(b, i, j)
  BY <1>1, AlikeEligible
<1>3. ASSUME NEW S \in SUBSET E
      PROVE  Exchange!Shown(d, S) = Exchange!Shown(b, S)
  <2>1. IsFiniteSet(S) /\ \A i \in S : b[i].qty \in Int
    BY <1>1, EligibleParts
  <2>2. \A i \in S : d[i].qty = b[i].qty
    BY <1>2 DEF Alike
  <2> QED
    BY <2>1, <2>2, ShownSame
<1>4. ASSUME NEW i \in E
      PROVE  /\ Exchange!Ahead(r, d, i) = Exchange!Ahead(o, b, i)
             /\ Exchange!Taken(r, d, i) = Exchange!Taken(o, b, i)
  <2>1. PICK S : S = {j \in E : Before(b, j, i)}
    OBVIOUS
  <2>2. S \in SUBSET E /\ S = {j \in E : Before(d, j, i)}
    BY <1>2, <2>1
  <2>3. Exchange!Ahead(r, d, i) = Exchange!Ahead(o, b, i)
    BY <1>1, <1>2, <1>3, <2>1, <2>2, AheadIsShown
  <2> QED
    BY <1>2, <2>3 DEF Exchange!Taken, Alike
<1>5. ASSUME NEW S \in SUBSET E
      PROVE  Given(r, d, S) = Given(o, b, S)
  <2>1. [i \in S |-> Exchange!Taken(r, d, i)] = [i \in S |-> Exchange!Taken(o, b, i)]
    BY <1>4
  <2> QED
    BY <2>1, GivenIsSum
<1> QED
  BY <1>1, <1>3, <1>4, <1>5

LEMMA AlikeInQueue ==
  ASSUME NEW o, NEW r, NEW b, NEW d, Ordered(b), Alike(o, r, b, d),
         NEW fills, NEW rem, InQueue(o, b, fills, rem)
  PROVE  InQueue(r, d, fills, rem)
<1>1. PICK E : E = Exchange!Eligible(o, b)
  OBVIOUS
<1>2. /\ Exchange!Eligible(r, d) = E /\ E \subseteq DOMAIN b
      /\ \A i, j \in E : Before(d, i, j) <=> Before(b, i, j)
      /\ r.qty = o.qty /\ \A i \in E : d[i].price = b[i].price
  BY <1>1, AlikeEligible DEF Alike
<1>3. /\ \A i \in E : /\ Exchange!Ahead(r, d, i) = Exchange!Ahead(o, b, i)
                      /\ Exchange!Taken(r, d, i) = Exchange!Taken(o, b, i)
      /\ \A S \in SUBSET E : /\ Exchange!Shown(d, S) = Exchange!Shown(b, S)
                             /\ Given(r, d, S) = Given(o, b, S)
  BY <1>1, AlikeQueue
<1>4. Met(fills) \in SUBSET E
  BY <1>1 DEF InQueue, Met
<1>5. /\ Given(r, d, Met(fills)) = Given(o, b, Met(fills))
      /\ Exchange!Shown(d, Met(fills)) = Exchange!Shown(b, Met(fills))
  BY <1>3, <1>4
<1>6. ASSUME NEW k \in DOMAIN fills
      PROVE  LET f == fills[k]
             IN /\ f.rest \in Exchange!Eligible(r, d)
                /\ Exchange!Ahead(r, d, f.rest) < r.qty
                /\ f.price = d[f.rest].price /\ f.qty = Exchange!Taken(r, d, f.rest)
                /\ \A j \in Exchange!Eligible(r, d) :
                     Before(d, j, f.rest) <=> \E l \in 1..(k - 1) : j = fills[l].rest
  BY <1>1, <1>2, <1>3 DEF InQueue
<1> QED
  BY <1>2, <1>5, <1>6 DEF InQueue

LEMMA QueueStart ==
  ASSUME NEW o, o.qty \in Int, NEW b
  PROVE  InQueue(o, b, <<>>, o.qty)
<1>1. Met(<<>>) = {} /\ DOMAIN <<>> = {}
  BY DEF Met
<1>2. Given(o, b, {}) = 0 /\ Exchange!Shown(b, {}) = 0
  BY GivenIsSum, ShownIsSum, SumEmpty
<1>3. o.qty - o.qty = 0
  OBVIOUS
<1>4. \A e : e = <<>> => InQueue(o, b, e, o.qty)
  <2> TAKE e
  <2> HAVE e = <<>>
  <2>1. DOMAIN e = {} /\ Met(e) = {}
    BY <1>1
  <2> QED
    BY <1>2, <1>3, <2>1 DEF InQueue
<1> QED
  BY <1>4

\* Those met are in front of those not met.
LEMMA MetFirst ==
  ASSUME NEW b, Ordered(b), NEW o, NEW fills, NEW n \in Nat, DOMAIN fills = 1..n,
         NEW rem, InQueue(o, b, fills, rem),
         NEW i \in Exchange!Eligible(o, b), i \notin Met(fills), NEW j \in Met(fills)
  PROVE  Before(b, j, i)
<1>1. PICK k \in 1..n : j = fills[k].rest
  BY DEF Met
<1>2. /\ j \in Exchange!Eligible(o, b)
      /\ Before(b, i, j) <=> \E l \in 1..(k - 1) : i = fills[l].rest
  BY <1>1 DEF InQueue
<1>3. ~Before(b, i, j)
  BY <1>2 DEF Met
<1> QED
  BY <1>2, <1>3, EligibleParts

LEMMA QueueNext ==
  ASSUME NEW b, Ordered(b), NEW o, o.qty \in Int,
         NEW fills, NEW n \in Nat, DOMAIN fills = 1..n,
         NEW rem \in Nat, rem > 0, InQueue(o, b, fills, rem),
         NEW i \in Exchange!Eligible(o, b), i \notin Met(fills),
         \A j \in Exchange!Eligible(o, b) : j \notin Met(fills) => ~Before(b, j, i),
         NEW f, f = FillOf(i, b[i], rem),
         NEW all, DOMAIN all = 1..(n + 1), all[n + 1] = f, \A k \in 1..n : all[k] = fills[k]
  PROVE  InQueue(o, b, all, f.left)
<1>1. PICK E : E = Exchange!Eligible(o, b)
  OBVIOUS
<1>2. PICK M : M = Met(fills)
  OBVIOUS
<1>3. M \in SUBSET E /\ Met(all) = M \cup {i} /\ M \cup {i} \in SUBSET E /\ i \in E /\ i \notin M
  <2>1. f.rest = i
    BY DEF FillOf
  <2>2. \A k \in 1..n : fills[k].rest \in E
    BY <1>1 DEF InQueue
  <2>3. M = {fills[k].rest : k \in 1..n}
    BY <1>2 DEF Met
  <2>4. Met(all) = {all[k].rest : k \in 1..(n + 1)}
    BY DEF Met
  <2>5. ASSUME NEW j
        PROVE  j \in Met(all) <=> j \in M \cup {i}
    <3>1. \A k \in 1..(n + 1) : k \in 1..n \/ k = n + 1
      OBVIOUS
    <3>2. \A k \in 1..n : k \in 1..(n + 1)
      OBVIOUS
    <3>3. n + 1 \in 1..(n + 1)
      OBVIOUS
    <3> QED
      BY <2>1, <2>3, <2>4, <3>1, <3>2, <3>3
  <2> QED
    BY <1>1, <1>2, <2>2, <2>3, <2>5
<1>4. {j \in E : Before(b, j, i)} = M
  <2>1. \A j \in M : Before(b, j, i)
    BY <1>1, <1>2, MetFirst
  <2> QED
    BY <1>1, <1>2, <1>3, <2>1
<1>5. b[i].qty \in Nat /\ b[i].qty > 0 /\ IsFiniteSet(M \cup {i})
      /\ \A j \in M \cup {i} : b[j].qty \in Nat
  BY <1>1, <1>3, EligibleParts
<1>6. Exchange!Shown(b, M) = o.qty - rem
  BY <1>2 DEF InQueue
<1>7. Exchange!Ahead(o, b, i) = o.qty - rem
  BY <1>1, <1>4, <1>6, AheadIsShown
<1>8. /\ f.rest = i /\ f.price = b[i].price /\ f.qty = Exchange!Taken(o, b, i)
      /\ f.qty \in Int /\ f.left = rem - f.qty
      /\ f.qty = IF b[i].qty < rem THEN b[i].qty ELSE rem
  <2>1. o.qty - (o.qty - rem) = rem
    OBVIOUS
  <2> QED
    BY <1>5, <1>7, <2>1 DEF FillOf, Exchange!Taken
<1>9. Exchange!Shown(b, M \cup {i}) = o.qty - rem + b[i].qty
  <2>1. (M \cup {i}) \ {i} = M
    BY <1>3
  <2>2. Exchange!Shown(b, M \cup {i}) = b[i].qty + Exchange!Shown(b, M)
    <3>1. PICK S : S = M \cup {i}
      OBVIOUS
    <3>2. Exchange!Shown(b, S) = b[i].qty + Exchange!Shown(b, S \ {i})
      BY <1>5, <3>1, ShownParts
    <3> QED
      BY <2>1, <3>1, <3>2
  <2> QED
    BY <1>5, <1>6, <2>2
<1>10. Given(o, b, M \cup {i}) = o.qty - f.left
  <2>1. \A j \in M \cup {i} : Exchange!Taken(o, b, j) \in Int
    <3>1. \A j \in M : Exchange!Ahead(o, b, j) \in Int
      <4>1. ASSUME NEW j \in M
            PROVE  Exchange!Ahead(o, b, j) \in Int
        <5>1. PICK S : S = {x \in E : Before(b, x, j)}
          OBVIOUS
        <5>2. S \in SUBSET E
          BY <5>1
        <5>3. IsFiniteSet(S) /\ \A x \in S : b[x].qty \in Nat
          BY <1>1, <5>2, EligibleParts
        <5>4. Exchange!Shown(b, S) \in Nat
          BY <5>3, ShownParts
        <5> QED
          BY <1>1, <5>1, <5>4, AheadIsShown
      <4> QED
        BY <4>1
    <3> QED
      BY <1>5, <1>8, <3>1 DEF Exchange!Taken
  <2>2. IsFiniteSet(M)
    BY <1>5, FS_Subset
  <2>3. Given(o, b, M \cup {i}) = Given(o, b, M) + Exchange!Taken(o, b, i)
    BY <1>3, <2>1, <2>2, GivenParts
  <2>4. Given(o, b, M) = o.qty - rem
    BY <1>2 DEF InQueue
  <2> QED
    BY <1>8, <2>3, <2>4
<1>11. \/ Exchange!Shown(b, M \cup {i}) = o.qty - f.left
       \/ f.left = 0 /\ Exchange!Shown(b, M \cup {i}) >= o.qty
  BY <1>5, <1>8, <1>9
<1>12. ASSUME NEW k \in DOMAIN all
       PROVE  LET g == all[k]
              IN /\ g.rest \in E
                 /\ Exchange!Ahead(o, b, g.rest) < o.qty
                 /\ g.price = b[g.rest].price /\ g.qty = Exchange!Taken(o, b, g.rest)
                 /\ \A j \in E : Before(b, j, g.rest) <=> \E l \in 1..(k - 1) : j = all[l].rest
  <2>1. CASE k = n + 1
    <3>1. \A j \in E : Before(b, j, i) <=> j \in M
      BY <1>4
    <3>2. M = {fills[l].rest : l \in 1..n} /\ k - 1 = n
      BY <1>2, <2>1 DEF Met
    <3>3. \A j : j \in M <=> \E l \in 1..(k - 1) : j = all[l].rest
      BY <3>2
    <3>4. o.qty - rem < o.qty
      OBVIOUS
    <3>5. all[k].rest = i /\ all[k] = f
      BY <1>8, <2>1
    <3>6. \A j \in E : Before(b, j, i) <=> \E l \in 1..(k - 1) : j = all[l].rest
      BY <3>1, <3>3
    <3> QED
      BY <1>3, <1>7, <1>8, <3>4, <3>5, <3>6
  <2>2. CASE k # n + 1
    <3>1. k \in 1..n /\ all[k] = fills[k] /\ \A l \in 1..(k - 1) : l \in 1..n
      BY <2>2
    <3>2. \A l \in 1..(k - 1) : all[l] = fills[l]
      BY <3>1
    <3>3. LET g == fills[k]
          IN /\ g.rest \in E
             /\ Exchange!Ahead(o, b, g.rest) < o.qty
             /\ g.price = b[g.rest].price /\ g.qty = Exchange!Taken(o, b, g.rest)
             /\ \A j \in E : Before(b, j, g.rest) <=> \E l \in 1..(k - 1) : j = fills[l].rest
      BY <1>1, <3>1 DEF InQueue
    <3> QED
      BY <3>1, <3>2, <3>3
  <2> QED
    BY <2>1, <2>2
<1> QED
  BY <1>1, <1>3, <1>10, <1>11, <1>12 DEF InQueue

LEMMA QueueRests ==
  ASSUME NEW b, Ordered(b), NEW o, NEW fills, NEW n \in Nat, DOMAIN fills = 1..n,
         NEW rem, InQueue(o, b, fills, rem)
  PROVE  /\ \A k, l \in 1..n : k < l => Before(b, fills[k].rest, fills[l].rest)
         /\ \A k \in 1..n : fills[k].rest \in Met(fills) /\ fills[k].rest \in DOMAIN b
         /\ Met(fills) \in SUBSET Exchange!Eligible(o, b)
<1>1. \A k \in 1..n : fills[k].rest \in Exchange!Eligible(o, b)
  BY DEF InQueue
<1>2. \A k \in 1..n : fills[k].rest \in DOMAIN b
  BY <1>1, EligibleParts
<1>3. \A k \in 1..n : fills[k].rest \in Met(fills)
  BY DEF Met
<1>4. Met(fills) \in SUBSET Exchange!Eligible(o, b)
  BY <1>1 DEF Met
<1>5. ASSUME NEW k \in 1..n, NEW l \in 1..n, k < l
      PROVE  Before(b, fills[k].rest, fills[l].rest)
  <2>1. k \in 1..(l - 1)
    BY <1>5
  <2>2. Before(b, fills[k].rest, fills[l].rest)
          <=> \E x \in 1..(l - 1) : fills[k].rest = fills[x].rest
    BY <1>1 DEF InQueue
  <2> QED
    BY <2>1, <2>2
<1> QED
  BY <1>2, <1>3, <1>4, <1>5

LEMMA ExchangeCardinality ==
  ASSUME NEW S
  PROVE  Exchange!Cardinality(S) = Cardinality(S)
BY DEF Exchange!Cardinality, Cardinality

\* The trades are in the order in which the exchange takes the orders they are with.
LEMMA QueueIs ==
  ASSUME NEW b, Ordered(b), NEW o, NEW fills, NEW n \in Nat, DOMAIN fills = 1..n,
         NEW rem, InQueue(o, b, fills, rem)
  PROVE  Exchange!Queue(b, Met(fills)) = [k \in 1..n |-> fills[k].rest]
<1>1. PICK M : M = Met(fills)
  OBVIOUS
<1>2. PICK p : p = [k \in 1..n |-> fills[k].rest]
  OBVIOUS
<1> DEFINE Follows(q) == \A k, l \in 1..n : k < l => Before(b, q[k], q[l])
<1>3. p \in [1..n -> M] /\ Follows(p) /\ M \subseteq DOMAIN b
  <2>1. M \subseteq DOMAIN b
    BY <1>1, QueueRests, EligibleParts
  <2>2. \A k \in 1..n : p[k] = fills[k].rest
    BY <1>2
  <2>3. ASSUME NEW k \in 1..n, NEW l \in 1..n, k < l
        PROVE  Before(b, p[k], p[l])
    <3>1. Before(b, fills[k].rest, fills[l].rest)
      BY <2>3, QueueRests
    <3> QED
      BY <2>2, <3>1
  <2> QED
    BY <1>1, <1>2, <2>1, <2>3, QueueRests
<1>4. ASSUME NEW q \in [1..n -> M], Follows(q)
      PROVE  q \in Injection(1..n, M)
  <2>1. ASSUME NEW k \in 1..n, NEW l \in 1..n, q[k] = q[l]
        PROVE  k = l
    <3>1. q[k] \in DOMAIN b /\ ~Before(b, q[k], q[k])
      BY <1>3, BeforeOrder
    <3>2. ~(k < l) /\ ~(l < k)
      BY <1>4, <2>1, <3>1
    <3> QED
      BY <3>2
  <2> QED
    BY <2>1 DEF Injection, IsInjective
<1>5. p \in Surjection(1..n, M)
  <2>1. \A x \in M : \E k \in 1..n : p[k] = x
    BY <1>1, <1>2 DEF Met
  <2> QED
    BY <1>3, <2>1 DEF Surjection
<1>6. IsFiniteSet(1..n) /\ Cardinality(1..n) = n
  BY FS_Interval
<1>7. IsFiniteSet(M) /\ Cardinality(M) = n
  <2>1. p \in Injection(1..n, M)
    BY <1>3, <1>4
  <2> QED
    BY <1>5, <1>6, <2>1, FS_Surjection
<1>8. ASSUME NEW q \in [1..n -> M], Follows(q)
      PROVE  q = p
  <2>1. q \in Injection(1..n, M)
    BY <1>4, <1>8
  <2>2. q \in Surjection(1..n, M)
    BY <1>6, <1>7, <2>1, FS_Injection
  <2>3. Covered(p, q, n) /\ Covered(q, p, n)
    BY <1>3, <1>5, <2>2 DEF Surjection, Covered
  <2>4. InOrder(p, n, b) /\ InOrder(q, n, b)
    BY <1>3, <1>8 DEF InOrder
  <2>5. Same(p, q, n)
    <3> HIDE DEF Follows
    <3>1. Ordered(b) /\ n \in Nat
      OBVIOUS
    <3> QED
      BY ONLY <2>3, <2>4, <3>1, OneQueue
  <2> QED
    BY <1>3, <2>5 DEF Same
<1>9. Exchange!Queue(b, M) = CHOOSE q \in [1..n -> M] : Follows(q)
  <2>1. Exchange!Cardinality(M) = n
    BY <1>7, ExchangeCardinality
  <2>2. \A i, j : Exchange!Before(b, i, j) <=> Before(b, i, j)
    BY DEF Exchange!Before, Exchange!Better, Before, Better
  <2> QED
    BY <2>1, <2>2 DEF Exchange!Queue
<1>10. (CHOOSE q \in [1..n -> M] : Follows(q)) = p
  <2> HIDE DEF Follows
  <2> QED
    BY <1>3, <1>8
<1> QED
  BY <1>1, <1>2, <1>9, <1>10

LEMMA EligibleIsMatchable ==
  ASSUME NEW o, NEW b
  PROVE  Exchange!Eligible(o, b) = Matchable(o, b)
<1>1. \A i : Exchange!WithinTop(b, i, MaxDepthLevels) <=> WithinTop(b, i, MaxDepthLevels)
  BY ExchangeCardinality DEF Exchange!WithinTop, WithinTop, Exchange!LevelsAhead, LevelsAhead,
                             Exchange!Better, Better
<1>2. \A i : i \in Exchange!Eligible(o, b) <=> i \in Matchable(o, b)
  BY <1>1 DEF Exchange!Eligible, Matchable, Counterparties, Exchange!Acceptable, PriceMatch,
              Exchange!Opposite, Opposite
<1> QED
  BY <1>2

\* What is available to a fill-or-kill order is what it may trade with, unless the
\* best level, which counts at any price, is worse than its limit: then it may trade
\* with nothing.
LEMMA AvailableToTrade ==
  ASSUME NEW b, Ordered(b), NEW o, o.side \in Side, o.type = "fok", o.price \in Int
  PROVE  LET E == Exchange!Eligible(o, b)
         IN  /\ Exchange!Shown(b, E) <= Available(o, b)
             /\ E = {} \/ Available(o, b) = Exchange!Shown(b, E)
<1>1. PICK C : C = Counterparties(o, b)
  OBVIOUS
<1>2. PICK E : E = {i \in C : PriceMatch(o, b[i].price)}
  OBVIOUS
<1>3. PICK S : S = {i \in C : AtBest(b, i) \/ PriceMatch(o, b[i].price)}
  OBVIOUS
<1>4. Exchange!Eligible(o, b) = E /\ Available(o, b) = Exchange!Shown(b, S)
  BY <1>1, <1>2, <1>3, EligibleIsMatchable, AvailableIsShown DEF Matchable
<1>5. /\ C \subseteq DOMAIN b /\ E \subseteq S /\ IsFiniteSet(S)
      /\ \A i \in S : b[i].qty \in Nat
  <2>1. C \subseteq DOMAIN b
    BY <1>1 DEF Counterparties
  <2>2. S \subseteq DOMAIN b /\ E \subseteq S
    BY <1>2, <1>3, <2>1
  <2>3. IsFiniteSet(S) /\ \A i \in S : b[i].qty \in Nat
    BY <2>2, FS_Subset DEF Ordered
  <2> QED
    BY <2>1, <2>2, <2>3
<1>6. Exchange!Shown(b, E) <= Exchange!Shown(b, S)
  BY <1>5, ShownParts
<1>7. ASSUME NEW i \in E
      PROVE  E = S
  <2>1. ASSUME NEW j \in S
        PROVE  PriceMatch(o, b[j].price)
    <3>1. CASE AtBest(b, j)
      <4>1. /\ i \in DOMAIN b /\ j \in DOMAIN b /\ b[i].side = b[j].side
            /\ b[i].side = Opposite(o.side) /\ PriceMatch(o, b[i].price)
        BY <1>1, <1>2, <1>3, <1>5, <1>7, <2>1 DEF Counterparties
      <4>2. b[i].price \in Int /\ b[j].price \in Int
        BY <4>1 DEF Ordered
      <4>3. ~Better(b[j].side, b[i].price, b[j].price)
        BY <3>1, <4>1 DEF AtBest, LevelsAhead
      <4> QED
        BY <4>1, <4>2, <4>3 DEF Better, PriceMatch, Opposite, Side
    <3>2. CASE ~AtBest(b, j)
      BY <1>3, <2>1, <3>2
    <3> QED
      BY <3>1, <3>2
  <2> QED
    BY <1>2, <1>3, <2>1
<1> QED
  BY <1>4, <1>6, <1>7

\* When Match is through, it has met those the exchange lets the order trade with.
LEMMA QueueEnd ==
  ASSUME NEW b, Ordered(b), NEW o, o.qty \in Int,
         NEW fills, NEW n \in Nat, DOMAIN fills = 1..n,
         NEW rem \in Nat, InQueue(o, b, fills, rem),
         rem = 0 \/ Exchange!Eligible(o, b) \subseteq Met(fills),
         o.type = "fok" => \/ Exchange!Eligible(o, b) = {}
                           \/ Exchange!Shown(b, Exchange!Eligible(o, b)) >= o.qty
  PROVE  Exchange!Hit(o, b) = Met(fills) /\ Exchange!Traded(o, b) = o.qty - rem
<1>1. PICK E : E = Exchange!Eligible(o, b)
  OBVIOUS
<1>2. PICK M : M = Met(fills)
  OBVIOUS
<1>3. M \in SUBSET E /\ \A i \in M : Exchange!Ahead(o, b, i) < o.qty
  BY <1>1, <1>2 DEF InQueue, Met
<1>4. ASSUME NEW i \in E, Exchange!Ahead(o, b, i) < o.qty, i \notin M
      PROVE  FALSE
  <2>1. PICK S : S = {j \in E : Before(b, j, i)}
    OBVIOUS
  <2>2. \A j \in M : Before(b, j, i)
    BY <1>1, <1>2, <1>4, MetFirst
  <2>3. M \in SUBSET S /\ S \in SUBSET E
    BY <1>3, <2>1, <2>2
  <2>4. IsFiniteSet(S) /\ \A j \in S : b[j].qty \in Nat
    BY <1>1, <2>3, EligibleParts
  <2>5. /\ Exchange!Shown(b, M) <= Exchange!Shown(b, S)
        /\ Exchange!Shown(b, M) \in Nat /\ Exchange!Shown(b, S) \in Nat
    BY <2>3, <2>4, ShownParts
  <2>6. Exchange!Ahead(o, b, i) = Exchange!Shown(b, S)
    BY <1>1, <2>1, AheadIsShown
  <2>7. rem = 0
    BY <1>1, <1>2, <1>4
  <2>8. Exchange!Shown(b, M) >= o.qty
    BY <1>2, <2>5, <2>7 DEF InQueue
  <2> QED
    BY <1>4, <2>5, <2>6, <2>8
<1>5. Exchange!Hit(o, b) = M
  <2>1. {i \in E : Exchange!Ahead(o, b, i) < o.qty} = M
    BY <1>3, <1>4
  <2>2. IsFiniteSet(E) /\ \A j \in E : b[j].qty \in Nat
    BY <1>1, EligibleParts
  <2>3. Exchange!Shown(b, E) \in Nat
    BY <2>2, ShownParts
  <2>4. E = {} => M = {}
    BY <1>3
  <2> QED
    BY <1>1, <2>1, <2>3, <2>4 DEF Exchange!Hit
<1>6. Given(o, b, M) = o.qty - rem
  BY <1>2 DEF InQueue
<1> QED
  BY <1>2, <1>5, <1>6, TradedIsGiven

-----------------------------------------------------------------------------
(* What the mapping shows.                                                 *)

AllInv == IInv /\ SerialInv /\ ExchangeInv

LEMMA QtySums ==
  ASSUME NEW S
  PROVE  /\ S = {} => MapThenSumSet(LAMBDA f : f.qty, S) = 0
         /\ \A f : S = {f} /\ f.qty \in Int => MapThenSumSet(LAMBDA g : g.qty, S) = f.qty
<1> DEFINE h == [f \in S |-> f.qty]
           Summing(g) == g = [s \in SUBSET S |->
                                IF s = {} THEN 0
                                ELSE (CHOOSE x \in s : TRUE).qty
                                       + g[s \ {CHOOSE x \in s : TRUE}]]
<1>1. \A g : Recursion(g, h, S) <=> Summing(g)
  BY AnyTaken DEF Recursion, Any
<1>2. Total(h, S) = (CHOOSE g : Summing(g))[S]
  BY <1>1 DEF Total
<1>3. MapThenSumSet(LAMBDA f : f.qty, S) = Total(h, S)
  BY <1>2 DEF MapThenSumSet, MapThenFoldSet
<1>4. MapThenSumSet(LAMBDA f : f.qty, S) = SumFunctionOnSet(h, S)
  BY <1>3, SumIsTotal
<1>5. S = {} => SumFunctionOnSet(h, S) = 0
  BY SumEmpty
<1>6. ASSUME NEW f, S = {f}, f.qty \in Int
      PROVE  SumFunctionOnSet(h, S) = f.qty
  <2>1. f \in S /\ h[f] = f.qty /\ IsFiniteSet(S) /\ \A x \in S : h[x] \in Int
    BY <1>6, FS_Singleton
  <2>2. S \ {f} = {}
    BY <1>6
  <2> HIDE DEF h
  <2>3. SumFunctionOnSet(h, S) = h[f] + SumFunctionOnSet(h, S \ {f})
    BY <2>1, SumWithout
  <2>4. SumFunctionOnSet(h, S \ {f}) = 0
    BY <2>2, SumEmpty
  <2> QED
    BY <1>6, <2>1, <2>3, <2>4
<1> QED
  BY <1>4, <1>5, <1>6

\* The entry of order i as the exchange has it while no call settles trades.
Shade(s, i) ==
  [account |-> book[s][i].account, side |-> book[s][i].side, price |-> book[s][i].price,
   qty |-> book[s][i].qty, rem |-> tracked[i].rem, arrival |-> book[s][i].arrival]

Published ==
  [n \in DOMAIN trades |-> Deal(trades[n].buy, trades[n].sell, trades[n].price, trades[n].qty)]

\* While no call settles trades the mapping shows the books as they are.
QuietView ==
  /\ \A s \in Symbol : BookAfter(s) = [i \in DOMAIN book[s] |-> Shade(s, i)]
  /\ Joining = {} /\ Cardinality(Joining) = 0 /\ TradesAfter = Published

LEMMA RestingTracked ==
  ASSUME AllInv
  PROVE  \A s \in Symbol : \A i \in DOMAIN book[s] :
           i \in DOMAIN tracked /\ tracked[i].rem \in Int
<1> SUFFICES ASSUME NEW s \in Symbol, NEW i \in DOMAIN book[s]
             PROVE  i \in DOMAIN tracked /\ tracked[i].rem \in Int
  OBVIOUS
<1>1. i \in DOMAIN tracked
  <2>1. CASE Settling(i)
    <3>1. PICK c \in DOMAIN call : /\ call[c].pc \in {"remove", "update"}
                                  /\ call[c].fills[call[c].next].rest = i
      BY <2>1 DEF Settling, At, Current
    <3>2. NothingLeft(call[c]) /\ InSettlement(call[c])
      BY <3>1 DEF AllInv, ExchangeInv, SerialInv, TradesInSettlement
    <3> QED
      BY <3>1, <3>2 DEF NothingLeft, InSettlement, Live
  <2>2. CASE ~Settling(i)
    BY <2>2 DEF AllInv, SerialInv, RestingIsLive, Live
  <2> QED
    BY <2>1, <2>2
<1> QED
  BY <1>1 DEF AllInv, IInv, TypeOK, ReporterTypeOK, Tracked

LEMMA QuietViews == AllInv /\ Settlers = {} => QuietView
<1> SUFFICES ASSUME AllInv, Settlers = {}
             PROVE  QuietView
  OBVIOUS
<1>1. Unsettled = {} /\ Unrecorded = {} /\ Joining = {}
  BY DEF Unsettled, Unrecorded, Joining
<1>2. Cardinality(Joining) = 0
  BY <1>1, FS_EmptySet
<1>3. TradesAfter = Published
  BY DEF TradesAfter, Published
<1>4. ASSUME NEW s \in Symbol
      PROVE  BookAfter(s) = [i \in DOMAIN book[s] |-> Shade(s, i)]
  <2>1. ASSUME NEW i \in DOMAIN book[s]
        PROVE  ~Leaving(i) /\ EntryAfter(s, i) = Shade(s, i)
    <3>1. {f \in Unrecorded : f.rest = i} = {} /\ {f \in Unsettled : f.rest = i} = {}
      BY <1>1
    <3>2. MapThenSumSet(LAMBDA f : f.qty, {f \in Unrecorded : f.rest = i}) = 0
      BY <3>1, QtySums
    <3>3. RemainderOf(i) = tracked[i].rem
      BY <3>2, RestingTracked DEF RemainderOf
    <3>4. QuantityOf(s, i) = book[s][i].qty
      BY <3>1 DEF QuantityOf
    <3> QED
      BY <1>1, <3>3, <3>4 DEF Leaving, EntryAfter, Shade
  <2>2. {i \in DOMAIN book[s] : ~Leaving(i)} = DOMAIN book[s]
    BY <2>1
  <2>3. {call[c].order.id : c \in {d \in Joining : call[d].order.symbol = s}} = {}
    BY <1>1
  <2> QED
    BY <2>1, <2>2, <2>3 DEF BookAfter
<1> QED
  BY <1>1, <1>2, <1>3, <1>4 DEF QuietView

\* The one call in progress settles trades; order i is in one of those to settle.
Settles(c) == DOMAIN call = {c} /\ call[c].pc \in {"record", "remove", "update"}

Due(c, i) == \E k \in UnsettledAt(c) : call[c].fills[k].rest = i

Joins(c) == call[c].order.type \in RestingType /\ call[c].rem > 0

\* What the mapping makes of the orders in the trades of call c.
DuesView(c) ==
  LET m == call[c]
  IN  /\ Settlers = {c}
      /\ \A i \in DOMAIN tracked :
           (\A k \in UnrecordedAt(c) : m.fills[k].rest # i) => RemainderOf(i) = tracked[i].rem
      /\ \A k \in UnrecordedAt(c) :
           RemainderOf(m.fills[k].rest) = tracked[m.fills[k].rest].rem - m.fills[k].qty
      /\ \A i : Leaving(i) <=> Due(c, i) /\ RemainderOf(i) <= 0
      /\ \A s \in Symbol : \A i \in DOMAIN book[s] :
           ~Due(c, i) => QuantityOf(s, i) = book[s][i].qty
      /\ \A s \in Symbol : \A k \in UnsettledAt(c) :
           QuantityOf(s, m.fills[k].rest) = m.fills[k].restLeft

LEMMA DueParts ==
  ASSUME AllInv, NEW c \in Client, Settles(c)
  PROVE  LET m == call[c]
         IN  /\ m \in Call /\ m.order.symbol \in Symbol /\ m.next \in Nat /\ m.next > 0
             /\ DOMAIN m.fills = 1..Len(m.fills) /\ Len(m.fills) \in Nat
             /\ UnrecordedAt(c) \subseteq UnsettledAt(c)
             /\ UnsettledAt(c) \subseteq DOMAIN m.fills
             /\ \A k, l \in DOMAIN m.fills : m.fills[k].rest = m.fills[l].rest => k = l
             /\ \A k \in UnsettledAt(c) :
                  /\ m.fills[k] \in Fill /\ m.fills[k].rest \in DOMAIN book[m.order.symbol]
                  /\ book[m.order.symbol][m.fills[k].rest].qty
                       = m.fills[k].restLeft + m.fills[k].qty
                  /\ m.fills[k].rest \in DOMAIN tracked
                  /\ tracked[m.fills[k].rest].rem \in Int
<1> DEFINE m == call[c]
<1>1. m \in Call
  BY DEF Settles, AllInv, IInv, TypeOK, CallsTypeOK
<1>2. /\ m.order.symbol \in Symbol /\ m.next \in Nat /\ m.next > 0 /\ m.fills \in Seq(Fill)
      /\ DOMAIN m.fills = 1..Len(m.fills) /\ Len(m.fills) \in Nat
  BY <1>1 DEF Call, Order, Positive
<1>3. UnrecordedAt(c) \subseteq UnsettledAt(c) /\ UnsettledAt(c) \subseteq DOMAIN m.fills
  BY <1>2 DEF UnrecordedAt, UnsettledAt
<1>4. m.pc \in Registered /\ EntriesKept(m)
  BY DEF Settles, Registered, AllInv, SerialInv, EntriesAwaitTrades
<1>5. \A k, l \in DOMAIN m.fills : m.fills[k].rest = m.fills[l].rest => k = l
  BY <1>4 DEF EntriesKept
<1>6. ASSUME NEW k \in UnsettledAt(c)
      PROVE  /\ m.fills[k] \in Fill /\ m.fills[k].rest \in DOMAIN book[m.order.symbol]
             /\ book[m.order.symbol][m.fills[k].rest].qty = m.fills[k].restLeft + m.fills[k].qty
             /\ m.fills[k].rest \in DOMAIN tracked
             /\ tracked[m.fills[k].rest].rem \in Int
  <2>1. k \in DOMAIN m.fills /\ m.fills[k] \in Fill
    BY <1>2, <1>3
  <2>2. k \in Pending(m)
    BY <1>2, <2>1 DEF Pending, UnsettledAt
  <2>3. /\ m.fills[k].rest \in DOMAIN book[m.order.symbol]
        /\ book[m.order.symbol][m.fills[k].rest].qty = m.fills[k].restLeft + m.fills[k].qty
    BY <1>4, <2>2 DEF EntriesKept
  <2> QED
    BY <1>2, <2>1, <2>3, RestingTracked
<1> QED
  BY <1>1, <1>2, <1>3, <1>5, <1>6

LEMMA DuesViews ==
  ASSUME NEW c \in Client
  PROVE  AllInv /\ Settles(c) => DuesView(c)
<1> SUFFICES ASSUME AllInv, Settles(c)
             PROVE  DuesView(c)
  OBVIOUS
<1>1. PICK m : m = call[c]
  OBVIOUS
<1>2. Settlers = {c}
  BY DEF Settlers, Settles
<1>3. PICK U : U = UnsettledAt(c)
  OBVIOUS
<1>4. PICK R : R = UnrecordedAt(c)
  OBVIOUS
<1>5. Unsettled = {m.fills[k] : k \in U} /\ Unrecorded = {m.fills[k] : k \in R}
  BY <1>1, <1>2, <1>3, <1>4 DEF Unsettled, Unrecorded
<1>6. /\ R \subseteq U /\ \A k, l \in U : m.fills[k].rest = m.fills[l].rest => k = l
      /\ \A k \in U : m.fills[k] \in Fill
      /\ \A k \in U : tracked[m.fills[k].rest].rem \in Int
  <2>1. U \subseteq DOMAIN m.fills
    BY <1>1, <1>3, DueParts
  <2>2. \A k, l \in DOMAIN m.fills : m.fills[k].rest = m.fills[l].rest => k = l
    BY <1>1, DueParts
  <2>3. R \subseteq U /\ \A k \in U : m.fills[k] \in Fill /\ tracked[m.fills[k].rest].rem \in Int
    BY <1>1, <1>3, <1>4, DueParts
  <2> QED
    BY <2>1, <2>2, <2>3
<1>7. ASSUME NEW i \in DOMAIN tracked, \A k \in R : m.fills[k].rest # i
      PROVE  RemainderOf(i) = tracked[i].rem
  <2>1. {f \in Unrecorded : f.rest = i} = {}
    BY <1>5, <1>7
  <2>2. MapThenSumSet(LAMBDA f : f.qty, {f \in Unrecorded : f.rest = i}) = 0
    BY <2>1, QtySums
  <2>3. tracked[i].rem \in Int
    BY DEF AllInv, IInv, TypeOK, ReporterTypeOK, Tracked
  <2> QED
    BY <2>2, <2>3 DEF RemainderOf
<1>8. ASSUME NEW k \in R
      PROVE  RemainderOf(m.fills[k].rest) = tracked[m.fills[k].rest].rem - m.fills[k].qty
  <2>1. PICK S : S = {f \in Unrecorded : f.rest = m.fills[k].rest}
    OBVIOUS
  <2>2. S = {m.fills[k]}
    BY <1>5, <1>6, <2>1
  <2>3. m.fills[k].qty \in Int
    BY <1>6 DEF Fill, Positive
  <2>4. MapThenSumSet(LAMBDA f : f.qty, S) = m.fills[k].qty
    BY <2>2, <2>3, QtySums
  <2> QED
    BY <2>1, <2>4 DEF RemainderOf
<1>9. ASSUME NEW i
      PROVE  Leaving(i) <=> Due(c, i) /\ RemainderOf(i) <= 0
  BY <1>1, <1>3, <1>5 DEF Leaving, Due
<1>10. ASSUME NEW s \in Symbol, NEW i \in DOMAIN book[s], ~Due(c, i)
       PROVE  QuantityOf(s, i) = book[s][i].qty
  <2>1. {f \in Unsettled : f.rest = i} = {}
    BY <1>1, <1>3, <1>5, <1>10 DEF Due
  <2> QED
    BY <2>1 DEF QuantityOf
<1>11. ASSUME NEW s \in Symbol, NEW k \in U
       PROVE  QuantityOf(s, m.fills[k].rest) = m.fills[k].restLeft
  <2>1. PICK S : S = {f \in Unsettled : f.rest = m.fills[k].rest}
    OBVIOUS
  <2>2. S = {m.fills[k]}
    BY <1>5, <1>6, <2>1
  <2>3. QuantityOf(s, m.fills[k].rest) = (CHOOSE f \in S : TRUE).restLeft
    BY <2>1, <2>2 DEF QuantityOf
  <2>4. (CHOOSE f \in S : TRUE) \in S
    BY <2>2
  <2> QED
    BY <2>2, <2>3, <2>4
<1> QED
  BY <1>1, <1>2, <1>3, <1>4, <1>7, <1>8, <1>9, <1>10, <1>11 DEF DuesView

\* The books the mapping makes of it, and the trades.
BookView(c) ==
  LET m == call[c]
  IN  /\ Joining = IF Joins(c) THEN {c} ELSE {}
      /\ Cardinality(Joining) = IF Joins(c) THEN 1 ELSE 0
      /\ \A s \in Symbol :
           /\ BookAfter(s) = [i \in DOMAIN BookAfter(s) |-> BookAfter(s)[i]]
           /\ DOMAIN BookAfter(s) =
                {i \in DOMAIN book[s] : ~Leaving(i)}
                  \cup {i \in {m.order.id} : Joins(c) /\ m.order.symbol = s}
           /\ \A i \in DOMAIN book[s] : ~Leaving(i) => BookAfter(s)[i] = EntryAfter(s, i)
           /\ Joins(c) /\ m.order.symbol = s => BookAfter(s)[m.order.id] = Joined(c)

\* The first trade that is not recorded.
FirstToCome(m) == m.next + (IF m.pc = "record" THEN 0 ELSE 1)

ToCome(m) ==
  [n \in 1..(1 + Len(m.fills) - FirstToCome(m)) |->
     LET f == m.fills[n + FirstToCome(m) - 1]
     IN  Deal(BuyId(m.order, f), SellId(m.order, f), f.price, f.qty)]

TradesView(c) == TradesAfter = Published \o ToCome(call[c])

LEMMA BookViews ==
  ASSUME NEW c \in Client
  PROVE  AllInv /\ Settles(c) => BookView(c)
<1> SUFFICES ASSUME AllInv, Settles(c)
             PROVE  BookView(c)
  OBVIOUS
<1>1. PICK m : m = call[c]
  OBVIOUS
<1>2. Settlers = {c}
  BY DuesViews DEF DuesView
<1>3. Joining = IF Joins(c) THEN {c} ELSE {}
  BY <1>2 DEF Joining, Joins
<1>4. Cardinality(Joining) = IF Joins(c) THEN 1 ELSE 0
  BY <1>3, FS_EmptySet, FS_Singleton
<1>5. ASSUME NEW s \in Symbol
      PROVE  /\ BookAfter(s) = [i \in DOMAIN BookAfter(s) |-> BookAfter(s)[i]]
             /\ DOMAIN BookAfter(s) =
                  {i \in DOMAIN book[s] : ~Leaving(i)}
                    \cup {i \in {m.order.id} : Joins(c) /\ m.order.symbol = s}
             /\ \A i \in DOMAIN book[s] : ~Leaving(i) => BookAfter(s)[i] = EntryAfter(s, i)
             /\ Joins(c) /\ m.order.symbol = s => BookAfter(s)[m.order.id] = Joined(c)
  <2>1. PICK stay : stay = {i \in DOMAIN book[s] : ~Leaving(i)}
    OBVIOUS
  <2>2. PICK join : join = {d \in Joining : call[d].order.symbol = s}
    OBVIOUS
  <2>3. join = IF Joins(c) /\ m.order.symbol = s THEN {c} ELSE {}
    BY <1>1, <1>3, <2>2
  <2>4. {call[d].order.id : d \in join} = {i \in {m.order.id} : Joins(c) /\ m.order.symbol = s}
    BY <1>1, <2>3
  <2>5. m.order.id \notin stay
    BY <1>1, <2>1, InHandUnbooked DEF AllInv, Settles
  <2>6. BookAfter(s) =
          [i \in stay \cup {call[d].order.id : d \in join} |->
             IF i \in stay THEN EntryAfter(s, i)
             ELSE Joined(CHOOSE d \in join : call[d].order.id = i)]
    BY <2>1, <2>2 DEF BookAfter
  <2>7. ASSUME Joins(c), m.order.symbol = s
        PROVE  BookAfter(s)[m.order.id] = Joined(c)
    <3>1. join = {c}
      BY <2>3, <2>7
    <3>2. (CHOOSE d \in join : call[d].order.id = m.order.id) = c
      BY <1>1, <3>1
    <3>3. m.order.id \in {call[d].order.id : d \in join}
      BY <1>1, <3>1
    <3> QED
      BY <2>5, <2>6, <3>2, <3>3
  <2> QED
    BY <2>1, <2>4, <2>6, <2>7
<1> QED
  BY <1>1, <1>3, <1>4, <1>5 DEF BookView

LEMMA TradesViews ==
  ASSUME NEW c \in Client
  PROVE  AllInv /\ Settles(c) => TradesView(c)
<1> SUFFICES ASSUME AllInv, Settles(c)
             PROVE  TradesView(c)
  OBVIOUS
<1>1. PICK m : m = call[c]
  OBVIOUS
<1>2. Settlers = {c} /\ Settlers # {} /\ (CHOOSE d \in Settlers : TRUE) = c
  <2>1. Settlers = {c}
    BY DuesViews DEF DuesView
  <2> QED
    BY <2>1
<1>3. At(c, "record") <=> m.pc = "record"
  BY <1>1 DEF At, Settles
<1>4. PICK first : first = FirstToCome(m)
  OBVIOUS
<1>5. PICK due : due = SubSeq(m.fills, first, Len(m.fills))
  OBVIOUS
<1>6. /\ DOMAIN due = 1..(1 + Len(m.fills) - first)
      /\ \A n \in DOMAIN due : due[n] = m.fills[n + first - 1]
  <2>1. m \in Call /\ m.pc \in {"record", "remove", "update"} /\ Chained(m) /\ WellFormed(m)
    BY <1>1 DEF Settles, AllInv, IInv, FillsChained, CallsWellFormed, TypeOK, CallsTypeOK
  <2>2. /\ m.fills \in Seq(Fill) /\ m.next \in Nat /\ m.next > 0 /\ Len(m.fills) \in Nat
    BY <2>1 DEF Call, Positive
  <2>3. first \in 1..(Len(m.fills) + 1)
    BY <1>4, <2>1, <2>2 DEF FirstToCome, Chained, WellFormed, Working, Registered
  <2>4. PICK last : last = Len(m.fills)
    OBVIOUS
  <2>5. last \in Nat /\ last >= first - 1 /\ last <= Len(m.fills)
    BY <2>2, <2>3, <2>4
  <2> QED
    BY <1>5, <2>2, <2>3, <2>4, <2>5
<1>7. TradesAfter = Published \o [n \in DOMAIN due |->
                      Deal(BuyId(m.order, due[n]), SellId(m.order, due[n]),
                           due[n].price, due[n].qty)]
  BY <1>1, <1>2, <1>3, <1>4, <1>5 DEF TradesAfter, Published, FirstToCome
<1>8. ToCome(m) = [n \in DOMAIN due |->
                      Deal(BuyId(m.order, due[n]), SellId(m.order, due[n]),
                           due[n].price, due[n].qty)]
  BY <1>4, <1>6 DEF ToCome
<1> QED
  BY <1>1, <1>7, <1>8 DEF TradesView

-----------------------------------------------------------------------------
(* What was asked for.                                                     *)

LEMMA RequestKept ==
  ASSUME NEW o \in Order, NEW x, NEW y
  PROVE  /\ RequestOf([o EXCEPT !.left = x]) = RequestOf(o)
         /\ RequestOf([o EXCEPT !.left = x, !.canceled = y]) = RequestOf(o)
BY DEF RequestOf, Order

SameRequests ==
  /\ DOMAIN orders' = DOMAIN orders
  /\ \A i \in DOMAIN orders : RequestOf(orders'[i]) = RequestOf(orders[i])

LEMMA LeftChanged ==
  ASSUME TypeOK, NEW j, NEW x, orders' = [orders EXCEPT ![j].left = x]
  PROVE  SameRequests
<1>1. orders \in [DOMAIN orders -> Order]
  BY DEF TypeOK, OrdersTypeOK
<1>2. \A i \in DOMAIN orders : orders'[i] = orders[i] \/ orders'[i] = [orders[i] EXCEPT !.left = x]
  BY <1>1
<1>3. \A i \in DOMAIN orders : RequestOf([orders[i] EXCEPT !.left = x]) = RequestOf(orders[i])
  BY <1>1, RequestKept
<1>4. DOMAIN orders' = DOMAIN orders
  OBVIOUS
<1> QED
  BY <1>2, <1>3, <1>4 DEF SameRequests

LEMMA RequestsKept ==
  ASSUME TypeOK, CallsWellFormed, NEW c \in Client, Step(c) \/ Ask(c), ~RegisterOrder(c)
  PROVE  SameRequests
<1>1. orders \in [DOMAIN orders -> Order]
  BY DEF TypeOK, OrdersTypeOK
<1>2. CASE UNCHANGED orders
  BY <1>2 DEF SameRequests
<1>3. CASE RecordTrade(c) \/ RecordTradeFails(c)
  <2>1. PICK ids : BookTrade(ids, Current(c).qty)
    BY <1>3 DEF RecordTrade, RecordTradeFails
  <2>2. DOMAIN orders' = DOMAIN orders
    BY <2>1 DEF BookTrade
  <2>3. \A i \in DOMAIN orders :
          orders'[i] = orders[i] \/ \E x : orders'[i] = [orders[i] EXCEPT !.left = x]
    BY <2>1 DEF BookTrade
  <2> QED
    BY <1>1, <2>2, <2>3, RequestKept DEF SameRequests
<1>4. CASE MatchNode(c)
  <2>1. \E j, x : orders' = [orders EXCEPT ![j].left = x]
    BY <1>4 DEF MatchNode
  <2> QED
    BY <2>1, LeftChanged
<1>5. CASE EndMatch(c)
  <2>1. PICK j, x : \/ orders' = orders
                    \/ orders' = [orders EXCEPT ![j].left = 0, ![j].canceled = x]
    BY <1>5 DEF EndMatch, CancelUnmatched
  <2>2. CASE orders' = [orders EXCEPT ![j].left = 0, ![j].canceled = x]
    <3>1. PICK g : g = [orders EXCEPT ![j].left = 0]
      OBVIOUS
    <3>2. orders' = [g EXCEPT ![j].canceled = x]
      BY <2>2, <3>1
    <3>3. DOMAIN g = DOMAIN orders /\ DOMAIN orders' = DOMAIN orders
      BY <1>1, <3>1, <3>2
    <3>4. ASSUME NEW i \in DOMAIN orders
          PROVE  RequestOf(orders'[i]) = RequestOf(orders[i])
      <4>1. CASE i = j
        <5>1. g[i] = [orders[i] EXCEPT !.left = 0] /\ orders'[i] = [g[i] EXCEPT !.canceled = x]
          BY <1>1, <3>1, <3>2, <3>3, <4>1
        <5> QED
          BY <1>1, <5>1 DEF RequestOf, Order
      <4>2. CASE i # j
        BY <1>1, <3>1, <3>2, <3>3, <4>2
      <4> QED
        BY <4>1, <4>2
    <3> QED
      BY <3>3, <3>4 DEF SameRequests
  <2> QED
    BY <2>1, <2>2 DEF SameRequests
<1>6. CASE CancelRemainder(c)
  <2>1. orders' = orders \/ \E j, x : orders' = [orders EXCEPT ![j].left = x]
    BY <1>6 DEF CancelRemainder
  <2> QED
    BY <2>1, LeftChanged DEF SameRequests
<1> QED
  BY <1>2, <1>3, <1>4, <1>5, <1>6
     DEF Step, Ask, Lookup, TurnAway, Refuse, Admit, Enough, Insufficient, RemoveResting,
         UpdateResting, AddOrder, Finish, ReportCancel, NotFound, Unbook, Replace,
         SubmitOrder, CancelOrder, ModifyOrder, Close, ClearReporter

LEMMA AskedKept ==
  ASSUME TypeOK, CallsWellFormed, NEW c \in Client, Step(c) \/ Ask(c), ~RegisterOrder(c)
  PROVE  Asked' = Asked
BY RequestsKept DEF Asked, SameRequests

-----------------------------------------------------------------------------
(* The invariant of the refinement.                                        *)

LEMMA IdsBounded ==
  ASSUME AllInv, NEW c \in Client, Step(c) \/ Ask(c)
  PROVE  nextID' <= MaxOrders + 1
<1>1. nextID <= MaxOrders + 1 /\ nextID \in Nat
  BY DEF AllInv, ExchangeInv, IInv, TypeOK, EngineTypeOK, Positive
<1>2. CASE SubmitOrder(c)
  BY <1>1, <1>2, EngineAssumption DEF SubmitOrder
<1>3. CASE nextID' = nextID
  BY <1>1, <1>3
<1> QED
  BY <1>2, <1>3
     DEF Step, Ask, Lookup, TurnAway, Refuse, Admit, RegisterOrder, Enough, Insufficient,
         MatchNode, EndMatch, RecordTrade, RecordTradeFails, RemoveResting, UpdateResting,
         AddOrder, CancelRemainder, Finish, ReportCancel, NotFound, Unbook, Replace,
         CancelOrder, ModifyOrder, Close, ClearReporter

\* An entry that stays in a book keeps everything but its quantity.
SameEntry(e, d) ==
  /\ e.account = d.account /\ e.side = d.side /\ e.price = d.price /\ e.arrival = d.arrival

LEMMA EntriesStay ==
  ASSUME Serialised, AllInv, NEW c \in Client, Step(c) \/ Ask(c), ~AddOrder(c)
  PROVE  /\ arrivals' = arrivals
         /\ \A s \in Symbol : \A i \in DOMAIN book'[s] :
              i \in DOMAIN book[s] /\ SameEntry(book'[s][i], book[s][i])
<1>1. arrivals' = arrivals
  BY DEF Step, Ask, Lookup, TurnAway, Refuse, Admit, RegisterOrder, Enough, Insufficient,
         MatchNode, EndMatch, RecordTrade, RecordTradeFails, RemoveResting, UpdateResting,
         AddOrder, CancelRemainder, Finish, ReportCancel, NotFound, Unbook, Replace,
         SubmitOrder, CancelOrder, ModifyOrder, Close, ClearReporter, books
<1>2. \A s \in Symbol : DOMAIN book'[s] \subseteq DOMAIN book[s]
  BY BooksShrink DEF AllInv, IInv
<1>3. CASE UNCHANGED book
  BY <1>1, <1>3 DEF SameEntry
<1>4. CASE RemoveResting(c) \/ Unbook(c) \/ Replace(c)
  <2>1. call[c].order.symbol \in Symbol
    BY <1>4 DEF RemoveResting, Unbook, Replace, At, AllInv, IInv, TypeOK, CallsTypeOK, Call, Order
  <2>2. PICK s \in Symbol, i \in {Current(c).rest, call[c].order.id} : book' = Without(s, i)
    BY <1>4, <2>1 DEF RemoveResting, Unbook, Replace
  <2>3. \A t \in Symbol : \A x \in DOMAIN book'[t] : book'[t][x] = book[t][x]
    BY <2>2, WithoutEffect DEF AllInv, IInv
  <2> QED
    BY <1>1, <1>2, <2>3 DEF SameEntry
<1>5. CASE UpdateResting(c)
  <2>1. PICK s : s = call[c].order.symbol
    OBVIOUS
  <2>2. PICK f : f = Current(c)
    OBVIOUS
  <2>3. book' = Resized(s, f.rest, f.restLeft) /\ s \in Symbol /\ f.rest \in DOMAIN book[s]
    BY <1>5, <2>1, <2>2, SettlingCall DEF UpdateResting, AllInv
  <2>4. book = [t \in Symbol |-> book[t]] /\ book[s] \in [DOMAIN book[s] -> Resting]
    BY <2>3 DEF AllInv, IInv, TypeOK, BooksTypeOK
  <2>5. book' = [book EXCEPT ![s] = ResizeOrder(book[s], f.rest, f.restLeft)]
    BY <2>3 DEF Resized
  <2>6. book'[s] = ResizeOrder(book[s], f.rest, f.restLeft)
        /\ \A t \in Symbol : t # s => book'[t] = book[t]
    BY <2>3, <2>4, <2>5
  <2>7. ASSUME NEW i \in DOMAIN book[s]
        PROVE  SameEntry(book'[s][i], book[s][i])
    <3>1. book'[s][i] = book[s][i] \/ book'[s][i] = [book[s][i] EXCEPT !.qty = f.restLeft]
      BY <2>4, <2>6 DEF ResizeOrder
    <3>2. book[s][i] \in Resting
      BY <2>4
    <3> QED
      BY <3>1, <3>2 DEF SameEntry, Resting
  <2> QED
    BY <1>1, <1>2, <2>3, <2>6, <2>7 DEF SameEntry
<1>6. CASE Close(c)
  BY <1>1, <1>6 DEF Close, EmptyBook
<1> QED
  BY <1>3, <1>4, <1>5, <1>6
     DEF Step, Ask, Lookup, TurnAway, Refuse, Admit, RegisterOrder, Enough, Insufficient,
         MatchNode, EndMatch, RecordTrade, RecordTradeFails, CancelRemainder, Finish,
         ReportCancel, NotFound, SubmitOrder, CancelOrder, ModifyOrder, ClearReporter, books

LEMMA ArrivalsStep ==
  ASSUME Serialised, AllInv, NEW c \in Client, Step(c) \/ Ask(c)
  PROVE  ArrivalsInOrder'
<1>1. ArrivalsInOrder /\ arrivals \in Nat
  BY DEF AllInv, ExchangeInv, IInv, TypeOK, EngineTypeOK
<1>2. CASE ~AddOrder(c)
  BY <1>1, <1>2, EntriesStay DEF ArrivalsInOrder, SameEntry
<1>3. CASE AddOrder(c)
  <2>1. PICK o : o = call[c].order
    OBVIOUS
  <2>2. /\ DOMAIN book'[o.symbol] = DOMAIN book[o.symbol] \cup {o.id}
        /\ book'[o.symbol][o.id].arrival = arrivals + 1
        /\ \A i \in DOMAIN book[o.symbol] :
             i # o.id /\ book'[o.symbol][i] = book[o.symbol][i]
        /\ \A s \in Symbol : s # o.symbol => book'[s] = book[s]
        /\ arrivals' = arrivals + 1
    <3>1. IInv /\ SerialInv
      BY DEF AllInv
    <3>2. arrivals' = arrivals + 1
      BY <1>3 DEF AddOrder
    <3>3. EntryOf(o, arrivals + 1).arrival = arrivals + 1
      BY DEF EntryOf
    <3> QED
      BY <1>3, <2>1, <3>1, <3>2, <3>3, AddOrderEffect
  <2>3. \A s \in Symbol : \A i \in DOMAIN book[s] : book[s][i].arrival \in Nat
    BY DEF AllInv, IInv, TypeOK, BooksTypeOK, Resting
  <2>4. ASSUME NEW s \in Symbol, NEW i \in DOMAIN book'[s], NEW j \in DOMAIN book'[s],
               book'[s][i].arrival = book'[s][j].arrival
        PROVE  i = j
    BY <1>1, <2>2, <2>3, <2>4 DEF ArrivalsInOrder
  <2>5. ASSUME NEW s \in Symbol, NEW i \in DOMAIN book'[s]
        PROVE  book'[s][i].arrival <= arrivals'
    BY <1>1, <2>2, <2>3 DEF ArrivalsInOrder
  <2> QED
    BY <2>4, <2>5 DEF ArrivalsInOrder
<1> QED
  BY <1>2, <1>3

LEMMA OfferedAsking ==
  ASSUME TypeOK, NEW c \in Client, SubmitOrder(c) \/ CancelOrder(c) \/ ModifyOrder(c)
  PROVE  Offered(call[c])'
<1>1. CASE SubmitOrder(c)
  <2>1. PICK r \in Requests :
          Begin(c, "submit",
                [id |-> nextID, account |-> r.account, symbol |-> r.symbol,
                 side |-> r.side, type |-> r.type, price |-> r.price,
                 qty |-> r.qty, left |-> r.qty, canceled |-> 0])
    BY <1>1 DEF SubmitOrder
  <2>2. /\ call'[c].pc = "submit"
        /\ call'[c].order = [id |-> nextID, account |-> r.account, symbol |-> r.symbol,
                             side |-> r.side, type |-> r.type, price |-> r.price,
                             qty |-> r.qty, left |-> r.qty, canceled |-> 0]
    BY <2>1 DEF Begin, Put
  <2>3. RequestOf(call'[c].order) = r
    <3>1. r \in Request
      BY EngineAssumption
    <3> QED
      BY <2>2, <3>1 DEF RequestOf, Request
  <2> QED
    BY <2>2, <2>3 DEF Offered, Offers, Working, Registered
<1>2. CASE CancelOrder(c)
  <2>1. call'[c].pc = "unbook"
    BY <1>2 DEF CancelOrder, Begin, Put
  <2> QED
    BY <2>1 DEF Offered, Working, Registered
<1>3. CASE ModifyOrder(c)
  <2>1. PICK i \in DOMAIN orders, s \in Symbol, a \in Amendments :
          Begin(c, "replace", [orders[i] EXCEPT !.symbol = s, !.price = a.price, !.qty = a.qty])
    BY <1>3 DEF ModifyOrder
  <2>2. /\ call'[c].pc = "replace"
        /\ call'[c].order = [orders[i] EXCEPT !.symbol = s, !.price = a.price, !.qty = a.qty]
    BY <2>1 DEF Begin, Put
  <2>3. orders[i] \in Order /\ a \in [price : Int, qty : Int]
    BY EngineAssumption DEF TypeOK, OrdersTypeOK
  <2>4. call'[c].order.price = a.price /\ call'[c].order.qty = a.qty
    BY <2>2, <2>3 DEF Order
  <2>5. [price |-> call'[c].order.price, qty |-> call'[c].order.qty] = a
    BY <2>3, <2>4
  <2> QED
    BY <2>2, <2>5 DEF Offered, Working, Registered
<1> QED
  BY <1>1, <1>2, <1>3

\* A call that goes on, and does not replace its order, keeps it.
LEMMA OrderKept ==
  ASSUME Serialised, AllInv, NEW c \in Client, Continuing(c), ~Replace(c)
  PROVE  /\ call'[c].order = call[c].order /\ call'[c].pc \notin {"submit", "replace"}
         /\ call'[c].pc \in Working => call[c].pc \in {"submit"} \cup Working
         /\ call'[c].pc \in Registered => call[c].pc \in Registered \/ RegisterOrder(c)
<1>1. IInv /\ SerialInv /\ TypeOK
  BY DEF AllInv, IInv
<1>2. CASE \/ Admit(c) \/ RegisterOrder(c) \/ Enough(c) \/ EndMatch(c)
           \/ RecordTrade(c) \/ Unbook(c)
  <2>1. call'[c].order = call[c].order
    BY <1>1, <1>2, MovingCalls DEF Moves
  <2>2. /\ Admit(c) => call[c].pc = "submit" /\ call'[c].pc = "register"
        /\ RegisterOrder(c) => call[c].pc = "register" /\ call'[c].pc \in {"liquidity", "match"}
        /\ Enough(c) => call[c].pc = "liquidity" /\ call'[c].pc = "match"
        /\ EndMatch(c) => call[c].pc = "match" /\ call'[c].pc = "record"
        /\ RecordTrade(c) => call[c].pc = "record" /\ call'[c].pc \in {"remove", "update"}
        /\ Unbook(c) => call'[c].pc = "cancel"
    BY <1>1, <1>2, MovingCalls
       DEF Moves, Admit, RegisterOrder, Enough, EndMatch, RecordTrade, Recording, At
  <2> QED
    BY <1>2, <2>1, <2>2 DEF Working, Registered
<1>3. CASE MatchNode(c)
  BY <1>1, <1>3, MatchNodeFill DEF Working, Registered
<1>4. CASE RemoveResting(c) \/ UpdateResting(c)
  <2>1. /\ call[c].pc \in {"remove", "update"}
        /\ call'[c].pc = "record" /\ call'[c].order = call[c].order
    BY <1>1, <1>4, SettlingCall
  <2> QED
    BY <2>1 DEF Working, Registered
<1> QED
  BY <1>2, <1>3, <1>4 DEF Continuing

LEMMA OfferedContinuing ==
  ASSUME Serialised, AllInv, NEW c \in Client, Continuing(c)
  PROVE  Offered(call[c])'
<1>1. IInv /\ SerialInv /\ TypeOK /\ CallsWellFormed
  BY DEF AllInv, IInv
<1>2. c \in DOMAIN call /\ call[c] \in Call /\ Offered(call[c])
  BY <1>1, ContinuingCalls DEF AllInv, ExchangeInv
<1>3. CASE Replace(c)
  <2>1. PICK o : o = call[c].order
    OBVIOUS
  <2>2. PICK entry : entry = book[o.symbol][o.id]
    OBVIOUS
  <2>3. /\ call[c].pc = "replace" /\ o \in Order
        /\ o.symbol \in Symbol /\ o.id \in DOMAIN book[o.symbol]
        /\ [price |-> o.price, qty |-> o.qty] \in Amendments
    BY <1>2, <1>3, <2>1 DEF Replace, At, Call, Order, Offered
  <2>4. entry \in Resting
    BY <1>1, <2>2, <2>3 DEF TypeOK, BooksTypeOK
  <2>5. call'[c].pc = "submit" /\ call'[c].order = ReplacementOf(o, entry)
    <3>1. PICK m : m = [call[c] EXCEPT !.pc = "submit", !.order = ReplacementOf(o, entry),
                                       !.rem = o.qty]
      OBVIOUS
    <3>2. m.pc = "submit" /\ m.order = ReplacementOf(o, entry)
      BY <1>2, <3>1 DEF Call
    <3>3. call' = Disturb([call EXCEPT ![c].pc = "submit",
                                       ![c].order = ReplacementOf(o, entry),
                                       ![c].rem = o.qty], {o.symbol})
      BY <1>3, <2>1, <2>2 DEF Replace
    <3>4. PICK f : f = [call EXCEPT ![c].pc = "submit",
                                    ![c].order = ReplacementOf(o, entry),
                                    ![c].rem = o.qty]
      OBVIOUS
    <3>5. call \in [DOMAIN call -> Call]
      BY <1>1 DEF TypeOK, CallsTypeOK
    <3>6. f[c] = m /\ c \in DOMAIN f
      BY <1>2, <3>1, <3>4, <3>5
    <3>7. Disturb(f, {o.symbol})[c] = f[c]
      BY <3>2, <3>6, DisturbUntorn
    <3> QED
      BY <3>2, <3>3, <3>4, <3>6, <3>7
  <2>6. RequestOf(ReplacementOf(o, entry)) =
          [account |-> entry.account, symbol |-> DefaultSymbol, side |-> entry.side,
           type |-> "limit", price |-> o.price, qty |-> o.qty]
    BY DEF RequestOf, ReplacementOf
  <2>7. PICK a \in Amendments : a.price = o.price /\ a.qty = o.qty
    BY <2>3
  <2>8. entry.account \in Account /\ entry.side \in Side
    BY <2>4 DEF Resting
  <2>9. RequestOf(ReplacementOf(o, entry)) \in Offers
    BY <2>6, <2>7, <2>8 DEF Offers
  <2> QED
    BY <2>5, <2>9 DEF Offered, Working, Registered
<1>4. CASE ~Replace(c)
  <2>1. PICK o : o = call[c].order
    OBVIOUS
  <2>2. /\ call'[c].order = o /\ call'[c].pc \notin {"submit", "replace"}
        /\ call'[c].pc \in Working => call[c].pc \in {"submit"} \cup Working
        /\ call'[c].pc \in Registered => call[c].pc \in Registered \/ RegisterOrder(c)
    BY <1>4, <2>1, OrderKept
  <2>3. ASSUME call'[c].pc \in Registered
        PROVE  RequestOf(orders'[o.id]) = RequestOf(o)
    <3>1. CASE RegisterOrder(c)
      BY <1>1, <2>1, <3>1, RegisterOrderTypes
    <3>2. CASE ~RegisterOrder(c)
      <4>1. call[c].pc \in Registered
        BY <2>2, <2>3, <3>2
      <4>2. o.id \in DOMAIN orders /\ RequestOf(orders[o.id]) = RequestOf(o)
        BY <1>1, <1>2, <2>1, <4>1 DEF Offered, CallsWellFormed, WellFormed
      <4>3. Step(c)
        BY DEF Continuing, Step, Lookup
      <4> QED
        BY <1>1, <3>2, <4>2, <4>3, RequestsKept DEF SameRequests
    <3> QED
      BY <3>1, <3>2
  <2> QED
    BY <1>2, <2>1, <2>2, <2>3 DEF Offered
<1> QED
  BY <1>3, <1>4

LEMMA BooksOrdered ==
  ASSUME IInv, ArrivalsInOrder
  PROVE  \A s \in Symbol : Ordered(book[s])
<1> SUFFICES ASSUME NEW s \in Symbol
             PROVE  Ordered(book[s])
  OBVIOUS
<1>1. book[s] \in [DOMAIN book[s] -> Resting] /\ DOMAIN book[s] \subseteq DOMAIN orders
  BY DEF IInv, TypeOK, BooksTypeOK
<1>2. DOMAIN orders \subseteq 1..nextID /\ nextID \in Nat
  BY DEF IInv, IdsAllocated, TypeOK, OrdersTypeOK, EngineTypeOK, OrderId, Positive
<1>3. IsFiniteSet(DOMAIN book[s])
  BY <1>1, <1>2, FS_Interval, FS_Subset
<1>4. \A i \in DOMAIN book[s] : /\ book[s][i].side \in Side /\ book[s][i].price \in Int
                                /\ book[s][i].arrival \in Int
                                /\ book[s][i].qty \in Nat /\ book[s][i].qty > 0
  BY <1>1 DEF Resting, Positive
<1> QED
  BY <1>3, <1>4 DEF Ordered, ArrivalsInOrder

\* The order Match works on, and the book it goes through.
LEMMA MatchingParts ==
  ASSUME AllInv, NEW c \in DOMAIN call, call[c].pc \in Working
  PROVE  LET m == call[c]
         IN  /\ m \in Call /\ m.order \in Order /\ m.order.symbol \in Symbol
             /\ m.order.qty \in Nat /\ m.order.qty > 0 /\ m.order.price \in Int
             /\ m.order.side \in Side /\ m.fills \in Seq(Fill)
             /\ Len(m.fills) \in Nat /\ DOMAIN m.fills = 1..Len(m.fills)
             /\ m.rem \in Nat /\ ~m.torn /\ Ordered(book[m.order.symbol])
             /\ m.pc \in {"register", "liquidity"} => m.fills = <<>> /\ m.rem = m.order.qty
<1> DEFINE m == call[c]
<1>1. /\ m \in Call /\ TypeOK /\ CallsWellFormed /\ FillsChained /\ ~m.torn
      /\ WellFormed(m) /\ Chained(m)
  BY DEF AllInv, IInv, TypeOK, CallsTypeOK, CallsWellFormed, FillsChained, SerialInv, Undisturbed
<1>2. /\ m.order \in Order /\ m.order.symbol \in Symbol /\ m.order.qty \in Int
      /\ m.order.price \in Int /\ m.order.side \in Side /\ m.fills \in Seq(Fill)
      /\ Len(m.fills) \in Nat /\ DOMAIN m.fills = 1..Len(m.fills)
  BY <1>1 DEF Call, Order
<1>3. m.order.qty \in Nat /\ m.order.qty > 0
  BY <1>1, <1>2 DEF WellFormed, Valid
<1>4. m.rem \in Nat
  BY <1>1, RemNatural
<1>5. Ordered(book[m.order.symbol])
  BY <1>2, BooksOrdered DEF AllInv, ExchangeInv
<1>6. m.pc \in {"register", "liquidity"} => m.fills = <<>> /\ m.rem = m.order.qty
  BY <1>1 DEF Chained, Remaining, Working, Registered
<1> QED
  BY <1>1, <1>2, <1>3, <1>4, <1>5, <1>6

LEMMA QueuedStart ==
  ASSUME Serialised, AllInv, NEW c \in Client, RegisterOrder(c) \/ Enough(c)
  PROVE  Queued(call[c])'
<1>1. PICK m : m = call[c]
  OBVIOUS
<1>2. /\ c \in DOMAIN call /\ m.pc \in {"register", "liquidity"} /\ book' = book
      /\ RegisterOrder(c) => m.pc = "register"
  BY <1>1 DEF RegisterOrder, Enough, At, books
<1>3. /\ m.order.qty \in Int /\ m.fills = <<>> /\ m.rem = m.order.qty /\ ~m.torn
  BY <1>1, <1>2, MatchingParts DEF Working, Registered
<1>4. /\ call'[c].order = m.order /\ call'[c].fills = m.fills /\ call'[c].rem = m.rem
      /\ RegisterOrder(c) => call'[c].pc = IF m.order.type = "fok" THEN "liquidity" ELSE "match"
  BY <1>1, MovingCalls DEF Moves, AllInv, IInv
<1>5. InQueue(m.order, book[m.order.symbol], m.fills, m.rem)
  BY <1>3, QueueStart
<1>6. Enough(c) => Available(m.order, book[m.order.symbol]) >= m.order.qty
  BY <1>1, <1>3 DEF Enough
<1>7. call'[c].pc = "liquidity" => m.order.type = "fok"
  BY <1>1, <1>4, MovingCalls DEF Moves, AllInv, IInv
<1> QED
  BY <1>2, <1>4, <1>5, <1>6, <1>7 DEF Queued

LEMMA QueuedMatchNode ==
  ASSUME Serialised, AllInv, NEW c \in Client, MatchNode(c)
  PROVE  Queued(call[c])'
<1>1. PICK m : m = call[c]
  OBVIOUS
<1>2. PICK b : b = book[m.order.symbol]
  OBVIOUS
<1>3. c \in DOMAIN call /\ m.pc = "match" /\ m.rem > 0 /\ book' = book
  BY <1>1 DEF MatchNode, At, books
<1>4. /\ m.order.qty \in Int /\ m.rem \in Nat /\ ~m.torn /\ Ordered(b) /\ m.fills \in Seq(Fill)
      /\ Len(m.fills) \in Nat /\ DOMAIN m.fills = 1..Len(m.fills)
      /\ m.order \in Order
  BY <1>1, <1>2, <1>3, MatchingParts DEF Working, Registered
<1>5. /\ InQueue(m.order, b, m.fills, m.rem)
      /\ m.order.type = "fok" => Available(m.order, b) >= m.order.qty
  BY <1>1, <1>2, <1>3 DEF AllInv, ExchangeInv, Queued
<1>6. ToMeet(c) = Exchange!Eligible(m.order, b) \ Met(m.fills)
  BY <1>1, <1>2, EligibleIsMatchable DEF ToMeet, TradedWith, Met
<1>7. PICK i \in Unvisited(c) :
        /\ Reached(c, i)
        /\ LET f == FillOf(i, b[i], m.rem)
           IN  /\ call' = [call EXCEPT ![c].fills = Append(@, f), ![c].rem = f.left]
               /\ orders' = [orders EXCEPT ![m.order.id].left = f.left]
  BY <1>1, <1>2 DEF MatchNode
<1>8. PICK f : f = FillOf(i, b[i], m.rem)
  OBVIOUS
<1>9. PICK all : all = Append(m.fills, f)
  OBVIOUS
<1>10. call'[c].pc = "match" /\ call'[c].order = m.order
  BY <1>1, MatchNodeFill DEF AllInv, IInv
<1>11. call'[c].fills = all /\ call'[c].rem = f.left
  <2>1. PICK g : g = [call EXCEPT ![c].fills = all]
    OBVIOUS
  <2>2. call' = [g EXCEPT ![c].rem = f.left]
    BY <1>1, <1>7, <1>8, <1>9, <2>1
  <2>3. call \in [DOMAIN call -> Call]
    BY DEF AllInv, IInv, TypeOK, CallsTypeOK
  <2>4. DOMAIN g = DOMAIN call /\ g[c] = [m EXCEPT !.fills = all]
    BY <1>1, <1>3, <2>1, <2>3
  <2>5. m \in Call
    BY <1>1, <1>3, <2>3
  <2>6. call'[c] = [g[c] EXCEPT !.rem = f.left]
    BY <1>3, <2>2, <2>4
  <2> QED
    BY <2>4, <2>5, <2>6 DEF Call
<1>12. PICK n \in Nat : n = Len(m.fills)
  BY <1>4
<1>13. DOMAIN all = 1..(n + 1) /\ all[n + 1] = f /\ \A k \in 1..n : all[k] = m.fills[k]
  BY <1>4, <1>9, <1>12
<1>14. \A j \in Exchange!Eligible(m.order, b) : j \notin Met(m.fills) => ~Before(b, j, i)
  BY <1>1, <1>2, <1>4, <1>6, <1>7, ReachedFirst
<1>15. i \in Exchange!Eligible(m.order, b) /\ i \notin Met(m.fills)
  BY <1>6, <1>7, WalksCover
<1>16. DOMAIN m.fills = 1..n /\ f.left = FillOf(i, b[i], m.rem).left
  BY <1>4, <1>8, <1>12
<1>17. InQueue(m.order, b, all, f.left)
  <2>1. PICK o : o = m.order
    OBVIOUS
  <2>2. PICK fills : fills = m.fills
    OBVIOUS
  <2>3. PICK rem : rem = m.rem
    OBVIOUS
  <2>4. /\ Ordered(b) /\ o.qty \in Int /\ DOMAIN fills = 1..n /\ rem \in Nat /\ rem > 0
        /\ InQueue(o, b, fills, rem) /\ i \in Exchange!Eligible(o, b) /\ i \notin Met(fills)
        /\ \A j \in Exchange!Eligible(o, b) : j \notin Met(fills) => ~Before(b, j, i)
        /\ f = FillOf(i, b[i], rem) /\ DOMAIN all = 1..(n + 1) /\ all[n + 1] = f
        /\ \A k \in 1..n : all[k] = fills[k]
    BY <1>3, <1>4, <1>5, <1>8, <1>13, <1>14, <1>15, <1>16, <2>1, <2>2, <2>3
  <2>5. InQueue(o, b, all, f.left)
    BY ONLY <2>4, n \in Nat, QueueNext
  <2> QED
    BY <2>1, <2>5
<1>18. book'[call'[c].order.symbol] = b
  BY <1>2, <1>3, <1>10
<1> QED
  BY <1>5, <1>10, <1>11, <1>17, <1>18 DEF Queued

LEMMA NothingLeftRecorded ==
  ASSUME Serialised, AllInv, NEW c \in Client, RecordTrade(c)
  PROVE  NothingLeft(call[c])'
<1>1. PICK o : o = call[c].order
  OBVIOUS
<1>2. PICK f : f = Current(c)
  OBVIOUS
<1>3. /\ DOMAIN tracked' = DOMAIN tracked
      /\ f.rest \in DOMAIN tracked => tracked'[f.rest].rem = tracked[f.rest].rem - f.qty
      /\ Moves(c, IF tracked[f.rest].rem - f.qty <= 0 THEN "remove" ELSE "update")
  BY <1>1, <1>2, RecordTradeEffect DEF AllInv
<1>4. f.rest \in DOMAIN tracked
  BY <1>1, <1>2 DEF RecordTrade
<1>5. call'[c].fills[call'[c].next].rest = f.rest
  BY <1>2, <1>3 DEF Moves, Current
<1> QED
  BY <1>3, <1>4, <1>5 DEF NothingLeft, Moves

LEMMA QueuedContinuing ==
  ASSUME Serialised, AllInv, NEW c \in Client, Continuing(c)
  PROVE  Queued(call[c])' /\ NothingLeft(call[c])'
<1>1. IInv /\ SerialInv /\ TypeOK
  BY DEF AllInv, IInv
<1>2. CASE RegisterOrder(c) \/ Enough(c)
  <2>1. call'[c].pc # "remove"
    BY <1>1, <1>2, MovingCalls DEF Moves
  <2> QED
    BY <1>2, <2>1, QueuedStart DEF NothingLeft
<1>3. CASE MatchNode(c)
  <2>1. call'[c].pc # "remove"
    BY <1>1, <1>3, MatchNodeFill
  <2> QED
    BY <1>3, <2>1, QueuedMatchNode DEF NothingLeft
<1>4. CASE RecordTrade(c)
  <2>1. call'[c].pc \in {"remove", "update"}
    <3>1. PICK f : f = Current(c)
      OBVIOUS
    <3>2. Moves(c, IF tracked[f.rest].rem - f.qty <= 0 THEN "remove" ELSE "update")
      BY <1>1, <1>4, <3>1, RecordTradeEffect
    <3> QED
      BY <3>2 DEF Moves
  <2> QED
    BY <1>4, <2>1, NothingLeftRecorded DEF Queued
<1>5. CASE Admit(c) \/ EndMatch(c) \/ Unbook(c)
  <2>1. call'[c].pc \in {"register", "record", "cancel"}
    BY <1>1, <1>5, MovingCalls DEF Moves
  <2> QED
    BY <2>1 DEF Queued, NothingLeft
<1>6. CASE RemoveResting(c) \/ UpdateResting(c)
  <2>1. call'[c].pc = "record"
    BY <1>1, <1>6, SettlingCall
  <2> QED
    BY <2>1 DEF Queued, NothingLeft
<1>7. CASE Replace(c)
  <2>1. call'[c].pc = "submit"
    BY <1>1, <1>7, ReplaceCalls
  <2> QED
    BY <2>1 DEF Queued, NothingLeft
<1> QED
  BY <1>2, <1>3, <1>4, <1>5, <1>6, <1>7 DEF Continuing

\* A step of the engine is one of these.
LEMMA StepKinds ==
  ASSUME NEW c \in Client, Step(c) \/ Ask(c)
  PROVE  \/ SubmitOrder(c) \/ CancelOrder(c) \/ ModifyOrder(c)
         \/ Close(c) \/ ClearReporter(c) \/ Returning(c) \/ Continuing(c)
BY DEF Step, Ask, Lookup, Returning, Continuing

LEMMA NoCallsLeft ==
  ASSUME Serialised, AllInv, NEW c \in Client, Close(c) \/ ClearReporter(c) \/ Returning(c)
  PROVE  DOMAIN call' = {} /\ DOMAIN call \subseteq {c}
         /\ (Close(c) \/ ClearReporter(c) => DOMAIN call = {})
<1>1. TypeOK /\ DOMAIN call \subseteq {c}
  BY Alone DEF AllInv, IInv
<1>2. CASE Close(c)
  BY <1>1, <1>2, CloseCalls DEF Close, Idle
<1>3. CASE ClearReporter(c)
  <2>1. DOMAIN call = {}
    BY <1>3 DEF ClearReporter, AllInv, SerialInv, Undisturbed
  <2> QED
    BY <1>1, <1>3, <2>1, CloseCalls
<1>4. CASE Returning(c)
  <2>1. ~Close(c) /\ ~ClearReporter(c)
    <3>1. c \in DOMAIN call
      BY <1>1, <1>4, ReturningCalls
    <3> QED
      BY <3>1 DEF Close, Idle, ClearReporter, AllInv, SerialInv, Undisturbed
  <2> QED
    BY <1>1, <1>4, <2>1, ReturningCalls
<1> QED
  BY <1>2, <1>3, <1>4

LEMMA ExchangeInvInit == Init => ExchangeInv
<1> SUFFICES ASSUME Init PROVE ExchangeInv
  OBVIOUS
<1>1. /\ nextID = 1 /\ DOMAIN call = {} /\ \A s \in Symbol : DOMAIN book[s] = {}
  BY DEF Init, EmptyBook
<1> QED
  BY <1>1, EngineAssumption DEF ExchangeInv, ArrivalsInOrder

LEMMA ExchangeInvStep ==
  ASSUME Serialised, AllInv, TypeOK', [Next]_vars
  PROVE  ExchangeInv'
<1>1. CASE UNCHANGED vars
  <2>1. /\ nextID' = nextID /\ book' = book /\ arrivals' = arrivals /\ orders' = orders
        /\ tracked' = tracked /\ call' = call
    BY <1>1 DEF vars
  <2>2. nextID <= MaxOrders + 1 /\ ArrivalsInOrder
    BY DEF AllInv, ExchangeInv
  <2>3. ASSUME NEW d \in DOMAIN call
        PROVE  Offered(call[d])' /\ Queued(call[d])' /\ NothingLeft(call[d])'
    <3>1. Offered(call[d]) /\ Queued(call[d]) /\ NothingLeft(call[d])
      BY DEF AllInv, ExchangeInv
    <3> QED
      BY <2>1, <3>1 DEF Offered, Queued, NothingLeft
  <2> QED
    BY <2>1, <2>2, <2>3 DEF ExchangeInv, ArrivalsInOrder
<1>2. ASSUME NEW c \in Client, Step(c) \/ Ask(c)
      PROVE  ExchangeInv'
  <2>1. IInv /\ SerialInv /\ TypeOK
    BY DEF AllInv, IInv
  <2>2. nextID' <= MaxOrders + 1 /\ ArrivalsInOrder'
    BY <1>2, IdsBounded, ArrivalsStep
  <2>3. ASSUME NEW d \in DOMAIN call'
        PROVE  Offered(call[d])' /\ Queued(call[d])' /\ NothingLeft(call[d])'
    <3>1. d = c
      BY DEF Serialised, TypeOK, CallsTypeOK
    <3>2. CASE SubmitOrder(c) \/ CancelOrder(c) \/ ModifyOrder(c)
      <4>1. call'[c].pc \in {"submit", "unbook", "replace"}
        BY <2>1, <3>2, SubmitOrderCalls, NamingCalls
      <4> QED
        BY <2>1, <3>1, <3>2, <4>1, OfferedAsking DEF Queued, NothingLeft
    <3>3. CASE Close(c) \/ ClearReporter(c) \/ Returning(c)
      BY <3>3, NoCallsLeft
    <3>4. CASE Continuing(c)
      BY <3>1, <3>4, OfferedContinuing, QueuedContinuing
    <3> QED
      BY <1>2, <3>2, <3>3, <3>4, StepKinds
  <2> QED
    BY <2>2, <2>3 DEF ExchangeInv
<1> QED
  BY <1>1, <1>2 DEF Next

-----------------------------------------------------------------------------
(* The steps of the engine as the exchange sees them.                      *)

Quiet == Settlers = {}

Seen == <<running, Asked, Matching, [s \in Symbol |-> BookAfter(s)],
          arrivals + Cardinality(Joining), TradesAfter>>

LEMMA QuietlyViewed == AllInv /\ Quiet => QuietView
BY QuietViews DEF Quiet

LEMMA QuietlyViewedNext == AllInv' /\ Quiet' => QuietView'
BY QuietlyViewed, PTL

LEMMA DuesViewsNext == ASSUME NEW c \in Client PROVE AllInv' /\ Settles(c)' => DuesView(c)'
<1>1. AllInv /\ Settles(c) => DuesView(c)
  BY DuesViews
<1> QED
  BY <1>1, PTL

LEMMA BookViewsNext == ASSUME NEW c \in Client PROVE AllInv' /\ Settles(c)' => BookView(c)'
BY BookViews, PTL

LEMMA TradesViewsNext == ASSUME NEW c \in Client PROVE AllInv' /\ Settles(c)' => TradesView(c)'
BY TradesViews, PTL

\* Between calls that settle, what the exchange sees depends on little.
LEMMA QuietSame ==
  ASSUME AllInv, AllInv', Quiet, Quiet', book' = book, trades' = trades, arrivals' = arrivals,
         \A s \in Symbol : \A i \in DOMAIN book[s] : tracked'[i].rem = tracked[i].rem
  PROVE  /\ \A s \in Symbol : BookAfter(s)' = BookAfter(s)
         /\ TradesAfter' = TradesAfter
         /\ arrivals' + Cardinality(Joining)' = arrivals + Cardinality(Joining)
<1>1. QuietView /\ QuietView'
  BY QuietlyViewed, QuietlyViewedNext
<1>2. TradesAfter' = TradesAfter
  BY <1>1 DEF QuietView, Published
<1>3. Cardinality(Joining)' = Cardinality(Joining)
  BY <1>1 DEF QuietView
<1>4. ASSUME NEW s \in Symbol
      PROVE  BookAfter(s)' = BookAfter(s)
  <2>1. \A i \in DOMAIN book[s] : Shade(s, i)' = Shade(s, i)
    BY DEF Shade
  <2>2. BookAfter(s) = [i \in DOMAIN book[s] |-> Shade(s, i)]
    BY <1>1 DEF QuietView
  <2>3. BookAfter(s)' = [i \in DOMAIN book'[s] |-> Shade(s, i)']
    BY <1>1 DEF QuietView
  <2> QED
    BY <2>1, <2>2, <2>3
<1> QED
  BY <1>2, <1>3, <1>4

LEMMA MatchingIs ==
  ASSUME NEW c, DOMAIN call \subseteq {c}
  PROVE  /\ Matching = {i \in {call[c].order.id} :
                          c \in DOMAIN call /\ call[c].pc \in {"liquidity", "match"}}
         /\ Settlers = {d \in {c} : c \in DOMAIN call /\ call[c].pc \in {"record", "remove", "update"}}
<1>1. {d \in DOMAIN call : call[d].pc \in {"liquidity", "match"}}
        = {d \in {c} : c \in DOMAIN call /\ call[c].pc \in {"liquidity", "match"}}
  OBVIOUS
<1>2. Settlers = {d \in {c} : c \in DOMAIN call /\ call[c].pc \in {"record", "remove", "update"}}
  BY DEF Settlers
<1> QED
  BY <1>1, <1>2 DEF Matching

\* What the exchange sees stays the same in the steps before and between calls, and
\* while Match goes from order to order.
Unseen(c) ==
  \/ SubmitOrder(c) \/ CancelOrder(c) \/ ModifyOrder(c) \/ ClearReporter(c)
  \/ TurnAway(c) \/ Refuse(c) \/ NotFound(c) \/ ReportCancel(c)
  \/ Admit(c) \/ Enough(c) \/ MatchNode(c)

LEMMA UnseenCalls ==
  ASSUME Serialised, AllInv, AllInv', NEW c \in Client, Unseen(c)
  PROVE  Quiet /\ Quiet' /\ Matching' = Matching
<1>1. IInv /\ SerialInv /\ TypeOK /\ TypeOK'
  BY DEF AllInv, IInv
<1>2. DOMAIN call \subseteq {c} /\ DOMAIN call' \subseteq {c}
  BY <1>1 DEF Serialised, TypeOK, CallsTypeOK
<1>3. /\ Matching = {i \in {call[c].order.id} :
                       c \in DOMAIN call /\ call[c].pc \in {"liquidity", "match"}}
      /\ Settlers = {d \in {c} : c \in DOMAIN call /\ call[c].pc \in {"record", "remove", "update"}}
  BY <1>2, MatchingIs
<1>4. /\ Matching' = {i \in {call'[c].order.id} :
                       c \in DOMAIN call' /\ call'[c].pc \in {"liquidity", "match"}}
      /\ Settlers' = {d \in {c} : c \in DOMAIN call' /\ call'[c].pc \in {"record", "remove", "update"}}
  <2>1. {d \in DOMAIN call' : call'[d].pc \in {"liquidity", "match"}}
          = {d \in {c} : c \in DOMAIN call' /\ call'[c].pc \in {"liquidity", "match"}}
    BY <1>2
  <2>2. Settlers' = {d \in {c} : c \in DOMAIN call' /\ call'[c].pc \in {"record", "remove", "update"}}
    BY <1>2 DEF Settlers
  <2> QED
    BY <2>1, <2>2 DEF Matching
<1>5. CASE SubmitOrder(c) \/ CancelOrder(c) \/ ModifyOrder(c)
  <2>1. c \notin DOMAIN call /\ call'[c].pc \in {"submit", "unbook", "replace"}
    BY <1>1, <1>5, SubmitOrderCalls, NamingCalls
  <2> QED
    BY <1>3, <1>4, <2>1 DEF Quiet
<1>6. CASE ClearReporter(c)
  <2>1. DOMAIN call = {} /\ DOMAIN call' = {}
    BY <1>6, NoCallsLeft
  <2> QED
    BY <1>3, <1>4, <2>1 DEF Quiet
<1>7. CASE TurnAway(c) \/ Refuse(c) \/ NotFound(c) \/ ReportCancel(c)
  <2>1. DOMAIN call' = {}
    BY <1>7, NoCallsLeft DEF Returning
  <2>2. call[c].pc \in {"submit", "unbook", "replace", "cancel"}
    BY <1>7 DEF TurnAway, Refuse, NotFound, ReportCancel, At
  <2> QED
    BY <1>3, <1>4, <2>1, <2>2 DEF Quiet
<1>8. CASE Admit(c)
  <2>1. call[c].pc = "submit" /\ call'[c].pc = "register"
    BY <1>1, <1>8, MovingCalls DEF Admit, At, Moves
  <2> QED
    BY <1>3, <1>4, <2>1 DEF Quiet
<1>9. CASE Enough(c) \/ MatchNode(c)
  <2>1. /\ call[c].pc \in {"liquidity", "match"} /\ call'[c].pc = "match"
        /\ call'[c].order = call[c].order
    BY <1>1, <1>9, MovingCalls, MatchNodeFill DEF Enough, At, Moves
  <2>2. c \in DOMAIN call /\ c \in DOMAIN call'
    BY <1>1, <1>9, ContinuingCalls DEF Continuing
  <2> QED
    BY <1>3, <1>4, <2>1, <2>2 DEF Quiet
<1> QED
  BY <1>5, <1>6, <1>7, <1>8, <1>9 DEF Unseen

LEMMA UnseenSteps ==
  ASSUME Serialised, AllInv, AllInv', NEW c \in Client, Unseen(c)
  PROVE  UNCHANGED Seen
<1>1. Quiet /\ Quiet' /\ Matching' = Matching
  BY UnseenCalls
<1>2. /\ running' = running /\ book' = book /\ arrivals' = arrivals /\ trades' = trades
  BY DEF Unseen, SubmitOrder, CancelOrder, ModifyOrder, ClearReporter, TurnAway, Refuse,
         NotFound, ReportCancel, Admit, Enough, MatchNode, books, reporter
<1>3. Asked' = Asked
  <2>1. ~RegisterOrder(c)
    <3>1. CASE SubmitOrder(c) \/ CancelOrder(c) \/ ModifyOrder(c) \/ ClearReporter(c)
      BY <3>1 DEF RegisterOrder, At, SubmitOrder, CancelOrder, ModifyOrder, ClearReporter, Idle
    <3>2. CASE \/ TurnAway(c) \/ Refuse(c) \/ NotFound(c) \/ ReportCancel(c)
               \/ Admit(c) \/ Enough(c) \/ MatchNode(c)
      BY <3>2 DEF RegisterOrder, At, TurnAway, Refuse, NotFound, ReportCancel, Admit, Enough,
                  MatchNode
    <3> QED
      BY <3>1, <3>2 DEF Unseen
  <2>2. Step(c) \/ Ask(c)
    BY DEF Unseen, Step, Ask, Lookup
  <2> QED
    BY <2>1, <2>2, AskedKept DEF AllInv, IInv
<1>4. ASSUME NEW s \in Symbol, NEW i \in DOMAIN book[s]
      PROVE  tracked'[i].rem = tracked[i].rem
  <2>1. CASE ClearReporter(c)
    BY <2>1 DEF ClearReporter, AllInv, SerialInv, Undisturbed
  <2>2. CASE Refuse(c) \/ ReportCancel(c)
    <3>1. i \in DOMAIN tracked /\ tracked \in [DOMAIN tracked -> Tracked]
      BY RestingTracked DEF AllInv, IInv, TypeOK, ReporterTypeOK
    <3>2. PICK status : SetStatus(call[c].order.id, status)
      BY <2>2 DEF Refuse, ReportCancel
    <3>3. tracked'[i] = tracked[i] \/ tracked'[i] = [tracked[i] EXCEPT !.status = status]
      BY <3>1, <3>2 DEF SetStatus
    <3> QED
      BY <3>1, <3>3 DEF Tracked
  <2>3. CASE ~ClearReporter(c) /\ ~Refuse(c) /\ ~ReportCancel(c)
    BY <2>3 DEF Unseen, SubmitOrder, CancelOrder, ModifyOrder, TurnAway, NotFound, Admit,
                Enough, MatchNode, reporter
  <2> QED
    BY <2>1, <2>2, <2>3
<1>5. /\ \A s \in Symbol : BookAfter(s)' = BookAfter(s)
      /\ TradesAfter' = TradesAfter
      /\ arrivals' + Cardinality(Joining)' = arrivals + Cardinality(Joining)
  BY <1>1, <1>2, <1>4, QuietSame
<1> QED
  BY <1>1, <1>2, <1>3, <1>5 DEF Seen

\* While trades are settled, what the exchange sees of a book stays the same if every
\* entry that does not leave does.
LEMMA SettleSame ==
  ASSUME AllInv, AllInv', NEW c \in Client, Settles(c), Settles(c)',
         call'[c].order = call[c].order, call'[c].rem = call[c].rem, arrivals' = arrivals,
         \A s \in Symbol : \A i : (i \in DOMAIN book'[s] /\ ~Leaving(i)')
                                    <=> (i \in DOMAIN book[s] /\ ~Leaving(i)),
         \A s \in Symbol : \A i \in DOMAIN book[s] :
           ~Leaving(i) => EntryAfter(s, i)' = EntryAfter(s, i)
  PROVE  /\ \A s \in Symbol : BookAfter(s)' = BookAfter(s)
         /\ arrivals' + Cardinality(Joining)' = arrivals + Cardinality(Joining)
<1>1. BookView(c) /\ BookView(c)'
  BY BookViews, BookViewsNext
<1>2. (Joins(c)' <=> Joins(c)) /\ Joined(c)' = Joined(c)
  BY DEF Joins, Joined
<1>3. Cardinality(Joining)' = Cardinality(Joining)
  BY <1>1, <1>2 DEF BookView
<1>4. ASSUME NEW s \in Symbol
      PROVE  BookAfter(s)' = BookAfter(s)
  <2>1. PICK p : p = BookAfter(s)
    OBVIOUS
  <2>2. PICK q : q = BookAfter(s)'
    OBVIOUS
  <2>3. PICK o : o = call[c].order
    OBVIOUS
  <2>4. p = [i \in DOMAIN p |-> p[i]] /\ q = [i \in DOMAIN q |-> q[i]]
    BY <1>1, <2>1, <2>2 DEF BookView
  <2>5. DOMAIN p = {i \in DOMAIN book[s] : ~Leaving(i)}
                     \cup {i \in {o.id} : Joins(c) /\ o.symbol = s}
    BY <1>1, <2>1, <2>3 DEF BookView
  <2>6. DOMAIN q = {i \in DOMAIN book'[s] : ~Leaving(i)'}
                     \cup {i \in {o.id} : Joins(c) /\ o.symbol = s}
    BY <1>1, <1>2, <2>2, <2>3 DEF BookView
  <2>7. DOMAIN q = DOMAIN p
    BY <2>5, <2>6
  <2>8. ASSUME NEW i \in DOMAIN p
        PROVE  q[i] = p[i]
    <3>1. CASE i \in DOMAIN book[s] /\ ~Leaving(i)
      <4>1. i \in DOMAIN book'[s] /\ ~Leaving(i)'
        BY <3>1
      <4>2. p[i] = EntryAfter(s, i) /\ q[i] = EntryAfter(s, i)'
        BY <1>1, <2>1, <2>2, <3>1, <4>1 DEF BookView
      <4> QED
        BY <3>1, <4>2
    <3>2. CASE i = o.id /\ Joins(c) /\ o.symbol = s
      BY <1>1, <1>2, <2>1, <2>2, <2>3, <3>2 DEF BookView
    <3> QED
      BY <2>5, <3>1, <3>2
  <2> QED
    BY <2>1, <2>2, <2>4, <2>7, <2>8
<1> QED
  BY <1>3, <1>4

DealType == [buy : OrderId, sell : OrderId, price : Positive, qty : Positive]

DealsView(c) ==
  LET m == call[c]
  IN  /\ Published \in Seq(DealType) /\ Len(Published) = Len(trades)
      /\ DOMAIN m.fills = 1..Len(m.fills) /\ Len(m.fills) \in Nat /\ m.next \in Nat
      /\ FirstToCome(m) \in 1..(Len(m.fills) + 1) /\ ToCome(m) \in Seq(DealType)
      /\ Len(ToCome(m)) = 1 + Len(m.fills) - FirstToCome(m)

LEMMA PublishedTyped ==
  ASSUME AllInv
  PROVE  Published \in Seq(DealType) /\ Len(Published) = Len(trades)
<1>1. trades \in Seq(Trade)
  BY DEF AllInv, IInv, TypeOK, ReporterTypeOK
<1>2. \A n \in 1..Len(trades) :
        Deal(trades[n].buy, trades[n].sell, trades[n].price, trades[n].qty) \in DealType
  <2>1. ASSUME NEW n \in 1..Len(trades)
        PROVE  Deal(trades[n].buy, trades[n].sell, trades[n].price, trades[n].qty) \in DealType
    <3>1. PICK t \in Trade : t = trades[n]
      BY <1>1
    <3> QED
      BY <3>1 DEF Trade, DealType, Deal
  <2> QED
    BY <2>1
<1> QED
  BY <1>1, <1>2 DEF Published

LEMMA DealsTyped ==
  ASSUME NEW c \in Client
  PROVE  AllInv /\ Settles(c) => DealsView(c)
<1> SUFFICES ASSUME AllInv, Settles(c)
             PROVE  DealsView(c)
  OBVIOUS
<1>3. Published \in Seq(DealType) /\ Len(Published) = Len(trades)
  BY PublishedTyped
<1>4. PICK m : m = call[c]
  OBVIOUS
<1>5. m \in Call /\ m.pc \in {"record", "remove", "update"} /\ Chained(m) /\ WellFormed(m)
  BY <1>4 DEF Settles, AllInv, IInv, FillsChained, CallsWellFormed, TypeOK, CallsTypeOK
<1>6. /\ m.fills \in Seq(Fill) /\ m.next \in Nat /\ m.next > 0 /\ Len(m.fills) \in Nat
      /\ m.order \in Order
  BY <1>5 DEF Call, Positive
<1>7. PICK first : first = FirstToCome(m)
  OBVIOUS
<1>8. first \in 1..(Len(m.fills) + 1)
  BY <1>5, <1>6, <1>7 DEF FirstToCome, Chained, WellFormed, Working, Registered
<1>9. PICK last \in Nat : last = Len(m.fills)
  BY <1>6
<1>10. \A n \in 1..(1 + last - first) :
         LET f == m.fills[n + first - 1]
         IN  Deal(BuyId(m.order, f), SellId(m.order, f), f.price, f.qty) \in DealType
  <2>1. ASSUME NEW n \in 1..(1 + last - first)
        PROVE  LET f == m.fills[n + first - 1]
               IN  Deal(BuyId(m.order, f), SellId(m.order, f), f.price, f.qty) \in DealType
    <3>1. n + first - 1 \in 1..Len(m.fills)
      BY <1>8, <1>9
    <3>2. PICK f \in Fill : f = m.fills[n + first - 1]
      BY <1>6, <3>1
    <3>3. f.rest \in OrderId /\ m.order.id \in OrderId
      BY <1>6 DEF Fill, Order
    <3>4. BuyId(m.order, f) \in OrderId /\ SellId(m.order, f) \in OrderId
      BY <3>3 DEF BuyId, SellId
    <3> QED
      BY <3>2, <3>4 DEF Deal, DealType, Fill
  <2> QED
    BY <2>1
<1>11. 1 + last - first \in Nat
  BY <1>8, <1>9
<1>12. ToCome(m) \in [1..(1 + last - first) -> DealType]
  BY <1>7, <1>9, <1>10 DEF ToCome
<1>13. ToCome(m) \in Seq(DealType) /\ Len(ToCome(m)) = 1 + last - first
  BY <1>11, <1>12
<1> QED
  BY <1>3, <1>4, <1>6, <1>7, <1>8, <1>9, <1>13 DEF DealsView

LEMMA DealsTypedNext == ASSUME NEW c \in Client PROVE AllInv' /\ Settles(c)' => DealsView(c)'
BY DealsTyped, PTL

LEMMA Concatenated ==
  ASSUME NEW S, NEW P \in Seq(S), NEW T \in Seq(S)
  PROVE  /\ P \o T \in Seq(S) /\ Len(P \o T) = Len(P) + Len(T)
         /\ \A n \in 1..(Len(P) + Len(T)) :
              (P \o T)[n] = IF n <= Len(P) THEN P[n] ELSE T[n - Len(P)]
<1>1. P \o T \in Seq(S)
  OBVIOUS
<1>2. Len(P \o T) = Len(P) + Len(T)
  OBVIOUS
<1>3. \A n \in 1..(Len(P) + Len(T)) :
        (P \o T)[n] = IF n <= Len(P) THEN P[n] ELSE T[n - Len(P)]
  OBVIOUS
<1> QED
  BY <1>1, <1>2, <1>3

LEMMA Extended ==
  ASSUME NEW S, NEW P \in Seq(S), NEW d \in S
  PROVE  /\ Append(P, d) \in Seq(S) /\ Len(Append(P, d)) = Len(P) + 1
         /\ \A n \in 1..(Len(P) + 1) : Append(P, d)[n] = IF n <= Len(P) THEN P[n] ELSE d
OBVIOUS

\* The first of what is to come moves to the end of what has been.
LEMMA MoveHead ==
  ASSUME NEW S, NEW P \in Seq(S), NEW T \in Seq(S), NEW V \in Seq(S), NEW d \in S,
         Len(T) = Len(V) + 1, T[1] = d, \A n \in 1..Len(V) : T[n + 1] = V[n]
  PROVE  P \o T = Append(P, d) \o V
<1>1. PICK A : A = P \o T
  OBVIOUS
<1>2. PICK B : B = Append(P, d) \o V
  OBVIOUS
<1>3. Len(P) \in Nat /\ Len(T) \in Nat /\ Len(V) \in Nat
  OBVIOUS
<1>4. /\ A \in Seq(S) /\ Len(A) = Len(P) + Len(V) + 1
      /\ \A n \in 1..Len(A) : A[n] = IF n <= Len(P) THEN P[n] ELSE T[n - Len(P)]
  <2>1. /\ A \in Seq(S) /\ Len(A) = Len(P) + Len(T)
        /\ \A n \in 1..(Len(P) + Len(T)) : A[n] = IF n <= Len(P) THEN P[n] ELSE T[n - Len(P)]
    BY <1>1, Concatenated
  <2> QED
    BY <1>3, <2>1
<1>5. PICK Q : Q = Append(P, d)
  OBVIOUS
<1>6. /\ Q \in Seq(S) /\ Len(Q) = Len(P) + 1
      /\ \A n \in 1..Len(Q) : Q[n] = IF n <= Len(P) THEN P[n] ELSE d
  <2>1. /\ Q \in Seq(S) /\ Len(Q) = Len(P) + 1
        /\ \A n \in 1..(Len(P) + 1) : Q[n] = IF n <= Len(P) THEN P[n] ELSE d
    BY <1>5, Extended
  <2> QED
    BY <2>1
<1>7. /\ B \in Seq(S) /\ Len(B) = Len(P) + 1 + Len(V)
      /\ \A n \in 1..Len(B) : B[n] = IF n <= Len(P) + 1 THEN Q[n] ELSE V[n - Len(P) - 1]
  <2>1. /\ B \in Seq(S) /\ Len(B) = Len(Q) + Len(V)
        /\ \A n \in 1..(Len(Q) + Len(V)) : B[n] = IF n <= Len(Q) THEN Q[n] ELSE V[n - Len(Q)]
    BY <1>2, <1>5, <1>6, Concatenated
  <2>2. \A n \in Int : n - Len(P) - 1 = n - Len(Q)
    BY <1>3, <1>6
  <2> QED
    BY <1>3, <1>6, <2>1, <2>2
<1>8. ASSUME NEW n \in 1..Len(A)
      PROVE  A[n] = B[n]
  <2>1. CASE n <= Len(P)
    <3>1. n \in 1..Len(B) /\ n \in 1..Len(Q) /\ n <= Len(P) + 1
      BY <1>3, <1>4, <1>6, <1>7, <2>1
    <3>2. A[n] = P[n] /\ B[n] = Q[n] /\ Q[n] = P[n]
      BY <1>4, <1>6, <1>7, <2>1, <3>1
    <3> QED
      BY <3>2
  <2>2. CASE n = Len(P) + 1
    <3>1. n - Len(P) = 1
      BY <1>3, <2>2
    <3> QED
      BY <1>3, <1>4, <1>6, <1>7, <2>2, <3>1
  <2>3. CASE n > Len(P) + 1
    <3>1. n - Len(P) - 1 \in 1..Len(V) /\ n - Len(P) = (n - Len(P) - 1) + 1
      BY <1>3, <1>4, <2>3
    <3>2. T[n - Len(P)] = V[n - Len(P) - 1]
      BY <3>1
    <3> QED
      BY <1>3, <1>4, <1>7, <2>3, <3>2
  <2>4. n \in Nat
    BY <1>4
  <2> QED
    BY <1>3, <2>1, <2>2, <2>3, <2>4
<1>9. Len(A) = Len(B)
  BY <1>3, <1>4, <1>7
<1> QED
  BY <1>1, <1>2, <1>4, <1>7, <1>8, <1>9

\* RecordTrade makes of a trade that is to come one that is published.
LEMMA RecordTradeTrades ==
  ASSUME Serialised, AllInv, AllInv', NEW c \in Client, RecordTrade(c), Settles(c), Settles(c)'
  PROVE  TradesAfter' = TradesAfter
<1>1. PICK m : m = call[c]
  OBVIOUS
<1>2. PICK w : w = call'[c]
  OBVIOUS
<1>3. PICK k : k = m.next
  OBVIOUS
<1>4. PICK f : f = m.fills[k]
  OBVIOUS
<1>5. /\ m.pc = "record" /\ w.pc \in {"remove", "update"}
      /\ w.fills = m.fills /\ w.order = m.order /\ w.next = k /\ k <= Len(m.fills)
  <2>1. m.pc = "record" /\ k <= Len(m.fills)
    BY <1>1, <1>3 DEF RecordTrade, Recording, At
  <2>2. Moves(c, IF tracked[f.rest].rem - f.qty <= 0 THEN "remove" ELSE "update")
    BY <1>1, <1>3, <1>4, RecordTradeEffect DEF AllInv, Current
  <2> QED
    BY <1>1, <1>2, <1>3, <2>1, <2>2 DEF Moves
<1>6. PICK d : d = Deal(BuyId(m.order, f), SellId(m.order, f), f.price, f.qty)
  OBVIOUS
<1>7. PICK P, T : P = Published /\ T = ToCome(m)
  OBVIOUS
<1>8. PICK V : V = ToCome(w)
  OBVIOUS
<1>9. /\ P \in Seq(DealType) /\ Len(P) = Len(trades) /\ T \in Seq(DealType)
      /\ FirstToCome(m) = k /\ k \in Nat /\ k \in 1..Len(m.fills) /\ Len(m.fills) \in Nat
      /\ Len(T) = 1 + Len(m.fills) - k
  <2>1. DealsView(c)
    BY DealsTyped
  <2>2. k \in Nat
    BY <1>1, <1>3, <2>1 DEF DealsView
  <2>3. FirstToCome(m) = k
    BY <1>3, <1>5, <2>2 DEF FirstToCome
  <2> QED
    BY <1>1, <1>5, <1>7, <2>1, <2>2, <2>3 DEF DealsView
<1>10. /\ Published' \in Seq(DealType) /\ Len(Published') = Len(trades') /\ V \in Seq(DealType)
       /\ FirstToCome(w) = k + 1 /\ Len(V) = Len(m.fills) - k
  <2>1. DealsView(c)'
    BY DealsTypedNext
  <2>2. FirstToCome(w) = k + 1
    BY <1>5, <1>9 DEF FirstToCome
  <2> QED
    BY <1>2, <1>5, <1>8, <1>9, <2>1, <2>2 DEF DealsView
<1>11. T[1] = d /\ d \in DealType
  <2>1. 1 \in 1..Len(T) /\ T[1] \in DealType
    BY <1>9
  <2>2. 1 \in 1..(1 + Len(m.fills) - k) /\ 1 + k - 1 = k
    BY <1>9
  <2>3. T[1] = d
    BY <1>4, <1>6, <1>7, <1>9, <2>2 DEF ToCome
  <2> QED
    BY <2>1, <2>3
<1>12. ASSUME NEW n \in 1..Len(V)
       PROVE  T[n + 1] = V[n]
  <2>1. /\ n + 1 \in 1..(1 + Len(m.fills) - k) /\ n \in 1..(1 + Len(m.fills) - (k + 1))
        /\ n + 1 + k - 1 = n + (k + 1) - 1
    BY <1>9, <1>10
  <2>2. PICK g : g = m.fills[n + (k + 1) - 1]
    OBVIOUS
  <2>3. T[n + 1] = Deal(BuyId(m.order, g), SellId(m.order, g), g.price, g.qty)
    BY <1>7, <1>9, <2>1, <2>2 DEF ToCome
  <2>4. V[n] = Deal(BuyId(m.order, g), SellId(m.order, g), g.price, g.qty)
    BY <1>5, <1>8, <1>10, <2>1, <2>2 DEF ToCome
  <2> QED
    BY <2>3, <2>4
<1>13. Published' = Append(P, d)
  <2>1. PICK t \in Trade : /\ t.buy = BuyId(m.order, f) /\ t.sell = SellId(m.order, f)
                           /\ t.price = f.price /\ t.qty = f.qty
                           /\ trades' = Append(trades, t)
    <3>1. PICK t : t = TradeOf(m.order, f, tradeCounter')
      OBVIOUS
    <3>2. trades' = Append(trades, t)
      BY <1>1, <1>3, <1>4, <3>1 DEF RecordTrade, Current
    <3>3. trades \in Seq(Trade) /\ trades' \in Seq(Trade)
      BY DEF AllInv, IInv, TypeOK, ReporterTypeOK
    <3>4. Len(trades') = Len(trades) + 1 /\ trades'[Len(trades) + 1] = t /\ Len(trades) \in Nat
      BY <3>2, <3>3
    <3>5. t \in Trade
      BY <3>3, <3>4
    <3> QED
      BY <3>1, <3>2, <3>5 DEF TradeOf
  <2>2. trades \in Seq(Trade) /\ trades' \in Seq(Trade) /\ Len(trades) \in Nat
    BY DEF AllInv, IInv, TypeOK, ReporterTypeOK
  <2>3. /\ Len(trades') = Len(trades) + 1
        /\ \A n \in 1..Len(trades') : trades'[n] = IF n <= Len(trades) THEN trades[n] ELSE t
    BY <2>1, <2>2
  <2>4. PICK A : A = Append(P, d)
    OBVIOUS
  <2>5. /\ A \in Seq(DealType) /\ Len(A) = Len(trades) + 1
        /\ \A n \in 1..Len(A) : A[n] = IF n <= Len(trades) THEN P[n] ELSE d
    BY <1>9, <1>11, <2>4
  <2>6. ASSUME NEW n \in 1..Len(A)
        PROVE  Published'[n] = A[n]
    <3>1. n \in DOMAIN trades'
      BY <2>2, <2>3, <2>5
    <3>2. Published'[n] = Deal(trades'[n].buy, trades'[n].sell, trades'[n].price, trades'[n].qty)
      BY <3>1 DEF Published
    <3>3. CASE n <= Len(trades)
      <4>1. n \in DOMAIN trades /\ trades'[n] = trades[n] /\ A[n] = P[n]
        BY <2>2, <2>3, <2>5, <3>3
      <4> QED
        BY <1>7, <3>2, <4>1 DEF Published
    <3>4. CASE n > Len(trades)
      <4>1. trades'[n] = t /\ A[n] = d
        BY <2>2, <2>3, <2>5, <3>4
      <4> QED
        BY <1>6, <2>1, <3>2, <4>1
    <3> QED
      BY <2>2, <2>5, <3>3, <3>4
  <2>7. Len(Published') = Len(A)
    BY <1>10, <2>3, <2>5
  <2> QED
    BY <1>10, <2>4, <2>5, <2>6, <2>7
<1>14. P \o T = Append(P, d) \o V
  <2>1. Len(T) = Len(V) + 1
    BY <1>9, <1>10
  <2>2. P \in Seq(DealType) /\ T \in Seq(DealType) /\ V \in Seq(DealType) /\ d \in DealType
    BY <1>9, <1>10, <1>11
  <2> QED
    BY ONLY <1>11, <1>12, <2>1, <2>2, MoveHead
<1>15. TradesAfter = P \o T
  BY <1>1, <1>7, TradesViews DEF TradesView
<1>16. TradesAfter' = Published' \o V
  BY <1>2, <1>8, TradesViewsNext DEF TradesView
<1> QED
  BY <1>13, <1>14, <1>15, <1>16

\* A call that settles is in the state the mapping looks at, and the one it leaves.
LEMMA SettlersMatch ==
  ASSUME NEW c, Settles(c), Settles(c)'
  PROVE  Matching = {} /\ Matching' = {}
BY DEF Settles, Matching

LEMMA RecordTradeSettles ==
  ASSUME Serialised, AllInv, NEW c \in Client, RecordTrade(c)
  PROVE  /\ Settles(c) /\ Settles(c)' /\ call[c].pc = "record" /\ call'[c].pc \in {"remove", "update"}
         /\ call'[c].order = call[c].order /\ call'[c].rem = call[c].rem
         /\ call'[c].fills = call[c].fills /\ call'[c].next = call[c].next
         /\ call[c].next \in DOMAIN call[c].fills /\ arrivals' = arrivals /\ book' = book
<1>1. PICK f : f = Current(c)
  OBVIOUS
<1>2. Moves(c, IF tracked[f.rest].rem - f.qty <= 0 THEN "remove" ELSE "update")
  BY <1>1, RecordTradeEffect DEF AllInv
<1>3. call[c].pc = "record" /\ call[c].next <= Len(call[c].fills)
  BY DEF RecordTrade, Recording, At
<1>4. DOMAIN call = {c}
  BY <1>2, Alone DEF Moves, AllInv, IInv
<1>5. Settles(c) /\ Settles(c)'
  BY <1>2, <1>3, <1>4 DEF Settles, Moves
<1>6. call[c].next \in DOMAIN call[c].fills
  BY <1>3, <1>5, DueParts
<1>7. arrivals' = arrivals /\ book' = book
  BY DEF RecordTrade, books
<1> QED
  BY <1>2, <1>3, <1>5, <1>6, <1>7 DEF Moves

LEMMA RecordTradeSeen ==
  ASSUME Serialised, AllInv, AllInv', NEW c \in Client, RecordTrade(c)
  PROVE  UNCHANGED Seen
<1>1. PICK m : m = call[c]
  OBVIOUS
<1>2. PICK k : k = m.next
  OBVIOUS
<1>3. PICK f : f = m.fills[k]
  OBVIOUS
<1>4. PICK U : U = UnsettledAt(c)
  OBVIOUS
<1>5. /\ Settles(c) /\ Settles(c)' /\ m.pc = "record" /\ call'[c].pc \in {"remove", "update"}
      /\ call'[c].order = m.order /\ call'[c].rem = m.rem /\ call'[c].fills = m.fills
      /\ call'[c].next = k /\ k \in DOMAIN m.fills /\ arrivals' = arrivals /\ book' = book
  BY <1>1, <1>2, RecordTradeSettles
<1>6. DuesView(c) /\ DuesView(c)'
  BY <1>5, DuesViews, DuesViewsNext
<1>7. /\ DOMAIN m.fills = 1..Len(m.fills) /\ Len(m.fills) \in Nat /\ k \in Nat
      /\ U \subseteq DOMAIN m.fills
      /\ \A j, l \in DOMAIN m.fills : m.fills[j].rest = m.fills[l].rest => j = l
  BY <1>1, <1>2, <1>4, <1>5, DueParts
<1>8. /\ U = k..Len(m.fills) /\ UnrecordedAt(c) = U /\ k \in U
      /\ UnsettledAt(c)' = U /\ UnrecordedAt(c)' = U \ {k}
  BY <1>1, <1>2, <1>4, <1>5, <1>7 DEF UnsettledAt, UnrecordedAt, At, Settles
<1>9. /\ DOMAIN tracked' = DOMAIN tracked
      /\ tracked'[f.rest].rem = tracked[f.rest].rem - f.qty
      /\ \A x \in DOMAIN tracked : x # f.rest /\ x # m.order.id => tracked'[x] = tracked[x]
  <2>1. /\ DOMAIN tracked' = DOMAIN tracked
        /\ \A x \in DOMAIN tracked :
             IF x \in {m.order.id, f.rest} THEN tracked'[x].rem = tracked[x].rem - f.qty
                                           ELSE tracked'[x] = tracked[x]
    BY <1>1, <1>2, <1>3, RecordTradeEffect DEF AllInv, Current
  <2>2. f.rest \in DOMAIN tracked
    BY <1>1, <1>3, <1>4, <1>5, <1>8, DueParts
  <2> QED
    BY <2>1, <2>2
<1>10. ASSUME NEW s \in Symbol, NEW i \in DOMAIN book[s]
       PROVE  RemainderOf(i)' = RemainderOf(i) /\ QuantityOf(s, i)' = QuantityOf(s, i)
  <2>1. i \in DOMAIN tracked /\ i # m.order.id
    <3>1. call[c].pc \notin {"unbook", "replace"} /\ c \in DOMAIN call
      BY <1>5 DEF Settles
    <3> QED
      BY <1>1, <3>1, RestingTracked, InHandUnbooked DEF AllInv
  <2>2. CASE \E j \in U : m.fills[j].rest = i
    <3>1. PICK j \in U : m.fills[j].rest = i
      BY <2>2
    <3>2. RemainderOf(i) = tracked[i].rem - m.fills[j].qty /\ QuantityOf(s, i) = m.fills[j].restLeft
      BY <1>1, <1>4, <1>6, <1>8, <3>1 DEF DuesView
    <3>3. QuantityOf(s, i)' = m.fills[j].restLeft
      BY <1>5, <1>6, <1>8, <3>1 DEF DuesView
    <3>4. CASE j = k
      <4>1. \A l \in U \ {k} : m.fills[l].rest # i
        BY <1>7, <3>1, <3>4
      <4>2. RemainderOf(i)' = tracked'[i].rem
        BY <1>5, <1>6, <1>8, <1>9, <2>1, <4>1 DEF DuesView
      <4> QED
        BY <1>3, <1>9, <3>1, <3>2, <3>3, <3>4, <4>2
    <3>5. CASE j # k
      <4>1. i # f.rest
        BY <1>3, <1>7, <1>8, <3>1, <3>5
      <4>2. RemainderOf(i)' = tracked'[i].rem - m.fills[j].qty
        BY <1>5, <1>6, <1>8, <3>1, <3>5 DEF DuesView
      <4> QED
        BY <1>9, <2>1, <3>2, <3>3, <4>1, <4>2
    <3> QED
      BY <3>4, <3>5
  <2>3. CASE \A j \in U : m.fills[j].rest # i
    <3>1. RemainderOf(i) = tracked[i].rem /\ RemainderOf(i)' = tracked'[i].rem
      BY <1>1, <1>4, <1>5, <1>6, <1>8, <1>9, <2>1, <2>3 DEF DuesView
    <3>2. ~Due(c, i) /\ ~Due(c, i)'
      BY <1>1, <1>4, <1>5, <1>8, <2>3 DEF Due
    <3>3. QuantityOf(s, i) = book[s][i].qty /\ QuantityOf(s, i)' = book'[s][i].qty
      BY <1>5, <1>6, <3>2 DEF DuesView
    <3> QED
      BY <1>3, <1>5, <1>8, <1>9, <2>1, <2>3, <3>1, <3>3
  <2> QED
    BY <2>2, <2>3
<1>11. \A i : Due(c, i)' <=> Due(c, i)
  BY <1>1, <1>4, <1>5, <1>8 DEF Due
<1>12. ASSUME NEW s \in Symbol, NEW i \in DOMAIN book[s]
       PROVE  (Leaving(i)' <=> Leaving(i)) /\ EntryAfter(s, i)' = EntryAfter(s, i)
  <2>1. RemainderOf(i)' = RemainderOf(i) /\ QuantityOf(s, i)' = QuantityOf(s, i)
    BY <1>10
  <2>2. Leaving(i)' <=> Leaving(i)
    BY <1>6, <1>11, <2>1 DEF DuesView
  <2> QED
    BY <1>5, <2>1, <2>2 DEF EntryAfter
<1>13. /\ \A s \in Symbol : BookAfter(s)' = BookAfter(s)
       /\ arrivals' + Cardinality(Joining)' = arrivals + Cardinality(Joining)
  <2>1. /\ \A s \in Symbol : \A i : (i \in DOMAIN book'[s] /\ ~Leaving(i)')
                                      <=> (i \in DOMAIN book[s] /\ ~Leaving(i))
        /\ \A s \in Symbol : \A i \in DOMAIN book[s] :
             ~Leaving(i) => EntryAfter(s, i)' = EntryAfter(s, i)
    BY <1>5, <1>12
  <2> QED
    BY <1>1, <1>5, <2>1, SettleSame
<1>14. TradesAfter' = TradesAfter
  BY <1>5, RecordTradeTrades
<1>15. Asked' = Asked /\ Matching' = Matching /\ running' = running
  <2>1. ~RegisterOrder(c)
    BY <1>1, <1>5 DEF RegisterOrder, At
  <2> QED
    BY <1>5, <2>1, AskedKept, SettlersMatch DEF AllInv, IInv, Step, RecordTrade
<1> QED
  BY <1>13, <1>14, <1>15 DEF Seen

\* Settling a recorded trade in the book leaves what is to come as it is.
LEMMA SettlingSettles ==
  ASSUME Serialised, AllInv, AllInv', NEW c \in Client, RemoveResting(c) \/ UpdateResting(c),
         NEW m, m = call[c], NEW f, f = Current(c)
  PROVE  /\ Settles(c) /\ Settles(c)' /\ m.pc \in {"remove", "update"} /\ call'[c].pc = "record"
         /\ call'[c].order = m.order /\ call'[c].rem = m.rem /\ call'[c].fills = m.fills
         /\ call'[c].next = m.next + 1 /\ f = m.fills[m.next] /\ f \in Fill
         /\ m.order.symbol \in Symbol /\ f.rest \in DOMAIN book[m.order.symbol]
         /\ tracked' = tracked /\ trades' = trades /\ orders' = orders /\ arrivals' = arrivals
         /\ running' = running
<1>1. IInv /\ SerialInv /\ TypeOK
  BY DEF AllInv, IInv
<1>2. /\ c \in DOMAIN call /\ DOMAIN call' = DOMAIN call
      /\ m.pc \in {"remove", "update"} /\ call'[c].pc = "record"
      /\ call'[c].order = m.order /\ call'[c].rem = m.rem /\ call'[c].fills = m.fills
      /\ call'[c].next = m.next + 1 /\ f = m.fills[m.next] /\ f \in Fill
      /\ m.order.symbol \in Symbol /\ f.rest \in DOMAIN book[m.order.symbol]
      /\ tracked' = tracked /\ orders' = orders
  BY <1>1, SettlingCall
<1>3. DOMAIN call = {c}
  BY <1>1, <1>2, Alone
<1>4. trades' = trades /\ arrivals' = arrivals /\ running' = running
  BY DEF RemoveResting, UpdateResting, reporter
<1> QED
  BY <1>2, <1>3, <1>4 DEF Settles

LEMMA SettlingView ==
  ASSUME Serialised, AllInv, AllInv', NEW c \in Client, RemoveResting(c) \/ UpdateResting(c),
         NEW f, f = Current(c)
  PROVE  /\ DuesView(c) /\ DuesView(c)' /\ TradesAfter' = TradesAfter
         /\ \A i : Due(c, i)' <=> Due(c, i) /\ i # f.rest
         /\ Due(c, f.rest) /\ RemainderOf(f.rest) = tracked[f.rest].rem
         /\ \A s \in Symbol : QuantityOf(s, f.rest) = f.restLeft
         /\ \A s \in Symbol : \A i \in DOMAIN book[s] :
              /\ RemainderOf(i)' = RemainderOf(i)
              /\ i # f.rest /\ i \in DOMAIN book'[s] /\ book'[s][i] = book[s][i] =>
                   QuantityOf(s, i)' = QuantityOf(s, i)
<1>1. PICK m : m = call[c]
  OBVIOUS
<1>2. PICK k : k = m.next
  OBVIOUS
<1>3. PICK U : U = UnsettledAt(c)
  OBVIOUS
<1>4. /\ Settles(c) /\ Settles(c)' /\ m.pc \in {"remove", "update"} /\ call'[c].pc = "record"
      /\ call'[c].order = m.order /\ call'[c].fills = m.fills
      /\ call'[c].next = k + 1 /\ f = m.fills[k]
      /\ m.order.symbol \in Symbol /\ f.rest \in DOMAIN book[m.order.symbol]
      /\ tracked' = tracked /\ trades' = trades
  BY <1>1, <1>2, SettlingSettles
<1>5. DuesView(c) /\ DuesView(c)'
  BY <1>4, DuesViews, DuesViewsNext
<1>6. /\ DOMAIN m.fills = 1..Len(m.fills) /\ Len(m.fills) \in Nat /\ k \in Nat
      /\ U \subseteq DOMAIN m.fills
      /\ \A j, l \in DOMAIN m.fills : m.fills[j].rest = m.fills[l].rest => j = l
  BY <1>1, <1>2, <1>3, <1>4, DueParts
<1>7. k <= Len(m.fills)
  BY <1>1, <1>2, <1>4 DEF Settles, AllInv, IInv, CallsWellFormed, WellFormed
<1>8. /\ k \in U /\ UnrecordedAt(c) = U \ {k}
      /\ UnsettledAt(c)' = U \ {k} /\ UnrecordedAt(c)' = U \ {k}
  <2>1. U = k..Len(m.fills)
    BY <1>1, <1>2, <1>3 DEF UnsettledAt
  <2>2. UnsettledAt(c)' = (k + 1)..Len(m.fills)
    BY <1>4 DEF UnsettledAt
  <2>3. UnrecordedAt(c)' = (k + 1)..Len(m.fills)
    BY <1>4, <2>2 DEF UnrecordedAt, At, Settles
  <2>4. UnrecordedAt(c) = U \ {k}
    BY <1>1, <1>2, <1>3, <1>4 DEF UnrecordedAt, At
  <2> QED
    BY <1>6, <1>7, <2>1, <2>2, <2>3, <2>4
<1>9. \A l \in U \ {k} : m.fills[l].rest # f.rest
  BY <1>4, <1>6, <1>8
<1>10. \A i : Due(c, i)' <=> Due(c, i) /\ i # f.rest
  <2>1. \A i : Due(c, i)' <=> \E l \in U \ {k} : m.fills[l].rest = i
    BY <1>4, <1>8 DEF Due
  <2>2. \A i : Due(c, i) <=> \E l \in U : m.fills[l].rest = i
    BY <1>1, <1>3 DEF Due
  <2> QED
    BY <1>4, <1>8, <1>9, <2>1, <2>2
<1>11. Due(c, f.rest) /\ RemainderOf(f.rest) = tracked[f.rest].rem
  <2>1. f.rest \in DOMAIN tracked
    BY <1>4, RestingTracked
  <2>2. Due(c, f.rest)
    BY <1>1, <1>3, <1>4, <1>8 DEF Due
  <2> QED
    BY <1>1, <1>5, <1>8, <1>9, <2>1, <2>2 DEF DuesView
<1>12. \A s \in Symbol : QuantityOf(s, f.rest) = f.restLeft
  BY <1>1, <1>3, <1>4, <1>5, <1>8 DEF DuesView
<1>13. ASSUME NEW s \in Symbol, NEW i \in DOMAIN book[s]
       PROVE  RemainderOf(i)' = RemainderOf(i)
  <2>1. i \in DOMAIN tracked
    BY RestingTracked
  <2>2. CASE \E l \in U \ {k} : m.fills[l].rest = i
    <3>1. PICK l \in U \ {k} : m.fills[l].rest = i
      BY <2>2
    <3>2. RemainderOf(i) = tracked[i].rem - m.fills[l].qty
      BY <1>1, <1>5, <1>8, <3>1 DEF DuesView
    <3>3. RemainderOf(i)' = tracked[i].rem - m.fills[l].qty
      BY <1>4, <1>5, <1>8, <3>1 DEF DuesView
    <3> QED
      BY <3>2, <3>3
  <2>3. CASE \A l \in U \ {k} : m.fills[l].rest # i
    <3>1. RemainderOf(i) = tracked[i].rem
      BY <1>1, <1>5, <1>8, <2>1, <2>3 DEF DuesView
    <3>2. RemainderOf(i)' = tracked[i].rem
      BY <1>4, <1>5, <1>8, <2>1, <2>3 DEF DuesView
    <3> QED
      BY <3>1, <3>2
  <2> QED
    BY <2>2, <2>3
<1>14. ASSUME NEW s \in Symbol, NEW i \in DOMAIN book[s], i # f.rest, i \in DOMAIN book'[s],
              book'[s][i] = book[s][i]
       PROVE  QuantityOf(s, i)' = QuantityOf(s, i)
  <2>1. CASE Due(c, i)
    <3>1. PICK l \in U : m.fills[l].rest = i
      BY <1>1, <1>3, <2>1 DEF Due
    <3>2. l \in U \ {k}
      BY <1>4, <1>14, <3>1
    <3>3. QuantityOf(s, i) = m.fills[l].restLeft
      BY <1>1, <1>3, <1>5, <3>1 DEF DuesView
    <3>4. QuantityOf(s, i)' = m.fills[l].restLeft
      BY <1>4, <1>5, <1>8, <3>1, <3>2 DEF DuesView
    <3> QED
      BY <3>3, <3>4
  <2>2. CASE ~Due(c, i)
    <3>1. ~Due(c, i)'
      BY <1>10, <2>2
    <3> QED
      BY <1>5, <1>14, <2>2, <3>1 DEF DuesView
  <2> QED
    BY <2>1, <2>2
<1>15. TradesAfter' = TradesAfter
  <2>1. FirstToCome(m) = k + 1 /\ FirstToCome(call'[c]) = k + 1
    BY <1>2, <1>4, <1>6 DEF FirstToCome
  <2>2. ToCome(call'[c]) = ToCome(m)
    BY <1>4, <2>1 DEF ToCome
  <2>3. Published' = Published
    BY <1>4 DEF Published
  <2>4. TradesView(c) /\ TradesView(c)'
    BY <1>4, TradesViews, TradesViewsNext
  <2> QED
    BY <1>1, <2>2, <2>3, <2>4 DEF TradesView
<1> QED
  BY <1>5, <1>10, <1>11, <1>12, <1>13, <1>14, <1>15

LEMMA SettlingSeen ==
  ASSUME Serialised, AllInv, AllInv', NEW c \in Client, RemoveResting(c) \/ UpdateResting(c)
  PROVE  UNCHANGED Seen
<1>1. PICK m : m = call[c]
  OBVIOUS
<1>2. PICK f : f = Current(c)
  OBVIOUS
<1>3. PICK z : z = m.order.symbol
  OBVIOUS
<1>4. /\ Settles(c) /\ Settles(c)' /\ m.pc \in {"remove", "update"}
      /\ call'[c].order = m.order /\ call'[c].rem = m.rem /\ f = m.fills[m.next] /\ f \in Fill
      /\ z \in Symbol /\ f.rest \in DOMAIN book[z]
      /\ tracked' = tracked /\ orders' = orders /\ arrivals' = arrivals /\ running' = running
  BY <1>1, <1>2, <1>3, SettlingSettles
<1>5. /\ DuesView(c) /\ DuesView(c)' /\ TradesAfter' = TradesAfter
      /\ \A i : Due(c, i)' <=> Due(c, i) /\ i # f.rest
      /\ Due(c, f.rest) /\ RemainderOf(f.rest) = tracked[f.rest].rem
      /\ \A s \in Symbol : QuantityOf(s, f.rest) = f.restLeft
      /\ \A s \in Symbol : \A i \in DOMAIN book[s] :
           /\ RemainderOf(i)' = RemainderOf(i)
           /\ i # f.rest /\ i \in DOMAIN book'[s] /\ book'[s][i] = book[s][i] =>
                QuantityOf(s, i)' = QuantityOf(s, i)
  BY <1>2, SettlingView
<1>6. \A s \in Symbol : s # z => f.rest \notin DOMAIN book[s]
  BY <1>4 DEF AllInv, IInv, OnePlacePerOrder
<1>7. /\ \A s \in Symbol : DOMAIN book'[s] =
           IF s = z /\ m.pc = "remove" THEN DOMAIN book[s] \ {f.rest} ELSE DOMAIN book[s]
      /\ \A s \in Symbol : \A i \in DOMAIN book[s] :
           i # f.rest => i \in DOMAIN book'[s] /\ book'[s][i] = book[s][i]
      /\ m.pc = "update" => book'[z][f.rest].qty = f.restLeft
  <2>1. CASE m.pc = "remove"
    <3>1. RemoveResting(c)
      BY <1>1, <2>1 DEF UpdateResting, At
    <3>2. book' = Without(z, f.rest)
      BY <1>1, <1>2, <1>3, <3>1 DEF RemoveResting
    <3>3. \A t \in Symbol :
            /\ DOMAIN book'[t] = IF t = z THEN DOMAIN book[t] \ {f.rest} ELSE DOMAIN book[t]
            /\ \A x \in DOMAIN book'[t] : book'[t][x] = book[t][x]
      BY <1>4, <3>2, WithoutEffect DEF AllInv, IInv
    <3> QED
      BY <2>1, <3>3
  <2>2. CASE m.pc = "update"
    <3>1. UpdateResting(c)
      BY <1>1, <2>2 DEF RemoveResting, At
    <3>2. book' = Resized(z, f.rest, f.restLeft)
      BY <1>1, <1>2, <1>3, <3>1 DEF UpdateResting
    <3>3. f.restLeft \in Nat /\ f.restLeft > 0
      <4>1. 0 < tracked[f.rest].rem /\ tracked[f.rest].rem <= f.restLeft
        BY <1>1, <1>4, <2>2 DEF Settles, AllInv, SerialInv, TradesInSettlement, InSettlement
      <4>2. f.restLeft \in Nat /\ tracked[f.rest].rem \in Int
        BY <1>4, RestingTracked DEF Fill
      <4> QED
        BY <4>1, <4>2
    <3>4. /\ \A t \in Symbol : DOMAIN book'[t] = DOMAIN book[t]
          /\ \A t \in Symbol : \A x \in DOMAIN book[t] :
               ~(t = z /\ x = f.rest) => book'[t][x] = book[t][x]
          /\ book'[z][f.rest].qty = f.restLeft
      BY <1>4, <3>2, <3>3, ResizedEffect DEF AllInv, IInv
    <3> QED
      BY <2>2, <3>4
  <2> QED
    BY <1>4, <2>1, <2>2
<1>8. \A s \in Symbol : \A i \in DOMAIN book'[s] :
        i \in DOMAIN book[s] /\ SameEntry(book'[s][i], book[s][i])
  <2>1. ~AddOrder(c) /\ (Step(c) \/ Ask(c))
    BY <1>1, <1>4 DEF AddOrder, Recorded, At, Step
  <2> QED
    BY <2>1, EntriesStay
<1>9. ASSUME NEW s \in Symbol, NEW i \in DOMAIN book[s], i # f.rest
      PROVE  /\ i \in DOMAIN book'[s] /\ (Leaving(i)' <=> Leaving(i))
             /\ EntryAfter(s, i)' = EntryAfter(s, i)
  <2>1. RemainderOf(i)' = RemainderOf(i) /\ QuantityOf(s, i)' = QuantityOf(s, i)
        /\ i \in DOMAIN book'[s] /\ book'[s][i] = book[s][i]
    BY <1>5, <1>7, <1>9
  <2>2. Leaving(i)' <=> Leaving(i)
    BY <1>5, <1>9, <2>1 DEF DuesView
  <2> QED
    BY <1>4, <2>1, <2>2 DEF EntryAfter
<1>10. m.pc = "remove" => Leaving(f.rest)
  <2>1. m.pc = "remove" => tracked[f.rest].rem <= 0
    BY <1>1, <1>4 DEF Settles, AllInv, ExchangeInv, NothingLeft
  <2> QED
    BY <1>5, <2>1 DEF DuesView
<1>11. ASSUME m.pc = "update"
       PROVE  /\ f.rest \in DOMAIN book'[z] /\ ~Leaving(f.rest) /\ ~Leaving(f.rest)'
              /\ EntryAfter(z, f.rest)' = EntryAfter(z, f.rest)
  <2>1. 0 < tracked[f.rest].rem /\ tracked[f.rest].rem \in Int
    BY <1>1, <1>4, <1>11, RestingTracked
       DEF Settles, AllInv, SerialInv, TradesInSettlement, InSettlement
  <2>2. ~Leaving(f.rest)
    BY <1>5, <2>1 DEF DuesView
  <2>3. ~Due(c, f.rest)' /\ ~Leaving(f.rest)'
    BY <1>5 DEF DuesView
  <2>4. f.rest \in DOMAIN book'[z] /\ book'[z][f.rest].qty = f.restLeft
    BY <1>4, <1>7, <1>11
  <2>5. QuantityOf(z, f.rest)' = f.restLeft
    BY <1>4, <1>5, <2>3, <2>4 DEF DuesView
  <2>6. QuantityOf(z, f.rest)' = QuantityOf(z, f.rest) /\ RemainderOf(f.rest)' = RemainderOf(f.rest)
    BY <1>4, <1>5, <2>5
  <2>7. SameEntry(book'[z][f.rest], book[z][f.rest])
    BY <1>4, <1>8, <2>4
  <2> QED
    BY <1>4, <2>2, <2>3, <2>4, <2>6, <2>7 DEF EntryAfter, SameEntry
<1>12. \A s \in Symbol : \A i : (i \in DOMAIN book'[s] /\ ~Leaving(i)')
                                   <=> (i \in DOMAIN book[s] /\ ~Leaving(i))
  <2>1. ASSUME NEW s \in Symbol, NEW i
        PROVE  (i \in DOMAIN book'[s] /\ ~Leaving(i)') <=> (i \in DOMAIN book[s] /\ ~Leaving(i))
    <3>1. CASE i # f.rest
      BY <1>8, <1>9, <3>1
    <3>2. CASE i = f.rest /\ s # z
      BY <1>6, <1>8, <3>2
    <3>3. CASE i = f.rest /\ s = z
      BY <1>4, <1>7, <1>10, <1>11, <3>3
    <3> QED
      BY <3>1, <3>2, <3>3
  <2> QED
    BY <2>1
<1>13. \A s \in Symbol : \A i \in DOMAIN book[s] :
         ~Leaving(i) => EntryAfter(s, i)' = EntryAfter(s, i)
  BY <1>4, <1>6, <1>9, <1>10, <1>11
<1>14. /\ \A s \in Symbol : BookAfter(s)' = BookAfter(s)
       /\ arrivals' + Cardinality(Joining)' = arrivals + Cardinality(Joining)
  BY <1>1, <1>4, <1>12, <1>13, SettleSame
<1>15. Asked' = Asked /\ Matching' = Matching
  <2>1. Asked' = Asked
    BY <1>4 DEF Asked, RequestOf
  <2> QED
    BY <1>4, <2>1, SettlersMatch
<1> QED
  BY <1>4, <1>5, <1>14, <1>15 DEF Seen

\* Once all trades are settled the mapping shows the books as they are, but for the
\* order that is about to join one.
LEMMA RecordedView ==
  ASSUME Serialised, AllInv, NEW c \in Client, Recorded(c), NEW o, o = call[c].order
  PROVE  /\ Settles(c) /\ TradesAfter = Published
         /\ Cardinality(Joining) = IF Joins(c) THEN 1 ELSE 0
         /\ \A s \in Symbol :
              /\ BookAfter(s) = [i \in DOMAIN BookAfter(s) |-> BookAfter(s)[i]]
              /\ DOMAIN BookAfter(s) =
                   DOMAIN book[s] \cup {i \in {o.id} : Joins(c) /\ o.symbol = s}
              /\ \A i \in DOMAIN book[s] : i # o.id /\ BookAfter(s)[i] = Shade(s, i)
              /\ Joins(c) /\ o.symbol = s => BookAfter(s)[o.id] = Joined(c)
<1>1. PICK m : m = call[c]
  OBVIOUS
<1>2. m.pc = "record" /\ c \in DOMAIN call /\ m.next > Len(m.fills)
  BY <1>1 DEF Recorded, At
<1>3. Settles(c)
  BY <1>1, <1>2, Alone DEF Settles, AllInv, IInv
<1>4. /\ DOMAIN m.fills = 1..Len(m.fills) /\ Len(m.fills) \in Nat /\ m.next \in Nat
      /\ FirstToCome(m) \in 1..(Len(m.fills) + 1) /\ ToCome(m) \in Seq(DealType)
      /\ Published \in Seq(DealType) /\ Len(ToCome(m)) = 1 + Len(m.fills) - FirstToCome(m)
  BY <1>1, <1>3, DealsTyped DEF DealsView
<1>5. TradesAfter = Published
  <2>1. FirstToCome(m) = m.next
    BY <1>2, <1>4 DEF FirstToCome
  <2>2. Len(ToCome(m)) = 0
    BY <1>2, <1>4, <2>1
  <2>3. ToCome(m) = <<>>
    BY <1>4, <2>2
  <2>4. TradesAfter = Published \o ToCome(m)
    BY <1>1, <1>3, TradesViews DEF TradesView
  <2> QED
    BY <1>4, <2>3, <2>4
<1>6. UnsettledAt(c) = {} /\ UnrecordedAt(c) = {}
  BY <1>1, <1>2, <1>4 DEF UnsettledAt, UnrecordedAt, At
<1>7. DuesView(c) /\ BookView(c)
  BY <1>3, DuesViews, BookViews
<1>8. ASSUME NEW s \in Symbol, NEW i \in DOMAIN book[s]
      PROVE  ~Leaving(i) /\ EntryAfter(s, i) = Shade(s, i) /\ i # o.id
  <2>1. i \in DOMAIN tracked
    BY RestingTracked
  <2>2. ~Due(c, i)
    BY <1>6 DEF Due
  <2>3. ~Leaving(i) /\ RemainderOf(i) = tracked[i].rem /\ QuantityOf(s, i) = book[s][i].qty
    BY <1>6, <1>7, <2>1, <2>2 DEF DuesView
  <2>4. i # o.id
    <3>1. call[c].pc \notin {"unbook", "replace"}
      BY <1>1, <1>2
    <3> QED
      BY <1>2, <3>1, InHandUnbooked DEF AllInv
  <2> QED
    BY <2>3, <2>4 DEF EntryAfter, Shade
<1>9. ASSUME NEW s \in Symbol
      PROVE  {i \in DOMAIN book[s] : ~Leaving(i)} = DOMAIN book[s]
  BY <1>8
<1> QED
  BY <1>1, <1>3, <1>5, <1>7, <1>8, <1>9 DEF BookView

LEMMA EndSeen ==
  ASSUME Serialised, AllInv, AllInv', NEW c \in Client,
         AddOrder(c) \/ CancelRemainder(c) \/ Finish(c)
  PROVE  UNCHANGED Seen
<1>1. PICK o : o = call[c].order
  OBVIOUS
<1>2. Recorded(c) /\ running' = running /\ trades' = trades
  BY DEF AddOrder, CancelRemainder, Finish, reporter
<1>3. /\ Settles(c) /\ TradesAfter = Published
      /\ Cardinality(Joining) = IF Joins(c) THEN 1 ELSE 0
      /\ \A s \in Symbol :
           /\ BookAfter(s) = [i \in DOMAIN BookAfter(s) |-> BookAfter(s)[i]]
           /\ DOMAIN BookAfter(s) = DOMAIN book[s] \cup {i \in {o.id} : Joins(c) /\ o.symbol = s}
           /\ \A i \in DOMAIN book[s] : i # o.id /\ BookAfter(s)[i] = Shade(s, i)
           /\ Joins(c) /\ o.symbol = s => BookAfter(s)[o.id] = Joined(c)
  BY <1>1, <1>2, RecordedView
<1>4. DOMAIN call' = {} /\ Quiet' /\ Matching = {} /\ Matching' = {}
  <2>1. DOMAIN call' = {}
    BY NoCallsLeft DEF Returning
  <2> QED
    BY <1>3, <2>1 DEF Quiet, Settlers, Matching, Settles
<1>5. QuietView'
  BY <1>4, QuietlyViewedNext
<1>6. Asked' = Asked
  <2>1. ~RegisterOrder(c) /\ (Step(c) \/ Ask(c))
    BY <1>2 DEF RegisterOrder, Recorded, At, Step
  <2> QED
    BY <2>1, AskedKept DEF AllInv, IInv
<1>7. TradesAfter' = TradesAfter
  BY <1>2, <1>3, <1>5 DEF QuietView, Published
<1>8. /\ o \in Order /\ tracked[o.id].rem = call[c].rem
      /\ o.type \in RestingType => orders[o.id].left = call[c].rem
  BY <1>1, <1>2, RecordedRemainder DEF AllInv
<1>9. Joins(c) <=> AddOrder(c)
  BY <1>1, <1>2, <1>8 DEF Joins, AddOrder, CancelRemainder, Finish, RestingType
<1>10. arrivals' + Cardinality(Joining)' = arrivals + Cardinality(Joining)
  <2>1. Cardinality(Joining)' = 0
    BY <1>5 DEF QuietView
  <2>2. arrivals' = IF AddOrder(c) THEN arrivals + 1 ELSE arrivals
    BY DEF AddOrder, CancelRemainder, Finish, books
  <2>3. arrivals \in Nat
    BY DEF AllInv, IInv, TypeOK, EngineTypeOK
  <2> QED
    BY <1>3, <1>9, <2>1, <2>2, <2>3
<1>11. \A s \in Symbol : \A i \in DOMAIN book[s] : tracked'[i] = tracked[i]
  <2>1. \A x \in DOMAIN tracked : x # o.id => tracked'[x] = tracked[x]
    BY <1>1 DEF AddOrder, CancelRemainder, Finish, reporter
  <2> QED
    BY <1>3, <2>1, RestingTracked
<1>12. ASSUME NEW s \in Symbol, ~(Joins(c) /\ o.symbol = s)
       PROVE  BookAfter(s)' = BookAfter(s)
  <2>1. book'[s] = book[s]
    <3>1. CASE AddOrder(c)
      BY <1>1, <1>9, <1>12, <3>1, AddOrderEffect DEF AllInv
    <3>2. CASE ~AddOrder(c)
      BY <3>2 DEF CancelRemainder, Finish, books
    <3> QED
      BY <3>1, <3>2
  <2>2. PICK p : p = BookAfter(s)
    OBVIOUS
  <2>3. p = [i \in DOMAIN p |-> p[i]] /\ DOMAIN p = DOMAIN book[s]
        /\ \A i \in DOMAIN book[s] : p[i] = Shade(s, i)
    BY <1>3, <1>12, <2>2
  <2>4. \A i \in DOMAIN book[s] : Shade(s, i)' = Shade(s, i)
    BY <1>11, <2>1 DEF Shade
  <2>5. BookAfter(s)' = [i \in DOMAIN book'[s] |-> Shade(s, i)']
    BY <1>5 DEF QuietView
  <2> QED
    BY <2>1, <2>2, <2>3, <2>4, <2>5
<1>13. ASSUME NEW s \in Symbol, Joins(c), o.symbol = s
       PROVE  BookAfter(s)' = BookAfter(s)
  <2>1. /\ DOMAIN book'[s] = DOMAIN book[s] \cup {o.id}
        /\ book'[s][o.id] = EntryOf(o, arrivals + 1)
        /\ \A i \in DOMAIN book[s] : book'[s][i] = book[s][i]
        /\ tracked' = tracked
    <3>1. AddOrder(c) /\ tracked' = tracked
      BY <1>9, <1>13 DEF AddOrder, reporter
    <3> QED
      BY <1>1, <1>13, <3>1, AddOrderEffect DEF AllInv
  <2>2. PICK p : p = BookAfter(s)
    OBVIOUS
  <2>3. p = [i \in DOMAIN p |-> p[i]] /\ DOMAIN p = DOMAIN book[s] \cup {o.id}
        /\ \A i \in DOMAIN book[s] : p[i] = Shade(s, i)
    BY <1>3, <1>13, <2>2
  <2>4. \A i \in DOMAIN book[s] : Shade(s, i)' = Shade(s, i)
    BY <1>11, <2>1 DEF Shade
  <2>5. p[o.id] = Joined(c) /\ Joined(c) = Shade(s, o.id)'
    <3>1. p[o.id] = Joined(c)
      BY <1>3, <1>13, <2>2
    <3>2. Joined(c) = Shade(s, o.id)'
      BY <1>1, <1>8, <2>1 DEF Joined, Shade, EntryOf
    <3> QED
      BY <3>1, <3>2
  <2>6. BookAfter(s)' = [i \in DOMAIN book'[s] |-> Shade(s, i)']
    BY <1>5 DEF QuietView
  <2>7. \A i \in DOMAIN p : p[i] = Shade(s, i)'
    BY <2>3, <2>4, <2>5
  <2> QED
    BY <2>1, <2>2, <2>3, <2>6, <2>7
<1>14. \A s \in Symbol : BookAfter(s)' = BookAfter(s)
  BY <1>12, <1>13
<1> QED
  BY <1>2, <1>4, <1>6, <1>7, <1>10, <1>14 DEF Seen

-----------------------------------------------------------------------------
(* The steps of the exchange.                                              *)

LEMMA IdInRange ==
  ASSUME AllInv, NEW i \in OrderId, i < nextID
  PROVE  i \in 1..MaxOrders
<1>1. nextID <= MaxOrders + 1 /\ nextID \in Nat /\ MaxOrders \in Nat
  BY EngineAssumption DEF AllInv, ExchangeInv, IInv, TypeOK, EngineTypeOK, Positive
<1> QED
  BY <1>1 DEF OrderId, Positive

LEMMA RegisterSeen ==
  ASSUME Serialised, AllInv, AllInv', NEW c \in Client, RegisterOrder(c)
  PROVE  Exchange!Next
<1>1. PICK o : o = call[c].order
  OBVIOUS
<1>2. PICK r : r = RequestOf(o)
  OBVIOUS
<1>3. /\ c \in DOMAIN call /\ call[c].pc = "register" /\ DOMAIN call = {c}
      /\ DOMAIN call' = {c} /\ call'[c].order = o /\ call'[c].pc \in {"liquidity", "match"}
  <2>1. c \in DOMAIN call /\ call[c].pc = "register" /\ DOMAIN call = {c}
    BY Alone DEF RegisterOrder, At, AllInv, IInv
  <2>2. DOMAIN call' = {c}
    BY <2>1 DEF RegisterOrder, Goto
  <2>3. call'[c] = [call[c] EXCEPT !.pc = IF o.type = "fok" THEN "liquidity" ELSE "match"]
    BY <1>1, <2>1 DEF RegisterOrder, Goto
  <2>4. call[c] \in Call
    BY <2>1 DEF AllInv, IInv, TypeOK, CallsTypeOK
  <2> QED
    BY <1>1, <2>1, <2>2, <2>3, <2>4 DEF Call
<1>4. Quiet /\ Quiet' /\ Matching = {} /\ Matching' = {o.id}
  BY <1>1, <1>3 DEF Quiet, Settlers, Matching
<1>5. /\ o \in Order /\ o.id \in 1..MaxOrders /\ o.qty > 0 /\ r \in Offers
  <2>1. call[c] \in Call /\ o \in Order /\ o.id < nextID
    BY <1>1, <1>3 DEF AllInv, IInv, TypeOK, CallsTypeOK, Call, IdsAllocated
  <2>2. o.id \in 1..MaxOrders
    BY <2>1, IdInRange DEF Order
  <2>3. o.qty > 0
    BY <1>1, <1>3 DEF AllInv, IInv, CallsWellFormed, WellFormed, Working, Valid
  <2>4. r \in Offers
    BY <1>1, <1>2, <1>3 DEF AllInv, ExchangeInv, Offered, Working
  <2> QED
    BY <2>1, <2>2, <2>3, <2>4
<1>6. r \in {x \in Offers : x.qty > 0}
  BY <1>2, <1>5 DEF RequestOf
<1>7. running = TRUE
  BY <1>3 DEF AllInv, SerialInv, Undisturbed, IInv, TypeOK, EngineTypeOK
<1>8. \A s \in Symbol : o.id \notin DOMAIN book[s]
  <2>1. call[c].pc \notin {"unbook", "replace"}
    BY <1>3
  <2> QED
    BY <1>1, <1>3, <2>1, InHandUnbooked DEF AllInv
<1>9. \A s \in Symbol : o.id \notin DOMAIN [t \in Symbol |-> BookAfter(t)][s]
  <2>1. QuietView
    BY <1>4, QuietlyViewed
  <2> QED
    BY <1>8, <2>1 DEF QuietView
<1>10. Asked' = Exchange!Put(Asked, o.id, r)
  <2>1. orders' = Put(orders, o.id, o)
    BY <1>1 DEF RegisterOrder
  <2>2. /\ DOMAIN orders' = DOMAIN orders \cup {o.id} /\ orders'[o.id] = o
        /\ \A i \in DOMAIN orders : i # o.id => orders'[i] = orders[i]
    BY <2>1 DEF Put
  <2>3. PICK A : A = Asked
    OBVIOUS
  <2>4. DOMAIN A = DOMAIN orders /\ \A i \in DOMAIN orders : A[i] = RequestOf(orders[i])
    BY <2>3 DEF Asked
  <2>5. Asked' = [i \in DOMAIN orders \cup {o.id} |-> RequestOf(orders'[i])]
    BY <2>2 DEF Asked
  <2>6. \A i \in DOMAIN orders \cup {o.id} :
          RequestOf(orders'[i]) = IF i = o.id THEN r ELSE A[i]
    BY <1>2, <2>2, <2>4
  <2> QED
    BY <2>3, <2>4, <2>5, <2>6 DEF Exchange!Put
<1>11. running' = running /\ book' = book /\ trades' = trades /\ arrivals' = arrivals
  BY DEF RegisterOrder, books
<1>12. \A s \in Symbol : \A i \in DOMAIN book[s] : tracked'[i].rem = tracked[i].rem
  <2>1. \A i \in DOMAIN tracked : i # o.id => tracked'[i] = tracked[i]
    BY <1>1 DEF RegisterOrder, Put
  <2> QED
    BY <1>8, <2>1, RestingTracked
<1>13. /\ \A s \in Symbol : BookAfter(s)' = BookAfter(s)
       /\ TradesAfter' = TradesAfter
       /\ arrivals' + Cardinality(Joining)' = arrivals + Cardinality(Joining)
  BY <1>4, <1>11, <1>12, QuietSame
<1>14. Exchange!Submit(o.id, r)
  <2>1. [s \in Symbol |-> BookAfter(s)]' = [s \in Symbol |-> BookAfter(s)]
    BY <1>13
  <2>2. o.id \notin Matching /\ Matching' = Matching \cup {o.id}
    BY <1>4
  <2> QED
    BY <1>7, <1>9, <1>10, <1>11, <1>13, <2>1, <2>2 DEF Exchange!Submit
<1> QED
  BY <1>5, <1>6, <1>14 DEF Exchange!Next

LEMMA TakeOutSeen ==
  ASSUME Serialised, AllInv, AllInv', NEW c \in Client, Unbook(c) \/ Replace(c)
  PROVE  Exchange!Next
<1>1. PICK o : o = call[c].order
  OBVIOUS
<1>2. PICK z : z = o.symbol
  OBVIOUS
<1>3. /\ c \in DOMAIN call /\ call[c].pc \in {"unbook", "replace"} /\ DOMAIN call = {c}
      /\ DOMAIN call' = {c} /\ call'[c].pc \in {"cancel", "submit"}
      /\ book' = Without(z, o.id) /\ o.id \in DOMAIN book[z]
  <2>1. c \in DOMAIN call /\ call[c].pc \in {"unbook", "replace"} /\ DOMAIN call = {c}
    BY Alone DEF Unbook, Replace, At, AllInv, IInv
  <2>2. /\ book' = Without(z, o.id) /\ o.id \in DOMAIN book[z]
    BY <1>1, <1>2 DEF Unbook, Replace
  <2>3. PICK next, S : /\ call' = Disturb(next, S) /\ DOMAIN next = {c}
                       /\ next[c].pc \in {"cancel", "submit"}
    <3>1. call[c] \in Call
      BY <2>1 DEF AllInv, IInv, TypeOK, CallsTypeOK
    <3>2. CASE Unbook(c)
      <4>1. PICK next : next = [call EXCEPT ![c].pc = "cancel"]
        OBVIOUS
      <4>2. DOMAIN next = {c} /\ next[c].pc = "cancel"
        BY <2>1, <3>1, <4>1 DEF Call
      <4> QED
        BY <3>2, <4>1, <4>2 DEF Unbook
    <3>3. CASE Replace(c)
      <4>1. PICK next : next = [call EXCEPT ![c].pc = "submit",
                                  ![c].order = ReplacementOf(o, book[z][o.id]), ![c].rem = o.qty]
        OBVIOUS
      <4>2. DOMAIN next = {c} /\ next[c].pc = "submit"
        BY <2>1, <3>1, <4>1 DEF Call
      <4> QED
        BY <1>1, <1>2, <3>3, <4>1, <4>2 DEF Replace
    <3> QED
      BY <3>2, <3>3
  <2>4. DOMAIN call' = {c} /\ call'[c].pc \in {"cancel", "submit"}
    BY <2>3 DEF Disturb
  <2> QED
    BY <2>1, <2>2, <2>4
<1>4. Quiet /\ Quiet' /\ Matching = {} /\ Matching' = {}
  BY <1>3 DEF Quiet, Settlers, Matching
<1>5. QuietView /\ QuietView'
  BY <1>4, QuietlyViewed, QuietlyViewedNext
<1>6. z \in Symbol /\ o.id \in 1..MaxOrders
  <2>1. call[c] \in Call /\ o.id < nextID
    BY <1>1, <1>3 DEF AllInv, IInv, TypeOK, CallsTypeOK, IdsAllocated
  <2> QED
    BY <1>1, <1>2, <2>1, IdInRange DEF Call, Order
<1>7. running = TRUE
  BY <1>3, <1>6 DEF AllInv, SerialInv, Undisturbed, IInv, TypeOK, EngineTypeOK
<1>8. /\ running' = running /\ trades' = trades /\ arrivals' = arrivals /\ tracked' = tracked
      /\ orders' = orders
  BY DEF Unbook, Replace, reporter
<1>9. \A t \in Symbol :
        /\ DOMAIN book'[t] = IF t = z THEN DOMAIN book[t] \ {o.id} ELSE DOMAIN book[t]
        /\ \A x \in DOMAIN book'[t] : book'[t][x] = book[t][x]
  BY <1>3, <1>6, WithoutEffect DEF AllInv, IInv
<1>10. PICK B : B = [s \in Symbol |-> BookAfter(s)]
  OBVIOUS
<1>11. \A s \in Symbol : B[s] = [i \in DOMAIN book[s] |-> Shade(s, i)]
  BY <1>5, <1>10 DEF QuietView
<1>12. ASSUME NEW s \in Symbol
       PROVE  BookAfter(s)' = IF s = z THEN Exchange!Drop(B[s], o.id) ELSE B[s]
  <2>1. BookAfter(s)' = [i \in DOMAIN book'[s] |-> Shade(s, i)']
    BY <1>5 DEF QuietView
  <2>2. \A i \in DOMAIN book'[s] : Shade(s, i)' = Shade(s, i)
    BY <1>8, <1>9 DEF Shade
  <2>3. CASE s = z
    <3>1. DOMAIN book'[s] = DOMAIN book[s] \ {o.id}
      BY <1>9, <2>3
    <3>2. PICK p : p = [i \in DOMAIN book[s] |-> Shade(s, i)]
      OBVIOUS
    <3>3. DOMAIN p = DOMAIN book[s] /\ \A i \in DOMAIN book[s] : p[i] = Shade(s, i)
      BY <3>2
    <3>4. Exchange!Drop(p, o.id) = [i \in DOMAIN book[s] \ {o.id} |-> p[i]]
      BY <3>3 DEF Exchange!Drop
    <3>5. Exchange!Drop(p, o.id) = [i \in DOMAIN book'[s] |-> Shade(s, i)']
      BY <2>2, <3>1, <3>3, <3>4
    <3>6. B[s] = p
      BY <1>11, <3>2
    <3> QED
      BY <2>1, <2>3, <3>5, <3>6
  <2>4. CASE s # z
    <3>1. DOMAIN book'[s] = DOMAIN book[s]
      BY <1>9, <2>4
    <3> QED
      BY <1>11, <2>1, <2>2, <2>4, <3>1
  <2> QED
    BY <2>3, <2>4
<1>13. Exchange!Withdraw(z, o.id)
  <2>1. o.id \in DOMAIN B[z]
    BY <1>3, <1>6, <1>11
  <2>3. [s \in Symbol |-> BookAfter(s)]' = [B EXCEPT ![z] = Exchange!Drop(B[z], o.id)]
    BY <1>6, <1>10, <1>12
  <2>4. TradesAfter' = TradesAfter /\ Cardinality(Joining)' = Cardinality(Joining)
    BY <1>5, <1>8 DEF QuietView, Published
  <2>5. Asked' = Asked /\ Matching' = Matching
    BY <1>4, <1>8 DEF Asked, RequestOf
  <2> QED
    BY <1>7, <1>8, <1>10, <2>1, <2>3, <2>4, <2>5 DEF Exchange!Withdraw
<1> QED
  BY <1>6, <1>13 DEF Exchange!Next

LEMMA CloseSeen ==
  ASSUME Serialised, AllInv, AllInv', NEW c \in Client, Close(c)
  PROVE  Exchange!Next
<1>1. DOMAIN call = {} /\ DOMAIN call' = {}
  BY NoCallsLeft
<1>2. Quiet /\ Quiet' /\ Matching = {} /\ Matching' = {}
  BY <1>1 DEF Quiet, Settlers, Matching
<1>3. QuietView /\ QuietView'
  BY <1>2, QuietlyViewed, QuietlyViewedNext
<1>4. /\ running' = FALSE /\ book' = [s \in Symbol |-> EmptyBook]
      /\ trades' = trades /\ arrivals' = arrivals /\ orders' = orders
  BY DEF Close, reporter
<1>5. ASSUME NEW s \in Symbol
      PROVE  BookAfter(s)' = Exchange!EmptyBook
  <2>1. DOMAIN book'[s] = {}
    BY <1>4 DEF EmptyBook
  <2>2. BookAfter(s)' = [i \in DOMAIN book'[s] |-> Shade(s, i)']
    BY <1>3 DEF QuietView
  <2>3. BookAfter(s)' = [i \in {} |-> Shade(s, i)']
    BY <2>1, <2>2
  <2> QED
    BY <2>3 DEF Exchange!EmptyBook
<1>6. [s \in Symbol |-> BookAfter(s)]' = [s \in Symbol |-> Exchange!EmptyBook]
  BY <1>5
<1>7. TradesAfter' = TradesAfter /\ Cardinality(Joining)' = Cardinality(Joining)
  BY <1>3, <1>4 DEF QuietView, Published
<1>8. Asked' = Asked /\ Matching' = Matching
  BY <1>2, <1>4 DEF Asked, RequestOf
<1>9. Exchange!Close
  BY <1>4, <1>6, <1>7, <1>8 DEF Exchange!Close
<1> QED
  BY <1>9 DEF Exchange!Next

\* What the exchange matches the order of a call with is what Match goes through.
LEMMA MatchedAlike ==
  ASSUME Serialised, AllInv, NEW c \in DOMAIN call, call[c].pc \in {"liquidity", "match"},
         NEW o, o = call[c].order, NEW r, r = RequestOf(o),
         NEW z, z = o.symbol, NEW b, b = book[z], NEW d, d = BookAfter(z)
  PROVE  /\ o \in Order /\ o.qty > 0 /\ o.qty \in Nat /\ o.price \in Int /\ o.side \in Side
         /\ z \in Symbol /\ r.symbol = z
         /\ o.id \in 1..MaxOrders /\ Asked[o.id] = r /\ Quiet /\ Matching = {o.id}
         /\ Ordered(b) /\ Ordered(d) /\ Alike(o, r, b, d)
         /\ d = [i \in DOMAIN b |-> Shade(z, i)]
         /\ \A s \in Symbol : o.id \notin DOMAIN book[s]
<1>1. /\ o \in Order /\ o.qty > 0 /\ o.qty \in Nat /\ o.price \in Int /\ o.side \in Side
      /\ z \in Symbol /\ Ordered(b) /\ c \in Client
  <2>1. call[c].pc \in Working /\ c \in Client
    BY DEF Working, Registered, AllInv, IInv, TypeOK, CallsTypeOK
  <2> QED
    BY <2>1, MatchingParts
<1>2. o.id \in 1..MaxOrders
  BY <1>1, IdInRange DEF Order, AllInv, IInv, IdsAllocated
<1>3. Asked[o.id] = r
  <2>1. o.id \in DOMAIN orders
    BY DEF AllInv, IInv, CallsWellFormed, WellFormed, Registered
  <2>2. RequestOf(orders[o.id]) = r
    BY DEF AllInv, ExchangeInv, Offered, Registered
  <2> QED
    BY <2>1, <2>2 DEF Asked
<1>4. Quiet /\ Matching = {o.id}
  <2>1. DOMAIN call = {c}
    BY <1>1, Alone DEF AllInv, IInv
  <2> QED
    BY <2>1 DEF Quiet, Settlers, Matching
<1>5. d = [i \in DOMAIN b |-> Shade(z, i)]
  BY <1>1, <1>4, QuietlyViewed DEF QuietView
<1>6. Alike(o, r, b, d) /\ r.symbol = z
  <2>1. DOMAIN d = DOMAIN b
    BY <1>5
  <2>2. \A i \in DOMAIN b :
          /\ d[i].account = b[i].account /\ d[i].side = b[i].side /\ d[i].price = b[i].price
          /\ d[i].qty = b[i].qty /\ d[i].arrival = b[i].arrival
    <3>1. \A i \in DOMAIN b : d[i] = Shade(z, i)
      BY <1>5
    <3>2. \A i : /\ Shade(z, i).account = b[i].account /\ Shade(z, i).side = b[i].side
                 /\ Shade(z, i).price = b[i].price /\ Shade(z, i).qty = b[i].qty
                 /\ Shade(z, i).arrival = b[i].arrival
      BY DEF Shade
    <3> QED
      BY <3>1, <3>2
  <2>3. /\ r.account = o.account /\ r.side = o.side /\ r.type = o.type
        /\ r.price = o.price /\ r.qty = o.qty /\ r.symbol = z
    BY DEF RequestOf
  <2> QED
    BY <2>1, <2>2, <2>3 DEF Alike
<1>7. Ordered(d)
  BY <1>1, <1>6 DEF Ordered, Alike
<1>8. \A s \in Symbol : o.id \notin DOMAIN book[s]
  <2>1. call[c].pc \notin {"unbook", "replace"}
    OBVIOUS
  <2> QED
    BY <1>1, <2>1, InHandUnbooked DEF AllInv
<1> QED
  BY <1>1, <1>2, <1>3, <1>4, <1>5, <1>6, <1>7, <1>8

\* An order that hits nothing changes nothing.
LEMMA NothingHit ==
  ASSUME NEW d, Ordered(d), NEW r, r.qty \in Int, Exchange!Hit(r, d) = {}, NEW id
  PROVE  /\ Exchange!TradesOf(id, r, d) = <<>>
         /\ Exchange!Traded(r, d) = 0
         /\ Exchange!After(r, d) = [i \in DOMAIN d |-> d[i]]
<1>1. PICK none : none = <<>>
  OBVIOUS
<1>2. Met(none) = {} /\ DOMAIN none = 1..0
  BY <1>1 DEF Met
<1>3. InQueue(r, d, none, r.qty)
  BY <1>1, QueueStart
<1>4. DOMAIN Exchange!Queue(d, {}) = 1..0
  <2>1. 0 \in Nat
    OBVIOUS
  <2>2. Exchange!Queue(d, Met(none)) = [k \in 1..0 |-> none[k].rest]
    BY ONLY Ordered(d), <1>2, <1>3, <2>1, QueueIs
  <2> QED
    BY <1>2, <2>2
<1>5. PICK q : q = Exchange!Queue(d, {})
  OBVIOUS
<1>6. Exchange!TradesOf(id, r, d) = [n \in 1..0 |-> Exchange!TradeOf(id, r, d, q[n])]
  BY <1>4, <1>5 DEF Exchange!TradesOf
<1>7. Exchange!TradesOf(id, r, d) = <<>>
  BY <1>6
<1>8. Exchange!Traded(r, d) = 0
  <2>1. Given(r, d, Met(none)) = r.qty - r.qty
    BY <1>3 DEF InQueue
  <2>2. Exchange!Traded(r, d) = Given(r, d, {})
    BY TradedIsGiven
  <2> QED
    BY <1>2, <2>1, <2>2
<1>9. Exchange!After(r, d) = [i \in DOMAIN d |-> d[i]]
  BY DEF Exchange!After
<1> QED
  BY <1>7, <1>8, <1>9

LEMMA QuietTrades ==
  ASSUME AllInv, Quiet
  PROVE  TradesAfter = Published /\ Published \in Seq(DealType)
<1>1. TradesAfter = Published
  BY QuietlyViewed DEF QuietView
<1> QED
  BY <1>1, PublishedTyped

LEMMA InsufficientSeen ==
  ASSUME Serialised, AllInv, AllInv', NEW c \in Client, Insufficient(c)
  PROVE  Exchange!Next
<1>1. PICK o : o = call[c].order
  OBVIOUS
<1>2. PICK r : r = RequestOf(o)
  OBVIOUS
<1>3. PICK z : z = o.symbol
  OBVIOUS
<1>4. PICK b : b = book[z]
  OBVIOUS
<1>5. PICK B : B = [s \in Symbol |-> BookAfter(s)]
  OBVIOUS
<1>6. PICK d : d = BookAfter(z)
  OBVIOUS
<1>7. /\ c \in DOMAIN call /\ call[c].pc = "liquidity" /\ Available(o, b) < o.qty
      /\ o.type = "fok" /\ DOMAIN call' = {}
  <2>1. c \in DOMAIN call /\ call[c].pc = "liquidity"
    BY DEF Insufficient, At
  <2>2. ~call[c].torn
    BY <2>1 DEF AllInv, SerialInv, Undisturbed
  <2>3. Available(o, b) < o.qty
    BY <1>1, <1>3, <1>4, <2>2 DEF Insufficient
  <2>4. o.type = "fok"
    BY <1>1, <2>1 DEF AllInv, ExchangeInv, Queued
  <2>5. DOMAIN call' = {}
    BY NoCallsLeft DEF Returning
  <2> QED
    BY <2>1, <2>3, <2>4, <2>5
<1>8. /\ o \in Order /\ o.qty > 0 /\ o.qty \in Nat /\ o.price \in Int /\ o.side \in Side
      /\ z \in Symbol /\ r.symbol = z
      /\ o.id \in 1..MaxOrders /\ Asked[o.id] = r /\ Quiet /\ Matching = {o.id}
      /\ Ordered(b) /\ Ordered(d) /\ Alike(o, r, b, d)
      /\ d = [i \in DOMAIN b |-> Shade(z, i)]
  BY <1>1, <1>2, <1>3, <1>4, <1>6, <1>7, MatchedAlike
<1>9. Exchange!Hit(r, d) = {}
  <2>1. PICK E : E = Exchange!Eligible(o, b)
    OBVIOUS
  <2>2. Exchange!Shown(b, E) <= Available(o, b)
    BY <1>7, <1>8, <2>1, AvailableToTrade
  <2>3. Exchange!Eligible(r, d) = E /\ Exchange!Shown(d, E) = Exchange!Shown(b, E)
    BY <1>8, <2>1, AlikeEligible, AlikeQueue
  <2>4. Exchange!Shown(b, E) \in Nat /\ Available(o, b) \in Nat
    <3>1. PICK S : S = {i \in Counterparties(o, b) : AtBest(b, i) \/ PriceMatch(o, b[i].price)}
      OBVIOUS
    <3>2. S \subseteq DOMAIN b /\ E \subseteq DOMAIN b
      BY <1>8, <2>1, <3>1, EligibleParts DEF Counterparties
    <3>3. /\ IsFiniteSet(S) /\ \A i \in S : b[i].qty \in Nat
          /\ IsFiniteSet(E) /\ \A i \in E : b[i].qty \in Nat
      BY <1>8, <3>2, FS_Subset DEF Ordered
    <3>4. Exchange!Shown(b, S) \in Nat /\ Exchange!Shown(b, E) \in Nat
      BY <3>3, ShownParts
    <3> QED
      BY <3>1, <3>4, AvailableIsShown
  <2>5. Exchange!Shown(b, E) < o.qty
    BY <1>7, <1>8, <2>2, <2>4
  <2> QED
    BY <1>7, <1>8, <2>3, <2>5 DEF Alike, Exchange!Hit
<1>10. TradesAfter \in Seq(DealType)
  BY <1>8, QuietTrades
<1>11. Quiet' /\ Matching' = {}
  BY <1>7 DEF Quiet, Settlers, Matching
<1>12. /\ running' = running /\ book' = book /\ trades' = trades /\ arrivals' = arrivals
       /\ orders' = orders
  BY DEF Insufficient, books
<1>13. \A s \in Symbol : \A i \in DOMAIN book[s] : tracked'[i].rem = tracked[i].rem
  <2>1. PICK id, status : SetStatus(id, status)
    BY DEF Insufficient
  <2>2. \A i \in DOMAIN tracked :
          tracked'[i] = tracked[i] \/ tracked'[i] = [tracked[i] EXCEPT !.status = status]
    BY <2>1 DEF SetStatus
  <2>3. tracked \in [DOMAIN tracked -> Tracked]
    BY DEF AllInv, IInv, TypeOK, ReporterTypeOK
  <2>4. \A i \in DOMAIN tracked : tracked'[i].rem = tracked[i].rem
    BY <2>2, <2>3 DEF Tracked
  <2> QED
    BY <2>4, RestingTracked
<1>14. /\ \A s \in Symbol : BookAfter(s)' = BookAfter(s)
       /\ TradesAfter' = TradesAfter
       /\ arrivals' + Cardinality(Joining)' = arrivals + Cardinality(Joining)
  BY <1>8, <1>11, <1>12, <1>13, QuietSame
<1>15. /\ Exchange!TradesOf(o.id, r, d) = <<>>
       /\ Exchange!After(r, d) = [i \in DOMAIN d |-> d[i]] /\ ~Exchange!Rests(r, d)
  <2>1. r.qty \in Int /\ r.type = "fok"
    BY <1>7, <1>8 DEF Alike
  <2> QED
    BY <1>8, <1>9, <2>1, NothingHit DEF Exchange!Rests
<1>16. Exchange!After(r, d) = d
  BY <1>8, <1>15
<1>17. Exchange!Match(o.id)
  <2>1. B[z] = d
    BY <1>5, <1>6, <1>8
  <2>2. [B EXCEPT ![z] = d] = B
    BY <1>5, <2>1
  <2>3. [s \in Symbol |-> BookAfter(s)]' = B
    BY <1>5, <1>14
  <2>4. TradesAfter \o <<>> = TradesAfter
    BY <1>10
  <2>5. Asked' = Asked
    BY <1>12 DEF Asked, RequestOf
  <2>6. Matching' = Matching \ {o.id}
    BY <1>8, <1>11
  <2>7. [s \in Symbol |-> BookAfter(s)]' = [B EXCEPT ![z] = Exchange!After(r, d)]
    BY <1>16, <2>2, <2>3
  <2> QED
    BY <1>5, <1>8, <1>12, <1>14, <1>15, <2>1, <2>4, <2>5, <2>6, <2>7 DEF Exchange!Match
<1> QED
  BY <1>8, <1>17 DEF Exchange!Next

LEMMA MatchedBook ==
  ASSUME Serialised, AllInv, NEW c \in DOMAIN call, call[c].pc \in {"liquidity", "match"}
  PROVE  /\ call[c].order.symbol \in Symbol
         /\ BookAfter(call[c].order.symbol) =
              [i \in DOMAIN book[call[c].order.symbol] |-> Shade(call[c].order.symbol, i)]
<1>1. PICK o : o = call[c].order
  OBVIOUS
<1>2. PICK r : r = RequestOf(o)
  OBVIOUS
<1>3. PICK z : z = o.symbol
  OBVIOUS
<1>4. PICK b : b = book[z]
  OBVIOUS
<1>5. PICK d : d = BookAfter(z)
  OBVIOUS
<1>6. z \in Symbol /\ d = [i \in DOMAIN b |-> Shade(z, i)]
  BY <1>1, <1>2, <1>3, <1>4, <1>5, MatchedAlike
<1> QED
  BY <1>1, <1>3, <1>4, <1>5, <1>6

\* When Match returns, its trades are all still to settle.
LEMMA EndMatchParts ==
  ASSUME Serialised, AllInv, AllInv', NEW c \in Client, EndMatch(c),
         NEW m, m = call[c], NEW fills, fills = m.fills, NEW n, n = Len(fills)
  PROVE  /\ c \in DOMAIN call /\ m.pc = "match" /\ m.rem \in Nat
         /\ n \in Nat /\ DOMAIN fills = 1..n /\ (m.rem = 0 \/ Unvisited(c) = {})
         /\ call'[c].pc = "record" /\ call'[c].order = m.order /\ call'[c].rem = m.rem
         /\ call'[c].fills = fills /\ call'[c].next = 1
         /\ Settles(c)' /\ UnsettledAt(c)' = 1..n /\ UnrecordedAt(c)' = 1..n
         /\ running' = running /\ book' = book /\ trades' = trades /\ arrivals' = arrivals
         /\ tracked' = tracked /\ Asked' = Asked
<1>1. c \in DOMAIN call /\ m.pc = "match" /\ DOMAIN call = {c}
  BY Alone DEF EndMatch, At, AllInv, IInv
<1>2. /\ m.rem \in Nat /\ Len(m.fills) \in Nat /\ DOMAIN m.fills = 1..Len(m.fills) /\ ~m.torn
  BY <1>1, MatchingParts DEF Working, Registered
<1>3. m.rem = 0 \/ Unvisited(c) = {}
  BY <1>2 DEF EndMatch
<1>4. /\ DOMAIN call' = {c} /\ call'[c].pc = "record" /\ call'[c].order = m.order
      /\ call'[c].rem = m.rem /\ call'[c].fills = fills /\ call'[c].next = m.next
  BY <1>1, MovingCalls DEF Moves, AllInv, IInv
<1>5. m.next = 1
  BY <1>1 DEF AllInv, IInv, FillsChained, Chained
<1>6. Settles(c)'
  BY <1>4 DEF Settles
<1>7. UnsettledAt(c)' = 1..n
  BY <1>4, <1>5 DEF UnsettledAt
<1>8. UnrecordedAt(c)' = 1..n
  BY <1>4, <1>7 DEF UnrecordedAt, At
<1>9. Asked' = Asked
  <2>1. ~RegisterOrder(c)
    BY <1>1 DEF RegisterOrder, At
  <2> QED
    BY <2>1, AskedKept DEF Step, AllInv, IInv
<1>10. /\ running' = running /\ book' = book /\ trades' = trades /\ arrivals' = arrivals
       /\ tracked' = tracked
  BY DEF EndMatch, books, reporter
<1> QED
  BY <1>1, <1>2, <1>3, <1>4, <1>5, <1>6, <1>7, <1>8, <1>9, <1>10

\* What the mapping then makes of the resting orders.
SettlingLeaves(z, fills) ==
  /\ \A s \in Symbol : \A i \in DOMAIN book[s] :
       i \notin Met(fills) => ~Leaving(i)' /\ EntryAfter(s, i)' = Shade(s, i)
  /\ \A k \in 1..Len(fills) :
       LET f == fills[k]
       IN  /\ f.rest \in DOMAIN book[z] /\ f.qty \in Nat /\ f.restLeft \in Nat
           /\ book[z][f.rest].qty = f.restLeft + f.qty
           /\ RemainderOf(f.rest)' = tracked[f.rest].rem - f.qty
           /\ QuantityOf(z, f.rest)' = f.restLeft
           /\ Leaving(f.rest)' <=> tracked[f.rest].rem - f.qty <= 0
  /\ \A s \in Symbol : s # z => DOMAIN book[s] \cap Met(fills) = {}

LEMMA EndMatchEntries ==
  ASSUME Serialised, AllInv, AllInv', NEW c \in Client, EndMatch(c),
         NEW fills, fills = call[c].fills, NEW z, z = call[c].order.symbol
  PROVE  SettlingLeaves(z, fills)
<1> PICK n : n = Len(fills)
  OBVIOUS
<1>1. PICK m : m = call[c]
  OBVIOUS
<1>2. /\ c \in DOMAIN call /\ m.pc = "match"
      /\ n \in Nat /\ DOMAIN fills = 1..n
      /\ call'[c].order = m.order /\ call'[c].fills = fills
      /\ Settles(c)' /\ UnsettledAt(c)' = 1..n /\ UnrecordedAt(c)' = 1..n
      /\ book' = book /\ tracked' = tracked
  BY <1>1, EndMatchParts
<1>3. DuesView(c)'
  BY <1>2, DuesViewsNext
<1>4. z \in Symbol /\ fills \in Seq(Fill) /\ m.next = 1 /\ EntriesKept(m)
  <2>1. m \in Call
    BY <1>1, <1>2 DEF AllInv, IInv, TypeOK, CallsTypeOK
  <2>2. m.next = 1 /\ EntriesKept(m)
    BY <1>1, <1>2 DEF AllInv, IInv, FillsChained, Chained, SerialInv, EntriesAwaitTrades
  <2> QED
    BY <1>1, <2>1, <2>2 DEF Call, Order
<1>5. ASSUME NEW k \in 1..n
      PROVE  /\ fills[k].rest \in DOMAIN book[z] /\ fills[k].qty \in Nat
             /\ fills[k].restLeft \in Nat
             /\ book[z][fills[k].rest].qty = fills[k].restLeft + fills[k].qty
  <2>1. fills[k] \in Fill
    BY <1>2, <1>4
  <2>2. k \in Pending(m)
    BY <1>1, <1>2, <1>4 DEF Pending
  <2>3. /\ fills[k].rest \in DOMAIN book[z]
        /\ book[z][fills[k].rest].qty = fills[k].restLeft + fills[k].qty
    BY <1>1, <1>2, <1>4, <2>2 DEF EntriesKept, Registered
  <2> QED
    BY <2>1, <2>3 DEF Fill, Positive
<1>6. ASSUME NEW k \in 1..n
      PROVE  /\ RemainderOf(fills[k].rest)' = tracked[fills[k].rest].rem - fills[k].qty
             /\ QuantityOf(z, fills[k].rest)' = fills[k].restLeft
             /\ Leaving(fills[k].rest)' <=> tracked[fills[k].rest].rem - fills[k].qty <= 0
  <2>1. RemainderOf(fills[k].rest)' = tracked[fills[k].rest].rem - fills[k].qty
    BY <1>2, <1>3 DEF DuesView
  <2>2. QuantityOf(z, fills[k].rest)' = fills[k].restLeft
    BY <1>2, <1>3, <1>4 DEF DuesView
  <2>3. Due(c, fills[k].rest)'
    BY <1>2 DEF Due
  <2> QED
    BY <1>3, <2>1, <2>2, <2>3 DEF DuesView
<1>7. ASSUME NEW s \in Symbol, NEW i \in DOMAIN book[s], i \notin Met(fills)
      PROVE  ~Leaving(i)' /\ EntryAfter(s, i)' = Shade(s, i)
  <2>1. \A k \in 1..n : fills[k].rest # i
    BY <1>2, <1>7 DEF Met
  <2>2. ~Due(c, i)'
    BY <1>2, <2>1 DEF Due
  <2>3. i \in DOMAIN tracked
    BY RestingTracked
  <2>4. RemainderOf(i)' = tracked[i].rem
    BY <1>2, <1>3, <2>1, <2>3 DEF DuesView
  <2>5. QuantityOf(s, i)' = book[s][i].qty /\ ~Leaving(i)'
    BY <1>2, <1>3, <2>2 DEF DuesView
  <2> QED
    BY <1>2, <2>4, <2>5 DEF EntryAfter, Shade
<1>8. \A s \in Symbol : s # z => DOMAIN book[s] \cap Met(fills) = {}
  <2>1. Met(fills) \subseteq DOMAIN book[z]
    BY <1>2, <1>5 DEF Met
  <2> QED
    BY <1>4, <2>1 DEF AllInv, IInv, OnePlacePerOrder
<1> QED
  BY <1>5, <1>6, <1>7, <1>8 DEF SettlingLeaves

\* The trades fills leaving rem are those the exchange makes of request r in book d.
Promised(o, r, d, fills, rem) ==
  /\ Exchange!Hit(r, d) = Met(fills) /\ Exchange!Traded(r, d) = o.qty - rem
  /\ Exchange!TradesOf(o.id, r, d) =
       [k \in 1..Len(fills) |-> LET f == fills[k]
                                IN  Deal(BuyId(o, f), SellId(o, f), f.price, f.qty)]
  /\ \A k \in 1..Len(fills) : fills[k].qty = Exchange!Taken(r, d, fills[k].rest)

\* The exchange trades with the same orders, in the same order, as much.
LEMMA EndMatchQueue ==
  ASSUME Serialised, AllInv, AllInv', NEW c \in Client, EndMatch(c),
         NEW m, m = call[c], NEW o, o = m.order, NEW r, r = RequestOf(o),
         NEW fills, fills = m.fills, NEW n, n = Len(fills),
         NEW z, z = o.symbol, NEW d, d = BookAfter(z)
  PROVE  Promised(o, r, d, fills, m.rem)
<1>1. PICK b : b = book[z]
  OBVIOUS
<1>2. /\ c \in DOMAIN call /\ m.pc = "match" /\ m.rem \in Nat
      /\ n \in Nat /\ DOMAIN fills = 1..n /\ (m.rem = 0 \/ Unvisited(c) = {})
  BY EndMatchParts
<1>3. /\ o \in Order /\ o.qty \in Nat /\ o.price \in Int /\ o.side \in Side
      /\ Ordered(b) /\ Ordered(d) /\ Alike(o, r, b, d)
  BY <1>1, <1>2, MatchedAlike
<1>4. /\ InQueue(o, b, fills, m.rem)
      /\ o.type = "fok" => Available(o, b) >= o.qty
  BY <1>1, <1>2 DEF AllInv, ExchangeInv, Queued
<1>5. PICK rem \in Nat : rem = m.rem
  BY <1>2
<1>6. InQueue(r, d, fills, rem)
  BY <1>3, <1>4, <1>5, AlikeInQueue
<1>7. PICK E : E = Exchange!Eligible(o, b)
  OBVIOUS
<1>8. /\ Exchange!Eligible(r, d) = E /\ Exchange!Shown(d, E) = Exchange!Shown(b, E)
      /\ r.qty = o.qty /\ r.side = o.side /\ r.type = o.type
  <2>1. Exchange!Eligible(r, d) = E
    BY <1>3, <1>7, AlikeEligible
  <2>2. Exchange!Shown(d, E) = Exchange!Shown(b, E)
    BY <1>3, <1>7, AlikeQueue
  <2> QED
    BY <1>3, <2>1, <2>2 DEF Alike
<1>9. rem = 0 \/ Exchange!Eligible(r, d) \subseteq Met(fills)
  <2>1. ToMeet(c) = E \ Met(fills)
    BY <1>1, <1>7, EligibleIsMatchable DEF ToMeet, TradedWith, Met
  <2> QED
    BY <1>2, <1>5, <1>8, <2>1, WalksCover
<1>10. r.type = "fok" => \/ Exchange!Eligible(r, d) = {}
                         \/ Exchange!Shown(d, Exchange!Eligible(r, d)) >= r.qty
  <2>1. o.type = "fok" => E = {} \/ Available(o, b) = Exchange!Shown(b, E)
    BY <1>3, <1>7, AvailableToTrade
  <2> QED
    BY <1>4, <1>8, <2>1
<1>11. Exchange!Hit(r, d) = Met(fills) /\ Exchange!Traded(r, d) = r.qty - rem
  <2>1. r.qty \in Int
    BY <1>3, <1>8
  <2> QED
    BY ONLY <1>2, <1>3, <1>5, rem \in Nat, <1>6, <1>9, <1>10, <2>1, QueueEnd
<1>12. Exchange!Queue(d, Met(fills)) = [k \in 1..n |-> fills[k].rest]
  <2>1. Ordered(d) /\ n \in Nat /\ DOMAIN fills = 1..n /\ InQueue(r, d, fills, rem)
    BY <1>2, <1>3, <1>6
  <2> QED
    BY ONLY <2>1, QueueIs
<1>13. PICK q : q = Exchange!Queue(d, Met(fills))
  OBVIOUS
<1>14. DOMAIN q = 1..n /\ \A k \in 1..n : q[k] = fills[k].rest
  BY <1>12, <1>13
<1>15. ASSUME NEW k \in 1..n
       PROVE  /\ Exchange!TradeOf(o.id, r, d, q[k]) =
                   Deal(BuyId(o, fills[k]), SellId(o, fills[k]), fills[k].price, fills[k].qty)
              /\ fills[k].qty = Exchange!Taken(r, d, fills[k].rest)
  <2>1. PICK f : f = fills[k]
    OBVIOUS
  <2>2. f.price = d[f.rest].price /\ f.qty = Exchange!Taken(r, d, f.rest)
    BY <1>2, <1>6, <2>1 DEF InQueue
  <2>3. q[k] = f.rest
    BY <1>14, <2>1
  <2> QED
    BY <1>8, <2>1, <2>2, <2>3 DEF Exchange!TradeOf, Deal, BuyId, SellId
<1>16. Exchange!TradesOf(o.id, r, d) = [k \in 1..n |-> Exchange!TradeOf(o.id, r, d, q[k])]
  BY <1>11, <1>13, <1>14 DEF Exchange!TradesOf
<1> QED
  BY <1>5, <1>8, <1>11, <1>15, <1>16 DEF Promised

LEMMA EndMatchPromised ==
  ASSUME Serialised, AllInv, AllInv', NEW c \in Client, EndMatch(c)
  PROVE  Promised(call[c].order, RequestOf(call[c].order), BookAfter(call[c].order.symbol),
                  call[c].fills, call[c].rem)
<1>1. PICK m : m = call[c]
  OBVIOUS
<1>2. PICK o : o = m.order
  OBVIOUS
<1>3. PICK r : r = RequestOf(o)
  OBVIOUS
<1>4. PICK fills : fills = m.fills
  OBVIOUS
<1>5. PICK n : n = Len(fills)
  OBVIOUS
<1>6. PICK z : z = o.symbol
  OBVIOUS
<1>7. PICK d : d = BookAfter(z)
  OBVIOUS
<1>8. Promised(o, r, d, fills, m.rem)
  BY <1>1, <1>2, <1>3, <1>4, <1>5, <1>6, <1>7, EndMatchQueue
<1> QED
  BY <1>1, <1>2, <1>3, <1>4, <1>6, <1>7, <1>8

\* Book A is what the mapping shows in the next state of the entries of z.
IsLeft(A, z) ==
  /\ DOMAIN A = {i \in DOMAIN book[z] : ~Leaving(i)'}
  /\ A = [i \in DOMAIN A |-> A[i]]
  /\ \A i \in DOMAIN A : A[i] = EntryAfter(z, i)'

\* The books it leaves are those the mapping shows.
LEMMA EndMatchLeft ==
  ASSUME Serialised, AllInv, AllInv', NEW c \in Client, EndMatch(c),
         NEW o, o = call[c].order, NEW r, r = RequestOf(o),
         NEW z, z = o.symbol, NEW d, d = BookAfter(z), NEW A, A = Exchange!After(r, d)
  PROVE  IsLeft(A, z)
<1>1. PICK fills : fills = call[c].fills
  OBVIOUS
<1>2. PICK n : n = Len(fills)
  OBVIOUS
<1>3. PICK M, m, b : M = Met(fills) /\ m = call[c] /\ b = book[z]
  OBVIOUS
<1>4. /\ c \in DOMAIN call /\ call[c].pc = "match" /\ n \in Nat /\ DOMAIN fills = 1..n
      /\ book' = book /\ tracked' = tracked
  BY <1>1, <1>2, EndMatchParts
<1>5. z \in Symbol /\ d = [i \in DOMAIN book[z] |-> Shade(z, i)]
  BY <1>4, MatchedBook
<1>6. Exchange!Hit(r, d) = M /\ \A k \in 1..n : fills[k].qty = Exchange!Taken(r, d, fills[k].rest)
  <2>1. Promised(call[c].order, RequestOf(call[c].order), BookAfter(call[c].order.symbol),
                 call[c].fills, call[c].rem)
    BY EndMatchPromised
  <2>2. Promised(o, r, d, fills, m.rem)
    BY ONLY <2>1, o = call[c].order, r = RequestOf(o), z = o.symbol, d = BookAfter(z), <1>1, <1>3
  <2> QED
    BY <1>2, <1>3, <2>2 DEF Promised
<1>7. /\ \A i \in DOMAIN book[z] : i \notin M => ~Leaving(i)' /\ EntryAfter(z, i)' = Shade(z, i)
      /\ \A k \in 1..n :
           LET f == fills[k]
           IN  /\ f.rest \in DOMAIN book[z] /\ f.qty \in Nat /\ f.restLeft \in Nat
               /\ book[z][f.rest].qty = f.restLeft + f.qty
               /\ RemainderOf(f.rest)' = tracked[f.rest].rem - f.qty
               /\ QuantityOf(z, f.rest)' = f.restLeft
               /\ Leaving(f.rest)' <=> tracked[f.rest].rem - f.qty <= 0
  <2>1. SettlingLeaves(z, fills)
    BY <1>1, EndMatchEntries
  <2> QED
    BY <1>2, <1>3, <1>5, <2>1 DEF SettlingLeaves
<1>8. DOMAIN d = DOMAIN book[z] /\ \A i \in DOMAIN book[z] : d[i] = Shade(z, i)
  BY <1>5
<1>9. ASSUME NEW i \in M
      PROVE  /\ i \in DOMAIN book[z]
             /\ Leaving(i)' <=> d[i].rem - Exchange!Taken(r, d, i) <= 0
             /\ EntryAfter(z, i)' = [d[i] EXCEPT !.qty = @ - Exchange!Taken(r, d, i),
                                                 !.rem = d[i].rem - Exchange!Taken(r, d, i)]
  <2>1. PICK k \in 1..n : fills[k].rest = i
    BY <1>3, <1>4, <1>9 DEF Met
  <2>2. PICK f : f = fills[k]
    OBVIOUS
  <2>3. PICK t : t = Exchange!Taken(r, d, i)
    OBVIOUS
  <2>4. /\ i \in DOMAIN book[z] /\ f.qty = t /\ f.qty \in Nat /\ f.restLeft \in Nat
        /\ book[z][i].qty = f.restLeft + t /\ RemainderOf(i)' = tracked[i].rem - t
        /\ QuantityOf(z, i)' = f.restLeft
        /\ Leaving(i)' <=> tracked[i].rem - t <= 0
    BY <1>6, <1>7, <2>1, <2>2, <2>3
  <2>5. d[i] = Shade(z, i)
    BY <1>8, <2>4
  <2>6. d[i].rem = tracked[i].rem
    BY <2>5 DEF Shade
  <2>7. QuantityOf(z, i)' = book[z][i].qty - t
    BY <2>4
  <2>8. EntryAfter(z, i)' = [d[i] EXCEPT !.qty = @ - t, !.rem = d[i].rem - t]
    <3>1. PICK e : e = book[z][i]
      OBVIOUS
    <3>2. d[i] = [account |-> e.account, side |-> e.side, price |-> e.price, qty |-> e.qty,
                  rem |-> tracked[i].rem, arrival |-> e.arrival]
      BY <2>5, <3>1 DEF Shade
    <3>3. EntryAfter(z, i)' = [account |-> e.account, side |-> e.side, price |-> e.price,
                               qty |-> e.qty - t, rem |-> tracked[i].rem - t,
                               arrival |-> e.arrival]
      BY <1>4, <2>4, <2>7, <3>1 DEF EntryAfter
    <3>4. PICK g : g = [d[i] EXCEPT !.qty = @ - t]
      OBVIOUS
    <3>5. g = [account |-> e.account, side |-> e.side, price |-> e.price, qty |-> e.qty - t,
               rem |-> tracked[i].rem, arrival |-> e.arrival]
      BY <3>2, <3>4
    <3>6. [g EXCEPT !.rem = tracked[i].rem - t] =
            [account |-> e.account, side |-> e.side, price |-> e.price, qty |-> e.qty - t,
             rem |-> tracked[i].rem - t, arrival |-> e.arrival]
      BY <3>5
    <3>7. [d[i] EXCEPT !.qty = @ - t, !.rem = d[i].rem - t] = [g EXCEPT !.rem = tracked[i].rem - t]
      BY <2>6, <3>4
    <3> QED
      BY <3>3, <3>6, <3>7
  <2> QED
    BY <2>3, <2>4, <2>6, <2>8
<1>10. PICK gone : gone = {j \in M : d[j].rem - Exchange!Taken(r, d, j) <= 0}
  OBVIOUS
<1>11. A = [i \in DOMAIN d \ gone |->
              IF i \in M THEN [d[i] EXCEPT !.qty = @ - Exchange!Taken(r, d, i),
                                           !.rem = d[i].rem - Exchange!Taken(r, d, i)]
                         ELSE d[i]]
  BY <1>6, <1>10 DEF Exchange!After
<1>12. DOMAIN A = DOMAIN d \ gone
  BY <1>11
<1>13. DOMAIN d \ gone = {i \in DOMAIN book[z] : ~Leaving(i)'}
  BY <1>7, <1>8, <1>9, <1>10
<1>14. ASSUME NEW i \in DOMAIN A
       PROVE  A[i] = EntryAfter(z, i)'
  <2>1. i \in DOMAIN book[z]
    BY <1>8, <1>12
  <2>2. CASE i \in M
    <3>1. PICK g : g = [d[i] EXCEPT !.qty = @ - Exchange!Taken(r, d, i),
                                    !.rem = d[i].rem - Exchange!Taken(r, d, i)]
      OBVIOUS
    <3>2. A[i] = g
      BY <1>11, <1>12, <2>2, <3>1
    <3>3. EntryAfter(z, i)' = g
      BY <1>9, <2>2, <3>1
    <3> QED
      BY <3>2, <3>3
  <2>3. CASE i \notin M
    <3>1. A[i] = d[i]
      BY <1>11, <1>12, <2>3
    <3> QED
      BY <1>7, <1>8, <2>1, <2>3, <3>1
  <2> QED
    BY <2>2, <2>3
<1> QED
  BY <1>11, <1>12, <1>13, <1>14 DEF IsLeft

LEMMA EndMatchBooks ==
  ASSUME Serialised, AllInv, AllInv', NEW c \in Client, EndMatch(c),
         NEW o, o = call[c].order, NEW r, r = RequestOf(o),
         NEW z, z = o.symbol, NEW d, d = BookAfter(z)
  PROVE  /\ BookAfter(z)' = IF Exchange!Rests(r, d)
                              THEN Exchange!Put(Exchange!After(r, d), o.id, Exchange!Resting(r, d))
                              ELSE Exchange!After(r, d)
         /\ \A s \in Symbol : s # z => BookAfter(s)' = BookAfter(s)
         /\ arrivals' + Cardinality(Joining)' =
              IF Exchange!Rests(r, d) THEN (arrivals + Cardinality(Joining)) + 1
                                      ELSE arrivals + Cardinality(Joining)
<1>1. PICK m : m = call[c]
  OBVIOUS
<1>2. PICK fills, n, b : fills = m.fills /\ n = Len(fills) /\ b = book[z]
  OBVIOUS
<1>3. /\ c \in DOMAIN call /\ m.pc = "match" /\ m.rem \in Nat
      /\ call'[c].order = o /\ call'[c].rem = m.rem
      /\ Settles(c)' /\ book' = book /\ arrivals' = arrivals /\ tracked' = tracked
  BY <1>1, <1>2, EndMatchParts
<1>4. /\ o \in Order /\ o.qty \in Nat /\ z \in Symbol /\ Quiet
      /\ \A s \in Symbol : o.id \notin DOMAIN book[s]
      /\ Alike(o, r, book[z], d)
  BY <1>1, <1>2, <1>3, MatchedAlike
<1>5. QuietView /\ BookView(c)'
  BY <1>3, <1>4, QuietlyViewed, BookViewsNext
<1>6. Exchange!Traded(r, d) = o.qty - m.rem
  <2>1. Promised(call[c].order, RequestOf(call[c].order), BookAfter(call[c].order.symbol),
                 call[c].fills, call[c].rem)
    BY EndMatchPromised
  <2>2. Promised(o, r, d, fills, m.rem)
    BY ONLY <2>1, o = call[c].order, r = RequestOf(o), z = o.symbol, d = BookAfter(z), <1>1, <1>2
  <2> QED
    BY <2>2 DEF Promised
<1>7. /\ r.qty = o.qty /\ r.type = o.type /\ r.account = o.account /\ r.side = o.side
      /\ r.price = o.price
  BY <1>4 DEF Alike
<1>8. Exchange!Rests(r, d) <=> Joins(c)'
  <2>1. Joins(c)' <=> o.type \in RestingType /\ m.rem > 0
    BY <1>3 DEF Joins
  <2>2. Exchange!Traded(r, d) < r.qty <=> m.rem > 0
    BY <1>3, <1>4, <1>6, <1>7
  <2> QED
    BY <1>7, <2>1, <2>2 DEF Exchange!Rests, RestingType
<1>9. Exchange!Resting(r, d) = Joined(c)'
  <2>1. r.qty - Exchange!Traded(r, d) = m.rem
    BY <1>3, <1>4, <1>6, <1>7
  <2>2. (arrivals + Cardinality(Joining)) + 1 = arrivals' + 1
    <3>1. Cardinality(Joining) = 0 /\ arrivals \in Nat
      BY <1>5 DEF QuietView, AllInv, IInv, TypeOK, EngineTypeOK
    <3> QED
      BY <1>3, <3>1
  <2> QED
    BY <1>3, <1>7, <2>1, <2>2 DEF Exchange!Resting, Joined
<1>10. arrivals' + Cardinality(Joining)' =
         IF Exchange!Rests(r, d) THEN (arrivals + Cardinality(Joining)) + 1
                                 ELSE arrivals + Cardinality(Joining)
  <2>1. Cardinality(Joining) = 0 /\ Cardinality(Joining)' = IF Joins(c)' THEN 1 ELSE 0
    BY <1>5 DEF QuietView, BookView
  <2>2. arrivals \in Nat
    BY DEF AllInv, IInv, TypeOK, EngineTypeOK
  <2> QED
    BY <1>3, <1>8, <2>1, <2>2
<1>11. ASSUME NEW s \in Symbol, s # z
       PROVE  BookAfter(s)' = BookAfter(s)
  <2>1. PICK p : p = BookAfter(s)'
    OBVIOUS
  <2>2. DOMAIN book[s] \cap Met(fills) = {}
    BY <1>1, <1>2, <1>11, EndMatchEntries DEF SettlingLeaves
  <2>3. \A i \in DOMAIN book[s] : ~Leaving(i)' /\ EntryAfter(s, i)' = Shade(s, i)
    BY <1>1, <1>2, <2>2, EndMatchEntries DEF SettlingLeaves
  <2>4. /\ p = [i \in DOMAIN p |-> p[i]] /\ DOMAIN p = {i \in DOMAIN book[s] : ~Leaving(i)'}
        /\ \A i \in DOMAIN book[s] : ~Leaving(i)' => p[i] = EntryAfter(s, i)'
    BY <1>3, <1>5, <1>11, <2>1 DEF BookView
  <2>5. DOMAIN p = DOMAIN book[s] /\ \A i \in DOMAIN book[s] : p[i] = Shade(s, i)
    BY <2>3, <2>4
  <2>6. BookAfter(s) = [i \in DOMAIN book[s] |-> Shade(s, i)]
    BY <1>5 DEF QuietView
  <2> QED
    BY <2>1, <2>4, <2>5, <2>6
<1>12. BookAfter(z)' = IF Exchange!Rests(r, d)
                         THEN Exchange!Put(Exchange!After(r, d), o.id, Exchange!Resting(r, d))
                         ELSE Exchange!After(r, d)
  <2>1. PICK p : p = BookAfter(z)'
    OBVIOUS
  <2>2. PICK A : A = Exchange!After(r, d)
    OBVIOUS
  <2>3. PICK R : R = Exchange!Resting(r, d)
    OBVIOUS
  <2>4. /\ p = [i \in DOMAIN p |-> p[i]]
        /\ DOMAIN p = {i \in DOMAIN book[z] : ~Leaving(i)'} \cup {i \in {o.id} : Joins(c)'}
        /\ \A i \in DOMAIN book[z] : ~Leaving(i)' => p[i] = EntryAfter(z, i)'
        /\ Joins(c)' => p[o.id] = Joined(c)'
    BY <1>3, <1>4, <1>5, <2>1 DEF BookView
  <2>5. /\ DOMAIN A = {i \in DOMAIN book[z] : ~Leaving(i)'}
        /\ A = [i \in DOMAIN A |-> A[i]]
        /\ \A i \in DOMAIN A : A[i] = EntryAfter(z, i)'
    BY <2>2, EndMatchLeft DEF IsLeft
  <2>6. \A i \in DOMAIN A : p[i] = A[i]
    BY <2>4, <2>5
  <2>7. CASE ~Joins(c)'
    <3>1. DOMAIN p = DOMAIN A
      BY <2>4, <2>5, <2>7
    <3>2. p = A
      BY <2>4, <2>5, <2>6, <3>1
    <3> QED
      BY <1>8, <2>1, <2>2, <2>7, <3>2
  <2>8. CASE Joins(c)'
    <3>1. DOMAIN p = DOMAIN A \cup {o.id} /\ p[o.id] = R
      BY <1>9, <2>3, <2>4, <2>5, <2>8
    <3>2. o.id \notin DOMAIN A
      BY <1>4, <2>5
    <3>3. Exchange!Put(A, o.id, R) = [i \in DOMAIN A \cup {o.id} |-> IF i = o.id THEN R ELSE A[i]]
      BY DEF Exchange!Put
    <3>4. \A i \in DOMAIN A \cup {o.id} : p[i] = IF i = o.id THEN R ELSE A[i]
      BY <2>6, <3>1, <3>2
    <3>5. p = Exchange!Put(A, o.id, R)
      BY <2>4, <3>1, <3>3, <3>4
    <3> QED
      BY <1>8, <2>1, <2>2, <2>3, <2>8, <3>5
  <2> QED
    BY <2>7, <2>8
<1> QED
  BY <1>10, <1>11, <1>12

LEMMA EndMatchSeen ==
  ASSUME Serialised, AllInv, AllInv', NEW c \in Client, EndMatch(c)
  PROVE  Exchange!Next
<1>1. PICK m : m = call[c]
  OBVIOUS
<1>2. PICK o : o = m.order
  OBVIOUS
<1>3. PICK r : r = RequestOf(o)
  OBVIOUS
<1>4. PICK z : z = o.symbol
  OBVIOUS
<1>5. PICK d : d = BookAfter(z)
  OBVIOUS
<1>6. PICK fills : fills = m.fills
  OBVIOUS
<1>7. PICK n : n = Len(fills)
  OBVIOUS
<1>8. PICK w : w = call'[c]
  OBVIOUS
<1>9. /\ c \in DOMAIN call /\ m.pc = "match" /\ n \in Nat
      /\ w.pc = "record" /\ w.order = o /\ w.fills = fills /\ w.next = 1 /\ Settles(c)'
      /\ running' = running /\ trades' = trades /\ Asked' = Asked
  BY <1>1, <1>2, <1>6, <1>7, <1>8, EndMatchParts
<1>10. /\ z \in Symbol /\ r.symbol = z /\ o.id \in 1..MaxOrders /\ Asked[o.id] = r
       /\ Quiet /\ Matching = {o.id}
  BY <1>1, <1>2, <1>3, <1>4, <1>5, <1>9, MatchedAlike
<1>11. TradesAfter' = TradesAfter \o Exchange!TradesOf(o.id, r, d)
  <2>1. TradesAfter' = Published' \o ToCome(w)
    BY <1>8, <1>9, TradesViewsNext DEF TradesView
  <2>2. TradesAfter = Published /\ Published' = Published
    BY <1>9, <1>10, QuietTrades DEF Published
  <2>3. Exchange!TradesOf(o.id, r, d) =
          [k \in 1..n |-> LET f == fills[k]
                          IN  Deal(BuyId(o, f), SellId(o, f), f.price, f.qty)]
    BY <1>1, <1>2, <1>3, <1>4, <1>5, <1>6, <1>7, EndMatchPromised DEF Promised
  <2>4. FirstToCome(w) = 1
    BY <1>9 DEF FirstToCome
  <2>5. ToCome(w) = [k \in 1..(1 + n - 1) |->
                       LET f == fills[k + 1 - 1]
                       IN  Deal(BuyId(o, f), SellId(o, f), f.price, f.qty)]
    BY <1>7, <1>9, <2>4 DEF ToCome
  <2>6. 1..(1 + n - 1) = 1..n /\ \A k \in 1..n : k + 1 - 1 = k
    BY <1>9
  <2> QED
    BY <2>1, <2>2, <2>3, <2>5, <2>6
<1>12. PICK B : B = [s \in Symbol |-> BookAfter(s)]
  OBVIOUS
<1>13. PICK q : q = IF Exchange!Rests(r, d)
                      THEN Exchange!Put(Exchange!After(r, d), o.id, Exchange!Resting(r, d))
                      ELSE Exchange!After(r, d)
  OBVIOUS
<1>14. /\ BookAfter(z)' = q /\ \A s \in Symbol : s # z => BookAfter(s)' = BookAfter(s)
       /\ arrivals' + Cardinality(Joining)' =
            IF Exchange!Rests(r, d) THEN (arrivals + Cardinality(Joining)) + 1
                                    ELSE arrivals + Cardinality(Joining)
  BY <1>1, <1>2, <1>3, <1>4, <1>5, <1>13, EndMatchBooks
<1>15. [s \in Symbol |-> BookAfter(s)]' = [B EXCEPT ![z] = q]
  BY <1>10, <1>12, <1>14
<1>16. Matching' = {}
  <2>1. \A s \in DOMAIN call' : s = c
    BY <1>9 DEF Settles
  <2> QED
    BY <1>8, <1>9, <2>1 DEF Matching
<1>17. B[z] = d
  BY <1>5, <1>10, <1>12
<1>18. Exchange!Match(o.id)
  <2>1. o.id \in Matching /\ Matching' = Matching \ {o.id}
    BY <1>10, <1>16
  <2> QED
    BY <1>9, <1>10, <1>11, <1>12, <1>13, <1>14, <1>15, <1>17, <2>1 DEF Exchange!Match
<1> QED
  BY <1>10, <1>18 DEF Exchange!Next


-----------------------------------------------------------------------------
(* The refinement.                                                         *)

QtySum(F) == MapThenSumSet(LAMBDA f : f.qty, F)

RemainsAs(i, F) ==
  F = {f \in Unrecorded : f.rest = i} => RemainderOf(i) = tracked[i].rem - QtySum(F)

LEMMA RemainderIs == ASSUME NEW i, NEW F PROVE RemainsAs(i, F)
BY DEF RemainderOf, RemainsAs, QtySum

LEMMA RemainderIsNext == ASSUME NEW i, NEW F PROVE RemainsAs(i, F)'
BY RemainderIs, PTL

\* A step that changes nothing is not seen either.
LEMMA StutterSeen ==
  ASSUME UNCHANGED vars
  PROVE  UNCHANGED Seen
<1>1. /\ running' = running /\ book' = book /\ arrivals' = arrivals /\ orders' = orders
      /\ tracked' = tracked /\ trades' = trades /\ call' = call
  BY DEF vars
<1>2. Asked' = Asked /\ Matching' = Matching /\ Settlers' = Settlers
  BY <1>1 DEF Asked, RequestOf, Matching, Settlers
<1>3. \A c : UnsettledAt(c)' = UnsettledAt(c) /\ UnrecordedAt(c)' = UnrecordedAt(c)
  BY <1>1 DEF UnsettledAt, UnrecordedAt, At
<1>4. Unsettled' = Unsettled /\ Unrecorded' = Unrecorded
  BY <1>1, <1>2, <1>3 DEF Unsettled, Unrecorded
<1>5. ASSUME NEW i
      PROVE  RemainderOf(i)' = RemainderOf(i)
  <2>1. PICK F : F = {f \in Unrecorded : f.rest = i}
    OBVIOUS
  <2>2. PICK q : q = QtySum(F)
    OBVIOUS
  <2>3. RemainderOf(i) = tracked[i].rem - q
    BY <2>1, <2>2, RemainderIs DEF RemainsAs
  <2>4. F = {f \in Unrecorded' : f.rest = i}
    BY <1>4, <2>1
  <2>5. RemainderOf(i)' = tracked'[i].rem - q
    BY <2>2, <2>4, RemainderIsNext DEF RemainsAs
  <2> QED
    BY <1>1, <2>3, <2>5
<1>6. \A s, i : QuantityOf(s, i)' = QuantityOf(s, i)
  BY <1>1, <1>4 DEF QuantityOf
<1>7. \A i : Leaving(i)' = Leaving(i)
  BY <1>4, <1>5 DEF Leaving
<1>8. \A s, i : EntryAfter(s, i)' = EntryAfter(s, i)
  BY <1>1, <1>5, <1>6 DEF EntryAfter
<1>9. Joining' = Joining /\ \A c : Joined(c)' = Joined(c)
  BY <1>1, <1>2 DEF Joining, Joined
<1>10. \A s : BookAfter(s)' = BookAfter(s)
  BY <1>1, <1>7, <1>8, <1>9 DEF BookAfter
<1>11. TradesAfter' = TradesAfter
  BY <1>1, <1>2 DEF TradesAfter, At, BuyId, SellId
<1> QED
  BY <1>1, <1>2, <1>9, <1>10, <1>11 DEF Seen

\* Every step of the engine is a step of the exchange or leaves it as it is.
LEMMA ExchangeStep ==
  ASSUME Serialised, AllInv, AllInv', [Next]_vars
  PROVE  [Exchange!Next]_Seen
<1>1. ASSUME NEW c \in Client, Step(c) \/ Ask(c)
      PROVE  Exchange!Next \/ UNCHANGED Seen
  <2>1. CASE Unseen(c)
    BY <2>1, UnseenSteps
  <2>2. CASE RegisterOrder(c)
    BY <2>2, RegisterSeen
  <2>3. CASE Unbook(c) \/ Replace(c)
    BY <2>3, TakeOutSeen
  <2>4. CASE Insufficient(c)
    BY <2>4, InsufficientSeen
  <2>5. CASE EndMatch(c)
    BY <2>5, EndMatchSeen
  <2>6. CASE RecordTrade(c)
    BY <2>6, RecordTradeSeen
  <2>7. CASE RecordTradeFails(c)
    BY <2>7, SerialTradesRecorded DEF RecordTradeFails, AllInv
  <2>8. CASE RemoveResting(c) \/ UpdateResting(c)
    BY <2>8, SettlingSeen
  <2>9. CASE AddOrder(c) \/ CancelRemainder(c) \/ Finish(c)
    BY <2>9, EndSeen
  <2>10. CASE Close(c)
    BY <2>10, CloseSeen
  <2> QED
    BY <1>1, <2>1, <2>2, <2>3, <2>4, <2>5, <2>6, <2>7, <2>8, <2>9, <2>10
       DEF Step, Ask, Lookup, Unseen
<1>2. CASE UNCHANGED vars
  BY <1>2, StutterSeen
<1> QED
  BY <1>1, <1>2 DEF Next

LEMMA ExchangeInit == Init => Exchange!Init
<1> SUFFICES ASSUME Init PROVE Exchange!Init
  OBVIOUS
<1>1. /\ running = TRUE /\ arrivals = 0 /\ trades = <<>> /\ DOMAIN call = {}
      /\ DOMAIN orders = {} /\ \A s \in Symbol : DOMAIN book[s] = {}
  BY DEF Init, EmptyBook
<1>2. AllInv
  BY InvInit, SerialInit, ExchangeInvInit DEF AllInv
<1>3. Quiet /\ Matching = {}
  BY <1>1 DEF Quiet, Settlers, Matching
<1>4. QuietView
  BY <1>2, <1>3, QuietlyViewed
<1>5. Asked = Exchange!EmptyBook
  BY <1>1 DEF Asked, Exchange!EmptyBook
<1>6. ASSUME NEW s \in Symbol
      PROVE  BookAfter(s) = Exchange!EmptyBook
  <2>1. BookAfter(s) = [i \in DOMAIN book[s] |-> Shade(s, i)]
    BY <1>4 DEF QuietView
  <2>2. BookAfter(s) = [i \in {} |-> Shade(s, i)]
    BY <1>1, <2>1
  <2> QED
    BY <2>2 DEF Exchange!EmptyBook
<1>7. arrivals + Cardinality(Joining) = 0
  BY <1>1, <1>4 DEF QuietView
<1>8. TradesAfter = <<>>
  <2>1. DOMAIN Published = {}
    BY <1>1 DEF Published
  <2> QED
    BY <1>1, <1>4 DEF QuietView, Published
<1> QED
  BY <1>1, <1>3, <1>5, <1>6, <1>7, <1>8 DEF Exchange!Init

\* For calls made one after the other, the engine is an exchange that matches an
\* order in one step, by price and time: what is published of its trades, who trades
\* with whom, for how much and in which order, which fill-or-kill orders trade, and
\* what rests, whatever the accounts, symbols, orders, depth and number of calls.
THEOREM EngineImplementsExchange ==
  ASSUME Serialised
  PROVE  Spec => ImplementsExchange
<1>1. Init => AllInv /\ Exchange!Init
  BY InvInit, SerialInit, ExchangeInvInit, ExchangeInit DEF AllInv
<1>2. AllInv /\ [Next]_vars => AllInv'
  <2> SUFFICES ASSUME AllInv, [Next]_vars PROVE AllInv'
    OBVIOUS
  <2>1. IInv' /\ SerialInv'
    BY InvStep, SerialStep DEF AllInv
  <2>2. TypeOK'
    BY <2>1 DEF IInv
  <2> QED
    BY <2>1, <2>2, ExchangeInvStep DEF AllInv
<1>3. AllInv /\ AllInv' /\ [Next]_vars => [Exchange!Next]_Seen
  BY ExchangeStep
<1> QED
  BY <1>1, <1>2, <1>3, PTL DEF Spec, ImplementsExchange, Exchange!Spec, Seen

=============================================================================
