-------------------------------- MODULE Sums --------------------------------
(***************************************************************************)
(* Lemmas about the sum of a function over a finite set (SumFunctionOnSet  *)
(* of Functions), which is defined by recursion on subsets.  They are      *)
(* proved with a least counterexample: a set of subsets of a finite set    *)
(* has a member none of whose proper subsets is in it.                     *)
(***************************************************************************)
EXTENDS Integers, Functions, FiniteSetTheorems, TLAPS

\* The element of s that the recursion takes first.
Any(s) == CHOOSE x \in s : TRUE

\* g is the recursion that sums f over the subsets of S.
Recursion(g, f, S) ==
  g = [s \in SUBSET S |-> IF s = {} THEN 0 ELSE f[Any(s)] + g[s \ {Any(s)}]]

Total(f, S) == (CHOOSE g : Recursion(g, f, S))[S]

-----------------------------------------------------------------------------
(* The recursion defines a function.                                       *)

LEMMA AnyTaken ==
  ASSUME NEW s, s # {}
  PROVE  Any(s) \in s
BY DEF Any

LEMMA SumIsTotal ==
  ASSUME NEW f, NEW S
  PROVE  SumFunctionOnSet(f, S) = Total(f, S)
BY DEF SumFunctionOnSet, FoldFunctionOnSet, MapThenFoldSet, Total, Recursion, Any

\* A set D of subsets of a finite set has a member with no proper subset in D.
LEMMA LeastSubset ==
  ASSUME NEW S, IsFiniteSet(S), NEW D, D \subseteq SUBSET S, D # {}
  PROVE  \E x \in D : \A y \in D : y \subseteq x => y = x
<1>1. D \subseteq FiniteSubsetsOf(S)
  BY FS_Subset DEF FiniteSubsetsOf
<1>2. IsWellFoundedOn(StrictSubsetOrdering(S), FiniteSubsetsOf(S))
  BY FS_StrictSubsetOrderingWellFounded
<1>3. PICK x \in D : \A y \in D : <<y, x>> \notin StrictSubsetOrdering(S)
  BY <1>1, <1>2, WFMin
<1> QED
  BY <1>3 DEF StrictSubsetOrdering

LEMMA RecursionAt ==
  ASSUME NEW f, NEW S, NEW g, Recursion(g, f, S)
  PROVE  \A s \in SUBSET S : g[s] = IF s = {} THEN 0 ELSE f[Any(s)] + g[s \ {Any(s)}]
BY DEF Recursion

LEMMA RecursionUnique ==
  ASSUME NEW f, NEW S, IsFiniteSet(S), NEW g, Recursion(g, f, S),
         NEW T, NEW h, Recursion(h, f, T), NEW s \in SUBSET S, s \in SUBSET T
  PROVE  g[s] = h[s]
<1> DEFINE D == {u \in SUBSET s : g[u] # h[u]}
<1>1. SUFFICES ASSUME D # {}
               PROVE  FALSE
  OBVIOUS
<1>2. IsFiniteSet(s)
  BY FS_Subset
<1>3. PICK x \in D : \A y \in D : y \subseteq x => y = x
  <2> HIDE DEF D
  <2>1. D \subseteq SUBSET s
    BY DEF D
  <2> QED
    BY <1>1, <1>2, <2>1, LeastSubset
<1>4. x \in SUBSET S /\ x \in SUBSET T /\ x \in SUBSET s /\ g[x] # h[x]
  BY <1>3
<1>5. /\ g[x] = IF x = {} THEN 0 ELSE f[Any(x)] + g[x \ {Any(x)}]
      /\ h[x] = IF x = {} THEN 0 ELSE f[Any(x)] + h[x \ {Any(x)}]
  <2>1. /\ \A u \in SUBSET S : g[u] = IF u = {} THEN 0 ELSE f[Any(u)] + g[u \ {Any(u)}]
        /\ \A u \in SUBSET T : h[u] = IF u = {} THEN 0 ELSE f[Any(u)] + h[u \ {Any(u)}]
    BY RecursionAt
  <2> QED
    BY <1>4, <2>1
<1>6. x # {} /\ Any(x) \in x
  BY <1>4, <1>5, AnyTaken
<1>7. x \ {Any(x)} \in SUBSET s /\ x \ {Any(x)} # x
  BY <1>4, <1>6
<1>8. g[x \ {Any(x)}] = h[x \ {Any(x)}]
  BY <1>3, <1>7
<1> QED
  BY <1>4, <1>5, <1>8

LEMMA RecursionExists ==
  ASSUME NEW f, NEW S, IsFiniteSet(S)
  PROVE  \E g : Recursion(g, f, S)
<1> DEFINE D == {u \in SUBSET S : ~ \E g : Recursion(g, f, u)}
<1>1. SUFFICES ASSUME D # {}
               PROVE  FALSE
  OBVIOUS
<1>2. PICK x \in D : \A y \in D : y \subseteq x => y = x
  <2> HIDE DEF D
  <2>1. D \subseteq SUBSET S
    BY DEF D
  <2> QED
    BY <1>1, <2>1, LeastSubset
<1>3. x \in SUBSET S /\ ~ \E g : Recursion(g, f, x)
  BY <1>2
<1>4. ASSUME NEW y \in SUBSET x, y # x
      PROVE  Recursion(CHOOSE g : Recursion(g, f, y), f, y)
  <2>1. \E g : Recursion(g, f, y)
    BY <1>2, <1>3, <1>4
  <2> QED
    BY <2>1
<1>5. \A s \in SUBSET x : s # {} => s \ {Any(s)} \in SUBSET x /\ s \ {Any(s)} # x
  BY AnyTaken
<1>6. PICK h : h = [s \in SUBSET x |->
                      IF s = {} THEN 0 ELSE f[Any(s)] + Total(f, s \ {Any(s)})]
  OBVIOUS
<1>7. ASSUME NEW y \in SUBSET x, y # x
      PROVE  h[y] = Total(f, y)
  <2>1. PICK g : Recursion(g, f, y) /\ Total(f, y) = g[y]
    BY <1>4, <1>7 DEF Total
  <2>2. g[y] = IF y = {} THEN 0 ELSE f[Any(y)] + g[y \ {Any(y)}]
    BY <2>1, RecursionAt
  <2>3. CASE y = {}
    BY <1>6, <2>1, <2>2, <2>3
  <2>4. CASE y # {}
    <3>1. PICK z : z = y \ {Any(y)}
      OBVIOUS
    <3>2. z \in SUBSET x /\ z # x /\ z \in SUBSET y
      BY <1>5, <2>4, <3>1
    <3>3. PICK k : Recursion(k, f, z) /\ Total(f, z) = k[z]
      BY <1>4, <3>2 DEF Total
    <3>4. IsFiniteSet(y)
      BY <1>3, FS_Subset
    <3>5. g[z] = k[z]
      BY <2>1, <3>2, <3>3, <3>4, RecursionUnique
    <3> QED
      BY <1>6, <2>1, <2>2, <2>4, <3>1, <3>3, <3>5
  <2> QED
    BY <2>3, <2>4
<1>8. Recursion(h, f, x)
  <2>1. \A s \in SUBSET x : h[s] = IF s = {} THEN 0 ELSE f[Any(s)] + h[s \ {Any(s)}]
    <3> TAKE s \in SUBSET x
    <3>1. CASE s = {}
      BY <1>6, <3>1
    <3>2. CASE s # {}
      <4>1. h[s \ {Any(s)}] = Total(f, s \ {Any(s)})
        BY <1>5, <1>7, <3>2
      <4>2. h[s] = f[Any(s)] + Total(f, s \ {Any(s)})
        BY <1>6, <3>2
      <4> QED
        BY <3>2, <4>1, <4>2
    <3> QED
      BY <3>1, <3>2
  <2>2. h = [s \in SUBSET x |-> h[s]]
    BY <1>6
  <2> QED
    BY <2>1, <2>2 DEF Recursion
<1> QED
  BY <1>3, <1>8

LEMMA TotalRecursion ==
  ASSUME NEW f, NEW S, IsFiniteSet(S)
  PROVE  Total(f, S) = IF S = {} THEN 0 ELSE f[Any(S)] + Total(f, S \ {Any(S)})
<1>1. \A T \in SUBSET S : \E g : Recursion(g, f, T) /\ Total(f, T) = g[T]
  <2> TAKE T \in SUBSET S
  <2>1. \E g : Recursion(g, f, T)
    BY FS_Subset, RecursionExists
  <2> QED
    BY <2>1 DEF Total
<1>2. PICK g : Recursion(g, f, S) /\ Total(f, S) = g[S]
  BY <1>1
<1>3. g[S] = IF S = {} THEN 0 ELSE f[Any(S)] + g[S \ {Any(S)}]
  <2>1. \A s \in SUBSET S : g[s] = IF s = {} THEN 0 ELSE f[Any(s)] + g[s \ {Any(s)}]
    BY <1>2, RecursionAt
  <2> QED
    BY <2>1
<1>4. PICK T : T = S \ {Any(S)}
  OBVIOUS
<1>5. T \in SUBSET S
  BY <1>4
<1>6. PICK h : Recursion(h, f, T) /\ Total(f, T) = h[T]
  BY <1>1, <1>5
<1>7. g[T] = h[T]
  BY <1>2, <1>5, <1>6, RecursionUnique
<1> QED
  BY <1>2, <1>3, <1>4, <1>6, <1>7

-----------------------------------------------------------------------------
(* What a sum is.                                                          *)

\* Any element may be taken first.
LEMMA TotalWithout ==
  ASSUME NEW f, NEW S, IsFiniteSet(S), \A x \in S : f[x] \in Int
  PROVE  /\ Total(f, S) \in Int
         /\ \A y \in S : Total(f, S) = f[y] + Total(f, S \ {y})
<1> DEFINE Good(u) == /\ Total(f, u) \in Int
                      /\ \A y \in u : Total(f, u) = f[y] + Total(f, u \ {y})
           D == {u \in SUBSET S : ~Good(u)}
<1>1. SUFFICES ASSUME D # {}
               PROVE  FALSE
  OBVIOUS
<1>2. PICK x \in D : \A y \in D : y \subseteq x => y = x
  <2> HIDE DEF D
  <2>1. D \subseteq SUBSET S
    BY DEF D
  <2> QED
    BY <1>1, <2>1, LeastSubset
<1>3. x \in SUBSET S /\ ~Good(x)
  BY <1>2
<1>4. \A u \in SUBSET x : u # x => Good(u)
  BY <1>2, <1>3
<1>5. \A u \in SUBSET x :
        Total(f, u) = IF u = {} THEN 0 ELSE f[Any(u)] + Total(f, u \ {Any(u)})
  <2> TAKE u \in SUBSET x
  <2>1. IsFiniteSet(u)
    BY <1>3, FS_Subset
  <2> QED
    BY <2>1, TotalRecursion
<1>6. CASE x = {}
  BY <1>3, <1>5, <1>6
<1>7. CASE x # {}
  <2>1. PICK a : a = Any(x) /\ a \in x
    BY <1>7, AnyTaken
  <2>2. Total(f, x) = f[a] + Total(f, x \ {a})
    BY <1>5, <1>7, <2>1
  <2>3. \A y \in x : Good(x \ {y}) /\ f[y] \in Int
    BY <1>3, <1>4
  <2>4. Total(f, x) \in Int
    BY <2>1, <2>2, <2>3
  <2>5. \A y \in x : Total(f, x) = f[y] + Total(f, x \ {y})
    <3> TAKE y \in x
    <3>1. CASE y = a
      BY <2>2, <3>1
    <3>2. CASE y # a
      <4>1. Total(f, x \ {a}) = f[y] + Total(f, (x \ {a}) \ {y})
        BY <2>1, <2>3, <3>2
      <4>2. Total(f, x \ {y}) = f[a] + Total(f, (x \ {y}) \ {a})
        BY <2>1, <2>3, <3>2
      <4>3. (x \ {a}) \ {y} = (x \ {y}) \ {a}
        OBVIOUS
      <4>4. PICK r : r = Total(f, (x \ {y}) \ {a})
        OBVIOUS
      <4>5. r \in Int
        <5>1. (x \ {y}) \ {a} \in SUBSET x /\ (x \ {y}) \ {a} # x
          BY <2>1
        <5> QED
          BY <1>4, <4>4, <5>1
      <4> QED
        BY <2>1, <2>2, <2>3, <4>1, <4>2, <4>3, <4>4, <4>5
    <3> QED
      BY <3>1, <3>2
  <2> QED
    BY <1>3, <2>4, <2>5
<1> QED
  BY <1>6, <1>7

LEMMA SumEmpty ==
  ASSUME NEW f
  PROVE  SumFunctionOnSet(f, {}) = 0
BY FS_EmptySet, TotalRecursion, SumIsTotal

LEMMA SumInt ==
  ASSUME NEW f, NEW S, IsFiniteSet(S), \A x \in S : f[x] \in Int
  PROVE  SumFunctionOnSet(f, S) \in Int
BY TotalWithout, SumIsTotal

LEMMA SumWithout ==
  ASSUME NEW f, NEW S, IsFiniteSet(S), \A x \in S : f[x] \in Int, NEW y \in S
  PROVE  SumFunctionOnSet(f, S) = f[y] + SumFunctionOnSet(f, S \ {y})
BY TotalWithout, SumIsTotal

\* Equal values have equal sums.
LEMMA SumSame ==
  ASSUME NEW f, NEW g, NEW S, IsFiniteSet(S), \A x \in S : f[x] \in Int /\ g[x] = f[x]
  PROVE  SumFunctionOnSet(g, S) = SumFunctionOnSet(f, S)
<1> DEFINE D == {u \in SUBSET S : SumFunctionOnSet(g, u) # SumFunctionOnSet(f, u)}
<1>1. SUFFICES ASSUME D # {}
               PROVE  FALSE
  OBVIOUS
<1>2. PICK x \in D : \A y \in D : y \subseteq x => y = x
  <2> HIDE DEF D
  <2>1. D \subseteq SUBSET S
    BY DEF D
  <2> QED
    BY <1>1, <2>1, LeastSubset
<1>3. x \in SUBSET S /\ SumFunctionOnSet(g, x) # SumFunctionOnSet(f, x) /\ IsFiniteSet(x)
  BY <1>2, FS_Subset
<1>4. PICK y : y \in x
  BY <1>3, SumEmpty
<1>5. SumFunctionOnSet(g, x \ {y}) = SumFunctionOnSet(f, x \ {y})
  <2>1. x \ {y} \in SUBSET S /\ x \ {y} \subseteq x /\ x \ {y} # x
    BY <1>3, <1>4
  <2> QED
    BY <1>2, <2>1
<1>6. \A z \in x : f[z] \in Int /\ g[z] \in Int /\ g[z] = f[z]
  BY <1>3
<1>7. SumFunctionOnSet(g, x) = g[y] + SumFunctionOnSet(g, x \ {y})
  BY <1>3, <1>4, <1>6, SumWithout
<1>8. SumFunctionOnSet(f, x) = f[y] + SumFunctionOnSet(f, x \ {y})
  BY <1>3, <1>4, <1>6, SumWithout
<1> QED
  BY <1>3, <1>4, <1>5, <1>6, <1>7, <1>8

\* One more value is added.
LEMMA SumWith ==
  ASSUME NEW f, NEW S, IsFiniteSet(S), NEW y, y \notin S,
         NEW g, \A x \in S : f[x] \in Int /\ g[x] = f[x], g[y] \in Int
  PROVE  SumFunctionOnSet(g, S \cup {y}) = SumFunctionOnSet(f, S) + g[y]
<1>1. PICK T : T = S \cup {y}
  OBVIOUS
<1>2. IsFiniteSet(T) /\ y \in T /\ T \ {y} = S /\ \A x \in T : g[x] \in Int
  BY <1>1, FS_AddElement
<1>3. SumFunctionOnSet(g, T) = g[y] + SumFunctionOnSet(g, T \ {y})
  BY <1>2, SumWithout
<1>4. SumFunctionOnSet(g, S) = SumFunctionOnSet(f, S)
  BY SumSame
<1>5. SumFunctionOnSet(f, S) \in Int
  BY SumInt
<1>6. PICK v : v = g[y]
  OBVIOUS
<1>7. PICK w : w = SumFunctionOnSet(f, S)
  OBVIOUS
<1>8. SumFunctionOnSet(g, T) = v + w
  BY <1>2, <1>3, <1>4, <1>6, <1>7
<1>9. v + w = w + v
  BY <1>5, <1>6, <1>7
<1> QED
  BY <1>1, <1>6, <1>7, <1>8, <1>9

\* One value is changed.
LEMMA SumChanged ==
  ASSUME NEW f, NEW g, NEW S, IsFiniteSet(S), NEW y \in S, f[y] \in Int, g[y] \in Int,
         \A x \in S \ {y} : f[x] \in Int /\ g[x] = f[x]
  PROVE  SumFunctionOnSet(g, S) = SumFunctionOnSet(f, S) - f[y] + g[y]
<1>1. PICK T : T = S \ {y}
  OBVIOUS
<1>2. IsFiniteSet(T) /\ \A x \in T : f[x] \in Int /\ g[x] = f[x]
  BY <1>1, FS_Subset
<1>3. \A x \in S : f[x] \in Int /\ g[x] \in Int
  OBVIOUS
<1>4. SumFunctionOnSet(g, S) = g[y] + SumFunctionOnSet(g, T)
  BY <1>1, <1>3, SumWithout
<1>5. SumFunctionOnSet(f, S) = f[y] + SumFunctionOnSet(f, T)
  BY <1>1, <1>3, SumWithout
<1>6. SumFunctionOnSet(g, T) = SumFunctionOnSet(f, T)
  BY <1>2, SumSame
<1>7. SumFunctionOnSet(f, T) \in Int
  BY <1>2, SumInt
<1> QED
  BY <1>4, <1>5, <1>6, <1>7

LEMMA SumNat ==
  ASSUME NEW f, NEW S, IsFiniteSet(S), \A x \in S : f[x] \in Nat
  PROVE  SumFunctionOnSet(f, S) \in Nat
<1> DEFINE D == {u \in SUBSET S : SumFunctionOnSet(f, u) \notin Nat}
<1>1. SUFFICES ASSUME D # {}
               PROVE  FALSE
  OBVIOUS
<1>2. PICK x \in D : \A y \in D : y \subseteq x => y = x
  <2> HIDE DEF D
  <2>1. D \subseteq SUBSET S
    BY DEF D
  <2> QED
    BY <1>1, <2>1, LeastSubset
<1>3. x \in SUBSET S /\ SumFunctionOnSet(f, x) \notin Nat /\ IsFiniteSet(x)
  BY <1>2, FS_Subset
<1>4. PICK y : y \in x
  BY <1>3, SumEmpty
<1>5. SumFunctionOnSet(f, x \ {y}) \in Nat
  <2>1. x \ {y} \in SUBSET S /\ x \ {y} \subseteq x /\ x \ {y} # x
    BY <1>3, <1>4
  <2> QED
    BY <1>2, <2>1
<1>6. f[y] \in Nat /\ \A z \in x : f[z] \in Int
  BY <1>3, <1>4
<1>7. SumFunctionOnSet(f, x) = f[y] + SumFunctionOnSet(f, x \ {y})
  BY <1>3, <1>4, <1>6, SumWithout
<1> QED
  BY <1>3, <1>5, <1>6, <1>7

\* A part has no larger sum than the whole.
LEMMA SumMonotone ==
  ASSUME NEW f, NEW S, IsFiniteSet(S), \A x \in S : f[x] \in Nat, NEW T \in SUBSET S
  PROVE  SumFunctionOnSet(f, T) <= SumFunctionOnSet(f, S)
<1> DEFINE D == {u \in SUBSET S : T \subseteq u /\ ~(SumFunctionOnSet(f, T) <= SumFunctionOnSet(f, u))}
<1>1. SUFFICES ASSUME D # {}
               PROVE  FALSE
  OBVIOUS
<1>2. PICK x \in D : \A y \in D : y \subseteq x => y = x
  <2> HIDE DEF D
  <2>1. D \subseteq SUBSET S
    BY DEF D
  <2> QED
    BY <1>1, <2>1, LeastSubset
<1>3. /\ x \in SUBSET S /\ T \subseteq x /\ IsFiniteSet(x) /\ IsFiniteSet(T)
      /\ ~(SumFunctionOnSet(f, T) <= SumFunctionOnSet(f, x))
  BY <1>2, FS_Subset
<1>4. SumFunctionOnSet(f, T) \in Int
  BY <1>3, SumInt
<1>5. x # T
  BY <1>3, <1>4
<1>6. PICK y \in x : y \notin T
  BY <1>3, <1>5
<1>7. SumFunctionOnSet(f, T) <= SumFunctionOnSet(f, x \ {y})
  <2>1. /\ x \ {y} \in SUBSET S /\ x \ {y} \subseteq x /\ x \ {y} # x
        /\ T \subseteq x \ {y}
    BY <1>3, <1>6
  <2> QED
    BY <1>2, <2>1
<1>8. f[y] \in Nat /\ \A z \in x : f[z] \in Int
  BY <1>3
<1>9. SumFunctionOnSet(f, x) = f[y] + SumFunctionOnSet(f, x \ {y})
  BY <1>3, <1>6, <1>8, SumWithout
<1>10. SumFunctionOnSet(f, x \ {y}) \in Int
  <2>1. IsFiniteSet(x \ {y}) /\ \A z \in x \ {y} : f[z] \in Int
    BY <1>3, <1>8, FS_Subset
  <2> QED
    BY <2>1, SumInt
<1> QED
  BY <1>3, <1>4, <1>7, <1>8, <1>9, <1>10

-----------------------------------------------------------------------------
(* Counting by parts.                                                      *)

LEMMA TwoParts ==
  ASSUME NEW A, IsFiniteSet(A), NEW B, IsFiniteSet(B), A \cap B = {}
  PROVE  /\ IsFiniteSet(A \cup B)
         /\ Cardinality(A \cup B) = Cardinality(A) + Cardinality(B)
<1>1. PICK a \in Nat, b \in Nat : a = Cardinality(A) /\ b = Cardinality(B)
  BY FS_CardinalityType
<1>2. Cardinality(A \cap B) = 0
  BY FS_EmptySet
<1>3. Cardinality(A \cup B) = a + b - Cardinality(A \cap B) /\ IsFiniteSet(A \cup B)
  BY <1>1, FS_Union
<1> QED
  BY <1>1, <1>2, <1>3

\* A set has as many members as the parts it falls into have together.
LEMMA SumOfParts ==
  ASSUME NEW K, IsFiniteSet(K), NEW part, NEW f,
         \A k \in K : IsFiniteSet(part[k]) /\ f[k] = Cardinality(part[k]),
         \A j, k \in K : j # k => part[j] \cap part[k] = {}
  PROVE  /\ IsFiniteSet(UNION {part[k] : k \in K})
         /\ Cardinality(UNION {part[k] : k \in K}) = SumFunctionOnSet(f, K)
<1> DEFINE U(s) == UNION {part[k] : k \in s}
           Counted(s) == IsFiniteSet(U(s)) /\ Cardinality(U(s)) = SumFunctionOnSet(f, s)
           D == {s \in SUBSET K : ~Counted(s)}
<1>1. SUFFICES ASSUME D # {}
               PROVE  FALSE
  BY K \in SUBSET K
<1>2. PICK x \in D : \A y \in D : y \subseteq x => y = x
  <2> HIDE DEF D
  <2>1. D \subseteq SUBSET K
    BY DEF D
  <2> QED
    BY <1>1, <2>1, LeastSubset
<1>3. x \in SUBSET K /\ ~Counted(x) /\ IsFiniteSet(x)
  BY <1>2, FS_Subset
<1>4. Counted({})
  <2>1. U({}) = {}
    OBVIOUS
  <2> QED
    BY <2>1, FS_EmptySet, SumEmpty
<1> HIDE DEF Counted
<1>5. PICK y : y \in x
  BY <1>3, <1>4
<1>6. Counted(x \ {y})
  <2>1. x \ {y} \in SUBSET K /\ x \ {y} \subseteq x /\ x \ {y} # x
    BY <1>3, <1>5
  <2> QED
    BY <1>2, <2>1
<1>7. /\ IsFiniteSet(U(x \ {y})) /\ Cardinality(U(x \ {y})) = SumFunctionOnSet(f, x \ {y})
      /\ IsFiniteSet(part[y]) /\ f[y] = Cardinality(part[y])
  BY <1>3, <1>5, <1>6 DEF Counted
<1>8. U(x) = part[y] \cup U(x \ {y}) /\ part[y] \cap U(x \ {y}) = {}
  BY <1>3, <1>5
<1> HIDE DEF U
<1>9. /\ IsFiniteSet(U(x))
      /\ Cardinality(U(x)) = Cardinality(part[y]) + Cardinality(U(x \ {y}))
  <2>1. PICK A, B : A = part[y] /\ B = U(x \ {y})
    OBVIOUS
  <2>2. IsFiniteSet(A) /\ IsFiniteSet(B) /\ A \cap B = {}
    BY <1>7, <1>8, <2>1
  <2>3. IsFiniteSet(A \cup B) /\ Cardinality(A \cup B) = Cardinality(A) + Cardinality(B)
    BY <2>2, TwoParts
  <2> QED
    BY <1>8, <2>1, <2>3
<1>10. \A k \in x : f[k] \in Int
  BY <1>3, FS_CardinalityType
<1>11. SumFunctionOnSet(f, x) = f[y] + SumFunctionOnSet(f, x \ {y})
  BY <1>3, <1>5, <1>10, SumWithout
<1>12. Counted(x)
  BY <1>7, <1>9, <1>11 DEF Counted
<1> QED
  BY <1>3, <1>12
=============================================================================
