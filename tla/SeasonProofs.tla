--------------------------- MODULE SeasonProofs ----------------------------
(***************************************************************************)
(* What holds of the marking, the estimators and the tournament for every  *)
(* tournament, every scoreline and every win expectancy.                   *)
(***************************************************************************)
EXTENDS Season, FiniteSetTheorems, TLAPS

-----------------------------------------------------------------------------
(* Induction *)

\* induction over the natural numbers, for a set instead of a predicate
LEMMA Climb ==
  ASSUME NEW Q, 0 \in Q, \A n \in Nat : n \in Q => n + 1 \in Q
  PROVE  \A n \in Nat : n \in Q
<1> DEFINE T == Nat \ Q
<1> SUFFICES ASSUME T # {} PROVE FALSE
  OBVIOUS
<1>1. PICK n \in T : \A m \in T : ~ (<<m, n>> \in OpToRel(<, Nat))
  <2>1. T \subseteq Nat /\ T # {}
    OBVIOUS
  <2> HIDE DEF T
  <2> QED
    BY <2>1, NatLessThanWellFounded, WFMin
<1>2. \A m \in T : ~ (m < n)
  BY <1>1 DEF OpToRel
<1>3. n # 0 /\ n - 1 \in Nat /\ n - 1 \notin T
  BY <1>2
<1> QED
  BY <1>3

LEMMA NotEmpty ==
  ASSUME NEW s, NEW n \in Nat, Cardinality(s) = n + 1
  PROVE  s # {}
<1>1. Cardinality({}) = 0
  BY FS_EmptySet
<1>2. n + 1 # 0
  OBVIOUS
<1> QED
  BY <1>1, <1>2

\* to reach a finite set it is enough to add one element at a time
LEMMA Grow ==
  ASSUME NEW S, IsFiniteSet(S), NEW Q, {} \in Q,
         \A s \in SUBSET S : \A x \in S \ s : s \in Q => s \cup {x} \in Q
  PROVE  \A s \in SUBSET S : s \in Q
<1> DEFINE N == {n \in Nat : \A s \in SUBSET S : Cardinality(s) = n => s \in Q}
<1>1. 0 \in N
  BY FS_Subset, FS_EmptySet
<1>2. ASSUME NEW n \in Nat, n \in N PROVE n + 1 \in N
  <2> SUFFICES ASSUME NEW s \in SUBSET S, Cardinality(s) = n + 1 PROVE s \in Q
    OBVIOUS
  <2>1. PICK x \in s : TRUE
    BY NotEmpty
  <2>2. Cardinality(s \ {x}) = n
    <3>1. IsFiniteSet(s)
      BY FS_Subset
    <3>2. Cardinality(s \ {x}) = Cardinality(s) - 1
      BY <3>1, FS_RemoveElement
    <3> QED
      BY <3>2
  <2>3. s \ {x} \in SUBSET S /\ x \in S \ (s \ {x}) /\ (s \ {x}) \cup {x} = s
    OBVIOUS
  <2>4. s \ {x} \in Q
    BY <1>2, <2>2, <2>3
  <2> QED
    BY <2>3, <2>4
<1> HIDE DEF N
<1>3. \A n \in Nat : n \in N
  BY <1>1, <1>2, Climb
<1>4. \A s \in SUBSET S : Cardinality(s) \in Nat
  BY FS_Subset, FS_CardinalityType
<1> QED
  BY <1>3, <1>4 DEF N

-----------------------------------------------------------------------------
(* Sums over finite sets, as the community modules define them *)

Sum(v, K) == SumFunction([k \in K |-> v[k]])

Pick(s) == CHOOSE x \in s : TRUE
Sums(g, v, S) == g = [s \in S |-> IF s = {} THEN 0 ELSE v[Pick(s)] + g[s \ {Pick(s)}]]
Small(D, n) == {s \in SUBSET D : Cardinality(s) <= n}

LEMMA Smaller ==
  ASSUME NEW D, IsFiniteSet(D), NEW s \in SUBSET D, s # {}
  PROVE  /\ Pick(s) \in s /\ s \ {Pick(s)} \in SUBSET D
         /\ Cardinality(s) \in Nat \ {0} /\ Cardinality(s \ {Pick(s)}) = Cardinality(s) - 1
<1>1. IsFiniteSet(s) /\ Cardinality(s) \in Nat /\ Cardinality(s) # 0
  BY FS_Subset, FS_CardinalityType, FS_EmptySet
<1>2. Pick(s) \in s
  BY DEF Pick
<1>3. Cardinality(s \ {Pick(s)}) = Cardinality(s) - 1
  BY <1>1, <1>2, FS_RemoveElement
<1> QED
  BY <1>1, <1>2, <1>3

LEMMA SumExists ==
  ASSUME NEW v, NEW D, IsFiniteSet(D)
  PROVE  \E g : Sums(g, v, SUBSET D)
<1> DEFINE Q == {n \in Nat : \E g : Sums(g, v, Small(D, n))}
<1>1. 0 \in Q
  <2>1. Small(D, 0) = {{}}
    <3>1. \A s \in SUBSET D : s # {} => Cardinality(s) \in Nat \ {0}
      BY Smaller
    <3>2. Cardinality({}) = 0
      BY FS_EmptySet
    <3> QED
      BY <3>1, <3>2 DEF Small
  <2> DEFINE g == [s \in {{}} |-> 0]
  <2>2. Sums(g, v, {{}})
    BY DEF Sums
  <2>3. Sums(g, v, Small(D, 0))
    BY <2>1, <2>2
  <2> QED
    BY <2>3
<1>2. ASSUME NEW n \in Nat, n \in Q
      PROVE  n + 1 \in Q
  <2>1. PICK g : Sums(g, v, Small(D, n))
    BY <1>2
  <2> DEFINE h == [s \in Small(D, n + 1) |-> IF s = {} THEN 0 ELSE v[Pick(s)] + g[s \ {Pick(s)}]]
  <2>2. \A s \in Small(D, n + 1) : s # {} => s \ {Pick(s)} \in Small(D, n)
    BY Smaller DEF Small
  <2>3. \A s \in Small(D, n) : s \in Small(D, n + 1)
    <3>1. \A s \in SUBSET D : Cardinality(s) \in Nat
      BY FS_Subset, FS_CardinalityType
    <3> QED
      BY <3>1 DEF Small
  <2>4. \A s \in Small(D, n) : h[s] = g[s]
    BY <2>1, <2>3 DEF Sums
  <2>5. Sums(h, v, Small(D, n + 1))
    BY <2>2, <2>4 DEF Sums
  <2> QED
    BY <2>5
<1> HIDE DEF Q
<1>3. Cardinality(D) \in Q
  BY <1>1, <1>2, Climb, FS_CardinalityType
<1>4. Small(D, Cardinality(D)) = SUBSET D
  BY FS_Subset DEF Small
<1> QED
  BY <1>3, <1>4 DEF Q

Same(v, w, K) == \A k \in K : v[k] = w[k]

\* one such function gives the sums over all the subsets
LEMMA SumsAgree ==
  ASSUME NEW D, NEW K \in SUBSET D, NEW v, NEW w, NEW g, NEW h,
         IsFiniteSet(D), Same(v, w, K), Sums(g, v, SUBSET D), Sums(h, w, SUBSET K)
  PROVE  g[K] = h[K]
<1> DEFINE N == {n \in Nat : \A s \in SUBSET K : Cardinality(s) = n => g[s] = h[s]}
<1>1. IsFiniteSet(K)
  BY FS_Subset
<1>2. 0 \in N
  BY <1>1, FS_Subset, FS_EmptySet DEF Sums
<1>3. ASSUME NEW n \in Nat, n \in N PROVE n + 1 \in N
  <2> SUFFICES ASSUME NEW s \in SUBSET K, Cardinality(s) = n + 1 PROVE g[s] = h[s]
    OBVIOUS
  <2>1. s # {} /\ s \in SUBSET D
    BY NotEmpty
  <2>2. Pick(s) \in s /\ s \ {Pick(s)} \in SUBSET K /\ Cardinality(s \ {Pick(s)}) = n
    BY <1>1, <2>1, Smaller
  <2>3. g[s] = v[Pick(s)] + g[s \ {Pick(s)}] /\ h[s] = w[Pick(s)] + h[s \ {Pick(s)}]
    BY <2>1 DEF Sums
  <2>4. g[s \ {Pick(s)}] = h[s \ {Pick(s)}]
    BY <1>3, <2>2
  <2>5. v[Pick(s)] = w[Pick(s)]
    BY <2>2 DEF Same
  <2> QED
    BY <2>3, <2>4, <2>5
<1> HIDE DEF N
<1>4. \A n \in Nat : n \in N
  BY <1>2, <1>3, Climb
<1>5. Cardinality(K) \in Nat
  BY <1>1, FS_CardinalityType
<1> QED
  BY <1>4, <1>5 DEF N

LEMMA SumIsOne ==
  ASSUME NEW D, NEW v, NEW g, NEW K \in SUBSET D, IsFiniteSet(D), Sums(g, v, SUBSET D)
  PROVE  Sum(v, K) = g[K]
<1> DEFINE w == [k \in K |-> v[k]]
           h == CHOOSE h : Sums(h, w, SUBSET K)
<1>1. IsFiniteSet(K)
  BY FS_Subset
<1>2. Sums(h, w, SUBSET K)
  BY <1>1, SumExists
<1>3. SumFunction(w) = h[K]
  <2>1. DOMAIN w = K
    OBVIOUS
  <2> HIDE DEF w
  <2> QED
    BY <2>1 DEF SumFunction, SumFunctionOnSet, FoldFunctionOnSet, MapThenFoldSet, Sums, Pick
<1>4. Same(v, w, K)
  BY DEF Same
<1>5. Sum(v, K) = SumFunction(w)
  BY DEF Sum
<1> HIDE DEF w, h
<1>6. g[K] = h[K]
  BY <1>2, <1>4, SumsAgree
<1> QED
  BY <1>3, <1>5, <1>6

(***************************************************************************)
(* The sum over the empty set is 0, and whichever element is taken out     *)
(* first, the rest is the sum over the others.                             *)
(***************************************************************************)
Numbers(v, D) == \A k \in D : v[k] \in Int

LEMMA SumOfNone ==
  ASSUME NEW v
  PROVE  Sum(v, {}) = 0
<1>1. PICK g : Sums(g, v, SUBSET {})
  BY SumExists, FS_EmptySet
<1>2. Sum(v, {}) = g[{}]
  BY <1>1, SumIsOne, FS_EmptySet
<1>3. g[{}] = 0
  BY <1>1 DEF Sums
<1> QED
  BY <1>2, <1>3

LEMMA SumsInt ==
  ASSUME NEW D, NEW v, NEW g, IsFiniteSet(D), Numbers(v, D), Sums(g, v, SUBSET D)
  PROVE  \A s \in SUBSET D : g[s] \in Int
<1> DEFINE N == {n \in Nat : \A s \in SUBSET D : Cardinality(s) = n => g[s] \in Int}
<1>1. 0 \in N
  BY FS_Subset, FS_EmptySet DEF Sums
<1>2. ASSUME NEW n \in Nat, n \in N PROVE n + 1 \in N
  <2> SUFFICES ASSUME NEW s \in SUBSET D, Cardinality(s) = n + 1 PROVE g[s] \in Int
    OBVIOUS
  <2>1. s # {}
    BY NotEmpty
  <2>2. Pick(s) \in s /\ s \ {Pick(s)} \in SUBSET D /\ Cardinality(s \ {Pick(s)}) = n
    BY <2>1, Smaller
  <2>3. g[s] = v[Pick(s)] + g[s \ {Pick(s)}]
    BY <2>1 DEF Sums
  <2>4. g[s \ {Pick(s)}] \in Int /\ v[Pick(s)] \in Int
    BY <1>2, <2>2 DEF Numbers
  <2> QED
    BY <2>3, <2>4
<1> HIDE DEF N
<1>3. \A n \in Nat : n \in N
  BY <1>1, <1>2, Climb
<1> QED
  BY <1>3, FS_Subset, FS_CardinalityType DEF N

LEMMA SumTakesOut ==
  ASSUME NEW D, NEW v, IsFiniteSet(D), Numbers(v, D)
  PROVE  \A s \in SUBSET D : /\ Sum(v, s) \in Int
                             /\ \A x \in s : Sum(v, s) = v[x] + Sum(v, s \ {x})
<1>1. PICK g : Sums(g, v, SUBSET D)
  BY SumExists
<1>2. \A s \in SUBSET D : Sum(v, s) = g[s]
  BY <1>1, SumIsOne
<1>0. \A s \in SUBSET D : g[s] \in Int
  BY <1>1, SumsInt
<1> DEFINE Fine(s) == g[s] \in Int /\ \A x \in s : g[s] = v[x] + g[s \ {x}]
           N == {n \in Nat : \A s \in SUBSET D : Cardinality(s) = n => Fine(s)}
<1>3. 0 \in N
  BY <1>1, FS_Subset, FS_EmptySet DEF Sums
<1>4. ASSUME NEW n \in Nat, n \in N PROVE n + 1 \in N
  <2> SUFFICES ASSUME NEW s \in SUBSET D, Cardinality(s) = n + 1 PROVE Fine(s)
    OBVIOUS
  <2>1. s # {} /\ IsFiniteSet(s)
    BY NotEmpty, FS_Subset
  <2> DEFINE p == Pick(s)
  <2>2. p \in s /\ s \ {p} \in SUBSET D /\ Cardinality(s \ {p}) = n
    BY <2>1, Smaller
  <2>3. g[s] = v[p] + g[s \ {p}]
    BY <1>1, <2>1 DEF Sums
  <2> HIDE DEF p
  <2>4. Fine(s \ {p})
    BY <1>4, <2>2
  <2>5. g[s] \in Int
    BY <2>2, <2>3, <2>4 DEF Numbers
  <2>6. ASSUME NEW x \in s PROVE g[s] = v[x] + g[s \ {x}]
    <3>1. CASE x = p
      BY <2>3, <3>1
    <3>2. CASE x # p
      <4>1. Cardinality(s \ {x}) = n
        BY <2>1, FS_RemoveElement
      <4>2. Fine(s \ {x})
        BY <1>4, <4>1
      <4>3. (s \ {x}) \ {p} = (s \ {p}) \ {x}
        OBVIOUS
      <4>4. g[s \ {x}] = v[p] + g[(s \ {p}) \ {x}] /\ g[s \ {p}] = v[x] + g[(s \ {p}) \ {x}]
        BY <2>2, <2>4, <3>2, <4>2, <4>3
      <4>5. v[p] \in Int /\ v[x] \in Int
        BY <2>2 DEF Numbers
      <4>6. g[(s \ {p}) \ {x}] \in Int
        BY <1>0
      <4> QED
        BY <2>3, <4>4, <4>5, <4>6
    <3> QED
      BY <3>1, <3>2
  <2> QED
    BY <2>5, <2>6
<1> HIDE DEF Fine, N
<1>5. \A n \in Nat : n \in N
  BY <1>3, <1>4, Climb
<1>6. \A s \in SUBSET D : Fine(s)
  BY <1>5, FS_Subset, FS_CardinalityType DEF N
<1> QED
  BY <1>2, <1>6 DEF Fine

LEMMA SumAdds ==
  ASSUME NEW D, NEW v, NEW s \in SUBSET D, NEW x \in D \ s, IsFiniteSet(D), Numbers(v, D)
  PROVE  Sum(v, s \cup {x}) = v[x] + Sum(v, s) /\ v[x] \in Int /\ Sum(v, s) \in Int
<1>1. s \cup {x} \in SUBSET D /\ x \in s \cup {x} /\ (s \cup {x}) \ {x} = s
  OBVIOUS
<1>2. Sum(v, s \cup {x}) = v[x] + Sum(v, (s \cup {x}) \ {x})
  BY <1>1, SumTakesOut
<1>3. Sum(v, s) \in Int
  BY SumTakesOut
<1> QED
  BY <1>1, <1>2, <1>3 DEF Numbers

LEMMA SumOfSame ==
  ASSUME NEW K, NEW v, NEW w, Same(v, w, K)
  PROVE  Sum(v, K) = Sum(w, K)
<1>1. [k \in K |-> v[k]] = [k \in K |-> w[k]]
  BY DEF Same
<1> QED
  BY <1>1 DEF Sum

Naturals(v, D) == \A k \in D : v[k] \in Nat
Below(v, w, D) == \A k \in D : v[k] <= w[k]

LEMMA SumIsMonotone ==
  ASSUME NEW D, NEW v, NEW w, IsFiniteSet(D), Numbers(v, D), Numbers(w, D), Below(v, w, D)
  PROVE  Sum(v, D) <= Sum(w, D)
<1> DEFINE Q == {s \in SUBSET D : Sum(v, s) <= Sum(w, s)}
<1>1. {} \in Q
  BY SumOfNone
<1>2. ASSUME NEW s \in SUBSET D, NEW x \in D \ s, s \in Q PROVE s \cup {x} \in Q
  <2>1. Sum(v, s \cup {x}) = v[x] + Sum(v, s) /\ v[x] \in Int /\ Sum(v, s) \in Int
    BY SumAdds
  <2>2. Sum(w, s \cup {x}) = w[x] + Sum(w, s) /\ w[x] \in Int /\ Sum(w, s) \in Int
    BY SumAdds
  <2>3. v[x] <= w[x] /\ Sum(v, s) <= Sum(w, s)
    BY <1>2 DEF Below
  <2>4. Sum(v, s \cup {x}) <= Sum(w, s \cup {x})
    BY <2>1, <2>2, <2>3
  <2> QED
    BY <2>4
<1> HIDE DEF Q
<1>3. \A s \in SUBSET D : s \in Q
  BY <1>1, <1>2, Grow
<1> QED
  BY <1>3 DEF Q

LEMMA SumIsNatural ==
  ASSUME NEW D, NEW v, IsFiniteSet(D), Naturals(v, D)
  PROVE  Sum(v, D) \in Nat
<1> DEFINE Q == {s \in SUBSET D : Sum(v, s) \in Nat}
<1>0. Numbers(v, D)
  BY DEF Numbers, Naturals
<1>1. {} \in Q
  BY SumOfNone
<1>2. ASSUME NEW s \in SUBSET D, NEW x \in D \ s, s \in Q PROVE s \cup {x} \in Q
  <2>1. Sum(v, s \cup {x}) = v[x] + Sum(v, s) /\ v[x] \in Int /\ Sum(v, s) \in Int
    BY <1>0, SumAdds
  <2>2. v[x] \in Nat /\ Sum(v, s) \in Nat
    BY <1>2 DEF Naturals
  <2>3. Sum(v, s \cup {x}) \in Nat
    BY <2>1, <2>2
  <2> QED
    BY <2>3
<1> HIDE DEF Q
<1>3. \A s \in SUBSET D : s \in Q
  BY <1>1, <1>2, Grow
<1> QED
  BY <1>3 DEF Q

\* fewer summands, a smaller sum
LEMMA SumOfPart ==
  ASSUME NEW D, NEW v, NEW K \in SUBSET D, IsFiniteSet(D), Naturals(v, D)
  PROVE  Sum(v, K) <= Sum(v, D)
<1> DEFINE Q == {s \in SUBSET D : Sum(v, s \cap K) <= Sum(v, s)}
<1>0. Numbers(v, D)
  BY DEF Numbers, Naturals
<1>1. {} \in Q
  <2>1. {} \cap K = {}
    OBVIOUS
  <2> QED
    BY <2>1, SumOfNone
<1>2. ASSUME NEW s \in SUBSET D, NEW x \in D \ s, s \in Q PROVE s \cup {x} \in Q
  <2>1. Sum(v, s \cup {x}) = v[x] + Sum(v, s) /\ v[x] \in Int /\ Sum(v, s) \in Int
    BY <1>0, SumAdds
  <2>2. v[x] \in Nat /\ Sum(v, s \cap K) <= Sum(v, s)
    BY <1>2 DEF Naturals
  <2>3. Sum(v, (s \cup {x}) \cap K) <= Sum(v, s \cup {x})
    <3>1. CASE x \in K
      <4>1. (s \cup {x}) \cap K = (s \cap K) \cup {x}
        BY <3>1
      <4>2. Sum(v, (s \cap K) \cup {x}) = v[x] + Sum(v, s \cap K) /\ Sum(v, s \cap K) \in Int
        <5>1. PICK l \in SUBSET D : l = s \cap K /\ x \in D \ l
          OBVIOUS
        <5>2. Sum(v, l \cup {x}) = v[x] + Sum(v, l) /\ Sum(v, l) \in Int
          BY <1>0, <5>1, SumAdds
        <5> QED
          BY <5>1, <5>2, Zenon
      <4>3. Sum(v, (s \cup {x}) \cap K) = v[x] + Sum(v, s \cap K)
        BY <4>1, <4>2, Zenon
      <4> QED
        BY <2>1, <2>2, <4>2, <4>3
    <3>2. CASE x \notin K
      <4>1. (s \cup {x}) \cap K = s \cap K /\ s \cap K \in SUBSET D
        BY <3>2
      <4>2. Sum(v, s \cap K) \in Int
        BY <1>0, <4>1, SumTakesOut
      <4>3. Sum(v, (s \cup {x}) \cap K) = Sum(v, s \cap K)
        BY <4>1, Zenon
      <4> QED
        BY <2>1, <2>2, <4>2, <4>3
    <3> QED
      BY <3>1, <3>2
  <2> QED
    BY <2>3
<1> HIDE DEF Q
<1>3. \A s \in SUBSET D : s \in Q
  BY <1>1, <1>2, Grow
<1>4. D \in Q /\ D \cap K = K
  BY <1>3
<1> QED
  BY <1>4 DEF Q

\* one summand changes, the sum changes with it
LEMMA SumShifts ==
  ASSUME NEW D, NEW v, NEW w, NEW x \in D, IsFiniteSet(D), Numbers(v, D), Numbers(w, D), Same(v, w, D \ {x})
  PROVE  Sum(w, D) = Sum(v, D) + w[x] - v[x]
<1>1. Sum(v, D) = v[x] + Sum(v, D \ {x}) /\ Sum(w, D) = w[x] + Sum(w, D \ {x})
  BY SumTakesOut
<1>2. Sum(v, D \ {x}) = Sum(w, D \ {x})
  BY SumOfSame
<1>3. v[x] \in Int /\ w[x] \in Int /\ Sum(v, D \ {x}) \in Int
  BY SumTakesOut DEF Numbers
<1> QED
  BY <1>1, <1>2, <1>3

LEMMA SumOfZeros ==
  ASSUME NEW D, NEW v, IsFiniteSet(D), \A k \in D : v[k] = 0
  PROVE  Sum(v, D) = 0
<1> DEFINE Q == {s \in SUBSET D : Sum(v, s) = 0}
<1>0. Numbers(v, D)
  BY DEF Numbers
<1>1. {} \in Q
  BY SumOfNone
<1>2. ASSUME NEW s \in SUBSET D, NEW x \in D \ s, s \in Q PROVE s \cup {x} \in Q
  <2>1. Sum(v, s \cup {x}) = v[x] + Sum(v, s)
    BY <1>0, SumAdds
  <2>2. Sum(v, s \cup {x}) = 0
    BY <1>2, <2>1
  <2> QED
    BY <2>2
<1> HIDE DEF Q
<1>3. \A s \in SUBSET D : s \in Q
  BY <1>1, <1>2, Grow
<1> QED
  BY <1>3 DEF Q

(***************************************************************************)
(* What is sorted into boxes is all there: the sums of the boxes add up.   *)
(***************************************************************************)
Box(K, c, b) == {k \in K : c[k] = b}
Into(c, K, B) == \A k \in K : c[k] \in B
Boxes(v, K, c, B) == [b \in B |-> Sum(v, Box(K, c, b))]

LEMMA SumOfBoxes ==
  ASSUME NEW D, NEW v, NEW c, NEW B, IsFiniteSet(D), IsFiniteSet(B), Numbers(v, D), Into(c, D, B)
  PROVE  Sum(Boxes(v, D, c, B), B) = Sum(v, D)
<1> DEFINE Q == {s \in SUBSET D : Sum(Boxes(v, s, c, B), B) = Sum(v, s)}
<1>0. \A s \in SUBSET D : Numbers(Boxes(v, s, c, B), B)
  BY SumTakesOut DEF Numbers, Boxes, Box
<1>1. {} \in Q
  <2>1. \A b \in B : Box({}, c, b) = {}
    BY DEF Box
  <2>2. \A b \in B : Boxes(v, {}, c, B)[b] = 0
    BY <2>1, SumOfNone DEF Boxes
  <2>3. Sum(Boxes(v, {}, c, B), B) = 0
    BY <2>2, SumOfZeros
  <2> QED
    BY <2>3, SumOfNone
<1>2. ASSUME NEW s \in SUBSET D, NEW x \in D \ s, s \in Q PROVE s \cup {x} \in Q
  <2>1. PICK P, R, b : P = Boxes(v, s, c, B) /\ R = Boxes(v, s \cup {x}, c, B) /\ b = c[x]
    OBVIOUS
  <2>2. Numbers(P, B) /\ Numbers(R, B) /\ b \in B
    <3>1. s \cup {x} \in SUBSET D
      OBVIOUS
    <3> QED
      BY <1>0, <2>1, <3>1 DEF Into
  <2>3. Same(P, R, B \ {b})
    <3>1. \A e \in B \ {b} : Box(s \cup {x}, c, e) = Box(s, c, e)
      BY <2>1 DEF Box
    <3> QED
      BY <2>1, <3>1 DEF Same, Boxes
  <2>4. R[b] = v[x] + P[b] /\ v[x] \in Int /\ P[b] \in Int
    <3>1. Box(s \cup {x}, c, b) = Box(s, c, b) \cup {x} /\ Box(s, c, b) \in SUBSET D /\ x \in D \ Box(s, c, b)
      BY <2>1 DEF Box
    <3>2. Sum(v, Box(s, c, b) \cup {x}) = v[x] + Sum(v, Box(s, c, b)) /\ v[x] \in Int /\ Sum(v, Box(s, c, b)) \in Int
      BY <3>1, SumAdds
    <3>3. R[b] = Sum(v, Box(s \cup {x}, c, b)) /\ P[b] = Sum(v, Box(s, c, b))
      BY <2>1, <2>2 DEF Boxes
    <3> QED
      BY <3>1, <3>2, <3>3
  <2>5. Sum(R, B) = Sum(P, B) + R[b] - P[b]
    BY <2>2, <2>3, SumShifts
  <2>6. Sum(v, s \cup {x}) = v[x] + Sum(v, s) /\ Sum(v, s) \in Int
    BY SumAdds
  <2>7. Sum(P, B) = Sum(v, s)
    BY <1>2, <2>1
  <2>8. Sum(R, B) = Sum(v, s \cup {x})
    BY <2>4, <2>5, <2>6, <2>7
  <2> QED
    BY <2>1, <2>8
<1> HIDE DEF Q
<1>3. \A s \in SUBSET D : s \in Q
  BY <1>1, <1>2, Grow
<1> QED
  BY <1>3 DEF Q

\* counting is summing ones
LEMMA SumOfOnes ==
  ASSUME NEW D, IsFiniteSet(D)
  PROVE  \A s \in SUBSET D : Sum([k \in D |-> 1], s) = Cardinality(s)
<1> DEFINE v == [k \in D |-> 1]
           Q == {s \in SUBSET D : Sum(v, s) = Cardinality(s)}
<1>0. Numbers(v, D)
  BY DEF Numbers
<1>1. {} \in Q
  BY SumOfNone, FS_EmptySet
<1>2. ASSUME NEW s \in SUBSET D, NEW x \in D \ s, s \in Q PROVE s \cup {x} \in Q
  <2>1. v[x] = 1
    OBVIOUS
  <2> HIDE DEF v
  <2>2. Sum(v, s \cup {x}) = v[x] + Sum(v, s)
    BY <1>0, SumAdds
  <2>3. IsFiniteSet(s) /\ Cardinality(s) \in Nat
    BY FS_Subset, FS_CardinalityType
  <2>4. Cardinality(s \cup {x}) = Cardinality(s) + 1
    BY <2>3, FS_AddElement
  <2>5. Sum(v, s \cup {x}) = Cardinality(s \cup {x})
    BY <1>2, <2>1, <2>2, <2>3, <2>4
  <2> QED
    BY <2>5
<1> HIDE DEF Q
<1>3. \A s \in SUBSET D : s \in Q
  BY <1>1, <1>2, Grow
<1> QED
  BY <1>3 DEF Q

Transfers(r, q, a, b, d, T) ==
  \A t \in T : q[t] = IF t = a THEN r[t] + d ELSE IF t = b THEN r[t] - d ELSE r[t]

(***************************************************************************)
(* What one gains and another loses leaves the sum alone.                  *)
(***************************************************************************)
LEMMA Transfer ==
  ASSUME NEW T, NEW r, NEW q, NEW a \in T, NEW b \in T, NEW d \in Int,
         IsFiniteSet(T), Numbers(r, T), a # b, Transfers(r, q, a, b, d, T)
  PROVE  Sum(q, T) = Sum(r, T)
<1> DEFINE u == [t \in T |-> IF t = a THEN r[t] + d ELSE r[t]]
<1>1. Numbers(u, T) /\ Numbers(q, T)
  BY DEF Numbers, Transfers
<1>2. Same(r, u, T \ {a}) /\ Same(u, q, T \ {b})
  BY DEF Same, Transfers
<1>3. u[a] = r[a] + d /\ q[b] = u[b] - d /\ r[a] \in Int /\ u[b] \in Int
  BY DEF Numbers, Transfers
<1> HIDE DEF u
<1>4. Sum(u, T) = Sum(r, T) + u[a] - r[a]
  BY <1>1, <1>2, SumShifts
<1>5. Sum(q, T) = Sum(u, T) + q[b] - u[b]
  BY <1>1, <1>2, SumShifts
<1>6. Sum(r, T) \in Int
  BY SumTakesOut
<1> QED
  BY <1>3, <1>4, <1>5, <1>6


-----------------------------------------------------------------------------
(* Scoring *)

(***************************************************************************)
(* scoring.py, "points are tiered": whatever the stage, an exact score     *)
(* earns the maximum, a mere outcome earns something but less, and a wrong *)
(* outcome nothing.                                                        *)
(***************************************************************************)
THEOREM PointsAreTiered ==
  ASSUME NEW stage
  PROVE  /\ \A correct \in BOOLEAN : MatchPoints(stage, TRUE, correct) = MaxPoints(stage)
         /\ 0 < MatchPoints(stage, FALSE, TRUE)
         /\ MatchPoints(stage, FALSE, TRUE) < MaxPoints(stage)
         /\ MatchPoints(stage, FALSE, FALSE) = 0
<1>1. Listed(stage) \in Stages
  BY DEF Listed, Stages
<1>2. /\ OutcomePoints[Listed(stage)] \in Nat /\ ExactPoints[Listed(stage)] \in Nat
      /\ 0 < OutcomePoints[Listed(stage)]
      /\ OutcomePoints[Listed(stage)] < ExactPoints[Listed(stage)]
  BY <1>1 DEF OutcomePoints, ExactPoints, Stages
<1> QED
  BY <1>2 DEF MatchPoints, MaxPoints

(***************************************************************************)
(* An exact hit is a correct outcome without goal error, so the tiers nest.*)
(***************************************************************************)
THEOREM ExactIsCorrect ==
  ASSUME NEW pred, NEW result, pred.home \in Nat, pred.away \in Nat, ExactHit(pred, result)
  PROVE  OutcomeCorrect(pred, result) /\ GoalsAbsError(pred, result) = 0
BY DEF ExactHit, OutcomeCorrect, OutcomeOf, Outcome, GoalsAbsError, Gap

(***************************************************************************)
(* grading_service.py has two ways to a result, the provider's answer and  *)
(* the stored row; a prediction is marked against the same result on both. *)
(***************************************************************************)
THEOREM StoredLikeFresh ==
  ASSUME NEW dto, NEW home, NEW away, NEW nobody,
         home # away, nobody \notin {home, away},
         dto.advanced \in {"home", "away", "none"}
  PROVE  StoredToMetricResult(ToValues(dto, home, away, nobody), home, away) = ToMetricResult(dto)
BY DEF StoredToMetricResult, ToValues, ToMetricResult, SideOf

-----------------------------------------------------------------------------
(* Estimators *)

LEMMA RoundIsNat ==
  ASSUME NEW num \in Int, NEW den \in Nat \ {0}
  PROVE  Capped(num, den) \in 0..MaxGoals
<1>1. num >= 0 => (2 * num + den) \div (2 * den) \in Nat
  OBVIOUS
<1>2. Round(num, den) \in Nat
  BY <1>1 DEF Round
<1> QED
  BY <1>2 DEF Capped, Smallest, MaxGoals

(***************************************************************************)
(* elo.py and market.py bend a rounded scoreline until it means the        *)
(* outcome the probabilities favour: it always does, within 0 to 8 goals.  *)
(***************************************************************************)
THEOREM ScorelineMeansOutcome ==
  ASSUME NEW o \in {"home", "draw", "away"}, NEW nh \in Int, NEW na \in Int, NEW den \in Nat \ {0}
  PROVE  LET s == ConsistentScoreline(o, nh, na, den) IN
           /\ OutcomeOf(s) = o
           /\ s.home \in 0..MaxGoals /\ s.away \in 0..MaxGoals
<1> DEFINE h == Capped(nh, den)
           a == Capped(na, den)
           g == Capped(nh + na, 2 * den)
<1>1. h \in 0..8 /\ a \in 0..8 /\ g \in 0..8
  <2>1. 2 * den \in Nat \ {0} /\ nh + na \in Int
    OBVIOUS
  <2> QED
    BY <2>1, RoundIsNat DEF MaxGoals
<1>2. ConsistentScoreline(o, nh, na, den) =
        IF o = "home" THEN [home |-> Biggest(h, 1), away |-> Smallest(a, Biggest(h, 1) - 1)]
        ELSE IF o = "away" THEN [home |-> Smallest(h, Biggest(a, 1) - 1), away |-> Biggest(a, 1)]
        ELSE [home |-> g, away |-> g]
  BY DEF ConsistentScoreline
<1> HIDE DEF h, a, g
<1> QED
  BY <1>1, <1>2 DEF OutcomeOf, Outcome, Biggest, Smallest, MaxGoals

(***************************************************************************)
(* The draw band of predict_elo takes half of its width from either side   *)
(* and is never wide enough: the Elo estimator does not predict draws,     *)
(* although it keeps a probability, a case and a scoreline for them.       *)
(***************************************************************************)
THEOREM EloNeverDraws ==
  ASSUME NEW we \in 0..1000
  PROVE  EloOutcome(we) = (IF we >= 500 THEN "home" ELSE "away")
<1> DEFINE gap  == Gap(2 * we, 1000)
           draw == 28 * (1000 - gap)
           home == Biggest(0, 100 * we - draw \div 2)
           away == Biggest(0, 100 * (1000 - we) - draw \div 2)
<1>1. gap \in Nat /\ gap = IF we >= 500 THEN 2 * we - 1000 ELSE 1000 - 2 * we
  BY DEF Gap
<1>2. draw \in Int /\ draw \div 2 = 14 * (1000 - gap)
  BY <1>1
<1>3. EloOutcome(we) = MostLikely(home, draw, away)
  BY DEF EloOutcome
<1>4. CASE we >= 500
  <2>1. draw = 56000 - 56 * we /\ draw \div 2 = 28000 - 28 * we
    BY <1>1, <1>2, <1>4
  <2>2. home = 128 * we - 28000 /\ away = Biggest(0, 72000 - 72 * we)
    BY <2>1, <1>4 DEF Biggest
  <2>3. home >= draw /\ home >= away
    BY <2>1, <2>2, <1>4 DEF Biggest
  <2> QED
    BY <2>3, <1>3, <1>4 DEF MostLikely
<1>5. CASE ~ (we >= 500)
  <2>1. draw = 56 * we /\ draw \div 2 = 28 * we
    BY <1>1, <1>2, <1>5
  <2>2. home = Biggest(0, 72 * we) /\ away = 100000 - 128 * we
    BY <2>1, <1>5 DEF Biggest
  <2>3. away > draw /\ away > home
    BY <2>1, <2>2, <1>5 DEF Biggest
  <2>4. home \in Int /\ draw \in Int /\ away \in Int
    BY <2>1, <2>2 DEF Biggest
  <2> QED
    BY <2>3, <2>4, <1>3, <1>5 DEF MostLikely
<1> QED
  BY <1>4, <1>5

(***************************************************************************)
(* ORDER BY kickoff leaves simultaneous matches in any order; they have    *)
(* different teams, and replaying two such matches in either order gives   *)
(* the same Elo ratings, whatever the win expectancy.                      *)
(***************************************************************************)
THEOREM UpdatesCommute ==
  ASSUME NEW r, NEW m, NEW n, {m.home, m.away} \cap {n.home, n.away} = {},
         m.home \in Team, m.away \in Team, n.home \in Team, n.away \in Team
  PROVE  Update(Update(r, m), n) = Update(Update(r, n), m)
<1>1. m.home # n.home /\ m.home # n.away /\ m.away # n.home /\ m.away # n.away
  OBVIOUS
<1>2. Delta(Update(r, m), n) = Delta(r, n)
  <2>1. Update(r, m)[n.home] = r[n.home] /\ Update(r, m)[n.away] = r[n.away]
    BY <1>1 DEF Update
  <2> QED
    BY <2>1 DEF Delta
<1>3. Delta(Update(r, n), m) = Delta(r, m)
  <2>1. Update(r, n)[m.home] = r[m.home] /\ Update(r, n)[m.away] = r[m.away]
    BY <1>1 DEF Update
  <2> QED
    BY <2>1 DEF Delta
<1> QED
  BY <1>1, <1>2, <1>3 DEF Update

-----------------------------------------------------------------------------
(* Forecasts depend on nothing but the earlier scores *)

SameScores(K, score, other) ==
  \A g \in K : score[g].home = other[g].home /\ score[g].away = other[g].away

LEMMA SameResults ==
  ASSUME NEW K, NEW score, NEW other, SameScores(K, score, other)
  PROVE  Results(K, score) = Results(K, other)
<1>1. \A g \in K : Played(g, score[g]) = Played(g, other[g])
  BY DEF SameScores, Played
<1> QED
  BY <1>1 DEF Results

History(s, score) == [k \in DOMAIN s |-> Played(s[k], score[s[k]])]

LEMMA SameRatings ==
  ASSUME NEW K, NEW score, NEW other, SameScores(K, score, other)
  PROVE  RatingsFrom(K, score) = RatingsFrom(K, other)
<1>1. \A s \in KickoffOrders(K) : History(s, score) = History(s, other)
  <2>1. TAKE s \in KickoffOrders(K)
  <2>2. \A k \in DOMAIN s : s[k] \in K
    BY DEF KickoffOrders, SetToSeqs
  <2>3. \A k \in DOMAIN s : Played(s[k], score[s[k]]) = Played(s[k], other[s[k]])
    BY <2>2 DEF SameScores, Played
  <2> QED
    BY <2>3 DEF History
<1>2. /\ RatingsFrom(K, score) = {Ratings(History(s, score)) : s \in KickoffOrders(K)}
      /\ RatingsFrom(K, other) = {Ratings(History(s, other)) : s \in KickoffOrders(K)}
  BY DEF RatingsFrom, History
<1> QED
  BY <1>1, <1>2

LEMMA SameForecast ==
  ASSUME NEW m, NEW f, NEW K, NEW score, NEW other, SameScores(K, score, other)
  PROVE  ForecastFrom(m, f, K, score) = ForecastFrom(m, f, K, other)
<1>1. Results(K, score) = Results(K, other)
  BY SameResults
<1>2. RatingsFrom(K, score) = RatingsFrom(K, other)
  BY SameRatings
<1>3. Scoreline(m, f, K, score) = Scoreline(m, f, K, other)
  BY <1>1, <1>2, Zenon DEF Scoreline
<1> QED
  BY <1>3, Zenon DEF ForecastFrom


-----------------------------------------------------------------------------
(* Scores: when a match has one, and what is stored of it *)

LEMMA InitScores == SInit => ScoresSound
BY DEF SInit, ScoresSound, ScoresAreFinal, OnlyFinalsGraded, Final

\* steps that touch neither matches nor results, and take no Grade on
LEMMA QuietScores ==
  ASSUME ScoresSound, UNCHANGED <<status, truth, stored>>,
         \A f \in Fixture, m \in Model : grade'[f][m] # Nothing => grade[f][m] # Nothing
  PROVE  ScoresSound'
BY DEF ScoresSound, ScoresAreFinal, OnlyFinalsGraded, Final

LEMMA PostponeScores ==
  ASSUME ScoresSound, NEW f \in Fixture, Postpone(f)
  PROVE  ScoresSound'
BY DEF ScoresSound, ScoresAreFinal, OnlyFinalsGraded, Final, Postpone

LEMMA FinishScores ==
  ASSUME ScoresSound, NEW f \in Fixture, Finish(f)
  PROVE  ScoresSound'
BY SeasonAssumption DEF ScoresSound, ScoresAreFinal, OnlyFinalsGraded, Final, Finish

LEMMA GradeScores ==
  ASSUME ScoresSound, NEW f \in Fixture, Grade(f)
  PROVE  ScoresSound'
<1> USE DEF ScoresSound, ScoresAreFinal, OnlyFinalsGraded
<1>1. CASE /\ status[f] = "postponed"
           /\ stored' = [stored EXCEPT ![f] = Voided(f)]
           /\ UNCHANGED grade
  <2>1. UNCHANGED <<status, truth>>
    BY DEF Grade
  <2>2. ~ Final(f)
    BY <1>1
  <2>3. \A g \in Fixture : stored'[g] = IF g = f THEN Voided(f) ELSE stored[g]
    BY <1>1
  <2>4. \A g \in Fixture : Final(g)' => g # f /\ Final(g) /\ stored'[g] = stored[g]
    BY <2>3 DEF Final, Voided
  <2>5. \A g \in Fixture : Final(g) => Final(g)'
    BY <2>2, <2>3 DEF Final
  <2>6. DOMAIN stored' = Fixture
    BY <1>1
  <2> QED
    BY <1>1, <2>1, <2>4, <2>5, <2>6
<1>2. CASE /\ status[f] # "postponed" /\ Ungraded(f) # {} /\ Final(f)
           /\ grade' = Graded(f, StoredToMetricResult(stored[f], Home[f], Away[f]))
           /\ UNCHANGED stored
  <2>1. UNCHANGED <<status, truth>>
    BY DEF Grade
  <2>2. \A g \in Fixture : Final(g)' <=> Final(g)
    BY <1>2 DEF Final
  <2>3. \A g \in Fixture, m \in Model : g # f => grade'[g][m] = grade[g][m]
    BY <1>2 DEF Graded
  <2> QED
    BY <1>2, <2>1, <2>2, <2>3
<1>3. CASE /\ status[f] # "postponed" /\ Ungraded(f) # {} /\ ~ Final(f) /\ truth[f] # Nothing
           /\ stored' = [stored EXCEPT ![f] = ToValues(truth[f], Home[f], Away[f], Nobody)]
           /\ grade' = Graded(f, ToMetricResult(truth[f]))
  <2>1. UNCHANGED <<status, truth>>
    BY DEF Grade
  <2>2. truth[f] \in Truths
    BY <1>3
  <2>3. \A g \in Fixture : stored'[g] = IF g = f THEN ToValues(truth[f], Home[f], Away[f], Nobody) ELSE stored[g]
    BY <1>3
  <2>4. ToValues(truth[f], Home[f], Away[f], Nobody) # Nothing
    BY <2>2, SeasonAssumption
  <2>5. ToValues(truth[f], Home[f], Away[f], Nobody).status = "final"
    BY DEF ToValues
  <2>6. /\ Final(f)'
        /\ \A g \in Fixture : g # f => (Final(g)' <=> Final(g))
    BY <2>3, <2>4, <2>5 DEF Final
  <2>7. \A g \in Fixture, m \in Model : g # f => grade'[g][m] = grade[g][m]
    BY <1>3 DEF Graded
  <2>8. DOMAIN stored' = Fixture
    BY <1>3
  <2> QED
    BY <1>3, <2>1, <2>3, <2>6, <2>7, <2>8
<1> QED
  BY <1>1, <1>2, <1>3 DEF Grade

LEMMA NextScores == ScoresSound /\ [SNext]_svars => ScoresSound'
<1> SUFFICES ASSUME ScoresSound, [SNext]_svars PROVE ScoresSound'
  OBVIOUS
<1>1. CASE Tick
  BY <1>1, QuietScores DEF Tick
<1>2. CASE Refresh
  <2>1. UNCHANGED <<status, truth, stored>> /\ grade' = Ungrade(Statistical)
    BY <1>2 DEF Refresh
  <2>2. \A f \in Fixture, m \in Model : grade'[f][m] # Nothing => grade[f][m] # Nothing
    BY <2>1 DEF Ungrade
  <2> QED
    BY <2>1, <2>2, QuietScores
<1>3. CASE CliPoisson
  <2>1. PICK count \in Counts, S \in SUBSET Fixture :
          grade' = [f \in Fixture |->
            [m \in Model |-> IF m = "poisson" \/ (f \in S /\ m = "seed") THEN Nothing ELSE grade[f][m]]]
    BY <1>3 DEF CliPoisson
  <2>2. \A f \in Fixture, m \in Model : grade'[f][m] # Nothing => grade[f][m] # Nothing
    BY <2>1
  <2> QED
    BY <1>3, <2>2, QuietScores DEF CliPoisson
<1>4. CASE Market
  BY <1>4, QuietScores DEF Market
<1>5. CASE SeedDemo
  BY <1>5, QuietScores DEF SeedDemo
<1>6. ASSUME NEW f \in Fixture, Ask(f) PROVE ScoresSound'
  BY <1>6, QuietScores DEF Ask
<1>7. ASSUME NEW f \in Fixture, Batch(f) PROVE ScoresSound'
  BY <1>7, QuietScores DEF Batch
<1>8. CASE UNCHANGED svars
  BY <1>8, QuietScores DEF svars
<1> QED
  BY <1>1, <1>2, <1>3, <1>4, <1>5, <1>6, <1>7, <1>8, PostponeScores, FinishScores, GradeScores DEF SNext

(***************************************************************************)
(* Through postponements, voids, replays and rewritten forecasts: only a   *)
(* finished match has a score, its final result stays what was played, and *)
(* only matches with a final result carry Grades.                          *)
(***************************************************************************)
THEOREM ScoresStaySound == SSpec => []ScoresSound
BY InitScores, NextScores, PTL DEF SSpec

-----------------------------------------------------------------------------
(* As-of forecasts *)

Earlier(f) == {g \in Fixture : Kickoff[g] < Kickoff[f] /\ truth[g] # Nothing}

AsOf(m, f) == \E K \in SUBSET Earlier(f) : row[f][m] = ForecastFrom(m, f, K, truth)

LEMMA AsOfRows == ForecastsAreAsOf <=> \A f \in Fixture, m \in Baselines : row[f][m] # Nothing => AsOf(m, f)
BY DEF ForecastsAreAsOf, AsOf, Earlier

\* a baseline computed now is an as-of forecast
LEMMA FreshIsAsOf ==
  ASSUME ScoresSound, NEW f \in Fixture, NEW m \in Baselines
  PROVE  \E K \in SUBSET Earlier(f) : BaselineRow(m, f) = ForecastFrom(m, f, K, truth)
<1>1. Prior(f) \in SUBSET Earlier(f)
  BY DEF Prior, Earlier, ScoresSound, ScoresAreFinal
<1>2. SameScores(Prior(f), stored, truth)
  BY DEF Prior, SameScores, ScoresSound, ScoresAreFinal, ToValues
<1>3. ForecastFrom(m, f, Prior(f), stored) = ForecastFrom(m, f, Prior(f), truth)
  BY <1>2, SameForecast, Zenon
<1> QED
  BY <1>1, <1>3, Zenon DEF BaselineRow

(* The seed script only adds rows where no prediction is. *)
LEMMA SeedsAreNew ==
  ASSUME SeedDemo
  PROVE  \E S \in SUBSET Fixture :
           /\ \A f \in S : OkRows(f) = {}
           /\ row' = [f \in Fixture |-> [m \in Model |->
                IF m = "seed" /\ f \in S THEN AnswerRow(f, Demo, FALSE) ELSE row[f][m]]]
<1>1. PICK seen \in SUBSET Fixture :
        row' = [f \in Fixture |-> [m \in Model |->
          IF m = "seed" /\ f \in {g \in seen : OkRows(g) = {}} THEN AnswerRow(f, Demo, FALSE) ELSE row[f][m]]]
  <2>1. PICK count \in Counts, next \in SUBSET Fixture :
          row' = [f \in Fixture |-> [m \in Model |->
            IF m = "seed" /\ f \in {g \in next \cup {h \in Fixture : status[h] = "finished"} : OkRows(g) = {}}
            THEN AnswerRow(f, Demo, FALSE) ELSE row[f][m]]]
    BY DEF SeedDemo
  <2>2. next \cup {h \in Fixture : status[h] = "finished"} \in SUBSET Fixture
    OBVIOUS
  <2> QED
    BY <2>1, <2>2
<1> DEFINE S == {g \in seen : OkRows(g) = {}}
<1>2. S \in SUBSET Fixture /\ \A f \in S : OkRows(f) = {}
  OBVIOUS
<1>3. row' = [f \in Fixture |-> [m \in Model |->
        IF m = "seed" /\ f \in S THEN AnswerRow(f, Demo, FALSE) ELSE row[f][m]]]
  BY <1>1
<1> HIDE DEF S
<1> QED
  BY <1>2, <1>3

\* scores once played stay, so a forecast stays as-of
LEMMA KeptIsAsOf ==
  ASSUME NEW f \in Fixture, NEW m \in Baselines, AsOf(m, f), row'[f][m] = row[f][m],
         \A g \in Fixture : truth[g] # Nothing => truth'[g] = truth[g]
  PROVE  AsOf(m, f)'
<1>1. PICK K \in SUBSET Earlier(f) : row[f][m] = ForecastFrom(m, f, K, truth)
  BY DEF AsOf
<1>2. K \in SUBSET Earlier(f)'
  BY DEF Earlier
<1>3. SameScores(K, truth, truth')
  BY DEF SameScores, Earlier
<1>4. ForecastFrom(m, f, K, truth) = ForecastFrom(m, f, K, truth')
  BY <1>3, SameForecast, Zenon
<1>5. row'[f][m] = ForecastFrom(m, f, K, truth')
  BY <1>1, <1>4
<1> QED
  BY <1>2, <1>5 DEF AsOf

\* a step that keeps the scores and computes every baseline it changes
LEMMA RowsStayAsOf ==
  ASSUME ScoresSound, ForecastsAreAsOf, UNCHANGED truth,
         \A f \in Fixture, m \in Baselines : row'[f][m] = row[f][m] \/ row'[f][m] = BaselineRow(m, f)
  PROVE  ForecastsAreAsOf'
<1>1. ASSUME NEW f \in Fixture, NEW m \in Baselines, row'[f][m] # Nothing
      PROVE  AsOf(m, f)'
  <2>1. CASE row'[f][m] = row[f][m]
    BY <1>1, <2>1, AsOfRows, KeptIsAsOf
  <2>2. CASE row'[f][m] = BaselineRow(m, f)
    <3>1. PICK K \in SUBSET Earlier(f) : BaselineRow(m, f) = ForecastFrom(m, f, K, truth)
      BY FreshIsAsOf
    <3>2. Earlier(f)' = Earlier(f)
      BY DEF Earlier
    <3>3. row'[f][m] = ForecastFrom(m, f, K, truth')
      BY <2>2, <3>1
    <3> QED
      BY <3>2, <3>3 DEF AsOf
  <2> QED
    BY <2>1, <2>2
<1> QED
  BY <1>1 DEF ForecastsAreAsOf, AsOf, Earlier

LEMMA NextAsOf == ScoresSound /\ ForecastsAreAsOf /\ [SNext]_svars => ForecastsAreAsOf'
<1> SUFFICES ASSUME ScoresSound, ForecastsAreAsOf, [SNext]_svars PROVE ForecastsAreAsOf'
  OBVIOUS
<1> DEFINE Computed == \A f \in Fixture, m \in Baselines : row'[f][m] = row[f][m] \/ row'[f][m] = BaselineRow(m, f)
<1>1. CASE UNCHANGED <<row, truth>>
  BY <1>1, RowsStayAsOf
<1>2. CASE Refresh
  <2>1. PICK cap \in Caps, S \in SUBSET Fixture :
          row' = [f \in Fixture |-> [m \in Model |-> IF f \in S /\ m \in Baselines
                                                     THEN BaselineRow(m, f) ELSE row[f][m]]]
    BY <1>2 DEF Refresh
  <2>2. Computed
    BY <2>1 DEF Baselines, Model, Statistical
  <2> QED
    BY <1>2, <2>2, RowsStayAsOf DEF Refresh
<1>3. CASE CliPoisson
  <2>1. PICK count \in Counts, S \in SUBSET Fixture :
          row' = [f \in Fixture |->
            [m \in Model |-> CASE f \in S /\ m = "seed"    -> Nothing
                               [] f \in S /\ m = "poisson" -> BaselineRow(m, f)
                               [] OTHER -> row[f][m]]]
    BY <1>3 DEF CliPoisson
  <2>2. Computed
    BY <2>1 DEF Baselines, Model, Statistical
  <2> QED
    BY <1>3, <2>2, RowsStayAsOf DEF CliPoisson
<1>4. CASE Market
  <2>1. PICK feed \in Feeds, cap \in Caps, S \in SUBSET Fixture :
          row' = [f \in Fixture |-> [m \in Model |->
            IF m = "market" /\ f \in S /\ EventFor(feed, f) # {}
            THEN MarketRow(feed, One(EventFor(feed, f)), f) ELSE row[f][m]]]
    BY <1>4 DEF Market
  <2>2. Computed
    BY <2>1 DEF Baselines, Model, Statistical
  <2> QED
    BY <1>4, <2>2, RowsStayAsOf DEF Market
<1>5. CASE SeedDemo
  <2>1. PICK S \in SUBSET Fixture :
          /\ \A f \in S : OkRows(f) = {}
          /\ row' = [f \in Fixture |-> [m \in Model |->
               IF m = "seed" /\ f \in S THEN AnswerRow(f, Demo, FALSE) ELSE row[f][m]]]
    BY <1>5, SeedsAreNew
  <2>2. Computed
    BY <2>1 DEF Baselines, Model, Statistical
  <2> QED
    BY <1>5, <2>2, RowsStayAsOf DEF SeedDemo
<1>6. ASSUME NEW f \in Fixture, NEW m \in {"llm", "batch"}, NEW r, Put(f, m, r), UNCHANGED truth
      PROVE  ForecastsAreAsOf'
  <2>1. row' = [g \in Fixture |-> [n \in Model |-> IF g = f /\ n = m THEN r ELSE row[g][n]]]
    BY <1>6 DEF Put
  <2>2. Computed
    BY <2>1 DEF Baselines, Model, Statistical
  <2> QED
    BY <1>6, <2>2, RowsStayAsOf
<1>7. ASSUME NEW f \in Fixture, Ask(f) PROVE ForecastsAreAsOf'
  BY <1>6, <1>7 DEF Ask
<1>8. ASSUME NEW f \in Fixture, Batch(f) PROVE ForecastsAreAsOf'
  BY <1>6, <1>8 DEF Batch
<1>9. ASSUME NEW f \in Fixture, Finish(f) PROVE ForecastsAreAsOf'
  <2>1. UNCHANGED row /\ \A g \in Fixture : truth[g] # Nothing => truth'[g] = truth[g]
    BY <1>9 DEF Finish, ScoresSound, ScoresAreFinal
  <2>2. \A g \in Fixture, m \in Baselines : row'[g][m] # Nothing => AsOf(m, g)'
    BY <2>1, AsOfRows, KeptIsAsOf
  <2> QED
    BY <2>2 DEF ForecastsAreAsOf, AsOf, Earlier
<1>10. ASSUME NEW f \in Fixture, Postpone(f) \/ Grade(f) PROVE UNCHANGED <<row, truth>>
  BY <1>10 DEF Postpone, Grade
<1>11. Tick \/ UNCHANGED svars => UNCHANGED <<row, truth>>
  BY DEF Tick, svars
<1> QED
  BY <1>1, <1>2, <1>3, <1>4, <1>5, <1>7, <1>8, <1>9, <1>10, <1>11 DEF SNext

(***************************************************************************)
(* No baseline ever leaks the future: what it shows for a match follows    *)
(* from true scores of matches that kicked off earlier.                    *)
(***************************************************************************)
THEOREM NoHindsight == SSpec => []ForecastsAreAsOf
<1>1. SInit => ForecastsAreAsOf
  BY DEF SInit, ForecastsAreAsOf, Baselines, Model, Statistical
<1> QED
  BY <1>1, ScoresStaySound, NextAsOf, PTL DEF SSpec

-----------------------------------------------------------------------------
(* Grades *)

Right(f, m) == GradeIsRight(f, m) \/ (m = "batch" /\ row[f][m].backfill /\ <<f, m>> \notin Evidence)

LEMMA RightGrades ==
  GradesAreRight <=> \A f \in Fixture, m \in Model : grade[f][m] # Nothing /\ Final(f) => Right(f, m)
BY DEF GradesAreRight, Right

\* Right only looks at the row, the Grade and the result of its fixture
LEMMA KeptIsRight ==
  ASSUME NEW f, NEW m, Right(f, m),
         row'[f][m] = row[f][m], grade'[f][m] = grade[f][m], stored'[f] = stored[f]
  PROVE  Right(f, m)'
<1>1. GradeIsRight(f, m) => GradeIsRight(f, m)'
  BY DEF GradeIsRight, MarkOf
<1>2. <<f, m>> \notin Evidence => <<f, m>> \notin Evidence'
  BY DEF Evidence, Marked, Final
<1> QED
  BY <1>1, <1>2 DEF Right

\* a step that keeps results and the rows that keep a Grade
LEMMA RowsStayRight ==
  ASSUME GradesAreRight, UNCHANGED stored,
         \A f \in Fixture, m \in Model : grade'[f][m] # Nothing /\ Final(f) =>
           row'[f][m] = row[f][m] /\ grade'[f][m] = grade[f][m]
  PROVE  GradesAreRight'
<1>1. ASSUME NEW f \in Fixture, NEW m \in Model, grade'[f][m] # Nothing, Final(f)'
      PROVE  Right(f, m)'
  <2>1. Final(f)
    BY <1>1 DEF Final
  <2>2. row'[f][m] = row[f][m] /\ grade'[f][m] = grade[f][m]
    BY <1>1, <2>1
  <2>3. Right(f, m)
    BY <1>1, <2>1, <2>2, RightGrades
  <2> QED
    BY <2>2, <2>3, KeptIsRight
<1> QED
  BY <1>1 DEF GradesAreRight, Right

\* a prediction for a match that has no final result, or a batch after the match
LEMMA PutStaysRight ==
  ASSUME ScoresSound, GradesAreRight, NEW f \in Fixture, NEW m \in {"llm", "batch"}, NEW r,
         Put(f, m, r), UNCHANGED <<stored, grade>>,
         Final(f) => m = "batch" /\ r.backfill
  PROVE  GradesAreRight'
<1>1. row' = [g \in Fixture |-> [n \in Model |-> IF g = f /\ n = m THEN r ELSE row[g][n]]]
  BY DEF Put
<1>2. m \in Model
  BY DEF Model, Llm
<1>3. ASSUME NEW g \in Fixture, NEW n \in Model, grade'[g][n] # Nothing, Final(g)'
      PROVE  Right(g, n)'
  <2>1. Final(g) /\ Right(g, n)
    BY <1>3, RightGrades DEF Final
  <2>2. CASE g = f /\ n = m
    <3>1. row'[g][n] = r /\ n = "batch" /\ r.backfill
      BY <1>1, <1>2, <2>1, <2>2
    <3>2. <<g, n>> \notin Evidence'
      BY <3>1 DEF Evidence
    <3> QED
      BY <3>1, <3>2 DEF Right
  <2>3. CASE ~ (g = f /\ n = m)
    <3>1. row'[g][n] = row[g][n]
      BY <1>1, <2>3
    <3> QED
      BY <2>1, <3>1, KeptIsRight
  <2> QED
    BY <2>2, <2>3
<1> QED
  BY <1>3 DEF GradesAreRight, Right

LEMMA FailedOrNot ==
  ASSUME NEW f, NEW out, NEW b
  PROVE  AnswerRow(f, out, b).backfill = b
BY DEF AnswerRow

LEMMA BatchStaysRight ==
  ASSUME ScoresSound, GradesAreRight, NEW f \in Fixture, Batch(f)
  PROVE  GradesAreRight'
<1>1. PICK out \in AnswersTo(f) : Put(f, "batch", AnswerRow(f, out, status[f] = "finished"))
  BY DEF Batch
<1>2. Final(f) => AnswerRow(f, out, status[f] = "finished").backfill
  BY FailedOrNot DEF ScoresSound, ScoresAreFinal
<1>3. UNCHANGED <<stored, grade>>
  BY DEF Batch
<1> QED
  BY <1>1, <1>2, <1>3, PutStaysRight

LEMMA AskStaysRight ==
  ASSUME ScoresSound, GradesAreRight, NEW f \in Fixture, Ask(f)
  PROVE  GradesAreRight'
<1>1. PICK out \in AnswersTo(f) : Put(f, "llm", AnswerRow(f, out, FALSE))
  BY DEF Ask
<1>2. ~ Final(f)
  BY DEF Ask, Upcoming, ScoresSound, ScoresAreFinal
<1>3. UNCHANGED <<stored, grade>>
  BY DEF Ask
<1> QED
  BY <1>1, <1>2, <1>3, PutStaysRight

\* marking every ungraded row of a fixture against its result
LEMMA MarkingIsRight ==
  ASSUME GradesAreRight, OnlyFinalsGraded, NEW f \in Fixture, NEW result,
         grade' = Graded(f, result), UNCHANGED row,
         \A g \in Fixture : g # f => stored'[g] = stored[g],
         Final(f) => stored'[f] = stored[f],
         result = StoredToMetricResult(stored'[f], Home[f], Away[f])
  PROVE  GradesAreRight'
<1>1. \A g \in Fixture, m \in Model :
        grade'[g][m] = IF g = f /\ m \in Ungraded(f) THEN MarkOf(f, m, result) ELSE grade[g][m]
  BY DEF Graded
<1>2. ASSUME NEW g \in Fixture, NEW m \in Model, grade'[g][m] # Nothing, Final(g)'
      PROVE  Right(g, m)'
  <2>1. CASE g = f /\ m \in Ungraded(f)
    <3>1. row'[f][m] # Nothing /\ row'[f][m].ok
      BY <2>1 DEF Ungraded, OkRows
    <3>2. grade'[f][m] = MarkOf(f, m, StoredToMetricResult(stored'[f], Home[f], Away[f]))
      BY <1>1, <2>1
    <3>3. MarkOf(f, m, StoredToMetricResult(stored'[f], Home[f], Away[f]))
            = MarkOf(f, m, StoredToMetricResult(stored[f], Home[f], Away[f]))'
      BY DEF MarkOf
    <3> QED
      BY <2>1, <3>1, <3>2, <3>3 DEF Right, GradeIsRight
  <2>2. CASE ~ (g = f /\ m \in Ungraded(f))
    <3>1. grade'[g][m] = grade[g][m]
      BY <1>1, <2>2
    <3>2. Final(g)
      BY <1>2, <3>1 DEF OnlyFinalsGraded
    <3>3. stored'[g] = stored[g]
      BY <3>2
    <3>4. Right(g, m)
      BY <1>2, <3>1, <3>2, RightGrades
    <3> QED
      BY <3>1, <3>3, <3>4, KeptIsRight
  <2> QED
    BY <2>1, <2>2
<1> QED
  BY <1>2 DEF GradesAreRight, Right

LEMMA GradeStaysRight ==
  ASSUME ScoresSound, GradesAreRight, NEW f \in Fixture, Grade(f)
  PROVE  GradesAreRight'
<1> USE DEF ScoresSound
<1>0. UNCHANGED row
  BY DEF Grade
<1>1. CASE status[f] = "postponed" /\ stored' = [stored EXCEPT ![f] = Voided(f)] /\ UNCHANGED grade
  <2>1. \A g \in Fixture : Final(g)' => g # f /\ stored'[g] = stored[g]
    BY <1>1 DEF Final, Voided
  <2>2. ASSUME NEW g \in Fixture, NEW m \in Model, grade'[g][m] # Nothing, Final(g)'
        PROVE  Right(g, m)'
    <3>1. stored'[g] = stored[g] /\ grade'[g][m] = grade[g][m] /\ row'[g][m] = row[g][m]
      BY <1>0, <1>1, <2>1, <2>2
    <3>2. Right(g, m)
      BY <2>2, <3>1, RightGrades DEF Final
    <3> QED
      BY <3>1, <3>2, KeptIsRight
  <2> QED
    BY <2>2 DEF GradesAreRight, Right
<1>2. CASE /\ grade' = Graded(f, StoredToMetricResult(stored[f], Home[f], Away[f]))
           /\ UNCHANGED stored
  BY <1>0, <1>2, MarkingIsRight
<1>3. CASE /\ ~ Final(f) /\ truth[f] # Nothing
           /\ stored' = [stored EXCEPT ![f] = ToValues(truth[f], Home[f], Away[f], Nobody)]
           /\ grade' = Graded(f, ToMetricResult(truth[f]))
  <2>1. stored'[f] = ToValues(truth[f], Home[f], Away[f], Nobody)
    BY <1>3
  <2>2. \A g \in Fixture : g # f => stored'[g] = stored[g]
    BY <1>3
  <2>3. truth[f].advanced \in {"home", "away", "none"}
    BY <1>3, SeasonAssumption DEF ScoresAreFinal
  <2>4. Home[f] # Away[f] /\ Nobody \notin {Home[f], Away[f]}
    BY SeasonAssumption
  <2>5. StoredToMetricResult(ToValues(truth[f], Home[f], Away[f], Nobody), Home[f], Away[f])
          = ToMetricResult(truth[f])
    BY <2>3, <2>4, StoredLikeFresh
  <2> QED
    BY <1>0, <1>3, <2>1, <2>2, <2>5, MarkingIsRight
<1> QED
  BY <1>1, <1>2, <1>3 DEF Grade

LEMMA NextRight == ScoresSound /\ GradesAreRight /\ [SNext]_svars => GradesAreRight'
<1> SUFFICES ASSUME ScoresSound, GradesAreRight, [SNext]_svars PROVE GradesAreRight'
  OBVIOUS
<1> DEFINE Kept == \A f \in Fixture, m \in Model : grade'[f][m] # Nothing /\ Final(f) =>
                     row'[f][m] = row[f][m] /\ grade'[f][m] = grade[f][m]
<1>1. CASE UNCHANGED <<row, grade, stored>>
  BY <1>1, RowsStayRight
<1>2. CASE Refresh
  <2>1. PICK cap \in Caps, S \in SUBSET Fixture :
          row' = [f \in Fixture |-> [m \in Model |-> IF f \in S /\ m \in Baselines
                                                     THEN BaselineRow(m, f) ELSE row[f][m]]]
    BY <1>2 DEF Refresh
  <2>2. grade' = Ungrade(Statistical) /\ UNCHANGED stored
    BY <1>2 DEF Refresh
  <2>3. Kept
    BY <2>1, <2>2 DEF Ungrade, Statistical
  <2> QED
    BY <2>2, <2>3, RowsStayRight
<1>3. CASE CliPoisson
  <2>1. PICK count \in Counts, S \in SUBSET Fixture :
          /\ row' = [f \in Fixture |->
               [m \in Model |-> CASE f \in S /\ m = "seed"    -> Nothing
                                  [] f \in S /\ m = "poisson" -> BaselineRow(m, f)
                                  [] OTHER -> row[f][m]]]
          /\ grade' = [f \in Fixture |->
               [m \in Model |-> IF m = "poisson" \/ (f \in S /\ m = "seed") THEN Nothing ELSE grade[f][m]]]
    BY <1>3 DEF CliPoisson
  <2>2. Kept
    BY <2>1
  <2> QED
    BY <1>3, <2>2, RowsStayRight DEF CliPoisson
<1>4. CASE Market
  <2>1. PICK feed \in Feeds, cap \in Caps, S \in SUBSET Fixture :
          /\ S \in FirstOf({f \in Upcoming : now < Kickoff[f]}, cap)
          /\ row' = [f \in Fixture |-> [m \in Model |->
               IF m = "market" /\ f \in S /\ EventFor(feed, f) # {}
               THEN MarketRow(feed, One(EventFor(feed, f)), f) ELSE row[f][m]]]
    BY <1>4 DEF Market
  <2>2. \A f \in S : ~ Final(f)
    BY <2>1 DEF FirstOf, Upcoming, ScoresSound, ScoresAreFinal
  <2>3. Kept
    BY <1>4, <2>1, <2>2 DEF Market
  <2> QED
    BY <1>4, <2>3, RowsStayRight DEF Market
<1>5. CASE SeedDemo
  <2>1. PICK S \in SUBSET Fixture :
          /\ \A f \in S : OkRows(f) = {}
          /\ row' = [f \in Fixture |-> [m \in Model |->
               IF m = "seed" /\ f \in S THEN AnswerRow(f, Demo, FALSE) ELSE row[f][m]]]
    BY <1>5, SeedsAreNew
  <2>2. UNCHANGED <<grade, stored>>
    BY <1>5 DEF SeedDemo
  <2>3. \A f \in Fixture : grade[f]["seed"] # Nothing /\ Final(f) => OkRows(f) # {}
    <3>1. "seed" \in Model /\ "seed" # "batch"
      BY DEF Model, Llm
    <3> QED
      BY <3>1 DEF GradesAreRight, GradeIsRight, OkRows
  <2>4. Kept
    BY <2>1, <2>2, <2>3
  <2> QED
    BY <2>2, <2>4, RowsStayRight
<1>6. ASSUME NEW f \in Fixture, Postpone(f) \/ Finish(f) PROVE UNCHANGED <<row, grade, stored>>
  BY <1>6 DEF Postpone, Finish
<1>7. Tick \/ UNCHANGED svars => UNCHANGED <<row, grade, stored>>
  BY DEF Tick, svars
<1> QED
  BY <1>1, <1>2, <1>3, <1>4, <1>5, <1>6, <1>7, AskStaysRight, BatchStaysRight, GradeStaysRight DEF SNext

(***************************************************************************)
(* Every Grade on the accuracy pages is what the shown prediction deserves *)
(* against the stored result, whichever of the two ways it was marked, and *)
(* the rows for which that fails teach the calibration nothing.            *)
(***************************************************************************)
THEOREM GradesStayRight == SSpec => []GradesAreRight
<1>1. SInit => GradesAreRight
  BY DEF SInit, GradesAreRight
<1> QED
  BY <1>1, ScoresStaySound, NextRight, PTL DEF SSpec

-----------------------------------------------------------------------------
(* The market *)

LEMMA ProductIsPositive ==
  ASSUME NEW x \in Nat \ {0}, NEW y \in Nat \ {0}
  PROVE  x * y \in Nat \ {0}
OBVIOUS

LEMMA SeqElement ==
  ASSUME NEW S, NEW s \in Seq(S), NEW l \in DOMAIN s
  PROVE  s[l] \in S
OBVIOUS

LEMMA DevigIsNumber ==
  ASSUME NEW feed \in Feeds, NEW k \in DOMAIN feed
  PROVE  /\ DOMAIN Devig(feed[k].books) = {"home", "draw", "away"}
         /\ \A o \in {"home", "draw", "away"} : Devig(feed[k].books)[o] \in Int
<1> DEFINE books == feed[k].books
           Price == [home : Nat \ {0}, draw : Nat \ {0}, away : Nat \ {0}]
<1>1. books \in Seq(Price) /\ Len(books) \in Nat \ {0} /\ DOMAIN books = 1..Len(books)
  BY InputsAreValid
<1>2. ASSUME NEW b \in Price, NEW o \in {"home", "draw", "away"} PROVE Share(b, o) \in Int
  <2>1. PICK h \in Nat \ {0}, d \in Nat \ {0}, a \in Nat \ {0} : b.home = h /\ b.draw = d /\ b.away = a
    OBVIOUS
  <2>2. d * a \in Nat \ {0} /\ h * a \in Nat \ {0} /\ h * d \in Nat \ {0}
    BY ProductIsPositive
  <2> DEFINE rest == IF o = "home" THEN d * a ELSE IF o = "draw" THEN h * a ELSE h * d
             all  == d * a + h * a + h * d
  <2>3. rest \in Nat /\ all \in Nat \ {0}
    BY <2>2
  <2>4. Share(b, o) = (1000 * rest) \div all
    BY <2>1 DEF Share
  <2> HIDE DEF rest, all
  <2> QED
    BY <2>3, <2>4
<1> HIDE DEF books
<1>3. ASSUME NEW o \in {"home", "draw", "away"}
      PROVE  SumFunction([l \in DOMAIN books |-> Share(books[l], o)]) \in Int
  <2> DEFINE v == [l \in DOMAIN books |-> Share(books[l], o)]
  <2>1. Numbers(v, DOMAIN books)
    <3> SUFFICES ASSUME NEW l \in DOMAIN books PROVE Share(books[l], o) \in Int
      BY DEF Numbers
    <3> HIDE DEF Price
    <3>1. books[l] \in Price
      BY <1>1, SeqElement
    <3>2. PICK b \in Price : b = books[l]
      BY <3>1
    <3> QED
      BY <1>2, <3>2
  <2>2. IsFiniteSet(DOMAIN books)
    BY <1>1, FS_Interval
  <2>3. SumFunction(v) = Sum(v, DOMAIN books)
    BY DEF Sum
  <2> QED
    BY <2>1, <2>2, <2>3, SumTakesOut
<1> QED
  BY <1>1, <1>3 DEF Devig, books

\* the winner of a market row is a favourite of the event it is made from
LEMMA MarketRowBacks ==
  ASSUME NEW feed \in Feeds, NEW f \in Fixture, NEW k \in EventFor(feed, f)
  PROVE  WinnerOf(f, MarketRow(feed, k, f)) \in Favourites(feed[k])
<1> DEFINE p == Devig(feed[k].books)
           q == Orient(p, Home[f], feed[k].home)
           o == MostLikely(q["home"], q["draw"], q["away"])
           s == PredictMarket(q)
<1>1. k \in DOMAIN feed /\ {feed[k].home, feed[k].away} = {Home[f], Away[f]}
  BY DEF EventFor
<1>2. Home[f] # Away[f]
  BY SeasonAssumption
<1>3. /\ p["home"] \in Int /\ p["draw"] \in Int /\ p["away"] \in Int
      /\ DOMAIN p = {"home", "draw", "away"}
  BY <1>1, DevigIsNumber
<1>4. IF Home[f] = feed[k].home
      THEN q["home"] = p["home"] /\ q["draw"] = p["draw"] /\ q["away"] = p["away"]
      ELSE q["home"] = p["away"] /\ q["draw"] = p["draw"] /\ q["away"] = p["home"]
  BY DEF Orient
<1>5. WinnerOf(f, MarketRow(feed, k, f)) = WinnerOf(f, s)
  BY DEF WinnerOf, MarketRow, Forecast, OutcomeOf
<1>6. Favourites(feed[k]) = {TeamOf(feed[k], x) : x \in {y \in DOMAIN p : \A r \in DOMAIN p : p[r] <= p[y]}}
  BY DEF Favourites
<1> HIDE DEF p, q
<1>7. o \in {"home", "draw", "away"} /\ OutcomeOf(s) = o
  <2>1. o \in {"home", "draw", "away"}
    BY DEF MostLikely
  <2>2. q["home"] - q["away"] \in Int
    BY <1>3, <1>4
  <2>3. /\ 26000 + 24 * (q["home"] - q["away"]) \in Int
        /\ 26000 - 24 * (q["home"] - q["away"]) \in Int
        /\ 20000 \in Nat \ {0}
    BY <2>2
  <2> QED
    BY <2>1, <2>3, ScorelineMeansOutcome DEF PredictMarket
<1> DEFINE x == IF Home[f] = feed[k].home \/ o = "draw" THEN o ELSE IF o = "home" THEN "away" ELSE "home"
<1>8. WinnerOf(f, s) = TeamOf(feed[k], x)
  <2> HIDE DEF o, s
  <2> QED
    BY <1>1, <1>2, <1>7 DEF WinnerOf, TeamOf
<1>9. x \in DOMAIN p /\ \A r \in DOMAIN p : p[r] <= p[x]
  BY <1>3, <1>4 DEF MostLikely
<1> QED
  BY <1>5, <1>6, <1>8, <1>9

\* an estimator other than the market leaves its rows alone
LEMMA MarketRowsStay ==
  ASSUME MarketBacksFavourites,
         \A f \in Fixture : row'[f]["market"] = row[f]["market"]
  PROVE  MarketBacksFavourites'
BY DEF MarketBacksFavourites

LEMMA NextBacks ==
  ASSUME MarketBacksFavourites, [SNext]_svars
  PROVE  MarketBacksFavourites'
<1> DEFINE Stays == \A f \in Fixture : row'[f]["market"] = row[f]["market"]
<1>1. CASE Market
  <2>1. PICK feed \in Feeds, cap \in Caps, S \in SUBSET Fixture :
          row' = [f \in Fixture |-> [m \in Model |->
            IF m = "market" /\ f \in S /\ EventFor(feed, f) # {}
            THEN MarketRow(feed, One(EventFor(feed, f)), f) ELSE row[f][m]]]
    BY <1>1 DEF Market
  <2> SUFFICES ASSUME NEW f \in Fixture, row'[f]["market"] # Nothing
               PROVE  \E g \in Feeds : \E k \in EventFor(g, f) :
                        WinnerOf(f, row'[f]["market"]) \in Favourites(g[k])
    BY DEF MarketBacksFavourites, WinnerOf
  <2>2. CASE f \in S /\ EventFor(feed, f) # {}
    <3>1. One(EventFor(feed, f)) \in EventFor(feed, f)
      BY <2>2 DEF One
    <3>2. row'[f]["market"] = MarketRow(feed, One(EventFor(feed, f)), f)
      BY <2>1, <2>2 DEF Model, Statistical
    <3> QED
      BY <3>1, <3>2, MarketRowBacks
  <2>3. CASE ~ (f \in S /\ EventFor(feed, f) # {})
    <3>1. row'[f]["market"] = row[f]["market"]
      BY <2>1, <2>3 DEF Model, Statistical
    <3> QED
      BY <3>1 DEF MarketBacksFavourites
  <2> QED
    BY <2>2, <2>3
<1>2. CASE Refresh
  <2>1. PICK S \in SUBSET Fixture :
          row' = [f \in Fixture |-> [m \in Model |-> IF f \in S /\ m \in Baselines
                                                     THEN BaselineRow(m, f) ELSE row[f][m]]]
    BY <1>2 DEF Refresh
  <2> QED
    BY <2>1, MarketRowsStay DEF Model, Statistical, Baselines
<1>3. CASE CliPoisson
  <2>1. PICK S \in SUBSET Fixture :
          row' = [f \in Fixture |->
            [m \in Model |-> CASE f \in S /\ m = "seed"    -> Nothing
                               [] f \in S /\ m = "poisson" -> BaselineRow(m, f)
                               [] OTHER -> row[f][m]]]
    BY <1>3 DEF CliPoisson
  <2>2. Stays
    BY <2>1 DEF Model, Statistical
  <2> QED
    BY <2>2, MarketRowsStay
<1>4. CASE SeedDemo
  <2>1. PICK S \in SUBSET Fixture :
          /\ \A f \in S : OkRows(f) = {}
          /\ row' = [f \in Fixture |-> [m \in Model |->
               IF m = "seed" /\ f \in S THEN AnswerRow(f, Demo, FALSE) ELSE row[f][m]]]
    BY <1>4, SeedsAreNew
  <2> QED
    BY <2>1, MarketRowsStay DEF Model, Statistical
<1>5. ASSUME NEW f \in Fixture, NEW m \in {"llm", "batch"}, NEW r, Put(f, m, r)
      PROVE  MarketBacksFavourites'
  <2>1. row' = [g \in Fixture |-> [n \in Model |-> IF g = f /\ n = m THEN r ELSE row[g][n]]]
    BY <1>5 DEF Put
  <2> QED
    BY <2>1, MarketRowsStay DEF Model, Statistical
<1>6. ASSUME NEW f \in Fixture, Ask(f) PROVE MarketBacksFavourites'
  BY <1>5, <1>6 DEF Ask
<1>7. ASSUME NEW f \in Fixture, Batch(f) PROVE MarketBacksFavourites'
  BY <1>5, <1>7 DEF Batch
<1>8. ASSUME NEW f \in Fixture, Postpone(f) \/ Finish(f) \/ Grade(f) PROVE UNCHANGED row
  BY <1>8 DEF Postpone, Finish, Grade
<1>9. Tick \/ UNCHANGED svars => UNCHANGED row
  BY DEF Tick, svars
<1> QED
  BY <1>1, <1>2, <1>3, <1>4, <1>6, <1>7, <1>8, <1>9, MarketRowsStay DEF SNext

(***************************************************************************)
(* market_service.py, on its index by teams and _orient: whichever side    *)
(* the feed lists a match on and whatever the odds, the market's forecast  *)
(* has a favourite of the bookmakers win.                                  *)
(***************************************************************************)
THEOREM MarketTheorem == SSpec => []MarketBacksFavourites
<1>1. SInit => MarketBacksFavourites
  BY DEF SInit, MarketBacksFavourites, Model, Statistical
<1> QED
  BY <1>1, NextBacks, PTL DEF SSpec
=============================================================================
