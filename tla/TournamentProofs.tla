-------------------------- MODULE TournamentProofs --------------------------
(***************************************************************************)
(* What holds of the tournament as a whole, whatever its matches, scores,  *)
(* odds and answers: the Elo ratings that the order of simultaneous        *)
(* matches cannot change, the limits every stored row and Grade keeps, and *)
(* the books of the accuracy pages, which balance.                         *)
(***************************************************************************)
EXTENDS SeasonProofs, SequenceTheorems

-----------------------------------------------------------------------------
(* Folds *)

\* the first m numbers are folded like the whole sequence
LEMMA MaxUpTo ==
  ASSUME NEW n \in Nat
  PROVE  Max(1..(n + 1)) = n + 1 /\ (1..(n + 1)) \ {n + 1} = 1..n
<1>1. n + 1 \in 1..(n + 1) /\ \A y \in 1..(n + 1) : n + 1 >= y
  OBVIOUS
<1>2. Max(1..(n + 1)) \in 1..(n + 1) /\ \A y \in 1..(n + 1) : Max(1..(n + 1)) >= y
  BY <1>1 DEF Max
<1> QED
  BY <1>1, <1>2

Iterates(g, M, S) ==
  g = [s \in S |-> IF s = {} THEN Seed ELSE Update(g[s \ {Max(s)}], M[Max(s)])]

LEMMA FoldExists ==
  ASSUME NEW M
  PROVE  \A n \in Nat : \E g : Iterates(g, M, SUBSET (1..n))
<1> DEFINE Q == {n \in Nat : \E g : Iterates(g, M, SUBSET (1..n))}
<1>1. 0 \in Q
  <2>1. SUBSET (1..0) = {{}}
    OBVIOUS
  <2> DEFINE g == [s \in {{}} |-> Seed]
  <2>2. Iterates(g, M, {{}})
    BY DEF Iterates
  <2>3. Iterates(g, M, SUBSET (1..0))
    BY <2>1, <2>2
  <2> QED
    BY <2>3
<1>2. ASSUME NEW n \in Nat, n \in Q
      PROVE  n + 1 \in Q
  <2>1. PICK g : Iterates(g, M, SUBSET (1..n))
    BY <1>2
  <2> DEFINE h == [s \in SUBSET (1..(n + 1)) |->
                     IF s = {} THEN Seed ELSE Update(g[s \ {Max(s)}], M[Max(s)])]
  <2>2. \A s \in SUBSET (1..(n + 1)) : s \ {Max(s)} \in SUBSET (1..n)
    <3>1. TAKE s \in SUBSET (1..(n + 1))
    <3>2. CASE n + 1 \in s
      <4>1. \A y \in s : y \in Int /\ n + 1 >= y
        OBVIOUS
      <4>2. Max(s) \in s /\ \A y \in s : Max(s) >= y
        BY <3>2, <4>1 DEF Max
      <4>3. Max(s) \in Int /\ Max(s) <= n + 1 /\ n + 1 <= Max(s)
        BY <3>2, <4>1, <4>2
      <4>4. Max(s) = n + 1
        BY <4>3
      <4>5. \A y \in s \ {n + 1} : y \in 1..n
        OBVIOUS
      <4> QED
        BY <4>4, <4>5
    <3>3. CASE n + 1 \notin s
      <4>1. s \subseteq 1..n
        BY <3>3
      <4> QED
        BY <4>1
    <3> QED
      BY <3>2, <3>3
  <2>3. \A s \in SUBSET (1..n) : h[s] = g[s]
    <3>1. \A s \in SUBSET (1..n) : s \in SUBSET (1..(n + 1))
      OBVIOUS
    <3> QED
      BY <2>1, <3>1 DEF Iterates
  <2>4. Iterates(h, M, SUBSET (1..(n + 1)))
    BY <2>2, <2>3 DEF Iterates
  <2> QED
    BY <2>4
<1> HIDE DEF Q
<1>3. \A n \in Nat : n \in Q
  BY <1>1, <1>2, Climb
<1> QED
  BY <1>3 DEF Q

\* FoldLeft folds from the left
LEMMA RatingsReplay ==
  ASSUME NEW M, NEW n \in Nat, DOMAIN M = 1..n
  PROVE  \E r : r[0] = Seed /\ (\A k \in 1..n : r[k] = Update(r[k - 1], M[k])) /\ Ratings(M) = r[n]
<1> DEFINE g == CHOOSE g : Iterates(g, M, SUBSET (1..n))
           r == [k \in 0..n |-> g[1..k]]
<1>1. Iterates(g, M, SUBSET (1..n))
  BY FoldExists
<1>2. Ratings(M) = g[1..n]
  BY DEF Ratings, FoldLeft, MapThenFoldSet, Iterates
<1> HIDE DEF g
<1>3. r[0] = Seed
  <2>1. 1..0 = {} /\ {} \in SUBSET (1..n)
    OBVIOUS
  <2> QED
    BY <1>1, <2>1 DEF Iterates
<1>4. ASSUME NEW k \in 1..n
      PROVE  r[k] = Update(r[k - 1], M[k])
  <2>1. PICK i \in Nat : k = i + 1 /\ k - 1 = i
    BY <1>4
  <2>2. Max(1..k) = k /\ (1..k) \ {k} = 1..(k - 1)
    BY <2>1, MaxUpTo
  <2>3. 1..k \in SUBSET (1..n) /\ 1..k # {} /\ k \in 0..n /\ k - 1 \in 0..n
    <3>1. k \in 1..k /\ \A y \in 1..k : y \in 1..n
      OBVIOUS
    <3> QED
      BY <3>1
  <2>4. g[1..k] = Update(g[(1..k) \ {Max(1..k)}], M[Max(1..k)])
    BY <1>1, <2>3, Zenon DEF Iterates
  <2> QED
    <3>1. r[k] = g[1..k] /\ r[k - 1] = g[1..(k - 1)]
      BY <2>3
    <3>2. g[1..k] = Update(g[1..(k - 1)], M[k])
      BY <2>2, <2>4
    <3> QED
      BY <3>1, <3>2
<1>5. r[n] = g[1..n]
  OBVIOUS
<1> QED
  BY <1>2, <1>3, <1>4, <1>5


-----------------------------------------------------------------------------
(* Orders of simultaneous matches *)

LEMMA OrderFacts ==
  ASSUME NEW K \in SUBSET Fixture, NEW s \in KickoffOrders(K)
  PROVE  /\ IsFiniteSet(K) /\ Cardinality(K) \in Nat
         /\ DOMAIN s = 1..Cardinality(K)
         /\ \A k \in 1..Cardinality(K) : s[k] \in K
         /\ \A j, k \in 1..Cardinality(K) : j # k => s[j] # s[k]
         /\ \A j, k \in 1..Cardinality(K) : j < k => Kickoff[s[j]] <= Kickoff[s[k]]
         /\ \A x \in K : \E k \in 1..Cardinality(K) : s[k] = x
<1> DEFINE n == Cardinality(K)
<1>1. IsFiniteSet(K) /\ n \in Nat
  BY SeasonAssumption, FS_Subset, FS_CardinalityType
<1>2. s \in [1..n -> K] /\ \A j, k \in 1..n : j # k => s[j] # s[k]
  BY DEF KickoffOrders, SetToSeqs
<1>3. DOMAIN s = 1..n
  BY <1>2
<1>4. \A j, k \in 1..n : j < k => Kickoff[s[j]] <= Kickoff[s[k]]
  BY <1>3 DEF KickoffOrders
<1>5. IsFiniteSet(1..n) /\ Cardinality(1..n) = n
  BY <1>1, FS_Interval
<1>6. s \in Injection(1..n, K)
  BY <1>2 DEF Injection, IsInjective
<1> HIDE DEF n
<1>7. s \in Surjection(1..n, K)
  BY <1>1, <1>5, <1>6, FS_Injection DEF n
<1>8. \A x \in K : \E k \in 1..n : s[k] = x
  BY <1>7 DEF Surjection
<1> QED
  BY <1>1, <1>2, <1>3, <1>4, <1>8 DEF n

LEMMA OrderIntro ==
  ASSUME NEW K, NEW n, n = Cardinality(K), NEW s \in [1..n -> K],
         \A j, k \in 1..n : j # k => s[j] # s[k],
         \A j, k \in 1..n : j < k => Kickoff[s[j]] <= Kickoff[s[k]]
  PROVE  s \in KickoffOrders(K)
BY DEF KickoffOrders, SetToSeqs

\* a sequence of n + 1 without its p-th element
Without(s, p, n) == [k \in 1..n |-> IF k < p THEN s[k] ELSE s[k + 1]]

LEMMA WithoutIsAnOrder ==
  ASSUME NEW K \in SUBSET Fixture, NEW n \in Nat, Cardinality(K) = n + 1,
         NEW s \in KickoffOrders(K), NEW p \in 1..(n + 1)
  PROVE  /\ Cardinality(K \ {s[p]}) = n
         /\ Without(s, p, n) \in KickoffOrders(K \ {s[p]})
<1> DEFINE w == Without(s, p, n)
           At(k) == IF k < p THEN k ELSE k + 1
<1>1. /\ IsFiniteSet(K)
      /\ \A k \in 1..(n + 1) : s[k] \in K
      /\ \A j, k \in 1..(n + 1) : j # k => s[j] # s[k]
      /\ \A j, k \in 1..(n + 1) : j < k => Kickoff[s[j]] <= Kickoff[s[k]]
  BY OrderFacts
<1>2. Cardinality(K \ {s[p]}) = n
  <2>1. s[p] \in K
    BY <1>1
  <2>2. Cardinality(K \ {s[p]}) = Cardinality(K) - 1
    BY <1>1, <2>1, FS_RemoveElement
  <2> QED
    BY <2>2
<1>3. \A k \in 1..n : At(k) \in 1..(n + 1) /\ At(k) # p /\ w[k] = s[At(k)]
  BY DEF Without
<1>4. \A j, k \in 1..n : (j < k => At(j) < At(k)) /\ (j # k => At(j) # At(k))
  OBVIOUS
<1>5. w = [k \in 1..n |-> w[k]]
  BY DEF Without
<1> HIDE DEF w, At
<1>6. w \in [1..n -> K \ {s[p]}]
  <2>1. \A k \in 1..n : w[k] \in K \ {s[p]}
    BY <1>1, <1>3
  <2> QED
    BY <1>5, <2>1
<1>7. \A j, k \in 1..n : j # k => w[j] # w[k]
  BY <1>1, <1>3, <1>4
<1>8. \A j, k \in 1..n : j < k => Kickoff[w[j]] <= Kickoff[w[k]]
  BY <1>1, <1>3, <1>4
<1>9. w \in KickoffOrders(K \ {s[p]})
  BY <1>2, <1>6, <1>7, <1>8, OrderIntro
<1> QED
  BY <1>2, <1>9 DEF w

-----------------------------------------------------------------------------
(* Replaying in any order *)

Rated(s, score) == Ratings(History(s, score))
Replayed(r, f, score) == Update(r, Played(f, score[f]))

LEMMA ReplayedCommutes ==
  ASSUME NEW r, NEW score, NEW f \in Fixture, NEW g \in Fixture, f # g, Kickoff[f] = Kickoff[g]
  PROVE  Replayed(Replayed(r, f, score), g, score) = Replayed(Replayed(r, g, score), f, score)
<1> DEFINE m == Played(f, score[f])
           l == Played(g, score[g])
<1>1. m.home = Home[f] /\ m.away = Away[f] /\ l.home = Home[g] /\ l.away = Away[g]
  BY DEF Played
<1>2. {m.home, m.away} \cap {l.home, l.away} = {}
  BY <1>1, SeasonAssumption DEF Disjoint
<1>3. m.home \in Team /\ m.away \in Team /\ l.home \in Team /\ l.away \in Team
  BY <1>1, SeasonAssumption
<1> HIDE DEF m, l
<1>4. Update(Update(r, m), l) = Update(Update(r, l), m)
  BY <1>2, <1>3, UpdatesCommute
<1> QED
  BY <1>4 DEF Replayed, m, l

\* ratings after every match of an order
LEMMA RatedSteps ==
  ASSUME NEW s, NEW n \in Nat, DOMAIN s = 1..n, NEW score
  PROVE  \E r : /\ r[0] = Seed /\ r[n] = Rated(s, score)
                /\ \A k \in 1..n : r[k] = Replayed(r[k - 1], s[k], score)
<1> DEFINE M == History(s, score)
<1>1. DOMAIN M = 1..n /\ \A k \in 1..n : M[k] = Played(s[k], score[s[k]])
  BY DEF History
<1> HIDE DEF M
<1>2. PICK r : r[0] = Seed /\ (\A k \in 1..n : r[k] = Update(r[k - 1], M[k])) /\ Ratings(M) = r[n]
  BY <1>1, RatingsReplay
<1> QED
  BY <1>1, <1>2 DEF Rated, Replayed, M

(***************************************************************************)
(* A match all later ones of which kick off with it may be replayed last.  *)
(***************************************************************************)
LEMMA MayBeLast ==
  ASSUME NEW K \in SUBSET Fixture, NEW n \in Nat, Cardinality(K) = n + 1,
         NEW s \in KickoffOrders(K), NEW p \in 1..(n + 1), NEW score,
         \A k \in p..(n + 1) : Kickoff[s[k]] = Kickoff[s[p]]
  PROVE  Rated(s, score) = Replayed(Rated(Without(s, p, n), score), s[p], score)
<1> DEFINE w == Without(s, p, n)
<1>1. /\ DOMAIN s = 1..(n + 1)
      /\ \A k \in 1..(n + 1) : s[k] \in Fixture
      /\ \A j, k \in 1..(n + 1) : j # k => s[j] # s[k]
  BY OrderFacts
<1>2. DOMAIN w = 1..n /\ \A k \in 1..n : w[k] = IF k < p THEN s[k] ELSE s[k + 1]
  BY DEF Without
<1> HIDE DEF w
<1>3. PICK r : /\ r[0] = Seed /\ r[n + 1] = Rated(s, score)
               /\ \A k \in 1..(n + 1) : r[k] = Replayed(r[k - 1], s[k], score)
  <2> DEFINE l == n + 1
  <2>1. l \in Nat /\ DOMAIN s = 1..l
    BY <1>1
  <2> HIDE DEF l
  <2>2. \E r : /\ r[0] = Seed /\ r[l] = Rated(s, score)
               /\ \A k \in 1..l : r[k] = Replayed(r[k - 1], s[k], score)
    BY <2>1, RatedSteps
  <2> QED
    BY <2>2 DEF l
<1>4. PICK q : /\ q[0] = Seed /\ q[n] = Rated(w, score)
               /\ \A k \in 1..n : q[k] = Replayed(q[k - 1], w[k], score)
  BY <1>2, RatedSteps
<1> DEFINE Q == {k \in Nat : k <= n =>
                   IF k < p THEN r[k] = q[k] /\ (k + 1 = p => r[k + 1] = Replayed(q[k], s[p], score))
                            ELSE r[k + 1] = Replayed(q[k], s[p], score)}
<1>5. 0 \in Q
  <2>1. r[0] = q[0] /\ 1 \in 1..(n + 1) /\ r[1] = Replayed(r[0], s[1], score)
    BY <1>3, <1>4
  <2> QED
    BY <2>1
<1>6. ASSUME NEW k \in Nat, k \in Q
      PROVE  k + 1 \in Q
  <2> SUFFICES ASSUME k + 1 <= n
               PROVE  IF k + 1 < p
                      THEN r[k + 1] = q[k + 1] /\ (k + 2 = p => r[k + 2] = Replayed(q[k + 1], s[p], score))
                      ELSE r[k + 2] = Replayed(q[k + 1], s[p], score)
    OBVIOUS
  <2>1. k + 1 \in 1..n /\ k + 1 \in 1..(n + 1) /\ k + 2 \in 1..(n + 1)
    OBVIOUS
  <2>2. r[k + 1] = Replayed(r[k], s[k + 1], score) /\ r[k + 2] = Replayed(r[k + 1], s[k + 2], score)
    BY <1>3, <2>1
  <2>3. q[k + 1] = Replayed(q[k], w[k + 1], score)
    BY <1>4, <2>1
  <2>4. CASE k + 1 < p
    <3>1. r[k] = q[k] /\ w[k + 1] = s[k + 1]
      BY <1>2, <1>6, <2>1, <2>4
    <3> QED
      BY <2>2, <2>3, <2>4, <3>1
  <2>5. CASE ~ (k + 1 < p)
    <3>1. r[k + 1] = Replayed(q[k], s[p], score) /\ w[k + 1] = s[k + 2]
      BY <1>2, <1>6, <2>1, <2>5
    <3>2. p # k + 2 /\ k + 2 \in p..(n + 1)
      BY <2>1, <2>5
    <3>3. s[p] # s[k + 2] /\ s[p] \in Fixture /\ s[k + 2] \in Fixture /\ Kickoff[s[p]] = Kickoff[s[k + 2]]
      BY <1>1, <2>1, <3>2
    <3>4. Replayed(Replayed(q[k], s[p], score), s[k + 2], score)
            = Replayed(Replayed(q[k], s[k + 2], score), s[p], score)
      BY <3>3, ReplayedCommutes
    <3> QED
      BY <2>2, <2>3, <2>5, <3>1, <3>4
  <2> QED
    BY <2>4, <2>5
<1> HIDE DEF Q
<1>7. n \in Q
  BY <1>5, <1>6, Climb
<1>8. r[n + 1] = Replayed(q[n], s[p], score)
  BY <1>7 DEF Q
<1> QED
  BY <1>3, <1>4, <1>8 DEF w

LEMMA OneRating ==
  ASSUME NEW score, NEW K \in SUBSET Fixture, NEW s \in KickoffOrders(K), NEW t \in KickoffOrders(K)
  PROVE  Rated(s, score) = Rated(t, score)
<1> DEFINE Q == {n \in Nat : \A L \in SUBSET Fixture : Cardinality(L) = n =>
                               \A u, v \in KickoffOrders(L) : Rated(u, score) = Rated(v, score)}
<1>1. 0 \in Q
  <2> SUFFICES ASSUME NEW L \in SUBSET Fixture, Cardinality(L) = 0,
                      NEW u \in KickoffOrders(L), NEW v \in KickoffOrders(L)
               PROVE  Rated(u, score) = Rated(v, score)
    OBVIOUS
  <2>1. DOMAIN u = 1..0 /\ DOMAIN v = 1..0
    BY OrderFacts
  <2> QED
    BY <2>1, RatedSteps
<1>2. ASSUME NEW n \in Nat, n \in Q
      PROVE  n + 1 \in Q
  <2> SUFFICES ASSUME NEW L \in SUBSET Fixture, Cardinality(L) = n + 1,
                      NEW u \in KickoffOrders(L), NEW v \in KickoffOrders(L)
               PROVE  Rated(u, score) = Rated(v, score)
    OBVIOUS
  <2>1. ASSUME NEW o \in KickoffOrders(L)
        PROVE  /\ \A k \in 1..(n + 1) : o[k] \in L
               /\ \A j, k \in 1..(n + 1) : j < k => Kickoff[o[j]] <= Kickoff[o[k]]
               /\ \A x \in L : \E k \in 1..(n + 1) : o[k] = x
    <3> USE <2>1
    <3>1. \A k \in 1..Cardinality(L) : o[k] \in L
      BY OrderFacts
    <3>2. \A j, k \in 1..Cardinality(L) : j < k => Kickoff[o[j]] <= Kickoff[o[k]]
      BY OrderFacts
    <3>3. \A x \in L : \E k \in 1..Cardinality(L) : o[k] = x
      BY OrderFacts
    <3> QED
      BY <3>1, <3>2, <3>3
  <2>2. n + 1 \in 1..(n + 1)
    OBVIOUS
  <2> DEFINE x == u[n + 1]
  <2>3. PICK p \in 1..(n + 1) : v[p] = x
    BY <2>1, <2>2
  <2>4. \A k \in (n + 1)..(n + 1) : u[k] = x
    OBVIOUS
  <2>5. \A k \in p..(n + 1) : Kickoff[v[k]] = Kickoff[x]
    <3>1. TAKE k \in p..(n + 1)
    <3>2. k \in 1..(n + 1) /\ (p < k \/ p = k)
      OBVIOUS
    <3>3. Kickoff[x] <= Kickoff[v[k]]
      BY <2>1, <2>3, <3>2, SeasonAssumption
    <3>4. PICK j \in 1..(n + 1) : u[j] = v[k]
      BY <2>1, <3>2
    <3>5. Kickoff[x] \in Nat /\ Kickoff[v[k]] \in Nat
      BY <2>1, <2>2, <3>2, SeasonAssumption
    <3>6. Kickoff[v[k]] <= Kickoff[x]
      <4>1. j = n + 1 \/ j < n + 1
        OBVIOUS
      <4> QED
        BY <2>1, <2>2, <3>4, <3>5, <4>1
    <3> QED
      BY <3>3, <3>5, <3>6
  <2> HIDE DEF x
  <2>6. /\ Cardinality(L \ {x}) = n
        /\ Without(u, n + 1, n) \in KickoffOrders(L \ {x})
        /\ Without(v, p, n) \in KickoffOrders(L \ {x})
    BY <2>2, <2>3, WithoutIsAnOrder DEF x
  <2>7. Rated(Without(u, n + 1, n), score) = Rated(Without(v, p, n), score)
    BY <1>2, <2>6
  <2>8. Rated(u, score) = Replayed(Rated(Without(u, n + 1, n), score), x, score)
    BY <2>2, <2>4, MayBeLast DEF x
  <2>9. Rated(v, score) = Replayed(Rated(Without(v, p, n), score), x, score)
    BY <2>3, <2>5, MayBeLast
  <2> QED
    BY <2>7, <2>8, <2>9
<1> HIDE DEF Q
<1>3. Cardinality(K) \in Q
  <2>1. Cardinality(K) \in Nat
    BY OrderFacts
  <2> QED
    BY <1>1, <1>2, <2>1, Climb
<1> QED
  BY <1>3 DEF Q

-----------------------------------------------------------------------------
(* There is an order *)

LEMMA LastKickoff ==
  ASSUME NEW K \in SUBSET Fixture, K # {}
  PROVE  \E x \in K : \A y \in K : Kickoff[y] <= Kickoff[x]
<1> DEFINE Q == {n \in Nat : \A L \in SUBSET Fixture : Cardinality(L) = n /\ L # {} =>
                               \E x \in L : \A y \in L : Kickoff[y] <= Kickoff[x]}
<1>1. \A L \in SUBSET Fixture : IsFiniteSet(L) /\ Cardinality(L) \in Nat
  BY SeasonAssumption, FS_Subset, FS_CardinalityType
<1>2. 0 \in Q
  BY <1>1, FS_EmptySet
<1>3. ASSUME NEW n \in Nat, n \in Q
      PROVE  n + 1 \in Q
  <2> SUFFICES ASSUME NEW L \in SUBSET Fixture, Cardinality(L) = n + 1, L # {}
               PROVE  \E x \in L : \A y \in L : Kickoff[y] <= Kickoff[x]
    OBVIOUS
  <2>1. PICK z \in L : TRUE
    OBVIOUS
  <2>2. Cardinality(L \ {z}) = n
    <3>1. Cardinality(L \ {z}) = Cardinality(L) - 1
      BY <1>1, <2>1, FS_RemoveElement
    <3> QED
      BY <3>1
  <2>3. \A y \in L : Kickoff[y] \in Nat
    BY SeasonAssumption
  <2>4. CASE L \ {z} = {}
    <3>1. \A y \in L : y = z
      BY <2>4
    <3> QED
      BY <2>1, <2>3, <3>1
  <2>5. CASE L \ {z} # {}
    <3>1. PICK x \in L \ {z} : \A y \in L \ {z} : Kickoff[y] <= Kickoff[x]
      BY <1>3, <2>2, <2>5
    <3>2. CASE Kickoff[z] <= Kickoff[x]
      BY <3>1, <3>2
    <3>3. CASE ~ (Kickoff[z] <= Kickoff[x])
      BY <2>1, <2>3, <3>1, <3>3
    <3> QED
      BY <3>2, <3>3
  <2> QED
    BY <2>4, <2>5
<1> HIDE DEF Q
<1>4. Cardinality(K) \in Q
  BY <1>1, <1>2, <1>3, Climb
<1> QED
  BY <1>4 DEF Q

LEMMA OrderExists ==
  ASSUME NEW K \in SUBSET Fixture
  PROVE  KickoffOrders(K) # {}
<1> DEFINE Q == {n \in Nat : \A L \in SUBSET Fixture : Cardinality(L) = n => KickoffOrders(L) # {}}
<1>1. \A L \in SUBSET Fixture : IsFiniteSet(L) /\ Cardinality(L) \in Nat
  BY SeasonAssumption, FS_Subset, FS_CardinalityType
<1>2. 0 \in Q
  <2> SUFFICES ASSUME NEW L \in SUBSET Fixture, Cardinality(L) = 0
               PROVE  KickoffOrders(L) # {}
    OBVIOUS
  <2> DEFINE s == [k \in 1..0 |-> k]
  <2>1. s \in [1..0 -> L]
    OBVIOUS
  <2> HIDE DEF s
  <2>2. 1..0 = {}
    OBVIOUS
  <2>3. s \in KickoffOrders(L)
    BY <2>1, <2>2, OrderIntro
  <2> QED
    BY <2>3
<1>3. ASSUME NEW n \in Nat, n \in Q
      PROVE  n + 1 \in Q
  <2> SUFFICES ASSUME NEW L \in SUBSET Fixture, Cardinality(L) = n + 1
               PROVE  KickoffOrders(L) # {}
    OBVIOUS
  <2>1. L # {}
    BY FS_EmptySet
  <2>2. PICK x \in L : \A y \in L : Kickoff[y] <= Kickoff[x]
    BY <2>1, LastKickoff
  <2>3. Cardinality(L \ {x}) = n
    <3>1. Cardinality(L \ {x}) = Cardinality(L) - 1
      BY <1>1, FS_RemoveElement
    <3> QED
      BY <3>1
  <2>4. PICK s \in KickoffOrders(L \ {x}) : TRUE
    BY <1>3, <2>3
  <2>5. /\ \A k \in 1..n : s[k] \in L \ {x}
        /\ \A j, k \in 1..n : j # k => s[j] # s[k]
        /\ \A j, k \in 1..n : j < k => Kickoff[s[j]] <= Kickoff[s[k]]
    BY <2>3, OrderFacts
  <2> DEFINE t == [k \in 1..(n + 1) |-> IF k = n + 1 THEN x ELSE s[k]]
  <2>6. \A k \in 1..(n + 1) : k \in 1..n \/ k = n + 1
    OBVIOUS
  <2>7. \A k \in 1..(n + 1) : t[k] = IF k = n + 1 THEN x ELSE s[k]
    OBVIOUS
  <2>8. t \in [1..(n + 1) -> L]
    BY <2>5, <2>6
  <2> HIDE DEF t
  <2>9. \A j, k \in 1..(n + 1) : j # k => t[j] # t[k]
    BY <2>5, <2>6, <2>7
  <2>10. \A j, k \in 1..(n + 1) : j < k => Kickoff[t[j]] <= Kickoff[t[k]]
    BY <2>2, <2>5, <2>6, <2>7
  <2>11. t \in KickoffOrders(L)
    BY <2>8, <2>9, <2>10, OrderIntro
  <2> QED
    BY <2>11
<1> HIDE DEF Q
<1>4. Cardinality(K) \in Q
  BY <1>1, <1>2, <1>3, Climb
<1> QED
  BY <1>4 DEF Q

-----------------------------------------------------------------------------
(* Elo *)

Total(r) == Sum(r, Team)

Expects == \A gap \in Int : Expected(gap) \in Int

LEMMA ReplayedKeepsTotal ==
  ASSUME Expects, NEW r \in [Team -> Int], NEW f \in Fixture, NEW score,
         score[f].home \in Nat, score[f].away \in Nat
  PROVE  Replayed(r, f, score) \in [Team -> Int] /\ Total(Replayed(r, f, score)) = Total(r)
<1> DEFINE m == Played(f, score[f])
           q == Replayed(r, f, score)
<1>1. /\ m.home \in Team /\ m.away \in Team /\ m.home # m.away
      /\ m.hg \in Nat /\ m.ag \in Nat
  BY SeasonAssumption DEF Played
<1>2. q = Update(r, m)
  BY DEF Replayed
<1> HIDE DEF m, q
<1>3. Delta(r, m) \in Int
  <2>1. Weight(m) \in Int
    BY <1>1 DEF Weight, Gap
  <2>2. Achieved(m) \in Int
    BY <1>1 DEF Achieved, OutcomeOf, Outcome
  <2>3. Expected(r[m.home] + HomeField - r[m.away]) \in Int
    BY <1>1 DEF Expects, HomeField
  <2> QED
    BY <2>1, <2>2, <2>3 DEF Delta
<1>4. \A t \in Team : q[t] = IF t = m.home THEN r[t] + Delta(r, m)
                             ELSE IF t = m.away THEN r[t] - Delta(r, m) ELSE r[t]
  BY <1>2 DEF Update
<1>5. q \in [Team -> Int]
  BY <1>1, <1>2, <1>3 DEF Update
<1>6. Total(q) = Total(r)
  <2>1. PICK a \in Team, b \in Team, d \in Int : a = m.home /\ b = m.away /\ d = Delta(r, m)
    BY <1>1, <1>3
  <2>2. Transfers(r, q, a, b, d, Team)
    BY <1>4, <2>1 DEF Transfers
  <2>3. a # b /\ Numbers(r, Team) /\ IsFiniteSet(Team)
    BY <1>1, <2>1, SeasonAssumption DEF Numbers
  <2> QED
    BY <2>2, <2>3, Transfer DEF Total
<1> QED
  BY <1>5, <1>6 DEF q

LEMMA RatedKeepsTotal ==
  ASSUME Expects, NEW K \in SUBSET Fixture, NEW s \in KickoffOrders(K), NEW score,
         \A f \in K : score[f].home \in Nat /\ score[f].away \in Nat
  PROVE  Rated(s, score) \in [Team -> Int] /\ Total(Rated(s, score)) = Total(Seed)
<1> DEFINE n == Cardinality(K)
<1>1. n \in Nat /\ DOMAIN s = 1..n /\ \A k \in 1..n : s[k] \in K
  BY OrderFacts
<1> HIDE DEF n
<1>2. PICK r : /\ r[0] = Seed /\ r[n] = Rated(s, score)
               /\ \A k \in 1..n : r[k] = Replayed(r[k - 1], s[k], score)
  BY <1>1, RatedSteps
<1> DEFINE Q == {k \in Nat : k <= n => r[k] \in [Team -> Int] /\ Total(r[k]) = Total(Seed)}
<1>3. 0 \in Q
  BY <1>2, EstimatorsAssumption
<1>4. ASSUME NEW k \in Nat, k \in Q
      PROVE  k + 1 \in Q
  <2> SUFFICES ASSUME k + 1 <= n
               PROVE  r[k + 1] \in [Team -> Int] /\ Total(r[k + 1]) = Total(Seed)
    OBVIOUS
  <2>1. k + 1 \in 1..n /\ r[k] \in [Team -> Int] /\ Total(r[k]) = Total(Seed)
    BY <1>1, <1>4
  <2>2. r[k + 1] = Replayed(r[k], s[k + 1], score) /\ s[k + 1] \in K
    BY <1>1, <1>2, <2>1
  <2> QED
    BY <2>1, <2>2, ReplayedKeepsTotal
<1> HIDE DEF Q
<1>5. n \in Q
  BY <1>1, <1>3, <1>4, Climb
<1> QED
  BY <1>1, <1>2, <1>5 DEF Q

(***************************************************************************)
(* elo.py leaves the order to its caller and elo_service.py leaves that of *)
(* simultaneous matches to the database: there is an order, every order    *)
(* yields the same ratings, and no match makes or burns rating points.     *)
(***************************************************************************)
THEOREM EloTheorem == Expects => (SSpec => []EloIsWellDefined)
<1> SUFFICES ASSUME Expects PROVE SSpec => []EloIsWellDefined
  OBVIOUS
<1>1. ScoresSound => EloIsWellDefined
  <2> SUFFICES ASSUME ScoresSound, NEW f \in Fixture
               PROVE  LET R == RatingsFrom(Prior(f), stored) IN
                        /\ Cardinality(R) = 1
                        /\ \A r \in R : SumFunction(r) = SumFunction(Seed)
    BY DEF EloIsWellDefined
  <2> DEFINE K == Prior(f)
             R == RatingsFrom(K, stored)
  <2>1. K \in SUBSET Fixture /\ \A g \in K : stored[g].home \in Nat /\ stored[g].away \in Nat
    BY SeasonAssumption DEF Prior, ScoresSound, ScoresAreFinal, ToValues
  <2> HIDE DEF K
  <2>2. R = {Rated(s, stored) : s \in KickoffOrders(K)}
    BY DEF RatingsFrom, Rated, History
  <2>3. PICK s \in KickoffOrders(K) : TRUE
    BY <2>1, OrderExists
  <2>4. R = {Rated(s, stored)}
    BY <2>1, <2>2, <2>3, OneRating
  <2>5. Cardinality(R) = 1
    BY <2>4, FS_Singleton
  <2>6. \A r \in R : Total(r) = Total(Seed)
    BY <2>1, <2>4, RatedKeepsTotal
  <2>7. \A r \in [Team -> Int] : SumFunction(r) = Total(r)
    <3>1. TAKE r \in [Team -> Int]
    <3>2. r = [t \in Team |-> r[t]]
      OBVIOUS
    <3> QED
      BY <3>2, Zenon DEF Total, Sum
  <2>8. \A r \in R : r \in [Team -> Int]
    BY <2>1, <2>4, RatedKeepsTotal
  <2> QED
    BY <2>5, <2>6, <2>7, <2>8, EstimatorsAssumption DEF K
<1> QED
  BY <1>1, ScoresStaySound, PTL

-----------------------------------------------------------------------------
(* Scorelines *)

LEMMA NaturalSum ==
  ASSUME NEW K, NEW v, IsFiniteSet(K), v = [k \in K |-> v[k]], Naturals(v, K)
  PROVE  SumFunction(v) \in Nat
<1>1. SumFunction(v) = Sum(v, K)
  BY Zenon DEF Sum
<1> QED
  BY <1>1, SumIsNatural

Scores(M) == \A m \in M : m.hg \in Nat /\ m.ag \in Nat

LEMMA GoalsAreCounted ==
  ASSUME NEW M, NEW t, IsFiniteSet(M), Scores(M)
  PROVE  GoalsFor(M, t) \in Nat /\ GoalsAgainst(M, t) \in Nat /\ Games(M, t) \in Nat
<1> DEFINE v == [m \in M |-> IF m.home = t THEN m.hg ELSE IF m.away = t THEN m.ag ELSE 0]
           w == [m \in M |-> IF m.home = t THEN m.ag ELSE IF m.away = t THEN m.hg ELSE 0]
<1>1. Naturals(v, M) /\ Naturals(w, M)
  BY DEF Naturals, Scores
<1>2. v = [m \in M |-> v[m]] /\ w = [m \in M |-> w[m]]
  OBVIOUS
<1>3. GoalsFor(M, t) = SumFunction(v) /\ GoalsAgainst(M, t) = SumFunction(w)
  BY DEF GoalsFor, GoalsAgainst
<1> HIDE DEF v, w
<1>4. SumFunction(v) \in Nat /\ SumFunction(w) \in Nat
  BY <1>1, <1>2, NaturalSum
<1>5. Games(M, t) \in Nat
  BY FS_Subset, FS_CardinalityType DEF Games
<1> QED
  BY <1>3, <1>4, <1>5

LEMMA AverageIsPositive ==
  ASSUME NEW M, IsFiniteSet(M), Scores(M)
  PROVE  \E p \in Nat \ {0}, q \in Nat \ {0} : LeagueAvg(M) = <<p, q>>
<1> DEFINE v == [m \in M |-> m.hg + m.ag]
           goals == SumFunction(v)
           teams == 2 * Cardinality(M)
<1>1. LeagueAvg(M) = IF M = {} THEN <<27, 20>> ELSE IF 10 * goals < 3 * teams THEN <<3, 10>> ELSE <<goals, teams>>
  BY DEF LeagueAvg
<1>2. goals \in Nat
  <2>1. Naturals(v, M) /\ v = [m \in M |-> v[m]]
    BY DEF Naturals, Scores
  <2> HIDE DEF v
  <2> QED
    BY <2>1, NaturalSum
<1>3. Cardinality(M) \in Nat /\ (Cardinality(M) = 0 <=> M = {})
  BY FS_CardinalityType, FS_EmptySet
<1> HIDE DEF goals
<1>4. CASE M = {}
  BY <1>1, <1>4
<1>5. CASE M # {} /\ 10 * goals < 3 * teams
  BY <1>1, <1>5
<1>6. CASE M # {} /\ ~ (10 * goals < 3 * teams)
  <2>1. teams \in Nat \ {0}
    BY <1>3, <1>6
  <2>2. goals \in Nat \ {0}
    BY <1>2, <1>6, <2>1
  <2> QED
    BY <1>1, <1>6, <2>1, <2>2
<1> QED
  BY <1>4, <1>5, <1>6

LEMMA GoalsAreCapped ==
  ASSUME NEW M, NEW scorer, NEW keeper, NEW attack \in Nat, NEW defence \in Nat,
         NEW num \in Nat, NEW den \in Nat \ {0}, IsFiniteSet(M), Scores(M)
  PROVE  ExpectedGoals(M, LeagueAvg(M), scorer, keeper, attack, defence, num, den) \in 0..MaxGoals
<1>1. PICK p \in Nat \ {0}, q \in Nat \ {0} : LeagueAvg(M) = <<p, q>>
  BY AverageIsPositive
<1>2. PICK g \in Nat, h \in Nat, k \in Nat, l \in Nat :
        /\ g = GoalsFor(M, scorer) /\ h = GoalsAgainst(M, keeper)
        /\ k = Games(M, scorer) /\ l = Games(M, keeper)
  BY GoalsAreCounted
<1> DEFINE x == 10 * g * q + 2 * p * attack
           y == 10 * h * q + 2 * p * defence
           all == 100 * p * q * (k + 2) * (l + 2) * den
<1>3. ExpectedGoals(M, LeagueAvg(M), scorer, keeper, attack, defence, num, den) = Capped(x * y * num, all)
  BY <1>1, <1>2 DEF ExpectedGoals, Shrunk
<1>4. x * y * num \in Int
  <2>1. x \in Int /\ y \in Int
    OBVIOUS
  <2> HIDE DEF x, y
  <2> QED
    BY <2>1
<1>5. all \in Nat \ {0}
  <2>1. 100 * p \in Nat \ {0}
    OBVIOUS
  <2>2. 100 * p * q \in Nat \ {0}
    BY <2>1, ProductIsPositive
  <2>3. 100 * p * q * (k + 2) \in Nat \ {0}
    BY <2>2, ProductIsPositive
  <2>4. 100 * p * q * (k + 2) * (l + 2) \in Nat \ {0}
    BY <2>3, ProductIsPositive
  <2> QED
    BY <2>4, ProductIsPositive
<1> HIDE DEF x, y, all
<1> QED
  BY <1>3, <1>4, <1>5, RoundIsNat

Strengths(prior) == \A t \in Team : prior[t].attack \in Nat /\ prior[t].defence \in Nat

LEMMA ModelScores ==
  ASSUME NEW M, NEW home \in Team, NEW away \in Team, NEW prior, IsFiniteSet(M), Scores(M), Strengths(prior)
  PROVE  GoalsModel(M, home, away, prior).home \in 0..MaxGoals /\ GoalsModel(M, home, away, prior).away \in 0..MaxGoals
<1>1. /\ prior[home].attack \in Nat /\ prior[home].defence \in Nat
      /\ prior[away].attack \in Nat /\ prior[away].defence \in Nat
  BY DEF Strengths
<1>2. /\ ExpectedGoals(M, LeagueAvg(M), home, away, prior[home].attack, prior[away].defence, 27, 25) \in 0..MaxGoals
      /\ ExpectedGoals(M, LeagueAvg(M), away, home, prior[away].attack, prior[home].defence, 25, 27) \in 0..MaxGoals
  BY <1>1, GoalsAreCapped
<1> QED
  BY <1>2, Zenon DEF GoalsModel

LEMMA ResultsAreScores ==
  ASSUME NEW K \in SUBSET Fixture, NEW score, \A g \in K : score[g].home \in Nat /\ score[g].away \in Nat
  PROVE  IsFiniteSet(Results(K, score)) /\ Scores(Results(K, score))
<1> DEFINE r == [g \in K |-> Played(g, score[g])]
<1>1. r \in Surjection(K, Results(K, score))
  BY DEF Surjection, Results
<1>2. IsFiniteSet(K)
  BY SeasonAssumption, FS_Subset
<1>3. IsFiniteSet(Results(K, score))
  BY <1>1, <1>2, FS_Surjection
<1>4. Scores(Results(K, score))
  BY DEF Scores, Results, Played
<1> QED
  BY <1>3, <1>4

LEMMA BaselineScores ==
  ASSUME Expects, ScoresSound, NEW f \in Fixture, NEW m \in Baselines
  PROVE  LET s == Scoreline(m, f, Prior(f), stored) IN s.home \in 0..MaxGoals /\ s.away \in 0..MaxGoals
<1> DEFINE K == Prior(f)
           s == Scoreline(m, f, K, stored)
<1>1. K \in SUBSET Fixture /\ \A g \in K : stored[g].home \in Nat /\ stored[g].away \in Nat
  BY SeasonAssumption DEF Prior, ScoresSound, ScoresAreFinal, ToValues
<1>2. Home[f] \in Team /\ Away[f] \in Team
  BY SeasonAssumption
<1>3. IsFiniteSet(Results(K, stored)) /\ Scores(Results(K, stored))
  BY <1>1, ResultsAreScores
<1> HIDE DEF K
<1>4. CASE m = "poisson"
  <2>1. Strengths([t \in Team |-> [attack |-> 10, defence |-> 10]])
    BY DEF Strengths
  <2>2. s = PredictPoisson(Results(K, stored), Home[f], Away[f])
    BY <1>4 DEF Scoreline
  <2> QED
    BY <1>2, <1>3, <2>1, <2>2, ModelScores DEF PredictPoisson, K
<1>5. CASE m = "dc"
  <2>1. Strengths(Factors)
    BY EstimatorsAssumption DEF Strengths
  <2>2. s = PredictDc(Results(K, stored), Home[f], Away[f])
    BY <1>5 DEF Scoreline
  <2> QED
    BY <1>2, <1>3, <2>1, <2>2, ModelScores DEF PredictDc, K
<1>6. CASE m = "elo"
  <2> DEFINE r == One(RatingsFrom(K, stored))
  <2>1. r \in [Team -> Int]
    <3>1. RatingsFrom(K, stored) = {Rated(o, stored) : o \in KickoffOrders(K)}
      BY DEF RatingsFrom, Rated, History
    <3>2. PICK o \in KickoffOrders(K) : TRUE
      BY <1>1, OrderExists
    <3>3. r \in RatingsFrom(K, stored)
      BY <3>1, <3>2 DEF One
    <3> QED
      BY <1>1, <3>1, <3>3, RatedKeepsTotal
  <2>2. s = PredictElo(Home[f], Away[f], r)
    BY <1>6 DEF Scoreline
  <2> HIDE DEF r
  <2> DEFINE dr == r[Home[f]] + HomeField - r[Away[f]]
             sup == Biggest(-2000000, Smallest(2000000, dr))
  <2>3. dr \in Int
    BY <1>2, <2>1 DEF HomeField
  <2>4. 650000 + sup \in Int /\ 650000 - sup \in Int
    BY <2>3 DEF Biggest, Smallest
  <2>5. EloOutcome(Expected(dr)) \in {"home", "draw", "away"}
    BY DEF EloOutcome, MostLikely
  <2>6. s = ConsistentScoreline(EloOutcome(Expected(dr)), 650000 + sup, 650000 - sup, 500000)
    BY <2>2 DEF PredictElo
  <2> HIDE DEF dr, sup
  <2> QED
    BY <2>4, <2>5, <2>6, ScorelineMeansOutcome DEF K
<1>7. CASE m = "naive"
  BY <1>7 DEF Scoreline, PredictNaive, MaxGoals
<1> QED
  BY <1>4, <1>5, <1>6, <1>7 DEF Baselines

LEMMA MarketScores ==
  ASSUME NEW feed \in Feeds, NEW f \in Fixture, NEW k \in EventFor(feed, f)
  PROVE  MarketRow(feed, k, f).home \in 0..MaxGoals /\ MarketRow(feed, k, f).away \in 0..MaxGoals
<1> DEFINE p == Devig(feed[k].books)
           q == Orient(p, Home[f], feed[k].home)
           gap == q["home"] - q["away"]
           o == MostLikely(q["home"], q["draw"], q["away"])
           s == PredictMarket(q)
<1>1. MarketRow(feed, k, f).home = s.home /\ MarketRow(feed, k, f).away = s.away
  BY DEF MarketRow, Forecast
<1>2. p["home"] \in Int /\ p["away"] \in Int
  <2>1. k \in DOMAIN feed
    BY DEF EventFor
  <2> QED
    BY <2>1, DevigIsNumber
<1>3. q["home"] \in {p["home"], p["away"]} /\ q["away"] \in {p["home"], p["away"]}
  BY DEF Orient
<1>4. s = ConsistentScoreline(o, 26000 + 24 * gap, 26000 - 24 * gap, 20000)
  BY DEF PredictMarket
<1>5. o \in {"home", "draw", "away"}
  BY DEF MostLikely
<1> HIDE DEF p, q, o, s
<1>6. 26000 + 24 * gap \in Int /\ 26000 - 24 * gap \in Int /\ 20000 \in Nat \ {0}
  <2>1. gap \in Int
    BY <1>2, <1>3
  <2> HIDE DEF gap
  <2> QED
    BY <2>1
<1> HIDE DEF gap
<1>7. PICK x \in {"home", "draw", "away"}, y \in Int, z \in Int : s = ConsistentScoreline(x, y, z, 20000)
  BY <1>4, <1>5, <1>6
<1>8. s.home \in 0..MaxGoals /\ s.away \in 0..MaxGoals
  BY <1>7, ScorelineMeansOutcome
<1> QED
  BY <1>1, <1>8

-----------------------------------------------------------------------------
(* The invariant *)

\* a row that may be stored
GoodRow(r, m) ==
  /\ r.home \in 0..20 /\ r.away \in 0..20
  /\ r.advancing \in Team \cup {Nobody}
  /\ m \in Llm => r.confidence \in 0..100

LEMMA ForecastIsGood ==
  ASSUME NEW m \in Statistical, NEW f \in Fixture, NEW s, s.home \in 0..MaxGoals, s.away \in 0..MaxGoals
  PROVE  GoodRow(Forecast(m, f, s), m)
<1>1. Advancing(Stage[f], s, Home[f], Away[f], Nobody) \in Team \cup {Nobody}
  BY SeasonAssumption DEF Advancing
<1>2. m \notin Llm
  BY DEF Statistical, Baselines, Llm
<1> QED
  BY <1>1, <1>2 DEF GoodRow, Forecast, MaxGoals

LEMMA BaselineIsGood ==
  ASSUME Expects, ScoresSound, NEW f \in Fixture, NEW m \in Baselines
  PROVE  GoodRow(BaselineRow(m, f), m)
<1>1. PICK s : s = Scoreline(m, f, Prior(f), stored)
  OBVIOUS
<1>2. s.home \in 0..MaxGoals /\ s.away \in 0..MaxGoals
  BY <1>1, BaselineScores
<1>3. BaselineRow(m, f) = Forecast(m, f, s)
  BY <1>1 DEF BaselineRow, ForecastFrom
<1> QED
  BY <1>2, <1>3, ForecastIsGood DEF Statistical

LEMMA AnswerIsGood ==
  ASSUME NEW f \in Fixture, NEW m, NEW out \in Answers \cup {Demo, Nothing}, NEW b \in BOOLEAN
  PROVE  GoodRow(AnswerRow(f, out, b), m) /\ AnswerRow(f, out, b) # Nothing
<1>1. Home[f] \in Team /\ Away[f] \in Team
  BY SeasonAssumption
<1>2. CASE out = Nothing
  BY <1>2, AnswersAreRows DEF GoodRow, AnswerRow
<1>3. CASE out # Nothing
  <2>1. out.home \in 0..20 /\ out.away \in 0..20 /\ out.confidence \in 0..100
    BY <1>3, InputsAreValid
  <2> QED
    BY <1>1, <1>3, <2>1, AnswersAreRows DEF GoodRow, AnswerRow
<1> QED
  BY <1>2, <1>3

\* every action that writes rows either keeps a row or stores a good one
RowsRewritten == \A f \in Fixture, m \in Model :
  \/ row'[f][m] = row[f][m]
  \/ row'[f][m] = Nothing
  \/ GoodRow(row'[f][m], m)

LEMMA RowsStaySound ==
  ASSUME RowsAreSound, RowsRewritten
  PROVE  RowsAreSound'
BY DEF RowsAreSound, RowsRewritten, RowOK, GoodRow

LEMMA PutsGood ==
  ASSUME NEW f \in Fixture, NEW m \in Model, NEW r, Put(f, m, r), GoodRow(r, m)
  PROVE  RowsRewritten
<1>1. row' = [g \in Fixture |-> [n \in Model |-> IF g = f /\ n = m THEN r ELSE row[g][n]]]
  BY DEF Put
<1> QED
  BY <1>1 DEF RowsRewritten

LEMMA NextRows ==
  ASSUME Expects, ScoresSound, [SNext]_svars
  PROVE  RowsRewritten
<1>1. CASE Market
  <2>1. PICK feed \in Feeds, cap \in Caps, S \in SUBSET Fixture :
          row' = [f \in Fixture |-> [m \in Model |->
            IF m = "market" /\ f \in S /\ EventFor(feed, f) # {}
            THEN MarketRow(feed, One(EventFor(feed, f)), f) ELSE row[f][m]]]
    BY <1>1 DEF Market
  <2>2. ASSUME NEW f \in Fixture, EventFor(feed, f) # {}
        PROVE  GoodRow(MarketRow(feed, One(EventFor(feed, f)), f), "market")
    <3>1. PICK k \in EventFor(feed, f) : k = One(EventFor(feed, f))
      BY <2>2 DEF One
    <3>2. PICK s : s = PredictMarket(Orient(Devig(feed[k].books), Home[f], feed[k].home))
      OBVIOUS
    <3>3. MarketRow(feed, k, f) = Forecast("market", f, s)
      BY <3>2 DEF MarketRow
    <3>4. s.home \in 0..MaxGoals /\ s.away \in 0..MaxGoals
      BY <3>3, MarketScores DEF Forecast
    <3> QED
      BY <3>1, <3>3, <3>4, ForecastIsGood DEF Statistical
  <2> QED
    BY <2>1, <2>2 DEF RowsRewritten
<1>2. CASE Refresh
  <2>1. PICK S \in SUBSET Fixture :
          row' = [f \in Fixture |-> [m \in Model |-> IF f \in S /\ m \in Baselines
                                                     THEN BaselineRow(m, f) ELSE row[f][m]]]
    BY <1>2 DEF Refresh
  <2> QED
    BY <2>1, BaselineIsGood DEF RowsRewritten
<1>3. CASE CliPoisson
  <2>1. PICK S \in SUBSET Fixture :
          row' = [f \in Fixture |->
            [m \in Model |-> CASE f \in S /\ m = "seed"    -> Nothing
                               [] f \in S /\ m = "poisson" -> BaselineRow(m, f)
                               [] OTHER -> row[f][m]]]
    BY <1>3 DEF CliPoisson
  <2>2. ASSUME NEW f \in Fixture, NEW m \in Model
        PROVE  row'[f][m] = Nothing \/ row'[f][m] = row[f][m] \/ (m = "poisson" /\ row'[f][m] = BaselineRow(m, f))
    BY <2>1
  <2> QED
    BY <2>2, BaselineIsGood DEF RowsRewritten, Baselines
<1>4. CASE SeedDemo
  <2>1. PICK S \in SUBSET Fixture :
          /\ \A f \in S : OkRows(f) = {}
          /\ row' = [f \in Fixture |-> [m \in Model |->
               IF m = "seed" /\ f \in S THEN AnswerRow(f, Demo, FALSE) ELSE row[f][m]]]
    BY <1>4, SeedsAreNew
  <2> QED
    BY <2>1, AnswerIsGood DEF RowsRewritten
<1>5. ASSUME NEW f \in Fixture, Ask(f) PROVE RowsRewritten
  <2>1. PICK out \in AnswersTo(f) : Put(f, "llm", AnswerRow(f, out, FALSE))
    BY <1>5 DEF Ask
  <2>2. out \in Answers \cup {Demo, Nothing}
    BY <2>1 DEF AnswersTo
  <2>3. "llm" \in Model
    BY DEF Model, Llm
  <2> QED
    BY <2>1, <2>2, <2>3, AnswerIsGood, PutsGood
<1>6. ASSUME NEW f \in Fixture, Batch(f) PROVE RowsRewritten
  <2>1. PICK out \in AnswersTo(f), b \in BOOLEAN : Put(f, "batch", AnswerRow(f, out, b))
    BY <1>6 DEF Batch
  <2>2. out \in Answers \cup {Demo, Nothing}
    BY <2>1 DEF AnswersTo
  <2>3. "batch" \in Model
    BY DEF Model, Llm
  <2> QED
    BY <2>1, <2>2, <2>3, AnswerIsGood, PutsGood
<1>7. ASSUME NEW f \in Fixture, Postpone(f) \/ Finish(f) \/ Grade(f) PROVE UNCHANGED row
  BY <1>7 DEF Postpone, Finish, Grade
<1>8. Tick \/ UNCHANGED svars => UNCHANGED row
  BY DEF Tick, svars
<1>9. UNCHANGED row => RowsRewritten
  BY DEF RowsRewritten
<1> QED
  BY <1>1, <1>2, <1>3, <1>4, <1>5, <1>6, <1>7, <1>8, <1>9 DEF SNext

LEMMA PointsInRange ==
  ASSUME NEW stage, NEW exact \in BOOLEAN, NEW correct \in BOOLEAN
  PROVE  MatchPoints(stage, exact, correct) \in 0..MaxPoints(stage) /\ MaxPoints(stage) \in Nat
<1>1. Listed(stage) \in Stages
  BY DEF Listed, Stages
<1>2. OutcomePoints[Listed(stage)] \in Nat /\ ExactPoints[Listed(stage)] \in Nat
  BY <1>1 DEF OutcomePoints, ExactPoints, Stages
<1>3. MaxPoints(stage) \in Nat
  BY <1>2 DEF MaxPoints
<1>4. MatchPoints(stage, exact, correct) \in Nat
  BY <1>2 DEF MatchPoints
<1>5. MatchPoints(stage, exact, correct) <= MaxPoints(stage)
  BY <1>2, PointsAreTiered DEF MatchPoints, MaxPoints
<1> QED
  BY <1>3, <1>4, <1>5

LEMMA MarkIsSound ==
  ASSUME NEW f \in Fixture, NEW m, RowOK(f, m), NEW result
  PROVE  /\ MarkOf(f, m, result).exact => MarkOf(f, m, result).correct
         /\ MarkOf(f, m, result).points \in 0..MaxPoints(Stage[f])
<1>1. PICK pred : pred = ToMetricPred(row[f][m], Home[f], Away[f])
  OBVIOUS
<1>2. pred.home \in Nat /\ pred.away \in Nat
  BY <1>1 DEF RowOK, ToMetricPred
<1>3. PICK exact \in BOOLEAN, correct \in BOOLEAN : exact = ExactHit(pred, result) /\ correct = OutcomeCorrect(pred, result)
  BY DEF ExactHit, OutcomeCorrect
<1>4. exact => correct
  BY <1>2, <1>3, ExactIsCorrect
<1>5. MatchPoints(Stage[f], exact, correct) \in 0..MaxPoints(Stage[f])
  BY PointsInRange
<1>6. MarkOf(f, m, result) = Mark(Stage[f], pred, result)
  BY <1>1 DEF MarkOf
<1>7. /\ Mark(Stage[f], pred, result).exact = exact
      /\ Mark(Stage[f], pred, result).correct = correct
      /\ Mark(Stage[f], pred, result).points = MatchPoints(Stage[f], exact, correct)
  BY <1>3 DEF Mark
<1> QED
  BY <1>4, <1>5, <1>6, <1>7

LEMMA GradesStaySound ==
  ASSUME GradesAreSound,
         \A f \in Fixture, m \in Model : grade'[f][m] # Nothing =>
           grade'[f][m] = grade[f][m] /\ (row'[f][m] = row[f][m] \/ row'[f][m] # Nothing)
  PROVE  GradesAreSound'
BY DEF GradesAreSound, GradeOK

LEMMA MarkingIsSound ==
  ASSUME RowsAreSound, GradesAreSound, NEW f \in Fixture, NEW result,
         grade' = Graded(f, result), UNCHANGED row
  PROVE  GradesAreSound'
<1>1. \A g \in Fixture, m \in Model :
        grade'[g][m] = IF g = f /\ m \in Ungraded(f) THEN MarkOf(f, m, result) ELSE grade[g][m]
  BY DEF Graded
<1>2. ASSUME NEW g \in Fixture, NEW m \in Model, grade'[g][m] # Nothing
      PROVE  GradeOK(g, m)'
  <2>1. CASE g = f /\ m \in Ungraded(f)
    <3>1. row[f][m] # Nothing /\ RowOK(f, m)
      BY <2>1 DEF Ungraded, OkRows, RowsAreSound
    <3>2. grade'[f][m] = MarkOf(f, m, result)
      BY <1>1, <2>1
    <3> QED
      BY <2>1, <3>1, <3>2, MarkIsSound DEF GradeOK
  <2>2. CASE ~ (g = f /\ m \in Ungraded(f))
    <3>1. grade'[g][m] = grade[g][m]
      BY <1>1, <2>2
    <3> QED
      BY <1>2, <3>1 DEF GradesAreSound, GradeOK
  <2> QED
    BY <2>1, <2>2
<1> QED
  BY <1>2 DEF GradesAreSound

LEMMA PutKeepsGrades ==
  ASSUME GradesAreSound, NEW f \in Fixture, NEW m, NEW r, Put(f, m, r), r # Nothing, UNCHANGED grade
  PROVE  GradesAreSound'
<1>1. row' = [g \in Fixture |-> [n \in Model |-> IF g = f /\ n = m THEN r ELSE row[g][n]]]
  BY DEF Put
<1>2. \A g \in Fixture, n \in Model : row'[g][n] = row[g][n] \/ row'[g][n] # Nothing
  BY <1>1
<1> QED
  BY <1>2, GradesStaySound

LEMMA NextGrades ==
  ASSUME ScoresSound, RowsAreSound, GradesAreSound, [SNext]_svars
  PROVE  GradesAreSound'
<1>1. CASE UNCHANGED <<row, grade>>
  BY <1>1, GradesStaySound
<1>2. CASE Refresh
  <2>1. PICK S \in SUBSET Fixture :
          row' = [f \in Fixture |-> [m \in Model |-> IF f \in S /\ m \in Baselines
                                                     THEN BaselineRow(m, f) ELSE row[f][m]]]
    BY <1>2 DEF Refresh
  <2>2. grade' = Ungrade(Statistical)
    BY <1>2 DEF Refresh
  <2> QED
    BY <2>1, <2>2, GradesStaySound DEF Ungrade, Statistical
<1>3. CASE CliPoisson
  <2>1. PICK S \in SUBSET Fixture :
          /\ row' = [f \in Fixture |->
               [m \in Model |-> CASE f \in S /\ m = "seed"    -> Nothing
                                  [] f \in S /\ m = "poisson" -> BaselineRow(m, f)
                                  [] OTHER -> row[f][m]]]
          /\ grade' = [f \in Fixture |->
               [m \in Model |-> IF m = "poisson" \/ (f \in S /\ m = "seed") THEN Nothing ELSE grade[f][m]]]
    BY <1>3 DEF CliPoisson
  <2>2. \A f \in Fixture, m \in Model : grade'[f][m] # Nothing =>
           grade'[f][m] = grade[f][m] /\ row'[f][m] = row[f][m]
    BY <2>1
  <2> QED
    BY <2>2, GradesStaySound
<1>4. CASE Market
  <2>1. PICK feed \in Feeds, cap \in Caps, S \in SUBSET Fixture :
          /\ S \in FirstOf({f \in Upcoming : now < Kickoff[f]}, cap)
          /\ row' = [f \in Fixture |-> [m \in Model |->
               IF m = "market" /\ f \in S /\ EventFor(feed, f) # {}
               THEN MarketRow(feed, One(EventFor(feed, f)), f) ELSE row[f][m]]]
    BY <1>4 DEF Market
  <2>2. \A f \in S : ~ Final(f)
    BY <2>1 DEF FirstOf, Upcoming, ScoresSound, ScoresAreFinal
  <2>3. \A f \in Fixture, m \in Model : grade[f][m] # Nothing => row'[f][m] = row[f][m]
    BY <2>1, <2>2 DEF ScoresSound, OnlyFinalsGraded
  <2> QED
    BY <1>4, <2>3, GradesStaySound DEF Market
<1>5. CASE SeedDemo
  <2>1. PICK S \in SUBSET Fixture :
          /\ \A f \in S : OkRows(f) = {}
          /\ row' = [f \in Fixture |-> [m \in Model |->
               IF m = "seed" /\ f \in S THEN AnswerRow(f, Demo, FALSE) ELSE row[f][m]]]
    BY <1>5, SeedsAreNew
  <2>2. \A f \in Fixture, m \in Model : row'[f][m] = row[f][m] \/ row'[f][m] # Nothing
    BY <2>1, AnswersAreRows
  <2> QED
    BY <1>5, <2>2, GradesStaySound DEF SeedDemo
<1>6. ASSUME NEW f \in Fixture, Ask(f) PROVE GradesAreSound'
  <2>1. PICK out \in AnswersTo(f) : Put(f, "llm", AnswerRow(f, out, FALSE))
    BY <1>6 DEF Ask
  <2>2. AnswerRow(f, out, FALSE) # Nothing
    BY <2>1, AnswersAreRows DEF AnswersTo
  <2> QED
    BY <1>6, <2>1, <2>2, PutKeepsGrades DEF Ask
<1>7. ASSUME NEW f \in Fixture, Batch(f) PROVE GradesAreSound'
  <2>1. PICK out \in AnswersTo(f), b \in BOOLEAN : Put(f, "batch", AnswerRow(f, out, b))
    BY <1>7 DEF Batch
  <2>2. AnswerRow(f, out, b) # Nothing
    BY <2>1, AnswersAreRows DEF AnswersTo
  <2> QED
    BY <1>7, <2>1, <2>2, PutKeepsGrades DEF Batch
<1>8. ASSUME NEW f \in Fixture, Grade(f) PROVE GradesAreSound'
  BY <1>1, <1>8, MarkingIsSound DEF Grade
<1>9. ASSUME NEW f \in Fixture, Postpone(f) \/ Finish(f) PROVE UNCHANGED <<row, grade>>
  BY <1>9 DEF Postpone, Finish
<1>10. Tick \/ UNCHANGED svars => UNCHANGED <<row, grade>>
  BY DEF Tick, svars
<1> QED
  BY <1>1, <1>2, <1>3, <1>4, <1>5, <1>6, <1>7, <1>8, <1>9, <1>10 DEF SNext

-----------------------------------------------------------------------------
(* The language models' rows, in the order they were made *)

Chronology(e, R) ==
  /\ e \subseteq R \X R
  /\ \A m, n \in R : m # n => (<<m, n>> \in e <=> <<n, m>> \notin e)
  /\ \A m \in R : <<m, m>> \notin e
  /\ \A l, m, n \in R : <<l, m>> \in e /\ <<m, n>> \in e => <<l, n>> \in e

LEMMA ChronologyGrows ==
  ASSUME NEW e, NEW R, NEW m, m \notin R, Chronology(e, R)
  PROVE  Chronology(e \cup {<<n, m>> : n \in R}, R \cup {m})
<1> DEFINE d == e \cup {<<n, m>> : n \in R}
           T == R \cup {m}
<1>1. d \subseteq T \X T
  BY DEF Chronology
<1>2. \A x, y \in R : <<x, y>> \in d <=> <<x, y>> \in e
  OBVIOUS
<1>3. \A x \in T : <<x, m>> \in d <=> x \in R
  BY DEF Chronology
<1>4. \A x \in T : <<m, x>> \notin d
  BY DEF Chronology
<1> HIDE DEF d
<1> QED
  BY <1>1, <1>2, <1>3, <1>4 DEF Chronology

LEMMA ChronologyShrinks ==
  ASSUME NEW e, NEW R, NEW x, Chronology(e, R)
  PROVE  Chronology({p \in e : x \notin {p[1], p[2]}}, R \ {x})
<1> DEFINE d == {p \in e : x \notin {p[1], p[2]}}
           T == R \ {x}
<1>1. d \subseteq T \X T
  BY DEF Chronology
<1>2. \A m, n \in T : <<m, n>> \in d <=> <<m, n>> \in e
  OBVIOUS
<1> HIDE DEF d
<1> QED
  BY <1>1, <1>2 DEF Chronology

Pairs == made \in [Fixture -> SUBSET (Llm \X Llm)]

LEMMA DatedByChronology ==
  /\ RowsAreDated <=> \A f \in Fixture : Chronology(made[f], RowsOfLlm(f))
  /\ RowsAreDated' <=> \A f \in Fixture : Chronology(made'[f], RowsOfLlm(f)')
BY DEF RowsAreDated, Chronological, Chronology

LEMMA UndisturbedDates ==
  ASSUME Pairs, RowsAreDated, UNCHANGED made, \A f \in Fixture, m \in Llm : row'[f][m] = row[f][m]
  PROVE  RowsAreDated' /\ Pairs'
<1>1. \A f \in Fixture : RowsOfLlm(f)' = RowsOfLlm(f)
  BY DEF RowsOfLlm
<1> QED
  BY <1>1, DatedByChronology DEF Pairs

LEMMA NotedDates ==
  ASSUME NEW f \in Fixture, NEW m \in Llm, Chronology(made[f], RowsOfLlm(f)),
         RowsOfLlm(f)' = RowsOfLlm(f) \cup {m}
  PROVE  Chronology(Noted(f, m), RowsOfLlm(f)')
<1>1. CASE row[f][m] = Nothing
  <2>1. m \notin RowsOfLlm(f)
    BY <1>1 DEF RowsOfLlm
  <2>2. Noted(f, m) = made[f] \cup {<<n, m>> : n \in RowsOfLlm(f)}
    BY <1>1 DEF Noted
  <2> QED
    BY <2>1, <2>2, ChronologyGrows
<1>2. CASE row[f][m] # Nothing
  <2>1. RowsOfLlm(f)' = RowsOfLlm(f)
    BY <1>2 DEF RowsOfLlm
  <2> QED
    BY <1>2, <2>1 DEF Noted
<1> QED
  BY <1>1, <1>2

LEMMA PutDates ==
  ASSUME Pairs, RowsAreDated, NEW f \in Fixture, NEW m \in Llm, NEW r, r # Nothing, Put(f, m, r)
  PROVE  RowsAreDated' /\ Pairs'
<1>1. /\ row' = [g \in Fixture |-> [n \in Model |-> IF g = f /\ n = m THEN r ELSE row[g][n]]]
      /\ made' = [made EXCEPT ![f] = Noted(f, m)]
  BY DEF Put
<1>2. \A n \in Llm : n \in Model
  BY DEF Model
<1>3. RowsOfLlm(f)' = RowsOfLlm(f) \cup {m}
  BY <1>1, <1>2 DEF RowsOfLlm
<1>4. \A g \in Fixture : g # f => RowsOfLlm(g)' = RowsOfLlm(g)
  BY <1>1, <1>2 DEF RowsOfLlm
<1>5. made'[f] = Noted(f, m) /\ \A g \in Fixture : g # f => made'[g] = made[g]
  BY <1>1 DEF Pairs
<1>6. Chronology(made'[f], RowsOfLlm(f)')
  BY <1>3, <1>5, NotedDates, DatedByChronology
<1>7. RowsAreDated'
  BY <1>4, <1>5, <1>6, DatedByChronology
<1>8. Noted(f, m) \in SUBSET (Llm \X Llm)
  BY DEF Noted, RowsOfLlm, Pairs
<1> QED
  BY <1>1, <1>7, <1>8 DEF Pairs

LEMMA NextDates ==
  ASSUME Pairs, RowsAreDated, [SNext]_svars
  PROVE  RowsAreDated' /\ Pairs'
<1>1. CASE UNCHANGED <<row, made>>
  BY <1>1, UndisturbedDates
<1>2. CASE Refresh
  <2>1. PICK S \in SUBSET Fixture :
          row' = [f \in Fixture |-> [m \in Model |-> IF f \in S /\ m \in Baselines
                                                     THEN BaselineRow(m, f) ELSE row[f][m]]]
    BY <1>2 DEF Refresh
  <2>2. \A f \in Fixture, m \in Llm : row'[f][m] = row[f][m]
    BY <2>1 DEF Model, Llm, Baselines
  <2> QED
    BY <1>2, <2>2, UndisturbedDates DEF Refresh
<1>3. CASE CliPoisson
  <2>1. PICK S \in SUBSET Fixture :
          /\ row' = [f \in Fixture |->
               [m \in Model |-> CASE f \in S /\ m = "seed"    -> Nothing
                                  [] f \in S /\ m = "poisson" -> BaselineRow(m, f)
                                  [] OTHER -> row[f][m]]]
          /\ made' = [f \in Fixture |-> {p \in made[f] : f \in S => "seed" \notin {p[1], p[2]}}]
    BY <1>3 DEF CliPoisson
  <2>2. \A f \in Fixture, m \in Llm : row'[f][m] = IF f \in S /\ m = "seed" THEN Nothing ELSE row[f][m]
    <3>1. \A m \in Llm : m \in Model /\ m # "poisson"
      BY DEF Model, Llm
    <3> QED
      BY <2>1, <3>1
  <2>3. ASSUME NEW f \in Fixture PROVE Chronology(made'[f], RowsOfLlm(f)')
    <3>1. CASE f \in S
      <4>1. RowsOfLlm(f)' = RowsOfLlm(f) \ {"seed"}
        BY <2>2, <3>1 DEF RowsOfLlm
      <4>2. made'[f] = {p \in made[f] : "seed" \notin {p[1], p[2]}}
        BY <2>1, <3>1
      <4>3. PICK e, R, x : e = made[f] /\ R = RowsOfLlm(f) /\ x = "seed"
        OBVIOUS
      <4>4. Chronology(e, R)
        BY <4>3, DatedByChronology
      <4>5. Chronology({p \in e : x \notin {p[1], p[2]}}, R \ {x})
        BY <4>4, ChronologyShrinks
      <4>6. made'[f] = {p \in e : x \notin {p[1], p[2]}} /\ RowsOfLlm(f)' = R \ {x}
        BY <4>1, <4>2, <4>3
      <4> QED
        BY <4>5, <4>6, Zenon
    <3>2. CASE f \notin S
      <4>1. RowsOfLlm(f)' = RowsOfLlm(f)
        BY <2>2, <3>2 DEF RowsOfLlm
      <4>2. made'[f] = made[f]
        BY <2>1, <3>2
      <4> QED
        BY <4>1, <4>2, DatedByChronology
    <3> QED
      BY <3>1, <3>2
  <2>4. Pairs'
    BY <2>1 DEF Pairs
  <2> QED
    BY <2>3, <2>4, DatedByChronology
<1>4. CASE Market
  <2>1. PICK feed \in Feeds, S \in SUBSET Fixture :
          row' = [f \in Fixture |-> [m \in Model |->
               IF m = "market" /\ f \in S /\ EventFor(feed, f) # {}
               THEN MarketRow(feed, One(EventFor(feed, f)), f) ELSE row[f][m]]]
    BY <1>4 DEF Market
  <2>2. \A f \in Fixture, m \in Llm : row'[f][m] = row[f][m]
    BY <2>1 DEF Model, Llm
  <2> QED
    BY <1>4, <2>2, UndisturbedDates DEF Market
<1>5. CASE SeedDemo
  <2>1. PICK S \in SUBSET Fixture :
          /\ row' = [f \in Fixture |-> [m \in Model |->
               IF m = "seed" /\ f \in S THEN AnswerRow(f, Demo, FALSE) ELSE row[f][m]]]
          /\ made' = [f \in Fixture |-> IF f \in S THEN Noted(f, "seed") ELSE made[f]]
    <3>1. PICK next \in SUBSET Fixture, seen \in SUBSET Fixture :
            /\ row' = [f \in Fixture |-> [m \in Model |-> IF m = "seed" /\ f \in {g \in seen : OkRows(g) = {}}
                                                           THEN AnswerRow(f, Demo, FALSE) ELSE row[f][m]]]
            /\ made' = [f \in Fixture |-> IF f \in {g \in seen : OkRows(g) = {}} THEN Noted(f, "seed") ELSE made[f]]
      <4>1. PICK next \in SUBSET Fixture :
              /\ row' = [f \in Fixture |-> [m \in Model |->
                   IF m = "seed" /\ f \in {g \in next \cup {h \in Fixture : status[h] = "finished"} : OkRows(g) = {}}
                   THEN AnswerRow(f, Demo, FALSE) ELSE row[f][m]]]
              /\ made' = [f \in Fixture |->
                   IF f \in {g \in next \cup {h \in Fixture : status[h] = "finished"} : OkRows(g) = {}}
                   THEN Noted(f, "seed") ELSE made[f]]
        BY <1>5 DEF SeedDemo
      <4>2. next \cup {h \in Fixture : status[h] = "finished"} \in SUBSET Fixture
        OBVIOUS
      <4> QED
        BY <4>1, <4>2
    <3> DEFINE S == {g \in seen : OkRows(g) = {}}
    <3>2. S \in SUBSET Fixture
      OBVIOUS
    <3>3. /\ row' = [f \in Fixture |-> [m \in Model |->
               IF m = "seed" /\ f \in S THEN AnswerRow(f, Demo, FALSE) ELSE row[f][m]]]
          /\ made' = [f \in Fixture |-> IF f \in S THEN Noted(f, "seed") ELSE made[f]]
      BY <3>1
    <3> HIDE DEF S
    <3> QED
      BY <3>2, <3>3
  <2>2. \A f \in Fixture, m \in Llm : row'[f][m] = IF m = "seed" /\ f \in S THEN AnswerRow(f, Demo, FALSE) ELSE row[f][m]
    BY <2>1 DEF Model
  <2>3. "seed" \in Llm
    BY DEF Llm
  <2>4. \A f \in Fixture : AnswerRow(f, Demo, FALSE) # Nothing
    BY AnswersAreRows
  <2>5. ASSUME NEW f \in Fixture PROVE Chronology(made'[f], RowsOfLlm(f)')
    <3>1. CASE f \in S
      <4>1. RowsOfLlm(f)' = RowsOfLlm(f) \cup {"seed"}
        BY <2>2, <2>3, <2>4, <3>1 DEF RowsOfLlm
      <4>2. made'[f] = Noted(f, "seed")
        BY <2>1, <3>1
      <4> QED
        BY <2>3, <4>1, <4>2, NotedDates, DatedByChronology
    <3>2. CASE f \notin S
      <4>1. RowsOfLlm(f)' = RowsOfLlm(f)
        BY <2>2, <3>2 DEF RowsOfLlm
      <4>2. made'[f] = made[f]
        BY <2>1, <3>2
      <4> QED
        BY <4>1, <4>2, DatedByChronology
    <3> QED
      BY <3>1, <3>2
  <2>6. Pairs'
    <3>1. \A f \in Fixture : Noted(f, "seed") \in SUBSET (Llm \X Llm)
      BY <2>3 DEF Noted, RowsOfLlm, Pairs
    <3> QED
      BY <2>1, <3>1 DEF Pairs
  <2> QED
    BY <2>5, <2>6, DatedByChronology
<1>6. ASSUME NEW f \in Fixture, Ask(f) PROVE RowsAreDated' /\ Pairs'
  <2>1. PICK out \in AnswersTo(f) : Put(f, "llm", AnswerRow(f, out, FALSE))
    BY <1>6 DEF Ask
  <2>2. AnswerRow(f, out, FALSE) # Nothing /\ "llm" \in Llm
    BY <2>1, AnswersAreRows DEF AnswersTo, Llm
  <2> QED
    BY <2>1, <2>2, PutDates
<1>7. ASSUME NEW f \in Fixture, Batch(f) PROVE RowsAreDated' /\ Pairs'
  <2>1. PICK out \in AnswersTo(f), b \in BOOLEAN : Put(f, "batch", AnswerRow(f, out, b))
    BY <1>7 DEF Batch
  <2>2. AnswerRow(f, out, b) # Nothing /\ "batch" \in Llm
    BY <2>1, AnswersAreRows DEF AnswersTo, Llm
  <2> QED
    BY <2>1, <2>2, PutDates
<1>8. ASSUME NEW f \in Fixture, Postpone(f) \/ Finish(f) \/ Grade(f) PROVE UNCHANGED <<row, made>>
  BY <1>8 DEF Postpone, Finish, Grade
<1>9. Tick \/ UNCHANGED svars => UNCHANGED <<row, made>>
  BY DEF Tick, svars
<1> QED
  BY <1>1, <1>2, <1>3, <1>4, <1>5, <1>6, <1>7, <1>8, <1>9 DEF SNext

-----------------------------------------------------------------------------
(* The types, and the invariant *)

Times ==
  /\ now \in 0..LastSlot
  /\ status \in [Fixture -> {"scheduled", "postponed", "finished"}]
  /\ truth \in [Fixture -> Truths \cup {Nothing}]
  /\ \A f \in Fixture : stored[f] # Nothing => stored[f].status \in {"final", "void"}

LEMMA NextTimes ==
  ASSUME Times, ScoresSound, [SNext]_svars
  PROVE  Times'
<1>1. CASE UNCHANGED <<now, status, truth, stored>>
  BY <1>1 DEF Times
<1>2. CASE Tick
  BY <1>2, SeasonAssumption DEF Times, Tick
<1>3. ASSUME NEW f \in Fixture, Postpone(f) PROVE Times'
  BY <1>3 DEF Times, Postpone
<1>4. ASSUME NEW f \in Fixture, Finish(f) PROVE Times'
  <2>1. PICK t \in Truths : truth' = [truth EXCEPT ![f] = t]
    BY <1>4 DEF Finish
  <2> QED
    BY <1>4, <2>1 DEF Times, Finish
<1>5. ASSUME NEW f \in Fixture, Grade(f) PROVE Times'
  <2>1. UNCHANGED <<now, status, truth>>
    BY <1>5 DEF Grade
  <2>2. PICK r : (UNCHANGED stored \/ stored' = [stored EXCEPT ![f] = r]) /\ r.status \in {"final", "void"}
    <3>1. PICK v, w : v = Voided(f) /\ w = ToValues(truth[f], Home[f], Away[f], Nobody)
      OBVIOUS
    <3>2. v.status = "void" /\ w.status = "final"
      BY <3>1 DEF Voided, ToValues
    <3>3. \/ UNCHANGED stored
          \/ stored' = [stored EXCEPT ![f] = v]
          \/ stored' = [stored EXCEPT ![f] = w]
      BY <1>5, <3>1 DEF Grade
    <3> QED
      BY <3>2, <3>3
  <2>3. \A g \in Fixture : stored'[g] = stored[g] \/ stored'[g] = r
    BY <2>2 DEF ScoresSound
  <2> QED
    BY <2>1, <2>2, <2>3 DEF Times
<1>6. ASSUME NEW f \in Fixture, Ask(f) \/ Batch(f) PROVE UNCHANGED <<now, status, truth, stored>>
  BY <1>6 DEF Ask, Batch
<1>7. Refresh \/ CliPoisson \/ Market \/ SeedDemo \/ UNCHANGED svars => UNCHANGED <<now, status, truth, stored>>
  BY DEF Refresh, CliPoisson, Market, SeedDemo, svars
<1> QED
  BY <1>1, <1>2, <1>3, <1>4, <1>5, <1>6, <1>7 DEF SNext

LEMMA InvParts == SInv <=> Times /\ Pairs /\ RowsAreSound /\ GradesAreSound /\ RowsAreDated /\ ScoresSound
BY DEF SInv, STypeOK, Times, Pairs

(***************************************************************************)
(* Whatever was refreshed, seeded, deleted, postponed and marked: stored   *)
(* rows are within the limits of schemas.py, a Grade hangs on a row, an    *)
(* exact hit counts as a correct outcome and no Grade exceeds its stage's  *)
(* maximum, and the language models' rows of a match are in one order.     *)
(***************************************************************************)
THEOREM BooksAreSound == Expects => (SSpec => []SInv)
<1> SUFFICES ASSUME Expects PROVE SSpec => []SInv
  OBVIOUS
<1>1. SInit => SInv
  <2> SUFFICES ASSUME SInit PROVE SInv
    OBVIOUS
  <2>1. Times /\ Pairs
    BY SeasonAssumption DEF SInit, Times, Pairs
  <2>2. RowsAreSound /\ GradesAreSound
    BY DEF SInit, RowsAreSound, GradesAreSound
  <2>3. RowsAreDated
    <3>1. \A m \in Llm : m \in Model
      BY DEF Model
    <3>2. \A f \in Fixture : made[f] = {} /\ RowsOfLlm(f) = {}
      BY <3>1 DEF SInit, RowsOfLlm
    <3> QED
      BY <3>2, DatedByChronology DEF Chronology
  <2> QED
    BY <2>1, <2>2, <2>3, InitScores, InvParts
<1>2. SInv /\ [SNext]_svars => SInv'
  <2> SUFFICES ASSUME SInv, [SNext]_svars PROVE SInv'
    OBVIOUS
  <2>1. Times' /\ Pairs' /\ RowsAreDated'
    BY InvParts, NextTimes, NextDates
  <2>2. RowsAreSound' /\ GradesAreSound'
    BY InvParts, NextRows, RowsStaySound, NextGrades
  <2>3. ScoresSound'
    BY InvParts, NextScores
  <2> QED
    BY <2>1, <2>2, <2>3 DEF SInv, STypeOK, Times, Pairs
<1> QED
  BY <1>1, <1>2, PTL DEF SSpec

-----------------------------------------------------------------------------
(* The rows of the accuracy pages *)

\* of some of the rows of a match, one is the newest
LEMMA NewestExists ==
  ASSUME NEW e, NEW R \in SUBSET Llm, NEW G \in SUBSET R, G # {}, Chronology(e, R)
  PROVE  \E m \in G : \A n \in G : n = m \/ <<n, m>> \in e
<1>1. Llm = {"llm", "batch", "seed"}
  BY DEF Llm
<1>2. \A m, n \in G : m # n => <<m, n>> \in e \/ <<n, m>> \in e
  BY DEF Chronology
<1>3. \A l, m, n \in G : <<l, m>> \in e /\ <<m, n>> \in e => <<l, n>> \in e
  BY DEF Chronology
<1>4. \A m \in G : m = "llm" \/ m = "batch" \/ m = "seed"
  BY <1>1
<1>5. PICK x \in G : TRUE
  OBVIOUS
<1> DEFINE Newest(m) == \A n \in G : n = m \/ <<n, m>> \in e
<1>6. SUFFICES ASSUME ~ Newest(x) PROVE \E m \in G : Newest(m)
  OBVIOUS
<1>7. PICK y \in G : y # x /\ <<y, x>> \notin e
  BY <1>6
<1>8. SUFFICES ASSUME ~ Newest(y) PROVE \E m \in G : Newest(m)
  OBVIOUS
<1>9. PICK z \in G : z # y /\ <<z, y>> \notin e
  BY <1>8
<1>10. <<x, y>> \in e /\ <<y, z>> \in e /\ <<x, z>> \in e /\ z # x
  BY <1>2, <1>3, <1>7, <1>9
<1>11. \A n \in G : n = x \/ n = y \/ n = z
  BY <1>4, <1>7, <1>9, <1>10
<1>12. Newest(z)
  BY <1>10, <1>11
<1> QED
  BY <1>12

\* what the dashboard may rely on in n rows
Rows(rows, n) ==
  /\ n \in Nat /\ DOMAIN rows = 1..n /\ Len(rows) = n /\ (n = 0 => rows = <<>>)
  /\ \A j, k \in 1..n : j < k => Kickoff[rows[j].fixture] <= Kickoff[rows[k].fixture]
  /\ \A k \in 1..n :
       /\ rows[k].fixture \in Fixture
       /\ rows[k].grade.exact => rows[k].grade.correct
       /\ rows[k].grade.points \in 0..MaxPoints(Stage[rows[k].fixture])
       /\ rows[k].row.confidence \in 0..100

LEMMA HeadlinerIsSound ==
  ASSUME SInv, NEW f \in Counted
  PROVE  LET m == Headliner(f) IN m \in Llm /\ row[f][m] # Nothing /\ RowOK(f, m) /\ GradeOK(f, m)
<1> DEFINE G == {m \in Llm : <<f, m>> \in GradedBy(Llm)}
           R == RowsOfLlm(f)
           e == made[f]
<1>1. f \in Fixture /\ G # {}
  BY DEF Counted
<1>2. \A m \in G : m \in Model /\ grade[f][m] # Nothing
  BY DEF GradedBy, Marked, Model
<1>3. \A m \in G : GradeOK(f, m) /\ row[f][m] # Nothing
  BY <1>1, <1>2 DEF SInv, GradesAreSound, GradeOK
<1>4. G \in SUBSET R /\ R \in SUBSET Llm
  BY <1>3 DEF RowsOfLlm
<1>5. Chronology(e, R)
  BY <1>1, DatedByChronology DEF SInv
<1>6. Headliner(f) = CHOOSE m \in G : \A n \in G : n = m \/ <<n, m>> \in e
  BY DEF Headliner
<1> HIDE DEF G, R, e
<1>7. \E m \in G : \A n \in G : n = m \/ <<n, m>> \in e
  BY <1>1, <1>4, <1>5, NewestExists
<1>8. Headliner(f) \in G
  BY <1>6, <1>7
<1>9. Headliner(f) \in Llm /\ Headliner(f) \in Model
  BY <1>2, <1>4, <1>8
<1> QED
  BY <1>1, <1>3, <1>8, <1>9 DEF SInv, RowsAreSound

LEMMA HeadlineRowsAreSound ==
  ASSUME SInv, NEW rows \in HeadlineRows
  PROVE  Rows(rows, Cardinality(Counted))
<1> DEFINE n == Cardinality(Counted)
<1>1. PICK s \in KickoffOrders(Counted) :
        rows = [k \in DOMAIN s |-> [fixture |-> s[k], row |-> row[s[k]][Headliner(s[k])],
                                    grade |-> grade[s[k]][Headliner(s[k])]]]
  BY DEF HeadlineRows
<1>2. Counted \in SUBSET Fixture
  BY DEF Counted
<1>3. /\ n \in Nat /\ DOMAIN s = 1..n
      /\ \A k \in 1..n : s[k] \in Counted
      /\ \A j, k \in 1..n : j < k => Kickoff[s[j]] <= Kickoff[s[k]]
  BY <1>2, OrderFacts
<1> HIDE DEF n
<1>4. /\ DOMAIN rows = 1..n
      /\ \A k \in 1..n : /\ rows[k].fixture = s[k]
                         /\ rows[k].row = row[s[k]][Headliner(s[k])]
                         /\ rows[k].grade = grade[s[k]][Headliner(s[k])]
  BY <1>1, <1>3
<1>5. Len(rows) = n /\ (n = 0 => rows = <<>>)
  <2> DEFINE X == {rows[k] : k \in 1..n}
  <2>1. rows = [k \in 1..n |-> rows[k]]
    BY <1>1, <1>3
  <2>2. rows \in [1..n -> X]
    BY <2>1
  <2> HIDE DEF X
  <2>3. rows \in Seq(X)
    BY <1>3, <2>2, SeqDef
  <2>4. Len(rows) = n
    BY <1>3, <1>4, <2>3, LenProperties
  <2> QED
    BY <2>3, <2>4, EmptySeq
<1>6. ASSUME NEW k \in 1..n
      PROVE  /\ rows[k].fixture \in Fixture
             /\ rows[k].grade.exact => rows[k].grade.correct
             /\ rows[k].grade.points \in 0..MaxPoints(Stage[rows[k].fixture])
             /\ rows[k].row.confidence \in 0..100
  <2>1. PICK f \in Counted : f = s[k]
    BY <1>3
  <2>m. PICK m : m = Headliner(f)
    OBVIOUS
  <2>2. m \in Llm /\ RowOK(f, m) /\ GradeOK(f, m)
    BY <2>m, HeadlinerIsSound
  <2>3. rows[k].fixture = f /\ rows[k].row = row[f][m] /\ rows[k].grade = grade[f][m]
    BY <1>4, <2>1, <2>m
  <2> QED
    BY <1>2, <2>2, <2>3 DEF RowOK, GradeOK
<1>7. \A j, k \in 1..n : j < k => Kickoff[rows[j].fixture] <= Kickoff[rows[k].fixture]
  BY <1>3, <1>4
<1> QED
  BY <1>3, <1>4, <1>5, <1>6, <1>7 DEF Rows, n

-----------------------------------------------------------------------------
(* The books *)

Points(rows, n) == [k \in 1..n |-> rows[k].grade.points]

LEMMA PointsAreSums ==
  ASSUME NEW rows, NEW n, Rows(rows, n)
  PROVE  /\ IsFiniteSet(1..n) /\ Naturals(Points(rows, n), 1..n) /\ Numbers(Points(rows, n), 1..n)
         /\ \A K \in SUBSET (1..n) : PointsOf(rows, K) = Sum(Points(rows, n), K)
<1>1. IsFiniteSet(1..n)
  BY FS_Interval DEF Rows
<1>2. Naturals(Points(rows, n), 1..n) /\ Numbers(Points(rows, n), 1..n)
  <2>1. \A k \in 1..n : rows[k].grade.points \in Nat
    BY PointsInRange DEF Rows
  <2> QED
    BY <2>1 DEF Naturals, Numbers, Points
<1>3. ASSUME NEW K \in SUBSET (1..n)
      PROVE  PointsOf(rows, K) = Sum(Points(rows, n), K)
  <2>1. [k \in K |-> rows[k].grade.points] = [k \in K |-> Points(rows, n)[k]]
    BY DEF Points
  <2> QED
    BY <2>1, Zenon DEF PointsOf, Sum
<1> QED
  BY <1>1, <1>2, <1>3

LEMMA StagesMakeTheTotal ==
  ASSUME NEW rows, NEW n, Rows(rows, n)
  PROVE  TotalPoints(rows) = SumFunction([s \in DOMAIN PointsByStage(rows) |-> PointsByStage(rows)[s].points])
<1> DEFINE c == [k \in 1..n |-> Stage[rows[k].fixture]]
           B == {Stage[rows[k].fixture] : k \in DOMAIN rows}
           v == Points(rows, n)
           p == [s \in B |-> PointsOf(rows, InStage(rows, s))]
<1>1. DOMAIN rows = 1..n
  BY DEF Rows
<1>2. [s \in DOMAIN PointsByStage(rows) |-> PointsByStage(rows)[s].points] = p
  BY DEF PointsByStage
<1>3. \A s \in B : InStage(rows, s) = Box(1..n, c, s) /\ InStage(rows, s) \in SUBSET (1..n)
  BY <1>1 DEF InStage, Box
<1>4. p = [s \in B |-> Boxes(v, 1..n, c, B)[s]]
  <2>1. \A s \in B : PointsOf(rows, InStage(rows, s)) = Sum(v, Box(1..n, c, s))
    BY <1>3, PointsAreSums
  <2>2. \A s \in B : p[s] = Boxes(v, 1..n, c, B)[s]
    BY <2>1 DEF Boxes
  <2> HIDE DEF B
  <2> QED
    BY <2>2
<1>5. IsFiniteSet(B)
  <2>1. c \in Surjection(1..n, B)
    BY <1>1 DEF Surjection
  <2>2. IsFiniteSet(1..n)
    BY PointsAreSums
  <2> HIDE DEF c, B
  <2> QED
    BY <2>1, <2>2, FS_Surjection
<1>6. Into(c, 1..n, B)
  BY <1>1 DEF Into
<1>7. TotalPoints(rows) = Sum(v, 1..n)
  <2>1. 1..n \in SUBSET (1..n)
    OBVIOUS
  <2> QED
    BY <1>1, <2>1, PointsAreSums DEF TotalPoints
<1>8. SumFunction(p) = Sum(Boxes(v, 1..n, c, B), B)
  BY <1>4, Zenon DEF Sum
<1> HIDE DEF c, B, v, p
<1>9. Sum(Boxes(v, 1..n, c, B), B) = Sum(v, 1..n)
  <2>1. IsFiniteSet(1..n) /\ Numbers(v, 1..n)
    BY PointsAreSums DEF v
  <2> QED
    BY <1>5, <1>6, <2>1, SumOfBoxes
<1> QED
  BY <1>2, <1>7, <1>8, <1>9

LEMMA NobodyBeatsTheMaximum ==
  ASSUME NEW rows, NEW n, Rows(rows, n)
  PROVE  TotalPoints(rows) <= MostOf(rows, DOMAIN rows)
<1> DEFINE v == Points(rows, n)
           w == [k \in 1..n |-> MaxPoints(Stage[rows[k].fixture])]
<1>1. DOMAIN rows = 1..n /\ 1..n \in SUBSET (1..n)
  BY DEF Rows
<1>2. TotalPoints(rows) = Sum(v, 1..n)
  BY <1>1, PointsAreSums DEF TotalPoints
<1>3. MostOf(rows, DOMAIN rows) = Sum(w, 1..n)
  <2>1. w = [k \in 1..n |-> w[k]]
    OBVIOUS
  <2>2. MostOf(rows, DOMAIN rows) = SumFunction(w)
    BY <1>1 DEF MostOf
  <2> HIDE DEF w
  <2> QED
    BY <2>1, <2>2, Zenon DEF Sum
<1>4. Numbers(w, 1..n) /\ Below(v, w, 1..n)
  <2>1. \A k \in 1..n : v[k] = rows[k].grade.points /\ w[k] = MaxPoints(Stage[rows[k].fixture])
    BY DEF Points
  <2>2. \A k \in 1..n : MaxPoints(Stage[rows[k].fixture]) \in Nat
    BY PointsInRange
  <2>3. \A k \in 1..n : rows[k].grade.points \in 0..MaxPoints(Stage[rows[k].fixture])
    BY DEF Rows
  <2>4. \A k \in 1..n : rows[k].grade.points <= MaxPoints(Stage[rows[k].fixture])
    BY <2>2, <2>3
  <2> HIDE DEF v, w
  <2> QED
    BY <2>1, <2>2, <2>4 DEF Numbers, Below
<1>5. IsFiniteSet(1..n) /\ Numbers(v, 1..n)
  BY PointsAreSums
<1> HIDE DEF v, w
<1>6. Sum(v, 1..n) <= Sum(w, 1..n)
  BY <1>4, <1>5, SumIsMonotone
<1> QED
  BY <1>2, <1>3, <1>6

Date(rows, k) == Kickoff[rows[k].fixture]

Outcomes(rows, k) == Cardinality({l \in 1..k : rows[l].grade.correct})
Exacts(rows, k) == Cardinality({l \in 1..k : rows[l].grade.exact})

TrendPoint(rows, k) ==
  [date |-> Date(rows, k), n |-> k, outcomes |-> Outcomes(rows, k), exact |-> Exacts(rows, k),
   points |-> PointsOf(rows, 1..k)]

LEMMA TrendPoints ==
  ASSUME NEW rows
  PROVE  Trend(rows) = {TrendPoint(rows, k) : k \in Ends(rows)}
BY Zenon DEF Trend, TrendPoint, Date, Outcomes, Exacts

\* between two ends that kick off apart there is nothing to lose
LEMMA TrendGrows ==
  ASSUME NEW rows, NEW n, Rows(rows, n),
         NEW p \in Trend(rows), NEW q \in Trend(rows), p.date < q.date
  PROVE  p.n < q.n /\ p.points <= q.points /\ p.exact <= q.outcomes
<1>1. PICK j \in Ends(rows), k \in Ends(rows) :
        /\ p.date = Date(rows, j) /\ q.date = Date(rows, k) /\ p.n = j /\ q.n = k
        /\ p.points = PointsOf(rows, 1..j) /\ q.points = PointsOf(rows, 1..k)
        /\ p.exact = Exacts(rows, j) /\ q.outcomes = Outcomes(rows, k)
  BY TrendPoints DEF TrendPoint
<1>2. n \in Nat /\ j \in 1..n /\ k \in 1..n
  BY DEF Ends, Rows
<1>3. \A i \in 1..n : Date(rows, i) \in Nat
  BY SeasonAssumption DEF Rows, Date
<1>4. j < k
  <2> SUFFICES ASSUME ~ (j < k) PROVE FALSE
    OBVIOUS
  <2>1. k = j \/ k < j
    BY <1>2
  <2>2. Date(rows, k) <= Date(rows, j)
    BY <1>2, <1>3, <2>1 DEF Rows, Date
  <2> QED
    BY <1>1, <1>2, <1>3, <2>2
<1>5. 1..j \in SUBSET (1..k) /\ 1..k \in SUBSET (1..n) /\ 1..j \in SUBSET (1..n)
  BY <1>2, <1>4
<1>6. IsFiniteSet(1..k)
  BY <1>2, FS_Interval
<1>7. PointsOf(rows, 1..j) <= PointsOf(rows, 1..k)
  <2>1. PICK v, J, K : v = Points(rows, n) /\ J = 1..j /\ K = 1..k
    OBVIOUS
  <2>2. Naturals(v, K) /\ IsFiniteSet(K) /\ J \in SUBSET K
    BY <1>5, <1>6, <2>1, PointsAreSums DEF Naturals
  <2>3. Sum(v, J) <= Sum(v, K)
    BY <2>2, SumOfPart
  <2>4. PointsOf(rows, J) = Sum(v, J) /\ PointsOf(rows, K) = Sum(v, K)
    BY <1>5, <2>1, PointsAreSums
  <2> QED
    BY <2>1, <2>3, <2>4
<1>8. Exacts(rows, j) <= Outcomes(rows, k)
  <2> DEFINE X == {l \in 1..j : rows[l].grade.exact}
             Y == {l \in 1..k : rows[l].grade.correct}
  <2>1. X \in SUBSET Y
    BY <1>5 DEF Rows
  <2>2. IsFiniteSet(Y)
    BY <1>6, FS_Subset
  <2> HIDE DEF X, Y
  <2>3. Cardinality(X) <= Cardinality(Y)
    BY <2>1, <2>2, FS_Subset
  <2> QED
    BY <2>3 DEF X, Y, Exacts, Outcomes
<1> QED
  BY <1>1, <1>4, <1>7, <1>8

LEMMA OneEndADay ==
  ASSUME NEW rows, NEW n, Rows(rows, n), NEW j \in Ends(rows), NEW k \in Ends(rows), j # k
  PROVE  Date(rows, j) # Date(rows, k)
<1>1. j \in 1..n /\ k \in 1..n
  BY DEF Ends, Rows
<1>2. \A i \in 1..n : Date(rows, i) \in Nat
  BY SeasonAssumption DEF Rows, Date
<1>3. ASSUME NEW a \in Ends(rows), NEW b \in Ends(rows), a \in 1..n, b \in 1..n, a < b
      PROVE  Date(rows, a) # Date(rows, b)
  <2>1. a # n /\ a + 1 \in 1..n
    BY <1>3 DEF Rows
  <2>2. Date(rows, a) # Date(rows, a + 1)
    BY <2>1 DEF Ends, Rows, Date
  <2>3. Date(rows, a) <= Date(rows, a + 1)
    BY <1>3, <2>1 DEF Rows, Date
  <2>4. Date(rows, a + 1) <= Date(rows, b)
    <3>1. CASE a + 1 = b
      BY <1>2, <1>3, <3>1
    <3>2. CASE a + 1 < b
      BY <1>3, <2>1, <3>2 DEF Rows, Date
    <3> QED
      BY <1>3, <3>1, <3>2
  <2>5. Date(rows, a) \in Nat /\ Date(rows, a + 1) \in Nat /\ Date(rows, b) \in Nat
    BY <1>2, <1>3, <2>1
  <2> QED
    BY <2>2, <2>3, <2>4, <2>5
<1> QED
  BY <1>1, <1>3

LEMMA OnePointADay ==
  ASSUME NEW rows, NEW n, Rows(rows, n)
  PROVE  Cardinality({p.date : p \in Trend(rows)}) = Cardinality(Ends(rows))
<1> DEFINE E == Ends(rows)
           T == {p.date : p \in Trend(rows)}
           f == [k \in E |-> Date(rows, k)]
<1>1. T = {Date(rows, k) : k \in E}
  <2>1. \A k \in E : TrendPoint(rows, k).date = Date(rows, k)
    BY DEF TrendPoint
  <2>2. Trend(rows) = {TrendPoint(rows, k) : k \in E}
    BY TrendPoints
  <2> HIDE DEF E
  <2> QED
    BY <2>1, <2>2
<1>2. IsFiniteSet(E)
  <2>1. E \in SUBSET (1..n) /\ IsFiniteSet(1..n)
    BY PointsAreSums DEF Ends, Rows
  <2> HIDE DEF E
  <2> QED
    BY <2>1, FS_Subset
<1>3. \A j, k \in E : j # k => Date(rows, j) # Date(rows, k)
  BY OneEndADay
<1> HIDE DEF E, T
<1>4. f \in Bijection(E, T)
  BY <1>1, <1>3 DEF Bijection, Injection, IsInjective, Surjection
<1>5. Cardinality(T) = Cardinality(E)
  BY <1>2, <1>4, FS_Bijection DEF ExistsBijection
<1> QED
  BY <1>5 DEF E, T

LEMMA TrendEndsAtTotal ==
  ASSUME NEW rows, NEW n, Rows(rows, n), rows # <<>>
  PROVE  \E p \in Trend(rows) : p.n = n /\ p.points = TotalPoints(rows)
<1>1. n \in 1..n /\ DOMAIN rows = 1..n /\ Len(rows) = n
  BY DEF Rows
<1>2. n \in Ends(rows)
  BY <1>1 DEF Ends
<1> DEFINE p == TrendPoint(rows, n)
<1>3. p \in Trend(rows)
  BY <1>2, TrendPoints
<1>4. p.n = n /\ p.points = TotalPoints(rows)
  BY <1>1 DEF TotalPoints, TrendPoint
<1> QED
  BY <1>3, <1>4

In(x, b) == b[1] <= x /\ x < b[2]

LEMMA OneBucket ==
  ASSUME NEW x \in 0..100
  PROVE  /\ \E b \in Buckets : In(x, b)
         /\ \A b, d \in Buckets : In(x, b) /\ In(x, d) => b = d
BY DEF Buckets, In

LEMMA BucketsHoldEveryRow ==
  ASSUME NEW rows, NEW n, Rows(rows, n)
  PROVE  SumFunction([b \in Buckets |-> Cardinality(Members(rows, b))]) = Len(rows)
<1> DEFINE c == [k \in 1..n |-> CHOOSE b \in Buckets : In(rows[k].row.confidence, b)]
           v == [k \in 1..n |-> 1]
           p == [b \in Buckets |-> Cardinality(Members(rows, b))]
<1>1. n \in Nat /\ DOMAIN rows = 1..n /\ Len(rows) = n /\ \A k \in 1..n : rows[k].row.confidence \in 0..100
  BY DEF Rows
<1>2. \A k \in 1..n : c[k] \in Buckets /\ \A b \in Buckets : In(rows[k].row.confidence, b) <=> c[k] = b
  <2> SUFFICES ASSUME NEW k \in 1..n
               PROVE  c[k] \in Buckets /\ \A b \in Buckets : In(rows[k].row.confidence, b) <=> c[k] = b
    OBVIOUS
  <2>1. PICK x \in 0..100 : x = rows[k].row.confidence
    BY <1>1
  <2>2. c[k] = CHOOSE b \in Buckets : In(x, b)
    BY <2>1
  <2> HIDE DEF c
  <2>3. c[k] \in Buckets /\ In(x, c[k])
    BY <2>2, OneBucket
  <2> QED
    BY <2>1, <2>3, OneBucket
<1>3. \A b \in Buckets : Members(rows, b) = Box(1..n, c, b)
  <2> HIDE DEF c
  <2> QED
    BY <1>1, <1>2 DEF Members, Box, In
<1>4. IsFiniteSet(1..n) /\ Cardinality(1..n) = n
  BY <1>1, FS_Interval
<1>5. \A K \in SUBSET (1..n) : Sum(v, K) = Cardinality(K)
  BY <1>4, SumOfOnes
<1>6. p = [b \in Buckets |-> Boxes(v, 1..n, c, Buckets)[b]]
  <2>1. \A b \in Buckets : Box(1..n, c, b) \in SUBSET (1..n)
    BY DEF Box
  <2>2. \A b \in Buckets : Cardinality(Members(rows, b)) = Sum(v, Box(1..n, c, b))
    <3> HIDE DEF c, v
    <3> QED
      BY <1>3, <1>5, <2>1
  <2>3. \A b \in Buckets : p[b] = Boxes(v, 1..n, c, Buckets)[b]
    <3> HIDE DEF c, v
    <3> QED
      BY <2>2 DEF Boxes
  <2> HIDE DEF c, v
  <2> QED
    BY <2>3
<1>7. IsFiniteSet(Buckets)
  <2>1. [b \in Buckets |-> b[1]] \in Injection(Buckets, 0..80)
    <3>1. \A b, d \in Buckets : b[1] \in 0..80 /\ (b[1] = d[1] => b = d)
      BY DEF Buckets
    <3>2. PICK B : B = Buckets
      OBVIOUS
    <3>3. [b \in B |-> b[1]] \in Injection(B, 0..80)
      BY <3>1, <3>2 DEF Injection, IsInjective
    <3> QED
      BY <3>2, <3>3
  <2>2. IsFiniteSet(0..80)
    <3>1. 0 \in Int /\ 80 \in Int
      OBVIOUS
    <3> QED
      BY <3>1, FS_Interval, Zenon
  <2> QED
    BY <2>1, <2>2, FS_Injection
<1>8. Numbers(v, 1..n) /\ Into(c, 1..n, Buckets)
  BY <1>2 DEF Numbers, Into
<1>9. SumFunction(p) = Sum(Boxes(v, 1..n, c, Buckets), Buckets)
  BY <1>6, Zenon DEF Sum
<1>10. Sum(v, 1..n) = n
  BY <1>4, <1>5
<1> HIDE DEF c, v, p
<1>11. Sum(Boxes(v, 1..n, c, Buckets), Buckets) = Sum(v, 1..n)
  BY <1>4, <1>7, <1>8, SumOfBoxes
<1> QED
  BY <1>1, <1>9, <1>10, <1>11 DEF p

(***************************************************************************)
(* dashboard_service.py adds the newest graded row of each match up by     *)
(* stage, by day and by confidence: in every state of every tournament the *)
(* stages make the total, nobody beats the maximum, the trend has one      *)
(* growing point a day and ends at the total, and the reliability buckets  *)
(* hold every row once.                                                    *)
(***************************************************************************)
THEOREM BooksTheorem == Expects => (SSpec => []BooksBalance)
<1> SUFFICES ASSUME Expects PROVE SSpec => []BooksBalance
  OBVIOUS
<1>1. SInv => BooksBalance
  <2> SUFFICES ASSUME SInv, NEW rows \in HeadlineRows
               PROVE  LET stages == PointsByStage(rows)
                          trend  == Trend(rows)
                      IN /\ TotalPoints(rows) = SumFunction([s \in DOMAIN stages |-> stages[s].points])
                         /\ TotalPoints(rows) <= MostOf(rows, DOMAIN rows)
                         /\ \A p, q \in trend : p.date < q.date => p.n < q.n /\ p.points <= q.points /\ p.exact <= q.outcomes
                         /\ Cardinality({p.date : p \in trend}) = Cardinality(Ends(rows))
                         /\ rows # <<>> => \E p \in trend : p.n = Cardinality(Counted) /\ p.points = TotalPoints(rows)
                         /\ SumFunction([b \in Buckets |-> Cardinality(Members(rows, b))]) = Len(rows)
    BY DEF BooksBalance
  <2>1. PICK n : n = Cardinality(Counted) /\ Rows(rows, n)
    BY HeadlineRowsAreSound
  <2>2. TotalPoints(rows) = SumFunction([s \in DOMAIN PointsByStage(rows) |-> PointsByStage(rows)[s].points])
    BY <2>1, StagesMakeTheTotal
  <2>3. TotalPoints(rows) <= MostOf(rows, DOMAIN rows)
    BY <2>1, NobodyBeatsTheMaximum
  <2>4. \A p, q \in Trend(rows) : p.date < q.date => p.n < q.n /\ p.points <= q.points /\ p.exact <= q.outcomes
    BY <2>1, TrendGrows
  <2>5. Cardinality({p.date : p \in Trend(rows)}) = Cardinality(Ends(rows))
    BY <2>1, OnePointADay
  <2>6. rows # <<>> => \E p \in Trend(rows) : p.n = Cardinality(Counted) /\ p.points = TotalPoints(rows)
    BY <2>1, TrendEndsAtTotal
  <2>7. SumFunction([b \in Buckets |-> Cardinality(Members(rows, b))]) = Len(rows)
    BY <2>1, BucketsHoldEveryRow
  <2> QED
    BY <2>2, <2>3, <2>4, <2>5, <2>6, <2>7, Zenon
<1> QED
  BY <1>1, BooksAreSound, PTL
=============================================================================
