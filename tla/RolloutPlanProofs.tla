------------------------- MODULE RolloutPlanProofs -------------------------
(***************************************************************************)
(* The arithmetic of a rollout's plan, for every pool, every list of       *)
(* ratios and every set of groups: the phases of an accepted plan are not  *)
(* empty, no two of them share a device, and together they are the pool.   *)
(*                                                                         *)
(* The plan is computed by a fold.  A fold is a function over the subsets  *)
(* of the indices that satisfies a recursive equation; that one exists is  *)
(* shown by induction, in the form "a non-empty set of naturals has a      *)
(* least element", which needs no operator parameter.                      *)
(***************************************************************************)
EXTENDS Rollout, WellFoundedInduction, TLAPS

-----------------------------------------------------------------------------
(* Least and greatest elements *)

\* Every non-empty set of naturals has a least element.
LEMMA LeastElement ==
  ASSUME NEW S \in SUBSET Nat, S # {}
  PROVE  \E x \in S : \A y \in S : x <= y
<1>. DEFINE R == {ss \in Nat \X Nat : ss[1] < ss[2]}
<1>1. IsWellFoundedOn(R, Nat)
  BY NatLessThanWellFounded DEF OpToRel
<1>2. PICK x \in S : \A y \in S : ~(<<y, x>> \in R)
  <2>. HIDE DEF R
  <2>. QED
    BY <1>1, WFMin
<1>3. ASSUME NEW y \in S PROVE x <= y
  <2>1. x \in Nat /\ y \in Nat
    OBVIOUS
  <2>2. <<y, x>> \in R <=> y < x
    BY <2>1
  <2>. QED
    BY <1>2, <2>1, <2>2
<1>. QED
  BY <1>3

\* Min picks the least element.
LEMMA MinIsLeast ==
  ASSUME NEW S \in SUBSET Nat, S # {}
  PROVE  Min(S) \in S /\ \A y \in S : Min(S) <= y
  BY LeastElement DEF Min

\* The greatest element of a set that has its bound.
LEMMA MaxIsBound ==
  ASSUME NEW m \in Nat, NEW S \in SUBSET (1..m), m \in S
  PROVE  Max(S) = m
<1>1. \A y \in S : m >= y
  OBVIOUS
<1>2. \A x \in S : (\A y \in S : x >= y) => x = m
  OBVIOUS
<1>. QED
  BY <1>1, <1>2 DEF Max

-----------------------------------------------------------------------------
(* Sums *)

SumEqn(g, c, n) ==
  g = [s \in SUBSET (1..n) |-> IF s = {} THEN 0 ELSE g[s \ {Max(s)}] + c[Max(s)]]

\* The equation of the sum has a solution on every prefix of the indices.
LEMMA SumDefined ==
  ASSUME NEW c, NEW n \in Nat
  PROVE  \E g : SumEqn(g, c, n)
<1>. DEFINE Bad == {k \in Nat : ~\E g : SumEqn(g, c, k)}
<1>. SUFFICES ASSUME Bad # {} PROVE FALSE
  OBVIOUS
<1>1. PICK m \in Bad : \A k \in Bad : m <= k
  BY LeastElement
<1>2. m # 0
  <2>. DEFINE g == [s \in SUBSET (1..0) |-> 0]
  <2>1. \A s \in SUBSET (1..0) : s = {}
    OBVIOUS
  <2>2. SumEqn(g, c, 0)
    BY <2>1 DEF SumEqn
  <2>. QED
    BY <2>2
<1>3. m - 1 \in Nat /\ m - 1 \notin Bad
  BY <1>1, <1>2
<1>4. PICK g : SumEqn(g, c, m - 1)
  BY <1>3
<1>. DEFINE h == [s \in SUBSET (1..m) |-> IF m \in s THEN g[s \ {m}] + c[m] ELSE g[s]]
<1>5. ASSUME NEW s \in SUBSET (1..m)
      PROVE  h[s] = IF s = {} THEN 0 ELSE h[s \ {Max(s)}] + c[Max(s)]
  <2>1. CASE m \in s
    <3>1. Max(s) = m
      BY <2>1, MaxIsBound
    <3>2. s \ {m} \in SUBSET (1..m) /\ m \notin s \ {m}
      OBVIOUS
    <3>. QED
      BY <2>1, <3>1, <3>2
  <2>2. CASE m \notin s
    <3>1. s \in SUBSET (1..(m - 1))
      BY <1>3, <2>2
    <3>2. g[s] = IF s = {} THEN 0 ELSE g[s \ {Max(s)}] + c[Max(s)]
      BY <1>4, <3>1 DEF SumEqn
    <3>3. h[s] = g[s] /\ h[s \ {Max(s)}] = g[s \ {Max(s)}]
      BY <2>2
    <3>. QED
      BY <3>2, <3>3
  <2>. QED
    BY <2>1, <2>2
<1>6. SumEqn(h, c, m)
  BY <1>5 DEF SumEqn
<1>. QED
  BY <1>6

\* Partial sums: P[k] is the sum of the first k elements.
Partial(P, c) ==
  /\ P \in [0..Len(c) -> Nat]
  /\ P[0] = 0
  /\ \A k \in 1..Len(c) : P[k] = P[k - 1] + c[k]

\* The total of a sequence is the last of its partial sums.
LEMMA TotalIsPartial ==
  ASSUME NEW c \in Seq(Nat)
  PROVE  \E P : Partial(P, c) /\ Total(c) = P[Len(c)]
<1>. DEFINE n == Len(c)
            g == CHOOSE f : SumEqn(f, c, n)
<1>1. n \in Nat /\ DOMAIN c = 1..n
  OBVIOUS
<1>2. SumEqn(g, c, n)
  BY <1>1, SumDefined
<1>3. Total(c) = g[1..n]
  BY <1>1 DEF Total, FoldLeft, MapThenFoldSet, SumEqn
<1>. HIDE DEF g
<1>4. g[1..0] = 0
  BY <1>1, <1>2, 1..0 = {} DEF SumEqn
<1>5. ASSUME NEW k \in 1..n PROVE g[1..k] = g[1..(k - 1)] + c[k]
  <2>1. Max(1..k) = k
    BY MaxIsBound
  <2>2. k \in Nat \ {0} /\ k <= n
    BY <1>1
  <2>3. (1..k) \ {k} = 1..(k - 1)
    BY <2>2
  <2>4. k \in 1..k /\ 1..k \in SUBSET (1..n)
    BY <1>1, <2>2
  <2>. QED
    BY <1>2, <2>1, <2>3, <2>4 DEF SumEqn
<1>6. \A k \in 0..n : g[1..k] \in Nat
  <2>. DEFINE Bad == {k \in 0..n : g[1..k] \notin Nat}
  <2>. SUFFICES ASSUME Bad # {} PROVE FALSE
    OBVIOUS
  <2>0. Bad \in SUBSET Nat
    BY <1>1
  <2>1. PICK m \in Bad : \A k \in Bad : m <= k
    <3>. HIDE DEF Bad
    <3>. QED
      BY <2>0, LeastElement
  <2>2. m # 0
    BY <1>4
  <2>3. m \in 1..n /\ m - 1 \in 0..n /\ m - 1 \notin Bad
    BY <2>1, <2>2
  <2>4. g[1..(m - 1)] \in Nat /\ c[m] \in Nat
    BY <2>3
  <2>. QED
    BY <1>5, <2>3, <2>4
<1>. DEFINE P == [k \in 0..n |-> g[1..k]]
<1>7. Partial(P, c)
  BY <1>1, <1>4, <1>5, <1>6 DEF Partial
<1>8. Total(c) = P[n]
  BY <1>1, <1>3
<1>. QED
  BY <1>7, <1>8

\* Two sequences that agree on their first k elements have the same partial
\* sums so far.
LEMMA PartialUnique ==
  ASSUME NEW c \in Seq(Nat), NEW e \in Seq(Nat), NEW P, NEW Q, Partial(P, c), Partial(Q, e),
         NEW n \in Nat, n <= Len(c), n <= Len(e), \A k \in 1..n : c[k] = e[k]
  PROVE  P[n] = Q[n]
<1>. DEFINE Bad == {k \in 0..n : P[k] # Q[k]}
<1>. SUFFICES ASSUME Bad # {} PROVE FALSE
  OBVIOUS
<1>0. Bad \in SUBSET Nat
  OBVIOUS
<1>1. PICK m \in Bad : \A k \in Bad : m <= k
  <2>. HIDE DEF Bad
  <2>. QED
    BY <1>0, LeastElement
<1>2. m # 0
  BY DEF Partial
<1>3. m \in 1..n /\ m - 1 \in 0..n /\ m - 1 \notin Bad
  BY <1>1, <1>2
<1>4. P[m - 1] = Q[m - 1] /\ c[m] = e[m]
  BY <1>3
<1>5. m \in 1..Len(c) /\ m \in 1..Len(e)
  BY <1>3
<1>. QED
  BY <1>4, <1>5 DEF Partial

\* Partial sums never decrease.
LEMMA PartialGrows ==
  ASSUME NEW c \in Seq(Nat), NEW P, Partial(P, c),
         NEW i \in 0..Len(c), NEW j \in 0..Len(c), i <= j
  PROVE  P[i] <= P[j]
<1>. DEFINE Bad == {k \in 0..Len(c) : i <= k /\ ~(P[i] <= P[k])}
<1>. SUFFICES ASSUME Bad # {} PROVE FALSE
  OBVIOUS
<1>0. Len(c) \in Nat /\ Bad \in SUBSET Nat
  OBVIOUS
<1>1. PICK m \in Bad : \A k \in Bad : m <= k
  <2>. HIDE DEF Bad
  <2>. QED
    BY <1>0, LeastElement
<1>2. \A k \in 0..Len(c) : P[k] \in Nat
  BY <1>0 DEF Partial
<1>3. m \in 0..Len(c) /\ i <= m /\ ~(P[i] <= P[m])
  OBVIOUS
<1>4. m # i
  BY <1>2, <1>3
<1>5. m \in 1..Len(c) /\ m - 1 \in 0..Len(c) /\ i <= m - 1 /\ ~(m <= m - 1)
  BY <1>0, <1>3, <1>4
<1>6. P[i] <= P[m - 1]
  BY <1>1, <1>5
<1>7. P[m] = P[m - 1] + c[m] /\ c[m] \in Nat
  BY <1>5 DEF Partial
<1>8. P[m - 1] \in Nat /\ P[i] \in Nat
  BY <1>2, <1>5
<1>. QED
  BY <1>3, <1>6, <1>7, <1>8

\* The start of a phase's slice is the partial sum before it.
LEMMA Starts ==
  ASSUME NEW c \in Seq(Nat)
  PROVE  \E P : /\ Partial(P, c)
               /\ Total(c) = P[Len(c)]
               /\ \A i \in 1..Len(c) : Total(SubSeq(c, 1, i - 1)) = P[i - 1]
<1>1. PICK P : Partial(P, c) /\ Total(c) = P[Len(c)]
  BY TotalIsPartial
<1>2. ASSUME NEW i \in 1..Len(c) PROVE Total(SubSeq(c, 1, i - 1)) = P[i - 1]
  <2>. DEFINE e == SubSeq(c, 1, i - 1)
  <2>1. e \in Seq(Nat) /\ Len(e) = i - 1 /\ i - 1 \in Nat /\ i - 1 <= Len(c)
    OBVIOUS
  <2>2. \A k \in 1..(i - 1) : c[k] = e[k]
    OBVIOUS
  <2>. HIDE DEF e
  <2>3. PICK Q : Partial(Q, e) /\ Total(e) = Q[Len(e)]
    BY <2>1, TotalIsPartial
  <2>4. P[i - 1] = Q[i - 1]
    BY <1>1, <2>1, <2>2, <2>3, PartialUnique
  <2>. QED
    BY <2>1, <2>3, <2>4 DEF e
<1>. QED
  BY <1>1, <1>2

\* Appending an element adds it to the total.
LEMMA TotalAppend ==
  ASSUME NEW c \in Seq(Nat), NEW x \in Nat
  PROVE  Total(Append(c, x)) = Total(c) + x /\ Total(c) \in Nat
<1>. DEFINE e == Append(c, x)
<1>1. /\ e \in Seq(Nat) /\ Len(e) = Len(c) + 1 /\ e[Len(e)] = x /\ Len(c) \in Nat
      /\ \A k \in 1..Len(c) : c[k] = e[k]
  OBVIOUS
<1>. HIDE DEF e
<1>2. PICK P : Partial(P, c) /\ Total(c) = P[Len(c)]
  BY TotalIsPartial
<1>3. PICK Q : Partial(Q, e) /\ Total(e) = Q[Len(e)]
  BY <1>1, TotalIsPartial
<1>4. P[Len(c)] = Q[Len(c)]
  <2>1. PICK n \in Nat : n = Len(c)
    BY <1>1
  <2>2. n <= Len(c) /\ n <= Len(e) /\ \A k \in 1..n : c[k] = e[k]
    BY <1>1, <2>1
  <2>3. P[n] = Q[n]
    BY <1>1, <1>2, <1>3, <2>2, PartialUnique
  <2>. QED
    BY <2>1, <2>3
<1>5. Q[Len(e)] = Q[Len(c)] + x
  <2>1. Len(e) \in 1..Len(e) /\ Len(e) - 1 = Len(c)
    BY <1>1
  <2>2. Q[Len(e)] = Q[Len(e) - 1] + e[Len(e)]
    BY <1>3, <2>1 DEF Partial
  <2>. QED
    BY <1>1, <2>1, <2>2
<1>6. P[Len(c)] \in Nat
  <2>1. Len(c) \in 0..Len(c)
    BY <1>1
  <2>. QED
    BY <1>2, <2>1 DEF Partial
<1>. QED
  BY <1>2, <1>3, <1>4, <1>5, <1>6 DEF e

-----------------------------------------------------------------------------
(* Slices *)

\* A slice lies between two partial sums.
LEMMA SliceIs ==
  ASSUME NEW c \in Seq(Nat)
  PROVE  \E P : /\ Partial(P, c)
               /\ Total(c) = P[Len(c)]
               /\ \A i \in 1..Len(c) : Slice(c, i) = {d \in Pool : P[i - 1] < d /\ d <= P[i]}
<1>1. PICK P : /\ Partial(P, c)
               /\ Total(c) = P[Len(c)]
               /\ \A i \in 1..Len(c) : Total(SubSeq(c, 1, i - 1)) = P[i - 1]
  BY Starts
<1>2. ASSUME NEW i \in 1..Len(c)
      PROVE  Slice(c, i) = {d \in Pool : P[i - 1] < d /\ d <= P[i]}
  <2>1. P[i] = P[i - 1] + c[i]
    BY <1>1 DEF Partial
  <2>. QED
    BY <1>1, <2>1 DEF Slice
<1>. QED
  BY <1>1, <1>2

\* No two phases share a device.
LEMMA SlicesApart ==
  ASSUME NEW c \in Seq(Nat), NEW i \in 1..Len(c), NEW j \in 1..Len(c), i # j
  PROVE  Slice(c, i) \cap Slice(c, j) = {}
<1>1. PICK P : /\ Partial(P, c)
               /\ \A k \in 1..Len(c) : Slice(c, k) = {d \in Pool : P[k - 1] < d /\ d <= P[k]}
  BY SliceIs
<1>2. ASSUME NEW a \in 1..Len(c), NEW b \in 1..Len(c), a < b
      PROVE  Slice(c, a) \cap Slice(c, b) = {}
  <2>1. a \in 0..Len(c) /\ b - 1 \in 0..Len(c) /\ a <= b - 1
    BY <1>2
  <2>2. P[a] <= P[b - 1]
    BY <1>1, <2>1, PartialGrows
  <2>3. P[a] \in Nat /\ P[b - 1] \in Nat
    BY <1>1, <2>1 DEF Partial
  <2>4. \A d \in Pool : ~(d <= P[a] /\ P[b - 1] < d)
    BY <2>2, <2>3, RolloutBounds DEF Pool
  <2>. QED
    BY <1>1, <2>4
<1>3. i < j \/ j < i
  OBVIOUS
<1>. QED
  BY <1>2, <1>3

\* The phases of a plan that adds up to the pool cover it.
LEMMA SlicesCover ==
  ASSUME NEW c \in Seq(Nat), Total(c) = PoolSize, NEW d \in Pool
  PROVE  \E i \in 1..Len(c) : d \in Slice(c, i)
<1>1. PICK P : /\ Partial(P, c)
               /\ Total(c) = P[Len(c)]
               /\ \A k \in 1..Len(c) : Slice(c, k) = {x \in Pool : P[k - 1] < x /\ x <= P[k]}
  BY SliceIs
<1>. DEFINE Reached == {k \in 0..Len(c) : d <= P[k]}
<1>2. Len(c) \in Reached /\ Reached \in SUBSET Nat
  BY <1>1 DEF Pool
<1>3. PICK m \in Reached : \A k \in Reached : m <= k
  <2>. HIDE DEF Reached
  <2>. QED
    BY <1>2, LeastElement
<1>4. m # 0
  <2>1. P[0] = 0
    BY <1>1 DEF Partial
  <2>2. ~(d <= 0) /\ d <= P[m]
    BY RolloutBounds DEF Pool
  <2>. QED
    BY <2>1, <2>2
<1>5. m \in 1..Len(c) /\ m - 1 \in 0..Len(c) /\ m - 1 \notin Reached
  BY <1>3, <1>4
<1>6. P[m - 1] \in Nat /\ d \in Nat
  <2>1. P \in [0..Len(c) -> Nat]
    BY <1>1 DEF Partial
  <2>2. d \in Nat
    BY RolloutBounds DEF Pool
  <2>. QED
    BY <1>5, <2>1, <2>2
<1>7. P[m - 1] < d /\ d <= P[m]
  BY <1>5, <1>6
<1>. QED
  BY <1>1, <1>5, <1>7

\* A phase that asks for devices gets some.
LEMMA SliceNotEmpty ==
  ASSUME NEW c \in Seq(Nat), Total(c) = PoolSize, NEW i \in 1..Len(c), c[i] > 0
  PROVE  Slice(c, i) # {}
<1>1. PICK P : /\ Partial(P, c)
               /\ Total(c) = P[Len(c)]
               /\ \A k \in 1..Len(c) : Slice(c, k) = {x \in Pool : P[k - 1] < x /\ x <= P[k]}
  BY SliceIs
<1>2. P[i - 1] \in Nat /\ P[i] \in Nat /\ P[i] = P[i - 1] + c[i]
  <2>1. i - 1 \in 0..Len(c) /\ i \in 0..Len(c)
    OBVIOUS
  <2>2. P \in [0..Len(c) -> Nat] /\ P[i] = P[i - 1] + c[i]
    BY <1>1 DEF Partial
  <2>. QED
    BY <2>1, <2>2
<1>3. P[i] <= PoolSize
  <2>1. i \in 0..Len(c) /\ Len(c) \in 0..Len(c) /\ i <= Len(c)
    OBVIOUS
  <2>. QED
    BY <1>1, <2>1, PartialGrows
<1>4. P[i] \in Pool /\ P[i - 1] < P[i]
  BY <1>2, <1>3, RolloutBounds DEF Pool
<1>. QED
  BY <1>1, <1>2, <1>4

-----------------------------------------------------------------------------
(* The plan of a list of ratios *)

\* What Ceil computes stays within the pool, and 1.0 is all of it.
LEMMA CeilBounds ==
  ASSUME NEW r \in 1..Whole
  PROVE  /\ Ceil(r * PoolSize, Whole) \in 0..PoolSize
         /\ r = Whole => Ceil(r * PoolSize, Whole) = PoolSize
<1>. DEFINE N == PoolSize
            W == Whole
            a == r * N + W - 1
            q == a \div W
<1>1. N \in Nat \ {0} /\ W \in Nat \ {0} /\ r \in Nat /\ r <= W
  BY RolloutBounds
<1>2. r * N \in Nat /\ W * N \in Nat /\ r * N <= W * N
  BY <1>1
<1>3. a \in Nat
  BY <1>1, <1>2
<1>. HIDE DEF N, W, a
<1>4. q \in Nat /\ W * q <= a /\ a < W * q + W
  BY <1>1, <1>3
<1>. HIDE DEF q
<1>5. q <= N
  <2>. SUFFICES ASSUME q >= N + 1 PROVE FALSE
    BY <1>1, <1>4
  <2>1. W * q >= W * (N + 1)
    BY <1>1, <1>4
  <2>2. W * (N + 1) = W * N + W
    BY <1>1
  <2>3. a <= W * N + W - 1
    BY <1>1, <1>2 DEF a, N, W
  <2>4. W * q \in Nat
    BY <1>1, <1>4
  <2>. QED
    BY <1>1, <1>2, <1>3, <1>4, <2>1, <2>2, <2>3, <2>4
<1>6. ASSUME r = W PROVE q = N
  <2>. SUFFICES ASSUME q + 1 <= N PROVE FALSE
    BY <1>1, <1>4, <1>5
  <2>1. W * (q + 1) <= W * N
    BY <1>1, <1>4
  <2>2. W * (q + 1) = W * q + W
    BY <1>1, <1>4
  <2>3. a >= W * N
    BY <1>1, <1>2, <1>6 DEF a, N, W
  <2>4. W * q \in Nat
    BY <1>1, <1>4
  <2>. QED
    BY <1>1, <1>2, <1>3, <1>4, <2>1, <2>2, <2>3, <2>4
<1>7. Ceil(r * PoolSize, Whole) = q
  BY DEF Ceil, q, a, N, W
<1>. QED
  BY <1>1, <1>4, <1>5, <1>6, <1>7 DEF N, W

\* A plan as far as it has got: what it has assigned adds up.
SoFar(plan) ==
  /\ plan.counts \in Seq(Nat \ {0})
  /\ plan.prior \in 0..PoolSize
  /\ Total(plan.counts) = plan.prior

\* An empty plan assigns nothing.
LEMMA EmptyPlan == SoFar([counts |-> <<>>, prior |-> 0])
<1>1. <<>> \in Seq(Nat) /\ Len(<<>>) = 0
  OBVIOUS
<1>2. PICK P : Partial(P, <<>>) /\ Total(<<>>) = P[Len(<<>>)]
  BY <1>1, TotalIsPartial
<1>3. Total(<<>>) = 0
  BY <1>1, <1>2 DEF Partial
<1>. QED
  BY <1>3, RolloutBounds DEF SoFar

\* A ratio assigns the devices it adds, and the last one the rest of the pool.
LEMMA AddPhaseAddsUp ==
  ASSUME NEW plan, SoFar(plan), NEW r \in 1..Whole
  PROVE  /\ SoFar(AddPhase(plan, r))
         /\ r = Whole => AddPhase(plan, r).prior = PoolSize
<1>. DEFINE k == Ceil(r * PoolSize, Whole)
<1>1. k \in 0..PoolSize /\ (r = Whole => k = PoolSize)
  BY CeilBounds
<1>2. AddPhase(plan, r) = IF k <= plan.prior THEN plan
        ELSE [counts |-> Append(plan.counts, k - plan.prior), prior |-> k]
  BY DEF AddPhase
<1>. HIDE DEF k
<1>3. PoolSize \in Nat /\ plan.prior \in 0..PoolSize /\ plan.counts \in Seq(Nat \ {0})
  BY RolloutBounds DEF SoFar
<1>4. CASE k <= plan.prior
  BY <1>1, <1>2, <1>3, <1>4 DEF SoFar
<1>5. CASE ~(k <= plan.prior)
  <2>1. k - plan.prior \in Nat \ {0}
    BY <1>1, <1>3, <1>5
  <2>2. plan.counts \in Seq(Nat)
    BY <1>3
  <2>3. Total(Append(plan.counts, k - plan.prior)) = Total(plan.counts) + (k - plan.prior)
    BY <2>1, <2>2, TotalAppend
  <2>4. Total(Append(plan.counts, k - plan.prior)) = k
    BY <1>1, <1>3, <2>3 DEF SoFar
  <2>5. Append(plan.counts, k - plan.prior) \in Seq(Nat \ {0})
    BY <1>3, <2>1
  <2>. QED
    BY <1>1, <1>2, <1>5, <2>4, <2>5 DEF SoFar
<1>. QED
  BY <1>4, <1>5

PlanEqn(g, r, n) ==
  g = [s \in SUBSET (1..n) |-> IF s = {} THEN [counts |-> <<>>, prior |-> 0]
                               ELSE AddPhase(g[s \ {Max(s)}], r[Max(s)])]

\* The equation of the plan has a solution on every prefix of the ratios.
LEMMA PlanDefined ==
  ASSUME NEW r, NEW n \in Nat
  PROVE  \E g : PlanEqn(g, r, n)
<1>. DEFINE Bad == {k \in Nat : ~\E g : PlanEqn(g, r, k)}
<1>. SUFFICES ASSUME Bad # {} PROVE FALSE
  OBVIOUS
<1>1. PICK m \in Bad : \A k \in Bad : m <= k
  BY LeastElement
<1>2. m # 0
  <2>. DEFINE g == [s \in SUBSET (1..0) |-> [counts |-> <<>>, prior |-> 0]]
  <2>1. \A s \in SUBSET (1..0) : s = {}
    OBVIOUS
  <2>2. PlanEqn(g, r, 0)
    BY <2>1 DEF PlanEqn
  <2>. QED
    BY <2>2
<1>3. m - 1 \in Nat /\ m - 1 \notin Bad
  BY <1>1, <1>2
<1>4. PICK g : PlanEqn(g, r, m - 1)
  BY <1>3
<1>. DEFINE h == [s \in SUBSET (1..m) |-> IF m \in s THEN AddPhase(g[s \ {m}], r[m]) ELSE g[s]]
<1>5. ASSUME NEW s \in SUBSET (1..m)
      PROVE  h[s] = IF s = {} THEN [counts |-> <<>>, prior |-> 0]
                    ELSE AddPhase(h[s \ {Max(s)}], r[Max(s)])
  <2>1. CASE m \in s
    <3>1. Max(s) = m
      BY <2>1, MaxIsBound
    <3>2. s \ {m} \in SUBSET (1..m) /\ m \notin s \ {m}
      OBVIOUS
    <3>. QED
      BY <2>1, <3>1, <3>2
  <2>2. CASE m \notin s
    <3>1. s \in SUBSET (1..(m - 1))
      BY <1>3, <2>2
    <3>2. g[s] = IF s = {} THEN [counts |-> <<>>, prior |-> 0]
                 ELSE AddPhase(g[s \ {Max(s)}], r[Max(s)])
      BY <1>4, <3>1 DEF PlanEqn
    <3>3. h[s] = g[s] /\ h[s \ {Max(s)}] = g[s \ {Max(s)}]
      BY <2>2
    <3>. QED
      BY <3>2, <3>3
  <2>. QED
    BY <2>1, <2>2
<1>6. PlanEqn(h, r, m)
  BY <1>5 DEF PlanEqn
<1>. QED
  BY <1>6

\* Valid ratios give phases that are not empty and add up to the pool.
LEMMA AutoCountsAddUp ==
  ASSUME NEW r \in Seq(Nat), ValidRatios(r)
  PROVE  AutoCounts(r) \in Seq(Nat \ {0}) /\ Total(AutoCounts(r)) = PoolSize
<1>. DEFINE n == Len(r)
            g == CHOOSE f : PlanEqn(f, r, n)
<1>1. n \in Nat \ {0} /\ DOMAIN r = 1..n
  BY DEF ValidRatios
<1>2. PlanEqn(g, r, n)
  BY <1>1, PlanDefined
<1>3. AutoCounts(r) = g[1..n].counts
  BY <1>1 DEF AutoCounts, FoldLeft, MapThenFoldSet, PlanEqn
<1>. HIDE DEF g
<1>4. g[1..0] = [counts |-> <<>>, prior |-> 0]
  BY <1>1, <1>2, 1..0 = {} DEF PlanEqn
<1>5. ASSUME NEW k \in 1..n PROVE g[1..k] = AddPhase(g[1..(k - 1)], r[k])
  <2>1. Max(1..k) = k
    BY MaxIsBound
  <2>2. k \in Nat \ {0} /\ k <= n
    BY <1>1
  <2>3. (1..k) \ {k} = 1..(k - 1)
    BY <2>2
  <2>4. k \in 1..k /\ 1..k \in SUBSET (1..n)
    BY <1>1, <2>2
  <2>. QED
    BY <1>2, <2>1, <2>3, <2>4 DEF PlanEqn
<1>6. \A k \in 1..n : r[k] \in 1..Whole
  BY <1>1 DEF ValidRatios
<1>7. \A k \in 0..n : SoFar(g[1..k])
  <2>. DEFINE Bad == {k \in 0..n : ~SoFar(g[1..k])}
  <2>. SUFFICES ASSUME Bad # {} PROVE FALSE
    OBVIOUS
  <2>0. Bad \in SUBSET Nat
    BY <1>1
  <2>1. PICK m \in Bad : \A k \in Bad : m <= k
    <3>. HIDE DEF Bad
    <3>. QED
      BY <2>0, LeastElement
  <2>2. m # 0
    BY <1>4, EmptyPlan
  <2>3. m \in 1..n /\ m - 1 \in 0..n /\ m - 1 \notin Bad
    BY <2>1, <2>2
  <2>4. SoFar(g[1..(m - 1)]) /\ r[m] \in 1..Whole
    BY <1>6, <2>3
  <2>5. SoFar(AddPhase(g[1..(m - 1)], r[m]))
    BY <2>4, AddPhaseAddsUp
  <2>. QED
    BY <1>5, <2>3, <2>5
<1>8. g[1..n].prior = PoolSize
  <2>1. n \in 1..n /\ n - 1 \in 0..n /\ r[n] = Whole
    BY <1>1 DEF ValidRatios
  <2>2. SoFar(g[1..(n - 1)]) /\ r[n] \in 1..Whole
    BY <1>6, <1>7, <2>1
  <2>3. AddPhase(g[1..(n - 1)], r[n]).prior = PoolSize
    BY <2>1, <2>2, AddPhaseAddsUp
  <2>. QED
    BY <1>5, <2>1, <2>3
<1>9. n \in 0..n
  BY <1>1
<1>. QED
  BY <1>3, <1>7, <1>8, <1>9 DEF SoFar

\* Every accepted plan: what a request can ask for has at least one phase, no
\* phase is empty, and the phases add up to the pool.
THEOREM PlansAddUp ==
  \A c \in Plans : c \in Seq(Nat \ {0}) /\ c # <<>> /\ Total(c) = PoolSize
<1>. SUFFICES ASSUME NEW c \in Plans
              PROVE  c \in Seq(Nat \ {0}) /\ c # <<>> /\ Total(c) = PoolSize
  OBVIOUS
<1>1. c \in Seq(Nat \ {0}) /\ Total(c) = PoolSize
  <2>1. CASE c \in {AutoCounts(r) : r \in {r \in Ratios : ValidRatios(r)}}
    <3>1. PICK r \in Ratios : ValidRatios(r) /\ c = AutoCounts(r)
      BY <2>1
    <3>2. r \in Seq(Nat)
      BY RolloutPlans
    <3>. QED
      BY <3>1, <3>2, AutoCountsAddUp
  <2>2. CASE c \in {g \in Groups : ValidGroups(g)}
    <3>1. c \in Seq(Nat) /\ ValidGroups(c)
      BY <2>2, RolloutPlans
    <3>2. \A i \in 1..Len(c) : c[i] \in Nat \ {0}
      BY <3>1 DEF ValidGroups
    <3>3. c \in Seq(Nat \ {0})
      BY <3>1, <3>2
    <3>. QED
      BY <3>1, <3>3 DEF ValidGroups
  <2>. QED
    BY <2>1, <2>2 DEF Plans
<1>2. c # <<>>
  <2>1. Total(<<>>) = 0
    BY EmptyPlan DEF SoFar
  <2>. QED
    BY <1>1, <2>1, RolloutBounds
<1>. QED
  BY <1>1, <1>2

\* The phases of an accepted plan partition the pool: each has a device, no two
\* share one, and every device of the pool is in one.
THEOREM PlansPartitionPool ==
  \A c \in Plans :
    /\ \A i \in 1..Len(c) : Slice(c, i) # {} /\ Slice(c, i) \subseteq Pool
    /\ \A i, j \in 1..Len(c) : i # j => Slice(c, i) \cap Slice(c, j) = {}
    /\ \A d \in Pool : \E i \in 1..Len(c) : d \in Slice(c, i)
<1>. SUFFICES ASSUME NEW c \in Plans
     PROVE  /\ \A i \in 1..Len(c) : Slice(c, i) # {} /\ Slice(c, i) \subseteq Pool
            /\ \A i, j \in 1..Len(c) : i # j => Slice(c, i) \cap Slice(c, j) = {}
            /\ \A d \in Pool : \E i \in 1..Len(c) : d \in Slice(c, i)
  OBVIOUS
<1>1. c \in Seq(Nat \ {0}) /\ Total(c) = PoolSize
  BY PlansAddUp
<1>2. c \in Seq(Nat) /\ \A i \in 1..Len(c) : c[i] > 0
  BY <1>1
<1>3. \A i \in 1..Len(c) : Slice(c, i) # {} /\ Slice(c, i) \subseteq Pool
  <2>. TAKE i \in 1..Len(c)
  <2>1. Slice(c, i) # {}
    BY <1>1, <1>2, SliceNotEmpty
  <2>. QED
    BY <2>1 DEF Slice
<1>4. \A i, j \in 1..Len(c) : i # j => Slice(c, i) \cap Slice(c, j) = {}
  BY <1>2, SlicesApart
<1>5. \A d \in Pool : \E i \in 1..Len(c) : d \in Slice(c, i)
  BY <1>1, <1>2, SlicesCover
<1>. QED
  BY <1>3, <1>4, <1>5

=============================================================================
