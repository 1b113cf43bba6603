--------------------------- MODULE Algorithms_proofs ---------------------------
\* The algorithms of Ranking, FactNumbers and Text, for inputs of any size: the
\* reference definition that the run of MCAlgorithms checks on small inputs holds
\* of every input.  A loop is a recursive function of its index; what it computes
\* follows by a least counterexample (FirstIndex, Upto) from the recursion, which
\* has a solution by IterExists.
EXTENDS MCAlgorithms, FiniteSetTheorems, SequenceTheorems, WellFoundedInduction, TLAPS

------------------------------------------------------------------------------
\* Induction over indices, recursion and sums.

\* A nonempty set of naturals has a least one: every loop below is reasoned about
\* from its first index of some kind.
LEMMA FirstIndex == ASSUME NEW T \in SUBSET Nat, T # {} PROVE \E x \in T : \A y \in T : x <= y
<1> DEFINE R == {ss \in Nat \X Nat : ss[1] < ss[2]}
<1>1. IsWellFoundedOn(R, Nat)
  BY NatLessThanWellFounded DEF OpToRel
<1>2. \E x \in T : \A y \in T : ~ (<<y, x>> \in R)
  <2> HIDE DEF R
  <2> QED BY <1>1, WFMin
<1>3. PICK x \in T : \A y \in T : ~ (<<y, x>> \in R)
  BY <1>2
<1>4. ASSUME NEW y \in T PROVE x <= y
  <2>1. x \in Nat /\ y \in Nat
    OBVIOUS
  <2>2. ~(y < x)
    BY <1>3, <2>1
  <2> QED BY <2>1, <2>2
<1> QED BY <1>4

\* Induction up to N, for a set.
LEMMA Upto ==
  ASSUME NEW N \in Nat, NEW P, 0 \in P, \A k \in 1 .. N : k - 1 \in P => k \in P
  PROVE  \A k \in 0 .. N : k \in P
<1> SUFFICES ASSUME \E k \in 0 .. N : k \notin P PROVE FALSE
  OBVIOUS
<1> DEFINE T == {k \in 0 .. N : k \notin P}
<1>0. T \in SUBSET Nat /\ T # {}
  OBVIOUS
<1>1. PICK x \in T : \A y \in T : x <= y
  <2> HIDE DEF T
  <2> QED BY <1>0, FirstIndex
<1>2. x \in 1 .. N /\ x - 1 \in 0 .. N /\ x - 1 \notin T
  BY <1>1
<1> QED BY <1>1, <1>2

\* f iterates step from x0, N times.
Iteration(f, N, X, x0, step) ==
  /\ f \in [0 .. N -> X]
  /\ f[0] = x0
  /\ \A k \in 1 .. N : f[k - 1] \in X /\ f[k] = step[<<k, f[k - 1]>>]

\* A loop has a run: the recursive function that iterates a step exists.
LEMMA IterExists ==
  ASSUME NEW N \in Nat, NEW X, NEW x0 \in X, NEW step \in [(1 .. N) \X X -> X]
  PROVE  \E f : Iteration(f, N, X, x0, step)
<1> DEFINE P == {n \in 0 .. N : \E f : Iteration(f, n, X, x0, step)}
<1>1. 0 \in P
  <2> DEFINE f == [k \in 0 .. 0 |-> x0]
  <2>1. Iteration(f, 0, X, x0, step)
    BY DEF Iteration
  <2> HIDE DEF f
  <2> QED BY <2>1
<1>2. ASSUME NEW n \in 1 .. N, n - 1 \in P PROVE n \in P
  <2>1. PICK f : Iteration(f, n - 1, X, x0, step)
    BY <1>2
  <2> DEFINE last == step[<<n, f[n - 1]>>]
             g == [k \in 0 .. n |-> IF k < n THEN f[k] ELSE last]
  <2>2. n - 1 \in 0 .. (n - 1) /\ f \in [0 .. (n - 1) -> X] /\ f[n - 1] \in X /\ last \in X
    BY <2>1 DEF Iteration
  <2>3. g \in [0 .. n -> X]
    <3> HIDE DEF last
    <3> QED BY <2>2
  <2>5. ASSUME NEW k \in 1 .. n PROVE g[k - 1] \in X /\ g[k] = step[<<k, g[k - 1]>>]
    <3>1. CASE k < n
      <4>1. k \in 1 .. (n - 1) /\ k \in 0 .. n /\ k - 1 \in 0 .. n /\ k - 1 < n
        BY <3>1
      <4>2. g[k] = f[k] /\ g[k - 1] = f[k - 1]
        BY <4>1, <3>1
      <4> QED BY <4>1, <4>2, <2>1 DEF Iteration
    <3>2. CASE k = n
      <4>1. g[n] = last /\ g[n - 1] = f[n - 1]
        OBVIOUS
      <4> QED BY <4>1, <2>2, <3>2
    <3> QED BY <3>1, <3>2
  <2>6. g[0] = x0
    BY <2>1 DEF Iteration
  <2>7. Iteration(g, n, X, x0, step)
    <3> HIDE DEF g
    <3> QED BY <2>3, <2>5, <2>6 DEF Iteration
  <2> HIDE DEF g
  <2> QED BY <2>7
<1> HIDE DEF P
<1>3. N \in P
  BY <1>1, <1>2, Upto
<1> QED BY <1>3 DEF P

\* Sums over finite sets.

\* The recursion SumFunctionOnSet unfolds to.
Adds(f, S, iter) ==
    iter = [s \in SUBSET S |-> IF s = {} THEN 0
                               ELSE f[CHOOSE x \in s : TRUE] + iter[s \ {CHOOSE x \in s : TRUE}]]

\* SumFunctionOnSet is a recursion over the subsets of what it sums.
LEMMA SumIs == ASSUME NEW f, NEW S PROVE SumFunctionOnSet(f, S) = (CHOOSE iter : Adds(f, S, iter))[S]
BY DEF SumFunctionOnSet, FoldFunctionOnSet, MapThenFoldSet, Adds

\* A subset of a finite set, and what removing one element leaves of it.
LEMMA Smaller ==
  ASSUME NEW S, IsFiniteSet(S), NEW s \in SUBSET S
  PROVE  /\ IsFiniteSet(s) /\ Cardinality(s) \in Nat /\ Cardinality(s) <= Cardinality(S)
         /\ s = {} <=> Cardinality(s) = 0
         /\ \A x \in s : s \ {x} \in SUBSET S /\ Cardinality(s \ {x}) = Cardinality(s) - 1
<1>1. IsFiniteSet(s) /\ Cardinality(s) <= Cardinality(S)
  BY FS_Subset
<1>2. Cardinality(s) \in Nat
  BY <1>1, FS_CardinalityType
<1>3. s = {} <=> Cardinality(s) = 0
  BY <1>1, FS_EmptySet
<1>4. ASSUME NEW x \in s PROVE Cardinality(s \ {x}) = Cardinality(s) - 1
  BY <1>1, FS_RemoveElement
<1> QED BY <1>1, <1>2, <1>3, <1>4

\* The recursion of a sum has a solution over every finite set.
LEMMA AddsExists ==
  ASSUME NEW S, IsFiniteSet(S), NEW f, \A x \in S : f[x] \in Int
  PROVE  \E iter \in [SUBSET S -> Int] : Adds(f, S, iter)
<1> DEFINE n == Cardinality(S)
           c(s) == CHOOSE x \in s : TRUE
           X == [SUBSET S -> Int]
           x0 == [s \in SUBSET S |-> 0]
           F(g) == [s \in SUBSET S |-> IF s = {} THEN 0 ELSE f[c(s)] + g[s \ {c(s)}]]
           step == [p \in (1 .. n + 1) \X X |-> F(p[2])]
<1>0. n \in Nat /\ n + 1 \in Nat
  BY FS_CardinalityType
<1>1. \A s \in SUBSET S : s # {} => c(s) \in s
  OBVIOUS
<1>2. x0 \in X
  OBVIOUS
<1>3. ASSUME NEW g \in X PROVE F(g) \in X
  <2>1. ASSUME NEW s \in SUBSET S PROVE (IF s = {} THEN 0 ELSE f[c(s)] + g[s \ {c(s)}]) \in Int
    <3> HIDE DEF c
    <3> QED BY <1>1
  <2> HIDE DEF c
  <2> QED BY <2>1
<1>4. step \in [(1 .. n + 1) \X X -> X]
  <2> HIDE DEF X, F
  <2> QED BY <1>3
<1>5. PICK h : Iteration(h, n + 1, X, x0, step)
  <2> HIDE DEF n, X, x0, step
  <2> QED BY <1>0, <1>2, <1>4, IterExists
<1>6. ASSUME NEW k \in 1 .. (n + 1) PROVE h[k] = F(h[k - 1]) /\ h[k - 1] \in X /\ h[k] \in X
  <2>1. k \in 0 .. (n + 1)
    BY <1>0
  <2> HIDE DEF X, F, x0, n
  <2>2. h[k - 1] \in X /\ h[k] = step[<<k, h[k - 1]>>] /\ h[k] \in X
    BY <1>5, <2>1 DEF Iteration
  <2>3. step[<<k, h[k - 1]>>] = F(h[k - 1])
    BY <2>2
  <2> QED BY <2>2, <2>3
<1> DEFINE P == {k \in 0 .. n : \A s \in SUBSET S : Cardinality(s) <= k => h[k + 1][s] = h[k][s]}
<1>7. 0 \in P
  <2>1. ASSUME NEW s \in SUBSET S, Cardinality(s) <= 0 PROVE h[1][s] = h[0][s]
    <3>1. s = {}
      BY <2>1, Smaller
    <3>2. h[0] = x0
      BY <1>5 DEF Iteration
    <3>3. h[1] = F(h[0])
      <4>1. 1 \in 1 .. (n + 1) /\ 1 - 1 = 0
        BY <1>0
      <4> HIDE DEF F, X, n
      <4> QED BY <1>6, <4>1
    <3> QED BY <3>1, <3>2, <3>3
  <2> QED BY <2>1, <1>0
<1>8. ASSUME NEW k \in 1 .. n, k - 1 \in P PROVE k \in P
  <2>1. ASSUME NEW s \in SUBSET S, Cardinality(s) <= k PROVE h[k + 1][s] = h[k][s]
    <3>1. h[k + 1] = F(h[k]) /\ h[k] = F(h[k - 1])
      <4>1. k \in 1 .. (n + 1) /\ k + 1 \in 1 .. (n + 1) /\ (k + 1) - 1 = k
        BY <1>0
      <4> HIDE DEF F, X, n
      <4> QED BY <1>6, <4>1
    <3>2. CASE s = {}
      BY <3>1, <3>2
    <3>3. CASE s # {}
      <4>1. c(s) \in s
        BY <3>3
      <4>2. s \ {c(s)} \in SUBSET S /\ Cardinality(s \ {c(s)}) <= k - 1
        <5> HIDE DEF c
        <5>1. Cardinality(s) \in Nat /\ Cardinality(s \ {c(s)}) = Cardinality(s) - 1
          BY <4>1, Smaller
        <5> QED BY <5>1, <2>1, <1>0
      <4>3. h[k][s \ {c(s)}] = h[k - 1][s \ {c(s)}]
        <5> HIDE DEF c
        <5> QED BY <4>2, <1>8, <1>0
      <4>4. h[k + 1][s] = f[c(s)] + h[k][s \ {c(s)}] /\ h[k][s] = f[c(s)] + h[k - 1][s \ {c(s)}]
        <5> HIDE DEF c
        <5> QED BY <3>1, <3>3
      <4> QED BY <4>3, <4>4
    <3> QED BY <3>2, <3>3
  <2> QED BY <2>1, <1>0
<1>9. n \in P
  <2> HIDE DEF P, n
  <2> QED BY <1>0, <1>7, <1>8, Upto
<1>10. h[n] = h[n + 1]
  <2>1. h[n] \in X /\ h[n + 1] \in X
    <3>1. n + 1 \in 1 .. (n + 1) /\ (n + 1) - 1 = n
      BY <1>0
    <3> HIDE DEF F, X, n
    <3> QED BY <1>6, <3>1
  <2>2. ASSUME NEW s \in SUBSET S PROVE h[n][s] = h[n + 1][s]
    BY <1>9, Smaller
  <2> HIDE DEF n
  <2> QED BY <2>1, <2>2
<1>11. h[n] \in X /\ h[n] = F(h[n])
  <2>1. n + 1 \in 1 .. (n + 1) /\ (n + 1) - 1 = n
    BY <1>0
  <2> HIDE DEF n, F, X
  <2> QED BY <1>6, <1>10, <2>1
<1>12. Adds(f, S, h[n])
  <2> HIDE DEF n
  <2> QED BY <1>11 DEF Adds
<1> HIDE DEF n
<1> QED BY <1>11, <1>12

\* Any two such recursions agree where both are defined.
LEMMA AddsAgree ==
  ASSUME NEW S, IsFiniteSet(S), NEW f, \A x \in S : f[x] \in Int, NEW T \in SUBSET S,
         NEW g, Adds(f, S, g), NEW h, Adds(f, T, h)
  PROVE  \A s \in SUBSET T : g[s] \in Int /\ h[s] = g[s]
<1> DEFINE P == {k \in 0 .. Cardinality(S) : \A s \in SUBSET T : Cardinality(s) <= k => g[s] \in Int /\ h[s] = g[s]}
           c(s) == CHOOSE x \in s : TRUE
<1>0. Cardinality(S) \in Nat /\ \A s \in SUBSET T : s \in SUBSET S
  BY FS_CardinalityType
<1>1. ASSUME NEW s \in SUBSET T, s = {} PROVE g[s] \in Int /\ h[s] = g[s]
  BY <1>1, <1>0 DEF Adds
<1>2. ASSUME NEW s \in SUBSET T, s # {}
      PROVE  c(s) \in s /\ g[s] = f[c(s)] + g[s \ {c(s)}] /\ h[s] = f[c(s)] + h[s \ {c(s)}]
  BY <1>2, <1>0 DEF Adds
<1>3. 0 \in P
  <2>1. ASSUME NEW s \in SUBSET T, Cardinality(s) <= 0 PROVE g[s] \in Int /\ h[s] = g[s]
    <3>1. s = {}
      BY <2>1, <1>0, Smaller
    <3> QED BY <3>1, <1>1
  <2> QED BY <2>1, <1>0
<1>4. ASSUME NEW k \in 1 .. Cardinality(S), k - 1 \in P PROVE k \in P
  <2>1. ASSUME NEW s \in SUBSET T, Cardinality(s) <= k PROVE g[s] \in Int /\ h[s] = g[s]
    <3>2. CASE s # {}
      <4> HIDE DEF c
      <4>1. c(s) \in s /\ f[c(s)] \in Int /\ s \ {c(s)} \in SUBSET T
        BY <3>2, <1>2
      <4>2. Cardinality(s) \in Nat /\ Cardinality(s \ {c(s)}) = Cardinality(s) - 1
        BY <4>1, <1>0, Smaller
      <4>3. g[s \ {c(s)}] \in Int /\ h[s \ {c(s)}] = g[s \ {c(s)}]
        BY <4>1, <4>2, <1>4, <2>1, <1>0
      <4>4. g[s] = f[c(s)] + g[s \ {c(s)}] /\ h[s] = f[c(s)] + h[s \ {c(s)}]
        BY <3>2, <1>2
      <4> QED BY <4>1, <4>3, <4>4
    <3> QED BY <3>2, <1>1
  <2> QED BY <2>1, <1>0
<1>5. Cardinality(S) \in P
  <2> HIDE DEF P
  <2> QED BY <1>0, <1>3, <1>4, Upto
<1> QED BY <1>5, <1>0, Smaller

\* A sum is an integer, 0 over no element, and is built up one element by one.
LEMMA SumStep ==
  ASSUME NEW S, IsFiniteSet(S), NEW f, \A x \in S : f[x] \in Int
  PROVE  /\ SumFunctionOnSet(f, {}) = 0
         /\ \A T \in SUBSET S : SumFunctionOnSet(f, T) \in Int
         /\ \A T \in SUBSET S : T # {} =>
              \E x \in T : x = (CHOOSE y \in T : TRUE) /\ SumFunctionOnSet(f, T) = f[x] + SumFunctionOnSet(f, T \ {x})
<1>1. PICK g \in [SUBSET S -> Int] : Adds(f, S, g)
  BY AddsExists
<1>2. ASSUME NEW T \in SUBSET S PROVE SumFunctionOnSet(f, T) = g[T] /\ g[T] \in Int
  <2>1. IsFiniteSet(T) /\ \A x \in T : f[x] \in Int
    BY FS_Subset
  <2>2. \E h : Adds(f, T, h)
    BY <2>1, AddsExists
  <2> DEFINE h == CHOOSE iter : Adds(f, T, iter)
  <2>3. Adds(f, T, h)
    BY <2>2
  <2>4. SumFunctionOnSet(f, T) = h[T]
    BY SumIs
  <2> HIDE DEF h
  <2> QED BY <1>1, <2>3, <2>4, AddsAgree
<1>3. g[{}] = 0
  BY <1>1 DEF Adds
<1>4. ASSUME NEW T \in SUBSET S, T # {}
      PROVE  \E x \in T : x = (CHOOSE y \in T : TRUE) /\ g[T] = f[x] + g[T \ {x}]
  BY <1>1, <1>4 DEF Adds
<1>5. SumFunctionOnSet(f, {}) = 0
  BY <1>2, <1>3
<1>6. ASSUME NEW T \in SUBSET S, T # {}
      PROVE  \E x \in T : x = (CHOOSE y \in T : TRUE) /\ SumFunctionOnSet(f, T) = f[x] + SumFunctionOnSet(f, T \ {x})
  <2>1. PICK x \in T : x = (CHOOSE y \in T : TRUE) /\ g[T] = f[x] + g[T \ {x}]
    BY <1>4, <1>6
  <2>2. T \ {x} \in SUBSET S
    OBVIOUS
  <2> QED BY <2>1, <2>2, <1>2
<1> QED BY <1>2, <1>5, <1>6

\* A sum can be taken apart at any of its elements, not only the one CHOOSE
\* picks: FuseWRR adds up a URL's scores in whatever order the result sets
\* arrive.
LEMMA SumAny ==
  ASSUME NEW S, IsFiniteSet(S), NEW f, \A x \in S : f[x] \in Int
  PROVE  \A x \in S : SumFunctionOnSet(f, S) = f[x] + SumFunctionOnSet(f, S \ {x})
<1> DEFINE Su(T) == SumFunctionOnSet(f, T)
           P == {k \in 0 .. Cardinality(S) : \A T \in SUBSET S : Cardinality(T) <= k => \A x \in T : Su(T) = f[x] + Su(T \ {x})}
<1>0. Cardinality(S) \in Nat
  BY FS_CardinalityType
<1>1. 0 \in P
  BY <1>0, Smaller
<1>2. ASSUME NEW k \in 1 .. Cardinality(S), k - 1 \in P PROVE k \in P
  <2>1. ASSUME NEW T \in SUBSET S, Cardinality(T) <= k, NEW x \in T PROVE Su(T) = f[x] + Su(T \ {x})
    <3>1. PICK c \in T : Su(T) = f[c] + Su(T \ {c})
      BY SumStep
    <3>2. CASE c # x
      <4>1. T \ {c} \in SUBSET S /\ T \ {x} \in SUBSET S /\ c \in T \ {x} /\ x \in T \ {c}
        BY <3>2
      <4>2. Cardinality(T) \in Nat /\ Cardinality(T \ {c}) <= k - 1 /\ Cardinality(T \ {x}) <= k - 1
        BY <2>1, <1>0, Smaller
      <4>3. Su(T \ {c}) = f[x] + Su((T \ {c}) \ {x}) /\ Su(T \ {x}) = f[c] + Su((T \ {x}) \ {c})
        <5> HIDE DEF Su
        <5> QED BY <4>1, <4>2, <1>2
      <4>4. (T \ {c}) \ {x} = (T \ {x}) \ {c} /\ (T \ {x}) \ {c} \in SUBSET S
        OBVIOUS
      <4>5. f[c] \in Int /\ f[x] \in Int /\ Su((T \ {x}) \ {c}) \in Int
        BY <4>4, SumStep
      <4> DEFINE d == Su((T \ {x}) \ {c})
      <4>6. Su(T \ {c}) = f[x] + d /\ Su(T \ {x}) = f[c] + d /\ d \in Int
        <5> HIDE DEF Su
        <5> QED BY <4>3, <4>4, <4>5
      <4> HIDE DEF Su, d
      <4> QED BY <3>1, <4>5, <4>6
    <3>3. CASE c = x
      <4> HIDE DEF Su
      <4> QED BY <3>1, <3>3
    <3> QED BY <3>2, <3>3
  <2> QED BY <2>1
<1>3. Cardinality(S) \in P
  <2> HIDE DEF P
  <2> QED BY <1>0, <1>1, <1>2, Upto
<1> QED BY <1>3, <1>0

\* A sum of integers is an integer.
LEMMA SumInt ==
  ASSUME NEW S, IsFiniteSet(S), NEW f, \A x \in S : f[x] \in Int
  PROVE  SumFunctionOnSet(f, S) \in Int
BY SumStep

\* The empty sum is 0.
LEMMA SumEmpty == ASSUME NEW f PROVE SumFunctionOnSet(f, {}) = 0
BY SumStep, FS_EmptySet

\* A sum does not depend on the names of what is summed.
Renames(b, f, S, g, B) ==
    /\ IsFiniteSet(S)
    /\ \A x \in S : f[x] \in Int
    /\ \A x \in S : g[b[x]] = f[x]
    /\ \A x, y \in S : b[x] = b[y] => x = y
    /\ \A x \in S : b[x] \in B
    /\ \A y \in B : \E x \in S : b[x] = y

\* A renaming maps onto the other names: the image of S under it is B.
LEMMA RenamesOnto ==
  ASSUME NEW S, NEW f, NEW g, NEW b, NEW B, Renames(b, f, S, g, B)
  PROVE  {b[x] : x \in S} = B
<1>1. (\A x \in S : b[x] \in B) /\ \A y \in B : \E x \in S : b[x] = y
  BY Zenon DEF Renames
<1> QED BY <1>1

\* Summing the same numbers under other names gives the same sum: what makes a
\* fused score independent of the order of the result sets.
LEMMA SumMap ==
  ASSUME NEW S, NEW f, NEW g, NEW b, NEW B, Renames(b, f, S, g, B)
  PROVE  SumFunctionOnSet(g, B) = SumFunctionOnSet(f, S)
<1>98. /\ IsFiniteSet(S)
       /\ \A x \in S : f[x] \in Int
       /\ \A x \in S : g[b[x]] = f[x]
       /\ \A x, y \in S : b[x] = b[y] => x = y
       /\ \A x \in S : b[x] \in B
       /\ \A y \in B : \E x \in S : b[x] = y
  BY DEF Renames
<1> USE <1>98
<1> DEFINE im(T) == {b[x] : x \in T}
           P == {k \in 0 .. Cardinality(S) : \A T \in SUBSET S : Cardinality(T) <= k =>
                   SumFunctionOnSet(g, im(T)) = SumFunctionOnSet(f, T)}
<1>0. Cardinality(S) \in Nat
  BY FS_CardinalityType
<1>91. ASSUME NEW T \in SUBSET S PROVE IsFiniteSet(im(T))
  <2>1. IsFiniteSet(T)
    BY FS_Subset
  <2> DEFINE h == [x \in T |-> b[x]]
  <2>2. h \in Surjection(T, im(T))
    BY DEF Surjection
  <2> HIDE DEF h
  <2> QED BY <2>1, <2>2, FS_Surjection
<1>92. ASSUME NEW T \in SUBSET S, NEW y \in im(T) PROVE g[y] \in Int
  OBVIOUS
<1>1. 0 \in P
  <2>1. ASSUME NEW T \in SUBSET S, Cardinality(T) <= 0 PROVE T = {} /\ im(T) = {}
    BY <2>1, <1>0, Smaller
  <2>2. SumFunctionOnSet(g, {}) = SumFunctionOnSet(f, {})
    BY SumEmpty
  <2> QED BY <2>1, <2>2, <1>0
<1>2. ASSUME NEW k \in 1 .. Cardinality(S), k - 1 \in P PROVE k \in P
  <2>1. ASSUME NEW T \in SUBSET S, Cardinality(T) <= k, T # {}
        PROVE  SumFunctionOnSet(g, im(T)) = SumFunctionOnSet(f, T)
    <3>1. PICK x : x \in T
      BY <2>1
    <3>2. IsFiniteSet(T) /\ SumFunctionOnSet(f, T) = f[x] + SumFunctionOnSet(f, T \ {x})
      BY <3>1, FS_Subset, SumAny
    <3>3. IsFiniteSet(im(T)) /\ \A y \in im(T) : g[y] \in Int
      BY <1>91, <1>92
    <3>4. b[x] \in im(T) /\ im(T) \ {b[x]} = im(T \ {x})
      BY <3>1
    <3>5. SumFunctionOnSet(g, im(T)) = g[b[x]] + SumFunctionOnSet(g, im(T \ {x}))
      <4> DEFINE U == im(T)
      <4>1. \A y \in U : SumFunctionOnSet(g, U) = g[y] + SumFunctionOnSet(g, U \ {y})
        <5> HIDE DEF U
        <5> QED BY <3>3, SumAny DEF U
      <4> HIDE DEF im
      <4> QED BY <3>4, <4>1
    <3>6. T \ {x} \in SUBSET S /\ Cardinality(T) \in Nat /\ Cardinality(T \ {x}) <= k - 1
      BY <3>1, <2>1, <1>0, Smaller
    <3>7. SumFunctionOnSet(g, im(T \ {x})) = SumFunctionOnSet(f, T \ {x})
      <4> HIDE DEF im
      <4> QED BY <3>6, <1>2
    <3> HIDE DEF im
    <3> QED BY <3>1, <3>2, <3>5, <3>7
  <2>2. ASSUME NEW T \in SUBSET S, T = {} PROVE SumFunctionOnSet(g, im(T)) = SumFunctionOnSet(f, T)
    <3>1. im(T) = {}
      BY <2>2
    <3> QED BY <2>2, <3>1, SumEmpty
  <2> HIDE DEF im
  <2> QED BY <2>1, <2>2
<1>3. Cardinality(S) \in P
  <2> HIDE DEF P
  <2> QED BY <1>0, <1>1, <1>2, Upto
<1>5. im(S) = B
  <2> HIDE DEF P
  <2> QED BY RenamesOnto
<1> HIDE DEF im
<1>4. SumFunctionOnSet(g, im(S)) = SumFunctionOnSet(f, S)
  BY <1>3, <1>0
<1> QED BY <1>4, <1>5

\* before is a strict total order of U.
Orders(before, U) ==
    /\ \A u \in U : <<u, u>> \notin before
    /\ \A u, v, w \in U : <<u, v>> \in before /\ <<v, w>> \in before => <<u, w>> \in before
    /\ \A u, v \in U : u # v => <<u, v>> \in before \/ <<v, u>> \in before

\* Arrange lists a finite set, each member once, in the given order: the
\* sort.SliceStable and sort.Slice calls.
LEMMA Arranged ==
  ASSUME NEW U, IsFiniteSet(U), NEW before, Orders(before, U)
  PROVE  /\ Cardinality(U) \in Nat
         /\ Arrange(U, before) \in [1 .. Cardinality(U) -> U]
         /\ \A u \in U : \E p \in 1 .. Cardinality(U) : Arrange(U, before)[p] = u
         /\ \A p, r \in 1 .. Cardinality(U) : p < r => <<Arrange(U, before)[p], Arrange(U, before)[r]>> \in before
         /\ \A p, r \in 1 .. Cardinality(U) : Arrange(U, before)[p] = Arrange(U, before)[r] => p = r
<1> DEFINE n == Cardinality(U)
           under(u) == {v \in U : <<v, u>> \in before}
           rank == [u \in U |-> Cardinality(under(u))]
<1>0. n \in Nat
  BY FS_CardinalityType
<1>1. ASSUME NEW u \in U PROVE IsFiniteSet(under(u)) /\ rank[u] \in 0 .. (n - 1)
  <2>1. under(u) \in SUBSET U /\ u \in U /\ u \notin under(u)
    BY DEF Orders
  <2>2. IsFiniteSet(under(u)) /\ Cardinality(under(u)) <= n /\ (n = Cardinality(under(u)) => U = under(u))
    BY <2>1, FS_Subset
  <2>3. Cardinality(under(u)) \in Nat
    BY <2>2, FS_CardinalityType
  <2> HIDE DEF under, n
  <2> QED BY <2>1, <2>2, <2>3, <1>0
<1>2. ASSUME NEW u \in U, NEW v \in U, <<u, v>> \in before PROVE rank[u] < rank[v]
  <2>1. under(u) \in SUBSET under(v)
    BY <1>2 DEF Orders
  <2>2. u \in under(v) /\ u \notin under(u)
    BY <1>2 DEF Orders
  <2>3. IsFiniteSet(under(v)) /\ rank[u] \in 0 .. (n - 1) /\ rank[v] \in 0 .. (n - 1)
    BY <1>1
  <2>4. Cardinality(under(u)) <= Cardinality(under(v)) /\ Cardinality(under(u)) # Cardinality(under(v))
    <3> HIDE DEF under
    <3> QED BY <2>1, <2>2, <2>3, FS_Subset
  <2>5. rank[u] = Cardinality(under(u)) /\ rank[v] = Cardinality(under(v))
    OBVIOUS
  <2> HIDE DEF under, rank, n
  <2> QED BY <2>3, <2>4, <2>5, <1>0
<1>3. \A u, v \in U : rank[u] = rank[v] => u = v
  <2>1. ASSUME NEW u \in U, NEW v \in U, rank[u] = rank[v], u # v PROVE FALSE
    <3>1. rank[u] < rank[v] \/ rank[v] < rank[u]
      <4> HIDE DEF rank
      <4> QED BY <1>2, <2>1 DEF Orders
    <3>2. rank[u] \in 0 .. (n - 1) /\ rank[v] \in 0 .. (n - 1)
      BY <1>1
    <3> HIDE DEF rank, n
    <3> QED BY <2>1, <3>1, <3>2, <1>0
  <2> HIDE DEF rank
  <2> QED BY <2>1
<1>4. \A p \in 0 .. (n - 1) : \E u \in U : rank[u] = p
  <2>1. rank \in [U -> 0 .. (n - 1)]
    BY <1>1
  <2>2. rank \in Injection(U, 0 .. (n - 1))
    <3> HIDE DEF rank, n
    <3> QED BY <1>3, <2>1 DEF Injection, IsInjective
  <2>3. IsFiniteSet(0 .. (n - 1)) /\ Cardinality(0 .. (n - 1)) = n
    <3> HIDE DEF n, rank
    <3>1. n \in Nat /\ 0 \in Int /\ n - 1 \in Int
      BY <1>0
    <3>2. IsFiniteSet(0 .. (n - 1)) /\ Cardinality(0 .. (n - 1)) = IF 0 > n - 1 THEN 0 ELSE n - 1 - 0 + 1
      BY <3>1, FS_Interval
    <3> QED BY <3>1, <3>2
  <2>4. rank \in Surjection(U, 0 .. (n - 1))
    <3> HIDE DEF rank
    <3> QED BY <2>2, <2>3, FS_Injection
  <2> HIDE DEF rank, n
  <2> QED BY <2>4 DEF Surjection
<1> DEFINE spot == Arrange(U, before)
<1>5. ASSUME NEW p \in 1 .. n PROVE spot[p] \in U /\ rank[spot[p]] = p - 1
  <2>1. \E u \in U : Cardinality(under(u)) = p - 1
    <3>1. \E u \in U : rank[u] = p - 1
      <4> HIDE DEF rank, n
      <4>1. p - 1 \in 0 .. (n - 1)
        BY <1>0
      <4> QED BY <4>1, <1>4
    <3>2. \A u \in U : rank[u] = Cardinality(under(u))
      OBVIOUS
    <3> HIDE DEF rank, under
    <3> QED BY <3>1, <3>2
  <2>2. spot[p] = CHOOSE u \in U : Cardinality(under(u)) = p - 1
    BY DEF Arrange
  <2> HIDE DEF under, spot
  <2> QED BY <2>1, <2>2
<1>6. spot \in [1 .. n -> U]
  <2> DEFINE pick(p) == CHOOSE u \in U : Cardinality({v \in U : <<v, u>> \in before}) = p - 1
  <2>1. spot = [p \in 1 .. n |-> pick(p)]
    BY DEF Arrange
  <2> HIDE DEF spot, n, rank, pick
  <2>2. \A p \in 1 .. n : pick(p) \in U
    BY <2>1, <1>5
  <2> QED BY <2>1, <2>2
<1> HIDE DEF spot, rank, n
<1>7. ASSUME NEW u \in U PROVE \E p \in 1 .. n : spot[p] = u
  <2>1. rank[u] \in 0 .. (n - 1)
    BY <1>1
  <2>2. rank[u] + 1 \in 1 .. n /\ (rank[u] + 1) - 1 = rank[u]
    BY <2>1, <1>0
  <2>3. spot[rank[u] + 1] \in U /\ rank[spot[rank[u] + 1]] = rank[u]
    BY <2>2, <1>5
  <2> QED BY <1>3, <2>2, <2>3
<1>8. ASSUME NEW p \in 1 .. n, NEW r \in 1 .. n, p < r PROVE <<spot[p], spot[r]>> \in before
  <2>1. spot[p] \in U /\ spot[r] \in U /\ rank[spot[p]] < rank[spot[r]]
    BY <1>5, <1>8, <1>0
  <2>2. spot[p] # spot[r]
    BY <2>1, <1>5, <1>8, <1>0
  <2>3. ~(rank[spot[r]] < rank[spot[p]])
    BY <1>5, <1>8, <1>0
  <2> QED BY <2>1, <2>2, <2>3, <1>2 DEF Orders
<1>9. ASSUME NEW p \in 1 .. n, NEW r \in 1 .. n, spot[p] = spot[r] PROVE p = r
  BY <1>5, <1>9, <1>0
<1> QED BY <1>0, <1>6, <1>7, <1>8, <1>9 DEF spot, n

\* Min is a least member of a set bounded below.
LEMMA MinIn ==
  ASSUME NEW a \in Int, NEW S, S # {}, \A x \in S : x \in Int /\ x >= a
  PROVE  Min(S) \in S /\ \A y \in S : Min(S) <= y
<1> DEFINE T == {x - a : x \in S}
<1>1. T \in SUBSET Nat /\ T # {}
  OBVIOUS
<1>2. PICK t \in T : \A y \in T : t <= y
  <2> HIDE DEF T
  <2> QED BY <1>1, FirstIndex
<1>3. PICK x \in S : t = x - a
  OBVIOUS
<1>4. \A y \in S : x <= y
  <2>1. ASSUME NEW y \in S PROVE x <= y
    <3>1. y - a \in T /\ y \in Int /\ x \in Int
      OBVIOUS
    <3>2. x - a <= y - a
      BY <1>2, <1>3, <3>1
    <3> QED BY <3>1, <3>2
  <2> QED BY <2>1
<1> HIDE DEF T
<1> QED BY <1>4 DEF Min

\* Max is a greatest member of a set bounded above.
LEMMA MaxIn ==
  ASSUME NEW b \in Int, NEW S, S # {}, \A x \in S : x \in Int /\ x <= b
  PROVE  Max(S) \in S /\ \A y \in S : Max(S) >= y
<1> DEFINE T == {b - x : x \in S}
<1>1. T \in SUBSET Nat /\ T # {}
  OBVIOUS
<1>2. PICK t \in T : \A y \in T : t <= y
  <2> HIDE DEF T
  <2> QED BY <1>1, FirstIndex
<1>3. PICK x \in S : t = b - x
  OBVIOUS
<1>4. \A y \in S : x >= y
  <2>1. ASSUME NEW y \in S PROVE x >= y
    <3>1. b - y \in T /\ y \in Int /\ x \in Int
      OBVIOUS
    <3>2. b - x <= b - y
      BY <1>2, <1>3, <3>1
    <3> QED BY <3>1, <3>2
  <2> QED BY <2>1
<1> HIDE DEF T
<1> QED BY <1>4 DEF Max

------------------------------------------------------------------------------
\* text: Chunk.

\* What strings.TrimSpace leaves of a window holds its words and is no longer
\* than it.
LEMMA TrimmedSound ==
  ASSUME NEW text, NEW pos \in Nat, NEW end \in Nat, pos <= end
  PROVE  /\ Words(text, pos, end) \subseteq Trimmed(text, pos, end)
         /\ Cardinality(Trimmed(text, pos, end)) \in Nat
         /\ Cardinality(Trimmed(text, pos, end)) <= end - pos
<1> DEFINE W == Words(text, pos, end)
<1>1. \A x \in W : x \in Int /\ x >= pos /\ x <= end - 1
  BY DEF Words
<1>2. CASE W = {}
  BY <1>2, FS_EmptySet DEF Trimmed
<1>3. CASE W # {}
  <2> HIDE DEF W
  <2>1. Min(W) \in W /\ \A y \in W : Min(W) <= y
    BY <1>1, <1>3, MinIn
  <2>2. end - 1 \in Int /\ Max(W) \in W /\ \A y \in W : Max(W) >= y
    BY <1>1, <1>3, MaxIn
  <2>3. Trimmed(text, pos, end) = Min(W) .. Max(W)
    BY <1>3 DEF Trimmed, W
  <2>4. W \subseteq Min(W) .. Max(W)
    BY <1>1, <2>1, <2>2
  <2>5. Min(W) \in Int /\ Max(W) \in Int /\ Min(W) >= pos /\ Max(W) <= end - 1
    BY <1>1, <2>1, <2>2
  <2>6. Cardinality(Min(W) .. Max(W)) \in Nat /\ Cardinality(Min(W) .. Max(W)) <= end - pos
    <3>1. Cardinality(Min(W) .. Max(W)) = IF Min(W) > Max(W) THEN 0 ELSE Max(W) - Min(W) + 1
      BY <2>5, FS_Interval
    <3> QED BY <3>1, <2>5
  <2> QED BY <2>3, <2>4, <2>6 DEF W
<1> QED BY <1>2, <1>3

\* One round of Chunk: it advances, its chunk is short and holds the words it
\* advances over.
LEMMA NextChunkSound ==
  ASSUME NEW Rune, NEW text \in Seq(Rune), NEW size \in Nat \ {0}, NEW o \in 0 .. (size - 1), NEW pos \in 0 .. (Len(text) - 1)
  PROVE  LET r == nextChunk(text, size, o, pos)
         IN  /\ r.next \in Nat /\ r.next > pos /\ r.next <= Len(text)
             /\ Words(text, pos, r.next) \subseteq r.chunk
             /\ Cardinality(r.chunk) <= size
<1> DEFINE end == pos + size
           split == findWordBoundary(text, size, pos, end)
           r == nextChunk(text, size, o, pos)
           L == Len(text)
           half == size \div 2
<1>0. /\ L \in Nat /\ pos \in Nat /\ pos < L /\ size \in Nat /\ size >= 1 /\ o \in Nat /\ o < size
      /\ half \in Nat /\ end \in Nat /\ end = pos + size
  OBVIOUS
<1> SUFFICES /\ r.next \in Nat /\ r.next > pos /\ r.next <= L
             /\ Words(text, pos, r.next) \subseteq r.chunk
             /\ Cardinality(r.chunk) <= size
  OBVIOUS
<1>1. CASE end >= L
  <2>1. r = [chunk |-> Trimmed(text, pos, L), next |-> L]
    BY <1>1 DEF nextChunk
  <2>2. /\ Words(text, pos, L) \subseteq Trimmed(text, pos, L)
        /\ Cardinality(Trimmed(text, pos, L)) \in Nat
        /\ Cardinality(Trimmed(text, pos, L)) <= L - pos
    <3> HIDE DEF L
    <3> QED BY <1>0, TrimmedSound
  <2>3. r.next = L /\ r.chunk = Trimmed(text, pos, L)
    BY <2>1
  <2>4. L \in Nat /\ L > pos /\ L - pos <= size
    BY <1>0, <1>1
  <2>5. Cardinality(Trimmed(text, pos, L)) <= size
    <3> DEFINE c == Cardinality(Trimmed(text, pos, L))
    <3>1. c \in Nat /\ c <= L - pos
      BY <2>2
    <3> HIDE DEF c, L
    <3>2. c <= size
      BY <3>1, <2>4
    <3> QED BY <3>2 DEF c
  <2> HIDE DEF r, L, end
  <2> QED BY <2>2, <2>3, <2>4, <2>5
<1>2. CASE end < L
  <2> DEFINE B == {-1} \cup {i \in (pos + half) .. (end - 1) : text[i + 1] = "space"}
  <2>1. split \in B
    <3>1. split = Max(B)
      BY DEF findWordBoundary
    <3>2. end - 1 \in Int /\ B # {} /\ \A x \in B : x \in Int /\ x <= end - 1
      <4> HIDE DEF end, half
      <4> QED BY <1>0
    <3> HIDE DEF B, end, split
    <3> QED BY <3>1, <3>2, MaxIn
  <2>2. CASE split >= 0
    <3>1. split \in pos .. (end - 1) /\ text[split + 1] = "space" /\ split \in Nat
      <4> HIDE DEF split, end, half
      <4> QED BY <2>1, <2>2, <1>0
    <3>2. r = [chunk |-> Trimmed(text, pos, split), next |-> Advance(pos, split + 1 - o)]
      BY <1>2, <1>0, <2>2 DEF nextChunk
    <3>3. r.chunk = Trimmed(text, pos, split) /\ r.next = Advance(pos, split + 1 - o)
      BY <3>2
    <3> HIDE DEF r, split, L, end, half
    <3>4. r.next \in Nat /\ r.next > pos /\ r.next <= split + 1
      BY <3>1, <3>3, <1>0 DEF Advance
    <3>5. /\ Words(text, pos, split) \subseteq Trimmed(text, pos, split)
          /\ Cardinality(Trimmed(text, pos, split)) \in Nat
          /\ Cardinality(Trimmed(text, pos, split)) <= split - pos
      <4>1. pos <= split
        BY <1>0, <3>1
      <4> QED BY <1>0, <3>1, <4>1, TrimmedSound
    <3>6. Words(text, pos, r.next) \subseteq Words(text, pos, split)
      BY <3>1, <3>4, <1>0 DEF Words
    <3>7. split <= L - 1 /\ split - pos <= size
      BY <3>1, <1>0, <1>2
    <3>8. r.next <= L
      BY <3>1, <3>4, <3>7, <1>0
    <3>9. Words(text, pos, r.next) \subseteq r.chunk
      BY <3>3, <3>5, <3>6
    <3>10. Cardinality(r.chunk) <= size
      BY <3>1, <3>3, <3>5, <3>7, <1>0
    <3> QED BY <3>4, <3>8, <3>9, <3>10
  <2>3. CASE ~(split >= 0)
    <3>2. r = [chunk |-> Trimmed(text, pos, end), next |-> Advance(pos, end - o)]
      BY <1>2, <1>0, <2>3 DEF nextChunk
    <3>3. r.chunk = Trimmed(text, pos, end) /\ r.next = Advance(pos, end - o)
      BY <3>2
    <3> HIDE DEF r, split, L, end, half
    <3>4. r.next \in Nat /\ r.next > pos /\ r.next <= end
      BY <3>3, <1>0 DEF Advance
    <3>5. /\ Words(text, pos, end) \subseteq Trimmed(text, pos, end)
          /\ Cardinality(Trimmed(text, pos, end)) \in Nat
          /\ Cardinality(Trimmed(text, pos, end)) <= end - pos
      <4>1. pos <= end
        BY <1>0
      <4> QED BY <1>0, <4>1, TrimmedSound
    <3>6. Words(text, pos, r.next) \subseteq Words(text, pos, end)
      BY <3>4, <1>0 DEF Words
    <3> QED BY <3>3, <3>4, <3>5, <3>6, <1>0, <1>2
  <2> QED BY <2>2, <2>3
<1>3. end >= L \/ end < L
  BY <1>0
<1> QED BY <1>1, <1>2, <1>3

\* The positions at which Chunk's loop starts its rounds are the recursion of its
\* pos variable.
LEMMA StartsSound ==
  ASSUME NEW Rune, NEW text \in Seq(Rune), NEW size \in Nat \ {0}, NEW o \in 0 .. (size - 1)
  PROVE  LET from == Starts(text, size, o)
         IN  /\ from \in [0 .. Len(text) -> Nat] /\ from[0] = 0
             /\ \A k \in 1 .. Len(text) :
                  from[k] = IF from[k - 1] >= Len(text) THEN from[k - 1] ELSE nextChunk(text, size, o, from[k - 1]).next
<1> DEFINE N == Len(text)
           X == Nat
           x0 == 0
           e(x) == IF x >= Len(text) THEN x ELSE nextChunk(text, size, o, x).next
           step == [p \in (1 .. N) \X X |-> e(p[2])]
           body(f) == [k \in 0 .. Len(text) |-> IF k = 0 THEN 0 ELSE e(f[k - 1])]
           from == Starts(text, size, o)
<1>0. N \in Nat /\ x0 \in X
  OBVIOUS
<1>1. \A x \in X : e(x) \in X
  <2>1. ASSUME NEW x \in Nat, ~(x >= Len(text)) PROVE nextChunk(text, size, o, x).next \in Nat
    <3>1. x \in 0 .. (Len(text) - 1)
      BY <2>1, <1>0
    <3> QED BY <3>1, NextChunkSound
  <2> QED BY <2>1
<1>2. step \in [(1 .. N) \X X -> X]
  <2> HIDE DEF e, X, N
  <2> QED BY <1>1
<1>3. PICK f : Iteration(f, N, X, x0, step)
  <2> HIDE DEF N, X, x0, step
  <2> QED BY <1>0, <1>2, IterExists
<1>4. f = body(f)
  <2>1. ASSUME NEW k \in 0 .. N PROVE f[k] = IF k = 0 THEN 0 ELSE e(f[k - 1])
    <3>1. CASE k = 0
      BY <3>1, <1>3 DEF Iteration
    <3>2. CASE k \in 1 .. N
      <4> HIDE DEF e, X, N, x0
      <4>1. f[k - 1] \in X /\ f[k] = step[<<k, f[k - 1]>>]
        BY <3>2, <1>3 DEF Iteration
      <4>2. step[<<k, f[k - 1]>>] = e(f[k - 1])
        BY <3>2, <4>1
      <4> QED BY <4>1, <4>2, <3>2, <1>0
    <3> QED BY <3>1, <3>2
  <2>2. f \in [0 .. N -> X]
    BY <1>3 DEF Iteration
  <2> HIDE DEF e
  <2> QED BY <2>1, <2>2
<1>5. from = CHOOSE g : g = body(g)
  BY DEF Starts
<1>6. from = body(from)
  <2> HIDE DEF from, body
  <2> QED BY <1>4, <1>5
<1> HIDE DEF from
<1>7. from[0] = 0 /\ \A k \in 1 .. N : from[k] = e(from[k - 1])
  <2> HIDE DEF e
  <2> QED BY <1>6, <1>0
<1> DEFINE P == {k \in 0 .. N : from[k] \in Nat}
<1>8. \A k \in 0 .. N : k \in P
  <2>1. 0 \in P
    BY <1>0, <1>7
  <2>2. ASSUME NEW k \in 1 .. N, k - 1 \in P PROVE k \in P
    <3>1. k - 1 \in 0 .. N /\ k \in 0 .. N /\ from[k - 1] \in X
      BY <2>2
    <3> HIDE DEF e
    <3>2. from[k] \in X
      BY <3>1, <1>7, <1>1
    <3> QED BY <3>1, <3>2
  <2> HIDE DEF P, N
  <2> QED BY <2>1, <2>2, <1>0, Upto
<1>9. from \in [0 .. N -> Nat]
  <2>1. \A k \in 0 .. N : from[k] \in Nat
    BY <1>8
  <2>2. from = [k \in 0 .. N |-> from[k]]
    <3> HIDE DEF e
    <3> QED BY <1>6
  <2> HIDE DEF N
  <2> QED BY <2>1, <2>2
<1> QED BY <1>7, <1>9 DEF from

\* ChunksCoverText, for every text, every chunk size and every overlap.
THEOREM ChunkerSound ==
  ASSUME NEW Rune, NEW text \in Seq(Rune), NEW chunkSize \in Nat \ {0}, NEW overlap \in Nat
  PROVE  ChunksCoverText(text, chunkSize, overlap)
<1> DEFINE o == Clamped(chunkSize, overlap)
           n == Len(text)
           from == Starts(text, chunkSize, o)
           chunks == Chunk(text, chunkSize, o)
           next(x) == nextChunk(text, chunkSize, o, x).next
           chunk(x) == nextChunk(text, chunkSize, o, x).chunk
<1>0. n \in Nat
  OBVIOUS
<1>1. o \in 0 .. (chunkSize - 1)
  BY DEF Clamped
<1>2. /\ from \in [0 .. n -> Nat] /\ from[0] = 0
      /\ \A k \in 1 .. n : from[k] = IF from[k - 1] >= n THEN from[k - 1] ELSE next(from[k - 1])
  <2> HIDE DEF o
  <2> QED BY <1>1, StartsSound
<1>3. ASSUME NEW x \in Nat, x < n
      PROVE  /\ next(x) \in Nat /\ next(x) > x /\ next(x) <= n
             /\ Words(text, x, next(x)) \subseteq chunk(x) /\ Cardinality(chunk(x)) <= chunkSize
  <2>1. x \in 0 .. (Len(text) - 1)
    BY <1>3
  <2> HIDE DEF o
  <2> QED BY <1>1, <2>1, NextChunkSound
<1>4. n > chunkSize => chunks = {chunk(from[k]) : k \in {j \in 0 .. n : from[j] < n}} \ {{}}
  <2> HIDE DEF o
  <2>1. DOMAIN from = 0 .. n
    BY <1>2
  <2> QED BY <1>0, <2>1 DEF Chunk
<1> HIDE DEF from, next, chunk, o, n
<1> DEFINE P == {k \in 0 .. n : from[k] >= k \/ from[k] >= n}
<1>5. \A k \in 0 .. n : k \in P
  <2>1. 0 \in P
    BY <1>0, <1>2
  <2>2. ASSUME NEW k \in 1 .. n, k - 1 \in P PROVE k \in P
    <3>1. from[k - 1] \in Nat /\ from[k] = IF from[k - 1] >= n THEN from[k - 1] ELSE next(from[k - 1])
      BY <1>2, <1>0
    <3>2. from[k - 1] >= k - 1 \/ from[k - 1] >= n
      BY <2>2
    <3>3. CASE from[k - 1] >= n
      BY <3>1, <3>3
    <3>4. CASE ~(from[k - 1] >= n)
      <4>1. next(from[k - 1]) \in Nat /\ next(from[k - 1]) > from[k - 1]
        BY <1>0, <1>3, <3>1, <3>4
      <4> QED BY <3>1, <3>2, <3>4, <4>1, <1>0
    <3> QED BY <3>3, <3>4
  <2> HIDE DEF P
  <2> QED BY <2>1, <2>2, <1>0, Upto
<1>6. from[n] >= n
  BY <1>5, <1>0
<1>7. \A k \in DOMAIN from : k > 0 /\ from[k - 1] < n => from[k] > from[k - 1]
  <2>1. ASSUME NEW k \in DOMAIN from, k > 0, from[k - 1] < n PROVE from[k] > from[k - 1]
    <3>1. k \in 1 .. n /\ from[k - 1] \in Nat
      BY <1>2, <1>0, <2>1
    <3>2. from[k] = next(from[k - 1])
      BY <3>1, <1>2, <1>0, <2>1
    <3> QED BY <3>1, <3>2, <1>3, <2>1
  <2> QED BY <2>1
<1>8. CASE n > chunkSize
  <2> DEFINE C == {chunk(from[k]) : k \in {j \in 0 .. n : from[j] < n}} \ {{}}
             Q == {k \in 0 .. n : \A i \in Words(text, 0, n) : i < from[k] => i \in UNION C}
  <2>1. \A k \in 0 .. n : k \in Q
    <3>1. 0 \in Q
      BY <1>0, <1>2 DEF Words
    <3>2. ASSUME NEW k \in 1 .. n, k - 1 \in Q PROVE k \in Q
      <4>1. from[k - 1] \in Nat /\ from[k] = IF from[k - 1] >= n THEN from[k - 1] ELSE next(from[k - 1])
        BY <1>2, <1>0
      <4>2. ASSUME NEW i \in Words(text, 0, n), i < from[k], ~(i < from[k - 1]) PROVE i \in UNION C
        <5>1. i \in Nat /\ i < n /\ text[i + 1] = "word"
          BY <1>0 DEF Words
        <5>2. from[k - 1] < n /\ from[k] = next(from[k - 1]) /\ k - 1 \in 0 .. n
          BY <4>1, <4>2, <5>1, <1>0
        <5>3. next(from[k - 1]) \in Nat /\ Words(text, from[k - 1], next(from[k - 1])) \subseteq chunk(from[k - 1])
          BY <4>1, <5>2, <1>3
        <5>4. i \in Words(text, from[k - 1], next(from[k - 1]))
          BY <4>1, <4>2, <5>1, <5>2, <5>3 DEF Words
        <5>5. i \in chunk(from[k - 1])
          BY <5>3, <5>4
        <5>6. chunk(from[k - 1]) \in C
          BY <5>2, <5>5
        <5> HIDE DEF C
        <5> QED BY <5>5, <5>6
      <4>3. ASSUME NEW i \in Words(text, 0, n), i < from[k], i < from[k - 1] PROVE i \in UNION C
        <5> HIDE DEF C
        <5> QED BY <3>2, <4>3
      <4> HIDE DEF C
      <4> QED BY <4>2, <4>3
    <3> HIDE DEF Q
    <3> QED BY <3>1, <3>2, <1>0, Upto
  <2>2. Words(text, 0, n) \subseteq UNION C
    <3>1. n \in Q
      BY <2>1, <1>0
    <3>2. ASSUME NEW i \in Words(text, 0, n) PROVE i < from[n]
      <4>1. i \in Nat /\ i < n /\ from[n] \in Nat
        BY <1>0, <1>2 DEF Words
      <4> QED BY <4>1, <1>6, <1>0
    <3> HIDE DEF C
    <3> QED BY <3>1, <3>2
  <2>3. \A c \in C : Cardinality(c) <= chunkSize
    BY <1>2, <1>3
  <2> HIDE DEF C
  <2> QED BY <1>4, <1>6, <1>7, <1>8, <2>2, <2>3 DEF C, n, from, o, ChunksCoverText
<1>9. CASE ~(n > chunkSize)
  <2>1. CASE text = <<>>
    <3>1. chunks = {} /\ Words(text, 0, n) = {}
      BY <2>1 DEF Chunk, Words, n
    <3> HIDE DEF chunks
    <3> QED BY <3>1, <1>6, <1>7 DEF ChunksCoverText, chunks, n, from, o
  <2>2. CASE text # <<>>
    <3>1. chunks = {0 .. (n - 1)}
      BY <2>2, <1>0, <1>9 DEF Chunk, n
    <3>2. Words(text, 0, n) \subseteq 0 .. (n - 1)
      BY DEF Words
    <3>3. Cardinality(0 .. (n - 1)) <= chunkSize
      <4>1. Cardinality(0 .. (n - 1)) = IF 0 > n - 1 THEN 0 ELSE (n - 1) - 0 + 1
        BY <1>0, FS_Interval
      <4> QED BY <4>1, <1>0, <1>9
    <3> HIDE DEF chunks
    <3> QED BY <3>1, <3>2, <3>3, <1>6, <1>7 DEF ChunksCoverText, chunks, n, from, o
  <2> QED BY <2>1, <2>2
<1> QED BY <1>8, <1>9

------------------------------------------------------------------------------
\* text: TruncateToTokenBudget and the shares of BuildSourcesText.

\* The indices of a list are finitely many.
LEMMA Finite1n == ASSUME NEW n \in Nat PROVE IsFiniteSet(1 .. n) /\ Cardinality(1 .. n) = n
BY FS_Interval

\* What integer division by a positive number loses is less than the divisor.
LEMMA DivBound ==
  ASSUME NEW x \in Nat, NEW c \in Nat \ {0}
  PROVE  x \div c \in Nat /\ c * (x \div c) <= x /\ x < c * (x \div c) + c
OBVIOUS

\* A common positive factor can be dropped from a comparison.
LEMMA TimesMore ==
  ASSUME NEW c \in Nat \ {0}, NEW a \in Nat, NEW b \in Nat, c * a < c * b
  PROVE  a < b
<1>1. ASSUME a >= b PROVE FALSE
  <2> DEFINE d == a - b
  <2>1. d \in Nat /\ a = b + d
    BY <1>1
  <2>2. c * a = c * b + c * d /\ c * d \in Nat /\ c * b \in Nat
    <3> HIDE DEF d
    <3> QED BY <2>1
  <2> HIDE DEF d
  <2> QED BY <2>2
<1> QED BY <1>1

\* Byte offsets of runes: the first is at 0 and each rune moves the offset by its
\* size.
LEMMA OffsetStep ==
  ASSUME NEW text \in Seq(Nat \ {0})
  PROVE  /\ Offset(text, 0) = 0
         /\ \A k \in 0 .. Len(text) : Offset(text, k) \in Nat
         /\ \A k \in 1 .. Len(text) : Offset(text, k) = Offset(text, k - 1) + text[k]
<1>0. Len(text) \in Nat /\ \A x \in 1 .. Len(text) : text[x] \in Nat \ {0}
  OBVIOUS
<1>1. Offset(text, 0) = 0
  <2>1. 1 .. 0 = {}
    OBVIOUS
  <2> QED BY <2>1, SumEmpty DEF Offset
<1>2. ASSUME NEW k \in 1 .. Len(text) PROVE Offset(text, k) = text[k] + Offset(text, k - 1)
  <2> DEFINE S == 1 .. k
  <2>91. IsFiniteSet(S)
    BY <1>0, Finite1n
  <2>92. k \in S /\ \A x \in S : x \in 1 .. Len(text)
    BY <1>0
  <2>1. IsFiniteSet(S) /\ k \in S /\ \A x \in S : text[x] \in Int
    <3> HIDE DEF S
    <3> QED BY <1>0, <2>91, <2>92
  <2>2. S \ {k} = 1 .. (k - 1)
    BY <1>0
  <2>3. SumFunctionOnSet(text, S) = text[k] + SumFunctionOnSet(text, S \ {k})
    <3> HIDE DEF S
    <3> QED BY <2>1, SumAny
  <2> HIDE DEF S
  <2> QED BY <2>2, <2>3 DEF Offset, S
<1> DEFINE P == {k \in 0 .. Len(text) : Offset(text, k) \in Nat}
<1>3. \A k \in 0 .. Len(text) : k \in P
  <2>1. 0 \in P
    BY <1>0, <1>1
  <2>2. ASSUME NEW k \in 1 .. Len(text), k - 1 \in P PROVE k \in P
    BY <1>0, <1>2, <2>2
  <2> HIDE DEF P
  <2> QED BY <2>1, <2>2, <1>0, Upto
<1>4. ASSUME NEW k \in 1 .. Len(text) PROVE Offset(text, k) = Offset(text, k - 1) + text[k]
  <2>1. k - 1 \in 0 .. Len(text)
    BY <1>0
  <2>2. Offset(text, k - 1) \in Nat /\ text[k] \in Nat
    BY <2>1, <1>0, <1>3
  <2> QED BY <1>2, <2>2
<1> QED BY <1>1, <1>3, <1>4

\* TruncateToTokenBudget keeps whole runes within the budget and, when it cuts,
\* could not keep one rune more.
LEMMA TruncateSound ==
  ASSUME NEW text \in Seq(Nat \ {0}), NEW t \in Nat, NEW cpt \in Nat \ {0}
  PROVE  LET k == TruncateToTokenBudget(text, t, cpt)
         IN  /\ k \in 0 .. Len(text)
             /\ EstimateTokens(Offset(text, k), cpt) <= t
             /\ k < Len(text) => 2 * Offset(text, k + 1) > t * cpt
<1> DEFINE k == TruncateToTokenBudget(text, t, cpt)
           tc == t * cpt
           maxBytes == tc \div 2
           L == Len(text)
           K == {j \in 0 .. L : Offset(text, j) <= maxBytes}
<1>0. L \in Nat /\ tc \in Nat /\ \A j \in 0 .. L : Offset(text, j) \in Nat
  BY OffsetStep
<1>1. maxBytes \in Nat /\ 2 * maxBytes <= tc /\ tc < 2 * maxBytes + 2
  <2> HIDE DEF tc
  <2> QED BY <1>0
<1>2. k \in 0 .. L /\ 2 * Offset(text, k) <= tc /\ (k < L => 2 * Offset(text, k + 1) > tc)
  <2>1. CASE t = 0
    <3>1. k = 0 /\ tc = 0
      BY <2>1 DEF TruncateToTokenBudget
    <3>2. Offset(text, 0) = 0
      BY OffsetStep
    <3>3. ASSUME 0 < L PROVE Offset(text, 1) > 0
      <4>1. 1 \in 1 .. L /\ text[1] \in Nat \ {0}
        BY <3>3, <1>0
      <4>2. Offset(text, 1) = Offset(text, 1 - 1) + text[1]
        BY <4>1, OffsetStep
      <4> QED BY <3>2, <4>1, <4>2
    <3> HIDE DEF k, tc, L
    <3>4. 0 < L => Offset(text, 1) \in Nat
      BY <1>0
    <3> QED BY <3>1, <3>2, <3>3, <3>4, <1>0
  <2>2. CASE t # 0 /\ Offset(text, L) <= maxBytes
    <3>1. k = L
      BY <2>2 DEF TruncateToTokenBudget
    <3> HIDE DEF k, tc, L, maxBytes
    <3>2. Offset(text, L) \in Nat
      BY <1>0
    <3> QED BY <3>1, <3>2, <2>2, <1>0, <1>1
  <2>3. CASE t # 0 /\ ~(Offset(text, L) <= maxBytes)
    <3>1. k = Max(K)
      BY <2>3 DEF TruncateToTokenBudget
    <3>2. 0 \in K
      BY <1>0, <1>1, OffsetStep
    <3>3. \A x \in K : x \in Int /\ x <= L
      BY <1>0
    <3>4. k \in K /\ \A y \in K : k >= y
      <4> HIDE DEF K, k, L
      <4> QED BY <3>1, <3>2, <3>3, <1>0, MaxIn
    <3> HIDE DEF k, tc, L, maxBytes
    <3>5. k \in 0 .. L /\ Offset(text, k) <= maxBytes /\ Offset(text, k) \in Nat
      BY <3>4, <1>0
    <3>6. ASSUME k < L PROVE 2 * Offset(text, k + 1) > tc
      <4>1. k + 1 \in 0 .. L /\ k + 1 \notin K
        BY <3>4, <3>5, <3>6, <1>0
      <4>2. Offset(text, k + 1) \in Nat /\ ~(Offset(text, k + 1) <= maxBytes)
        BY <4>1, <1>0
      <4> QED BY <4>2, <1>0, <1>1
    <3> QED BY <3>5, <3>6, <1>0, <1>1
  <2> QED BY <2>1, <2>2, <2>3
<1>3. EstimateTokens(Offset(text, k), cpt) <= t
  <2> DEFINE x == 2 * Offset(text, k) + cpt - 1
             d == x \div cpt
  <2>1. x \in Nat /\ x < tc + cpt
    <3> HIDE DEF k, tc
    <3> QED BY <1>0, <1>2
  <2>2. d \in Nat /\ cpt * d <= x
    <3> HIDE DEF x
    <3> QED BY <2>1, DivBound
  <2>3. cpt * (t + 1) = tc + cpt /\ cpt * d \in Nat
    <3> HIDE DEF d
    <3> QED BY <2>2
  <2>4. cpt * d < cpt * (t + 1)
    <3> HIDE DEF d, x, tc
    <3> QED BY <2>1, <2>2, <2>3, <1>0
  <2>5. d < t + 1
    <3> HIDE DEF d
    <3> QED BY <2>2, <2>4, TimesMore
  <2> HIDE DEF d, x
  <2>6. EstimateTokens(Offset(text, k), cpt) = d
    BY DEF EstimateTokens, d, x
  <2> QED BY <2>2, <2>5, <2>6
<1> QED BY <1>2, <1>3

\* A content's ranked share of the budget (BuildSourcesText) is rounded up by less
\* than one token.
LEMMA TokensBound ==
  ASSUME NEW b \in Nat, NEW i \in 1 .. 5
  PROVE  /\ TokensOf(i, b, rankedWeights) \in Nat
         /\ 100 * TokensOf(i, b, rankedWeights) <= b * rankedWeights[i] + 99
<1>1. Len(rankedWeights) = 5 /\ rankedWeights[i] \in Nat
  BY DEF rankedWeights
<1> DEFINE w == rankedWeights[i]
           x == b * w + 100 - 1
<1> HIDE DEF w
<1>2. x \in Nat /\ TokensOf(i, b, rankedWeights) = x \div 100
  BY <1>1 DEF TokensOf, CeilDiv, w
<1> HIDE DEF x
<1>3. x \div 100 \in Nat /\ 100 * (x \div 100) <= x
  BY <1>2
<1>4. x = b * w + 99 /\ b * w \in Nat
  BY <1>1 DEF x, w
<1> QED BY <1>2, <1>3, <1>4 DEF w

\* Five shares, each rounded up, exceed the budget by less than five.
LEMMA FiveCeilings ==
  ASSUME NEW b \in Nat, NEW a1 \in Nat, NEW a2 \in Nat, NEW a3 \in Nat, NEW a4 \in Nat, NEW a5 \in Nat,
         100 * a1 <= b * 30 + 99, 100 * a2 <= b * 25 + 99, 100 * a3 <= b * 20 + 99,
         100 * a4 <= b * 15 + 99, 100 * a5 <= b * 10 + 99
  PROVE  a5 + (a4 + (a3 + (a2 + a1))) < b + 5
OBVIOUS

\* The shares of the fetched contents (BudgetKept), for every text, every budget
\* and every ratio.
THEOREM BudgetSound ==
  ASSUME NEW text \in Seq(Nat \ {0}), NEW totalBudget \in Nat, NEW cpt \in Nat \ {0}
  PROVE  BudgetKept(text, totalBudget, cpt)
<1> DEFINE T(i) == TokensOf(i, totalBudget, rankedWeights)
           f == [i \in DOMAIN rankedWeights |-> T(i)]
<1>0. DOMAIN rankedWeights = 1 .. 5 /\ Len(rankedWeights) = 5
  BY DEF rankedWeights
<1>1. \A i \in 1 .. 5 : T(i) \in Nat /\ f[i] = T(i)
  BY <1>0, TokensBound
<1>2. ASSUME NEW i \in DOMAIN rankedWeights, text # <<>>
      PROVE  LET t == TokensOf(i, totalBudget, rankedWeights)
                 k == Shown(i, text, <<>>, totalBudget, cpt).runes
             IN  /\ EstimateTokens(Offset(text, k), cpt) <= t
                 /\ k < Len(text) => 2 * Offset(text, k + 1) > t * cpt
  <2>1. TokensOf(i, totalBudget, rankedWeights) \in Nat
    BY <1>0, <1>1
  <2>2. Shown(i, text, <<>>, totalBudget, cpt).runes
          = TruncateToTokenBudget(text, TokensOf(i, totalBudget, rankedWeights), cpt)
    BY <1>0, <1>2 DEF Shown
  <2> QED BY <2>1, <2>2, TruncateSound
<1>3. SumFunction(f) < totalBudget + Len(rankedWeights)
  <2> DEFINE S(n) == SumFunctionOnSet(f, 1 .. n)
  <2>1. \A i \in 1 .. 5 : f[i] \in Nat
    BY <1>1
  <2> HIDE DEF f
  <2>2. ASSUME NEW n \in 1 .. 5 PROVE S(n) = f[n] + S(n - 1) /\ S(n) \in Int
    <3>1. IsFiniteSet(1 .. n) /\ n \in 1 .. n /\ (\A x \in 1 .. n : f[x] \in Int) /\ (1 .. n) \ {n} = 1 .. (n - 1)
      <4>1. IsFiniteSet(1 .. n)
        BY Finite1n
      <4>91. n \in 1 .. n /\ \A x \in 1 .. n : x \in 1 .. 5
        BY SMTT(20)
      <4>2. n \in 1 .. n /\ (\A x \in 1 .. n : f[x] \in Int)
        <5>1. \A i \in 1 .. 5 : f[i] \in Int
          BY <2>1, SMTT(20)
        <5> QED BY <4>91, <5>1, Zenon
      <4>3. (1 .. n) \ {n} = 1 .. (n - 1)
        OBVIOUS
      <4> QED BY <4>1, <4>2, <4>3
    <3>2. SumFunctionOnSet(f, 1 .. n) \in Int
      BY <3>1, SumInt
    <3>3. SumFunctionOnSet(f, 1 .. n) = f[n] + SumFunctionOnSet(f, (1 .. n) \ {n})
      BY <3>1, SumAny
    <3> QED BY <3>1, <3>2, <3>3
  <2>3. S(0) = 0
    <3>1. 1 .. 0 = {}
      OBVIOUS
    <3> QED BY <3>1, SumEmpty
  <2> HIDE DEF S
  <2>4. S(5) = f[5] + S(4) /\ S(4) = f[4] + S(3) /\ S(3) = f[3] + S(2) /\ S(2) = f[2] + S(1) /\ S(1) = f[1] + S(0)
    <3>1. S(5) = f[5] + S(5 - 1) /\ S(4) = f[4] + S(4 - 1) /\ S(3) = f[3] + S(3 - 1)
          /\ S(2) = f[2] + S(2 - 1) /\ S(1) = f[1] + S(1 - 1)
      BY <2>2
    <3> QED BY <3>1
  <2>5. /\ 100 * f[1] <= totalBudget * 30 + 99 /\ 100 * f[2] <= totalBudget * 25 + 99
        /\ 100 * f[3] <= totalBudget * 20 + 99 /\ 100 * f[4] <= totalBudget * 15 + 99
        /\ 100 * f[5] <= totalBudget * 10 + 99
    <3>1. \A i \in 1 .. 5 : 100 * f[i] <= totalBudget * rankedWeights[i] + 99
      BY <1>1, TokensBound
    <3>2. rankedWeights[1] = 30 /\ rankedWeights[2] = 25 /\ rankedWeights[3] = 20 /\ rankedWeights[4] = 15 /\ rankedWeights[5] = 10
      BY DEF rankedWeights
    <3>3. /\ 100 * f[1] <= totalBudget * rankedWeights[1] + 99 /\ 100 * f[2] <= totalBudget * rankedWeights[2] + 99
          /\ 100 * f[3] <= totalBudget * rankedWeights[3] + 99 /\ 100 * f[4] <= totalBudget * rankedWeights[4] + 99
          /\ 100 * f[5] <= totalBudget * rankedWeights[5] + 99
      BY <3>1
    <3> QED BY <3>2, <3>3
  <2>6. S(5) < totalBudget + 5
    <3>1. f[1] \in Nat /\ f[2] \in Nat /\ f[3] \in Nat /\ f[4] \in Nat /\ f[5] \in Nat
      BY <2>1
    <3>2. S(5) = f[5] + (f[4] + (f[3] + (f[2] + f[1])))
      <4>1. S(1) = f[1]
        BY <2>3, <2>4, <3>1
      <4>2. S(3) = f[3] + (f[2] + f[1])
        BY <2>4, <4>1
      <4> QED BY <2>4, <4>2
    <3>3. f[5] + (f[4] + (f[3] + (f[2] + f[1]))) < totalBudget + 5
      BY <3>1, <2>5, FiveCeilings, Zenon
    <3> QED BY <3>2, <3>3
  <2>7. SumFunction(f) = S(5)
    BY <1>0 DEF SumFunction, S, f
  <2> QED BY <2>6, <2>7, <1>0
<1> HIDE DEF f
<1> QED BY <1>2, <1>3 DEF BudgetKept, f

------------------------------------------------------------------------------
\* llm fact numbers: digits.

\* A decimal digit.
Digit == 0 .. 9

\* The digit j places from the right, 0 beyond the left end.
dig(ds, j) == IF j < Len(ds) THEN ds[Len(ds) - j] ELSE 0

\* The digit k places right of the decimal mark.
fracDigit(ds, k) == IF k <= Len(ds) THEN ds[k] ELSE 0

\* Joining digit groups gives digits, and a single group is itself.
LEMMA JoinType ==
  ASSUME NEW groups \in Seq(Seq(Digit))
  PROVE  Join(groups) \in Seq(Digit) /\ (Len(groups) = 1 => Join(groups) = groups[1])
<1> DEFINE N == Len(groups)
           X == Seq(Digit)
           x0 == <<>>
           step == [p \in (1 .. N) \X X |-> p[2] \o groups[p[1]]]
           e(x, k) == x \o groups[k]
           body(f) == [k \in 0 .. Len(groups) |-> IF k = 0 THEN x0 ELSE e(f[k - 1], k)]
           v == CHOOSE g : g = body(g)
<1>0. N \in Nat /\ x0 \in X /\ \A k \in 1 .. N : groups[k] \in X
  OBVIOUS
<1>1. \A k \in 1 .. N, x \in X : x \o groups[k] \in X
  <2> HIDE DEF N
  <2> QED BY <1>0
<1>2. step \in [(1 .. N) \X X -> X]
  <2> HIDE DEF X, N
  <2> QED BY <1>1
<1>3. PICK f : Iteration(f, N, X, x0, step)
  <2> HIDE DEF N, X, x0, step
  <2> QED BY <1>0, <1>2, IterExists
<1>4. f = body(f)
  <2>1. ASSUME NEW k \in 0 .. N PROVE f[k] = IF k = 0 THEN <<>> ELSE f[k - 1] \o groups[k]
    <3>1. CASE k = 0
      BY <3>1, <1>3 DEF Iteration
    <3>2. CASE k \in 1 .. N
      <4> HIDE DEF X, N, x0
      <4>1. f[k - 1] \in X /\ f[k] = step[<<k, f[k - 1]>>]
        BY <3>2, <1>3 DEF Iteration
      <4>2. step[<<k, f[k - 1]>>] = f[k - 1] \o groups[k]
        BY <3>2, <4>1
      <4> QED BY <4>1, <4>2, <3>2, <1>0
    <3> QED BY <3>1, <3>2
  <2>2. f \in [0 .. N -> X]
    BY <1>3 DEF Iteration
  <2> QED BY <2>1, <2>2
<1>5. v = body(v)
  <2> HIDE DEF body
  <2> QED BY <1>4
<1>6. Join(groups) = v[N]
  BY DEF Join
<1> HIDE DEF v
<1>7. v[0] = x0 /\ \A k \in 1 .. N : v[k] = e(v[k - 1], k)
  <2>1. DOMAIN v = 0 .. N /\ \A k \in 0 .. N : v[k] = IF k = 0 THEN x0 ELSE e(v[k - 1], k)
    <3> HIDE DEF x0, e
    <3> QED BY <1>5, Zenon
  <2> HIDE DEF x0, e, N
  <2> QED BY <2>1, <1>0
<1> DEFINE P == {k \in 0 .. N : v[k] \in X}
<1>8. \A k \in 0 .. N : k \in P
  <2>1. 0 \in P
    <3> HIDE DEF X, x0
    <3> QED BY <1>0, <1>7
  <2>2. ASSUME NEW k \in 1 .. N, k - 1 \in P PROVE k \in P
    <3>1. v[k - 1] \in X /\ k \in 0 .. N
      BY <2>2
    <3>2. v[k] \in X
      <4>1. e(v[k - 1], k) \in X
        <5> HIDE DEF X, N
        <5> QED BY <3>1, <1>1
      <4> HIDE DEF X, e
      <4> QED BY <1>7, <4>1
    <3> HIDE DEF X
    <3> QED BY <3>1, <3>2
  <2> HIDE DEF P, N
  <2> QED BY <2>1, <2>2, <1>0, Upto
<1>9. ASSUME N = 1 PROVE Join(groups) = groups[1]
  <2>1. v[1] = v[1 - 1] \o groups[1] /\ groups[1] \in Seq(Digit)
    <3>1. 1 \in 1 .. N
      BY <1>9
    <3> QED BY <1>7, <3>1, <1>0
  <2>2. <<>> \o groups[1] = groups[1]
    BY <2>1
  <2>3. v[1] = <<>> \o groups[1]
    <3>1. v[0] = <<>>
      BY <1>7
    <3>2. v[1] = v[0] \o groups[1]
      BY <2>1
    <3> QED BY <3>1, <3>2, Zenon
  <2> QED BY <2>2, <2>3, <1>6, <1>9
<1> QED BY <1>0, <1>6, <1>8, <1>9

\* The number that a row of digits spells, digit by digit.
LEMMA DigitsRec ==
  ASSUME NEW ds \in Seq(Digit)
  PROVE  \E v \in [0 .. Len(ds) -> Nat] :
           /\ v[0] = 0 /\ Digits(ds) = v[Len(ds)]
           /\ \A k \in 1 .. Len(ds) : v[k] = 10 * v[k - 1] + ds[k]
<1> DEFINE N == Len(ds)
           X == Nat
           x0 == 0
           step == [p \in (1 .. N) \X X |-> 10 * p[2] + ds[p[1]]]
           body(f) == [k \in 0 .. Len(ds) |-> IF k = 0 THEN 0 ELSE 10 * f[k - 1] + ds[k]]
           v == CHOOSE g : g = body(g)
<1>0. N \in Nat /\ x0 \in X /\ \A k \in 1 .. N : ds[k] \in Nat
  BY DEF Digit
<1>1. \A k \in 1 .. N, x \in X : 10 * x + ds[k] \in X
  <2> HIDE DEF N
  <2> QED BY <1>0
<1>2. step \in [(1 .. N) \X X -> X]
  <2> HIDE DEF X, N
  <2> QED BY <1>1
<1>3. PICK f : Iteration(f, N, X, x0, step)
  <2> HIDE DEF N, X, x0, step
  <2> QED BY <1>0, <1>2, IterExists
<1>4. f = body(f)
  <2>1. ASSUME NEW k \in 0 .. N PROVE f[k] = IF k = 0 THEN 0 ELSE 10 * f[k - 1] + ds[k]
    <3>1. CASE k = 0
      BY <3>1, <1>3 DEF Iteration
    <3>2. CASE k \in 1 .. N
      <4> HIDE DEF X, N, x0
      <4>1. f[k - 1] \in X /\ f[k] = step[<<k, f[k - 1]>>]
        BY <3>2, <1>3 DEF Iteration
      <4>2. step[<<k, f[k - 1]>>] = 10 * f[k - 1] + ds[k]
        BY <3>2, <4>1
      <4> QED BY <4>1, <4>2, <3>2, <1>0
    <3> QED BY <3>1, <3>2
  <2>2. f \in [0 .. N -> X]
    BY <1>3 DEF Iteration
  <2> QED BY <2>1, <2>2
<1>5. v = body(v)
  <2> HIDE DEF body
  <2> QED BY <1>4
<1>6. Digits(ds) = v[N]
  BY DEF Digits
<1> HIDE DEF v
<1>7. v[0] = 0 /\ \A k \in 1 .. N : v[k] = 10 * v[k - 1] + ds[k]
  <2> DEFINE b == body(v)
  <2>1. \A k \in 0 .. N : b[k] = IF k = 0 THEN 0 ELSE 10 * v[k - 1] + ds[k]
    OBVIOUS
  <2> HIDE DEF b
  <2>2. v = b
    BY <1>5 DEF b
  <2>3. b[0] = 0 /\ \A k \in 1 .. N : b[k] = 10 * v[k - 1] + ds[k]
    BY <2>1, <1>0
  <2> HIDE DEF N
  <2> QED BY <2>2, <2>3
<1> DEFINE P == {k \in 0 .. N : v[k] \in X}
<1>8. \A k \in 0 .. N : k \in P
  <2>1. 0 \in P
    BY <1>0, <1>7
  <2>2. ASSUME NEW k \in 1 .. N, k - 1 \in P PROVE k \in P
    <3> HIDE DEF X
    <3> QED BY <2>2, <1>7, <1>1
  <2> HIDE DEF P, N
  <2> QED BY <2>1, <2>2, <1>0, Upto
<1>9. v \in [0 .. N -> Nat]
  <2>1. v = [k \in 0 .. N |-> v[k]]
    BY <1>5
  <2>2. \A k \in 0 .. N : v[k] \in Nat
    BY <1>8
  <2> HIDE DEF N
  <2> QED BY <2>1, <2>2
<1> QED BY <1>6, <1>7, <1>9

\* What is left of a number when its last j digits are dropped.
LEMMA Peeled ==
  ASSUME NEW ds \in Seq(Digit)
  PROVE  \E a :
           /\ a[0] = Digits(ds)
           /\ \A j \in Nat : a[j] \in Nat /\ dig(ds, j) \in Digit /\ a[j] = 10 * a[j + 1] + dig(ds, j)
           /\ \A j \in Nat : j >= Len(ds) => a[j] = 0
<1> DEFINE L == Len(ds)
<1>0. L \in Nat /\ \A k \in 1 .. L : ds[k] \in Digit
  OBVIOUS
<1>1. PICK v \in [0 .. L -> Nat] :
           /\ v[0] = 0 /\ Digits(ds) = v[L]
           /\ \A k \in 1 .. L : v[k] = 10 * v[k - 1] + ds[k]
  BY DigitsRec
<1> DEFINE a == [j \in Nat |-> IF j < L THEN v[L - j] ELSE 0]
<1>2. ASSUME NEW j \in Nat, j < L PROVE L - j \in 1 .. L /\ a[j] = v[L - j] /\ dig(ds, j) = ds[L - j]
  BY <1>0, <1>2 DEF dig
<1>3. ASSUME NEW j \in Nat, ~(j < L) PROVE a[j] = 0 /\ dig(ds, j) = 0
  BY <1>0, <1>3 DEF dig
<1>4. ASSUME NEW j \in Nat PROVE a[j] \in Nat /\ dig(ds, j) \in Digit
  <2>1. CASE j < L
    <3> HIDE DEF a, L, Digit
    <3>1. L - j \in 1 .. L /\ L - j \in 0 .. L
      BY <1>2, <2>1, <1>0
    <3>2. ds[L - j] \in Digit /\ v[L - j] \in Nat
      BY <3>1, <1>0, <1>1
    <3> QED BY <3>2, <1>2, <2>1
  <2>2. CASE ~(j < L)
    <3> HIDE DEF a, L
    <3> QED BY <1>3, <2>2 DEF Digit
  <2> QED BY <2>1, <2>2
<1>5. a \in [Nat -> Nat]
  <2>1. a = [j \in Nat |-> a[j]]
    OBVIOUS
  <2> HIDE DEF a
  <2> QED BY <2>1, <1>4
<1>6. a[0] = Digits(ds)
  <2> HIDE DEF L
  <2> QED BY <1>0, <1>1
<1> HIDE DEF a, L
<1>7. ASSUME NEW j \in Nat PROVE a[j] = 10 * a[j + 1] + dig(ds, j)
  <2>1. CASE j < L
    <3>1. v[L - j] = 10 * v[L - j - 1] + ds[L - j]
      BY <1>1, <1>2, <2>1
    <3>2. v[L - j - 1] = a[j + 1]
      <4>1. CASE j + 1 < L
        BY <1>2, <1>0, <4>1
      <4>2. CASE ~(j + 1 < L)
        <5>1. L - j - 1 = 0
          BY <2>1, <4>2, <1>0
        <5> QED BY <5>1, <1>1, <1>3, <4>2
      <4> QED BY <4>1, <4>2
    <3> QED BY <3>1, <3>2, <1>2, <2>1
  <2>2. CASE ~(j < L)
    <3>1. ~(j + 1 < L) /\ j + 1 \in Nat
      BY <2>2, <1>0
    <3> QED BY <1>3, <2>2, <3>1
  <2> QED BY <2>1, <2>2
<1>8. ASSUME NEW j \in Nat, j >= L PROVE a[j] = 0
  BY <1>3, <1>8, <1>0
<1> QED BY <1>4, <1>5, <1>6, <1>7, <1>8 DEF L

\* A number determines its last digit and the rest.
LEMMA LastDigit ==
  ASSUME NEW x \in Nat, NEW y \in Nat, NEW d \in Digit, NEW e \in Digit, 10 * x + d = 10 * y + e
  PROVE  x = y /\ d = e
BY DEF Digit

\* Two rows of digits spell the same number when they agree place by place.
LEMMA SameDigits ==
  ASSUME NEW ds \in Seq(Digit), NEW es \in Seq(Digit)
  PROVE  Digits(ds) = Digits(es) <=> \A j \in Nat : dig(ds, j) = dig(es, j)
<1>0. Len(ds) \in Nat /\ Len(es) \in Nat
  OBVIOUS
<1>1. PICK a :
           /\ a[0] = Digits(ds)
           /\ \A j \in Nat : a[j] \in Nat /\ dig(ds, j) \in Digit /\ a[j] = 10 * a[j + 1] + dig(ds, j)
           /\ \A j \in Nat : j >= Len(ds) => a[j] = 0
  BY Peeled
<1>2. PICK b :
           /\ b[0] = Digits(es)
           /\ \A j \in Nat : b[j] \in Nat /\ dig(es, j) \in Digit /\ b[j] = 10 * b[j + 1] + dig(es, j)
           /\ \A j \in Nat : j >= Len(es) => b[j] = 0
  BY Peeled
<1>3. ASSUME a[0] = b[0], NEW n \in Nat PROVE a[n] = b[n]
  <2> DEFINE P == {k \in Nat : a[k] = b[k]}
  <2>1. 0 \in P
    BY <1>3
  <2>2. ASSUME NEW k \in 1 .. n, k - 1 \in P PROVE k \in P
    <3>1. k - 1 \in Nat /\ k \in Nat /\ (k - 1) + 1 = k /\ a[k - 1] = b[k - 1]
      BY <2>2
    <3>2. a[k - 1] = 10 * a[k] + dig(ds, k - 1) /\ dig(ds, k - 1) \in Digit /\ a[k] \in Nat
      BY <3>1, <1>1
    <3>3. b[k - 1] = 10 * b[k] + dig(es, k - 1) /\ dig(es, k - 1) \in Digit /\ b[k] \in Nat
      BY <3>1, <1>2
    <3>91. 10 * a[k] + dig(ds, k - 1) = 10 * b[k] + dig(es, k - 1)
      BY <3>1, <3>2, <3>3
    <3>4. a[k] = b[k]
      <4> DEFINE x == a[k]
                 y == b[k]
                 d == dig(ds, k - 1)
                 e == dig(es, k - 1)
      <4>1. x \in Nat /\ y \in Nat /\ d \in Digit /\ e \in Digit /\ 10 * x + d = 10 * y + e
        BY <3>2, <3>3, <3>91, Zenon
      <4> HIDE DEF x, y, d, e
      <4>2. x = y
        BY <4>1, LastDigit
      <4> QED BY <4>2 DEF x, y
    <3> QED BY <3>1, <3>4
  <2> HIDE DEF P
  <2>3. \A k \in 0 .. n : k \in P
    BY <2>1, <2>2, Upto, Zenon
  <2> QED BY <2>3 DEF P
<1>4. ASSUME a[0] = b[0], NEW j \in Nat PROVE dig(ds, j) = dig(es, j)
  <2>1. a[j] = b[j] /\ a[j + 1] = b[j + 1] /\ j + 1 \in Nat
    BY <1>3, <1>4
  <2>2. a[j] = 10 * a[j + 1] + dig(ds, j) /\ dig(ds, j) \in Digit /\ a[j + 1] \in Nat
    BY <2>1, <1>1
  <2>3. b[j] = 10 * b[j + 1] + dig(es, j) /\ dig(es, j) \in Digit /\ b[j + 1] \in Nat
    BY <2>1, <1>2
  <2>4. 10 * a[j + 1] + dig(ds, j) = 10 * b[j + 1] + dig(es, j)
    BY <2>1, <2>2, <2>3
  <2> DEFINE x == a[j + 1]
             y == b[j + 1]
             d == dig(ds, j)
             e == dig(es, j)
  <2>5. x \in Nat /\ y \in Nat /\ d \in Digit /\ e \in Digit /\ 10 * x + d = 10 * y + e
    BY <2>2, <2>3, <2>4, Zenon
  <2> HIDE DEF x, y, d, e
  <2>6. d = e
    BY <2>5, LastDigit
  <2> QED BY <2>6 DEF d, e
<1>5. ASSUME \A j \in Nat : dig(ds, j) = dig(es, j) PROVE a[0] = b[0]
  <2> DEFINE M == Len(ds) + Len(es)
             P == {k \in 0 .. M : a[M - k] = b[M - k]}
  <2>0. M \in Nat /\ M >= Len(ds) /\ M >= Len(es)
    BY <1>0
  <2> HIDE DEF M
  <2>1. 0 \in P
    <3>1. a[M] = 0 /\ b[M] = 0
      BY <2>0, <1>1, <1>2
    <3>2. M - 0 = M /\ 0 \in 0 .. M
      BY <2>0
    <3> QED BY <3>1, <3>2
  <2>2. ASSUME NEW k \in 1 .. M, k - 1 \in P PROVE k \in P
    <3>1. M - k \in Nat /\ (M - k) + 1 = M - (k - 1) /\ a[M - (k - 1)] = b[M - (k - 1)]
      BY <2>0, <2>2
    <3>2. a[M - k] = 10 * a[M - (k - 1)] + dig(ds, M - k) /\ b[M - k] = 10 * b[M - (k - 1)] + dig(es, M - k)
      BY <3>1, <1>1, <1>2
    <3>3. dig(ds, M - k) = dig(es, M - k)
      BY <3>1, <1>5
    <3> QED BY <3>1, <3>2, <3>3
  <2> HIDE DEF P
  <2>3. \A k \in 0 .. M : k \in P
    BY <2>0, <2>1, <2>2, Upto, Zenon
  <2>4. M \in P
    BY <2>0, <2>3
  <2>5. M - M = 0
    BY <2>0
  <2> QED BY <2>4, <2>5 DEF P
<1> QED BY <1>1, <1>2, <1>4, <1>5

------------------------------------------------------------------------------
\* llm fact numbers: trimmed zeros.

\* strings.TrimLeft of zeros changes no digit's place and leaves no leading zero.
LEMMA TrimLeftSound ==
  ASSUME NEW ds \in Seq(Digit)
  PROVE  LET T == TrimLeftZeros(ds)
         IN  /\ T \in Seq(Digit)
             /\ \A j \in Nat : dig(T, j) = dig(ds, j)
             /\ T # <<>> => T[1] # 0
<1> DEFINE K == NonZero(ds)
           T == TrimLeftZeros(ds)
           L == Len(ds)
<1>0. L \in Nat /\ (\A k \in 1 .. L : ds[k] \in Digit) /\ DOMAIN ds = 1 .. L
  OBVIOUS
<1>1. K = {k \in 1 .. L : ds[k] # 0}
  BY <1>0 DEF NonZero
<1>2. CASE K = {}
  <2>1. T = <<>>
    BY <1>2 DEF TrimLeftZeros
  <2>2. \A j \in Nat : dig(ds, j) = 0
    <3>1. ASSUME NEW j \in Nat, j < L PROVE ds[L - j] = 0
      <4>1. L - j \in 1 .. L
        BY <3>1, <1>0
      <4> HIDE DEF K, L
      <4> QED BY <4>1, <1>1, <1>2
    <3> QED BY <3>1 DEF dig
  <2>3. \A j \in Nat : dig(<<>>, j) = 0
    BY DEF dig
  <2> HIDE DEF T
  <2>4. T \in Seq(Digit)
    BY <2>1
  <2>5. \A j \in Nat : dig(T, j) = dig(ds, j)
    BY <2>1, <2>2, <2>3, Zenon
  <2> QED BY <2>1, <2>4, <2>5 DEF T
<1>3. CASE K # {}
  <2> DEFINE m == Min(K)
  <2>1. m \in K /\ \A y \in K : m <= y
    <3>1. \A x \in K : x \in Int /\ x >= 1
      BY <1>1, <1>0
    <3> HIDE DEF K
    <3> QED BY <3>1, <1>3, MinIn
  <2>2. T = SubSeq(ds, m, L)
    BY <1>3 DEF TrimLeftZeros
  <2> HIDE DEF T, m, K, L
  <2>3. m \in 1 .. L /\ ds[m] # 0 /\ \A k \in 1 .. L : k < m => ds[k] = 0
    BY <2>1, <1>1, <1>0
  <2>4. T \in Seq(Digit) /\ Len(T) = L - m + 1 /\ \A k \in 1 .. (L - m + 1) : T[k] = ds[m + k - 1]
    <3>1. SubSeq(ds, m, Len(ds)) \in Seq(Digit) /\ Len(SubSeq(ds, m, Len(ds))) = Len(ds) - m + 1
          /\ \A k \in 1 .. (Len(ds) - m + 1) : SubSeq(ds, m, Len(ds))[k] = ds[m + k - 1]
      BY <2>3, <1>0, SubSeqProperties DEF L
    <3> QED BY <3>1, <2>2 DEF L
  <2>5. ASSUME NEW j \in Nat PROVE dig(T, j) = dig(ds, j)
    <3>1. CASE j < L - m + 1
      <4>1. (L - m + 1) - j \in 1 .. (L - m + 1) /\ m + ((L - m + 1) - j) - 1 = L - j /\ j < L
        BY <3>1, <2>3, <1>0
      <4>2. T[(L - m + 1) - j] = ds[L - j]
        BY <4>1, <2>4
      <4> QED BY <4>1, <4>2, <2>4, <3>1 DEF dig, L
    <3>2. CASE ~(j < L - m + 1)
      <4>1. dig(T, j) = 0
        BY <3>2, <2>4 DEF dig
      <4>2. ASSUME j < L PROVE ds[L - j] = 0
        <5>1. L - j \in 1 .. L /\ L - j < m
          BY <4>2, <3>2, <2>3, <1>0
        <5> QED BY <5>1, <2>3
      <4> QED BY <4>1, <4>2 DEF dig, L
    <3> QED BY <3>1, <3>2
  <2>6. T[1] # 0
    <3>1. 1 \in 1 .. (L - m + 1) /\ m + 1 - 1 = m
      BY <2>3, <1>0
    <3> QED BY <3>1, <2>3, <2>4
  <2> QED BY <2>4, <2>5, <2>6 DEF T
<1> QED BY <1>2, <1>3

\* Integer parts without leading zeros are equal when their digits agree.
LEMMA NoLeadingZero ==
  ASSUME NEW S \in Seq(Digit), NEW T \in Seq(Digit), S # <<>> => S[1] # 0, T # <<>> => T[1] # 0,
         \A j \in Nat : dig(S, j) = dig(T, j)
  PROVE  S = T
<1>0. Len(S) \in Nat /\ Len(T) \in Nat
  OBVIOUS
<1>1. ASSUME NEW A \in Seq(Digit), NEW B \in Seq(Digit), A # <<>> => A[1] # 0,
             \A j \in Nat : dig(A, j) = dig(B, j), Len(A) > Len(B)
      PROVE  FALSE
  <2>1. Len(A) \in Nat /\ Len(B) \in Nat /\ Len(A) - 1 \in Nat /\ Len(A) - (Len(A) - 1) = 1 /\ A # <<>>
    BY <1>1
  <2>2. dig(A, Len(A) - 1) = A[1] /\ dig(B, Len(A) - 1) = 0
    BY <2>1, <1>1 DEF dig
  <2> QED BY <2>1, <2>2, <1>1
<1>2. ~(Len(S) > Len(T)) /\ ~(Len(T) > Len(S))
  BY <1>1, Zenon
<1>3. Len(S) = Len(T)
  BY <1>0, <1>2
<1>4. ASSUME NEW k \in 1 .. Len(S) PROVE S[k] = T[k]
  <2>1. Len(S) - k \in Nat /\ Len(S) - k < Len(S) /\ Len(S) - (Len(S) - k) = k
    BY <1>0
  <2>2. dig(S, Len(S) - k) = S[k] /\ dig(T, Len(S) - k) = T[k]
    BY <2>1, <1>3 DEF dig
  <2> QED BY <2>1, <2>2
<1> QED BY <1>3, <1>4, SeqEqual

\* strings.TrimRight of zeros changes no decimal's place and leaves no trailing
\* zero.
LEMMA TrimRightSound ==
  ASSUME NEW ds \in Seq(Digit)
  PROVE  LET T == TrimRightZeros(ds)
         IN  /\ T \in Seq(Digit)
             /\ \A j \in Nat \ {0} : fracDigit(T, j) = fracDigit(ds, j)
             /\ T # <<>> => T[Len(T)] # 0
<1> DEFINE K == NonZero(ds)
           T == TrimRightZeros(ds)
           L == Len(ds)
<1>0. L \in Nat /\ (\A k \in 1 .. L : ds[k] \in Digit) /\ DOMAIN ds = 1 .. L
  OBVIOUS
<1>1. K = {k \in 1 .. L : ds[k] # 0}
  BY <1>0 DEF NonZero
<1>2. CASE K = {}
  <2>1. T = <<>>
    BY <1>2 DEF TrimRightZeros
  <2>2. \A j \in Nat \ {0} : fracDigit(ds, j) = 0
    <3>1. ASSUME NEW j \in Nat \ {0}, j <= L PROVE ds[j] = 0
      <4>1. j \in 1 .. L
        BY <3>1, <1>0
      <4> HIDE DEF K, L
      <4> QED BY <4>1, <1>1, <1>2
    <3> QED BY <3>1 DEF fracDigit
  <2>3. \A j \in Nat \ {0} : fracDigit(<<>>, j) = 0
    BY DEF fracDigit
  <2> HIDE DEF T
  <2>4. T \in Seq(Digit)
    BY <2>1
  <2>5. \A j \in Nat \ {0} : fracDigit(T, j) = fracDigit(ds, j)
    BY <2>1, <2>2, <2>3, Zenon
  <2> QED BY <2>1, <2>4, <2>5 DEF T
<1>3. CASE K # {}
  <2> DEFINE m == Max(K)
  <2>1. m \in K /\ \A y \in K : m >= y
    <3>1. \A x \in K : x \in Int /\ x <= L
      BY <1>1, <1>0
    <3> HIDE DEF K, L
    <3> QED BY <3>1, <1>0, <1>3, MaxIn
  <2>2. T = SubSeq(ds, 1, m)
    BY <1>3 DEF TrimRightZeros
  <2> HIDE DEF T, m, K, L
  <2>3. m \in 1 .. L /\ ds[m] # 0 /\ \A k \in 1 .. L : k > m => ds[k] = 0
    BY <2>1, <1>1, <1>0
  <2>4. T \in Seq(Digit) /\ Len(T) = m /\ \A k \in 1 .. m : T[k] = ds[k]
    <3>1. /\ SubSeq(ds, 1, m) \in Seq(Digit)
          /\ Len(SubSeq(ds, 1, m)) = IF 1 <= m THEN m - 1 + 1 ELSE 0
          /\ \A k \in 1 .. (m - 1 + 1) : SubSeq(ds, 1, m)[k] = ds[1 + k - 1]
      BY <2>3, <1>0, SubSeqProperties DEF L
    <3>2. m \in Nat /\ m >= 1
      BY <2>3, <1>0
    <3> QED BY <3>1, <3>2, <2>2
  <2>5. ASSUME NEW j \in Nat \ {0} PROVE fracDigit(T, j) = fracDigit(ds, j)
    <3>1. CASE j <= m
      BY <3>1, <2>3, <2>4, <1>0 DEF fracDigit, L
    <3>2. CASE ~(j <= m)
      <4>1. fracDigit(T, j) = 0
        BY <3>2, <2>4 DEF fracDigit
      <4>2. ASSUME j <= L PROVE ds[j] = 0
        <5>1. j \in 1 .. L /\ j > m
          BY <4>2, <3>2, <2>3, <1>0
        <5> QED BY <5>1, <2>3
      <4> QED BY <4>1, <4>2 DEF fracDigit, L
    <3> QED BY <3>1, <3>2
  <2>6. T[Len(T)] # 0
    BY <2>3, <2>4, <1>0
  <2> QED BY <2>4, <2>5, <2>6 DEF T
<1> QED BY <1>2, <1>3

\* Fractions without trailing zeros are equal when their decimals agree.
LEMMA NoTrailingZero ==
  ASSUME NEW S \in Seq(Digit), NEW T \in Seq(Digit), S # <<>> => S[Len(S)] # 0, T # <<>> => T[Len(T)] # 0,
         \A j \in Nat \ {0} : fracDigit(S, j) = fracDigit(T, j)
  PROVE  S = T
<1>0. Len(S) \in Nat /\ Len(T) \in Nat
  OBVIOUS
<1>1. ASSUME NEW A \in Seq(Digit), NEW B \in Seq(Digit), A # <<>> => A[Len(A)] # 0,
             \A j \in Nat \ {0} : fracDigit(A, j) = fracDigit(B, j), Len(A) > Len(B)
      PROVE  FALSE
  <2>1. Len(A) \in Nat /\ Len(B) \in Nat /\ Len(A) \in Nat \ {0} /\ A # <<>>
    BY <1>1
  <2>2. fracDigit(A, Len(A)) = A[Len(A)] /\ fracDigit(B, Len(A)) = 0
    BY <2>1, <1>1 DEF fracDigit
  <2> QED BY <2>1, <2>2, <1>1
<1>2. ~(Len(S) > Len(T)) /\ ~(Len(T) > Len(S))
  BY <1>1, Zenon
<1>3. Len(S) = Len(T)
  BY <1>0, <1>2
<1>4. ASSUME NEW k \in 1 .. Len(S) PROVE S[k] = T[k]
  <2>1. k \in Nat \ {0} /\ k <= Len(S) /\ k <= Len(T)
    BY <1>0, <1>3
  <2>2. fracDigit(S, k) = S[k] /\ fracDigit(T, k) = T[k]
    BY <2>1 DEF fracDigit
  <2> QED BY <2>1, <2>2
<1> QED BY <1>3, <1>4, SeqEqual

------------------------------------------------------------------------------
\* llm fact numbers: canonical forms.

\* A fraction, padded with zeros to a number of places.
Decimals(frac, places) == [k \in 1 .. places |-> IF k <= Len(frac) THEN frac[k] ELSE 0]

\* The digits Value reads: the integer's, then exactly places decimals.
Expansion(int, frac, places) == int \o Decimals(frac, places)

\* The digits of an expansion, counted from the right.
LEMMA Expanded ==
  ASSUME NEW int \in Seq(Digit), NEW frac \in Seq(Digit), NEW places \in Nat, Len(frac) <= places
  PROVE  /\ Expansion(int, frac, places) \in Seq(Digit)
         /\ \A j \in Nat : dig(Expansion(int, frac, places), j) =
              IF j < places THEN fracDigit(frac, places - j) ELSE dig(int, j - places)
<1> DEFINE D == Decimals(frac, places)
           E == Expansion(int, frac, places)
           L == Len(int)
<1>0. L \in Nat /\ Len(frac) \in Nat /\ \A k \in 1 .. Len(frac) : frac[k] \in Digit
  OBVIOUS
<1>1. D \in Seq(Digit) /\ Len(D) = places /\ \A k \in 1 .. places : D[k] = fracDigit(frac, k)
  <2>1. ASSUME NEW k \in 1 .. places PROVE D[k] = fracDigit(frac, k) /\ D[k] \in Digit
    <3>1. D[k] = fracDigit(frac, k)
      BY DEF Decimals, fracDigit
    <3>2. fracDigit(frac, k) \in Digit
      <4>1. CASE k <= Len(frac)
        <5>1. k \in 1 .. Len(frac)
          BY <4>1, <1>0
        <5> QED BY <5>1, <4>1, <1>0 DEF fracDigit
      <4>2. CASE ~(k <= Len(frac))
        BY <4>2 DEF fracDigit, Digit
      <4> QED BY <4>1, <4>2
    <3> QED BY <3>1, <3>2
  <2>2. D = [k \in 1 .. places |-> D[k]]
    BY DEF Decimals
  <2> HIDE DEF D
  <2>3. D \in [1 .. places -> Digit]
    BY <2>1, <2>2
  <2>4. D \in Seq(Digit) /\ Len(D) = places
    BY <2>3
  <2> QED BY <2>1, <2>4
<1>2. /\ E \in Seq(Digit) /\ Len(E) = L + places
      /\ \A i \in 1 .. (L + places) : E[i] = IF i <= L THEN int[i] ELSE D[i - L]
  <2> HIDE DEF D
  <2>1. E = int \o D
    BY DEF Expansion, D
  <2>2. /\ int \o D \in Seq(Digit) /\ Len(int \o D) = Len(int) + Len(D)
        /\ \A i \in 1 .. (Len(int) + Len(D)) : (int \o D)[i] = IF i <= Len(int) THEN int[i] ELSE D[i - Len(int)]
    BY <1>1, ConcatProperties
  <2> HIDE DEF E
  <2> QED BY <2>1, <2>2, <1>1
<1> HIDE DEF D, E, L
<1>3. ASSUME NEW j \in Nat PROVE dig(E, j) = IF j < places THEN fracDigit(frac, places - j) ELSE dig(int, j - places)
  <2>1. CASE j < places
    <3>1. (L + places) - j \in 1 .. (L + places) /\ ~((L + places) - j <= L) /\ ((L + places) - j) - L = places - j
          /\ places - j \in 1 .. places /\ j < L + places
      BY <2>1, <1>0
    <3>2. E[(L + places) - j] = D[places - j] /\ D[places - j] = fracDigit(frac, places - j)
      BY <3>1, <1>1, <1>2
    <3> QED BY <3>1, <3>2, <1>2, <2>1 DEF dig
  <2>2. CASE ~(j < places) /\ j < L + places
    <3>1. (L + places) - j \in 1 .. (L + places) /\ (L + places) - j <= L /\ (L + places) - j = L - (j - places)
          /\ j - places < L
      BY <2>2, <1>0
    <3>2. E[(L + places) - j] = int[L - (j - places)]
      BY <3>1, <1>2
    <3>3. dig(E, j) = E[(L + places) - j]
      BY <2>2, <1>2 DEF dig
    <3>4. dig(int, j - places) = int[L - (j - places)]
      BY <3>1 DEF dig, L
    <3> QED BY <3>2, <3>3, <3>4, <2>2
  <2>3. CASE ~(j < places) /\ ~(j < L + places)
    <3>1. ~(j - places < L)
      BY <2>3, <1>0
    <3>2. dig(E, j) = 0 /\ dig(int, j - places) = 0
      BY <3>1, <2>3, <1>2 DEF dig, L
    <3> QED BY <3>2, <2>3
  <2> QED BY <2>1, <2>2, <2>3
<1> QED BY <1>2, <1>3 DEF E

\* Readings are of the same magnitude when their trimmed parts are the same.
LEMMA Magnitude ==
  ASSUME NEW places \in Nat, NEW i \in Seq(Digit), NEW f \in Seq(Digit), Len(f) <= places,
         NEW i2 \in Seq(Digit), NEW f2 \in Seq(Digit), Len(f2) <= places
  PROVE  Digits(Expansion(i, f, places)) = Digits(Expansion(i2, f2, places))
           <=> TrimLeftZeros(i) = TrimLeftZeros(i2) /\ TrimRightZeros(f) = TrimRightZeros(f2)
<1> DEFINE E == Expansion(i, f, places)
           E2 == Expansion(i2, f2, places)
<1>1. E \in Seq(Digit) /\ \A j \in Nat : dig(E, j) = IF j < places THEN fracDigit(f, places - j) ELSE dig(i, j - places)
  BY Expanded
<1>2. E2 \in Seq(Digit) /\ \A j \in Nat : dig(E2, j) = IF j < places THEN fracDigit(f2, places - j) ELSE dig(i2, j - places)
  BY Expanded
<1> HIDE DEF E, E2
<1>3. Digits(E) = Digits(E2) <=> \A j \in Nat : dig(E, j) = dig(E2, j)
  BY <1>1, <1>2, SameDigits
<1> DEFINE T == TrimLeftZeros(i)
           T2 == TrimLeftZeros(i2)
           R == TrimRightZeros(f)
           R2 == TrimRightZeros(f2)
<1>4. /\ T \in Seq(Digit) /\ (\A j \in Nat : dig(T, j) = dig(i, j)) /\ (T # <<>> => T[1] # 0)
      /\ T2 \in Seq(Digit) /\ (\A j \in Nat : dig(T2, j) = dig(i2, j)) /\ (T2 # <<>> => T2[1] # 0)
  BY TrimLeftSound
<1>5. /\ R \in Seq(Digit) /\ (\A j \in Nat \ {0} : fracDigit(R, j) = fracDigit(f, j)) /\ (R # <<>> => R[Len(R)] # 0)
      /\ R2 \in Seq(Digit) /\ (\A j \in Nat \ {0} : fracDigit(R2, j) = fracDigit(f2, j)) /\ (R2 # <<>> => R2[Len(R2)] # 0)
  BY TrimRightSound
<1> HIDE DEF T, T2, R, R2
<1>6. ASSUME T = T2, R = R2, NEW j \in Nat PROVE dig(E, j) = dig(E2, j)
  <2>1. CASE j < places
    <3>1. places - j \in Nat \ {0}
      BY <2>1
    <3>2. fracDigit(f, places - j) = fracDigit(f2, places - j)
      BY <3>1, <1>5, <1>6
    <3> QED BY <3>2, <2>1, <1>1, <1>2
  <2>2. CASE ~(j < places)
    <3>1. j - places \in Nat
      BY <2>2
    <3>2. dig(i, j - places) = dig(i2, j - places)
      BY <3>1, <1>4, <1>6
    <3> QED BY <3>2, <2>2, <1>1, <1>2
  <2> QED BY <2>1, <2>2
<1>7. ASSUME \A j \in Nat : dig(E, j) = dig(E2, j) PROVE T = T2 /\ R = R2
  <2>1. ASSUME NEW j \in Nat PROVE dig(T, j) = dig(T2, j)
    <3>1. j + places \in Nat /\ ~(j + places < places) /\ (j + places) - places = j
      OBVIOUS
    <3>2. dig(E, j + places) = dig(i, j) /\ dig(E2, j + places) = dig(i2, j)
      BY <3>1, <1>1, <1>2
    <3> QED BY <3>1, <3>2, <1>4, <1>7
  <2>2. ASSUME NEW j \in Nat \ {0} PROVE fracDigit(R, j) = fracDigit(R2, j)
    <3>1. CASE j <= places
      <4>1. places - j \in Nat /\ places - j < places /\ places - (places - j) = j
        BY <3>1
      <4>2. dig(E, places - j) = fracDigit(f, j) /\ dig(E2, places - j) = fracDigit(f2, j)
        BY <4>1, <1>1, <1>2
      <4> QED BY <4>1, <4>2, <1>5, <1>7
    <3>2. CASE ~(j <= places)
      <4>1. Len(f) \in Nat /\ Len(f2) \in Nat /\ ~(j <= Len(f)) /\ ~(j <= Len(f2))
        BY <3>2
      <4>2. fracDigit(f, j) = 0 /\ fracDigit(f2, j) = 0
        BY <4>1 DEF fracDigit
      <4> QED BY <4>2, <1>5
    <3> QED BY <3>1, <3>2
  <2>3. T = T2
    BY <2>1, <1>4, NoLeadingZero
  <2>4. R = R2
    BY <2>2, <1>5, NoTrailingZero
  <2> QED BY <2>3, <2>4
<1>8. Digits(E) = Digits(E2) <=> T = T2 /\ R = R2
  BY <1>3, <1>6, <1>7
<1> QED BY <1>8 DEF E, E2, T, T2, R, R2

\* A reading is zero exactly when nothing is left of it once trimmed, where
\* canonicalNumber drops the sign.
LEMMA Magnitude0 ==
  ASSUME NEW places \in Nat, NEW i \in Seq(Digit), NEW f \in Seq(Digit), Len(f) <= places
  PROVE  /\ Digits(Expansion(i, f, places)) \in Nat
         /\ Digits(Expansion(i, f, places)) = 0 <=> TrimLeftZeros(i) = <<>> /\ TrimRightZeros(f) = <<>>
<1> DEFINE none == <<>>
           Z == Expansion(none, none, places)
<1>1. none \in Seq(Digit) /\ Len(none) = 0 /\ Len(none) <= places
  OBVIOUS
<1>2. TrimLeftZeros(none) = <<>> /\ TrimRightZeros(none) = <<>>
  <2>1. NonZero(none) = {}
    BY DEF NonZero
  <2> QED BY <2>1 DEF TrimLeftZeros, TrimRightZeros
<1>3. Digits(Expansion(i, f, places)) = Digits(Z) <=> TrimLeftZeros(i) = <<>> /\ TrimRightZeros(f) = <<>>
  <2> HIDE DEF none
  <2>91. ASSUME NEW e \in Seq(Digit), Len(e) <= places
         PROVE  Digits(Expansion(i, f, places)) = Digits(Expansion(e, e, places))
                 <=> TrimLeftZeros(i) = TrimLeftZeros(e) /\ TrimRightZeros(f) = TrimRightZeros(e)
    BY <2>91, Magnitude
  <2>1. Digits(Expansion(i, f, places)) = Digits(Expansion(none, none, places))
           <=> TrimLeftZeros(i) = TrimLeftZeros(none) /\ TrimRightZeros(f) = TrimRightZeros(none)
    BY <1>1, <2>91, Zenon
  <2> QED BY <2>1, <1>2
<1>4. Digits(Z) = 0
  <2>1. Z \in Seq(Digit) /\ \A j \in Nat : dig(Z, j) = IF j < places THEN fracDigit(none, places - j) ELSE dig(none, j - places)
    <3> HIDE DEF none
    <3> QED BY <1>1, Expanded
  <2>2. \A j \in Nat : dig(none, j) = 0 /\ (j # 0 => fracDigit(none, j) = 0)
    BY DEF dig, fracDigit
  <2>3. \A j \in Nat : dig(Z, j) = dig(none, j)
    <3> HIDE DEF none, Z
    <3> QED BY <2>1, <2>2
  <2>4. Digits(none) = 0
    <3> HIDE DEF none
    <3>1. PICK v \in [0 .. Len(none) -> Nat] : v[0] = 0 /\ Digits(none) = v[Len(none)]
      BY <1>1, DigitsRec
    <3> QED BY <3>1, <1>1
  <2> HIDE DEF none, Z
  <2> QED BY <2>1, <2>3, <2>4, <1>1, SameDigits
<1>5. Digits(Expansion(i, f, places)) \in Nat
  <2> DEFINE E == Expansion(i, f, places)
  <2>1. E \in Seq(Digit)
    BY Expanded
  <2> HIDE DEF E
  <2>2. PICK v \in [0 .. Len(E) -> Nat] : Digits(E) = v[Len(E)]
    BY <2>1, DigitsRec
  <2>3. Len(E) \in Nat
    BY <2>1
  <2>4. Digits(E) \in Nat
    BY <2>2, <2>3
  <2> QED BY <2>4 DEF E
<1> QED BY <1>3, <1>4, <1>5

\* Forms are the same exactly when the values are.
LEMMA CanonicalByValue ==
  ASSUME NEW places \in Nat, NEW neg \in BOOLEAN, NEW neg2 \in BOOLEAN,
         NEW i \in Seq(Digit), NEW f \in Seq(Digit), Len(f) <= places,
         NEW i2 \in Seq(Digit), NEW f2 \in Seq(Digit), Len(f2) <= places
  PROVE  canonicalNumber(neg, i, f) = canonicalNumber(neg2, i2, f2)
           <=> Value(neg, i, f, places) = Value(neg2, i2, f2, places)
<1> DEFINE D == Digits(Expansion(i, f, places))
           D2 == Digits(Expansion(i2, f2, places))
           T == TrimLeftZeros(i)
           T2 == TrimLeftZeros(i2)
           R == TrimRightZeros(f)
           R2 == TrimRightZeros(f2)
           I == IF T = <<>> THEN <<0>> ELSE T
           I2 == IF T2 = <<>> THEN <<0>> ELSE T2
           n == neg /\ ~(I = <<0>> /\ R = <<>>)
           n2 == neg2 /\ ~(I2 = <<0>> /\ R2 = <<>>)
<1>1. D = D2 <=> T = T2 /\ R = R2
  BY Magnitude
<1>2. D \in Nat /\ (D = 0 <=> T = <<>> /\ R = <<>>)
  BY Magnitude0
<1>3. D2 \in Nat /\ (D2 = 0 <=> T2 = <<>> /\ R2 = <<>>)
  BY Magnitude0
<1>4. /\ T \in Seq(Digit) /\ (T # <<>> => T[1] # 0)
      /\ T2 \in Seq(Digit) /\ (T2 # <<>> => T2[1] # 0)
  BY TrimLeftSound
<1>5. Value(neg, i, f, places) = (IF neg THEN -1 ELSE 1) * D /\ Value(neg2, i2, f2, places) = (IF neg2 THEN -1 ELSE 1) * D2
  BY DEF Value, Expansion, Decimals
<1>6. /\ canonicalNumber(neg, i, f) = [neg |-> n, int |-> I, frac |-> R, literal |-> <<>>]
      /\ canonicalNumber(neg2, i2, f2) = [neg |-> n2, int |-> I2, frac |-> R2, literal |-> <<>>]
  BY DEF canonicalNumber
<1> HIDE DEF D, D2, T, T2, R, R2
<1>7. (I = <<0>> <=> T = <<>>) /\ (I2 = <<0>> <=> T2 = <<>>)
  <2>1. <<0>>[1] = 0 /\ <<0>> # <<>>
    OBVIOUS
  <2>2. T # <<0>> /\ T2 # <<0>>
    <3>1. ASSUME T = << 0 >> PROVE FALSE
      <4>1. T[1] = 0 /\ T # <<>>
        BY <2>1, <3>1
      <4> QED BY <4>1, <1>4
    <3>2. ASSUME T2 = << 0 >> PROVE FALSE
      <4>1. T2[1] = 0 /\ T2 # <<>>
        BY <2>1, <3>2
      <4> QED BY <4>1, <1>4
    <3> QED BY <3>1, <3>2
  <2> QED BY <2>2
<1>8. I = I2 <=> T = T2
  BY <1>7
<1> HIDE DEF I, I2
<1>9. n \in BOOLEAN /\ n2 \in BOOLEAN /\ (n <=> neg /\ D # 0) /\ (n2 <=> neg2 /\ D2 # 0)
  BY <1>2, <1>3, <1>7
<1> HIDE DEF n, n2
<1>10. canonicalNumber(neg, i, f) = canonicalNumber(neg2, i2, f2) <=> n = n2 /\ I = I2 /\ R = R2
  <2> DEFINE a == [neg |-> n, int |-> I, frac |-> R, literal |-> <<>>]
             b == [neg |-> n2, int |-> I2, frac |-> R2, literal |-> <<>>]
  <2>1. ASSUME a = b PROVE n = n2 /\ I = I2 /\ R = R2
    <3>1. a.neg = n /\ a.int = I /\ a.frac = R /\ b.neg = n2 /\ b.int = I2 /\ b.frac = R2
      BY Zenon
    <3> HIDE DEF a, b
    <3> QED BY <2>1, <3>1, Zenon
  <2>2. ASSUME n = n2, I = I2, R = R2 PROVE a = b
    BY <2>2, Zenon
  <2> HIDE DEF a, b
  <2> QED BY <1>6, <2>1, <2>2, Zenon DEF a, b
<1>11. (IF neg THEN -1 ELSE 1) * D = (IF neg2 THEN -1 ELSE 1) * D2 <=> D = D2 /\ (D = 0 \/ (neg <=> neg2))
  <2>1. CASE neg /\ neg2
    BY <2>1, <1>2, <1>3
  <2>2. CASE neg /\ ~neg2
    BY <2>2, <1>2, <1>3
  <2>3. CASE ~neg /\ neg2
    BY <2>3, <1>2, <1>3
  <2>4. CASE ~neg /\ ~neg2
    BY <2>4, <1>2, <1>3
  <2> QED BY <2>1, <2>2, <2>3, <2>4
<1>12. n = n2 /\ D = D2 <=> D = D2 /\ (D = 0 \/ (neg <=> neg2))
  BY <1>9, Zenon
<1>13. n = n2 /\ I = I2 /\ R = R2 <=> n = n2 /\ D = D2
  BY <1>1, <1>8, Zenon
<1> QED BY <1>5, <1>10, <1>11, <1>12, <1>13, Zenon

------------------------------------------------------------------------------
\* llm fact numbers: factNumbersCovered.

\* The tokens of matches whose groups have at most places digits.
Token(places) ==
    {t \in [neg : BOOLEAN, groups : Seq(Seq(Digit)), seps : Seq({"dot", "comma", "space"})] :
       Len(t.groups) = Len(t.seps) + 1 /\ \A k \in DOMAIN t.groups : Len(t.groups[k]) <= places}

\* Every group after the first has three digits: the separators may all be
\* thousands marks.
AllGroups(t) == \A j \in 2 .. Len(t.groups) : Len(t.groups[j]) = 3

\* The last separator may be a decimal mark, the ones before it thousands marks.
DecimalMark(t) ==
    /\ Len(t.groups) > 1 /\ t.seps[Len(t.groups) - 1] # "space"
    /\ \A j \in 2 .. (Len(t.groups) - 1) : Len(t.groups[j]) = 3

\* How a token can be read: pairs of an integer and a fraction.
Readings(t) ==
    {r \in {<<Join(t.groups), <<>>>>} : AllGroups(t)}
      \cup {r \in {<<Join(SubSeq(t.groups, 1, Len(t.groups) - 1)), t.groups[Len(t.groups)]>>} : DecimalMark(t)}

\* allThreeDigit of the groups after the first, by index.
LEMMA GroupsThree ==
  ASSUME NEW groups \in Seq(Seq(Digit)), NEW n \in Nat, n <= Len(groups)
  PROVE  allThreeDigit(SubSeq(groups, 2, n)) <=> \A j \in 2 .. n : Len(groups[j]) = 3
<1> DEFINE s == SubSeq(groups, 2, n)
<1>0. Len(groups) \in Nat /\ \A k \in 1 .. Len(groups) : groups[k] \in Seq(Digit)
  OBVIOUS
<1>1. /\ s \in Seq(Seq(Digit)) /\ Len(s) = (IF 2 <= n THEN n - 2 + 1 ELSE 0)
      /\ \A k \in 1 .. (n - 2 + 1) : s[k] = groups[2 + k - 1]
  <2>1. \A k \in 2 .. n : groups[k] \in Seq(Digit)
    BY <1>0
  <2> QED BY <2>1, SubSeqProperties
<1> HIDE DEF s
<1>2. DOMAIN s = 1 .. Len(s)
  BY <1>1
<1>3. ASSUME allThreeDigit(s), NEW j \in 2 .. n PROVE Len(groups[j]) = 3
  <2>1. j - 1 \in 1 .. (n - 2 + 1) /\ 2 + (j - 1) - 1 = j /\ 2 <= n
    OBVIOUS
  <2>2. j - 1 \in DOMAIN s /\ s[j - 1] = groups[j]
    BY <2>1, <1>1, <1>2
  <2> QED BY <2>2, <1>3 DEF allThreeDigit, thousandsGroupLen
<1>4. ASSUME \A j \in 2 .. n : Len(groups[j]) = 3, NEW k \in DOMAIN s PROVE Len(s[k]) = thousandsGroupLen
  <2>1. k \in 1 .. (n - 2 + 1) /\ k + 1 \in 2 .. n /\ 2 + k - 1 = k + 1
    <3>1. k \in 1 .. Len(s) /\ Len(s) = (IF 2 <= n THEN n - 2 + 1 ELSE 0)
      BY <1>1, <1>2
    <3> QED BY <3>1, SMTT(20)
  <2>2. s[k] = groups[k + 1]
    BY <2>1, <1>1
  <2> QED BY <2>1, <2>2, <1>4 DEF thousandsGroupLen
<1> QED BY <1>3, <1>4 DEF allThreeDigit, s

\* numberForms has a canonical form for each reading of the token, and the
\* literal token when there is none.
LEMMA FormsOfReadings ==
  ASSUME NEW places \in Nat, NEW t \in Token(places)
  PROVE  /\ \A r \in Readings(t) : r[1] \in Seq(Digit) /\ r[2] \in Seq(Digit) /\ Len(r[2]) <= places
         /\ numberForms(t) = IF Readings(t) = {} THEN {Literal(t)}
                             ELSE {canonicalNumber(t.neg, r[1], r[2]) : r \in Readings(t)}
         /\ Values(t, places) = {Value(t.neg, r[1], r[2], places) : r \in Readings(t)}
<1> DEFINE n == Len(t.groups)
           whole == Join(t.groups)
           front == Join(SubSeq(t.groups, 1, n - 1))
           last == t.groups[n]
           th == AllGroups(t)
           de == DecimalMark(t)
<1>0. /\ t.neg \in BOOLEAN /\ t.groups \in Seq(Seq(Digit)) /\ t.seps \in Seq({"dot", "comma", "space"})
      /\ n = Len(t.seps) + 1 /\ \A k \in DOMAIN t.groups : Len(t.groups[k]) <= places
  BY DEF Token
<1>1. n \in Nat /\ n >= 1 /\ Len(t.seps) \in Nat
  BY <1>0
<1>2. whole \in Seq(Digit) /\ (n = 1 => whole = t.groups[1])
  BY <1>0, JoinType
<1>3. front \in Seq(Digit)
  <2>1. \A k \in 1 .. (n - 1) : t.groups[k] \in Seq(Digit)
    BY <1>0, <1>1
  <2>2. SubSeq(t.groups, 1, n - 1) \in Seq(Seq(Digit))
    BY <2>1, <1>1, SubSeqProperties
  <2> QED BY <2>2, JoinType
<1>4. last \in Seq(Digit) /\ Len(last) <= places
  <2>1. n \in 1 .. Len(t.groups) /\ n \in DOMAIN t.groups
    BY <1>0, <1>1
  <2> QED BY <2>1, <1>0
<1>5. n > 1 => t.seps[n - 1] \in {"dot", "comma", "space"}
  BY <1>0, <1>1
<1>6. allThreeDigit(SubSeq(t.groups, 2, n)) <=> th
  <2>1. n \in Nat /\ n <= Len(t.groups)
    BY <1>1
  <2>2. allThreeDigit(SubSeq(t.groups, 2, n)) <=> \A j \in 2 .. n : Len(t.groups[j]) = 3
    <3> HIDE DEF n
    <3> QED BY <1>0, <2>1, GroupsThree, Zenon
  <2> QED BY <2>2, Zenon DEF AllGroups
<1>7. allThreeDigit(SubSeq(t.groups, 2, n - 1)) <=> \A j \in 2 .. (n - 1) : Len(t.groups[j]) = 3
  <2>1. n - 1 \in Nat /\ n - 1 <= Len(t.groups)
    BY <1>1
  <2> QED BY <1>0, <2>1, GroupsThree
<1>8. de <=> n > 1 /\ t.seps[n - 1] # "space" /\ allThreeDigit(SubSeq(t.groups, 2, n - 1))
  BY <1>7 DEF DecimalMark
<1>9. n = 1 => th /\ ~de
  BY <1>1 DEF AllGroups, DecimalMark
<1>10. Readings(t) = {r \in {<<whole, <<>>>>} : th} \cup {r \in {<<front, last>>} : de}
  BY DEF Readings
<1>11. numberForms(t) = (IF n > 1 /\ th THEN {canonicalNumber(t.neg, whole, <<>>)} ELSE {})
         \cup (IF de THEN {canonicalNumber(t.neg, front, last)} ELSE {})
         \cup (IF (n > 1 /\ th) \/ de THEN {}
               ELSE IF n = 1 THEN {canonicalNumber(t.neg, t.groups[1], <<>>)} ELSE {Literal(t)})
  <2> HIDE DEF th, de
  <2> QED BY <1>6, <1>8 DEF numberForms
<1>12. Values(t, places) = {v \in {Value(t.neg, whole, <<>>, places)} : th} \cup {v \in {Value(t.neg, front, last, places)} : de}
  <2>1. de <=> n > 1 /\ (\A j \in 2 .. (n - 1) : Len(t.groups[j]) = 3) /\ t.seps[n - 1] \in {"dot", "comma"}
    BY <1>5 DEF DecimalMark
  <2>2. th <=> \A j \in 2 .. n : Len(t.groups[j]) = 3
    BY DEF AllGroups
  <2> HIDE DEF th, de
  <2> QED BY <2>1, <2>2 DEF Values
<1> HIDE DEF n, whole, front, last, th, de
<1> DEFINE a == <<whole, <<>>>>
           b == <<front, last>>
<1>91. a[1] = whole /\ a[2] = <<>> /\ b[1] = front /\ b[2] = last
  OBVIOUS
<1>92. Readings(t) = {r \in {a} : th} \cup {r \in {b} : de}
  BY <1>10
<1> HIDE DEF a, b
<1>13. \A r \in Readings(t) : r[1] \in Seq(Digit) /\ r[2] \in Seq(Digit) /\ Len(r[2]) <= places
  <2>1. <<>> \in Seq(Digit) /\ Len(<<>>) <= places
    OBVIOUS
  <2>2. a[1] \in Seq(Digit) /\ a[2] \in Seq(Digit) /\ Len(a[2]) <= places
    BY <1>2, <1>91, <2>1, Zenon
  <2>3. b[1] \in Seq(Digit) /\ b[2] \in Seq(Digit) /\ Len(b[2]) <= places
    BY <1>3, <1>4, <1>91, Zenon
  <2> QED BY <1>92, <2>2, <2>3, Zenon
<1>14. Values(t, places) = {Value(t.neg, r[1], r[2], places) : r \in Readings(t)}
  <2> DEFINE V(r) == Value(t.neg, r[1], r[2], places)
  <2>1. V(a) = Value(t.neg, whole, <<>>, places) /\ V(b) = Value(t.neg, front, last, places)
    BY <1>91
  <2> HIDE DEF V
  <2>2. Values(t, places) = {v \in {V(a)} : th} \cup {v \in {V(b)} : de}
    BY <2>1, <1>12
  <2>3. {V(r) : r \in Readings(t)} = {v \in {V(a)} : th} \cup {v \in {V(b)} : de}
    BY <1>92
  <2> QED BY <2>2, <2>3 DEF V
<1>15. numberForms(t) = IF Readings(t) = {} THEN {Literal(t)}
                        ELSE {canonicalNumber(t.neg, r[1], r[2]) : r \in Readings(t)}
  <2> DEFINE F(r) == canonicalNumber(t.neg, r[1], r[2])
  <2>1. F(a) = canonicalNumber(t.neg, whole, <<>>) /\ F(b) = canonicalNumber(t.neg, front, last)
    BY <1>91
  <2> HIDE DEF F
  <2>2. CASE n = 1
    <3>1. numberForms(t) = {F(a)}
      <4>1. ~(n > 1)
        BY <2>2
      <4>2. whole = t.groups[1] /\ th /\ ~de
        BY <2>2, <1>2, <1>9
      <4> QED BY <4>1, <4>2, <2>1, <2>2, <1>11
    <3>2. Readings(t) = {a}
      BY <2>2, <1>92, <1>9
    <3>3. {F(r) : r \in Readings(t)} = {F(a)} /\ Readings(t) # {}
      BY <3>2
    <3> QED BY <3>1, <3>3 DEF F
  <2>3. CASE n # 1
    <3>0. n > 1
      BY <2>3, <1>1
    <3>1. CASE th /\ de
      <4>1. numberForms(t) = {F(a), F(b)}
        BY <3>0, <3>1, <2>1, <1>11
      <4>2. Readings(t) = {a, b}
        BY <3>1, <1>92
      <4>3. {F(r) : r \in Readings(t)} = {F(a), F(b)} /\ Readings(t) # {}
        BY <4>2
      <4> QED BY <4>1, <4>3 DEF F
    <3>2. CASE th /\ ~de
      <4>1. numberForms(t) = {F(a)}
        BY <3>0, <3>2, <2>1, <1>11
      <4>2. Readings(t) = {a}
        BY <3>2, <1>92
      <4>3. {F(r) : r \in Readings(t)} = {F(a)} /\ Readings(t) # {}
        BY <4>2
      <4> QED BY <4>1, <4>3 DEF F
    <3>3. CASE ~th /\ de
      <4>1. numberForms(t) = {F(b)}
        BY <3>0, <3>3, <2>1, <1>11
      <4>2. Readings(t) = {b}
        BY <3>3, <1>92
      <4>3. {F(r) : r \in Readings(t)} = {F(b)} /\ Readings(t) # {}
        BY <4>2
      <4> QED BY <4>1, <4>3 DEF F
    <3>4. CASE ~th /\ ~de
      <4>1. numberForms(t) = {Literal(t)}
        BY <2>3, <3>4, <1>11
      <4>2. Readings(t) = {}
        BY <3>4, <1>92
      <4> QED BY <4>1, <4>2
    <3> QED BY <3>1, <3>2, <3>3, <3>4
  <2> QED BY <2>2, <2>3
<1> QED BY <1>13, <1>14, <1>15

\* Two tokens share a form exactly when they share a value, or are the same
\* token without one.
LEMMA FormsShared ==
  ASSUME NEW places \in Nat, NEW t \in Token(places), NEW u \in Token(places)
  PROVE  numberForms(t) \cap numberForms(u) # {} <=> SameValue(t, u, places)
<1> DEFINE R == Readings(t)
           Q == Readings(u)
           F(x, r) == canonicalNumber(x.neg, r[1], r[2])
           V(x, r) == Value(x.neg, r[1], r[2], places)
<1>0. /\ t \in [neg : BOOLEAN, groups : Seq(Seq(Digit)), seps : Seq({"dot", "comma", "space"})]
      /\ u \in [neg : BOOLEAN, groups : Seq(Seq(Digit)), seps : Seq({"dot", "comma", "space"})]
  BY DEF Token
<1>1. /\ \A r \in R : r[1] \in Seq(Digit) /\ r[2] \in Seq(Digit) /\ Len(r[2]) <= places
      /\ numberForms(t) = IF R = {} THEN {Literal(t)} ELSE {F(t, r) : r \in R}
      /\ Values(t, places) = {V(t, r) : r \in R}
  BY FormsOfReadings
<1>2. /\ \A r \in Q : r[1] \in Seq(Digit) /\ r[2] \in Seq(Digit) /\ Len(r[2]) <= places
      /\ numberForms(u) = IF Q = {} THEN {Literal(u)} ELSE {F(u, r) : r \in Q}
      /\ Values(u, places) = {V(u, r) : r \in Q}
  BY FormsOfReadings
<1>3. ASSUME NEW r \in R, NEW q \in Q PROVE F(t, r) = F(u, q) <=> V(t, r) = V(u, q)
  <2>1. t.neg \in BOOLEAN /\ u.neg \in BOOLEAN
    BY <1>0
  <2>2. /\ r[1] \in Seq(Digit) /\ r[2] \in Seq(Digit) /\ Len(r[2]) <= places
        /\ q[1] \in Seq(Digit) /\ q[2] \in Seq(Digit) /\ Len(q[2]) <= places
    BY <1>1, <1>2
  <2> QED BY <2>1, <2>2, CanonicalByValue
<1>4. ASSUME NEW x, NEW y, NEW r PROVE Literal(x) # F(y, r)
  <2>1. Literal(x).literal = <<x.groups, x.seps>>
    BY DEF Literal
  <2>2. F(y, r).literal = <<>>
    BY DEF canonicalNumber
  <2>3. <<x.groups, x.seps>> # <<>>
    OBVIOUS
  <2> HIDE DEF F
  <2> QED BY <2>1, <2>2, <2>3
<1>5. Literal(t) = Literal(u) <=> t = u
  <2>1. ASSUME Literal(t) = Literal(u) PROVE t = u
    <3>1. Literal(t).literal = <<t.groups, t.seps>> /\ Literal(t).neg = t.neg
          /\ Literal(u).literal = <<u.groups, u.seps>> /\ Literal(u).neg = u.neg
      BY DEF Literal
    <3>2. <<t.groups, t.seps>> = <<u.groups, u.seps>> /\ t.neg = u.neg
      BY <2>1, <3>1, Zenon
    <3>3. t.groups = u.groups /\ t.seps = u.seps
      BY <3>2
    <3>4. t = [neg |-> t.neg, groups |-> t.groups, seps |-> t.seps] /\ u = [neg |-> u.neg, groups |-> u.groups, seps |-> u.seps]
      BY <1>0, Zenon
    <3> QED BY <3>2, <3>3, <3>4, Zenon
  <2> QED BY <2>1
<1> HIDE DEF F, V, R, Q
<1>6. CASE R = {} /\ Q = {}
  <2>1. numberForms(t) = {Literal(t)} /\ numberForms(u) = {Literal(u)} /\ Values(t, places) = {}
    BY <1>1, <1>2, <1>6
  <2> QED BY <2>1, <1>5 DEF SameValue
<1>7. CASE R = {} /\ Q # {}
  <2>1. numberForms(t) = {Literal(t)} /\ numberForms(u) = {F(u, r) : r \in Q} /\ Values(t, places) = {}
    BY <1>1, <1>2, <1>7
  <2>2. t # u
    BY <1>7 DEF R, Q
  <2> QED BY <2>1, <2>2, <1>4 DEF SameValue
<1>8. CASE R # {} /\ Q = {}
  <2>1. numberForms(u) = {Literal(u)} /\ numberForms(t) = {F(t, r) : r \in R} /\ Values(u, places) = {}
    BY <1>1, <1>2, <1>8
  <2>2. t # u
    BY <1>8 DEF R, Q
  <2> QED BY <2>1, <2>2, <1>4 DEF SameValue
<1>9. CASE R # {} /\ Q # {}
  <2>1. numberForms(t) = {F(t, r) : r \in R} /\ numberForms(u) = {F(u, q) : q \in Q} /\ Values(t, places) # {}
    BY <1>1, <1>2, <1>9
  <2>2. numberForms(t) \cap numberForms(u) # {} <=> \E r \in R, q \in Q : F(t, r) = F(u, q)
    BY <2>1
  <2>3. Values(t, places) \cap Values(u, places) # {} <=> \E r \in R, q \in Q : V(t, r) = V(u, q)
    BY <1>1, <1>2
  <2> QED BY <2>1, <2>2, <2>3, <1>3 DEF SameValue
<1> QED BY <1>6, <1>7, <1>8, <1>9

\* The matches of factNumberRe whose groups have at most places digits.
Match(places) ==
    {m \in [dash : BOOLEAN, digitBefore : BOOLEAN, groups : Seq(Seq(Digit)), seps : Seq({"dot", "comma", "space"})] :
       factNumberRe(m) /\ \A k \in DOMAIN m.groups : Len(m.groups[k]) <= places}

\* NumbersDecide, for any numbers in point and quote, of any length.
THEOREM NumbersSound ==
  ASSUME NEW places \in Nat, NEW point \in SUBSET Match(places), NEW quote \in SUBSET Match(places)
  PROVE  NumbersDecide(point, quote, places)
<1>1. ASSUME NEW M \in SUBSET Match(places) PROVE factNumberTokens(M) \subseteq Token(places)
  <2>1. ASSUME NEW m \in M PROVE [neg |-> m.dash /\ ~m.digitBefore, groups |-> m.groups, seps |-> m.seps] \in Token(places)
    <3>1. /\ m.dash \in BOOLEAN /\ m.groups \in Seq(Seq(Digit)) /\ m.seps \in Seq({"dot", "comma", "space"})
          /\ Len(m.groups) = Len(m.seps) + 1 /\ \A k \in DOMAIN m.groups : Len(m.groups[k]) <= places
      BY DEF Match, factNumberRe
    <3> DEFINE t == [neg |-> m.dash /\ ~m.digitBefore, groups |-> m.groups, seps |-> m.seps]
    <3>2. t.groups = m.groups /\ t.seps = m.seps
      BY Zenon
    <3>3. t \in [neg : BOOLEAN, groups : Seq(Seq(Digit)), seps : Seq({"dot", "comma", "space"})]
      BY <3>1, Zenon
    <3> HIDE DEF t
    <3>4. t \in Token(places)
      BY <3>1, <3>2, <3>3, Zenon DEF Token
    <3> QED BY <3>4 DEF t
  <2> QED BY <2>1 DEF factNumberTokens
<1> DEFINE P == factNumberTokens(point)
           Q == factNumberTokens(quote)
<1>2. P \subseteq Token(places) /\ Q \subseteq Token(places)
  BY <1>1
<1> HIDE DEF P, Q
<1>3. ASSUME NEW t \in P
      PROVE  numberForms(t) \cap (UNION {numberForms(u) : u \in Q}) # {} <=> \E u \in Q : SameValue(t, u, places)
  <2>1. numberForms(t) \cap (UNION {numberForms(u) : u \in Q}) # {} <=> \E u \in Q : numberForms(t) \cap numberForms(u) # {}
    BY Zenon
  <2>2. \A u \in Q : numberForms(t) \cap numberForms(u) # {} <=> SameValue(t, u, places)
    BY <1>2, FormsShared
  <2> QED BY <2>1, <2>2
<1>4. factNumbersCovered(point, quote) <=> \A t \in P : \E u \in Q : SameValue(t, u, places)
  BY <1>3 DEF factNumbersCovered, P, Q
<1> QED BY <1>4 DEF NumbersDecide, P, Q

------------------------------------------------------------------------------
\* FilterByScore.

\* The length of a list is read off its domain.
LEMMA LenIs ==
  ASSUME NEW f, NEW n \in Nat, DOMAIN f = 1 .. n PROVE Len(f) = n
OBVIOUS

\* g lists the indices K, ascending, as the loop meets them.
Indexes(g, results, K) ==
    /\ g \in [1 .. Cardinality(K) -> K]
    /\ \A j, k \in 1 .. Cardinality(K) : j < k => g[j] < g[k]
    /\ \A j, k \in 1 .. Cardinality(K) : g[j] = g[k] => j = k
    /\ \A i \in K : \E p \in 1 .. Cardinality(K) : g[p] = i
    /\ InOrder(results, K) = [p \in 1 .. Cardinality(K) |-> results[g[p]]]

\* The filters' results are listed by ascending indices.
LEMMA KeptInOrder ==
  ASSUME NEW n \in Nat, NEW results, NEW K \in SUBSET (1 .. n)
  PROVE  /\ IsFiniteSet(K) /\ Cardinality(K) \in Nat /\ Cardinality(K) <= n
         /\ \E g : Indexes(g, results, K)
<1>1. IsFiniteSet(1 .. n) /\ Cardinality(1 .. n) = n
  BY FS_Interval
<1>2. IsFiniteSet(K) /\ Cardinality(K) <= n
  BY <1>1, FS_Subset
<1>3. Cardinality(K) \in Nat
  BY <1>2, FS_CardinalityType
<1> DEFINE lt == {e \in K \X K : e[1] < e[2]}
           g == Arrange(K, lt)
           m == Cardinality(K)
<1>4. Orders(lt, K)
  BY DEF Orders
<1>91. \A u, v : <<u, v>> \in lt => u < v
  OBVIOUS
<1>92. InOrder(results, K) = [p \in 1 .. m |-> results[g[p]]]
  BY DEF InOrder
<1> HIDE DEF lt, g
<1>5. /\ g \in [1 .. m -> K]
      /\ \A u \in K : \E p \in 1 .. m : g[p] = u
      /\ \A p, r \in 1 .. m : p < r => <<g[p], g[r]>> \in lt
      /\ \A p, r \in 1 .. m : g[p] = g[r] => p = r
  BY <1>2, <1>4, Arranged DEF g
<1> HIDE DEF m
<1>6. /\ \A j, k \in 1 .. m : j < k => g[j] < g[k]
      /\ \A j, k \in 1 .. m : g[j] = g[k] => j = k
      /\ \A i \in K : \E p \in 1 .. m : g[p] = i
      /\ InOrder(results, K) = [p \in 1 .. m |-> results[g[p]]]
  BY <1>5, <1>91, <1>92
<1>7. Indexes(g, results, K)
  BY <1>5, <1>6 DEF m, Indexes
<1> QED BY <1>2, <1>3, <1>7

\* A filter's result is a subsequence of its input.
LEMMA InOrderIs ==
  ASSUME NEW n \in Nat, NEW results, DOMAIN results = 1 .. n, NEW K \in SUBSET (1 .. n)
  PROVE  /\ Cardinality(K) \in Nat /\ Cardinality(K) <= n
         /\ DOMAIN InOrder(results, K) = 1 .. Cardinality(K)
         /\ Len(InOrder(results, K)) = Cardinality(K)
         /\ Subsequence(InOrder(results, K), results)
<1>1. Cardinality(K) \in Nat /\ Cardinality(K) <= n
  BY KeptInOrder
<1>2. PICK g : Indexes(g, results, K)
  BY KeptInOrder
<1> DEFINE m == Cardinality(K)
           res == InOrder(results, K)
<1>3. DOMAIN res = 1 .. m
  BY <1>2 DEF Indexes
<1>4. Len(res) = m
  <2> HIDE DEF res, m
  <2> QED BY <1>1, <1>3, LenIs DEF m
<1>5. g \in [DOMAIN res -> DOMAIN results]
  BY <1>2, <1>3 DEF Indexes
<1>6. \A j, k \in DOMAIN res : j < k => g[j] < g[k]
  BY <1>2, <1>3 DEF Indexes
<1>7. \A k \in DOMAIN res : res[k] = results[g[k]]
  BY <1>2, <1>3 DEF Indexes
<1>8. Subsequence(res, results)
  <2> HIDE DEF res
  <2> QED BY <1>5, <1>6, <1>7 DEF Subsequence
<1> QED BY <1>1, <1>3, <1>4, <1>8

\* A prefix is a subsequence.
LEMMA PrefixIs ==
  ASSUME NEW n \in Nat, NEW results, DOMAIN results = 1 .. n, NEW k \in Nat, k <= n
  PROVE  /\ DOMAIN SubSeq(results, 1, k) = 1 .. k
         /\ Len(SubSeq(results, 1, k)) = k
         /\ \A i \in 1 .. k : SubSeq(results, 1, k)[i] = results[i]
         /\ Subsequence(SubSeq(results, 1, k), results)
<1> DEFINE res == SubSeq(results, 1, k)
           g == [i \in 1 .. k |-> i]
<1>1. res = [i \in 1 .. k |-> results[i]]
  OBVIOUS
<1>2. DOMAIN res = 1 .. k /\ \A i \in 1 .. k : res[i] = results[i]
  BY <1>1
<1>3. Len(res) = k
  <2> HIDE DEF res
  <2> QED BY <1>2, LenIs
<1>4. g \in [DOMAIN res -> DOMAIN results] /\ (\A i, j \in DOMAIN res : i < j => g[i] < g[j])
      /\ \A i \in DOMAIN res : res[i] = results[g[i]]
  <2> HIDE DEF res
  <2> QED BY <1>2
<1>5. Subsequence(res, results)
  <2> HIDE DEF res, g
  <2> QED BY <1>4 DEF Subsequence
<1> QED BY <1>2, <1>3, <1>5

\* Downward closed indices are a prefix.
LEMMA DownIs ==
  ASSUME NEW n \in Nat, NEW K \in SUBSET (1 .. n), \A k \in K : \A j \in 1 .. n : j < k => j \in K
  PROVE  K = 1 .. Cardinality(K)
<1>1. CASE K = {}
  <2>1. Cardinality(K) = 0
    BY <1>1, FS_EmptySet
  <2> QED BY <1>1, <2>1
<1>2. CASE K # {}
  <2>1. \A x \in K : x \in Int /\ x <= n
    OBVIOUS
  <2>2. n \in Int /\ Max(K) \in K /\ \A y \in K : Max(K) >= y
    <3>1. n \in Int
      OBVIOUS
    <3> QED BY <3>1, <1>2, <2>1, MaxIn
  <2> DEFINE m == Max(K)
  <2>3. m \in 1 .. n /\ K = 1 .. m
    <3>1. m \in K /\ \A y \in K : m >= y
      BY <2>2
    <3> HIDE DEF m
    <3>2. m \in 1 .. n
      BY <3>1
    <3>3. K \subseteq 1 .. m
      BY <3>1, <3>2
    <3>4. \A j \in 1 .. m : j \in K
      <4>1. \A j \in 1 .. m : j \in 1 .. n /\ (j = m \/ j < m)
        BY <3>2
      <4> QED BY <3>1, <4>1
    <3> QED BY <3>2, <3>3, <3>4
  <2>4. Cardinality(1 .. m) = m
    <3> HIDE DEF m
    <3> QED BY <2>3, FS_Interval
  <2> HIDE DEF m
  <2> QED BY <2>3, <2>4
<1> QED BY <1>1, <1>2

\* An increasing enumeration of 1 .. m is the identity.
LEMMA IncreasingIs ==
  ASSUME NEW m \in Nat, NEW g \in [1 .. m -> 1 .. m],
         \A j, k \in 1 .. m : j < k => g[j] < g[k], \A i \in 1 .. m : \E p \in 1 .. m : g[p] = i
  PROVE  \A p \in 1 .. m : g[p] = p
<1> SUFFICES ASSUME \E p \in 1 .. m : g[p] # p PROVE FALSE
  OBVIOUS
<1> DEFINE T == {p \in 1 .. m : g[p] # p}
<1>1. T \in SUBSET Nat /\ T # {}
  <2>1. \A p \in 1 .. m : p \in Nat
    OBVIOUS
  <2> QED BY <2>1, Zenon
<1>2. PICK p \in T : \A y \in T : p <= y
  <2> HIDE DEF T
  <2> QED BY <1>1, FirstIndex
<1>3. \A j \in 1 .. m : j < p => g[j] = j
  BY <1>2
<1>4. PICK r \in 1 .. m : g[r] = p
  BY <1>2
<1>5. r > p
  <2>1. p \in 1 .. m /\ g[p] # p
    BY <1>2
  <2>2. r # p /\ ~(r < p)
    BY <1>3, <1>4, <2>1
  <2> QED BY <2>1, <2>2
<1>6. g[p] < p /\ g[p] \in 1 .. m
  BY <1>4, <1>5, <1>2
<1>7. g[g[p]] = g[p] /\ g[g[p]] < g[p]
  BY <1>3, <1>6, <1>2
<1> QED BY <1>6, <1>7

\* When a filter keeps everything before what it keeps, its result is a prefix.
LEMMA InOrderPrefix ==
  ASSUME NEW n \in Nat, NEW results, DOMAIN results = 1 .. n, NEW K \in SUBSET (1 .. n),
         \A k \in K : \A j \in 1 .. n : j < k => j \in K
  PROVE  InOrder(results, K) = SubSeq(results, 1, Cardinality(K))
<1> DEFINE m == Cardinality(K)
<1>1. m \in Nat /\ m <= n
  BY KeptInOrder
<1>2. K = 1 .. m
  BY DownIs
<1>3. PICK g : Indexes(g, results, K)
  BY KeptInOrder
<1>4. \A p \in 1 .. m : g[p] = p
  <2>1. g \in [1 .. m -> 1 .. m] /\ \A i \in 1 .. m : \E p \in 1 .. m : g[p] = i
    BY <1>2, <1>3, Zenon DEF Indexes
  <2>2. \A j, k \in 1 .. m : j < k => g[j] < g[k]
    BY <1>3 DEF Indexes
  <2> HIDE DEF m
  <2> QED BY <1>1, <2>1, <2>2, IncreasingIs
<1>5. InOrder(results, K) = [p \in 1 .. m |-> results[p]]
  <2>1. InOrder(results, K) = [p \in 1 .. m |-> results[g[p]]]
    BY <1>3 DEF Indexes
  <2> HIDE DEF m
  <2> QED BY <1>4, <2>1
<1>6. SubSeq(results, 1, m) = [p \in 1 .. m |-> results[p]]
  <2> HIDE DEF m
  <2> QED BY <1>1
<1> QED BY <1>5, <1>6

\* FilterKeepsEnough for every result list, threshold and minimum: FilterByScore
\* returns a subsequence with minKeep results when there are that many, and from
\* a sorted list drops none that reaches minScore.
THEOREM ScoreFilterSound ==
  ASSUME NEW R, NEW results \in Seq(R), \A r \in R : r.Score \in Int, NEW minScore \in Int, NEW minKeep \in Nat
  PROVE  FilterKeepsEnough(results, minScore, minKeep)
<1> DEFINE n == Len(results)
           passing == {k \in DOMAIN results : results[k].Score >= minScore}
           res == FilterByScore(results, minScore, minKeep)
<1>0. n \in Nat /\ DOMAIN results = 1 .. n /\ \A k \in 1 .. n : results[k].Score \in Int
  OBVIOUS
<1>1. passing \in SUBSET (1 .. n)
  BY <1>0
<1> HIDE DEF n
<1> SUFFICES /\ Len(res) >= minKeep \/ res = results
             /\ Subsequence(res, results)
             /\ Sorted(results) => /\ Len(res) <= Len(results) /\ res = SubSeq(results, 1, Len(res))
                                   /\ \A k \in DOMAIN results : results[k].Score >= minScore => k <= Len(res)
  BY DEF FilterKeepsEnough
<1>91. res = IF Cardinality(passing) >= minKeep THEN InOrder(results, passing)
            ELSE IF n >= minKeep THEN SubSeq(results, 1, minKeep) ELSE results
  BY DEF FilterByScore, n
<1>92. ASSUME Sorted(results) PROVE passing = 1 .. Cardinality(passing) /\ InOrder(results, passing) = SubSeq(results, 1, Cardinality(passing))
  <2>1. \A k \in passing : \A j \in 1 .. n : j < k => j \in passing
    <3>1. ASSUME NEW k \in passing, NEW j \in 1 .. n, j < k PROVE results[j].Score >= minScore
      <4>1. results[j].Score >= results[k].Score
        BY <1>92, <3>1, <1>0 DEF Sorted
      <4>2. results[k].Score >= minScore /\ k \in 1 .. n
        BY <1>0
      <4> QED BY <4>1, <4>2, <1>0
    <3> QED BY <3>1, <1>0
  <2> HIDE DEF passing
  <2>2. passing = 1 .. Cardinality(passing)
    BY <1>0, <1>1, <2>1, DownIs
  <2>3. InOrder(results, passing) = SubSeq(results, 1, Cardinality(passing))
    BY <1>0, <1>1, <2>1, InOrderPrefix
  <2> QED BY <2>2, <2>3
<1>93. \A k \in DOMAIN results : results[k].Score >= minScore => k \in passing
  OBVIOUS
<1> HIDE DEF passing, res
<1>94. Cardinality(passing) \in Nat /\ Cardinality(passing) <= n
  BY <1>0, <1>1, InOrderIs
<1>95. Len(results) = n
  BY DEF n
<1>71. CASE Cardinality(passing) >= minKeep
  <2>1. res = InOrder(results, passing)
    BY <1>91, <1>71
  <2>2. Len(res) = Cardinality(passing) /\ Subsequence(res, results)
    BY <2>1, <1>0, <1>1, InOrderIs
  <2>3. ASSUME Sorted(results), NEW k \in DOMAIN results, results[k].Score >= minScore PROVE k <= Len(res)
    BY <2>2, <2>3, <1>92, <1>93, <1>94
  <2>4. ASSUME Sorted(results) PROVE Len(res) <= Len(results) /\ res = SubSeq(results, 1, Len(res))
    BY <2>1, <2>2, <2>4, <1>92, <1>94, <1>95
  <2> QED BY <1>71, <2>2, <2>3, <2>4
<1>72. CASE ~(Cardinality(passing) >= minKeep) /\ n >= minKeep
  <2>1. res = SubSeq(results, 1, minKeep)
    BY <1>91, <1>72
  <2>2. Len(res) = minKeep /\ Subsequence(res, results)
    BY <2>1, <1>0, <1>72, PrefixIs
  <2>3. ASSUME Sorted(results), NEW k \in DOMAIN results, results[k].Score >= minScore PROVE k <= Len(res)
    BY <2>2, <2>3, <1>92, <1>93, <1>94, <1>72, <1>0
  <2> QED BY <1>72, <2>1, <2>2, <2>3, <1>95
<1>73. CASE ~(Cardinality(passing) >= minKeep) /\ ~(n >= minKeep)
  <2>1. res = results
    BY <1>91, <1>73
  <2>2. results = SubSeq(results, 1, n)
    BY DEF n
  <2>3. Subsequence(SubSeq(results, 1, n), results)
    BY <1>0, PrefixIs
  <2>4. Subsequence(results, results)
    BY <2>2, <2>3, Zenon
  <2> QED BY <2>1, <2>2, <2>4, <1>95, <1>0
<1> QED BY <1>71, <1>72, <1>73

------------------------------------------------------------------------------
\* DedupByDomain.

\* The loop of DedupByDomain, index by index.
DomainLoop(h, results, n, maxPerDomain, threshold) ==
    /\ h \in [0 .. n -> SUBSET (1 .. n)]
    /\ h[0] = {}
    /\ \A k \in 1 .. n :
         h[k] = IF results[k].domain # "none"
                     /\ (High(results[k], threshold)
                          \/ Cardinality({j \in h[k - 1] : results[j].domain = results[k].domain}) < maxPerDomain)
                THEN h[k - 1] \cup {k} ELSE h[k - 1]

\* DedupByDomain's kept indices are the end of its loop.
LEMMA KeptSteps ==
  ASSUME NEW R, NEW results \in Seq(R), NEW maxPerDomain, NEW threshold
  PROVE  \E h : DomainLoop(h, results, Len(results), maxPerDomain, threshold)
                /\ KeptByDomain(results, maxPerDomain, threshold) = h[Len(results)]
<1> DEFINE N == Len(results)
           X == SUBSET (1 .. N)
           x0 == {}
           used(K, d) == Cardinality({j \in K : results[j].domain = d})
           e(k, K) == IF results[k].domain # "none"
                           /\ (High(results[k], threshold) \/ used(K, results[k].domain) < maxPerDomain)
                      THEN K \cup {k} ELSE K
           step == [p \in (1 .. N) \X X |-> e(p[1], p[2])]
           body(f) == [k \in 0 .. Len(results) |-> IF k = 0 THEN {} ELSE e(k, f[k - 1])]
           h == CHOOSE g : g = body(g)
<1>0. N \in Nat /\ x0 \in X
  OBVIOUS
<1>1. \A k \in 1 .. N : \A x \in X : e(k, x) \in X
  <2>1. ASSUME NEW k \in 1 .. N, NEW x \in X PROVE x \cup {k} \in X /\ x \in X
    OBVIOUS
  <2> HIDE DEF X
  <2> QED BY <2>1
<1>2. step \in [(1 .. N) \X X -> X]
  <2> HIDE DEF e, X, N
  <2> QED BY <1>1
<1>3. PICK f : Iteration(f, N, X, x0, step)
  <2> HIDE DEF N, X, x0, step
  <2> QED BY <1>0, <1>2, IterExists
<1>4. f = body(f)
  <2>1. ASSUME NEW k \in 0 .. N PROVE f[k] = IF k = 0 THEN {} ELSE e(k, f[k - 1])
    <3>1. CASE k = 0
      BY <3>1, <1>3 DEF Iteration
    <3>2. CASE k \in 1 .. N
      <4> HIDE DEF e, X, N, x0
      <4>1. f[k - 1] \in X /\ f[k] = step[<<k, f[k - 1]>>]
        BY <3>2, <1>3 DEF Iteration
      <4>2. step[<<k, f[k - 1]>>] = e(k, f[k - 1])
        BY <3>2, <4>1
      <4> QED BY <4>1, <4>2, <3>2, <1>0
    <3> QED BY <3>1, <3>2
  <2>2. f \in [0 .. N -> X]
    BY <1>3 DEF Iteration
  <2> HIDE DEF e, X
  <2> QED BY <2>1, <2>2
<1>5. KeptByDomain(results, maxPerDomain, threshold) = h[N]
  BY DEF KeptByDomain
<1>6. h = body(h)
  <2> HIDE DEF body
  <2> QED BY <1>4
<1> HIDE DEF h
<1>7. h[0] = {} /\ \A k \in 1 .. N : h[k] = e(k, h[k - 1])
  <2> HIDE DEF e
  <2> DEFINE b == body(h)
  <2>1. b[0] = {} /\ \A k \in 1 .. N : b[k] = e(k, h[k - 1])
    <3>1. \A k \in 0 .. N : b[k] = IF k = 0 THEN {} ELSE e(k, h[k - 1])
      OBVIOUS
    <3> HIDE DEF b
    <3> QED BY <3>1, <1>0
  <2> HIDE DEF b
  <2>2. h = b
    BY <1>6 DEF b
  <2> QED BY <2>1, <2>2
<1> DEFINE P == {k \in 0 .. N : h[k] \in X}
<1>8. \A k \in 0 .. N : k \in P
  <2>1. 0 \in P
    BY <1>0, <1>7
  <2>2. ASSUME NEW k \in 1 .. N, k - 1 \in P PROVE k \in P
    <3>1. k - 1 \in 0 .. N /\ k \in 0 .. N /\ h[k - 1] \in X
      BY <2>2
    <3> HIDE DEF e, X
    <3>2. h[k] \in X
      BY <3>1, <1>7, <1>1
    <3> QED BY <3>1, <3>2
  <2> HIDE DEF P, N
  <2> QED BY <2>1, <2>2, <1>0, Upto
<1>9. h \in [0 .. N -> X]
  <2>1. \A k \in 0 .. N : h[k] \in X
    BY <1>8
  <2>2. h = [k \in 0 .. N |-> h[k]]
    <3> HIDE DEF e
    <3> QED BY <1>6
  <2> HIDE DEF N, X
  <2> QED BY <2>1, <2>2
<1>10. DomainLoop(h, results, N, maxPerDomain, threshold)
  BY <1>7, <1>9 DEF DomainLoop
<1> HIDE DEF N
<1> QED BY <1>5, <1>10 DEF N

\* What the loop has kept by index k is what it keeps in the end up to k.
LEMMA KeptStays ==
  ASSUME NEW n \in Nat, NEW results, NEW maxPerDomain, NEW threshold, NEW h, DomainLoop(h, results, n, maxPerDomain, threshold)
  PROVE  \A k \in 0 .. n : h[k] = h[n] \cap (1 .. k)
<1>1. \A k \in 1 .. n : h[k] = h[k - 1] \/ h[k] = h[k - 1] \cup {k}
  BY DEF DomainLoop
<1>2. \A k \in 0 .. n : h[k] \in SUBSET (1 .. n)
  BY DEF DomainLoop
<1>3. h[0] = {}
  BY DEF DomainLoop
<1> DEFINE P == {k \in 0 .. n : h[k] \subseteq 1 .. k}
           Q == {k \in 0 .. n : \A j \in 0 .. k : h[j] = h[k] \cap (1 .. j)}
<1>4. \A k \in 0 .. n : k \in P
  <2>1. 0 \in P
    BY <1>3
  <2>2. ASSUME NEW k \in 1 .. n, k - 1 \in P PROVE k \in P
    <3>1. h[k - 1] \subseteq 1 .. (k - 1)
      BY <2>2
    <3>2. 1 .. (k - 1) \subseteq 1 .. k /\ k \in 1 .. k
      OBVIOUS
    <3> QED BY <3>1, <3>2, <1>1
  <2> HIDE DEF P
  <2> QED BY <2>1, <2>2, Upto
<1>5. 0 \in Q
  BY <1>3
<1>6. ASSUME NEW k \in 1 .. n, k - 1 \in Q PROVE k \in Q
  <2>1. ASSUME NEW j \in 0 .. k PROVE h[j] = h[k] \cap (1 .. j)
    <3>1. CASE j = k
      <4>1. h[k] \subseteq 1 .. k
        BY <1>4
      <4> QED BY <4>1, <3>1
    <3>2. CASE j \in 0 .. (k - 1)
      <4>1. h[j] = h[k - 1] \cap (1 .. j)
        BY <1>6, <3>2
      <4>2. k \notin 1 .. j
        BY <3>2
      <4> QED BY <4>1, <4>2, <1>1
    <3> QED BY <3>1, <3>2
  <2> QED BY <2>1
<1>7. \A k \in 0 .. n : k \in Q
  <2> HIDE DEF Q
  <2> QED BY <1>5, <1>6, Upto
<1> QED BY <1>7

\* DomainsLimited for every result list and limit: DedupByDomain drops a result
\* exactly when it has no domain or is below the threshold behind maxPerDomain
\* kept ones of its domain, and loses no domain.
THEOREM DomainFilterSound ==
  ASSUME NEW R, NEW results \in Seq(R), NEW maxPerDomain \in Nat \ {0}, NEW threshold
  PROVE  DomainsLimited(results, maxPerDomain, threshold)
<1> DEFINE n == Len(results)
           kept == KeptByDomain(results, maxPerDomain, threshold)
           res == DedupByDomain(results, maxPerDomain, threshold)
           prior(k) == {j \in kept : j < k /\ results[j].domain = results[k].domain}
           dom(k) == results[k].domain
<1>0. n \in Nat /\ DOMAIN results = 1 .. n
  OBVIOUS
<1>1. PICK h : DomainLoop(h, results, n, maxPerDomain, threshold) /\ kept = h[n]
  BY KeptSteps
<1>2. kept \in SUBSET (1 .. n)
  BY <1>0, <1>1 DEF DomainLoop
<1> HIDE DEF n, kept
<1>3. ASSUME NEW k \in 1 .. n
      PROVE  k \in kept <=> results[k].domain # "none"
                              /\ (High(results[k], threshold) \/ Cardinality(prior(k)) < maxPerDomain)
  <2>1. k \in 0 .. n /\ k - 1 \in 0 .. n /\ k \in 1 .. k /\ k \notin 1 .. (k - 1)
    BY <1>0
  <2>2. h[k] = kept \cap (1 .. k) /\ h[k - 1] = kept \cap (1 .. (k - 1))
    <3>1. \A i \in 0 .. n : h[i] = h[n] \cap (1 .. i)
      BY <1>0, <1>1, KeptStays
    <3> QED BY <1>1, <2>1, <3>1
  <2>3. {j \in h[k - 1] : results[j].domain = results[k].domain} = prior(k)
    <3>1. \A j \in kept : j \in 1 .. (k - 1) <=> j < k
      BY <1>2, <1>0
    <3>2. \A j : j \in h[k - 1] <=> j \in kept /\ j < k
      BY <2>2, <3>1
    <3> QED BY <3>2, Zenon
  <2>4. h[k] = IF results[k].domain # "none"
                     /\ (High(results[k], threshold)
                          \/ Cardinality({j \in h[k - 1] : results[j].domain = results[k].domain}) < maxPerDomain)
                THEN h[k - 1] \cup {k} ELSE h[k - 1]
    BY <1>1 DEF DomainLoop
  <2>5. k \in kept <=> k \in h[k]
    BY <2>1, <2>2
  <2>6. k \notin h[k - 1]
    BY <2>1, <2>2
  <2> HIDE DEF prior
  <2> QED BY <2>3, <2>4, <2>5, <2>6
<1>4. res = InOrder(results, kept)
  BY DEF DedupByDomain, kept
<1>5. Subsequence(res, results)
  BY <1>0, <1>2, <1>4, InOrderIs
<1>6. PICK g : Indexes(g, results, kept)
  BY <1>0, <1>2, KeptInOrder
<1>7. Range(res) = {results[k] : k \in kept}
  <2>1. res = [p \in 1 .. Cardinality(kept) |-> results[g[p]]]
    BY <1>4, <1>6 DEF Indexes
  <2>2. \A p \in 1 .. Cardinality(kept) : g[p] \in kept
    BY <1>6 DEF Indexes
  <2>3. \A i \in kept : \E p \in 1 .. Cardinality(kept) : g[p] = i
    BY <1>6 DEF Indexes
  <2>4. Range(res) = {results[g[p]] : p \in 1 .. Cardinality(kept)}
    BY <2>1 DEF Range
  <2> HIDE DEF res
  <2> QED BY <2>2, <2>3, <2>4, Zenon
<1>8. ASSUME NEW i \in 1 .. n, dom(i) # "none" PROVE \E k \in kept : dom(k) = dom(i)
  <2> DEFINE T == {k \in 1 .. n : dom(k) = dom(i)}
  <2>1. T \in SUBSET Nat /\ T # {}
    BY <1>0
  <2>2. PICK x \in T : \A y \in T : x <= y
    <3> HIDE DEF T
    <3> QED BY <2>1, FirstIndex
  <2>3. x \in 1 .. n /\ dom(x) = dom(i)
    OBVIOUS
  <2>4. prior(x) = {}
    <3>1. ASSUME NEW j \in kept, j < x, dom(j) = dom(x) PROVE FALSE
      <4>1. j \in 1 .. n /\ j \in T
        BY <1>2, <2>3, <3>1
      <4> QED BY <2>2, <3>1, <4>1, <2>3, <1>0
    <3> QED BY <3>1
  <2>5. Cardinality(prior(x)) = 0
    BY <2>4, FS_EmptySet
  <2>6. Cardinality(prior(x)) < maxPerDomain
    <3> HIDE DEF prior
    <3> QED BY <2>5
  <2>7. x \in kept
    <3> HIDE DEF prior
    <3> QED BY <1>3, <2>3, <2>6, <1>8
  <2> QED BY <2>3, <2>7
<1>9. \A k \in kept : dom(k) # "none" /\ k \in 1 .. n
  BY <1>2, <1>3
<1>10. {r.domain : r \in Range(results)} = {dom(k) : k \in 1 .. n}
  BY <1>0 DEF Range
<1>11. {r.domain : r \in Range(res)} = {dom(k) : k \in kept}
  <2> HIDE DEF res
  <2> QED BY <1>7
<1>12. {r.domain : r \in Range(results)} \ {"none"} = {r.domain : r \in Range(res)}
  <2>1. {dom(k) : k \in 1 .. n} \ {"none"} = {dom(k) : k \in kept}
    <3> HIDE DEF dom
    <3> QED BY <1>8, <1>9, Zenon
  <2> HIDE DEF res, dom
  <2> QED BY <2>1, <1>10, <1>11
<1> QED BY <1>3, <1>5, <1>12, <1>0 DEF DomainsLimited, kept

------------------------------------------------------------------------------
\* DedupSnippets: one comparison.

\* A bag of words: how often each of finitely many words occurs.
BagOfWords(a) == IsFiniteSet(DOMAIN a) /\ \A w \in DOMAIN a : a[w] \in Nat

\* The cosine of two term vectors does not depend on their order: markDuplicates
\* may compare each pair once.
LEMMA SimilarSymmetric ==
  ASSUME NEW a, BagOfWords(a), NEW b, BagOfWords(b), NEW p \in Nat, NEW q \in Nat
  PROVE  Similar(a, b, p, q) <=> Similar(b, a, p, q)
<1> DEFINE ab == [w \in (DOMAIN a) \cap (DOMAIN b) |-> a[w] * b[w]]
           ba == [w \in (DOMAIN b) \cap (DOMAIN a) |-> b[w] * a[w]]
           na == SumFunction([w \in DOMAIN a |-> a[w] * a[w]])
           nb == SumFunction([w \in DOMAIN b |-> b[w] * b[w]])
           dot == SumFunction(ab)
<1>1. \A w \in (DOMAIN a) \cap (DOMAIN b) : a[w] * b[w] = b[w] * a[w]
  BY DEF BagOfWords
<1>2. ab = ba
  <2>1. (DOMAIN a) \cap (DOMAIN b) = (DOMAIN b) \cap (DOMAIN a)
    OBVIOUS
  <2> QED BY <1>1, <2>1
<1>3. ASSUME NEW c, BagOfWords(c) PROVE SumFunction([w \in DOMAIN c |-> c[w] * c[w]]) \in Int
  <2> DEFINE f == [w \in DOMAIN c |-> c[w] * c[w]]
  <2>1. DOMAIN f = DOMAIN c /\ \A w \in DOMAIN c : f[w] \in Int
    BY <1>3 DEF BagOfWords
  <2> HIDE DEF f
  <2>2. SumFunctionOnSet(f, DOMAIN f) \in Int
    BY <1>3, <2>1, SumInt DEF BagOfWords
  <2>3. SumFunction(f) = SumFunctionOnSet(f, DOMAIN f)
    BY DEF SumFunction, SumFunctionOnSet, FoldFunction
  <2> QED BY <2>2, <2>3 DEF f
<1>4. na \in Int /\ nb \in Int
  BY <1>3
<1>5. Similar(a, b, p, q) <=> q * q * dot * dot > p * p * na * nb
  BY DEF Similar
<1>6. Similar(b, a, p, q) <=> q * q * dot * dot > p * p * nb * na
  <2>1. Similar(b, a, p, q) <=> q * q * SumFunction(ba) * SumFunction(ba) > p * p * nb * na
    BY DEF Similar
  <2> HIDE DEF ab, ba
  <2> QED BY <2>1, <1>2
<1> HIDE DEF dot, na, nb
<1>7. p * p * na * nb = p * p * nb * na
  <2> DEFINE z == p * p
  <2>1. z \in Int
    OBVIOUS
  <2> HIDE DEF z
  <2>2. z * na * nb = z * nb * na
    BY <2>1, <1>4
  <2> QED BY <2>2 DEF z
<1> QED BY <1>5, <1>6, <1>7

\* Results with integer scores and finitely many words each.
Snippets(R) == \A r \in R : r.Score \in Int /\ BagOfWords(r.Content)

\* The contents of results i and j exceed the similarity threshold.
Near(results, p, q, i, j) == Similar(results[i].Content, results[j].Content, p, q)

\* C holds, with a result, all that may supersede it.
ClosedUp(results, p, q, C) ==
    \A i \in C, j \in DOMAIN results :
        i # j /\ Near(results, p, q, i, j) /\ results[j].Score >= results[i].Score => j \in C

\* The pairs <<a, b>> that markDuplicates has compared once its loops have
\* done j in round i.
Compared(i, j, a, b) == a < b /\ (a < i \/ (a = i /\ b <= j))

\* The invariant of the two loops of markDuplicates.
LoopInv(results, p, q, removed, i, j) ==
    /\ removed \in SUBSET (DOMAIN results)
    /\ \A C \in SUBSET (DOMAIN results) : C # {} /\ ClosedUp(results, p, q, C) => C \ removed # {}
    /\ \A a, b \in DOMAIN results :
         Compared(i, j, a, b) /\ Near(results, p, q, a, b) => a \in removed \/ b \in removed

\* One comparison of markDuplicates keeps the invariant of its loops.
LEMMA CompareStep ==
  ASSUME NEW R, NEW results \in Seq(R), Snippets(R), NEW p \in Nat, NEW q \in Nat,
         NEW i \in 1 .. Len(results), NEW j \in 1 .. Len(results), NEW removed, LoopInv(results, p, q, removed, i, j - 1)
  PROVE  LoopInv(results, p, q, Compare(results, p, q, removed, i, j), i, j)
<1> DEFINE n == Len(results)
           near(a, b) == Near(results, p, q, a, b)
           hit == i < j /\ i \notin removed /\ j \notin removed /\ near(i, j)
           x == IF results[i].Score >= results[j].Score THEN j ELSE i
           y == IF results[i].Score >= results[j].Score THEN i ELSE j
           rem == Compare(results, p, q, removed, i, j)
<1>0. n \in Nat /\ DOMAIN results = 1 .. n /\ \A k \in 1 .. n : results[k] \in R
  OBVIOUS
<1>1. rem = IF hit THEN removed \cup {x} ELSE removed
  BY DEF Compare, Near
<1>2. near(j, i) <=> near(i, j)
  BY <1>0, SimilarSymmetric DEF Near, Snippets
<1>3. results[i].Score \in Int /\ results[j].Score \in Int
  BY <1>0 DEF Snippets
<1> HIDE DEF near, rem
<1>4. ASSUME hit PROVE /\ x \in 1 .. n /\ y \in 1 .. n /\ x # y /\ y \notin removed
                       /\ near(x, y) /\ results[y].Score >= results[x].Score
  BY <1>4, <1>0, <1>2, <1>3
<1>5. ASSUME NEW a \in 1 .. n, NEW b \in 1 .. n, Compared(i, j, a, b)
      PROVE  Compared(i, j - 1, a, b) \/ (a = i /\ b = j)
  BY <1>5, <1>0 DEF Compared
<1>6. rem \in SUBSET (1 .. n)
  <2>1. removed \in SUBSET (1 .. n)
    BY <1>0 DEF LoopInv
  <2> HIDE DEF x, y, hit
  <2> QED BY <2>1, <1>1, <1>4
<1>7. ASSUME NEW C \in SUBSET (1 .. n), C # {}, ClosedUp(results, p, q, C) PROVE C \ rem # {}
  <2>1. C \ removed # {}
    BY <1>0, <1>7 DEF LoopInv
  <2>2. CASE hit
    <3>1. x \in C => y \in C
      <4> HIDE DEF x, y, hit
      <4> QED BY <1>0, <1>4, <1>7, <2>2 DEF ClosedUp, near
    <3>2. rem = removed \cup {x}
      BY <1>1, <2>2
    <3> HIDE DEF x, y, hit
    <3> QED BY <2>1, <3>1, <3>2, <1>4, <2>2
  <2>3. CASE ~hit
    <3> HIDE DEF hit
    <3> QED BY <2>1, <2>3, <1>1
  <2> QED BY <2>2, <2>3
<1>8. ASSUME NEW a \in 1 .. n, NEW b \in 1 .. n, Compared(i, j, a, b), near(a, b) PROVE a \in rem \/ b \in rem
  <2>1. CASE Compared(i, j - 1, a, b)
    <3>1. a \in removed \/ b \in removed
      BY <2>1, <1>0, <1>8 DEF LoopInv, near
    <3> HIDE DEF hit, x
    <3> QED BY <3>1, <1>1
  <2>2. CASE a = i /\ b = j
    <3>1. i < j
      BY <1>8, <2>2 DEF Compared
    <3> QED BY <1>1, <1>8, <2>2, <3>1
  <2> QED BY <1>5, <1>8, <2>1, <2>2
<1> QED BY <1>0, <1>6, <1>7, <1>8 DEF LoopInv, near, rem

------------------------------------------------------------------------------
\* DedupSnippets: the loops of markDuplicates.

\* A comparison removes indices of results.
LEMMA CompareType ==
  ASSUME NEW n \in Nat, NEW results, NEW p, NEW q, NEW removed \in SUBSET (1 .. n), NEW i \in 1 .. n, NEW j \in 1 .. n
  PROVE  Compare(results, p, q, removed, i, j) \in SUBSET (1 .. n)
<1>1. removed \cup {j} \in SUBSET (1 .. n) /\ removed \cup {i} \in SUBSET (1 .. n)
  OBVIOUS
<1> DEFINE near == Similar(results[i].Content, results[j].Content, p, q)
<1>2. Compare(results, p, q, removed, i, j) \in {removed, removed \cup {j}, removed \cup {i}}
  <2>1. CASE i < j /\ i \notin removed /\ j \notin removed /\ near
    <3>1. Compare(results, p, q, removed, i, j) = removed \cup {IF results[i].Score >= results[j].Score THEN j ELSE i}
      BY <2>1 DEF Compare
    <3>2. CASE results[i].Score >= results[j].Score
      BY <3>1, <3>2
    <3>3. CASE ~(results[i].Score >= results[j].Score)
      BY <3>1, <3>3
    <3> QED BY <3>2, <3>3
  <2>2. CASE ~(i < j /\ i \notin removed /\ j \notin removed /\ near)
    BY <2>2 DEF Compare
  <2> QED BY <2>1, <2>2
<1> QED BY <1>1, <1>2

\* The inner loop compares i with every later result.
LEMMA CompareAllSound ==
  ASSUME NEW R, NEW results \in Seq(R), Snippets(R), NEW p \in Nat, NEW q \in Nat,
         NEW i \in 1 .. Len(results), NEW removed, LoopInv(results, p, q, removed, i, 0)
  PROVE  LoopInv(results, p, q, CompareAll(results, p, q, removed, i), i, Len(results))
<1> DEFINE N == Len(results)
           X == SUBSET (1 .. N)
           x0 == removed
           e(k, K) == Compare(results, p, q, K, i, k)
           step == [c \in (1 .. N) \X X |-> e(c[1], c[2])]
           body(f) == [k \in 0 .. Len(results) |-> IF k = 0 THEN removed ELSE e(k, f[k - 1])]
           h == CHOOSE g : g = body(g)
<1>0. N \in Nat /\ DOMAIN results = 1 .. N /\ x0 \in X
  BY DEF LoopInv
<1>1. \A k \in 1 .. N : \A x \in X : e(k, x) \in X
  <2>1. ASSUME NEW k \in 1 .. N, NEW x \in X PROVE e(k, x) \in X
    <3>1. i \in 1 .. N
      OBVIOUS
    <3> HIDE DEF N
    <3> QED BY <1>0, <3>1, CompareType
  <2> HIDE DEF X, N, e
  <2> QED BY <2>1
<1>2. step \in [(1 .. N) \X X -> X]
  <2> HIDE DEF e, X, N
  <2> QED BY <1>1
<1>3. PICK f : Iteration(f, N, X, x0, step)
  <2> HIDE DEF N, X, x0, step
  <2> QED BY <1>0, <1>2, IterExists
<1>4. f = body(f)
  <2>1. ASSUME NEW k \in 0 .. N PROVE f[k] = IF k = 0 THEN removed ELSE e(k, f[k - 1])
    <3>1. CASE k = 0
      BY <3>1, <1>3 DEF Iteration
    <3>2. CASE k \in 1 .. N
      <4> HIDE DEF e, X, N, x0
      <4>1. f[k - 1] \in X /\ f[k] = step[<<k, f[k - 1]>>]
        BY <3>2, <1>3 DEF Iteration
      <4>2. step[<<k, f[k - 1]>>] = e(k, f[k - 1])
        BY <3>2, <4>1
      <4> QED BY <4>1, <4>2, <3>2, <1>0
    <3> QED BY <3>1, <3>2
  <2>2. f \in [0 .. N -> X]
    BY <1>3 DEF Iteration
  <2> HIDE DEF e, X
  <2> QED BY <2>1, <2>2
<1>5. CompareAll(results, p, q, removed, i) = h[N]
  BY DEF CompareAll
<1>6. h = body(h)
  <2> HIDE DEF body
  <2> QED BY <1>4
<1> HIDE DEF h
<1>7. h[0] = removed /\ \A k \in 1 .. N : h[k] = e(k, h[k - 1])
  <2> HIDE DEF e
  <2> DEFINE b == body(h)
  <2>1. b[0] = removed /\ \A k \in 1 .. N : b[k] = e(k, h[k - 1])
    <3>1. \A k \in 0 .. N : b[k] = IF k = 0 THEN removed ELSE e(k, h[k - 1])
      OBVIOUS
    <3> HIDE DEF b
    <3> QED BY <3>1, <1>0
  <2> HIDE DEF b
  <2>2. h = b
    BY <1>6 DEF b
  <2> QED BY <2>1, <2>2
<1> DEFINE P == {k \in 0 .. N : LoopInv(results, p, q, h[k], i, k)}
<1>8. \A k \in 0 .. N : k \in P
  <2>1. 0 \in P
    BY <1>0, <1>7
  <2>2. ASSUME NEW k \in 1 .. N, k - 1 \in P PROVE k \in P
    <3>1. LoopInv(results, p, q, h[k - 1], i, k - 1)
      BY <2>2
    <3>2. h[k] = Compare(results, p, q, h[k - 1], i, k)
      BY <1>7
    <3>3. LoopInv(results, p, q, h[k], i, k)
      BY <3>1, <3>2, CompareStep
    <3> QED BY <3>3, <1>0
  <2> HIDE DEF P, N
  <2> QED BY <2>1, <2>2, <1>0, Upto
<1>9. LoopInv(results, p, q, h[N], i, N)
  <2> HIDE DEF N
  <2> QED BY <1>0, <1>8
<1> QED BY <1>5, <1>9

\* The inner loop removes indices of results.
LEMMA CompareAllType ==
  ASSUME NEW R, NEW results \in Seq(R), NEW p, NEW q, NEW removed \in SUBSET (1 .. Len(results)), NEW i \in 1 .. Len(results)
  PROVE  CompareAll(results, p, q, removed, i) \in SUBSET (1 .. Len(results))
<1> DEFINE N == Len(results)
           X == SUBSET (1 .. N)
           x0 == removed
           e(k, K) == Compare(results, p, q, K, i, k)
           step == [c \in (1 .. N) \X X |-> e(c[1], c[2])]
           body(f) == [k \in 0 .. Len(results) |-> IF k = 0 THEN removed ELSE e(k, f[k - 1])]
           h == CHOOSE g : g = body(g)
<1>0. N \in Nat /\ DOMAIN results = 1 .. N /\ x0 \in X
  OBVIOUS
<1>1. \A k \in 1 .. N : \A x \in X : e(k, x) \in X
  <2>1. ASSUME NEW k \in 1 .. N, NEW x \in X PROVE e(k, x) \in X
    <3>1. i \in 1 .. N
      OBVIOUS
    <3> HIDE DEF N
    <3> QED BY <1>0, <3>1, CompareType
  <2> HIDE DEF X, N, e
  <2> QED BY <2>1
<1>2. step \in [(1 .. N) \X X -> X]
  <2> HIDE DEF e, X, N
  <2> QED BY <1>1
<1>3. PICK f : Iteration(f, N, X, x0, step)
  <2> HIDE DEF N, X, x0, step
  <2> QED BY <1>0, <1>2, IterExists
<1>4. f = body(f)
  <2>1. ASSUME NEW k \in 0 .. N PROVE f[k] = IF k = 0 THEN removed ELSE e(k, f[k - 1])
    <3>1. CASE k = 0
      BY <3>1, <1>3 DEF Iteration
    <3>2. CASE k \in 1 .. N
      <4> HIDE DEF e, X, N, x0
      <4>1. f[k - 1] \in X /\ f[k] = step[<<k, f[k - 1]>>]
        BY <3>2, <1>3 DEF Iteration
      <4>2. step[<<k, f[k - 1]>>] = e(k, f[k - 1])
        BY <3>2, <4>1
      <4> QED BY <4>1, <4>2, <3>2, <1>0
    <3> QED BY <3>1, <3>2
  <2>2. f \in [0 .. N -> X]
    BY <1>3 DEF Iteration
  <2> HIDE DEF e, X
  <2> QED BY <2>1, <2>2
<1>5. CompareAll(results, p, q, removed, i) = h[N]
  BY DEF CompareAll
<1>6. h = body(h)
  <2> HIDE DEF body
  <2> QED BY <1>4
<1> HIDE DEF h
<1>7. h[0] = removed /\ \A k \in 1 .. N : h[k] = e(k, h[k - 1])
  <2> HIDE DEF e
  <2> DEFINE b == body(h)
  <2>1. b[0] = removed /\ \A k \in 1 .. N : b[k] = e(k, h[k - 1])
    <3>1. \A k \in 0 .. N : b[k] = IF k = 0 THEN removed ELSE e(k, h[k - 1])
      OBVIOUS
    <3> HIDE DEF b
    <3> QED BY <3>1, <1>0
  <2> HIDE DEF b
  <2>2. h = b
    BY <1>6 DEF b
  <2> QED BY <2>1, <2>2
<1> DEFINE P == {k \in 0 .. N : h[k] \in X}
<1>8. \A k \in 0 .. N : k \in P
  <2>1. 0 \in P
    <3>1. h[0] \in X /\ 0 \in 0 .. N
      BY <1>0, <1>7
    <3> QED BY <3>1
  <2>2. ASSUME NEW k \in 1 .. N, k - 1 \in P PROVE k \in P
    <3>1. k - 1 \in 0 .. N /\ k \in 0 .. N /\ h[k - 1] \in X
      BY <2>2
    <3> HIDE DEF e, X
    <3>2. h[k] \in X
      BY <3>1, <1>7, <1>1
    <3> QED BY <3>1, <3>2
  <2> HIDE DEF P, N
  <2> QED BY <2>1, <2>2, <1>0, Upto
<1>9. h[N] \in X
  <2> HIDE DEF N, X
  <2> QED BY <1>0, <1>8
<1> QED BY <1>5, <1>9

\* Before round i + 1 nothing more has been compared than after round i.
LEMMA NextRound ==
  ASSUME NEW R, NEW results \in Seq(R), NEW p, NEW q, NEW i \in 1 .. Len(results), NEW removed,
         LoopInv(results, p, q, removed, i - 1, Len(results))
  PROVE  LoopInv(results, p, q, removed, i, 0)
<1>1. \A a, b \in DOMAIN results : Compared(i, 0, a, b) => Compared(i - 1, Len(results), a, b)
  BY DEF Compared
<1> QED BY <1>1 DEF LoopInv

\* Both loops of markDuplicates done, every pair of near-duplicates has lost a
\* member and every set of results closed under what may supersede them has one
\* left.
LEMMA MarkedSound ==
  ASSUME NEW R, NEW results \in Seq(R), Snippets(R), NEW p \in Nat, NEW q \in Nat
  PROVE  LoopInv(results, p, q, markDuplicates(results, p, q), Len(results), Len(results))
<1> DEFINE N == Len(results)
           X == SUBSET (1 .. N)
           x0 == {}
           e(k, K) == CompareAll(results, p, q, K, k)
           step == [c \in (1 .. N) \X X |-> e(c[1], c[2])]
           body(f) == [k \in 0 .. Len(results) |-> IF k = 0 THEN {} ELSE e(k, f[k - 1])]
           h == CHOOSE g : g = body(g)
<1>0. N \in Nat /\ DOMAIN results = 1 .. N /\ x0 \in X
  BY DEF LoopInv
<1>1. \A k \in 1 .. N : \A x \in X : e(k, x) \in X
  <2>1. ASSUME NEW k \in 1 .. N, NEW x \in X PROVE e(k, x) \in X
    <3>1. k \in 1 .. N
      OBVIOUS
    <3> HIDE DEF N
    <3> QED BY <1>0, <3>1, CompareAllType DEF N
  <2> HIDE DEF X, N, e
  <2> QED BY <2>1
<1>2. step \in [(1 .. N) \X X -> X]
  <2> HIDE DEF e, X, N
  <2> QED BY <1>1
<1>3. PICK f : Iteration(f, N, X, x0, step)
  <2> HIDE DEF N, X, x0, step
  <2> QED BY <1>0, <1>2, IterExists
<1>4. f = body(f)
  <2>1. ASSUME NEW k \in 0 .. N PROVE f[k] = IF k = 0 THEN {} ELSE e(k, f[k - 1])
    <3>1. CASE k = 0
      BY <3>1, <1>3 DEF Iteration
    <3>2. CASE k \in 1 .. N
      <4> HIDE DEF e, X, N, x0
      <4>1. f[k - 1] \in X /\ f[k] = step[<<k, f[k - 1]>>]
        BY <3>2, <1>3 DEF Iteration
      <4>2. step[<<k, f[k - 1]>>] = e(k, f[k - 1])
        BY <3>2, <4>1
      <4> QED BY <4>1, <4>2, <3>2, <1>0
    <3> QED BY <3>1, <3>2
  <2>2. f \in [0 .. N -> X]
    BY <1>3 DEF Iteration
  <2> HIDE DEF e, X
  <2> QED BY <2>1, <2>2
<1>5. markDuplicates(results, p, q) = h[N]
  BY DEF markDuplicates
<1>6. h = body(h)
  <2> HIDE DEF body
  <2> QED BY <1>4
<1> HIDE DEF h
<1>7. h[0] = {} /\ \A k \in 1 .. N : h[k] = e(k, h[k - 1])
  <2> HIDE DEF e
  <2> DEFINE b == body(h)
  <2>1. b[0] = {} /\ \A k \in 1 .. N : b[k] = e(k, h[k - 1])
    <3>1. \A k \in 0 .. N : b[k] = IF k = 0 THEN {} ELSE e(k, h[k - 1])
      OBVIOUS
    <3> HIDE DEF b
    <3> QED BY <3>1, <1>0
  <2> HIDE DEF b
  <2>2. h = b
    BY <1>6 DEF b
  <2> QED BY <2>1, <2>2
<1> DEFINE P == {k \in 0 .. N : LoopInv(results, p, q, h[k], k, N)}
<1>8. \A k \in 0 .. N : k \in P
  <2>1. 0 \in P
    <3>1. \A a, b \in DOMAIN results : ~Compared(0, N, a, b)
      BY <1>0 DEF Compared
    <3>2. LoopInv(results, p, q, {}, 0, N)
      BY <3>1 DEF LoopInv
    <3>3. h[0] = {} /\ 0 \in 0 .. N
      BY <1>0, <1>7
    <3> QED BY <3>2, <3>3
  <2>2. ASSUME NEW k \in 1 .. N, k - 1 \in P PROVE k \in P
    <3>1. LoopInv(results, p, q, h[k - 1], k - 1, N)
      BY <2>2
    <3>2. h[k] = CompareAll(results, p, q, h[k - 1], k)
      BY <1>7
    <3>3. LoopInv(results, p, q, h[k - 1], k, 0)
      BY <3>1, NextRound
    <3>4. LoopInv(results, p, q, h[k], k, N)
      BY <3>2, <3>3, CompareAllSound
    <3> QED BY <3>4, <1>0
  <2> HIDE DEF P, N
  <2> QED BY <2>1, <2>2, <1>0, Upto
<1>9. LoopInv(results, p, q, h[N], N, N)
  <2> HIDE DEF N
  <2> QED BY <1>0, <1>8
<1> QED BY <1>5, <1>9

\* DedupSound for every result list and threshold: no two results that
\* DedupSnippets keeps are near-duplicates, and what it removes is linked by
\* near-duplicates of no smaller score to a result it keeps.
THEOREM DedupFilterSound ==
  ASSUME NEW R, NEW results \in Seq(R), Snippets(R), NEW p \in Nat, NEW q \in Nat
  PROVE  DedupSound(results, p, q)
<1> DEFINE n == Len(results)
           gone == markDuplicates(results, p, q)
           kept == (DOMAIN results) \ gone
           res == DedupSnippets(results, p, q)
           near(i, j) == Similar(results[i].Content, results[j].Content, p, q)
           closed(C) == \A i \in C, j \in DOMAIN results :
                          i # j /\ near(i, j) /\ results[j].Score >= results[i].Score => j \in C
<1>0. n \in Nat /\ DOMAIN results = 1 .. n /\ \A k \in 1 .. n : results[k] \in R
  OBVIOUS
<1>1. LoopInv(results, p, q, gone, n, n)
  BY MarkedSound
<1> HIDE DEF gone, n
<1>2. kept \in SUBSET (1 .. n)
  BY <1>0
<1>3. \A i, j \in kept : i < j => ~near(i, j)
  <2>1. ASSUME NEW i \in kept, NEW j \in kept, i < j, near(i, j) PROVE FALSE
    <3>1. Compared(n, n, i, j) /\ Near(results, p, q, i, j)
      BY <1>0, <2>1 DEF Compared, Near
    <3> QED BY <1>0, <1>1, <2>1, <3>1 DEF LoopInv
  <2> QED BY <2>1
<1>4. \A i, j \in kept : i # j => ~near(i, j)
  <2>1. \A i, j \in kept : near(i, j) <=> near(j, i)
    BY <1>0, SimilarSymmetric DEF Snippets
  <2>2. \A i, j \in kept : i # j => i < j \/ j < i
    BY <1>2
  <2> HIDE DEF near, kept
  <2> QED BY <1>3, <2>1, <2>2
<1>5. \A C \in SUBSET (DOMAIN results) : C # {} /\ closed(C) => C \cap kept # {}
  <2>1. ASSUME NEW C \in SUBSET (DOMAIN results), C # {}, closed(C) PROVE C \cap kept # {}
    <3>1. ClosedUp(results, p, q, C)
      BY <2>1 DEF ClosedUp, Near
    <3>2. C \ gone # {}
      BY <1>1, <2>1, <3>1 DEF LoopInv
    <3> QED BY <3>2
  <2> HIDE DEF closed, kept
  <2> QED BY <2>1
<1>6. res = InOrder(results, kept)
  BY DEF DedupSnippets, gone
<1> HIDE DEF kept
<1>7. Subsequence(res, results)
  BY <1>0, <1>2, <1>6, InOrderIs
<1>8. PICK g : Indexes(g, results, kept)
  BY <1>0, <1>2, KeptInOrder
<1>9. \A i, j \in DOMAIN res : i # j => ~Similar(res[i].Content, res[j].Content, p, q)
  <2>1. res = [k \in 1 .. Cardinality(kept) |-> results[g[k]]]
    BY <1>6, <1>8 DEF Indexes
  <2> HIDE DEF res
  <2>2. ASSUME NEW i \in DOMAIN res, NEW j \in DOMAIN res, i # j PROVE ~Similar(res[i].Content, res[j].Content, p, q)
    <3>1. i \in 1 .. Cardinality(kept) /\ j \in 1 .. Cardinality(kept) /\ res[i] = results[g[i]] /\ res[j] = results[g[j]]
      BY <2>1
    <3>2. g[i] \in kept /\ g[j] \in kept /\ g[i] # g[j]
      BY <2>2, <3>1, <1>8 DEF Indexes
    <3>3. ~near(g[i], g[j])
      <4> HIDE DEF near
      <4> QED BY <1>4, <3>2
    <3> QED BY <3>1, <3>3
  <2> QED BY <2>2
<1>10. (\A i, j \in DOMAIN res : i # j => ~Similar(res[i].Content, res[j].Content, p, q))
       /\ (\A C \in SUBSET (DOMAIN results) : C # {} /\ closed(C) => C \cap kept # {}) /\ Subsequence(res, results)
  BY <1>5, <1>7, <1>9
<1> QED BY <1>10 DEF DedupSound, kept, gone

------------------------------------------------------------------------------
\* FuseWRR: URLs in the order they are first seen.

\* The image of a finite set is finite and no larger.
LEMMA ImageFinite ==
  ASSUME NEW S, IsFiniteSet(S), NEW b
  PROVE  IsFiniteSet({b[x] : x \in S}) /\ Cardinality({b[x] : x \in S}) <= Cardinality(S)
<1> DEFINE h == [x \in S |-> b[x]]
<1>1. h \in Surjection(S, {b[x] : x \in S})
  BY DEF Surjection
<1> HIDE DEF h
<1> QED BY <1>1, FS_Surjection

\* The entries of result sets: pairs of a set and a rank, finitely many.
LEMMA EntriesAre ==
  ASSUME NEW U, NEW sets \in Seq(Seq(U))
  PROVE  /\ IsFiniteSet(Entries(sets))
         /\ \A e : e \in Entries(sets) <=> \E i \in DOMAIN sets : \E r \in DOMAIN sets[i] : e = <<i, r>>
         /\ \A e \in Entries(sets) : /\ e = <<e[1], e[2]>> /\ e[1] \in DOMAIN sets /\ e[2] \in DOMAIN sets[e[1]]
                                     /\ e[1] \in Nat \ {0} /\ e[2] \in Nat \ {0}
<1> DEFINE n == Len(sets)
           b == [i \in 1 .. n |-> {i} \X DOMAIN sets[i]]
<1>0. n \in Nat /\ DOMAIN sets = 1 .. n
  OBVIOUS
<1>1. Entries(sets) = UNION {b[i] : i \in 1 .. n}
  BY <1>0 DEF Entries
<1>2. ASSUME NEW i \in 1 .. n PROVE IsFiniteSet(b[i])
  <2>1. sets[i] \in Seq(U)
    BY <1>0
  <2>2. Len(sets[i]) \in Nat /\ DOMAIN sets[i] = 1 .. Len(sets[i])
    BY <2>1
  <2>3. IsFiniteSet(DOMAIN sets[i])
    BY <2>2, FS_Interval
  <2>4. IsFiniteSet({i})
    BY FS_Singleton
  <2>5. b[i] = {i} \X DOMAIN sets[i]
    OBVIOUS
  <2> QED BY <2>3, <2>4, <2>5, FS_Product
<1>3. IsFiniteSet(1 .. n)
  BY <1>0, FS_Interval
<1>4. IsFiniteSet(Entries(sets))
  <2> HIDE DEF b, n
  <2>1. IsFiniteSet({b[i] : i \in 1 .. n})
    BY <1>3, ImageFinite
  <2>2. \A T \in {b[i] : i \in 1 .. n} : IsFiniteSet(T)
    BY <1>2
  <2> QED BY <1>1, <2>1, <2>2, FS_UNION
<1>5. ASSUME NEW e PROVE e \in Entries(sets) <=> \E i \in DOMAIN sets : \E r \in DOMAIN sets[i] : e = <<i, r>>
  <2>1. \A i : e \in {i} \X DOMAIN sets[i] <=> \E r \in DOMAIN sets[i] : e = <<i, r>>
    OBVIOUS
  <2>2. e \in Entries(sets) <=> \E i \in DOMAIN sets : e \in {i} \X DOMAIN sets[i]
    BY DEF Entries
  <2> QED BY <2>1, <2>2
<1>6. ASSUME NEW e \in Entries(sets)
      PROVE  /\ e = <<e[1], e[2]>> /\ e[1] \in DOMAIN sets /\ e[2] \in DOMAIN sets[e[1]]
             /\ e[1] \in Nat \ {0} /\ e[2] \in Nat \ {0}
  <2>1. PICK i \in DOMAIN sets : \E r \in DOMAIN sets[i] : e = <<i, r>>
    BY <1>5
  <2>2. PICK r \in DOMAIN sets[i] : e = <<i, r>>
    BY <2>1
  <2>3. sets[i] \in Seq(U) /\ i \in Nat \ {0}
    OBVIOUS
  <2>4. r \in Nat \ {0}
    BY <2>3
  <2> QED BY <2>2, <2>3, <2>4
<1> QED BY <1>4, <1>5, <1>6

\* Of any entries one is first.
LEMMA FirstEntry ==
  ASSUME NEW T, T # {}, \A e \in T : e = <<e[1], e[2]>> /\ e[1] \in Nat /\ e[2] \in Nat
  PROVE  \E e \in T : \A c \in T : c = e \/ Earlier(e, c)
<1> DEFINE A == {e[1] : e \in T}
<1>1. A \in SUBSET Nat /\ A # {}
  OBVIOUS
<1>2. PICK i \in A : \A y \in A : i <= y
  <2> HIDE DEF A
  <2> QED BY <1>1, FirstIndex
<1> DEFINE S == {e \in T : e[1] = i}
           B == {e[2] : e \in S}
<1>3. B \in SUBSET Nat /\ B # {}
  OBVIOUS
<1>4. PICK r \in B : \A y \in B : r <= y
  <2> HIDE DEF B
  <2> QED BY <1>3, FirstIndex
<1>5. PICK e \in T : e[1] = i /\ e[2] = r
  OBVIOUS
<1>6. ASSUME NEW c \in T PROVE c = e \/ Earlier(e, c)
  <2>1. c[1] \in A /\ i <= c[1] /\ c[1] \in Nat /\ c[2] \in Nat /\ i \in Nat /\ r \in Nat /\ c = <<c[1], c[2]>> /\ e = <<e[1], e[2]>>
    BY <1>2, <1>1, <1>3, <1>4
  <2>2. CASE c[1] = i
    <3>1. c[2] \in B
      BY <2>2
    <3>2. r <= c[2]
      BY <3>1, <1>4
    <3>3. CASE c[2] = r
      BY <2>1, <2>2, <3>3, <1>5
    <3>4. CASE c[2] # r
      <4>1. r < c[2]
        BY <3>2, <3>4, <2>1
      <4> QED BY <4>1, <2>2, <1>5 DEF Earlier
    <3> QED BY <3>3, <3>4
  <2>3. CASE c[1] # i
    <3>1. i < c[1]
      BY <2>1, <2>3
    <3> QED BY <3>1, <1>5 DEF Earlier
  <2> QED BY <2>2, <2>3
<1> QED BY <1>6

\* The entries that name a URL, of which a URL of the result has at least one.
LEMMA HitsAre ==
  ASSUME NEW U, NEW sets \in Seq(Seq(U)), NEW u
  PROVE  /\ IsFiniteSet(Hits(sets, u)) /\ Hits(sets, u) \subseteq Entries(sets)
         /\ \A e \in Hits(sets, u) : e = <<e[1], e[2]>> /\ e[1] \in Nat \ {0} /\ e[2] \in Nat \ {0}
         /\ u \in URLs(sets) => Hits(sets, u) # {}
<1>1. Hits(sets, u) \subseteq Entries(sets)
  BY DEF Hits
<1>2. IsFiniteSet(Hits(sets, u))
  BY <1>1, EntriesAre, FS_Subset
<1>3. u \in URLs(sets) => Hits(sets, u) # {}
  BY DEF URLs, Hits
<1> QED BY <1>1, <1>2, <1>3, EntriesAre

\* FuseWRR merges finitely many URLs.
LEMMA URLsFinite ==
  ASSUME NEW U, NEW sets \in Seq(Seq(U))
  PROVE  IsFiniteSet(URLs(sets))
<1> DEFINE E == Entries(sets)
           b == [e \in E |-> sets[e[1]][e[2]]]
           V == {b[e] : e \in E}
<1>1. IsFiniteSet(E)
  BY EntriesAre
<1>2. IsFiniteSet(V)
  <2> HIDE DEF E, b
  <2> QED BY <1>1, ImageFinite
<1>3. URLs(sets) \in SUBSET V
  BY DEF URLs
<1> HIDE DEF V
<1> QED BY <1>2, <1>3, FS_Subset

\* The order in which FuseWRR first meets the URLs is a strict total order of
\* them.
LEMMA SeenOrders ==
  ASSUME NEW U, NEW sets \in Seq(Seq(U))
  PROVE  /\ \A u \in URLs(sets) : ~SeenBefore(sets, u, u)
         /\ \A u, v, w \in URLs(sets) : SeenBefore(sets, u, v) /\ SeenBefore(sets, v, w) => SeenBefore(sets, u, w)
         /\ \A u, v \in URLs(sets) : u # v => SeenBefore(sets, u, v) \/ SeenBefore(sets, v, u)
<1>0. \A u : \A e \in Hits(sets, u) : e = <<e[1], e[2]>> /\ e[1] \in Nat /\ e[2] \in Nat
  BY HitsAre
<1>91. \A e, c, d : e[1] \in Nat /\ e[2] \in Nat /\ c[1] \in Nat /\ c[2] \in Nat /\ d[1] \in Nat /\ d[2] \in Nat
                     /\ Earlier(e, c) /\ (c = d \/ Earlier(c, d)) => Earlier(e, d)
  BY DEF Earlier
<1>1. ASSUME NEW u \in URLs(sets), SeenBefore(sets, u, u) PROVE FALSE
  <2>1. PICK e \in Hits(sets, u) : Earlier(e, e)
    BY <1>1 DEF SeenBefore
  <2> QED BY <2>1, <1>0 DEF Earlier
<1>2. ASSUME NEW u \in URLs(sets), NEW v \in URLs(sets), NEW w \in URLs(sets),
             SeenBefore(sets, u, v), SeenBefore(sets, v, w)
      PROVE  SeenBefore(sets, u, w)
  <2>1. PICK e \in Hits(sets, u) : \A c \in Hits(sets, v) : Earlier(e, c)
    BY <1>2 DEF SeenBefore
  <2>2. PICK c \in Hits(sets, v) : \A d \in Hits(sets, w) : Earlier(c, d)
    BY <1>2 DEF SeenBefore
  <2>3. \A d \in Hits(sets, w) : Earlier(e, d)
    BY <2>1, <2>2, <1>0, <1>91
  <2> QED BY <2>3 DEF SeenBefore
<1>3. ASSUME NEW u \in URLs(sets), NEW v \in URLs(sets), u # v
      PROVE  SeenBefore(sets, u, v) \/ SeenBefore(sets, v, u)
  <2>1. PICK e \in Hits(sets, u) : \A c \in Hits(sets, u) : c = e \/ Earlier(e, c)
    <3>1. Hits(sets, u) # {}
      BY HitsAre
    <3> QED BY <3>1, <1>0, FirstEntry
  <2>2. PICK d \in Hits(sets, v) : \A c \in Hits(sets, v) : c = d \/ Earlier(d, c)
    <3>1. Hits(sets, v) # {}
      BY HitsAre
    <3> QED BY <3>1, <1>0, FirstEntry
  <2>3. e # d
    BY <1>3 DEF Hits
  <2>4. Earlier(e, d) \/ Earlier(d, e)
    BY <2>3, <1>0 DEF Earlier
  <2>5. Earlier(e, d) => \A c \in Hits(sets, v) : Earlier(e, c)
    BY <2>2, <1>0, <1>91
  <2>6. Earlier(d, e) => \A c \in Hits(sets, u) : Earlier(d, c)
    BY <2>1, <1>0, <1>91
  <2> QED BY <2>4, <2>5, <2>6 DEF SeenBefore
<1> QED BY <1>1, <1>2, <1>3

------------------------------------------------------------------------------
\* FuseWRR: scores.

\* A fused score is an integer (in the model's common denominator).
LEMMA ScoreInt ==
  ASSUME NEW U, NEW sets \in Seq(Seq(U)), NEW weights \in Seq(Nat), NEW u
  PROVE  /\ \A e \in Hits(sets, u) : rrf(Weight(weights, e[1]), e[2] - 1) \in Int
         /\ FusedScore(sets, weights, u) \in Int
<1> DEFINE H == Hits(sets, u)
           f == [e \in H |-> rrf(Weight(weights, e[1]), e[2] - 1)]
<1>1. ASSUME NEW i \in Nat \ {0}, NEW r \in Nat \ {0} PROVE rrf(Weight(weights, i), r - 1) \in Int
  <2>1. Weight(weights, i) \in Nat
    BY DEF Weight
  <2>2. ASSUME NEW w \in Nat PROVE rrf(w, r - 1) \in Int
    <3> DEFINE c == w * ScoreUnit
               d == rrfK + (r - 1)
    <3>1. c \in Int /\ d \in Nat \ {0}
      BY DEF ScoreUnit, rrfK
    <3>2. rrf(w, r - 1) = c \div d
      BY DEF rrf
    <3> HIDE DEF c, d
    <3> QED BY <3>1, <3>2
  <2> QED BY <2>1, <2>2
<1>2. \A e \in H : f[e] \in Int
  BY <1>1, HitsAre
<1>3. IsFiniteSet(H)
  BY HitsAre
<1>4. SumFunctionOnSet(f, H) \in Int
  <2> HIDE DEF f, H
  <2> QED BY <1>2, <1>3, SumInt
<1> QED BY <1>1, <1>4, HitsAre DEF FusedScore

\* merged lists the URLs in the order FuseWRR returns them.
Merges(merged, sets, weights) ==
    LET n == Cardinality(URLs(sets))
    IN  /\ n \in Nat
        /\ merged \in [1 .. n -> URLs(sets)]
        /\ \A u \in URLs(sets) : \E k \in 1 .. n : merged[k] = u
        /\ \A j, k \in 1 .. n : merged[j] = merged[k] => j = k
        /\ \A j, k \in 1 .. n : j < k => FusedScore(sets, weights, merged[j]) >= FusedScore(sets, weights, merged[k])
        /\ FuseWRR(sets, weights) = [k \in 1 .. n |-> [URL |-> merged[k], Score |-> FusedScore(sets, weights, merged[k])]]

\* FuseWRR's result lists every URL once, the highest score first.
LEMMA FusedIs ==
  ASSUME NEW U, NEW sets \in Seq(Seq(U)), NEW weights \in Seq(Nat)
  PROVE  \E merged : Merges(merged, sets, weights)
<1> DEFINE V == URLs(sets)
           n == Cardinality(V)
           score == [u \in URLs(sets) |-> FusedScore(sets, weights, u)]
           ahead(v, u) == score[v] > score[u] \/ (score[v] = score[u] /\ SeenBefore(sets, v, u))
           rel == {e \in URLs(sets) \X URLs(sets) : ahead(e[1], e[2])}
           merged == Arrange(URLs(sets), rel)
<1>1. \A u \in V : score[u] = FusedScore(sets, weights, u) /\ score[u] \in Int
  BY ScoreInt
<1>2. FuseWRR(sets, weights) = [k \in 1 .. n |-> [URL |-> merged[k], Score |-> score[merged[k]]]]
  BY DEF FuseWRR
<1>3. IsFiniteSet(V)
  BY URLsFinite
<1>91. \A u, v \in V : <<u, v>> \in rel <=> ahead(u, v)
  <2> HIDE DEF score
  <2> QED OBVIOUS
<1> HIDE DEF score, rel
<1>4. Orders(rel, V)
  <2>1. ASSUME NEW u \in V PROVE <<u, u>> \notin rel
    <3>1. ~SeenBefore(sets, u, u) /\ score[u] \in Int
      BY <1>1, SeenOrders
    <3> QED BY <3>1, <1>91
  <2>2. ASSUME NEW u \in V, NEW v \in V, NEW w \in V, <<u, v>> \in rel, <<v, w>> \in rel PROVE <<u, w>> \in rel
    <3>1. SeenBefore(sets, u, v) /\ SeenBefore(sets, v, w) => SeenBefore(sets, u, w)
      BY SeenOrders
    <3>2. ahead(u, v) /\ ahead(v, w)
      BY <1>91, <2>2
    <3>3. score[u] \in Int /\ score[v] \in Int /\ score[w] \in Int
      BY <1>1
    <3>4. ahead(u, w)
      BY <3>1, <3>2, <3>3
    <3> QED BY <3>4, <1>91
  <2>3. ASSUME NEW u \in V, NEW v \in V, u # v PROVE <<u, v>> \in rel \/ <<v, u>> \in rel
    <3>1. SeenBefore(sets, u, v) \/ SeenBefore(sets, v, u)
      BY <2>3, SeenOrders
    <3>2. score[u] \in Int /\ score[v] \in Int
      BY <1>1
    <3>3. ahead(u, v) \/ ahead(v, u)
      BY <3>1, <3>2
    <3> QED BY <3>3, <1>91
  <2> HIDE DEF V
  <2> QED BY <2>1, <2>2, <2>3 DEF Orders
<1> HIDE DEF merged, n
<1>5. /\ n \in Nat
      /\ merged \in [1 .. n -> V]
      /\ \A u \in V : \E k \in 1 .. n : merged[k] = u
      /\ \A j, k \in 1 .. n : j < k => <<merged[j], merged[k]>> \in rel
      /\ \A j, k \in 1 .. n : merged[j] = merged[k] => j = k
  BY <1>3, <1>4, Arranged DEF merged, n
<1>6. ASSUME NEW j \in 1 .. n, NEW k \in 1 .. n, j < k
      PROVE  FusedScore(sets, weights, merged[j]) >= FusedScore(sets, weights, merged[k])
  <2>1. merged[j] \in V /\ merged[k] \in V /\ <<merged[j], merged[k]>> \in rel
    BY <1>5, <1>6
  <2>2. ahead(merged[j], merged[k])
    BY <2>1, <1>91
  <2>3. /\ score[merged[j]] \in Int /\ score[merged[k]] \in Int
        /\ score[merged[j]] = FusedScore(sets, weights, merged[j]) /\ score[merged[k]] = FusedScore(sets, weights, merged[k])
    BY <2>1, <1>1
  <2>4. score[merged[j]] >= score[merged[k]]
    BY <2>2, <2>3
  <2> QED BY <2>3, <2>4
<1>7. FuseWRR(sets, weights) = [k \in 1 .. n |-> [URL |-> merged[k], Score |-> FusedScore(sets, weights, merged[k])]]
  <2>1. \A k \in 1 .. n : score[merged[k]] = FusedScore(sets, weights, merged[k])
    <3>1. \A k \in 1 .. n : merged[k] \in V
      BY <1>5
    <3> QED BY <3>1, <1>1
  <2> QED BY <1>2, <2>1
<1>8. Merges(merged, sets, weights)
  BY <1>5, <1>6, <1>7 DEF Merges, n
<1> QED BY <1>8

\* The result sets arrive in another order, each with its weight.
Rearranged(sets2, weights2, sets, weights, pi) ==
    /\ pi \in Bijection(DOMAIN sets, DOMAIN sets)
    /\ DOMAIN sets2 = DOMAIN sets
    /\ \A k \in DOMAIN sets : sets2[k] = sets[pi[k]]
    /\ \A k \in DOMAIN sets : Weight(weights2, k) = Weight(weights, pi[k])

\* When the result sets arrive in another order, each with its weight, no URL and
\* no score changes.
LEMMA FusionMoves ==
  ASSUME NEW U, NEW sets \in Seq(Seq(U)), NEW weights \in Seq(Nat), NEW sets2 \in Seq(Seq(U)), NEW weights2 \in Seq(Nat), NEW pi,
         Rearranged(sets2, weights2, sets, weights, pi)
  PROVE  /\ URLs(sets2) = URLs(sets)
         /\ \A u : FusedScore(sets2, weights2, u) = FusedScore(sets, weights, u)
<1> DEFINE D == DOMAIN sets
           b == [e \in Entries(sets2) |-> <<pi[e[1]], e[2]>>]
<1>1. /\ pi \in [D -> D] /\ (\A i, j \in D : pi[i] = pi[j] => i = j) /\ (\A i \in D : \E k \in D : pi[k] = i)
      /\ DOMAIN sets2 = D
  BY DEF Rearranged, Bijection, Injection, Surjection, IsInjective
<1>2. \A k \in D : sets2[k] = sets[pi[k]] /\ Weight(weights2, k) = Weight(weights, pi[k])
  BY DEF Rearranged
<1>3. ASSUME NEW e \in Entries(sets2)
      PROVE  /\ e[1] \in D /\ b[e] = <<pi[e[1]], e[2]>> /\ b[e] \in Entries(sets) /\ sets[b[e][1]][b[e][2]] = sets2[e[1]][e[2]]
             /\ b[e][1] = pi[e[1]] /\ b[e][2] = e[2] /\ e = <<e[1], e[2]>>
  <2>1. e[1] \in D /\ e[2] \in DOMAIN sets2[e[1]] /\ e = <<e[1], e[2]>>
    BY <1>1, EntriesAre
  <2>2. b[e] = <<pi[e[1]], e[2]>>
    OBVIOUS
  <2>3. pi[e[1]] \in D /\ e[2] \in DOMAIN sets[pi[e[1]]] /\ sets2[e[1]] = sets[pi[e[1]]]
    BY <2>1, <1>1, <1>2
  <2>4. b[e] \in Entries(sets)
    BY <2>2, <2>3, EntriesAre
  <2> HIDE DEF b
  <2> QED BY <2>1, <2>2, <2>3, <2>4
<1>4. ASSUME NEW c \in Entries(sets) PROVE \E e \in Entries(sets2) : b[e] = c
  <2>1. c[1] \in D /\ c[2] \in DOMAIN sets[c[1]] /\ c = <<c[1], c[2]>>
    BY EntriesAre
  <2>2. PICK k \in D : pi[k] = c[1]
    BY <1>1, <2>1
  <2>3. <<k, c[2]>> \in Entries(sets2)
    BY <2>1, <2>2, <1>1, <1>2, EntriesAre
  <2>4. b[<<k, c[2]>>] = c
    BY <2>1, <2>2, <2>3
  <2> QED BY <2>3, <2>4
<1>5. \A e, c \in Entries(sets2) : b[e] = b[c] => e = c
  <2>1. ASSUME NEW e \in Entries(sets2), NEW c \in Entries(sets2), b[e] = b[c] PROVE e = c
    <3>1. b[e][1] = b[c][1] /\ b[e][2] = b[c][2]
      BY <2>1
    <3> HIDE DEF b
    <3>2. pi[e[1]] = pi[c[1]] /\ e[2] = c[2] /\ e[1] \in D /\ c[1] \in D
      BY <3>1, <1>3
    <3>3. \A i, j \in D : pi[i] = pi[j] => i = j
      BY <1>1
    <3>4. e[1] = c[1]
      BY <3>2, <3>3, Zenon
    <3> QED BY <3>2, <3>4, <1>3
  <2> HIDE DEF b
  <2> QED BY <2>1
<1> HIDE DEF b
<1>6. URLs(sets2) = URLs(sets)
  <2>1. {sets[c[1]][c[2]] : c \in Entries(sets)} = {sets2[e[1]][e[2]] : e \in Entries(sets2)}
    <3>1. ASSUME NEW e \in Entries(sets2) PROVE sets2[e[1]][e[2]] \in {sets[c[1]][c[2]] : c \in Entries(sets)}
      BY <1>3
    <3>2. ASSUME NEW c \in Entries(sets) PROVE sets[c[1]][c[2]] \in {sets2[e[1]][e[2]] : e \in Entries(sets2)}
      <4>1. PICK e \in Entries(sets2) : b[e] = c
        BY <1>4
      <4>2. sets[c[1]][c[2]] = sets2[e[1]][e[2]]
        BY <1>3, <4>1
      <4> QED BY <4>2
    <3> QED BY <3>1, <3>2
  <2> QED BY <2>1 DEF URLs
<1>7. ASSUME NEW u PROVE FusedScore(sets2, weights2, u) = FusedScore(sets, weights, u)
  <2> DEFINE H2 == Hits(sets2, u)
             H == Hits(sets, u)
             f == [e \in H2 |-> rrf(Weight(weights2, e[1]), e[2] - 1)]
             g == [e \in H |-> rrf(Weight(weights, e[1]), e[2] - 1)]
  <2>1. \A e \in Entries(sets2) : e \in H2 <=> b[e] \in H
    BY <1>3 DEF Hits
  <2>2. H2 \subseteq Entries(sets2) /\ H \subseteq Entries(sets)
    BY DEF Hits
  <2>91. \A e \in H2 : f[e] = rrf(Weight(weights2, e[1]), e[2] - 1)
    OBVIOUS
  <2>92. \A e \in H : g[e] = rrf(Weight(weights, e[1]), e[2] - 1)
    OBVIOUS
  <2>93. FusedScore(sets2, weights2, u) = SumFunctionOnSet(f, H2) /\ FusedScore(sets, weights, u) = SumFunctionOnSet(g, H)
    BY DEF FusedScore
  <2>94. IsFiniteSet(H2) /\ \A e \in H2 : f[e] \in Int
    BY HitsAre, ScoreInt
  <2> HIDE DEF H2, H, f, g
  <2>3. (\A e \in H2 : b[e] \in H) /\ (\A c \in H : \E e \in H2 : b[e] = c)
    BY <1>4, <2>1, <2>2
  <2>4. \A e \in H2 : g[b[e]] = f[e]
    <3>1. ASSUME NEW e \in H2 PROVE g[b[e]] = f[e]
      <4>1. e \in Entries(sets2) /\ b[e] \in H
        BY <2>1, <2>2
      <4>2. b[e][1] = pi[e[1]] /\ b[e][2] = e[2] /\ e[1] \in D
        BY <4>1, <1>3
      <4>3. g[b[e]] = rrf(Weight(weights, pi[e[1]]), e[2] - 1)
        BY <4>1, <4>2, <2>92
      <4>4. Weight(weights2, e[1]) = Weight(weights, pi[e[1]])
        BY <4>2, <1>2
      <4> QED BY <4>3, <4>4, <2>91
    <3> QED BY <3>1
  <2>5. \A e, c \in H2 : b[e] = b[c] => e = c
    BY <1>5, <2>2
  <2>6. SumFunctionOnSet(g, H) = SumFunctionOnSet(f, H2)
    <3>1. IsFiniteSet(H2)
      BY <2>94
    <3>2. \A e \in H2 : f[e] \in Int
      BY <2>94
    <3>3. \A e \in H2 : b[e] \in H
      BY <2>3
    <3>4. \A c \in H : \E e \in H2 : b[e] = c
      BY <2>3
    <3>5. Renames(b, f, H2, g, H)
      BY <3>1, <3>2, <3>3, <3>4, <2>4, <2>5 DEF Renames
    <3> QED BY <3>5, SumMap
  <2> QED BY <2>6, <2>93
<1> QED BY <1>6, <1>7

------------------------------------------------------------------------------
\* FuseWRR: the order of arrival.

\* A function over 1 .. n is a sequence of length n.
LEMMA SeqIs == ASSUME NEW S, NEW n \in Nat, NEW s \in [1 .. n -> S] PROVE s \in Seq(S) /\ Len(s) = n
OBVIOUS

\* The members of FuseWRR's result, whatever their order.
LEMMA FusedRange ==
  ASSUME NEW U, NEW sets \in Seq(Seq(U)), NEW weights \in Seq(Nat)
  PROVE  Range(FuseWRR(sets, weights)) = {[URL |-> u, Score |-> FusedScore(sets, weights, u)] : u \in URLs(sets)}
<1> DEFINE n == Cardinality(URLs(sets))
           rec == [u \in URLs(sets) |-> [URL |-> u, Score |-> FusedScore(sets, weights, u)]]
<1>1. PICK m : Merges(m, sets, weights)
  BY FusedIs
<1>2. FuseWRR(sets, weights) = [k \in 1 .. n |-> rec[m[k]]] /\ (\A k \in 1 .. n : m[k] \in URLs(sets))
      /\ \A u \in URLs(sets) : \E k \in 1 .. n : m[k] = u
  BY <1>1 DEF Merges
<1> HIDE DEF n, rec
<1>3. Range(FuseWRR(sets, weights)) = {rec[m[k]] : k \in 1 .. n}
  <2> DEFINE F == FuseWRR(sets, weights)
  <2> HIDE DEF F
  <2>1. DOMAIN F = 1 .. n /\ \A k \in 1 .. n : F[k] = rec[m[k]]
    BY <1>2 DEF F
  <2>2. Range(F) = {F[k] : k \in 1 .. n}
    BY <2>1 DEF Range
  <2>3. {F[k] : k \in 1 .. n} = {rec[m[k]] : k \in 1 .. n}
    BY <2>1
  <2> QED BY <2>2, <2>3 DEF F
<1>4. {rec[m[k]] : k \in 1 .. n} = {rec[u] : u \in URLs(sets)}
  BY <1>2
<1>5. {rec[u] : u \in URLs(sets)} = {[URL |-> u, Score |-> FusedScore(sets, weights, u)] : u \in URLs(sets)}
  BY DEF rec
<1> QED BY <1>3, <1>4, <1>5

\* FusionIgnoresArrival for any result sets and weights: FuseWRR merges every URL
\* once, sorted by score, and gives the same URLs and scores in whatever order
\* the direct goroutines' sets arrive.
THEOREM FusionSound ==
  ASSUME NEW U, NEW sets \in Seq(Seq(U)), NEW weights \in Seq(Nat)
  PROVE  FusionIgnoresArrival(sets, weights)
<1> DEFINE fused == FuseWRR(sets, weights)
           n == Cardinality(URLs(sets))
           movedSets(pi) == [k \in DOMAIN sets |-> sets[pi[k]]]
           movedWeights(pi) == [k \in DOMAIN sets |-> Weight(weights, pi[k])]
<1>1. PICK m : Merges(m, sets, weights)
  BY FusedIs
<1>2. /\ n \in Nat /\ m \in [1 .. n -> URLs(sets)]
      /\ \A u \in URLs(sets) : \E k \in 1 .. n : m[k] = u
      /\ \A j, k \in 1 .. n : m[j] = m[k] => j = k
      /\ \A j, k \in 1 .. n : j < k => FusedScore(sets, weights, m[j]) >= FusedScore(sets, weights, m[k])
      /\ fused = [k \in 1 .. n |-> [URL |-> m[k], Score |-> FusedScore(sets, weights, m[k])]]
  BY <1>1 DEF Merges
<1> HIDE DEF fused, n
<1>3. DOMAIN fused = 1 .. n /\ \A k \in 1 .. n : fused[k].URL = m[k] /\ fused[k].Score = FusedScore(sets, weights, m[k])
  BY <1>2
<1>4. Sorted(fused)
  BY <1>2, <1>3 DEF Sorted
<1>5. {fused[k].URL : k \in DOMAIN fused} = URLs(sets)
  <2>1. {fused[k].URL : k \in DOMAIN fused} = {m[k] : k \in 1 .. n}
    BY <1>3
  <2>2. \A k \in 1 .. n : m[k] \in URLs(sets)
    BY <1>2
  <2> QED BY <2>1, <2>2, <1>2
<1>6. \A j, k \in DOMAIN fused : fused[j].URL = fused[k].URL => j = k
  BY <1>2, <1>3
<1>7. ASSUME NEW pi \in Bijection(DOMAIN sets, DOMAIN sets)
      PROVE  Range(FuseWRR(movedSets(pi), movedWeights(pi))) = Range(fused)
  <2> DEFINE s2 == movedSets(pi)
             w2 == movedWeights(pi)
  <2>0. Len(sets) \in Nat /\ DOMAIN sets = 1 .. Len(sets)
    OBVIOUS
  <2>1. \A k \in DOMAIN sets : pi[k] \in DOMAIN sets
    BY DEF Bijection, Injection
  <2>2. \A k \in DOMAIN sets : sets[pi[k]] \in Seq(U)
    <3>1. \A i \in DOMAIN sets : sets[i] \in Seq(U)
      OBVIOUS
    <3> QED BY <2>1, <3>1, Zenon
  <2>3. \A k \in DOMAIN sets : Weight(weights, pi[k]) \in Nat
    <3>1. ASSUME NEW i \in 1 .. Len(sets) PROVE Weight(weights, i) \in Nat
      BY DEF Weight
    <3> QED BY <3>1, <2>0, <2>1
  <2>4. s2 \in Seq(Seq(U))
    <3>1. s2 \in [1 .. Len(sets) -> Seq(U)]
      BY <2>0, <2>2
    <3> HIDE DEF s2
    <3> QED BY <3>1, <2>0, SeqIs
  <2>5. w2 \in Seq(Nat) /\ Len(w2) = Len(sets)
    <3>1. w2 \in [1 .. Len(sets) -> Nat]
      BY <2>0, <2>3
    <3> HIDE DEF w2
    <3> QED BY <3>1, <2>0, SeqIs
  <2>6. \A k \in DOMAIN sets : Weight(w2, k) = Weight(weights, pi[k])
    <3>1. \A k \in DOMAIN sets : w2[k] = Weight(weights, pi[k])
      OBVIOUS
    <3> HIDE DEF w2
    <3>2. \A k \in DOMAIN sets : Weight(w2, k) = w2[k]
      BY <2>0, <2>5 DEF Weight
    <3> QED BY <3>1, <3>2
  <2>7. Rearranged(s2, w2, sets, weights, pi)
    <3>1. DOMAIN s2 = DOMAIN sets /\ \A k \in DOMAIN sets : s2[k] = sets[pi[k]]
      OBVIOUS
    <3> HIDE DEF s2, w2
    <3> QED BY <2>6, <3>1 DEF Rearranged
  <2> HIDE DEF s2, w2
  <2>8. URLs(s2) = URLs(sets) /\ \A u : FusedScore(s2, w2, u) = FusedScore(sets, weights, u)
    BY <2>4, <2>5, <2>7, FusionMoves
  <2>9. Range(FuseWRR(s2, w2)) = {[URL |-> u, Score |-> FusedScore(s2, w2, u)] : u \in URLs(s2)}
    BY <2>4, <2>5, FusedRange
  <2>10. Range(fused) = {[URL |-> u, Score |-> FusedScore(sets, weights, u)] : u \in URLs(sets)}
    BY FusedRange DEF fused
  <2>11. Range(FuseWRR(s2, w2)) = Range(fused)
    BY <2>8, <2>9, <2>10
  <2> QED BY <2>11 DEF s2, w2
<1> QED BY <1>4, <1>5, <1>6, <1>7 DEF FusionIgnoresArrival, fused

\* A list of scores, the best first.
Descends(a, n) ==
    /\ \A k \in 1 .. n : a[k] \in Int
    /\ \A j, k \in 1 .. n : j < k => a[j] >= a[k]

\* sigma gives, for every place of b, the place of a that holds the same.
Places(sigma, n, a, b) ==
    /\ \A j \in 1 .. n : sigma[j] \in 1 .. n /\ a[sigma[j]] = b[j]
    /\ \A i \in 1 .. n : \E j \in 1 .. n : sigma[j] = i

\* m lists the members of V, each once.
ListsOnce(m, n, V) ==
    /\ \A k \in 1 .. n : m[k] \in V
    /\ \A u \in V : \E k \in 1 .. n : m[k] = u
    /\ \A j, k \in 1 .. n : m[j] = m[k] => j = k

\* Two sorted lists of the same scores: the first has no larger one at any place.
LEMMA SortedBelow ==
  ASSUME NEW n \in Nat, NEW a, NEW b, NEW sigma, Descends(a, n), Descends(b, n), Places(sigma, n, a, b)
  PROVE  \A k \in 1 .. n : a[k] <= b[k]
<1> SUFFICES ASSUME NEW k \in 1 .. n, ~(a[k] <= b[k]) PROVE FALSE
  OBVIOUS
<1> DEFINE S == 1 .. (k - 1)
           T == {sigma[j] : j \in S}
<1>0. k \in Nat /\ k - 1 \in Int /\ 1 <= k /\ k <= n
  OBVIOUS
<1>1. ASSUME NEW i \in 1 .. k PROVE i \in T
  <2>1. i \in 1 .. n /\ (i = k \/ i < k)
    BY <1>0
  <2>2. PICK j \in 1 .. n : sigma[j] = i
    BY <2>1 DEF Places
  <2>3. b[j] = a[i]
    BY <2>2 DEF Places
  <2>4. a[i] >= a[k] /\ a[i] \in Int /\ a[k] \in Int /\ b[k] \in Int
    BY <2>1 DEF Descends
  <2>5. ~(j = k)
    BY <2>3, <2>4
  <2>6. ~(k < j)
    <3>1. ASSUME k < j PROVE b[k] >= b[j]
      BY <3>1 DEF Descends
    <3> QED BY <3>1, <2>3, <2>4
  <2>7. j \in S
    BY <2>5, <2>6, <1>0
  <2> QED BY <2>2, <2>7
<1>2. IsFiniteSet(S) /\ Cardinality(S) = k - 1
  BY <1>0, FS_Interval
<1>3. IsFiniteSet(T) /\ Cardinality(T) <= Cardinality(S)
  <2> HIDE DEF S
  <2>1. IsFiniteSet(S)
    BY <1>2
  <2> QED BY <2>1, ImageFinite
<1>4. 1 .. k \in SUBSET T
  BY <1>1
<1>5. Cardinality(1 .. k) = k
  BY <1>0, FS_Interval
<1> HIDE DEF T, S
<1>6. Cardinality(1 .. k) <= Cardinality(T)
  BY <1>3, <1>4, FS_Subset
<1>7. Cardinality(T) \in Nat
  BY <1>3, FS_CardinalityType
<1> QED BY <1>0, <1>2, <1>3, <1>5, <1>6, <1>7

\* Of two lists of the same members, the place in m1 of what m2 lists.
LEMMA PlacesExist ==
  ASSUME NEW n, NEW V, NEW m1, NEW m2, ListsOnce(m1, n, V), ListsOnce(m2, n, V)
  PROVE  \E sigma : Places(sigma, n, m1, m2)
<1> DEFINE place(j) == CHOOSE i \in 1 .. n : m1[i] = m2[j]
           sigma == [j \in 1 .. n |-> place(j)]
<1>1. ASSUME NEW j \in 1 .. n PROVE place(j) \in 1 .. n /\ m1[place(j)] = m2[j]
  <2>1. \E i \in 1 .. n : m1[i] = m2[j]
    BY DEF ListsOnce
  <2> QED BY <2>1
<1> HIDE DEF place
<1>2. \A j \in 1 .. n : sigma[j] \in 1 .. n /\ m1[sigma[j]] = m2[j]
  BY <1>1
<1>3. ASSUME NEW i \in 1 .. n PROVE \E j \in 1 .. n : sigma[j] = i
  <2>1. m1[i] \in V
    BY DEF ListsOnce
  <2>2. PICK j \in 1 .. n : m2[j] = m1[i]
    BY <2>1 DEF ListsOnce
  <2>3. m1[sigma[j]] = m1[i] /\ sigma[j] \in 1 .. n
    BY <2>2, <1>2
  <2> HIDE DEF sigma
  <2>4. sigma[j] = i
    BY <2>3, Zenon DEF ListsOnce
  <2> QED BY <2>4
<1> HIDE DEF sigma
<1>4. Places(sigma, n, m1, m2)
  BY <1>2, <1>3 DEF Places
<1> QED BY <1>4

\* Two result lists have the same scores at every place.
EqualScores(F1, F2) ==
    \E n \in Nat : /\ DOMAIN F1 = 1 .. n /\ DOMAIN F2 = 1 .. n
                   /\ \A k \in 1 .. n : F1[k].Score = F2[k].Score

\* Two lists fused from the same result sets in two orders have the same
\* scores, place by place.
LEMMA SameScores ==
  ASSUME NEW U, NEW sets \in Seq(Seq(U)), NEW weights \in Seq(Nat), NEW sets2 \in Seq(Seq(U)), NEW weights2 \in Seq(Nat), NEW pi,
         Rearranged(sets2, weights2, sets, weights, pi)
  PROVE  EqualScores(FuseWRR(sets, weights), FuseWRR(sets2, weights2))
<1> DEFINE V == URLs(sets)
           n == Cardinality(V)
           sc == [u \in V |-> FusedScore(sets, weights, u)]
           F1 == FuseWRR(sets, weights)
           F2 == FuseWRR(sets2, weights2)
<1>1. URLs(sets2) = V /\ \A u : FusedScore(sets2, weights2, u) = FusedScore(sets, weights, u)
  BY FusionMoves
<1>2. PICK m1 : Merges(m1, sets, weights)
  BY FusedIs
<1>3. PICK m2 : Merges(m2, sets2, weights2)
  BY FusedIs
<1>4. n \in Nat /\ ListsOnce(m1, n, V)
  BY <1>2 DEF Merges, ListsOnce
<1>5. ListsOnce(m2, n, V)
  BY <1>3, <1>1 DEF Merges, ListsOnce
<1>6. \A u \in V : sc[u] \in Int /\ sc[u] = FusedScore(sets, weights, u) /\ sc[u] = FusedScore(sets2, weights2, u)
  BY <1>1, ScoreInt
<1>7. F1 = [k \in 1 .. n |-> [URL |-> m1[k], Score |-> FusedScore(sets, weights, m1[k])]]
      /\ \A j, k \in 1 .. n : j < k => FusedScore(sets, weights, m1[j]) >= FusedScore(sets, weights, m1[k])
  BY <1>2 DEF Merges
<1>8. F2 = [k \in 1 .. n |-> [URL |-> m2[k], Score |-> FusedScore(sets2, weights2, m2[k])]]
      /\ \A j, k \in 1 .. n : j < k => FusedScore(sets2, weights2, m2[j]) >= FusedScore(sets2, weights2, m2[k])
  BY <1>3, <1>1 DEF Merges
<1> DEFINE a == [k \in 1 .. n |-> sc[m1[k]]]
           b == [k \in 1 .. n |-> sc[m2[k]]]
<1> HIDE DEF V, n, sc, F1, F2
<1>9. \A k \in 1 .. n : m1[k] \in V /\ m2[k] \in V
  BY <1>4, <1>5 DEF ListsOnce
<1>10. (\A k \in 1 .. n : a[k] \in Int /\ b[k] \in Int /\ a[k] = sc[m1[k]] /\ b[k] = sc[m2[k]])
       /\ (\A j, k \in 1 .. n : j < k => a[j] >= a[k]) /\ \A j, k \in 1 .. n : j < k => b[j] >= b[k]
  BY <1>6, <1>7, <1>8, <1>9
<1>11. DOMAIN F1 = 1 .. n /\ DOMAIN F2 = 1 .. n /\ \A k \in 1 .. n : F1[k].Score = a[k] /\ F2[k].Score = b[k]
  BY <1>6, <1>7, <1>8, <1>9
<1> HIDE DEF a, b
<1>12. Descends(a, n) /\ Descends(b, n)
  BY <1>10 DEF Descends
<1>13. PICK s : Places(s, n, m1, m2)
  BY <1>4, <1>5, PlacesExist
<1>14. PICK t : Places(t, n, m2, m1)
  BY <1>4, <1>5, PlacesExist
<1>75. \A k \in 1 .. n : a[k] <= b[k]
  <2>1. Places(s, n, a, b)
    <3>1. ASSUME NEW j \in 1 .. n PROVE s[j] \in 1 .. n /\ a[s[j]] = b[j]
      <4>1. s[j] \in 1 .. n /\ m1[s[j]] = m2[j]
        BY <1>13 DEF Places
      <4>2. a[s[j]] = sc[m1[s[j]]] /\ b[j] = sc[m2[j]]
        BY <4>1, <1>10
      <4> QED BY <4>1, <4>2
    <3>2. \A i \in 1 .. n : \E j \in 1 .. n : s[j] = i
      BY <1>13 DEF Places
    <3> QED BY <3>1, <3>2, Zenon DEF Places
  <2> QED BY <1>4, <1>12, <2>1, SortedBelow
<1>15. \A k \in 1 .. n : b[k] <= a[k]
  <2>1. Places(t, n, b, a)
    <3>1. ASSUME NEW j \in 1 .. n PROVE t[j] \in 1 .. n /\ b[t[j]] = a[j]
      <4>1. t[j] \in 1 .. n /\ m2[t[j]] = m1[j]
        BY <1>14 DEF Places
      <4>2. b[t[j]] = sc[m2[t[j]]] /\ a[j] = sc[m1[j]]
        BY <4>1, <1>10
      <4> QED BY <4>1, <4>2
    <3>2. \A i \in 1 .. n : \E j \in 1 .. n : t[j] = i
      BY <1>14 DEF Places
    <3> QED BY <3>1, <3>2, Zenon DEF Places
  <2> QED BY <1>4, <1>12, <2>1, SortedBelow
<1>16. \A k \in 1 .. n : F1[k].Score = F2[k].Score
  <2>1. \A k \in 1 .. n : a[k] = b[k]
    BY <1>10, <1>15, <1>75
  <2> QED BY <2>1, <1>11
<1>17. EqualScores(F1, F2)
  BY <1>4, <1>11, <1>16 DEF EqualScores
<1> QED BY <1>17 DEF F1, F2

------------------------------------------------------------------------------
\* imagesearch: MultiSearch.

\* What an engine's calls may answer: a failed one has no images.
Script(s, U) ==
    /\ \A k \in 1 .. 3 : s[k].err \in BOOLEAN /\ s[k].res \in Seq(U)
    /\ \A k \in 1 .. 3 : s[k].err => s[k].res = <<>>

\* What an engine's search with its fallback calls comes to: images are found
\* exactly when one of the calls it makes finds some.
LEMMA SearchIs ==
  ASSUME NEW U, NEW s, Script(s, U), NEW fallback \in BOOLEAN
  PROVE  /\ EngineSearch(s, fallback) \in Seq(U)
         /\ LET asked == IF ~fallback \/ (~s[1].err /\ s[1].res # <<>>) THEN 1 .. 1
                         ELSE IF s[1].err /\ ~s[2].err /\ s[2].res = <<>> THEN 1 .. 3
                         ELSE 1 .. 2
            IN  EngineSearch(s, fallback) # <<>> <=> \E k \in asked : s[k].res # <<>>
<1> DEFINE asked == IF ~fallback \/ (~s[1].err /\ s[1].res # <<>>) THEN 1 .. 1
                    ELSE IF s[1].err /\ ~s[2].err /\ s[2].res = <<>> THEN 1 .. 3
                    ELSE 1 .. 2
           found == EngineSearch(s, fallback)
<1>1. /\ s[1].err \in BOOLEAN /\ s[2].err \in BOOLEAN /\ s[3].err \in BOOLEAN
      /\ s[1].res \in Seq(U) /\ s[2].res \in Seq(U) /\ s[3].res \in Seq(U) /\ <<>> \in Seq(U)
      /\ s[1].err => s[1].res = <<>>
      /\ s[2].err => s[2].res = <<>>
      /\ s[3].err => s[3].res = <<>>
  <2>1. 1 \in 1 .. 3 /\ 2 \in 1 .. 3 /\ 3 \in 1 .. 3
    OBVIOUS
  <2>2. <<>> \in Seq(U)
    OBVIOUS
  <2> QED BY <2>1, <2>2, Zenon DEF Script
<1>3. /\ (\E k \in 1 .. 1 : s[k].res # <<>>) <=> s[1].res # <<>>
      /\ (\E k \in 1 .. 2 : s[k].res # <<>>) <=> s[1].res # <<>> \/ s[2].res # <<>>
      /\ (\E k \in 1 .. 3 : s[k].res # <<>>) <=> s[1].res # <<>> \/ s[2].res # <<>> \/ s[3].res # <<>>
  <2>1. 1 .. 1 = {1} /\ 1 .. 2 = {1, 2} /\ 1 .. 3 = {1, 2, 3}
    OBVIOUS
  <2> QED BY <2>1, Zenon
<1>91. CASE s[1].err /\ fallback
  <2>1. found = IF s[2].err THEN <<>> ELSE IF s[2].res = <<>> THEN s[3].res ELSE s[2].res
    BY <1>91, Zenon DEF EngineSearch
  <2>2. asked = IF ~s[2].err /\ s[2].res = <<>> THEN 1 .. 3 ELSE 1 .. 2
    BY <1>91
  <2> HIDE DEF asked, found
  <2> QED BY <2>1, <2>2, <1>1, <1>3, <1>91 DEF asked, found
<1>92. CASE s[1].err /\ ~fallback
  <2>1. found = <<>> /\ asked = 1 .. 1
    BY <1>92, Zenon DEF EngineSearch
  <2> HIDE DEF asked, found
  <2> QED BY <2>1, <1>1, <1>3, <1>92 DEF asked, found
<1>93. CASE ~s[1].err /\ fallback /\ s[1].res = <<>>
  <2>1. found = s[2].res /\ asked = 1 .. 2
    BY <1>93, Zenon DEF EngineSearch
  <2> HIDE DEF asked, found
  <2> QED BY <2>1, <1>1, <1>3, <1>93 DEF asked, found
<1>94. CASE ~s[1].err /\ ~(fallback /\ s[1].res = <<>>)
  <2>1. found = s[1].res /\ asked = 1 .. 1
    BY <1>94, Zenon DEF EngineSearch
  <2> HIDE DEF asked, found
  <2> QED BY <2>1, <1>1, <1>3, <1>94 DEF asked, found
<1> QED BY <1>1, <1>91, <1>92, <1>93, <1>94

\* s is what the engines H found, each once, in the order o.
FoundInOrder(s, o, m, H, found, U) ==
    /\ o \in Bijection(1 .. m, H)
    /\ \A e \in H : found[e] \in Seq(U)
    /\ s = [k \in 1 .. m |-> found[o[k]]]

\* Two orders of the engines heard fuse to the same scores.
LEMMA OrdersFuse ==
  ASSUME NEW U, NEW m \in Nat, NEW H, NEW found, NEW o1, NEW o2, NEW s1, NEW s2,
         FoundInOrder(s1, o1, m, H, found, U), FoundInOrder(s2, o2, m, H, found, U)
  PROVE  EqualScores(fuseWRR(s1), fuseWRR(s2))
<1>0. /\ \A e \in H : found[e] \in Seq(U)
      /\ o1 \in Bijection(1 .. m, H) /\ o2 \in Bijection(1 .. m, H)
      /\ s1 = [k \in 1 .. m |-> found[o1[k]]] /\ s2 = [k \in 1 .. m |-> found[o2[k]]]
  BY DEF FoundInOrder
<1> USE <1>0
<1>1. ListsOnce(o1, m, H) /\ ListsOnce(o2, m, H)
  BY DEF Bijection, Injection, Surjection, IsInjective, ListsOnce
<1>2. PICK sigma : Places(sigma, m, o1, o2)
  BY <1>1, PlacesExist
<1> DEFINE pi == [j \in 1 .. m |-> sigma[j]]
<1>3. \A j \in 1 .. m : pi[j] = sigma[j] /\ pi[j] \in 1 .. m /\ o1[pi[j]] = o2[j]
  BY <1>2 DEF Places
<1>4. pi \in [1 .. m -> 1 .. m]
  BY <1>2 DEF Places
<1>5. \A i \in 1 .. m : \E j \in 1 .. m : pi[j] = i
  BY <1>2, <1>3 DEF Places
<1> HIDE DEF pi
<1>6. \A i, j \in 1 .. m : pi[i] = pi[j] => i = j
  <2>1. ASSUME NEW i \in 1 .. m, NEW j \in 1 .. m, pi[i] = pi[j] PROVE i = j
    <3>1. o2[i] = o2[j]
      BY <2>1, <1>3
    <3> QED BY <3>1, <1>1, Zenon DEF ListsOnce
  <2> QED BY <2>1
<1>7. pi \in Bijection(1 .. m, 1 .. m)
  <2>1. DOMAIN pi = 1 .. m
    BY <1>4
  <2> QED BY <1>4, <1>5, <1>6, <2>1, Zenon DEF Bijection, Injection, Surjection, IsInjective
<1>8. s1 \in Seq(Seq(U)) /\ s2 \in Seq(Seq(U))
  <2>1. \A k \in 1 .. m : found[o1[k]] \in Seq(U) /\ found[o2[k]] \in Seq(U)
    BY <1>1 DEF ListsOnce
  <2>2. s1 \in [1 .. m -> Seq(U)] /\ s2 \in [1 .. m -> Seq(U)]
    BY <2>1
  <2> QED BY <2>2, SeqIs
<1>9. <<>> \in Seq(Nat) /\ \A k \in 1 .. m : Weight(<<>>, k) = 1
  BY DEF Weight
<1>10. DOMAIN s1 = 1 .. m /\ DOMAIN s2 = 1 .. m /\ \A k \in 1 .. m : s2[k] = s1[pi[k]]
  <2>1. \A k \in 1 .. m : s2[k] = found[o2[k]] /\ s1[k] = found[o1[k]]
    OBVIOUS
  <2>2. DOMAIN s1 = 1 .. m /\ DOMAIN s2 = 1 .. m
    OBVIOUS
  <2> QED BY <2>1, <2>2, <1>3
<1>11. Rearranged(s2, <<>>, s1, <<>>, pi)
  <2>1. \A k \in 1 .. m : Weight(<<>>, k) = Weight(<<>>, pi[k])
    BY <1>9, <1>3
  <2> QED BY <1>7, <1>10, <2>1 DEF Rearranged
<1>12. EqualScores(FuseWRR(s1, <<>>), FuseWRR(s2, <<>>))
  BY <1>8, <1>9, <1>11, SameScores
<1> QED BY <1>12 DEF fuseWRR

\* Lists of equal scores have equal scores once cut.
LEMMA CutScores ==
  ASSUME NEW max \in Nat, NEW F1, NEW F2, EqualScores(F1, F2)
  PROVE  ScoresOf(IF Len(F1) > max THEN SubSeq(F1, 1, max) ELSE F1)
           = ScoresOf(IF Len(F2) > max THEN SubSeq(F2, 1, max) ELSE F2)
<1>0. PICK n \in Nat : DOMAIN F1 = 1 .. n /\ DOMAIN F2 = 1 .. n /\ \A k \in 1 .. n : F1[k].Score = F2[k].Score
  BY DEF EqualScores
<1>1. Len(F1) = n /\ Len(F2) = n
  BY <1>0, LenIs
<1>2. CASE n > max
  <2>1. \A F \in {F1, F2} : /\ DOMAIN SubSeq(F, 1, max) = 1 .. max
                            /\ \A i \in 1 .. max : SubSeq(F, 1, max)[i] = F[i]
    BY <1>0, <1>2, PrefixIs
  <2>2. ScoresOf(SubSeq(F1, 1, max)) = [k \in 1 .. max |-> F1[k].Score]
        /\ ScoresOf(SubSeq(F2, 1, max)) = [k \in 1 .. max |-> F2[k].Score]
    BY <2>1 DEF ScoresOf
  <2>3. \A k \in 1 .. max : F1[k].Score = F2[k].Score
    BY <1>0, <1>2
  <2> QED BY <2>2, <2>3, <1>1, <1>2
<1>3. CASE ~(n > max)
  BY <1>0, <1>1, <1>3 DEF ScoresOf
<1> QED BY <1>2, <1>3

\* ImagesHeard for any engines and answers: MultiSearch hears every engine that
\* found images in the calls it made, and the scores it returns, cut to max, do
\* not depend on which engine finishes first.
THEOREM ImagesSound ==
  ASSUME NEW U, NEW scripts, NEW m \in Nat, DOMAIN scripts = 1 .. m, \A e \in DOMAIN scripts : Script(scripts[e], U),
         NEW fallback \in BOOLEAN, NEW max \in Nat
  PROVE  ImagesHeard(scripts, fallback, max)
<1> DEFINE asked(s) == IF ~fallback \/ (~s[1].err /\ s[1].res # <<>>) THEN 1 .. 1
                       ELSE IF s[1].err /\ ~s[2].err /\ s[2].res = <<>> THEN 1 .. 3
                       ELSE 1 .. 2
           heard == Heard(scripts, fallback)
           c == Cardinality(heard)
           found == [e \in DOMAIN scripts |-> EngineSearch(scripts[e], fallback)]
<1>1. heard = {e \in DOMAIN scripts : \E k \in asked(scripts[e]) : scripts[e][k].res # <<>>}
  <2>1. ASSUME NEW e \in DOMAIN scripts
        PROVE  EngineSearch(scripts[e], fallback) # <<>> <=> \E k \in asked(scripts[e]) : scripts[e][k].res # <<>>
    BY SearchIs
  <2>2. heard = {e \in DOMAIN scripts : EngineSearch(scripts[e], fallback) # <<>>}
    BY DEF Heard
  <2> HIDE DEF asked, heard
  <2> QED BY <2>1, <2>2
<1>2. heard \in SUBSET (1 .. m)
  BY DEF Heard
<1>3. c \in Nat
  <2> HIDE DEF heard
  <2>1. IsFiniteSet(1 .. m)
    BY FS_Interval
  <2>2. IsFiniteSet(heard)
    BY <1>2, <2>1, FS_Subset
  <2> QED BY <2>2, FS_CardinalityType
<1>4. \A e \in heard : found[e] \in Seq(U) /\ found[e] = EngineSearch(scripts[e], fallback)
  <2>1. \A e \in DOMAIN scripts : EngineSearch(scripts[e], fallback) \in Seq(U)
    BY SearchIs
  <2> HIDE DEF heard
  <2> QED BY <2>1, <1>2
<1> HIDE DEF heard, c, found
<1>5. ASSUME NEW o \in Bijection(1 .. c, heard)
      PROVE  MultiSearch(scripts, fallback, o, max)
               = LET F == fuseWRR([k \in 1 .. c |-> found[o[k]]]) IN IF Len(F) > max THEN SubSeq(F, 1, max) ELSE F
  <2>1. DOMAIN o = 1 .. c /\ \A k \in 1 .. c : o[k] \in heard
    BY DEF Bijection, Injection
  <2>2. [k \in DOMAIN o |-> EngineSearch(scripts[o[k]], fallback)] = [k \in 1 .. c |-> found[o[k]]]
    BY <2>1, <1>4
  <2>3. MultiSearch(scripts, fallback, o, max)
          = LET F == fuseWRR([k \in DOMAIN o |-> EngineSearch(scripts[o[k]], fallback)])
            IN  IF Len(F) > max THEN SubSeq(F, 1, max) ELSE F
    BY DEF MultiSearch
  <2> QED BY <2>2, <2>3
<1>6. ASSUME NEW o1 \in Bijection(1 .. c, heard), NEW o2 \in Bijection(1 .. c, heard)
      PROVE  ScoresOf(MultiSearch(scripts, fallback, o1, max)) = ScoresOf(MultiSearch(scripts, fallback, o2, max))
  <2> DEFINE s1 == [k \in 1 .. c |-> found[o1[k]]]
             s2 == [k \in 1 .. c |-> found[o2[k]]]
             F1 == fuseWRR(s1)
             F2 == fuseWRR(s2)
  <2>0. EqualScores(F1, F2)
    <3>1. s1 = [k \in 1 .. c |-> found[o1[k]]] /\ s2 = [k \in 1 .. c |-> found[o2[k]]]
      OBVIOUS
    <3> HIDE DEF s1, s2
    <3>2. FoundInOrder(s1, o1, c, heard, found, U) /\ FoundInOrder(s2, o2, c, heard, found, U)
      BY <3>1, <1>4, Zenon DEF FoundInOrder
    <3> QED BY <3>2, <1>3, OrdersFuse
  <2>2. MultiSearch(scripts, fallback, o1, max) = (IF Len(F1) > max THEN SubSeq(F1, 1, max) ELSE F1)
        /\ MultiSearch(scripts, fallback, o2, max) = (IF Len(F2) > max THEN SubSeq(F2, 1, max) ELSE F2)
    BY <1>5
  <2> HIDE DEF F1, F2
  <2>3. ScoresOf(IF Len(F1) > max THEN SubSeq(F1, 1, max) ELSE F1)
           = ScoresOf(IF Len(F2) > max THEN SubSeq(F2, 1, max) ELSE F2)
    BY <2>0, CutScores, Zenon
  <2> QED BY <2>2, <2>3
<1>7. /\ heard = {e \in DOMAIN scripts : \E k \in asked(scripts[e]) : scripts[e][k].res # <<>>}
      /\ \A o1, o2 \in Bijection(1 .. c, heard) :
           ScoresOf(MultiSearch(scripts, fallback, o1, max)) = ScoresOf(MultiSearch(scripts, fallback, o2, max))
  BY <1>1, <1>6
<1> QED BY <1>7 DEF ImagesHeard, heard, c

------------------------------------------------------------------------------
\* The properties of the run.

\* A list of bounded length is a sequence.
LEMMA ListsAreSeqs ==
  ASSUME NEW S, NEW n \in Nat, NEW s, s \in UNION {[1 .. k -> S] : k \in 0 .. n}
  PROVE  s \in Seq(S)
<1>1. PICK k \in 0 .. n : s \in [1 .. k -> S]
  OBVIOUS
<1> QED BY <1>1, SeqIs

\* A sequence over a set is one over any larger set.
LEMMA SeqWidens == ASSUME NEW S, NEW T, S \subseteq T, NEW s \in Seq(S) PROVE s \in Seq(T)
<1>1. Len(s) \in Nat /\ s \in [1 .. Len(s) -> S]
  OBVIOUS
<1>2. s \in [1 .. Len(s) -> T]
  BY <1>1
<1> QED BY <1>1, <1>2, SeqIs

\* Sequences written out are sequences.
LEMMA ShortSeqs ==
  ASSUME NEW S, NEW a \in S, NEW b \in S, NEW c \in S
  PROVE  <<>> \in Seq(S) /\ <<a>> \in Seq(S) /\ <<a, b>> \in Seq(S) /\ <<a, b, c>> \in Seq(S)
OBVIOUS

\* The run's input is one of those it enumerates, or none, in the states of the
\* engines' own behaviours.
InputOK == input \in Inputs \cup {[op |-> "none"]}

\* No step of the engines changes the input: FuseWRR, the filters and the text
\* helpers are pure and leave their arguments alone.
THEOREM InputFixed == MCSpec => []InputOK
<1>1. MCInit => InputOK
  BY DEF MCInit, InputOK
<1>2. InputOK /\ [Next /\ UNCHANGED input]_<<vars, input>> => InputOK'
  BY DEF InputOK
<1> QED BY <1>1, <1>2, PTL DEF MCSpec

\* The operation an input names tells which set it was taken from.
LEMMA OpsApart ==
  ASSUME InputOK
  PROVE  /\ input.op = "fuse" => input \in FuseInputs
         /\ input.op = "images" => input \in ImageInputs
         /\ input.op = "filter" => input \in FilterInputs
         /\ input.op = "dedup" => input \in DedupInputs
         /\ input.op = "number" => input \in NumberInputs
         /\ input.op = "chunk" => input \in ChunkInputs
         /\ input.op = "truncate" => input \in TruncateInputs
<1>1. \A r \in FuseInputs : r.op = "fuse"
  BY DEF FuseInputs
<1>2. \A r \in ImageInputs : r.op = "images"
  BY DEF ImageInputs
<1>3. \A r \in FilterInputs : r.op = "filter"
  BY DEF FilterInputs
<1>4. \A r \in DedupInputs : r.op = "dedup"
  BY DEF DedupInputs
<1>5. \A r \in NumberInputs : r.op = "number"
  BY DEF NumberInputs
<1>6. \A r \in ChunkInputs : r.op = "chunk"
  BY DEF ChunkInputs
<1>7. \A r \in TruncateInputs : r.op = "truncate"
  BY DEF TruncateInputs
<1>8. [op |-> "none"].op = "none"
  OBVIOUS
<1> QED BY <1>1, <1>2, <1>3, <1>4, <1>5, <1>6, <1>7, <1>8 DEF InputOK, Inputs

\* Every input of fusion is one FusionSound speaks of.
LEMMA FusionHolds == ASSUME InputOK PROVE Fusion
<1> SUFFICES ASSUME input.op = "fuse" PROVE FusionIgnoresArrival(input.sets, input.weights)
  BY DEF Fusion
<1> DEFINE URL == {"none", "a", "b", "c"}
<1>1. input \in FuseInputs
  BY OpsApart
<1>2. input.sets \in Seq(Seq(URL)) /\ input.weights \in Seq(Nat)
  <2>1. CASE input \in [op : {"fuse"}, sets : [1 .. 2 -> Lists], weights : {<<>>, <<2>>}]
    <3>1. input.sets \in [1 .. 2 -> Lists] /\ input.weights \in {<<>>, <<2>>}
      BY <2>1
    <3>2. \A s \in Lists : s \in Seq(URL)
      BY ListsAreSeqs DEF Lists
    <3>3. input.sets \in [1 .. 2 -> Seq(URL)]
      BY <3>1, <3>2
    <3>4. input.sets \in Seq(Seq(URL))
      BY <3>3, SeqIs
    <3>5. <<>> \in Seq(Nat) /\ <<2>> \in Seq(Nat)
      OBVIOUS
    <3> QED BY <3>1, <3>4, <3>5
  <2>2. CASE input \in [op : {"fuse"}, sets : [1 .. 3 -> {<<"a">>, <<"b", "a">>, <<"c", "none", "b">>, <<"a", "c">>, <<>>}],
                        weights : {<<1, 3>>}]
    <3>1. input.sets \in [1 .. 3 -> {<<"a">>, <<"b", "a">>, <<"c", "none", "b">>, <<"a", "c">>, <<>>}]
          /\ input.weights = <<1, 3>>
      BY <2>2
    <3>2. {<<"a">>, <<"b", "a">>, <<"c", "none", "b">>, <<"a", "c">>, <<>>} \subseteq Seq(URL)
      <4>1. "a" \in URL /\ "b" \in URL /\ "c" \in URL /\ "none" \in URL
        OBVIOUS
      <4> HIDE DEF URL
      <4> QED BY <4>1, ShortSeqs
    <3>3. input.sets \in [1 .. 3 -> Seq(URL)]
      BY <3>1, <3>2
    <3>4. input.sets \in Seq(Seq(URL))
      BY <3>3, SeqIs
    <3>5. <<1, 3>> \in Seq(Nat)
      OBVIOUS
    <3> QED BY <3>1, <3>4, <3>5
  <2> QED BY <1>1, <2>1, <2>2 DEF FuseInputs
<1> QED BY <1>2, FusionSound

\* Every input of the image search is one ImagesSound speaks of.
LEMMA ImagesHold == ASSUME InputOK PROVE Images
<1> SUFFICES ASSUME input.op = "images" PROVE ImagesHeard(input.scripts, input.fallback, input.max)
  BY DEF Images
<1> DEFINE URL == {"a", "b", "c"}
           Three == [1 .. 3 -> Answered]
<1>1. input \in ImageInputs
  BY OpsApart
<1>2. ASSUME NEW a \in Answered PROVE a.err \in BOOLEAN /\ a.res \in Seq(URL) /\ (a.err => a.res = <<>>)
  <2>1. <<>> \in Seq(URL) /\ <<"a", "b">> \in Seq(URL) /\ <<"c">> \in Seq(URL)
    <3>1. "a" \in URL /\ "b" \in URL /\ "c" \in URL
      OBVIOUS
    <3> HIDE DEF URL
    <3> QED BY <3>1, ShortSeqs
  <2> HIDE DEF URL
  <2>2. CASE a = [err |-> TRUE, res |-> <<>>]
    BY <2>1, <2>2
  <2>3. CASE a = [err |-> FALSE, res |-> <<>>]
    BY <2>1, <2>3
  <2>4. CASE a = [err |-> FALSE, res |-> <<"a", "b">>]
    BY <2>1, <2>4
  <2>5. CASE a = [err |-> FALSE, res |-> <<"c">>]
    BY <2>1, <2>5
  <2> QED BY <2>2, <2>3, <2>4, <2>5 DEF Answered
<1> HIDE DEF URL
<1>3. ASSUME NEW s \in Three PROVE Script(s, URL)
  <2>1. \A k \in 1 .. 3 : s[k] \in Answered
    OBVIOUS
  <2> QED BY <2>1, <1>2 DEF Script
<1>4. ASSUME NEW t \in Steady PROVE t \in Three
  <2>1. PICK a \in Answered : t = <<a, a, a>>
    BY DEF Steady
  <2> QED BY <2>1
<1> HIDE DEF Three
<1>5. ASSUME NEW x \in OneScripted PROVE DOMAIN x = 1 .. 2 /\ \A e \in 1 .. 2 : x[e] \in Three
  <2>1. PICK s \in Three, t \in Steady : x = <<s, t>>
    BY DEF OneScripted, Three
  <2>2. t \in Three
    BY <1>4
  <2>3. DOMAIN x = 1 .. 2 /\ x[1] = s /\ x[2] = t
    BY <2>1
  <2>4. \A e \in 1 .. 2 : e = 1 \/ e = 2
    OBVIOUS
  <2> QED BY <2>2, <2>3, <2>4
<1>6. ASSUME NEW x \in [1 .. 2 -> Steady] PROVE DOMAIN x = 1 .. 2 /\ \A e \in 1 .. 2 : x[e] \in Three
  BY <1>4
<1>7. \/ input.scripts \in OneScripted /\ input.fallback = TRUE /\ input.max \in {2}
      \/ input.scripts \in [1 .. 2 -> Steady] /\ input.fallback = FALSE /\ input.max \in {1, 3}
  BY <1>1 DEF ImageInputs
<1>8. DOMAIN input.scripts = 1 .. 2 /\ \A e \in 1 .. 2 : input.scripts[e] \in Three
  BY <1>5, <1>6, <1>7
<1>9. input.fallback \in BOOLEAN
  BY <1>7, Zenon
<1>10. input.max \in Nat
  BY <1>7
<1>11. \A e \in DOMAIN input.scripts : Script(input.scripts[e], URL)
  BY <1>3, <1>8
<1>12. 2 \in Nat
  OBVIOUS
<1> QED BY <1>8, <1>9, <1>10, <1>11, <1>12, ImagesSound

\* Every input of the filters is one ScoreFilterSound and DomainFilterSound speak
\* of.
LEMMA FiltersHold == ASSUME InputOK PROVE ScoreFilter /\ DomainFilter
<1> SUFFICES ASSUME input.op = "filter"
             PROVE  /\ FilterKeepsEnough(input.results, input.level, input.keep)
                    /\ DomainsLimited(input.results, input.keep, input.level)
  BY DEF ScoreFilter, DomainFilter
<1>1. input \in FilterInputs
  BY OpsApart
<1>2. input.results \in UNION {[1 .. n -> Scored] : n \in 0 .. 3} /\ input.level \in {0, 2} /\ input.keep \in {1, 2}
  BY <1>1 DEF FilterInputs
<1>3. input.results \in Seq(Scored)
  BY <1>2, ListsAreSeqs
<1>4. \A r \in Scored : r.Score \in Int
  BY DEF Scored
<1>5. input.level \in Int /\ input.keep \in Nat \ {0} /\ input.keep \in Nat
  BY <1>2
<1>6. FilterKeepsEnough(input.results, input.level, input.keep)
  BY <1>3, <1>4, <1>5, ScoreFilterSound
<1>7. DomainsLimited(input.results, input.keep, input.level)
  BY <1>3, <1>5, DomainFilterSound
<1> QED BY <1>6, <1>7

\* Every input of the snippet comparison is one DedupFilterSound speaks of.
LEMMA DedupHolds == ASSUME InputOK PROVE Dedup
<1> SUFFICES ASSUME input.op = "dedup" PROVE DedupSound(input.results, input.p, input.q)
  BY DEF Dedup
<1>1. input \in DedupInputs
  BY OpsApart
<1>2. input.results \in UNION {[1 .. n -> Snippet] : n \in 0 .. 3} /\ input.p = 2 /\ input.q = 3
  BY <1>1 DEF DedupInputs
<1>3. input.results \in Seq(Snippet)
  BY <1>2, ListsAreSeqs
<1>4. Snippets(Snippet)
  <2>1. ASSUME NEW r \in Snippet PROVE r.Score \in Int /\ BagOfWords(r.Content)
    <3>1. r.Score \in Int /\ r.Content \in UNION {[W -> {1}] : W \in SUBSET {"x", "y"}}
      BY DEF Snippet
    <3>2. PICK W \in SUBSET {"x", "y"} : r.Content \in [W -> {1}]
      BY <3>1
    <3>3. IsFiniteSet({"x", "y"})
      <4>1. IsFiniteSet({"x"}) /\ IsFiniteSet({"y"})
        BY FS_Singleton
      <4>2. {"x", "y"} = {"x"} \cup {"y"}
        OBVIOUS
      <4>3. IsFiniteSet({"x"} \cup {"y"})
        BY <4>1, FS_Union, Zenon
      <4> QED BY <4>2, <4>3
    <3>4. IsFiniteSet(W)
      BY <3>3, FS_Subset
    <3>5. DOMAIN r.Content = W /\ \A w \in W : r.Content[w] \in Nat
      <4> DEFINE a == r.Content
      <4>1. a \in [W -> {1}]
        BY <3>2
      <4> HIDE DEF a
      <4>2. DOMAIN a = W /\ \A w \in W : a[w] \in Nat
        BY <4>1
      <4> QED BY <4>2 DEF a
    <3> QED BY <3>1, <3>4, <3>5 DEF BagOfWords
  <2> QED BY <2>1 DEF Snippets
<1>5. input.p \in Nat /\ input.q \in Nat
  BY <1>2
<1> QED BY <1>3, <1>4, <1>5, DedupFilterSound

\* Ranked holds in every state: fusion and the image search do not depend on the
\* order in which engines answer, and the three filters lose nothing they should
\* keep.
THEOREM RankedHolds == MCSpec => []Ranked
<1>1. InputOK => Ranked
  BY FusionHolds, ImagesHold, FiltersHold, DedupHolds DEF Ranked
<1> QED BY <1>1, InputFixed, PTL

\* Digit groups of at most three digits.
Groups3 == {g \in Seq(Digit) : Len(g) <= 3}

\* The digit groups of the enumerated matches.
LEMMA GroupsShort == /\ << 0 >> \in Groups3 /\ << 1 >> \in Groups3 /\ <<1, 0>> \in Groups3 /\ <<0, 1>> \in Groups3
                     /\ <<0, 1, 0>> \in Groups3 /\ <<1, 0, 0>> \in Groups3 /\ <<0, 0, 0>> \in Groups3
<1>1. ASSUME NEW a \in Digit, NEW b \in Digit, NEW c \in Digit
      PROVE  <<a>> \in Groups3 /\ <<a, b>> \in Groups3 /\ <<a, b, c>> \in Groups3
  <2>1. <<a>> \in Seq(Digit) /\ <<a, b>> \in Seq(Digit) /\ <<a, b, c>> \in Seq(Digit)
    BY ShortSeqs
  <2>2. Len(<<a>>) = 1 /\ Len(<<a, b>>) = 2 /\ Len(<<a, b, c>>) = 3
    OBVIOUS
  <2> QED BY <2>1, <2>2 DEF Groups3
<1>2. 0 \in Digit /\ 1 \in Digit
  BY DEF Digit
<1> QED BY <1>1, <1>2

\* The enumerated matches are matches of factNumberRe.
LEMMA MatchesTyped == Matches \subseteq Match(3)
<1> DEFINE Sep == {"dot", "comma", "space"}
<1>1. ASSUME NEW m \in OneGroup \cup TwoGroups \cup ThreeGroups
      PROVE  /\ m = [dash |-> m.dash, digitBefore |-> m.digitBefore, groups |-> m.groups, seps |-> m.seps]
             /\ m.dash \in BOOLEAN /\ m.digitBefore \in BOOLEAN /\ m.groups \in Seq(Groups3) /\ m.seps \in Seq(Sep)
  <2>1. CASE m \in OneGroup
    <3> DEFINE G1 == {<<0>>, <<1>>, <<1, 0>>, <<0, 1, 0>>, <<1, 0, 0>>}
    <3>1. G1 \subseteq Groups3
      BY GroupsShort
    <3>2. m \in [dash : BOOLEAN, digitBefore : BOOLEAN, seps : {<<>>}, groups : [1 .. 1 -> G1]]
      BY <2>1 DEF OneGroup
    <3> HIDE DEF G1
    <3>3. m = [dash |-> m.dash, digitBefore |-> m.digitBefore, groups |-> m.groups, seps |-> m.seps]
      BY <3>2
    <3>4. m.dash \in BOOLEAN /\ m.digitBefore \in BOOLEAN /\ m.groups \in [1 .. 1 -> Groups3] /\ m.seps = <<>>
      BY <3>1, <3>2
    <3>5. m.groups \in Seq(Groups3)
      BY <3>4, SeqIs
    <3>6. m.seps \in Seq(Sep)
      BY <3>4
    <3> QED BY <3>3, <3>4, <3>5, <3>6
  <2>2. CASE m \in TwoGroups
    <3> DEFINE G1 == {<<0>>, <<1>>, <<1, 0>>}
               G2 == {<<0>>, <<1>>, <<0, 0, 0>>, <<1, 0, 0>>}
               GG == G1 \X G2
    <3>1. G1 \subseteq Groups3 /\ G2 \subseteq Groups3
      BY GroupsShort
    <3>2. m \in [dash : BOOLEAN, digitBefore : {FALSE}, seps : [1 .. 1 -> Sep], groups : GG]
      BY <2>2 DEF TwoGroups
    <3> HIDE DEF G1, G2, Sep
    <3>3. GG \subseteq Seq(Groups3)
      <4>1. ASSUME NEW x \in GG PROVE x \in Seq(Groups3)
        <5>1. PICK g \in G1, h \in G2 : x = <<g, h>>
          OBVIOUS
        <5>2. <<g, h>> \in Seq(Groups3)
          BY <3>1, ShortSeqs
        <5> QED BY <5>1, <5>2
      <4> QED BY <4>1
    <3> HIDE DEF GG
    <3>4. m = [dash |-> m.dash, digitBefore |-> m.digitBefore, groups |-> m.groups, seps |-> m.seps]
      BY <3>2
    <3>5. m.dash \in BOOLEAN /\ m.digitBefore = FALSE /\ m.groups \in GG /\ m.seps \in [1 .. 1 -> Sep]
      BY <3>2
    <3>6. m.seps \in Seq(Sep)
      BY <3>5, SeqIs
    <3>7. m.digitBefore \in BOOLEAN
      BY <3>5, Zenon
    <3> QED BY <3>3, <3>4, <3>5, <3>6, <3>7
  <2>3. CASE m \in ThreeGroups
    <3> DEFINE G2 == {<<1>>, <<0, 1>>, <<1, 0>>, <<1, 0, 0>>}
               one == <<1>>
               GG == {one} \X G2 \X G2
               S2 == {"dot", "space"}
    <3>1. G2 \subseteq Groups3 /\ one \in Groups3
      BY GroupsShort
    <3>2. m \in [dash : {FALSE}, digitBefore : {FALSE}, seps : [1 .. 2 -> S2], groups : GG]
      BY <2>3 DEF ThreeGroups
    <3>3. S2 \subseteq Sep
      OBVIOUS
    <3> HIDE DEF G2, Sep, S2, one
    <3>4. GG \subseteq Seq(Groups3)
      <4>1. ASSUME NEW x \in GG PROVE x \in Seq(Groups3)
        <5>1. PICK g \in G2, h \in G2 : x = <<one, g, h>>
          OBVIOUS
        <5>2. <<one, g, h>> \in Seq(Groups3)
          BY <3>1, ShortSeqs
        <5> QED BY <5>1, <5>2
      <4> QED BY <4>1
    <3> HIDE DEF GG
    <3>5. m = [dash |-> m.dash, digitBefore |-> m.digitBefore, groups |-> m.groups, seps |-> m.seps]
      BY <3>2
    <3>6. m.dash = FALSE /\ m.digitBefore = FALSE /\ m.groups \in GG /\ m.seps \in [1 .. 2 -> S2]
      BY <3>2
    <3>7. m.seps \in [1 .. 2 -> Sep]
      BY <3>3, <3>6
    <3>8. m.seps \in Seq(Sep)
      BY <3>7, SeqIs
    <3>9. m.dash \in BOOLEAN /\ m.digitBefore \in BOOLEAN
      BY <3>6, Zenon
    <3> QED BY <3>4, <3>5, <3>6, <3>8, <3>9
  <2> QED BY <2>1, <2>2, <2>3
<1> HIDE DEF Sep
<1>2. ASSUME NEW m \in Matches PROVE m \in Match(3)
  <2>1. m \in OneGroup \cup TwoGroups \cup ThreeGroups /\ factNumberRe(m)
    BY DEF Matches
  <2>2. /\ m = [dash |-> m.dash, digitBefore |-> m.digitBefore, groups |-> m.groups, seps |-> m.seps]
        /\ m.dash \in BOOLEAN /\ m.digitBefore \in BOOLEAN /\ m.groups \in Seq(Groups3) /\ m.seps \in Seq(Sep)
    BY <1>1, <2>1
  <2>3. m.groups \in Seq(Seq(Digit))
    <3>1. Groups3 \subseteq Seq(Digit)
      BY DEF Groups3
    <3> QED BY <2>2, <3>1, SeqWidens
  <2>4. \A k \in DOMAIN m.groups : Len(m.groups[k]) <= 3
    <3>1. \A k \in DOMAIN m.groups : m.groups[k] \in Groups3
      BY <2>2
    <3> QED BY <3>1 DEF Groups3
  <2>5. m \in [dash : BOOLEAN, digitBefore : BOOLEAN, groups : Seq(Seq(Digit)), seps : Seq(Sep)]
    BY <2>2, <2>3, Zenon
  <2> QED BY <2>1, <2>4, <2>5, Zenon DEF Match, Sep
<1> QED BY <1>2

\* Numbers holds in every state: factNumbersCovered passes a fact exactly when
\* each number of its Point has a value some number of its Quote has, or is
\* repeated literally.
THEOREM NumbersHolds == MCSpec => []Numbers
<1>1. ASSUME InputOK PROVE Numbers
  <2> SUFFICES ASSUME input.op = "number", NEW m \in Matches
               PROVE  NumbersDecide({input.match}, {m}, 3) /\ NumbersDecide({input.match, m}, {m}, 3)
    BY DEF Numbers
  <2>1. input.match \in Matches
    <3>1. input \in NumberInputs
      BY <1>1, OpsApart
    <3> QED BY <3>1 DEF NumberInputs
  <2>2. {input.match} \in SUBSET Match(3) /\ {input.match, m} \in SUBSET Match(3) /\ {m} \in SUBSET Match(3)
    BY <2>1, MatchesTyped
  <2>3. 3 \in Nat
    OBVIOUS
  <2> QED BY <2>2, <2>3, NumbersSound
<1> QED BY <1>1, InputFixed, PTL

\* TextKept holds in every state: Chunk ends and loses no word, and the sources
\* of a prompt keep to the token budget.
THEOREM TextKeptHolds == MCSpec => []TextKept
<1>1. ASSUME InputOK PROVE Chunks
  <2> SUFFICES ASSUME input.op = "chunk" PROVE ChunksCoverText(input.text, input.size, input.overlap)
    BY DEF Chunks
  <2>1. input \in ChunkInputs
    BY <1>1, OpsApart
  <2>2. input.text \in UNION {[1 .. n -> {"word", "space", "white"}] : n \in 0 .. 7} /\ input.size \in {1, 3, 4} /\ input.overlap \in {0, 1, 2, 3}
    BY <2>1 DEF ChunkInputs
  <2>3. input.text \in Seq({"word", "space", "white"})
    BY <2>2, ListsAreSeqs
  <2>5. input.size \in Nat \ {0} /\ input.overlap \in Nat
    BY <2>2
  <2> QED BY <2>3, <2>5, ChunkerSound
<1>2. ASSUME InputOK PROVE Budgets
  <2> SUFFICES ASSUME input.op = "truncate" PROVE BudgetKept(input.text, input.budget, input.cpt)
    BY DEF Budgets
  <2>1. input \in TruncateInputs
    BY <1>2, OpsApart
  <2>2. input.text \in UNION {[1 .. n -> {1, 2, 4}] : n \in 0 .. 4} /\ input.budget \in {0, 1, 3, 10} /\ input.cpt \in {5, 7}
    BY <2>1 DEF TruncateInputs
  <2>3. input.text \in Seq({1, 2, 4})
    BY <2>2, ListsAreSeqs
  <2>4. input.text \in Seq(Nat \ {0})
    BY <2>3
  <2>5. input.cpt \in Nat \ {0} /\ input.budget \in Nat
    BY <2>2
  <2> QED BY <2>4, <2>5, BudgetSound
<1>3. InputOK => TextKept
  BY <1>1, <1>2 DEF TextKept
<1> QED BY <1>3, InputFixed, PTL

==============================================================================
