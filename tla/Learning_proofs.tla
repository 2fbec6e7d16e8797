-------------------------- MODULE Learning_proofs ---------------------------
(***************************************************************************)
(* Proofs about Learning and about the grading and the catalogue it is     *)
(* built on: what holds for any number of learners, releases, verses and   *)
(* requests.  The library's induction theorems take a predicate as a       *)
(* parameter; here induction goes through the least element of a set of    *)
(* counterexamples, which needs none.                                      *)
(***************************************************************************)
EXTENDS Learning, SequenceTheorems, FiniteSetTheorems, WellFoundedInduction, TLAPS

\* Every set of naturals that is not empty has a least element.
LEMMA LeastElement ==
  ASSUME NEW T \in SUBSET Nat, T # {}
  PROVE  \E least \in T : \A k \in T : least <= k
<1>1. PICK x \in T : \A y \in T : ~ (<<y, x>> \in OpToRel(<, Nat))
  BY WFMin, NatLessThanWellFounded, Zenon
<1>2. \A y \in T : ~ (y < x)
  BY <1>1 DEF OpToRel
<1> QED BY <1>2

\* Induction up to n, for a set in the place of a predicate.
LEMMA IntervalInduction ==
  ASSUME NEW n \in Nat, NEW S, 0 \in S, \A k \in 1..n : k - 1 \in S => k \in S
  PROVE  0..n \subseteq S
<1> SUFFICES ASSUME (0..n) \ S # {} PROVE FALSE
  OBVIOUS
<1> DEFINE T == (0..n) \ S
<1>1. PICK least \in T : \A k \in T : least <= k
  <2>1. T \in SUBSET Nat /\ T # {}
    OBVIOUS
  <2> HIDE DEF T
  <2> QED BY <2>1, LeastElement
<1>2. least \in 1..n /\ least - 1 \in 0..n
  BY <1>1
<1>3. least - 1 \in S
  BY <1>1, <1>2
<1> QED BY <1>1, <1>2, <1>3

\* A step from a value to the next, for each index up to n; and a function that
\* takes them one after the other.
IsStep(step, n, V) == step \in [(1..n) \X V -> V]
TakesSteps(f, n, V, base, step) ==
  f \in [0..n -> V] /\ f[0] = base /\ \A k \in 1..n : f[k] = step[<<k, f[k - 1]>>]

\* A function of the indexes up to n is defined by its first value and by a step
\* from each value to the next.
LEMMA RecursionExists ==
  ASSUME NEW n \in Nat, NEW V, NEW base \in V, NEW step, IsStep(step, n, V)
  PROVE  \E f : TakesSteps(f, n, V, base, step)
<1> USE DEF IsStep
<1> DEFINE Steps(f, m) == f[0] = base /\ \A k \in 1..m : f[k] = step[<<k, f[k - 1]>>]
           S == {m \in 0..n : \E f \in [0..m -> V] : Steps(f, m)}
<1>1. 0 \in S
  <2> DEFINE g == [k \in 0..0 |-> base]
  <2>1. g \in [0..0 -> V] /\ g[0] = base /\ 0 \in 0..n /\ 1..0 = {}
    OBVIOUS
  <2> HIDE DEF g
  <2> QED BY <2>1
<1>2. ASSUME NEW m \in 1..n, m - 1 \in S PROVE m \in S
  <2>1. PICK f \in [0..m - 1 -> V] : Steps(f, m - 1)
    BY <1>2
  <2> DEFINE g == [k \in 0..m |-> IF k < m THEN f[k] ELSE step[<<m, f[m - 1]>>]]
  <2>2. m - 1 \in 0..m - 1 /\ m \in 1..n /\ 0 \in 0..m - 1
    OBVIOUS
  <2>3. step[<<m, f[m - 1]>>] \in V
    BY <2>2
  <2>4. g \in [0..m -> V]
    BY <2>3
  <2>5. g[0] = base
    BY <2>1
  <2>6. ASSUME NEW k \in 1..m PROVE g[k] = step[<<k, g[k - 1]>>]
    <3>1. g[k - 1] = f[k - 1]
      OBVIOUS
    <3>2. CASE k < m
      <4>1. k \in 1..m - 1 /\ g[k] = f[k]
        BY <3>2
      <4>2. f[k] = step[<<k, f[k - 1]>>]
        BY <2>1, <4>1
      <4> HIDE DEF g
      <4> QED BY <3>1, <4>1, <4>2
    <3>3. CASE k = m
      <4>1. g[k] = step[<<m, f[m - 1]>>]
        BY <3>3
      <4> HIDE DEF g
      <4> QED BY <3>1, <3>3, <4>1
    <3> QED BY <3>2, <3>3
  <2> HIDE DEF g
  <2> QED BY <2>4, <2>5, <2>6
<1> HIDE DEF S
<1>3. n \in S
  BY <1>1, <1>2, IntervalInduction
<1> QED BY <1>3 DEF S, TakesSteps
-----------------------------------------------------------------------------
(* Chains of pairs: the reference definition, for the first words only.     *)

Ordered(p, q) == p = q \/ (p[1] < q[1] /\ p[2] < q[2]) \/ (q[1] < p[1] /\ q[2] < p[2])

\* The ways to pair the first i words of a with the first j words of b.
Chains(a, b, i, j) ==
  {chain \in SUBSET {p \in (1..i) \X (1..j) : a[p[1]] = b[p[2]]} :
     \A p, q \in chain : Ordered(p, q)}

\* The longest of them has k pairs.
Longest(a, b, i, j, k) ==
  /\ k \in Nat
  /\ \E chain \in Chains(a, b, i, j) : Cardinality(chain) = k
  /\ \A chain \in Chains(a, b, i, j) : Cardinality(chain) <= k

\* Chains are finite.
LEMMA ChainFinite ==
  ASSUME NEW a, NEW b, NEW i \in Nat, NEW j \in Nat, NEW chain \in Chains(a, b, i, j)
  PROVE  IsFiniteSet(chain) /\ Cardinality(chain) \in Nat
<1>1. IsFiniteSet(1..i) /\ IsFiniteSet(1..j)
  BY FS_Interval
<1>2. IsFiniteSet((1..i) \X (1..j))
  BY <1>1, FS_Product
<1>3. chain \in SUBSET ((1..i) \X (1..j))
  BY DEF Chains
<1> QED BY <1>2, <1>3, FS_Subset, FS_CardinalityType

\* No words, no pairs.
LEMMA LongestEmpty ==
  ASSUME NEW a, NEW b, NEW i \in Nat, NEW j \in Nat, i = 0 \/ j = 0
  PROVE  Longest(a, b, i, j, 0)
<1>1. (1..i) \X (1..j) = {}
  OBVIOUS
<1>2. Chains(a, b, i, j) = {{}}
  BY <1>1 DEF Chains
<1> QED BY <1>2, FS_EmptySet DEF Longest

\* Two equal last words are one pair more than the longest chain without them.
LEMMA LongestMatch ==
  ASSUME NEW a, NEW b, NEW i \in Nat \ {0}, NEW j \in Nat \ {0}, NEW k,
         a[i] = b[j], Longest(a, b, i - 1, j - 1, k)
  PROVE  Longest(a, b, i, j, k + 1)
<1> DEFINE last == <<i, j>>
<1>1. k \in Nat /\ i - 1 \in Nat /\ j - 1 \in Nat
  BY DEF Longest
<1>2. \E chain \in Chains(a, b, i, j) : Cardinality(chain) = k + 1
  <2>1. PICK chain \in Chains(a, b, i - 1, j - 1) : Cardinality(chain) = k
    BY DEF Longest
  <2>2. \A p \in chain : p \in (1..i) \X (1..j) /\ a[p[1]] = b[p[2]] /\ p[1] < i /\ p[2] < j
    BY DEF Chains
  <2>3. chain \cup {last} \in Chains(a, b, i, j)
    <3>1. last \in (1..i) \X (1..j) /\ a[last[1]] = b[last[2]]
      OBVIOUS
    <3>2. \A p, q \in chain : Ordered(p, q)
      BY DEF Chains
    <3>3. \A p \in chain : Ordered(p, last) /\ Ordered(last, p)
      BY <2>2 DEF Ordered
    <3>4. Ordered(last, last)
      BY DEF Ordered
    <3> HIDE DEF last
    <3> QED BY <2>2, <3>1, <3>2, <3>3, <3>4 DEF Chains
  <2>4. last \notin chain
    BY <2>2
  <2>5. IsFiniteSet(chain)
    BY <1>1, ChainFinite
  <2>6. Cardinality(chain \cup {last}) = k + 1
    BY <2>1, <2>4, <2>5, FS_AddElement
  <2> QED BY <2>3, <2>6
<1>3. ASSUME NEW chain \in Chains(a, b, i, j) PROVE Cardinality(chain) <= k + 1
  <2>1. IsFiniteSet(chain) /\ Cardinality(chain) \in Nat
    BY ChainFinite
  <2>2. \A p \in chain : p \in (1..i) \X (1..j) /\ a[p[1]] = b[p[2]]
    BY DEF Chains
  <2>3. \A p, q \in chain : Ordered(p, q)
    BY DEF Chains
  <2>4. ASSUME NEW c \in SUBSET chain, \A p \in c : p[1] # i /\ p[2] # j
        PROVE  Cardinality(c) <= k
    <3>1. \A p \in c : p \in (1..i - 1) \X (1..j - 1) /\ a[p[1]] = b[p[2]]
      BY <2>2, <2>4
    <3>2. c \in Chains(a, b, i - 1, j - 1)
      BY <2>3, <3>1 DEF Chains
    <3> QED BY <3>2 DEF Longest
  <2>5. CASE \A p \in chain : p[1] # i /\ p[2] # j
    BY <1>1, <2>1, <2>4, <2>5
  <2>6. CASE \E p \in chain : p[1] = i \/ p[2] = j
    <3>1. PICK p \in chain : p[1] = i \/ p[2] = j
      BY <2>6
    <3>2. \A q \in chain \ {p} : q[1] # i /\ q[2] # j
      <4> SUFFICES ASSUME NEW q \in chain \ {p} PROVE q[1] # i /\ q[2] # j
        OBVIOUS
      <4>1. p[1] \in 1..i /\ p[2] \in 1..j /\ q[1] \in 1..i /\ q[2] \in 1..j
        BY <2>2
      <4>2. (p[1] < q[1] /\ p[2] < q[2]) \/ (q[1] < p[1] /\ q[2] < p[2])
        BY <2>3 DEF Ordered
      <4> QED BY <3>1, <4>1, <4>2
    <3>3. Cardinality(chain \ {p}) <= k
      BY <2>4, <3>2
    <3>4. Cardinality(chain \ {p}) = Cardinality(chain) - 1
      BY <2>1, FS_RemoveElement
    <3> QED BY <1>1, <2>1, <3>3, <3>4
  <2> QED BY <2>5, <2>6
<1> QED BY <1>1, <1>2, <1>3 DEF Longest

\* Of two different last words one is left over.
LEMMA LongestSkip ==
  ASSUME NEW a, NEW b, NEW i \in Nat \ {0}, NEW j \in Nat \ {0}, NEW up, NEW left,
         a[i] # b[j], Longest(a, b, i - 1, j, up), Longest(a, b, i, j - 1, left)
  PROVE  Longest(a, b, i, j, IF up < left THEN left ELSE up)
<1>1. up \in Nat /\ left \in Nat
  BY DEF Longest
<1>2. Chains(a, b, i - 1, j) \subseteq Chains(a, b, i, j)
  <2>1. \A p \in (1..i - 1) \X (1..j) : p \in (1..i) \X (1..j)
    OBVIOUS
  <2> QED BY <2>1 DEF Chains
<1>3. Chains(a, b, i, j - 1) \subseteq Chains(a, b, i, j)
  <2>1. \A p \in (1..i) \X (1..j - 1) : p \in (1..i) \X (1..j)
    OBVIOUS
  <2> QED BY <2>1 DEF Chains
<1>4. ASSUME NEW chain \in Chains(a, b, i, j)
      PROVE  chain \in Chains(a, b, i - 1, j) \/ chain \in Chains(a, b, i, j - 1)
  <2>1. \A p \in chain : p \in (1..i) \X (1..j) /\ a[p[1]] = b[p[2]]
    BY DEF Chains
  <2>2. \A p, q \in chain : Ordered(p, q)
    BY DEF Chains
  <2>3. CASE \A p \in chain : p[1] # i
    <3>1. \A p \in chain : p \in (1..i - 1) \X (1..j)
      BY <2>1, <2>3
    <3> QED BY <2>1, <2>2, <3>1 DEF Chains
  <2>4. CASE \E p \in chain : p[1] = i
    <3>1. PICK p \in chain : p[1] = i
      BY <2>4
    <3>2. ASSUME NEW q \in chain PROVE q[2] # j
      <4>1. p[2] \in 1..j /\ q[1] \in 1..i /\ q[2] \in 1..j
        BY <2>1
      <4>2. p[2] # j
        BY <2>1, <3>1
      <4>3. p = q \/ p[1] < q[1] \/ q[2] < p[2]
        BY <2>2 DEF Ordered
      <4> QED BY <3>1, <4>1, <4>2, <4>3
    <3>3. \A q \in chain : q \in (1..i) \X (1..j - 1)
      BY <2>1, <3>2
    <3> QED BY <2>1, <2>2, <3>3 DEF Chains
  <2> QED BY <2>3, <2>4
<1>5. \A chain \in Chains(a, b, i, j) : Cardinality(chain) \in Nat
  BY ChainFinite
<1>6. \A chain \in Chains(a, b, i, j) : Cardinality(chain) <= up \/ Cardinality(chain) <= left
  BY <1>4 DEF Longest
<1>7. \A chain \in Chains(a, b, i, j) : Cardinality(chain) <= IF up < left THEN left ELSE up
  BY <1>1, <1>5, <1>6
<1>8. \E chain \in Chains(a, b, i, j) : Cardinality(chain) = IF up < left THEN left ELSE up
  <2>1. \E chain \in Chains(a, b, i, j) : Cardinality(chain) = up
    BY <1>2 DEF Longest
  <2>2. \E chain \in Chains(a, b, i, j) : Cardinality(chain) = left
    BY <1>3 DEF Longest
  <2> QED BY <2>1, <2>2
<1> QED BY <1>1, <1>7, <1>8 DEF Longest
-----------------------------------------------------------------------------
(* The rows of lcsLength.                                                  *)

\* The cells of a row obey the recursion that defines it.
LEMMA NextRowCells ==
  ASSUME NEW T, NEW b \in Seq(T), NEW word, NEW dp \in [0..Len(b) -> Nat]
  PROVE  LET row == NextRow(dp, word, b)
         IN  /\ row \in [0..Len(b) -> Nat]
             /\ row[0] = 0
             /\ \A j \in 1..Len(b) :
                  row[j] = IF word = b[j] THEN dp[j - 1] + 1
                           ELSE IF dp[j] < row[j - 1] THEN row[j - 1] ELSE dp[j]
<1> DEFINE n == Len(b)
           cell(j, left) == IF word = b[j] THEN dp[j - 1] + 1
                            ELSE IF dp[j] < left THEN left ELSE dp[j]
           step == [p \in (1..n) \X Nat |-> cell(p[1], p[2])]
<1>1. n \in Nat
  BY LenProperties
<1> HIDE DEF n
<1>2. \A j \in 1..n, left \in Nat : cell(j, left) \in Nat
  <2> SUFFICES ASSUME NEW j \in 1..n, NEW left \in Nat PROVE cell(j, left) \in Nat
    OBVIOUS
  <2>1. j \in 0..n /\ j - 1 \in 0..n
    BY <1>1
  <2>2. dp[j] \in Nat /\ dp[j - 1] \in Nat
    BY <2>1 DEF n
  <2> QED BY <2>2
<1> HIDE DEF cell
<1>3. step \in [(1..n) \X Nat -> Nat]
  BY <1>2
<1>4. PICK f : TakesSteps(f, n, Nat, 0, step)
  <2>1. 0 \in Nat /\ IsStep(step, n, Nat)
    BY <1>3 DEF IsStep
  <2> HIDE DEF step
  <2> QED BY <1>1, <2>1, RecursionExists
<1>5. f = [j \in 0..n |-> IF j = 0 THEN 0 ELSE cell(j, f[j - 1])]
  <2>1. ASSUME NEW j \in 1..n PROVE f[j] = cell(j, f[j - 1])
    <3>1. j - 1 \in 0..n
      BY <1>1
    <3>2. f[j - 1] \in Nat /\ f[j] = step[<<j, f[j - 1]>>]
      <4> HIDE DEF step
      <4> QED BY <3>1, <1>4 DEF TakesSteps
    <3> QED BY <3>2
  <2> HIDE DEF step
  <2>2. \A j \in 0..n : f[j] = IF j = 0 THEN 0 ELSE cell(j, f[j - 1])
    BY <1>1, <1>4, <2>1 DEF TakesSteps
  <2> QED BY <1>4, <2>2 DEF TakesSteps
<1> HIDE DEF step
<1>6. NextRow(dp, word, b) = [j \in 0..n |-> IF j = 0 THEN 0 ELSE cell(j, NextRow(dp, word, b)[j - 1])]
  BY <1>5 DEF NextRow, cell, n
<1> DEFINE row == NextRow(dp, word, b)
<1> HIDE DEF row
<1>7. row = [j \in 0..n |-> IF j = 0 THEN 0 ELSE cell(j, row[j - 1])]
  BY <1>6 DEF row
<1>8. \A j \in 0..n : row[j] = IF j = 0 THEN 0 ELSE cell(j, row[j - 1])
  BY <1>7
<1>9. \A j \in 0..n : row[j] \in Nat
  <2> DEFINE S == {j \in 0..n : row[j] \in Nat}
  <2>1. 0 \in S
    BY <1>1, <1>8
  <2>2. ASSUME NEW j \in 1..n, j - 1 \in S PROVE j \in S
    <3>1. j \in 0..n /\ j # 0 /\ row[j - 1] \in Nat
      BY <1>1, <2>2
    <3> QED BY <1>2, <1>8, <3>1
  <2> HIDE DEF S
  <2>3. 0..n \subseteq S
    BY <1>1, <2>1, <2>2, IntervalInduction
  <2> QED BY <2>3 DEF S
<1>10. row \in [0..n -> Nat]
  BY <1>7, <1>9
<1>11. row[0] = 0 /\ \A j \in 1..n : row[j] = cell(j, row[j - 1])
  BY <1>1, <1>8
<1> QED BY <1>10, <1>11 DEF row, n, cell

\* A chain has at most as many pairs as the verse has words.
LEMMA LongestBound ==
  ASSUME NEW a, NEW b, NEW i \in Nat, NEW j \in Nat, NEW k, Longest(a, b, i, j, k)
  PROVE  k <= i
<1>1. PICK chain \in Chains(a, b, i, j) : Cardinality(chain) = k
  BY DEF Longest
<1>2. IsFiniteSet(chain) /\ Cardinality(chain) \in Nat
  BY ChainFinite
<1>3. IsFiniteSet(1..i) /\ Cardinality(1..i) = i
  BY FS_Interval
<1> DEFINE f == [p \in chain |-> p[1]]
<1>4. \A p \in chain : p \in (1..i) \X (1..j)
  BY DEF Chains
<1>5. f \in [chain -> 1..i]
  BY <1>4
<1>6. ASSUME NEW p \in chain, NEW q \in chain, f[p] = f[q] PROVE p = q
  BY <1>4, <1>6 DEF Chains, Ordered
<1> HIDE DEF f
<1>7. ~ Cardinality(1..i) < Cardinality(chain)
  BY <1>2, <1>3, <1>5, <1>6, FS_PigeonHole
<1> QED BY <1>1, <1>2, <1>3, <1>7

\* lcsLength, row by row on one array, finds the longest chain.
LEMMA LcsLengthLongest ==
  ASSUME NEW T, NEW a \in Seq(T), NEW b \in Seq(T)
  PROVE  Longest(a, b, Len(a), Len(b), lcsLength(a, b))
<1> DEFINE m == Len(a)
           n == Len(b)
           Rows == [0..n -> Nat]
           zero == [j \in 0..n |-> 0]
           step == [p \in (1..m) \X Rows |-> NextRow(p[2], a[p[1]], b)]
           dp == CHOOSE g : g = [i \in 0..m |-> IF i = 0 THEN zero ELSE NextRow(g[i - 1], a[i], b)]
<1>1. m \in Nat /\ n \in Nat
  BY LenProperties
<1>2. lcsLength(a, b) = dp[m][n]
  BY DEF lcsLength
<1>3. ASSUME NEW row \in Rows, NEW word
      PROVE  /\ NextRow(row, word, b) \in Rows
             /\ NextRow(row, word, b)[0] = 0
             /\ \A j \in 1..n :
                  NextRow(row, word, b)[j] =
                    IF word = b[j] THEN row[j - 1] + 1
                    ELSE IF row[j] < NextRow(row, word, b)[j - 1] THEN NextRow(row, word, b)[j - 1]
                    ELSE row[j]
  BY NextRowCells
<1>4. zero \in Rows /\ \A j \in 0..n : zero[j] = 0
  BY <1>1
<1> HIDE DEF m, n, Rows, zero
<1>5. \E f : f = [i \in 0..m |-> IF i = 0 THEN zero ELSE NextRow(f[i - 1], a[i], b)]
  <2>1. IsStep(step, m, Rows)
    BY <1>3 DEF IsStep
  <2>2. PICK f : TakesSteps(f, m, Rows, zero, step)
    <3> HIDE DEF step
    <3> QED BY <1>1, <1>4, <2>1, RecursionExists
  <2>3. ASSUME NEW i \in 1..m PROVE f[i] = NextRow(f[i - 1], a[i], b)
    <3>1. i - 1 \in 0..m
      BY <1>1
    <3>2. f[i - 1] \in Rows /\ f[i] = step[<<i, f[i - 1]>>]
      <4> HIDE DEF step
      <4> QED BY <3>1, <2>2 DEF TakesSteps
    <3> QED BY <3>2
  <2> HIDE DEF step
  <2>4. \A i \in 0..m : f[i] = IF i = 0 THEN zero ELSE NextRow(f[i - 1], a[i], b)
    BY <1>1, <2>2, <2>3 DEF TakesSteps
  <2> QED BY <2>2, <2>4 DEF TakesSteps
<1>6. dp = [i \in 0..m |-> IF i = 0 THEN zero ELSE NextRow(dp[i - 1], a[i], b)]
  BY <1>5
<1> HIDE DEF dp
<1>7. dp[0] = zero /\ \A i \in 1..m : dp[i] = NextRow(dp[i - 1], a[i], b)
  <2>1. \A i \in 0..m : dp[i] = IF i = 0 THEN zero ELSE NextRow(dp[i - 1], a[i], b)
    BY <1>6
  <2> QED BY <1>1, <2>1
<1> DEFINE S == {i \in 0..m : dp[i] \in Rows /\ \A j \in 0..n : Longest(a, b, i, j, dp[i][j])}
<1>8. 0 \in S
  <2>1. \A j \in 0..n : Longest(a, b, 0, j, dp[0][j])
    BY <1>1, <1>4, <1>7, LongestEmpty
  <2> QED BY <1>1, <1>4, <1>7, <2>1
<1>9. ASSUME NEW i \in 1..m, i - 1 \in S PROVE i \in S
  <2> DEFINE old == dp[i - 1]
             row == dp[i]
             J == {j \in 0..n : Longest(a, b, i, j, row[j])}
  <2>1. old \in Rows /\ \A j \in 0..n : Longest(a, b, i - 1, j, old[j])
    BY <1>9
  <2>2. row = NextRow(old, a[i], b)
    BY <1>7
  <2>3. /\ row \in Rows /\ row[0] = 0
        /\ \A j \in 1..n : row[j] = IF a[i] = b[j] THEN old[j - 1] + 1
                                    ELSE IF old[j] < row[j - 1] THEN row[j - 1] ELSE old[j]
    BY <1>3, <2>1, <2>2
  <2> HIDE DEF old, row
  <2>4. i \in Nat \ {0} /\ i \in 0..m
    BY <1>1
  <2>5. 0 \in J
    BY <1>1, <2>3, <2>4, LongestEmpty
  <2>6. ASSUME NEW j \in 1..n, j - 1 \in J PROVE j \in J
    <3>1. j \in Nat \ {0} /\ j \in 0..n /\ j - 1 \in 0..n
      BY <1>1
    <3>2. Longest(a, b, i, j - 1, row[j - 1])
      BY <2>6
    <3>3. Longest(a, b, i - 1, j - 1, old[j - 1]) /\ Longest(a, b, i - 1, j, old[j])
      BY <2>1, <3>1
    <3>4. CASE a[i] = b[j]
      <4>1. row[j] = old[j - 1] + 1
        BY <2>3, <3>4
      <4>2. Longest(a, b, i, j, old[j - 1] + 1)
        BY <2>4, <3>1, <3>3, <3>4, LongestMatch
      <4> QED BY <3>1, <4>1, <4>2
    <3>5. CASE a[i] # b[j]
      <4>1. row[j] = IF old[j] < row[j - 1] THEN row[j - 1] ELSE old[j]
        BY <2>3, <3>5
      <4>2. Longest(a, b, i, j, IF old[j] < row[j - 1] THEN row[j - 1] ELSE old[j])
        BY <2>4, <3>1, <3>2, <3>3, <3>5, LongestSkip
      <4> QED BY <3>1, <4>1, <4>2
    <3> QED BY <3>4, <3>5
  <2> HIDE DEF J
  <2>7. 0..n \subseteq J
    BY <1>1, <2>5, <2>6, IntervalInduction
  <2>8. \A j \in 0..n : Longest(a, b, i, j, row[j])
    BY <2>7 DEF J
  <2> QED BY <2>3, <2>4, <2>8 DEF row
<1> HIDE DEF S
<1>10. m \in S
  <2>1. 0..m \subseteq S
    BY <1>1, <1>8, <1>9, IntervalInduction
  <2> QED BY <1>1, <2>1
<1>11. Longest(a, b, m, n, dp[m][n])
  BY <1>1, <1>10 DEF S
<1> QED BY <1>2, <1>11 DEF m, n

\* The server's grade is the one that the share of the verse deserves.
THEOREM GradeRecallIsShareGrade ==
  ASSUME NEW T, NEW answer \in Seq(T), NEW attempt \in Seq(T)
  PROVE  GradeRecall(answer, attempt) = ShareGrade(answer, attempt)
<1> DEFINE m == Len(answer)
           n == Len(attempt)
           lcs == lcsLength(answer, attempt)
           sizes == {Cardinality(chain) : chain \in Pairings(answer, attempt)}
<1>1. m \in Nat /\ n \in Nat /\ DOMAIN answer = 1..m /\ DOMAIN attempt = 1..n
  BY LenProperties
<1>2. Pairings(answer, attempt) = Chains(answer, attempt, m, n)
  BY <1>1 DEF Pairings, Chains, Ordered
<1>3. Longest(answer, attempt, m, n, lcs)
  BY LcsLengthLongest
<1> HIDE DEF m, n, lcs
<1>4. lcs \in sizes /\ \A size \in sizes : lcs >= size /\ size \in Nat
  <2>1. \A chain \in Chains(answer, attempt, m, n) : Cardinality(chain) \in Nat
    BY <1>1, ChainFinite
  <2> QED BY <1>2, <1>3, <2>1 DEF Longest
<1> HIDE DEF sizes
<1>5. Max(sizes) = lcs
  <2>1. Max(sizes) \in sizes /\ \A size \in sizes : Max(sizes) >= size
    BY <1>4 DEF Max
  <2> QED BY <1>4, <2>1
<1>6. lcs \in Nat /\ lcs <= m
  BY <1>1, <1>3, LongestBound DEF Longest
<1>7. answer = <<>> <=> m = 0
  BY <1>1 DEF m
<1> QED BY <1>1, <1>5, <1>6, <1>7 DEF GradeRecall, ShareGrade, m, lcs, sizes
-----------------------------------------------------------------------------
\* The rows of course_items: ids below the sequence, each with a verse.
ItemsOK ==
  /\ nextItem \in Nat \ {0}
  /\ DOMAIN items \subseteq 1..nextItem - 1
  /\ \A i \in DOMAIN items : "verse" \in DOMAIN items[i]
  /\ moved \subseteq DOMAIN items

\* The rows of a learner: the attempts are a sequence with ids up to its
\* length, and progress and favourites refer to items.
LearnerOK(u) ==
  /\ attempts[u] \in Seq(Range(attempts[u]))
  /\ \A a \in Range(attempts[u]) : a.id \in 1..Len(attempts[u])
  /\ DOMAIN progress[u] \subseteq DOMAIN items
  /\ favorites[u] \subseteq DOMAIN items

\* An attempt under way: its copies are the items that have the verse whose
\* grade it brings, but for moved ones, and all that have progress are among
\* them.  Practice has no copies.
UnderwayOK(u) ==
  LET try == underway[u]
  IN  /\ try.kind = "graded" => try.item \in DOMAIN items
      /\ try.kind = "spread" =>
           /\ try.copies \subseteq DOMAIN items
           /\ try.row.id = Len(attempts[u]) + 1
           /\ \A j \in try.copies \ moved : items[j].verse = try.row.copied
           /\ try.row.copied # None =>
                \A j \in DOMAIN progress[u] \ moved :
                  items[j].verse = try.row.copied => j \in try.copies

LearnersOK ==
  /\ DOMAIN attempts = Users /\ DOMAIN progress = Users /\ DOMAIN favorites = Users
  /\ DOMAIN underway = Users /\ DOMAIN request = Users
  /\ \A u \in Users : LearnerOK(u) /\ UnderwayOK(u)

\* What an insert into a sequence holds.
LEMMA InsertAtRange ==
  ASSUME NEW s, s \in Seq(Range(s)), NEW e, NEW k \in 1..Len(s) + 1
  PROVE  /\ Range(InsertAt(s, k, e)) = Range(s) \cup {e}
         /\ Len(InsertAt(s, k, e)) = Len(s) + 1
         /\ InsertAt(s, k, e) \in Seq(Range(InsertAt(s, k, e)))
<1> DEFINE T == Range(s) \cup {e}
           front == SubSeq(s, 1, k - 1)
           back  == SubSeq(s, k, Len(s))
           r     == InsertAt(s, k, e)
<1>1. s \in Seq(T) /\ Len(s) \in Nat /\ DOMAIN s = 1..Len(s) /\ \A i \in 1..Len(s) : s[i] \in T
  <2>1. Range(s) \subseteq T
    OBVIOUS
  <2>2. s \in Seq(T)
    BY <2>1, SeqMonotonic
  <2> HIDE DEF T
  <2> QED BY <2>2, LenProperties
<1>2. front \in Seq(T) /\ Len(front) = k - 1 /\ \A i \in 1..k - 1 : front[i] = s[i]
  <2>1. \A i \in 1..k - 1 : s[i] \in T
    BY <1>1
  <2> HIDE DEF T
  <2>2. 1 \in Int /\ k - 1 \in Int
    BY <1>1
  <2>3. /\ front \in Seq(T)
        /\ Len(front) = IF 1 <= k - 1 THEN (k - 1) - 1 + 1 ELSE 0
        /\ \A i \in 1..((k - 1) - 1 + 1) : front[i] = s[1 + i - 1]
    BY <2>1, <2>2, SubSeqProperties
  <2>4. (k - 1) - 1 + 1 = k - 1 /\ \A i \in 1..k - 1 : 1 + i - 1 = i
    BY <2>2
  <2> HIDE DEF front
  <2> QED BY <1>1, <2>3, <2>4
<1>3. /\ back \in Seq(T) /\ Len(back) = Len(s) - k + 1
      /\ \A i \in 1..Len(s) - k + 1 : back[i] = s[k + i - 1]
  <2>1. \A i \in k..Len(s) : s[i] \in T
    BY <1>1
  <2> HIDE DEF T
  <2>2. k \in Int /\ Len(s) \in Int
    BY <1>1
  <2>3. /\ back \in Seq(T)
        /\ Len(back) = IF k <= Len(s) THEN Len(s) - k + 1 ELSE 0
        /\ \A i \in 1..Len(s) - k + 1 : back[i] = s[k + i - 1]
    BY <2>1, <2>2, SubSeqProperties
  <2> HIDE DEF back
  <2> QED BY <1>1, <2>3
<1>4. <<e>> \in Seq(T) /\ Len(<<e>>) = 1 /\ <<e>>[1] = e
  OBVIOUS
<1>5. r = (front \o <<e>>) \o back
  BY DEF InsertAt
<1> HIDE DEF T, front, back, r
<1>6. /\ front \o <<e>> \in Seq(T) /\ Len(front \o <<e>>) = k
      /\ \A i \in 1..k : (front \o <<e>>)[i] = IF i <= k - 1 THEN front[i] ELSE <<e>>[i - (k - 1)]
  BY <1>2, <1>4, ConcatProperties
<1>7. /\ r \in Seq(T) /\ Len(r) = Len(s) + 1
      /\ \A i \in 1..Len(s) + 1 :
           r[i] = IF i <= k THEN (front \o <<e>>)[i] ELSE back[i - k]
  <2> DEFINE upto == front \o <<e>>
  <2>1. upto \in Seq(T) /\ Len(upto) = k /\ r = upto \o back
    BY <1>5, <1>6
  <2> HIDE DEF upto
  <2>2. k + Len(back) = Len(s) + 1
    BY <1>1, <1>3
  <2>3. /\ r \in Seq(T) /\ Len(r) = Len(upto) + Len(back)
        /\ \A i \in 1..Len(upto) + Len(back) :
             r[i] = IF i <= Len(upto) THEN upto[i] ELSE back[i - Len(upto)]
    BY <1>3, <2>1, ConcatProperties, Zenon
  <2>4. /\ r \in Seq(T) /\ Len(r) = Len(s) + 1
        /\ \A i \in 1..Len(s) + 1 : r[i] = IF i <= k THEN upto[i] ELSE back[i - k]
    BY <2>1, <2>2, <2>3, Zenon
  <2> QED BY <2>4 DEF upto
<1>8. \A i \in 1..Len(s) + 1 : r[i] = IF i < k THEN s[i] ELSE IF i = k THEN e ELSE s[i - 1]
  <2> TAKE i \in 1..Len(s) + 1
  <2>1. CASE i < k
    BY <1>1, <1>2, <1>6, <1>7, <2>1
  <2>2. CASE i = k
    BY <1>1, <1>4, <1>6, <1>7, <2>2
  <2>3. CASE i > k
    <3>1. i - k \in 1..Len(s) - k + 1 /\ k + (i - k) - 1 = i - 1
      BY <1>1, <2>3
    <3> QED BY <1>1, <1>3, <1>7, <2>3, <3>1
  <2> QED BY <1>1, <2>1, <2>2, <2>3
<1>9. Range(r) = T
  <2>1. DOMAIN r = 1..Len(s) + 1
    BY <1>7, LenProperties
  <2>2. ASSUME NEW x \in Range(r) PROVE x \in T
    BY <1>7, <2>1, LenProperties DEF Range
  <2>3. e \in Range(r)
    BY <1>1, <1>8, <2>1 DEF Range
  <2>4. ASSUME NEW j \in 1..Len(s) PROVE s[j] \in Range(r)
    <3>1. CASE j < k
      <4>1. j \in 1..Len(s) + 1
        BY <1>1
      <4> QED BY <1>8, <2>1, <3>1, <4>1 DEF Range
    <3>2. CASE j >= k
      <4>1. j + 1 \in 1..Len(s) + 1 /\ (j + 1) - 1 = j /\ j + 1 > k
        BY <1>1, <3>2
      <4>2. r[j + 1] = s[j]
        BY <1>1, <1>8, <4>1
      <4> QED BY <2>1, <4>1, <4>2 DEF Range
    <3> QED BY <1>1, <3>1, <3>2
  <2> QED BY <1>1, <2>2, <2>3, <2>4 DEF T, Range
<1> QED BY <1>7, <1>9 DEF r, T
-----------------------------------------------------------------------------
\* What the seeding does to course_items: rows are added, and a row is given
\* another verse only if it is marked as moved.
Grows ==
  /\ ItemsOK'
  /\ DOMAIN items \subseteq DOMAIN items' /\ moved \subseteq moved'
  /\ \A i \in DOMAIN items \ moved' : items'[i].verse = items[i].verse

\* A row is inserted with a new id, or some rows are updated, whose columns
\* stay the same.
LEMMA InsertOrUpdateGrows ==
  ASSUME ItemsOK, NEW hit \in SUBSET DOMAIN items, NEW row, "verse" \in DOMAIN row, NEW upd,
         \A i \in hit : "verse" \in DOMAIN upd[i],
         \A i \in hit \ moved' : upd[i].verse = items[i].verse,
         items' = IF hit = {} THEN With(items, nextItem, row)
                  ELSE [i \in DOMAIN items |-> IF i \in hit THEN upd[i] ELSE items[i]],
         nextItem' = nextItem + 1,
         moved \subseteq moved', moved' \subseteq DOMAIN items
  PROVE  Grows
<1>1. nextItem \notin DOMAIN items
  BY DEF ItemsOK
<1>2. nextItem' \in Nat \ {0} /\ 1..nextItem' - 1 = 1..nextItem - 1 \cup {nextItem}
  BY DEF ItemsOK
<1>3. CASE hit = {}
  <2>1. items' = With(items, nextItem, row)
    BY <1>3
  <2>2. DOMAIN items' = DOMAIN items \cup {nextItem}
    BY <2>1 DEF With
  <2>3. items'[nextItem] = row /\ \A i \in DOMAIN items : items'[i] = items[i]
    BY <1>1, <2>1 DEF With
  <2> QED BY <1>2, <2>2, <2>3 DEF Grows, ItemsOK
<1>4. CASE hit # {}
  <2>1. items' = [i \in DOMAIN items |-> IF i \in hit THEN upd[i] ELSE items[i]]
    BY <1>4
  <2>2. DOMAIN items' = DOMAIN items
    BY <2>1
  <2>3. \A i \in DOMAIN items : items'[i] = IF i \in hit THEN upd[i] ELSE items[i]
    BY <2>1
  <2> QED BY <1>2, <2>2, <2>3 DEF Grows, ItemsOK
<1> QED BY <1>3, <1>4

\* A verse of a course without sections.
LEMMA InsertItemGrows == ItemsOK /\ InsertItem => Grows
<1> SUFFICES ASSUME ItemsOK, InsertItem PROVE Grows
  OBVIOUS
<1> DEFINE hit == SameVerse(Statement.slug, Statement.verse)
           row == ItemRow(Statement.slug, None, Statement.ord, Statement.verse,
                          Release.topics, Release.english)
           upd == [i \in DOMAIN items |-> [items[i] EXCEPT !.topicEn = Release.english]]
<1>1. items' = IF hit = {} THEN With(items, nextItem, row)
               ELSE [i \in DOMAIN items |-> IF i \in hit THEN upd[i] ELSE items[i]]
  BY DEF InsertItem, InsertOrUpdate
<1>2. nextItem' = nextItem + 1 /\ moved' = moved
  BY DEF InsertItem, InsertOrUpdate
<1>3. hit \in SUBSET DOMAIN items /\ "verse" \in DOMAIN row
  BY DEF SameVerse, ItemRow
<1>4. \A i \in hit : "verse" \in DOMAIN upd[i] /\ upd[i].verse = items[i].verse
  BY <1>3 DEF ItemsOK
<1>5. moved \subseteq DOMAIN items
  BY DEF ItemsOK
<1> HIDE DEF hit, row, upd
<1> QED BY <1>1, <1>2, <1>3, <1>4, <1>5, InsertOrUpdateGrows

\* A slot of a warm-up section: its new verse marks the row as moved.
LEMMA InsertWarmupItemGrows == ItemsOK /\ InsertWarmupItem => Grows
<1> SUFFICES ASSUME ItemsOK, InsertWarmupItem PROVE Grows
  OBVIOUS
<1> DEFINE hit == SameSlot(Statement.slug, Statement.section, Statement.ord)
           row == ItemRow(Statement.slug, Statement.section, Statement.ord, Statement.verse,
                          Release.topics, Release.english)
           upd == [i \in DOMAIN items |-> WarmupUpdate(items[i], Statement.verse)]
<1>1. items' = IF hit = {} THEN With(items, nextItem, row)
               ELSE [i \in DOMAIN items |-> IF i \in hit THEN upd[i] ELSE items[i]]
  BY DEF InsertWarmupItem, InsertOrUpdate
<1>2. nextItem' = nextItem + 1 /\ moved' = moved \cup {i \in hit : items[i].verse # Statement.verse}
  BY DEF InsertWarmupItem, InsertOrUpdate
<1>3. hit \in SUBSET DOMAIN items /\ "verse" \in DOMAIN row
  BY DEF SameSlot, ItemRow
<1>4. \A i \in hit : "verse" \in DOMAIN upd[i] /\ upd[i].verse = Statement.verse
  BY <1>3 DEF ItemsOK, WarmupUpdate
<1>5. moved \subseteq moved' /\ moved' \subseteq DOMAIN items
  BY <1>2, <1>3 DEF ItemsOK
<1> HIDE DEF hit, row, upd
<1> QED BY <1>1, <1>2, <1>3, <1>4, <1>5, InsertOrUpdateGrows

\* A slot of a section of the prophecies, whose verse is not written again.
LEMMA InsertMessiahItemGrows == ItemsOK /\ InsertMessiahItem => Grows
<1> SUFFICES ASSUME ItemsOK, InsertMessiahItem PROVE Grows
  OBVIOUS
<1> DEFINE hit == SameSlot(Statement.slug, Statement.section, Statement.ord)
           row == ItemRow(Statement.slug, Statement.section, Statement.ord, Statement.verse,
                          Release.topics, Release.english)
           upd == [i \in DOMAIN items |-> [items[i] EXCEPT !.topicEn = Release.english]]
<1>1. items' = IF hit = {} THEN With(items, nextItem, row)
               ELSE [i \in DOMAIN items |-> IF i \in hit THEN upd[i] ELSE items[i]]
  BY DEF InsertMessiahItem, InsertOrUpdate
<1>2. nextItem' = nextItem + 1 /\ moved' = moved
  BY DEF InsertMessiahItem, InsertOrUpdate
<1>3. hit \in SUBSET DOMAIN items /\ "verse" \in DOMAIN row
  BY DEF SameSlot, ItemRow
<1>4. \A i \in hit : "verse" \in DOMAIN upd[i] /\ upd[i].verse = items[i].verse
  BY <1>3 DEF ItemsOK
<1>5. moved \subseteq DOMAIN items
  BY DEF ItemsOK
<1> HIDE DEF hit, row, upd
<1> QED BY <1>1, <1>2, <1>3, <1>4, <1>5, InsertOrUpdateGrows

\* A chapter: the ids of its new rows are among those that the sequence gives.
LEMMA InsertChapterGrows == ItemsOK /\ InsertChapter => Grows
<1> SUFFICES ASSUME ItemsOK, InsertChapter PROVE Grows
  OBVIOUS
<1> DEFINE chapter == VersesIn(Statement.num, Statement.section)
           Before(v) == {w \in chapter : Place[w].verse < Place[v].verse}
           IdOf(v) == nextItem + Cardinality(Before(v))
           new == {v \in chapter : SameSlot(Statement.slug, Statement.section, Place[v].verse) = {}}
           ids == {IdOf(v) : v \in new}
<1>1. IsFiniteSet(chapter) /\ Cardinality(chapter) \in Nat
  <2>1. IsFiniteSet(Verses) /\ chapter \in SUBSET Verses
    BY CatalogAssumption DEF CatalogAssumption, VersesIn
  <2> QED BY <2>1, FS_Subset, FS_CardinalityType
<1>2. ASSUME NEW v \in chapter
      PROVE  Cardinality(Before(v)) \in 0..Cardinality(chapter) - 1
  <2>1. Before(v) \in SUBSET chapter
    OBVIOUS
  <2>2. Place[v].verse \in Nat
    BY CatalogAssumption DEF CatalogAssumption, VersesIn
  <2>3. v \notin Before(v)
    BY <2>2
  <2> HIDE DEF Before, chapter
  <2>4. /\ IsFiniteSet(Before(v)) /\ Cardinality(Before(v)) <= Cardinality(chapter)
        /\ Cardinality(chapter) = Cardinality(Before(v)) => chapter = Before(v)
    BY <1>1, <2>1, FS_Subset
  <2>5. Cardinality(Before(v)) \in Nat
    BY <2>4, FS_CardinalityType
  <2> QED BY <1>1, <2>3, <2>4, <2>5
<1>3. ids \subseteq nextItem..nextItem + Cardinality(chapter) - 1
  <2> SUFFICES ASSUME NEW v \in new
               PROVE  IdOf(v) \in nextItem..nextItem + Cardinality(chapter) - 1
    OBVIOUS
  <2>1. Cardinality(Before(v)) \in 0..Cardinality(chapter) - 1
    BY <1>2
  <2> HIDE DEF Before, chapter
  <2> QED BY <1>1, <2>1 DEF ItemsOK
<1>4. nextItem' = nextItem + Cardinality(chapter) /\ moved' = moved
  BY DEF InsertChapter
<1>5. /\ DOMAIN items' = DOMAIN items \cup ids
      /\ \A i \in DOMAIN items : items'[i] = items[i]
      /\ \A i \in ids \ DOMAIN items : "verse" \in DOMAIN items'[i]
  BY DEF InsertChapter, ItemRow
<1> HIDE DEF chapter, ids
<1>6. nextItem' \in Nat \ {0} /\ DOMAIN items' \subseteq 1..nextItem' - 1
  <2>1. PICK c \in Nat : ids \subseteq nextItem..nextItem + c - 1 /\ nextItem' = nextItem + c
    BY <1>1, <1>3, <1>4
  <2>2. nextItem' \in Nat \ {0} /\ nextItem <= nextItem'
    BY <2>1 DEF ItemsOK
  <2>3. ASSUME NEW i \in ids PROVE i \in 1..nextItem' - 1
    BY <2>1, <2>3 DEF ItemsOK
  <2>4. ASSUME NEW i \in DOMAIN items PROVE i \in 1..nextItem' - 1
    BY <2>2, <2>4 DEF ItemsOK
  <2> QED BY <1>5, <2>2, <2>3, <2>4
<1> QED BY <1>4, <1>5, <1>6 DEF Grows, ItemsOK

\* Every step of the seeding.
LEMMA SeedGrows == ItemsOK /\ Seed => Grows
<1> SUFFICES ASSUME ItemsOK, Seed PROVE Grows
  OBVIOUS
<1> DEFINE Untouched == UNCHANGED <<items, nextItem, moved>>
<1>1. Untouched => Grows
  BY DEF Grows, ItemsOK
<1>2. UpsertCourse \/ UpsertSection \/ CrashSeed => Untouched
  BY DEF UpsertCourse, UpsertSection, CrashSeed
<1>3. \A slug \in DOMAIN Release.commentary : UpdateCommentary(slug) => Untouched
  BY DEF UpdateCommentary
<1>4. PassChapter \/ (\E r \in Releases : StartSeed(r)) => Untouched
  BY DEF PassChapter, StartSeed
<1> HIDE DEF Untouched
<1> QED BY <1>1, <1>2, <1>3, <1>4, InsertItemGrows, InsertWarmupItemGrows, InsertMessiahItemGrows,
           InsertChapterGrows DEF Seed, SeedStatement
-----------------------------------------------------------------------------
Inv == ItemsOK /\ LearnersOK /\ ProgressFollowsLast

\* A query or an answer writes nothing.
Reads == UNCHANGED <<items, nextItem, moved, attempts, progress, favorites, underway>>

\* No item is without a verse.
VersesGiven == \A i \in DOMAIN items : items[i].verse # None

\* The tables are empty at first.
LEMMA InitInv == Init => Inv
<1> SUFFICES ASSUME Init PROVE Inv
  OBVIOUS
<1>1. ItemsOK
  BY DEF Init, CatalogInit, ItemsOK
<1>2. ASSUME NEW u \in Users PROVE attempts[u] = <<>> /\ DOMAIN progress[u] = {} /\ favorites[u] = {}
  BY DEF Init
<1>3. ASSUME NEW u \in Users PROVE LearnerOK(u)
  <2>1. Range(attempts[u]) = {}
    BY <1>2 DEF Range
  <2>2. attempts[u] \in Seq(Range(attempts[u]))
    BY <1>2, EmptySeq
  <2> QED BY <1>2, <2>1, <2>2 DEF LearnerOK
<1>4. LearnersOK
  <2>1. \A u \in Users : UnderwayOK(u)
    BY DEF Init, Idle, UnderwayOK
  <2> QED BY <1>3, <2>1 DEF LearnersOK, Init
<1>5. ProgressFollowsLast
  BY <1>2 DEF ProgressFollowsLast
<1> QED BY <1>1, <1>4, <1>5 DEF Inv

\* Steps that write nothing keep what is said of the tables.
LEMMA ReadsKeep ==
  ASSUME Inv, Reads, DOMAIN request' = Users
  PROVE  Inv'
<1>1. ItemsOK'
  BY DEF Inv, Reads, ItemsOK
<1>2. LearnersOK'
  BY DEF Inv, Reads, LearnersOK, LearnerOK, UnderwayOK
<1>3. ProgressFollowsLast'
  BY DEF Inv, Reads, ProgressFollowsLast, Tries
<1> QED BY <1>1, <1>2, <1>3 DEF Inv

\* A step of the seeding: rows that learners refer to stay, with their verse.
LEMMA SeedKeeps == Inv /\ Seed => Inv'
<1> SUFFICES ASSUME Inv, Seed PROVE Inv'
  OBVIOUS
<1>1. Grows
  BY SeedGrows DEF Inv
<1>2. UNCHANGED <<attempts, progress, favorites, underway>> /\ DOMAIN request' = Users
  BY DEF Seed, Disturbed, Inv, LearnersOK
<1>3. LearnersOK'
  <2>1. ASSUME NEW u \in Users PROVE LearnerOK(u)'
    BY <1>1, <1>2 DEF Inv, LearnersOK, LearnerOK, Grows
  <2>2. ASSUME NEW u \in Users PROVE UnderwayOK(u)'
    <3>1. UnderwayOK(u) /\ DOMAIN progress[u] \subseteq DOMAIN items
      BY DEF Inv, LearnersOK, LearnerOK
    <3>2. /\ DOMAIN items \subseteq DOMAIN items' /\ moved \subseteq moved'
          /\ \A i \in DOMAIN items \ moved' : items'[i].verse = items[i].verse
      BY <1>1 DEF Grows
    <3> QED BY <1>2, <3>1, <3>2 DEF UnderwayOK
  <2> QED BY <1>2, <2>1, <2>2 DEF Inv, LearnersOK
<1>4. ProgressFollowsLast'
  <2> SUFFICES ASSUME NEW u \in Users, NEW i \in DOMAIN progress[u] \ moved'
               PROVE  \E last \in Tries(u, items'[i].verse) :
                        /\ \A a \in Tries(u, items'[i].verse) : a.id <= last.id
                        /\ progress[u][i] = last.grade
    BY <1>2 DEF ProgressFollowsLast, Tries
  <2>1. i \in DOMAIN items /\ i \notin moved
    BY <1>1 DEF Inv, LearnersOK, LearnerOK, Grows
  <2>2. items'[i].verse = items[i].verse
    BY <1>1, <2>1 DEF Grows
  <2> QED BY <2>1, <2>2 DEF Inv, ProgressFollowsLast
<1> QED BY <1>1, <1>3, <1>4 DEF Inv, Grows

\* A reload of the Bible text leaves no rows behind.
LEMMA ReloadKeeps == Inv /\ Reload => Inv'
<1> SUFFICES ASSUME Inv, Reload PROVE Inv'
  OBVIOUS
<1>1. items' = <<>> /\ nextItem' = 1 /\ moved' = {}
  BY DEF Reload, TruncateItems
<1>2. ASSUME NEW u \in Users
      PROVE  attempts'[u] = <<>> /\ DOMAIN progress'[u] = {} /\ favorites'[u] = {}
  BY DEF Reload
<1>3. ASSUME NEW u \in Users PROVE LearnerOK(u)'
  <2>1. Range(attempts'[u]) = {}
    BY <1>2 DEF Range
  <2>2. attempts'[u] \in Seq(Range(attempts'[u]))
    BY <1>2, EmptySeq
  <2> QED BY <1>2, <2>1, <2>2 DEF LearnerOK
<1>4. LearnersOK'
  <2>1. /\ DOMAIN attempts' = Users /\ DOMAIN progress' = Users /\ DOMAIN favorites' = Users
        /\ DOMAIN underway' = Users /\ DOMAIN request' = Users
    BY DEF Reload, Disturbed, Inv, LearnersOK
  <2>2. \A u \in Users : UnderwayOK(u)'
    BY DEF Reload, Idle, UnderwayOK
  <2> QED BY <1>3, <2>1, <2>2 DEF LearnersOK
<1>5. ProgressFollowsLast'
  BY <1>2 DEF ProgressFollowsLast
<1> QED BY <1>1, <1>4, <1>5 DEF Inv, ItemsOK

\* Favourites are for items that exist.
LEMMA FavoritesKeep ==
  ASSUME Inv, NEW u \in Users, NEW i \in DOMAIN items, AddFavorite(u, i) \/ RemoveFavorite(u, i)
  PROVE  Inv'
<1>1. UNCHANGED <<items, nextItem, moved, attempts, progress, underway, request>>
  BY DEF AddFavorite, RemoveFavorite, catalogVars
<1>2. /\ DOMAIN favorites' = Users
      /\ \A v \in Users : favorites'[v] \subseteq favorites[v] \cup {i}
  BY DEF AddFavorite, RemoveFavorite, Inv, LearnersOK
<1>3. LearnersOK'
  BY <1>1, <1>2 DEF Inv, LearnersOK, LearnerOK, UnderwayOK
<1>4. ProgressFollowsLast'
  BY <1>1 DEF Inv, ProgressFollowsLast, Tries
<1> QED BY <1>1, <1>3, <1>4 DEF Inv, ItemsOK

\* An attempt before its commit, or undone, is seen by nobody.
Prepares(u) ==
  \/ \E i \in DOMAIN items : \E x \in Recitals : StartAttempt(u, i, x)
  \/ ListSiblings(u) \/ FailAttempt(u)

\* What such a step leaves alone.
LEMMA PreparesRead ==
  ASSUME NEW u \in Users, Prepares(u)
  PROVE  UNCHANGED <<catalogVars, attempts, progress, favorites, request>>
BY DEF Prepares, StartAttempt, ListSiblings, FailAttempt

\* The copies of an attempt are those of the verse that its item has when they
\* are listed.
LEMMA PreparesKeep ==
  ASSUME Inv, NEW u \in Users, Prepares(u)
  PROVE  Inv'
<1>1. UNCHANGED <<items, nextItem, moved, attempts, progress, favorites, request>>
  BY PreparesRead DEF catalogVars
<1>2. PICK try : underway' = [underway EXCEPT ![u] = try]
  BY DEF Prepares, StartAttempt, ListSiblings, FailAttempt
<1>3. /\ DOMAIN underway' = Users /\ underway'[u] = try
      /\ \A v \in Users \ {u} : underway'[v] = underway[v]
  BY <1>2 DEF Inv, LearnersOK
<1>4. UnderwayOK(u)'
  <2>1. CASE \E i \in DOMAIN items : \E x \in Recitals : StartAttempt(u, i, x)
    <3>1. try.kind = "graded" /\ try.item \in DOMAIN items
      BY <1>3, <2>1 DEF StartAttempt, Inv, LearnersOK
    <3> QED BY <1>1, <1>3, <3>1 DEF UnderwayOK
  <2>2. CASE ListSiblings(u)
    <3>1. PICK item : item = underway[u].item /\ item \in DOMAIN items
      BY <2>2 DEF ListSiblings, Inv, LearnersOK, UnderwayOK
    <3>2. /\ try.kind = "spread" /\ try.row.id = Len(attempts[u]) + 1
          /\ \/ try.row.copied = None /\ try.copies = {}
             \/ try.row.copied = items[item].verse /\ try.copies = Siblings(item)
      BY <1>3, <2>2, <3>1 DEF ListSiblings, Inv, LearnersOK
    <3>3. \A j \in DOMAIN items : j \in Siblings(item) <=> items[j].verse = items[item].verse
      BY DEF Siblings
    <3>4. Siblings(item) \subseteq DOMAIN items /\ DOMAIN progress[u] \subseteq DOMAIN items
      BY DEF Siblings, Inv, LearnersOK, LearnerOK
    <3> QED BY <1>1, <1>3, <3>2, <3>3, <3>4 DEF UnderwayOK
  <2>3. CASE FailAttempt(u)
    <3>1. try.kind = "idle"
      BY <1>3, <2>3 DEF FailAttempt, Idle, Inv, LearnersOK
    <3> QED BY <1>3, <3>1 DEF UnderwayOK
  <2> QED BY <2>1, <2>2, <2>3 DEF Prepares
<1>5. LearnersOK'
  <2>1. ASSUME NEW v \in Users PROVE LearnerOK(v)'
    BY <1>1 DEF Inv, LearnersOK, LearnerOK
  <2>2. ASSUME NEW v \in Users \ {u} PROVE UnderwayOK(v)'
    BY <1>1, <1>3 DEF Inv, LearnersOK, UnderwayOK
  <2> QED BY <1>1, <1>3, <1>4, <2>1, <2>2 DEF Inv, LearnersOK
<1>6. ProgressFollowsLast'
  BY <1>1 DEF Inv, ProgressFollowsLast, Tries
<1> QED BY <1>1, <1>5, <1>6 DEF Inv, ItemsOK

\* A committed attempt is the last one copied to its verse, and its grade is
\* that of every item with the verse, but for moved ones.
LEMMA CommitKeeps ==
  ASSUME Inv, VersesGiven, NEW u \in Users, CommitAttempt(u)
  PROVE  Inv'
<1>1. /\ UNCHANGED <<items, nextItem, moved, favorites>>
      /\ DOMAIN attempts' = Users /\ DOMAIN request' = Users
      /\ \A v \in Users \ {u} : attempts'[v] = attempts[v]
  BY DEF CommitAttempt, catalogVars, Disturbed, Inv, LearnersOK
<1>2. PICK row, copies : row = underway[u].row /\ copies = underway[u].copies
  OBVIOUS
<1>3. PICK k \in 1..Len(attempts[u]) + 1 : attempts'[u] = InsertAt(attempts[u], k, row)
  BY <1>2 DEF CommitAttempt, Inv, LearnersOK
<1>4. /\ DOMAIN progress' = Users
      /\ \A v \in Users \ {u} : progress'[v] = progress[v]
      /\ progress'[u] = UpsertProgress(progress[u], copies, row.grade)
  BY <1>2 DEF CommitAttempt, Inv, LearnersOK
<1>5. /\ DOMAIN underway' = Users /\ underway'[u].kind = "idle"
      /\ \A v \in Users \ {u} : underway'[v] = underway[v]
  BY DEF CommitAttempt, Idle, Inv, LearnersOK
<1>6. Len(attempts[u]) \in Nat /\ \A a \in Range(attempts[u]) : a.id \in 1..Len(attempts[u])
  BY LenProperties DEF Inv, LearnersOK, LearnerOK
<1>7. /\ copies \subseteq DOMAIN items /\ row.id = Len(attempts[u]) + 1
      /\ \A j \in copies \ moved : items[j].verse = row.copied
      /\ row.copied # None =>
           \A j \in DOMAIN progress[u] \ moved : items[j].verse = row.copied => j \in copies
  BY <1>2 DEF CommitAttempt, Inv, LearnersOK, UnderwayOK
<1>8. /\ Range(attempts'[u]) = Range(attempts[u]) \cup {row}
      /\ Len(attempts'[u]) = Len(attempts[u]) + 1
      /\ attempts'[u] \in Seq(Range(attempts'[u]))
  BY <1>3, InsertAtRange DEF Inv, LearnersOK, LearnerOK
<1>9. LearnersOK'
  <2>1. ASSUME NEW v \in Users \ {u} PROVE LearnerOK(v)' /\ UnderwayOK(v)'
    BY <1>1, <1>4, <1>5, <2>1 DEF Inv, LearnersOK, LearnerOK, UnderwayOK
  <2>2. DOMAIN progress'[u] \subseteq DOMAIN items
    BY <1>4, <1>7 DEF UpsertProgress, Inv, LearnersOK, LearnerOK
  <2>3. \A a \in Range(attempts'[u]) : a.id \in 1..Len(attempts'[u])
    BY <1>6, <1>7, <1>8
  <2>4. LearnerOK(u)'
    BY <1>1, <1>8, <2>2, <2>3 DEF Inv, LearnersOK, LearnerOK
  <2>5. UnderwayOK(u)'
    BY <1>5 DEF UnderwayOK
  <2> QED BY <1>1, <1>4, <1>5, <2>1, <2>4, <2>5 DEF Inv, LearnersOK
<1>10. ProgressFollowsLast'
  <2> SUFFICES ASSUME NEW v \in Users, NEW j \in DOMAIN progress'[v] \ moved
               PROVE  \E last \in Tries(v, items[j].verse)' :
                        /\ \A a \in Tries(v, items[j].verse)' : a.id <= last.id
                        /\ progress'[v][j] = last.grade
    BY <1>1 DEF ProgressFollowsLast, Tries
  <2>1. CASE v # u
    <3>1. attempts'[v] = attempts[v] /\ progress'[v] = progress[v]
      BY <1>1, <1>4, <2>1
    <3> QED BY <1>1, <3>1 DEF Inv, ProgressFollowsLast, Tries
  <2>2. CASE v = u /\ j \notin copies
    <3>1. j \in DOMAIN progress[u] /\ progress'[u][j] = progress[u][j]
      BY <1>4, <2>2 DEF UpsertProgress
    <3>2. items[j].verse # None
      BY <3>1 DEF VersesGiven, Inv, LearnersOK, LearnerOK
    <3>3. row.copied # items[j].verse
      BY <1>7, <2>2, <3>1, <3>2
    <3>4. Tries(u, items[j].verse)' = Tries(u, items[j].verse)
      BY <1>1, <1>8, <3>3 DEF Tries
    <3> QED BY <2>2, <3>1, <3>4 DEF Inv, ProgressFollowsLast
  <2>3. CASE v = u /\ j \in copies
    <3>1. progress'[u][j] = row.grade
      BY <1>4, <2>3 DEF UpsertProgress
    <3>2. items[j].verse = row.copied
      BY <1>7, <2>3
    <3>3. row \in Tries(u, items[j].verse)'
      BY <1>1, <1>8, <3>2 DEF Tries
    <3>4. \A a \in Tries(u, items[j].verse)' : a.id <= row.id
      BY <1>6, <1>7, <1>8 DEF Tries
    <3> QED BY <2>3, <3>1, <3>3, <3>4
  <2> QED BY <2>1, <2>2, <2>3
<1> QED BY <1>1, <1>9, <1>10 DEF Inv, ItemsOK

\* Queries and answers.
LEMMA QueriesRead ==
  ASSUME Inv, NEW u \in Users,
         \/ GetLastAttempt(u) \/ GetNextUnclearedItem(u) \/ StartStats(u) \/ NextFigure(u)
         \/ StartProgress(u) \/ ListUserProgress(u) \/ Deliver(u)
  PROVE  Reads /\ DOMAIN request' = Users
BY DEF GetLastAttempt, GetNextUnclearedItem, StartStats, NextFigure, StartProgress,
       ListUserProgress, Deliver, catalogVars, Reads, Inv, LearnersOK

\* The invariant of every step.
LEMMA NextInv == Inv /\ VersesGiven /\ [Next]_vars => Inv'
<1> SUFFICES ASSUME Inv, VersesGiven, [Next]_vars PROVE Inv'
  OBVIOUS
<1>1. CASE Seed
  BY <1>1, SeedKeeps
<1>2. CASE Reload
  BY <1>2, ReloadKeeps
<1>3. ASSUME NEW u \in Users, NEW i \in DOMAIN items,
             AddFavorite(u, i) \/ RemoveFavorite(u, i)
      PROVE  Inv'
  BY <1>3, FavoritesKeep
<1>4. ASSUME NEW u \in Users,
             \/ GetLastAttempt(u) \/ GetNextUnclearedItem(u) \/ StartStats(u) \/ NextFigure(u)
             \/ StartProgress(u) \/ ListUserProgress(u) \/ Deliver(u)
      PROVE  Inv'
  BY <1>4, QueriesRead, ReadsKeep
<1>5. CASE UNCHANGED vars
  BY <1>5, ReadsKeep DEF vars, Reads, Inv, LearnersOK
<1>6. ASSUME NEW u \in Users, Prepares(u) \/ CommitAttempt(u) PROVE Inv'
  BY <1>6, PreparesKeep, CommitKeeps
<1> QED BY <1>1, <1>2, <1>3, <1>4, <1>5, <1>6 DEF Next, Prepares

-----------------------------------------------------------------------------
(* Sequences of statements: as functions of their index, and flattened.     *)

\* A function of the numbers up to n is a sequence.
LEMMA SequenceOf ==
  ASSUME NEW n \in Nat, NEW S, NEW f \in [1..n -> S]
  PROVE  f \in Seq(S) /\ Len(f) = n /\ DOMAIN f = 1..n
<1>1. f \in Seq(S)
  BY SeqDef
<1>2. Len(f) \in Nat /\ DOMAIN f = 1..Len(f) /\ DOMAIN f = 1..n
  BY <1>1, LenProperties
<1>3. Len(f) = n
  <2>1. \A i \in 1..Len(f) : i <= n
    BY <1>2
  <2>2. \A i \in 1..n : i <= Len(f)
    BY <1>2
  <2> QED BY <1>2, <2>1, <2>2
<1> QED BY <1>1, <1>2, <1>3

\* FlattenSeq puts the sequences together one after the other.
LEMMA FlattenUnfolds ==
  ASSUME NEW T, NEW seqs \in Seq(Seq(T))
  PROVE  \E f \in [0..Len(seqs) -> Seq(T)] :
           /\ f[0] = <<>>
           /\ \A k \in 1..Len(seqs) : f[k] = f[k - 1] \o seqs[k]
           /\ FlattenSeq(seqs) = f[Len(seqs)]
<1> DEFINE n == Len(seqs)
           step == [p \in (1..n) \X Seq(T) |-> p[2] \o seqs[p[1]]]
<1>1. n \in Nat /\ \A k \in 1..n : seqs[k] \in Seq(T)
  BY LenProperties, ElementOfSeq
<1>2. <<>> \in Seq(T)
  BY EmptySeq
<1>3. PICK f : TakesSteps(f, n, Seq(T), <<>>, step)
  <2>1. \A p \in (1..n) \X Seq(T) : p[2] \o seqs[p[1]] \in Seq(T)
    BY <1>1, ConcatProperties
  <2>2. IsStep(step, n, Seq(T))
    BY <2>1 DEF IsStep
  <2> HIDE DEF step, n
  <2> QED BY <1>1, <1>2, <2>2, RecursionExists
<1>4. f \in [0..n -> Seq(T)] /\ f[0] = <<>>
  <2> HIDE DEF step, n
  <2> QED BY <1>3 DEF TakesSteps
<1>5. ASSUME NEW k \in 1..n PROVE f[k] = f[k - 1] \o seqs[k]
  <2> HIDE DEF n
  <2>1. k - 1 \in 0..n
    BY <1>1
  <2>2. f[k - 1] \in Seq(T) /\ f[k] = step[<<k, f[k - 1]>>]
    <3> HIDE DEF step
    <3> QED BY <2>1, <1>3 DEF TakesSteps
  <2> QED BY <2>2
<1>6. FlattenSeq(seqs) = f[n]
  <2>1. CASE n = 0
    <3>1. seqs = <<>>
      BY <2>1, EmptySeq
    <3> QED BY <1>4, <2>1, <3>1 DEF FlattenSeq
  <2>2. CASE n # 0
    <3> DEFINE g == [i \in 1..n |-> f[i]]
               flatten == CHOOSE h : h = [i \in 1..n |-> IF i = 1 THEN seqs[i] ELSE h[i - 1] \o seqs[i]]
    <3>1. FlattenSeq(seqs) = flatten[n]
      BY <2>2 DEF FlattenSeq
    <3> HIDE DEF n, step
    <3>2. f[1] = seqs[1]
      <4>1. 1 \in 1..n /\ 1 - 1 = 0
        BY <1>1, <2>2
      <4>2. f[1] = <<>> \o seqs[1]
        BY <1>4, <1>5, <4>1
      <4>3. <<>> \o seqs[1] = seqs[1]
        BY <1>1, <4>1, ConcatEmptySeq
      <4> QED BY <4>2, <4>3
    <3>3. \A i \in 1..n : g[i] = IF i = 1 THEN seqs[i] ELSE g[i - 1] \o seqs[i]
      <4> SUFFICES ASSUME NEW i \in 1..n PROVE g[i] = IF i = 1 THEN seqs[i] ELSE g[i - 1] \o seqs[i]
        OBVIOUS
      <4>1. CASE i = 1
        BY <3>2, <4>1
      <4>2. CASE i # 1
        <5>1. i - 1 \in 1..n
          BY <1>1, <4>2
        <5>2. g[i] = f[i] /\ g[i - 1] = f[i - 1]
          BY <5>1
        <5> HIDE DEF g
        <5> QED BY <1>5, <4>2, <5>2
      <4> QED BY <4>1, <4>2
    <3>4. g = [i \in 1..n |-> IF i = 1 THEN seqs[i] ELSE g[i - 1] \o seqs[i]]
      BY <3>3
    <3> HIDE DEF g
    <3>5. flatten = [i \in 1..n |-> IF i = 1 THEN seqs[i] ELSE flatten[i - 1] \o seqs[i]]
      BY <3>4
    <3> HIDE DEF flatten
    <3>6. \A i \in 1..n : flatten[i] = IF i = 1 THEN seqs[i] ELSE flatten[i - 1] \o seqs[i]
      BY <3>5
    <3> DEFINE S == {i \in 0..n : i # 0 => flatten[i] = f[i]}
    <3>7. 0 \in S
      BY <1>1
    <3>8. ASSUME NEW i \in 1..n, i - 1 \in S PROVE i \in S
      <4>1. CASE i = 1
        BY <1>1, <3>2, <3>6, <4>1
      <4>2. CASE i # 1
        <5>1. flatten[i - 1] = f[i - 1]
          BY <1>1, <3>8, <4>2
        <5>2. f[i] = f[i - 1] \o seqs[i]
          BY <1>5
        <5>3. flatten[i] = flatten[i - 1] \o seqs[i]
          BY <3>6, <4>2
        <5>4. i \in 0..n
          BY <1>1
        <5> QED BY <5>1, <5>2, <5>3, <5>4
      <4> QED BY <4>1, <4>2
    <3> HIDE DEF S
    <3>9. 0..n \subseteq S
      BY <1>1, <3>7, <3>8, IntervalInduction
    <3>10. n \in S
      BY <1>1, <3>9
    <3> QED BY <2>2, <3>1, <3>10 DEF S
  <2> QED BY <2>1, <2>2
<1> QED BY <1>4, <1>5, <1>6

\* What is closed under putting sequences together holds of the whole.
LEMMA FlattenClosed ==
  ASSUME NEW T, NEW G \in SUBSET Seq(T), <<>> \in G, \A p, q \in G : p \o q \in G,
         NEW seqs \in Seq(G)
  PROVE  FlattenSeq(seqs) \in G
<1>1. seqs \in Seq(Seq(T))
  BY SeqMonotonic
<1>2. Len(seqs) \in Nat /\ \A k \in 1..Len(seqs) : seqs[k] \in G
  BY LenProperties, ElementOfSeq
<1>3. PICK f \in [0..Len(seqs) -> Seq(T)] :
           /\ f[0] = <<>>
           /\ \A k \in 1..Len(seqs) : f[k] = f[k - 1] \o seqs[k]
           /\ FlattenSeq(seqs) = f[Len(seqs)]
  BY <1>1, FlattenUnfolds
<1> DEFINE S == {k \in 0..Len(seqs) : f[k] \in G}
<1>4. 0 \in S
  BY <1>2, <1>3
<1>5. ASSUME NEW k \in 1..Len(seqs), k - 1 \in S PROVE k \in S
  <2>1. k \in 0..Len(seqs) /\ f[k - 1] \in G /\ seqs[k] \in G
    BY <1>2, <1>5
  <2>2. f[k - 1] \o seqs[k] \in G
    BY <2>1
  <2> QED BY <1>3, <2>1, <2>2
<1> HIDE DEF S
<1>6. 0..Len(seqs) \subseteq S
  BY <1>2, <1>4, <1>5, IntervalInduction
<1>7. Len(seqs) \in S
  BY <1>2, <1>6
<1> QED BY <1>3, <1>7 DEF S

\* Each element of each sequence is in the whole.
LEMMA FlattenHolds ==
  ASSUME NEW T, NEW seqs \in Seq(Seq(T)), NEW k \in 1..Len(seqs), NEW j \in 1..Len(seqs[k])
  PROVE  \E i \in 1..Len(FlattenSeq(seqs)) : FlattenSeq(seqs)[i] = seqs[k][j]
<1> DEFINE n == Len(seqs)
           e == seqs[k][j]
<1>1. n \in Nat /\ \A m \in 1..n : seqs[m] \in Seq(T)
  BY LenProperties, ElementOfSeq
<1>2. PICK f \in [0..n -> Seq(T)] :
           /\ f[0] = <<>>
           /\ \A m \in 1..n : f[m] = f[m - 1] \o seqs[m]
           /\ FlattenSeq(seqs) = f[n]
  BY FlattenUnfolds
<1> DEFINE Has(s) == \E i \in 1..Len(s) : s[i] = e
           S == {m \in 0..n : m >= k => Has(f[m])}
<1>3. 0 \in S
  BY <1>1
<1>4. ASSUME NEW m \in 1..n, m - 1 \in S PROVE m \in S
  <2>1. m - 1 \in 0..n /\ m \in 0..n
    BY <1>1
  <2>2. f[m - 1] \in Seq(T) /\ seqs[m] \in Seq(T) /\ f[m] = f[m - 1] \o seqs[m]
    BY <1>1, <1>2, <2>1
  <2> DEFINE p == f[m - 1]
             q == seqs[m]
             r == f[m]
  <2>3. Len(p) \in Nat /\ Len(q) \in Nat
    BY <2>2, LenProperties
  <2>4. /\ Len(r) = Len(p) + Len(q)
        /\ \A i \in 1..Len(p) + Len(q) : r[i] = IF i <= Len(p) THEN p[i] ELSE q[i - Len(p)]
    <3>1. p \in Seq(T) /\ q \in Seq(T) /\ r = p \o q
      BY <2>2
    <3> HIDE DEF p, q, r
    <3> QED BY <3>1, ConcatProperties
  <2>5. CASE m > k
    <3>1. Has(p)
      BY <1>1, <1>4, <2>5
    <3> HIDE DEF p, q, r, e
    <3>2. PICK i \in 1..Len(p) : p[i] = e
      BY <3>1
    <3>3. i \in 1..Len(r) /\ r[i] = e
      BY <2>3, <2>4, <3>2
    <3> QED BY <2>1, <3>3 DEF r
  <2>6. CASE m = k
    <3>1. q[j] = e /\ j \in 1..Len(q)
      BY <2>6
    <3> HIDE DEF p, q, r, e
    <3>2. j \in Nat /\ 1 <= j /\ j <= Len(q)
      BY <2>3, <3>1
    <3>3. Len(p) + j \in 1..Len(p) + Len(q)
      BY <2>3, <3>2
    <3>4. ~ (Len(p) + j <= Len(p)) /\ (Len(p) + j) - Len(p) = j
      BY <2>3, <3>2
    <3>5. r[Len(p) + j] = q[(Len(p) + j) - Len(p)]
      BY <2>4, <3>3, <3>4
    <3>6. r[Len(p) + j] = e /\ Len(p) + j \in 1..Len(r)
      BY <2>4, <3>1, <3>3, <3>4, <3>5
    <3> QED BY <2>1, <3>6 DEF r
  <2>7. CASE m < k
    BY <1>1, <2>1, <2>7
  <2>8. m > k \/ m = k \/ m < k
    BY <1>1
  <2> HIDE DEF S
  <2> QED BY <2>5, <2>6, <2>7, <2>8
<1> HIDE DEF S
<1>5. 0..n \subseteq S
  BY <1>1, <1>3, <1>4, IntervalInduction
<1>6. n \in S /\ n >= k
  <2> HIDE DEF n
  <2>1. n \in 0..n
    BY <1>1
  <2>2. k \in 1..n
    BY DEF n
  <2> QED BY <1>1, <1>5, <2>1, <2>2
<1> QED BY <1>2, <1>6 DEF S
-----------------------------------------------------------------------------
(* The program of a release: every statement finds what it refers to.      *)

\* The strings, and those that the provers do not know to be strings.
Texts == STRING \cup {"warmup", "messiah", MessiahSlug}

\* The statements of the seeding, with the types of their values.
CourseStatements ==
  [op : {"course"}, slug : Texts, category : Texts, hidden : BOOLEAN \cup {None}]
SectionStatements == [op : {"section"}, slug : Texts, ord : Nat]
ItemStatements == [op : {"item"}, slug : Texts, ord : Nat, verse : Verses]
SlotOps == {"warmup item", "messiah item"}
SlotSlugs == {"warmup", MessiahSlug}
SlotStatements ==
  [op : SlotOps, slug : SlotSlugs, section : Nat, ord : Nat, verse : Verses]
ChapterStatements == [op : {"chapter"}, slug : Texts, num : Nat, section : Nat]
CommentaryStatements == [op : {"commentary"}]

Statements ==
  CourseStatements \cup SectionStatements \cup ItemStatements
  \cup SlotStatements \cup ChapterStatements \cup CommentaryStatements

\* A statement finds its course, among the slugs known or inserted before it,
\* and its section.
Prepared(st, before, known) ==
  /\ st \in SectionStatements \cup ItemStatements =>
       st.slug \in known \/ \E co \in before \cap CourseStatements : co.slug = st.slug
  /\ st \in SlotStatements \cup ChapterStatements =>
       \E sec \in before \cap SectionStatements : sec.slug = st.slug /\ sec.ord = st.section

\* The statements that are each prepared by those before it.
Before(p, k) == {p[j] : j \in 1..k - 1}
Sequels(known) ==
  {p \in Seq(Statements) : \A k \in 1..Len(p) : Prepared(p[k], Before(p, k), known)}

\* More statements before prepare it as well.
LEMMA PreparedLater ==
  ASSUME NEW st, NEW before, NEW more, before \subseteq more, NEW known, NEW slugs,
         \A slug \in slugs \ known : \E co \in more \cap CourseStatements : co.slug = slug,
         Prepared(st, before, slugs)
  PROVE  Prepared(st, more, known)
<1>1. ASSUME st \in SectionStatements \cup ItemStatements
      PROVE  st.slug \in known \/ \E co \in more \cap CourseStatements : co.slug = st.slug
  <2>1. st.slug \in slugs \/ \E co \in before \cap CourseStatements : co.slug = st.slug
    BY <1>1 DEF Prepared
  <2>2. CASE st.slug \in slugs
    BY <2>2
  <2>3. CASE \E co \in before \cap CourseStatements : co.slug = st.slug
    BY <2>3
  <2> QED BY <2>1, <2>2, <2>3
<1>2. ASSUME st \in SlotStatements \cup ChapterStatements
      PROVE  \E sec \in more \cap SectionStatements : sec.slug = st.slug /\ sec.ord = st.section
  BY <1>2 DEF Prepared
<1> QED BY <1>1, <1>2 DEF Prepared

\* Statements after statements.
LEMMA SequelsConcat ==
  ASSUME NEW known, NEW slugs, NEW p \in Sequels(known), NEW q \in Sequels(slugs),
         \A slug \in slugs \ known : \E co \in Range(p) \cap CourseStatements : co.slug = slug
  PROVE  p \o q \in Sequels(known)
<1> DEFINE r == p \o q
<1>1. /\ p \in Seq(Statements) /\ q \in Seq(Statements) /\ Len(p) \in Nat /\ Len(q) \in Nat
      /\ DOMAIN p = 1..Len(p)
  BY LenProperties DEF Sequels
<1>2. /\ r \in Seq(Statements) /\ Len(r) = Len(p) + Len(q)
      /\ \A k \in 1..Len(p) + Len(q) : r[k] = IF k <= Len(p) THEN p[k] ELSE q[k - Len(p)]
  BY <1>1, ConcatProperties
<1> HIDE DEF r
<1>3. \A k \in 1..Len(p) : r[k] = p[k]
  <2>1. \A k \in 1..Len(p) : k \in 1..Len(p) + Len(q) /\ k <= Len(p)
    BY <1>1
  <2> QED BY <1>2, <2>1
<1>4. \A k \in 1..Len(q) : Len(p) + k \in 1..Len(r) /\ r[Len(p) + k] = q[k]
  <2> SUFFICES ASSUME NEW k \in 1..Len(q)
               PROVE  Len(p) + k \in 1..Len(r) /\ r[Len(p) + k] = q[k]
    OBVIOUS
  <2>1. Len(p) + k \in 1..Len(p) + Len(q) /\ ~ (Len(p) + k <= Len(p)) /\ (Len(p) + k) - Len(p) = k
    BY <1>1
  <2> QED BY <1>2, <2>1
<1>5. ASSUME NEW k \in 1..Len(p) PROVE Prepared(r[k], Before(r, k), known)
  <2>1. \A j \in 1..k - 1 : j \in 1..Len(p)
    BY <1>1
  <2>2. r[k] = p[k] /\ \A j \in 1..k - 1 : r[j] = p[j]
    BY <1>3, <2>1
  <2>3. Before(r, k) = Before(p, k)
    BY <2>2 DEF Before
  <2> QED BY <2>2, <2>3 DEF Sequels
<1>6. ASSUME NEW i \in 1..Len(q) PROVE Prepared(r[Len(p) + i], Before(r, Len(p) + i), known)
  <2>1. r[Len(p) + i] = q[i] /\ Prepared(q[i], Before(q, i), slugs)
    BY <1>4 DEF Sequels
  <2>2. Before(q, i) \subseteq Before(r, Len(p) + i)
    <3> SUFFICES ASSUME NEW j \in 1..i - 1 PROVE q[j] \in Before(r, Len(p) + i)
      BY DEF Before
    <3>1. j \in 1..Len(q) /\ Len(p) + j \in 1..Len(p) + i - 1
      BY <1>1
    <3>2. r[Len(p) + j] = q[j]
      BY <1>4, <3>1
    <3> QED BY <3>1, <3>2 DEF Before
  <2>3. Range(p) \subseteq Before(r, Len(p) + i)
    <3> SUFFICES ASSUME NEW j \in 1..Len(p) PROVE p[j] \in Before(r, Len(p) + i)
      BY <1>1 DEF Range
    <3>1. j \in 1..Len(p) + i - 1 /\ r[j] = p[j]
      BY <1>1, <1>3
    <3> QED BY <3>1 DEF Before
  <2>4. \A slug \in slugs \ known :
          \E co \in Before(r, Len(p) + i) \cap CourseStatements : co.slug = slug
    BY <2>3
  <2> QED BY <2>1, <2>2, <2>4, PreparedLater
<1>7. ASSUME NEW k \in 1..Len(r) PROVE Prepared(r[k], Before(r, k), known)
  <2>1. k \in 1..Len(p) + Len(q)
    BY <1>2
  <2>2. CASE k <= Len(p)
    <3>1. k \in 1..Len(p)
      BY <1>1, <2>1, <2>2
    <3> QED BY <1>5, <3>1
  <2>3. CASE k > Len(p)
    <3>1. k - Len(p) \in 1..Len(q) /\ Len(p) + (k - Len(p)) = k
      BY <1>1, <2>1, <2>3
    <3> QED BY <1>6, <3>1
  <2> QED BY <1>1, <2>1, <2>2, <2>3
<1>8. r \in Sequels(known)
  BY <1>2, <1>7 DEF Sequels
<1> QED BY <1>8 DEF r

\* Sequences of statements, one after the other.
LEMMA SequelsFlatten ==
  ASSUME NEW known, NEW n \in Nat, NEW seqs \in [1..n -> Sequels(known)]
  PROVE  FlattenSeq(seqs) \in Sequels(known)
<1> DEFINE G == Sequels(known)
<1>1. G \in SUBSET Seq(Statements)
  BY DEF Sequels
<1>2. <<>> \in G
  <2>1. <<>> \in Seq(Statements) /\ 1..Len(<<>>) = {}
    BY EmptySeq
  <2> QED BY <2>1 DEF Sequels
<1>3. \A p, q \in G : p \o q \in G
  BY SequelsConcat
<1>4. seqs \in Seq(G)
  BY SequenceOf
<1> HIDE DEF G
<1>5. FlattenSeq(seqs) \in G
  BY <1>1, <1>2, <1>3, <1>4, FlattenClosed
<1> QED BY <1>5 DEF G

\* What follows its course.
LEMMA CourseFirst ==
  ASSUME NEW st \in CourseStatements, NEW q \in Sequels({st.slug})
  PROVE  <<st>> \o q \in Sequels({})
<1> DEFINE p == <<st>>
<1>1. st \in Statements /\ st \notin SectionStatements \cup ItemStatements \cup SlotStatements \cup ChapterStatements
  BY DEF Statements, CourseStatements, SectionStatements, ItemStatements, SlotStatements,
         ChapterStatements
<1>2. p \in Seq(Statements) /\ Len(p) = 1 /\ p[1] = st /\ Range(p) = {st}
  BY <1>1 DEF Range
<1> HIDE DEF p
<1>3. p \in Sequels({})
  BY <1>1, <1>2 DEF Sequels, Prepared
<1>4. \A slug \in {st.slug} \ {} : \E co \in Range(p) \cap CourseStatements : co.slug = slug
  BY <1>2
<1>5. p \o q \in Sequels({})
  BY <1>3, <1>4, SequelsConcat
<1> QED BY <1>5 DEF p

\* The statements for the items of a section.
ItemsOfSection(sec) ==
  {st \in SlotStatements \cup ChapterStatements : st.slug = sec.slug /\ st.section = sec.ord}

\* A section, in a course that is there, and its items.
LEMMA SectionFirst ==
  ASSUME NEW sec \in SectionStatements, NEW n \in Nat, NEW its \in [1..n -> ItemsOfSection(sec)]
  PROVE  <<sec>> \o its \in Sequels({sec.slug})
<1> DEFINE p == <<sec>>
           r == p \o its
<1>1. sec \in Statements /\ ItemsOfSection(sec) \subseteq Statements
  BY DEF Statements, ItemsOfSection
<1>2. p \in Seq(Statements) /\ Len(p) = 1 /\ p[1] = sec
  BY <1>1
<1>3. its \in Seq(ItemsOfSection(sec)) /\ Len(its) = n
  BY SequenceOf
<1>4. its \in Seq(Statements)
  BY <1>1, <1>3, SeqMonotonic
<1> HIDE DEF p
<1>5. /\ r \in Seq(Statements) /\ Len(r) = 1 + n
      /\ \A k \in 1..1 + n : r[k] = IF k <= 1 THEN p[k] ELSE its[k - 1]
  <2>1. r = p \o its
    OBVIOUS
  <2> HIDE DEF r
  <2>2. /\ r \in Seq(Statements) /\ Len(r) = Len(p) + Len(its)
        /\ \A k \in 1..Len(p) + Len(its) : r[k] = IF k <= Len(p) THEN p[k] ELSE its[k - Len(p)]
    BY <1>2, <1>4, <2>1, ConcatProperties
  <2> QED BY <1>2, <1>3, <2>2
<1> HIDE DEF r
<1>6. r[1] = sec
  BY <1>2, <1>5
<1>7. sec \notin SlotStatements \cup ChapterStatements
  BY DEF SectionStatements, SlotStatements, SlotOps, ChapterStatements
<1>8. \A st \in ItemsOfSection(sec) : st \notin SectionStatements \cup ItemStatements
  BY DEF ItemsOfSection, SectionStatements, ItemStatements, SlotStatements, SlotOps, ChapterStatements
<1>9. ASSUME NEW k \in 1..Len(r) PROVE Prepared(r[k], Before(r, k), {sec.slug})
  <2>1. CASE k = 1
    BY <1>6, <1>7, <2>1 DEF Prepared
  <2>2. CASE k # 1
    <3>1. 1 \in 1..k - 1 /\ k \in 1..1 + n /\ ~ (k <= 1) /\ k - 1 \in 1..n
      BY <1>5, <2>2
    <3>2. r[k] \in ItemsOfSection(sec)
      BY <1>5, <3>1
    <3>3. sec \in Before(r, k)
      BY <1>6, <3>1 DEF Before
    <3> QED BY <1>8, <3>2, <3>3 DEF Prepared, ItemsOfSection
  <2> QED BY <2>1, <2>2
<1>10. r \in Sequels({sec.slug})
  BY <1>5, <1>9 DEF Sequels
<1> QED BY <1>10 DEF r, p

\* The courses without sections.
LEMMA InsertCourseSequel ==
  ASSUME NEW co \in CourseList
  PROVE  InsertCourse(co) \in Sequels({})
<1> DEFINE st == [op |-> "course", slug |-> co.slug, category |-> co.category, hidden |-> co.hidden]
           its == [k \in DOMAIN co.verses |->
                     [op |-> "item", slug |-> co.slug, ord |-> k, verse |-> co.verses[k]]]
           n == Len(co.verses)
<1>1. co.slug \in STRING /\ co.category \in STRING /\ co.hidden \in BOOLEAN /\ co.verses \in Seq(Verses)
  BY DEF CourseList
<1>2. n \in Nat /\ DOMAIN co.verses = 1..n /\ \A k \in 1..n : co.verses[k] \in Verses
  BY <1>1, LenProperties, ElementOfSeq
<1>3. st \in CourseStatements /\ st.slug = co.slug
  BY <1>1 DEF CourseStatements, Texts
<1> HIDE DEF n, st
<1>4. ASSUME NEW k \in 1..n PROVE its[k] \in ItemStatements /\ its[k].slug = co.slug
  <2>1. k \in DOMAIN co.verses /\ k \in Nat
    BY <1>2
  <2> QED BY <1>1, <1>2, <2>1 DEF ItemStatements, Texts
<1>5. its = [k \in 1..n |-> its[k]]
  BY <1>2
<1> HIDE DEF its
<1>6. its \in Seq(Statements) /\ Len(its) = n
  <2>1. its \in [1..n -> Statements]
    BY <1>4, <1>5 DEF Statements
  <2> QED BY <1>2, <2>1, SequenceOf
<1>7. ASSUME NEW k \in 1..n PROVE Prepared(its[k], Before(its, k), {co.slug})
  <2>1. its[k] \notin SlotStatements \cup ChapterStatements
    BY <1>4 DEF ItemStatements, SlotStatements, SlotOps, ChapterStatements
  <2> QED BY <1>4, <2>1 DEF Prepared
<1>8. its \in Sequels({st.slug})
  BY <1>3, <1>6, <1>7 DEF Sequels
<1>9. <<st>> \o its \in Sequels({})
  BY <1>3, <1>8, CourseFirst
<1> QED BY <1>9 DEF InsertCourse, st, its

\* The items of a section of the warm-up or of the prophecies.
LEMMA SlotsSequel ==
  ASSUME NEW slug \in SlotSlugs, NEW op \in SlotOps, NEW s \in Nat,
         NEW verses \in Seq(Verses)
  PROVE  <<[op |-> "section", slug |-> slug, ord |-> s]>>
         \o [k \in DOMAIN verses |->
               [op |-> op, slug |-> slug, section |-> s, ord |-> k, verse |-> verses[k]]]
           \in Sequels({slug})
<1> DEFINE sec == [op |-> "section", slug |-> slug, ord |-> s]
           its == [k \in DOMAIN verses |->
                     [op |-> op, slug |-> slug, section |-> s, ord |-> k, verse |-> verses[k]]]
           n == Len(verses)
<1>1. n \in Nat /\ DOMAIN verses = 1..n /\ \A k \in 1..n : verses[k] \in Verses
  BY LenProperties, ElementOfSeq
<1>2. sec \in SectionStatements /\ sec.slug = slug /\ sec.ord = s
  BY DEF SectionStatements, SlotSlugs, Texts
<1> HIDE DEF n, sec
<1>3. ASSUME NEW k \in 1..n PROVE its[k] \in ItemsOfSection(sec)
  <2>0. k \in Nat
    <3>1. n \in Nat
      BY <1>1, Zenon
    <3> QED BY <3>1
  <2>1. k \in DOMAIN verses /\ k \in Nat
    BY <1>1, <2>0, Zenon
  <2>2. its[k] \in SlotStatements /\ its[k].slug = slug /\ its[k].section = s
    BY <1>1, <2>1 DEF SlotStatements
  <2> HIDE DEF its
  <2> QED BY <1>2, <2>2 DEF ItemsOfSection
<1>4. its = [k \in 1..n |-> its[k]]
  BY <1>1
<1> HIDE DEF its
<1>5. its \in [1..n -> ItemsOfSection(sec)]
  BY <1>3, <1>4
<1>6. <<sec>> \o its \in Sequels({slug})
  BY <1>1, <1>2, <1>5, SectionFirst
<1> QED BY <1>6 DEF sec, its

\* Sections with their items, after the course.
LEMMA InsertSectionsSequel ==
  ASSUME NEW slug \in SlotSlugs, NEW op \in SlotOps, NEW secs \in Seq(Seq(Verses))
  PROVE  InsertSections(slug, op, secs) \in Sequels({slug})
<1> DEFINE seqs == [s \in DOMAIN secs |->
             <<[op |-> "section", slug |-> slug, ord |-> s]>>
             \o [k \in DOMAIN secs[s] |->
                   [op |-> op, slug |-> slug, section |-> s, ord |-> k, verse |-> secs[s][k]]]]
           n == Len(secs)
<1>1. n \in Nat /\ DOMAIN secs = 1..n /\ \A s \in 1..n : secs[s] \in Seq(Verses)
  BY LenProperties, ElementOfSeq
<1>2. InsertSections(slug, op, secs) = FlattenSeq(seqs)
  BY DEF InsertSections
<1> HIDE DEF n
<1>3. ASSUME NEW s \in 1..n PROVE seqs[s] \in Sequels({slug})
  <2>1. s \in DOMAIN secs /\ s \in Nat /\ secs[s] \in Seq(Verses)
    <3>1. s \in Nat
      <4>1. n \in Nat
        BY <1>1, Zenon
      <4> QED BY <4>1
    <3> HIDE DEF seqs
    <3> QED BY <1>1, <3>1, Zenon
  <2> QED BY <2>1, SlotsSequel
<1>4. seqs = [s \in 1..n |-> seqs[s]]
  BY <1>1
<1> HIDE DEF seqs
<1>5. seqs \in [1..n -> Sequels({slug})]
  BY <1>3, <1>4
<1> QED BY <1>1, <1>2, <1>5, SequelsFlatten

\* The chapters of a book are all there, each by its rank.
LEMMA ChaptersRanked ==
  ASSUME NEW num
  PROVE  LET found == {Place[v].chapter : v \in {w \in Verses : Place[w].book = num}}
         IN  /\ IsFiniteSet(found) /\ Cardinality(found) \in Nat /\ found \subseteq Nat
             /\ ChaptersOf(num) \in [1..Cardinality(found) -> found]
             /\ \A ch \in found : \E k \in 1..Cardinality(found) : ChaptersOf(num)[k] = ch
<1> DEFINE vs == {w \in Verses : Place[w].book = num}
           found == {Place[v].chapter : v \in vs}
           f == [v \in vs |-> Place[v].chapter]
           n == Cardinality(found)
           UpTo(ch) == {c \in found : c <= ch}
           rank == [ch \in found |-> Cardinality(UpTo(ch))]
<1>1. found \subseteq Nat
  BY CatalogAssumption DEF CatalogAssumption
<1>2. IsFiniteSet(found)
  <2>1. IsFiniteSet(vs)
    BY CatalogAssumption, FS_Subset DEF CatalogAssumption
  <2>2. f \in Surjection(vs, found)
    BY DEF Surjection
  <2> HIDE DEF vs, found, f
  <2> QED BY <2>1, <2>2, FS_Surjection
<1>3. ChaptersOf(num) = [k \in 1..n |-> CHOOSE ch \in found : Cardinality(UpTo(ch)) = k]
  BY DEF ChaptersOf
<1> HIDE DEF found
<1>4. n \in Nat
  BY <1>2, FS_CardinalityType
<1>5. ASSUME NEW ch \in found
      PROVE  IsFiniteSet(UpTo(ch)) /\ rank[ch] \in 1..n
  <2>1. UpTo(ch) \in SUBSET found /\ ch \in UpTo(ch)
    BY <1>1
  <2>2. IsFiniteSet(UpTo(ch)) /\ Cardinality(UpTo(ch)) <= n /\ Cardinality(UpTo(ch)) \in Nat
    BY <1>2, <2>1, FS_Subset, FS_CardinalityType
  <2>3. Cardinality(UpTo(ch)) # 0
    BY <2>1, <2>2, FS_EmptySet
  <2> HIDE DEF UpTo, n
  <2> QED BY <1>4, <2>2, <2>3
<1>6. ASSUME NEW c \in found, NEW d \in found, c < d PROVE rank[c] # rank[d]
  <2>0. c \in Nat /\ d \in Nat /\ \A e \in found : e \in Nat
    BY <1>1
  <2>1. UpTo(c) \in SUBSET UpTo(d) /\ d \in UpTo(d) /\ d \notin UpTo(c)
    <3>1. ASSUME NEW e \in found, e <= c PROVE e <= d
      BY <1>6, <2>0, <3>1
    <3>2. d <= d /\ ~ (d <= c)
      BY <1>6, <2>0
    <3> QED BY <3>1, <3>2 DEF UpTo
  <2>2. IsFiniteSet(UpTo(d))
    BY <1>5
  <2>3. Cardinality(UpTo(c)) # Cardinality(UpTo(d))
    <3> HIDE DEF UpTo
    <3> QED BY <2>1, <2>2, FS_Subset
  <2> QED BY <2>3
<1>7. rank \in Injection(found, 1..n)
  <2>1. rank \in [found -> 1..n]
    BY <1>5
  <2>2. \A c, d \in found : rank[c] = rank[d] => c = d
    <3> HIDE DEF rank
    <3> QED BY <1>1, <1>6
  <2> HIDE DEF rank
  <2> QED BY <2>1, <2>2 DEF Injection, IsInjective
<1>8. \A k \in 1..n : \E ch \in found : rank[ch] = k
  <2>1. IsFiniteSet(1..n) /\ Cardinality(1..n) = n
    BY <1>4, FS_Interval
  <2> HIDE DEF rank
  <2>2. rank \in Surjection(found, 1..n)
    BY <1>7, <2>1, FS_Injection
  <2> QED BY <2>2 DEF Surjection
<1>9. \A k \in 1..n : ChaptersOf(num)[k] \in found /\ rank[ChaptersOf(num)[k]] = k
  <2> SUFFICES ASSUME NEW k \in 1..n
               PROVE  ChaptersOf(num)[k] \in found /\ rank[ChaptersOf(num)[k]] = k
    OBVIOUS
  <2>1. \E ch \in found : Cardinality(UpTo(ch)) = k
    BY <1>8
  <2>2. ChaptersOf(num)[k] = CHOOSE ch \in found : Cardinality(UpTo(ch)) = k
    BY <1>3
  <2> HIDE DEF UpTo
  <2> QED BY <2>1, <2>2
<1>10. ChaptersOf(num) \in [1..n -> found]
  BY <1>3, <1>9
<1>11. ASSUME NEW ch \in found PROVE \E k \in 1..n : ChaptersOf(num)[k] = ch
  <2>1. rank[ch] \in 1..n
    BY <1>5
  <2> HIDE DEF rank
  <2>2. ChaptersOf(num)[rank[ch]] = ch
    BY <1>7, <1>9, <2>1 DEF Injection, IsInjective
  <2> QED BY <2>1, <2>2
<1> QED BY <1>1, <1>2, <1>4, <1>10, <1>11 DEF found

\* A book with its chapters.
LEMMA SeedBookSequel ==
  ASSUME NEW b \in BookList
  PROVE  SeedBook(b) \in Sequels({})
<1> DEFINE st == [op |-> "course", slug |-> b.slug, category |-> b.category, hidden |-> None]
           chapters == ChaptersOf(b.num)
           sec(k) == [op |-> "section", slug |-> b.slug, ord |-> chapters[k]]
           ch(k) == [op |-> "chapter", slug |-> b.slug, num |-> b.num, section |-> chapters[k]]
           seqs == [k \in DOMAIN chapters |-> <<sec(k), ch(k)>>]
<1>1. b.slug \in STRING /\ b.category \in STRING /\ b.num \in Nat
  BY DEF BookList
<1>2. SeedBook(b) = <<st>> \o FlattenSeq(seqs)
  BY DEF SeedBook
<1> HIDE DEF chapters
<1>3. PICK n \in Nat : chapters \in [1..n -> Nat]
  <2> DEFINE found == {Place[v].chapter : v \in {w \in Verses : Place[w].book = b.num}}
  <2>1. /\ Cardinality(found) \in Nat /\ found \subseteq Nat
        /\ ChaptersOf(b.num) \in [1..Cardinality(found) -> found]
    BY ChaptersRanked
  <2> HIDE DEF found, seqs
  <2> QED BY <2>1 DEF chapters
<1>4. st \in CourseStatements /\ st.slug = b.slug
  BY <1>1 DEF CourseStatements, Texts
<1>5. ASSUME NEW k \in 1..n PROVE seqs[k] \in Sequels({b.slug})
  <2> DEFINE x == sec(k)
             y == ch(k)
             its == [i \in 1..1 |-> y]
  <2>1. chapters[k] \in Nat /\ k \in DOMAIN chapters
    BY <1>3
  <2>2. seqs[k] = <<x, y>>
    BY <2>1
  <2>3. x \in SectionStatements /\ x.slug = b.slug /\ x.ord = chapters[k]
    BY <1>1, <2>1 DEF SectionStatements, Texts
  <2>4. y \in ChapterStatements /\ y.slug = b.slug /\ y.section = chapters[k]
    BY <1>1, <2>1 DEF ChapterStatements, Texts
  <2> HIDE DEF x, y, seqs
  <2>5. y \in ItemsOfSection(x)
    BY <2>3, <2>4 DEF ItemsOfSection
  <2>6. its \in [1..1 -> ItemsOfSection(x)]
    BY <2>5
  <2>7. <<x>> \o its = <<x, y>>
    <3> DEFINE T == SectionStatements \cup ChapterStatements
               head == <<x>>
               r == head \o its
    <3>1. x \in T /\ y \in T
      BY <2>3, <2>4
    <3> HIDE DEF T
    <3>2. its \in Seq(T) /\ Len(its) = 1
      BY <3>1, SequenceOf
    <3>3. its[1] = y
      OBVIOUS
    <3>4. head \in Seq(T) /\ Len(head) = 1 /\ head[1] = x
      BY <3>1
    <3> HIDE DEF its, head, T
    <3>5. /\ r \in Seq(T) /\ Len(r) = Len(head) + Len(its)
          /\ \A i \in 1..Len(head) + Len(its) :
               r[i] = IF i <= Len(head) THEN head[i] ELSE its[i - Len(head)]
      BY <3>2, <3>4, ConcatProperties
    <3> HIDE DEF r
    <3>6. Len(r) = 2 /\ r[1] = x /\ r[2] = y
      BY <3>2, <3>3, <3>4, <3>5
    <3>7. <<x, y>> \in Seq(T) /\ Len(<<x, y>>) = 2 /\ <<x, y>>[1] = x /\ <<x, y>>[2] = y
      BY <3>1
    <3> DEFINE t == <<x, y>>
    <3> HIDE DEF t
    <3>8. t \in Seq(T) /\ Len(t) = 2 /\ t[1] = x /\ t[2] = y
      BY <3>7 DEF t
    <3>9. \A i \in 1..Len(r) : r[i] = t[i]
      <4> SUFFICES ASSUME NEW i \in 1..2 PROVE r[i] = t[i]
        BY <3>6
      <4>1. i = 1 \/ i = 2
        OBVIOUS
      <4> QED BY <3>6, <3>8, <4>1
    <3>10. r = t
      BY <3>5, <3>6, <3>8, <3>9, SeqEqual
    <3> QED BY <3>10 DEF r, t, head
  <2> HIDE DEF its
  <2>8. <<x>> \o its \in Sequels({x.slug})
    BY <2>3, <2>6, SectionFirst
  <2> QED BY <2>2, <2>3, <2>7, <2>8
<1>6. seqs = [k \in 1..n |-> seqs[k]]
  BY <1>3
<1> HIDE DEF seqs, st
<1>7. FlattenSeq(seqs) \in Sequels({b.slug})
  BY <1>5, <1>6, SequelsFlatten
<1> QED BY <1>2, <1>4, <1>7, CourseFirst

\* A run of the script executes typed statements, each after those it needs.
LEMMA ProgramSequel ==
  ASSUME NEW r \in Releases
  PROVE  Programs[r] \in Sequels({})
<1> DEFINE rel == Lists[r]
           p1 == FlattenSeq([k \in DOMAIN rel.courses |-> InsertCourse(rel.courses[k])])
           p2 == InsertCourseWithSections(rel.warmup)
           p3 == FlattenSeq([k \in DOMAIN rel.books |-> SeedBook(rel.books[k])])
           p4 == SeedMessiahProphecy(rel.messiah)
           p5 == SeedCommentary(rel.commentary)
<1>1. Programs[r] = (((p1 \o p2) \o p3) \o p4) \o p5
  BY DEF Programs, Program
<1> HIDE DEF p1, p2, p3, p4, p5
<1>2. /\ rel.courses \in Seq(CourseList) /\ rel.warmup \in Seq(Seq(Verses))
      /\ rel.books \in Seq(BookList) /\ rel.messiah \in Seq(Seq(Verses))
      /\ IsFiniteSet(DOMAIN rel.commentary)
  BY CatalogAssumption DEF CatalogAssumption
<1> HIDE DEF rel
<1>3. p1 \in Sequels({})
  <2> DEFINE n == Len(rel.courses)
             seqs == [k \in DOMAIN rel.courses |-> InsertCourse(rel.courses[k])]
  <2>1. n \in Nat /\ DOMAIN rel.courses = 1..n /\ \A k \in 1..n : rel.courses[k] \in CourseList
    BY <1>2, LenProperties, ElementOfSeq
  <2> HIDE DEF n
  <2>2. seqs \in [1..n -> Sequels({})]
    BY <2>1, InsertCourseSequel
  <2>3. p1 = FlattenSeq(seqs)
    BY DEF p1
  <2> HIDE DEF seqs
  <2> QED BY <2>1, <2>2, <2>3, SequelsFlatten
<1>4. p3 \in Sequels({})
  <2> DEFINE n == Len(rel.books)
             seqs == [k \in DOMAIN rel.books |-> SeedBook(rel.books[k])]
  <2>1. n \in Nat /\ DOMAIN rel.books = 1..n /\ \A k \in 1..n : rel.books[k] \in BookList
    BY <1>2, LenProperties, ElementOfSeq
  <2> HIDE DEF n
  <2>2. seqs \in [1..n -> Sequels({})]
    BY <2>1, SeedBookSequel
  <2>3. p3 = FlattenSeq(seqs)
    BY DEF p3
  <2> HIDE DEF seqs
  <2> QED BY <2>1, <2>2, <2>3, SequelsFlatten
<1>5. p2 \in Sequels({})
  <2> DEFINE st == [op |-> "course", slug |-> "warmup", category |-> "warmup", hidden |-> None]
             secs == InsertSections("warmup", "warmup item", rel.warmup)
  <2>1. st \in CourseStatements /\ st.slug = "warmup"
    BY DEF CourseStatements, Texts
  <2>2. p2 = <<st>> \o secs
    BY DEF p2, InsertCourseWithSections
  <2>3. secs \in Sequels({"warmup"})
    <3>1. "warmup" \in SlotSlugs /\ "warmup item" \in SlotOps
      BY DEF SlotSlugs, SlotOps
    <3> QED BY <1>2, <3>1, InsertSectionsSequel
  <2> HIDE DEF st, secs
  <2> QED BY <2>1, <2>2, <2>3, CourseFirst
<1>6. p4 \in Sequels({})
  <2> DEFINE st == [op |-> "course", slug |-> MessiahSlug, category |-> "messiah", hidden |-> None]
             secs == InsertSections(MessiahSlug, "messiah item", rel.messiah)
  <2>1. MessiahSlug \in Texts /\ MessiahSlug \in SlotSlugs
    BY DEF Texts, SlotSlugs
  <2>2. st \in CourseStatements /\ st.slug = MessiahSlug
    BY <2>1 DEF CourseStatements, Texts
  <2>3. p4 = <<st>> \o secs
    BY DEF p4, SeedMessiahProphecy
  <2>4. secs \in Sequels({MessiahSlug})
    <3>1. "messiah item" \in SlotOps
      BY DEF SlotOps
    <3> QED BY <1>2, <2>1, <3>1, InsertSectionsSequel
  <2> HIDE DEF st, secs
  <2> QED BY <2>2, <2>3, <2>4, CourseFirst
<1>7. p5 \in Sequels({})
  <2> DEFINE n == Cardinality(DOMAIN rel.commentary)
             st == [op |-> "commentary"]
  <2>1. n \in Nat
    BY <1>2, FS_CardinalityType
  <2>2. p5 = [k \in 1..n |-> st]
    BY DEF p5, SeedCommentary
  <2>3. st \in CommentaryStatements
    BY DEF CommentaryStatements
  <2> HIDE DEF n, st
  <2>4. st \notin SectionStatements \cup ItemStatements \cup SlotStatements \cup ChapterStatements
    BY <2>3 DEF CommentaryStatements, SectionStatements, ItemStatements, SlotStatements, SlotOps,
                ChapterStatements
  <2>5. p5 \in Seq(Statements) /\ Len(p5) = n
    <3>1. p5 \in [1..n -> Statements]
      BY <2>2, <2>3 DEF Statements
    <3> QED BY <2>1, <3>1, SequenceOf
  <2>6. \A k \in 1..n : p5[k] = st
    BY <2>2
  <2> QED BY <2>4, <2>5, <2>6 DEF Sequels, Prepared
<1>8. \A p, q \in Sequels({}) : p \o q \in Sequels({})
  BY SequelsConcat
<1> QED BY <1>1, <1>3, <1>4, <1>5, <1>6, <1>7, <1>8
-----------------------------------------------------------------------------
(* The tables of the catalogue: no row is left without the course or the   *)
(* section that it refers to.                                              *)

\* What the statements of the running script have done so far: a book whose
\* list of chapters broke off may be without its sections.
Executed ==
  Running =>
    \A st \in Before(Programs[script.release], script.at) :
      /\ st \in CourseStatements => st.slug \in DOMAIN courses
      /\ st \in SectionStatements /\ st.slug \notin script.cut =>
           <<st.slug, st.ord>> \in DOMAIN sections

\* A row of course_items with what it refers to.
RowOK(row, slugs, keys) ==
  /\ row \in [course : slugs, section : Nat \cup {None}, ord : Nat,
              verse : Verses, topic : STRING, topicEn : STRING \cup {None}]
  /\ row.section # None => <<row.course, row.section>> \in keys

\* A row of courses.
CourseRows(texts) ==
  [title : texts, titleEn : texts, category : texts, hidden : BOOLEAN,
   commentary : texts, commentaryEn : texts]
CourseOK(row) == \E texts : row \in CourseRows(texts)

\* The columns of the script.
IsScript(x) == x = [release |-> x.release, at |-> x.at, told |-> x.told, cut |-> x.cut]

\* The script is at its next statement.
Advanced ==
  /\ script'.release = script.release /\ script'.at = script.at + 1
  /\ script'.cut = script.cut
  /\ IsScript(script')

\* The books of a release.
BookSlugs(r) == {b.slug : b \in Range(Lists[r].books)}

ScriptOK ==
  /\ IsScript(script)
  /\ script.release \in Releases /\ script.at \in Nat
  /\ script.cut \subseteq BookSlugs(script.release)

CatalogOK ==
  /\ ScriptOK /\ Executed
  /\ \A s \in DOMAIN courses : CourseOK(courses[s])
  /\ \A k \in DOMAIN sections : k[1] \in DOMAIN courses
  /\ \A i \in DOMAIN items : RowOK(items[i], DOMAIN courses, DOMAIN sections)

\* The catalogue is empty at first, and no script runs.
LEMMA InitCatalogOK == Init => CatalogOK
<1> SUFFICES ASSUME Init PROVE CatalogOK
  OBVIOUS
<1>1. script = [release |-> 1, at |-> 0, told |-> {}, cut |-> {}] /\ 1 \in Releases
  BY CatalogAssumption DEF Init, CatalogInit, CatalogAssumption
<1>2. ScriptOK
  BY <1>1 DEF ScriptOK, IsScript
<1>3. Programs[1] \in Seq(Statements)
  BY <1>1, ProgramSequel DEF Sequels
<1>4. ~ Running
  BY <1>1, <1>3, LenProperties DEF Running
<1>5. DOMAIN courses = {} /\ DOMAIN sections = {} /\ DOMAIN items = {}
  BY DEF Init, CatalogInit
<1> QED BY <1>2, <1>4, <1>5 DEF CatalogOK, Executed

\* What the next statement refers to is there.
LEMMA StatementReady ==
  ASSUME CatalogOK, Running
  PROVE  /\ Statement \in Statements
         /\ Statement \in SectionStatements \cup ItemStatements => Statement.slug \in DOMAIN courses
         /\ Statement \in SlotStatements \cup ChapterStatements /\ Statement.slug \notin script.cut =>
              /\ Statement.slug \in DOMAIN courses
              /\ <<Statement.slug, Statement.section>> \in DOMAIN sections
<1> DEFINE p == Programs[script.release]
           before == Before(p, script.at)
<1>1. script.release \in Releases
  BY DEF CatalogOK, ScriptOK
<1>2. p \in Seq(Statements) /\ \A k \in 1..Len(p) : Prepared(p[k], Before(p, k), {})
  BY <1>1, ProgramSequel DEF Sequels
<1>3. script.at \in 1..Len(p) /\ Statement = p[script.at]
  BY <1>2, LenProperties DEF Running, Statement
<1> HIDE DEF p
<1>4. Statement \in Statements
  BY <1>2, <1>3, ElementOfSeq
<1>5. Prepared(Statement, before, {})
  BY <1>2, <1>3
<1>6. \A st \in before : /\ st \in CourseStatements => st.slug \in DOMAIN courses
                         /\ st \in SectionStatements /\ st.slug \notin script.cut =>
                              <<st.slug, st.ord>> \in DOMAIN sections
  BY DEF CatalogOK, Executed, p
<1> HIDE DEF before
<1>7. ASSUME Statement \in SectionStatements \cup ItemStatements
      PROVE  Statement.slug \in DOMAIN courses
  BY <1>5, <1>6, <1>7 DEF Prepared
<1>8. ASSUME Statement \in SlotStatements \cup ChapterStatements, Statement.slug \notin script.cut
      PROVE  /\ Statement.slug \in DOMAIN courses
             /\ <<Statement.slug, Statement.section>> \in DOMAIN sections
  <2>1. PICK sec \in before \cap SectionStatements :
          sec.slug = Statement.slug /\ sec.ord = Statement.section
    BY <1>5, <1>8 DEF Prepared
  <2>2. <<Statement.slug, Statement.section>> \in DOMAIN sections
    BY <1>6, <1>8, <2>1
  <2>3. <<Statement.slug, Statement.section>>[1] \in DOMAIN courses
    BY <2>2 DEF CatalogOK
  <2> QED BY <2>2, <2>3
<1> QED BY <1>4, <1>7, <1>8

\* What a running script executes, by the kind of its next statement.
LEMMA CourseStatement ==
  ASSUME CatalogOK, Running, Statement.op = "course"
  PROVE  Statement \in CourseStatements /\ Statement \notin SectionStatements
<1>1. Statement \in Statements
  BY StatementReady
<1> QED BY <1>1 DEF Statements, CourseStatements, SectionStatements, ItemStatements, SlotStatements,
             SlotOps, ChapterStatements, CommentaryStatements

\* The upsert of a section: its course is there.
LEMMA SectionStatement ==
  ASSUME CatalogOK, Running, Statement.op = "section"
  PROVE  /\ Statement \in SectionStatements /\ Statement \notin CourseStatements
         /\ Statement.slug \in DOMAIN courses
<1>1. Statement \in Statements
  BY StatementReady
<1>2. Statement \in SectionStatements /\ Statement \notin CourseStatements
  BY <1>1 DEF Statements, CourseStatements, SectionStatements, ItemStatements, SlotStatements,
             SlotOps, ChapterStatements, CommentaryStatements
<1> QED BY <1>2, StatementReady

\* A verse of a course without sections: its course is there.
LEMMA ItemStatement ==
  ASSUME CatalogOK, Running, Statement.op = "item"
  PROVE  /\ Statement \in ItemStatements
         /\ Statement \notin CourseStatements /\ Statement \notin SectionStatements
         /\ Statement.slug \in DOMAIN courses
<1>1. Statement \in Statements
  BY StatementReady
<1>2. /\ Statement \in ItemStatements
      /\ Statement \notin CourseStatements /\ Statement \notin SectionStatements
  BY <1>1 DEF Statements, CourseStatements, SectionStatements, ItemStatements, SlotStatements,
             SlotOps, ChapterStatements, CommentaryStatements
<1> QED BY <1>2, StatementReady

\* A slot of a warm-up or messiah section: its section is there.
LEMMA SlotStatement ==
  ASSUME CatalogOK, Running, Statement.op = "warmup item" \/ Statement.op = "messiah item"
  PROVE  /\ Statement \in SlotStatements
         /\ Statement \notin CourseStatements /\ Statement \notin SectionStatements
         /\ Statement.slug \in DOMAIN courses
         /\ <<Statement.slug, Statement.section>> \in DOMAIN sections
<1>1. Statement \in Statements
  BY StatementReady
<1>2. /\ Statement \in SlotStatements
      /\ Statement \notin CourseStatements /\ Statement \notin SectionStatements
  BY <1>1 DEF Statements, CourseStatements, SectionStatements, ItemStatements, SlotStatements,
             SlotOps, ChapterStatements, CommentaryStatements
<1>3. Statement.slug \notin script.cut
  <2>1. script.cut \subseteq BookSlugs(script.release) /\ script.release \in Releases
    BY DEF CatalogOK, ScriptOK
  <2>2. Statement.slug = "warmup" \/ Statement.slug = "messiah-prophecy"
    BY <1>2 DEF SlotStatements, SlotSlugs, MessiahSlug
  <2>3. \A slug \in BookSlugs(script.release) : slug # "warmup" /\ slug # "messiah-prophecy"
    BY <2>1, KeysAssumption DEF KeysAssumption, BookSlugs
  <2> QED BY <2>1, <2>2, <2>3
<1> QED BY <1>2, <1>3, StatementReady

\* A chapter of a book whose list of chapters did not break off: its section
\* is there.
LEMMA ChapterStatement ==
  ASSUME CatalogOK, Running, Statement.op = "chapter", Statement.slug \notin script.cut
  PROVE  /\ Statement \in ChapterStatements
         /\ Statement \notin CourseStatements /\ Statement \notin SectionStatements
         /\ Statement.slug \in DOMAIN courses
         /\ <<Statement.slug, Statement.section>> \in DOMAIN sections
<1>1. Statement \in Statements
  BY StatementReady
<1>2. /\ Statement \in ChapterStatements
      /\ Statement \notin CourseStatements /\ Statement \notin SectionStatements
  BY <1>1 DEF Statements, CourseStatements, SectionStatements, ItemStatements, SlotStatements,
             SlotOps, ChapterStatements, CommentaryStatements
<1> QED BY <1>2, StatementReady

\* A commentary adds neither a course nor a section.
LEMMA CommentaryStatement ==
  ASSUME CatalogOK, Running, Statement.op = "commentary"
  PROVE  Statement \notin CourseStatements /\ Statement \notin SectionStatements
BY DEF CourseStatements, SectionStatements

\* The two ways in which a statement moves the script on.
LEMMA AdvanceAdvanced == ASSUME CatalogOK, Advance PROVE Advanced
<1>1. IsScript(script)
  BY DEF CatalogOK, ScriptOK
<1>2. script' = [script EXCEPT !.at = script.at + 1]
  BY DEF Advance
<1>3. script' = [release |-> script.release, at |-> script.at + 1, told |-> script.told,
                 cut |-> script.cut]
  BY <1>1, <1>2 DEF IsScript
<1> QED BY <1>3 DEF Advanced, IsScript

\* After one more statement, or one that is passed over.
LEMMA StepExecuted ==
  ASSUME CatalogOK, Running,
         script'.release = script.release, script'.at = script.at + 1, IsScript(script'),
         script.cut \subseteq script'.cut, script'.cut \subseteq BookSlugs(script.release),
         DOMAIN courses \subseteq DOMAIN courses', DOMAIN sections \subseteq DOMAIN sections',
         Statement \in CourseStatements => Statement.slug \in DOMAIN courses',
         Statement \in SectionStatements /\ Statement.slug \notin script'.cut =>
           <<Statement.slug, Statement.ord>> \in DOMAIN sections'
  PROVE  ScriptOK' /\ Executed'
<1> DEFINE p == Programs[script.release]
<1>1. script'.release = script.release /\ script'.at = script.at + 1
  OBVIOUS
<1>2. script.release \in Releases /\ script.at \in Nat
  BY DEF CatalogOK, ScriptOK
<1>3. ScriptOK'
  BY <1>1, <1>2 DEF ScriptOK
<1>4. ASSUME NEW st \in Before(p, script.at + 1)
      PROVE  st \in Before(p, script.at) \/ st = Statement
  <2>1. PICK j \in 1..(script.at + 1) - 1 : st = p[j]
    BY <1>4 DEF Before
  <2>2. j = script.at \/ j \in 1..script.at - 1
    BY <1>2, <2>1
  <2> QED BY <2>1, <2>2 DEF Before, Statement
<1>5. \A st \in Before(p, script.at) :
        /\ st \in CourseStatements => st.slug \in DOMAIN courses'
        /\ st \in SectionStatements /\ st.slug \notin script'.cut =>
             <<st.slug, st.ord>> \in DOMAIN sections'
  BY DEF CatalogOK, Executed
<1>6. \A st \in Before(p, script.at + 1) :
        /\ st \in CourseStatements => st.slug \in DOMAIN courses'
        /\ st \in SectionStatements /\ st.slug \notin script'.cut =>
             <<st.slug, st.ord>> \in DOMAIN sections'
  BY <1>4, <1>5
<1>7. Executed'
  BY <1>1, <1>6 DEF Executed
<1> QED BY <1>3, <1>7

\* The same for a statement that was executed.
LEMMA AdvancedExecuted ==
  ASSUME CatalogOK, Running, Advanced,
         DOMAIN courses \subseteq DOMAIN courses', DOMAIN sections \subseteq DOMAIN sections',
         Statement \in CourseStatements => Statement.slug \in DOMAIN courses',
         Statement \in SectionStatements => <<Statement.slug, Statement.ord>> \in DOMAIN sections'
  PROVE  ScriptOK' /\ Executed'
<1>1. script.cut \subseteq BookSlugs(script.release)
  BY DEF CatalogOK, ScriptOK
<1>2. /\ script'.release = script.release /\ script'.at = script.at + 1
      /\ script'.cut = script.cut /\ IsScript(script')
  BY DEF Advanced
<1> QED BY <1>1, <1>2, StepExecuted

\* Rows keep what they refer to when courses and sections are added.
LEMMA RowStays ==
  ASSUME NEW row, NEW slugs, NEW keys, RowOK(row, slugs, keys),
         NEW slugs2, slugs \subseteq slugs2, NEW keys2, keys \subseteq keys2
  PROVE  RowOK(row, slugs2, keys2)
BY DEF RowOK

\* The same for all the rows of a table.
LEMMA RowsStay ==
  ASSUME CatalogOK, UNCHANGED items, DOMAIN courses \subseteq DOMAIN courses',
         DOMAIN sections \subseteq DOMAIN sections'
  PROVE  \A i \in DOMAIN items' : RowOK(items'[i], DOMAIN courses', DOMAIN sections')
<1> SUFFICES ASSUME NEW i \in DOMAIN items
             PROVE  RowOK(items[i], DOMAIN courses', DOMAIN sections')
  OBVIOUS
<1>1. RowOK(items[i], DOMAIN courses, DOMAIN sections)
  BY DEF CatalogOK
<1> QED BY <1>1, RowStays

\* An INSERT with rows that are typed.
LEMMA InsertOrUpdateRows ==
  ASSUME CatalogOK, UNCHANGED <<courses, sections>>, NEW hit \in SUBSET DOMAIN items, NEW row,
         hit = {} => RowOK(row, DOMAIN courses, DOMAIN sections),
         NEW upd, \A i \in hit : RowOK(upd[i], DOMAIN courses, DOMAIN sections),
         items' = IF hit = {} THEN With(items, nextItem, row)
                  ELSE [i \in DOMAIN items |-> IF i \in hit THEN upd[i] ELSE items[i]]
  PROVE  \A i \in DOMAIN items' : RowOK(items'[i], DOMAIN courses', DOMAIN sections')
<1>1. \A i \in DOMAIN items' :
        \/ i \in DOMAIN items /\ items'[i] = items[i]
        \/ i \in hit /\ items'[i] = upd[i]
        \/ hit = {} /\ items'[i] = row
  <2>1. CASE hit = {}
    BY <2>1 DEF With
  <2>2. CASE hit # {}
    BY <2>2
  <2> QED BY <2>1, <2>2
<1>2. \A i \in DOMAIN items' : RowOK(items'[i], DOMAIN courses, DOMAIN sections)
  BY <1>1 DEF CatalogOK
<1>3. courses' = courses /\ sections' = sections
  OBVIOUS
<1> QED BY <1>2, <1>3, Zenon

\* The texts of the release that is seeded.
LEMMA ReleaseTexts ==
  ASSUME CatalogOK
  PROVE  Release.topics \in STRING /\ Release.english \in STRING \cup {None}
BY CatalogAssumption DEF CatalogAssumption, CatalogOK, ScriptOK, Release

\* A row of courses with other texts.
LEMMA CourseWith ==
  ASSUME NEW old, CourseOK(old), NEW titles, NEW english, NEW category, NEW hidden \in BOOLEAN
  PROVE  CourseOK([old EXCEPT !.title = titles, !.titleEn = english, !.category = category,
                              !.hidden = hidden])
<1>1. PICK texts : old \in CourseRows(texts)
  BY DEF CourseOK
<1>2. PICK more : more = texts \cup {titles, english, category}
  OBVIOUS
<1>3. old \in CourseRows(more) /\ titles \in more /\ english \in more /\ category \in more
  BY <1>1, <1>2 DEF CourseRows
<1>4. [old EXCEPT !.title = titles, !.titleEn = english, !.category = category,
                  !.hidden = hidden] \in CourseRows(more)
  BY <1>3 DEF CourseRows
<1> QED BY <1>4 DEF CourseOK

\* A course is added, or gets the texts of the release.
LEMMA UpsertCourseOK == ASSUME CatalogOK, UpsertCourse PROVE CatalogOK'
<1> DEFINE slug == Statement.slug
           old == IF slug \in DOMAIN courses THEN courses[slug]
                  ELSE [title |-> None, titleEn |-> None, category |-> "topic",
                        hidden |-> FALSE, commentary |-> None, commentaryEn |-> None]
           new == [old EXCEPT !.title = Release.titles, !.titleEn = Release.english,
                       !.category = Statement.category,
                       !.hidden = HiddenAfter(@, Statement.hidden)]
<1>1. /\ Running /\ Statement.op = "course" /\ courses' = With(courses, slug, new)
      /\ Advance /\ UNCHANGED <<sections, items>>
  BY DEF UpsertCourse, Executes
<1>2. Statement \in CourseStatements /\ Statement \notin SectionStatements
  BY <1>1, CourseStatement
<1>3. CourseOK(old)
  <2>1. CASE slug \in DOMAIN courses
    <3>1. old = courses[slug]
      BY <2>1
    <3> HIDE DEF old, slug
    <3> QED BY <2>1, <3>1 DEF CatalogOK
  <2>2. CASE slug \notin DOMAIN courses
    <3> DEFINE texts == {None, "topic"}
    <3>1. old \in CourseRows(texts)
      BY <2>2 DEF CourseRows
    <3> QED BY <3>1 DEF CourseOK
  <2> QED BY <2>1, <2>2
<1>4. CourseOK(new)
  <2>1. Statement.hidden \in BOOLEAN \cup {None}
    BY <1>2 DEF CourseStatements
  <2> HIDE DEF old
  <2>2. HiddenAfter(old.hidden, Statement.hidden) \in BOOLEAN
    BY <1>3, <2>1 DEF HiddenAfter, CourseOK, CourseRows
  <2>3. CourseOK(new) <=> CourseOK([old EXCEPT !.title = Release.titles,
          !.titleEn = Release.english, !.category = Statement.category,
          !.hidden = HiddenAfter(old.hidden, Statement.hidden)])
    OBVIOUS
  <2> HIDE DEF new
  <2> QED BY <1>3, <2>2, <2>3, CourseWith
<1> HIDE DEF new, slug
<1>5. /\ DOMAIN courses' = DOMAIN courses \cup {slug}
      /\ \A s \in DOMAIN courses' : courses'[s] = new \/ (s \in DOMAIN courses /\ courses'[s] = courses[s])
  BY <1>1 DEF With
<1>6. ScriptOK' /\ Executed'
  BY <1>1, <1>2, <1>5, AdvanceAdvanced, AdvancedExecuted DEF slug
<1>7. \A s \in DOMAIN courses' : CourseOK(courses'[s])
  BY <1>4, <1>5 DEF CatalogOK
<1>9. \A i \in DOMAIN items' : RowOK(items'[i], DOMAIN courses', DOMAIN sections')
  BY <1>1, <1>5, RowsStay
<1> QED BY <1>1, <1>5, <1>6, <1>7, <1>9 DEF CatalogOK

\* A section is added to a course that is there, or gets new titles.
LEMMA UpsertSectionOK == ASSUME CatalogOK, UpsertSection PROVE CatalogOK'
<1> DEFINE key == <<Statement.slug, Statement.ord>>
<1>1. /\ Running /\ Statement.op = "section" /\ DOMAIN sections' = DOMAIN sections \cup {key}
      /\ Advance /\ UNCHANGED <<courses, items>>
  BY DEF UpsertSection, Executes, With
<1>2. Statement \in SectionStatements /\ Statement \notin CourseStatements
      /\ Statement.slug \in DOMAIN courses
  BY <1>1, SectionStatement
<1>3. ScriptOK' /\ Executed'
  BY <1>1, <1>2, AdvanceAdvanced, AdvancedExecuted
<1>4. key[1] = Statement.slug
  OBVIOUS
<1> HIDE DEF key
<1>5. \A k \in DOMAIN sections' : k[1] \in DOMAIN courses'
  BY <1>1, <1>2, <1>4 DEF CatalogOK
<1>6. \A i \in DOMAIN items' : RowOK(items'[i], DOMAIN courses', DOMAIN sections')
  BY <1>1, RowsStay
<1> QED BY <1>1, <1>3, <1>5, <1>6 DEF CatalogOK

\* A verse is added to a course that is there, or its translation is updated.
LEMMA InsertItemOK == ASSUME CatalogOK, InsertItem PROVE CatalogOK'
<1> DEFINE hit == SameVerse(Statement.slug, Statement.verse)
           row == ItemRow(Statement.slug, None, Statement.ord, Statement.verse,
                          Release.topics, Release.english)
           upd == [i \in DOMAIN items |-> [items[i] EXCEPT !.topicEn = Release.english]]
<1>1. items' = IF hit = {} THEN With(items, nextItem, row)
               ELSE [i \in DOMAIN items |-> IF i \in hit THEN upd[i] ELSE items[i]]
  BY DEF InsertItem, InsertOrUpdate
<1>2. /\ Running /\ Statement.op = "item" /\ Advance
      /\ UNCHANGED <<courses, sections>>
  BY DEF InsertItem, Executes
<1>3. /\ Statement \in ItemStatements /\ Statement.slug \in DOMAIN courses
      /\ Statement \notin CourseStatements /\ Statement \notin SectionStatements
  BY <1>2, ItemStatement
<1>4. ScriptOK' /\ Executed'
  BY <1>2, <1>3, AdvanceAdvanced, AdvancedExecuted
<1>5. RowOK(row, DOMAIN courses, DOMAIN sections)
  BY <1>3, ReleaseTexts DEF RowOK,  ItemRow, ItemStatements
<1>6. hit \in SUBSET DOMAIN items /\ \A i \in hit : RowOK(upd[i], DOMAIN courses, DOMAIN sections)
  <2>1. hit \in SUBSET DOMAIN items
    BY DEF SameVerse
  <2> SUFFICES ASSUME NEW i \in hit PROVE RowOK(upd[i], DOMAIN courses, DOMAIN sections)
    BY <2>1
  <2>2. RowOK(items[i], DOMAIN courses, DOMAIN sections) /\ upd[i] = [items[i] EXCEPT !.topicEn = Release.english]
    BY <2>1 DEF CatalogOK
  <2> HIDE DEF upd, hit
  <2> QED BY <2>2, ReleaseTexts DEF RowOK
<1> HIDE DEF hit, row, upd
<1>7. \A i \in DOMAIN items' : RowOK(items'[i], DOMAIN courses', DOMAIN sections')
  BY <1>1, <1>2, <1>5, <1>6, InsertOrUpdateRows
<1> QED BY <1>2, <1>4, <1>7 DEF CatalogOK

\* A slot of a section, by either upsert.
LEMMA SlotItemOK ==
  ASSUME CatalogOK, Running, Statement.op = "warmup item" \/ Statement.op = "messiah item", Advance,
         UNCHANGED <<courses, sections>>, NEW upd,
         \A i \in DOMAIN items :
           RowOK(items[i], DOMAIN courses, DOMAIN sections) =>
             RowOK(upd[i], DOMAIN courses, DOMAIN sections),
         items' = IF SameSlot(Statement.slug, Statement.section, Statement.ord) = {}
                  THEN With(items, nextItem,
                         ItemRow(Statement.slug, Statement.section, Statement.ord, Statement.verse,
                                 Release.topics, Release.english))
                  ELSE [i \in DOMAIN items |->
                          IF i \in SameSlot(Statement.slug, Statement.section, Statement.ord)
                          THEN upd[i] ELSE items[i]]
  PROVE  CatalogOK'
<1> DEFINE hit == SameSlot(Statement.slug, Statement.section, Statement.ord)
           row == ItemRow(Statement.slug, Statement.section, Statement.ord, Statement.verse,
                          Release.topics, Release.english)
<1>1. /\ Statement \in SlotStatements
      /\ Statement \notin CourseStatements /\ Statement \notin SectionStatements
      /\ Statement.slug \in DOMAIN courses
      /\ <<Statement.slug, Statement.section>> \in DOMAIN sections
  BY SlotStatement
<1>2. ScriptOK' /\ Executed'
  BY <1>1, AdvanceAdvanced, AdvancedExecuted
<1>3. RowOK(row, DOMAIN courses, DOMAIN sections)
  BY <1>1, ReleaseTexts DEF RowOK, ItemRow, SlotStatements
<1>4. hit \in SUBSET DOMAIN items
  BY DEF SameSlot
<1>5. \A i \in hit : RowOK(upd[i], DOMAIN courses, DOMAIN sections)
  BY <1>4 DEF CatalogOK
<1> HIDE DEF hit, row
<1>6. items' = IF hit = {} THEN With(items, nextItem, row)
               ELSE [i \in DOMAIN items |-> IF i \in hit THEN upd[i] ELSE items[i]]
  BY DEF hit, row
<1>7. \A i \in DOMAIN items' : RowOK(items'[i], DOMAIN courses', DOMAIN sections')
  BY <1>3, <1>4, <1>5, <1>6, InsertOrUpdateRows
<1> QED BY <1>2, <1>7 DEF CatalogOK

\* A warm-up slot is added to its section, or gets another verse.
LEMMA InsertWarmupItemOK == ASSUME CatalogOK, InsertWarmupItem PROVE CatalogOK'
<1> DEFINE upd == [i \in DOMAIN items |-> WarmupUpdate(items[i], Statement.verse)]
           hit == SameSlot(Statement.slug, Statement.section, Statement.ord)
<1>1. /\ Running /\ Statement.op = "warmup item" /\ Advance /\ UNCHANGED <<courses, sections>>
  BY DEF InsertWarmupItem, Executes
<1>2. Statement.verse \in Verses
  BY <1>1, SlotStatement DEF SlotStatements
<1>3. ASSUME NEW i \in DOMAIN items, RowOK(items[i], DOMAIN courses, DOMAIN sections)
      PROVE  RowOK(upd[i], DOMAIN courses, DOMAIN sections)
  <2>1. upd[i] = WarmupUpdate(items[i], Statement.verse)
    OBVIOUS
  <2> HIDE DEF upd
  <2> QED BY <1>2, <1>3, <2>1, ReleaseTexts DEF RowOK, WarmupUpdate
<1>4. items' = IF hit = {}
               THEN With(items, nextItem,
                      ItemRow(Statement.slug, Statement.section, Statement.ord, Statement.verse,
                              Release.topics, Release.english))
               ELSE [i \in DOMAIN items |-> IF i \in hit THEN upd[i] ELSE items[i]]
  BY DEF InsertWarmupItem, InsertOrUpdate
<1> HIDE DEF upd
<1> QED BY <1>1, <1>3, <1>4, SlotItemOK

\* A messiah slot is added to its section, or its translation is updated.
LEMMA InsertMessiahItemOK == ASSUME CatalogOK, InsertMessiahItem PROVE CatalogOK'
<1> DEFINE upd == [i \in DOMAIN items |-> [items[i] EXCEPT !.topicEn = Release.english]]
           hit == SameSlot(Statement.slug, Statement.section, Statement.ord)
<1>1. /\ Running /\ Statement.op = "messiah item" /\ Advance /\ UNCHANGED <<courses, sections>>
  BY DEF InsertMessiahItem, Executes
<1>3. ASSUME NEW i \in DOMAIN items, RowOK(items[i], DOMAIN courses, DOMAIN sections)
      PROVE  RowOK(upd[i], DOMAIN courses, DOMAIN sections)
  <2>1. upd[i] = [items[i] EXCEPT !.topicEn = Release.english]
    OBVIOUS
  <2> HIDE DEF upd
  <2> QED BY <1>3, <2>1, ReleaseTexts DEF RowOK
<1>4. items' = IF hit = {}
               THEN With(items, nextItem,
                      ItemRow(Statement.slug, Statement.section, Statement.ord, Statement.verse,
                              Release.topics, Release.english))
               ELSE [i \in DOMAIN items |-> IF i \in hit THEN upd[i] ELSE items[i]]
  BY DEF InsertMessiahItem, InsertOrUpdate
<1> HIDE DEF upd
<1> QED BY <1>1, <1>3, <1>4, SlotItemOK

\* The verses of a chapter are added to its section where slots are free.
LEMMA InsertChapterOK == ASSUME CatalogOK, InsertChapter PROVE CatalogOK'
<1> DEFINE chapter == VersesIn(Statement.num, Statement.section)
           IdOf(v) == nextItem + Cardinality({w \in chapter : Place[w].verse < Place[v].verse})
           new == {v \in chapter : SameSlot(Statement.slug, Statement.section, Place[v].verse) = {}}
           VerseAt(i) == CHOOSE v \in new : IdOf(v) = i
<1>1. /\ Running /\ Statement.op = "chapter" /\ Advance /\ UNCHANGED <<courses, sections>>
      /\ Statement.slug \notin script.cut
  BY DEF InsertChapter, Executes
<1>2. items' = [i \in DOMAIN items \cup {IdOf(v) : v \in new} |->
                  IF i \in DOMAIN items THEN items[i]
                  ELSE ItemRow(Statement.slug, Statement.section, Place[VerseAt(i)].verse,
                               VerseAt(i), VerseAt(i), None)]
  BY DEF InsertChapter
<1>3. /\ Statement \in ChapterStatements
      /\ Statement \notin CourseStatements /\ Statement \notin SectionStatements
      /\ Statement.slug \in DOMAIN courses
      /\ <<Statement.slug, Statement.section>> \in DOMAIN sections
  BY <1>1, ChapterStatement
<1>4. ScriptOK' /\ Executed'
  BY <1>1, <1>3, AdvanceAdvanced, AdvancedExecuted
<1>5. ASSUME NEW v \in Verses
      PROVE  RowOK(ItemRow(Statement.slug, Statement.section, Place[v].verse, v, v, None),
                   DOMAIN courses, DOMAIN sections)
  <2>1. Place[v].verse \in Nat /\ v \in STRING
    BY CatalogAssumption DEF CatalogAssumption
  <2> QED BY <1>3, <2>1 DEF RowOK, ItemRow, ChapterStatements
<1>6. ASSUME NEW i \in DOMAIN items', i \notin DOMAIN items
      PROVE  VerseAt(i) \in Verses
  <2>1. \E v \in new : IdOf(v) = i
    BY <1>2, <1>6
  <2>2. VerseAt(i) \in new
    BY <2>1
  <2> QED BY <2>2 DEF VersesIn
<1> HIDE DEF VerseAt, new, IdOf, chapter
<1>7. ASSUME NEW i \in DOMAIN items'
      PROVE  RowOK(items'[i], DOMAIN courses, DOMAIN sections)
  <2>1. CASE i \in DOMAIN items
    BY <1>2, <2>1 DEF CatalogOK
  <2>2. CASE i \notin DOMAIN items
    BY <1>2, <1>5, <1>6, <2>2
  <2> QED BY <2>1, <2>2
<1>8. courses' = courses /\ sections' = sections
  BY <1>1
<1>9. \A i \in DOMAIN items' : RowOK(items'[i], DOMAIN courses', DOMAIN sections')
  BY <1>7, <1>8, Zenon
<1> QED BY <1>4, <1>8, <1>9 DEF CatalogOK

\* So does a commentary.
LEMMA CommentaryAdvanced ==
  ASSUME CatalogOK, NEW s, UpdateCommentary(s)
  PROVE  Advanced
<1>1. IsScript(script)
  BY DEF CatalogOK, ScriptOK
<1>2. script' = [script EXCEPT !.at = script.at + 1, !.told = script.told \cup {s}]
  BY DEF UpdateCommentary
<1>3. script' = [release |-> script.release, at |-> script.at + 1, told |-> script.told \cup {s},
                 cut |-> script.cut]
  BY <1>1, <1>2 DEF IsScript
<1> QED BY <1>3 DEF Advanced, IsScript

\* A commentary changes two texts of a course.
LEMMA UpdateCommentaryOK ==
  ASSUME CatalogOK, NEW s, UpdateCommentary(s)
  PROVE  CatalogOK'
<1>1. /\ Running /\ Statement.op = "commentary" /\ UNCHANGED <<sections, items>>
  BY DEF UpdateCommentary, Executes
<1>2. Advanced
  BY CommentaryAdvanced
<1>3. /\ DOMAIN courses' = DOMAIN courses
      /\ \A t \in DOMAIN courses : t # s => courses'[t] = courses[t]
      /\ s \in DOMAIN courses =>
           courses'[s] = [courses[s] EXCEPT !.commentary = Release.commentary[s].ko,
                                            !.commentaryEn = Release.commentary[s].en]
  BY DEF UpdateCommentary
<1>4. ScriptOK' /\ Executed'
  BY <1>1, <1>2, <1>3, CommentaryStatement, AdvancedExecuted
<1>5. ASSUME s \in DOMAIN courses PROVE CourseOK(courses'[s])
  <2>1. CourseOK(courses[s])
    BY <1>5 DEF CatalogOK
  <2>2. PICK texts : courses[s] \in CourseRows(texts)
    BY <2>1 DEF CourseOK
  <2>3. PICK more : more = texts \cup {Release.commentary[s].ko, Release.commentary[s].en}
    OBVIOUS
  <2>4. courses'[s] \in CourseRows(more)
    BY <1>3, <1>5, <2>2, <2>3 DEF CourseRows
  <2> QED BY <2>4 DEF CourseOK
<1>6. \A t \in DOMAIN courses' : CourseOK(courses'[t])
  BY <1>3, <1>5 DEF CatalogOK
<1>7. \A i \in DOMAIN items' : RowOK(items'[i], DOMAIN courses', DOMAIN sections')
  BY <1>1, <1>3, RowsStay
<1> QED BY <1>1, <1>3, <1>4, <1>6, <1>7 DEF CatalogOK

\* A book that is passed over leaves the script at its next statement.
LEMMA PassChapterScript ==
  ASSUME CatalogOK, PassChapter
  PROVE  /\ Running /\ UNCHANGED <<courses, sections, items, seeded>>
         /\ script'.release = script.release /\ script'.at = script.at + 1 /\ IsScript(script')
         /\ script'.cut = script.cut \cup {Statement.slug}
         /\ script'.cut \subseteq BookSlugs(script.release)
         /\ Statement.op = "section" \/ Statement.op = "chapter"
<1>1. IsScript(script) /\ script.cut \subseteq BookSlugs(script.release)
  BY DEF CatalogOK, ScriptOK
<1>2. /\ Running /\ UNCHANGED <<courses, sections, items, seeded>>
      /\ Statement.op = "section" \/ Statement.op = "chapter"
  BY DEF PassChapter, Executes
<1>3. PICK slug : slug = Statement.slug
  OBVIOUS
<1>4. script' = [script EXCEPT !.at = script.at + 1, !.cut = script.cut \cup {slug}]
  BY <1>3 DEF PassChapter
<1>5. script' = [release |-> script.release, at |-> script.at + 1, told |-> script.told,
                 cut |-> script.cut \cup {slug}]
  BY <1>1, <1>4 DEF IsScript
<1>6. slug \in BookSlugs(script.release)
  BY <1>1, <1>3 DEF PassChapter, BookSlugs, Release
<1> QED BY <1>1, <1>2, <1>3, <1>5, <1>6 DEF IsScript

\* What such a book is without is not counted on.
LEMMA PassChapterOK == ASSUME CatalogOK, PassChapter PROVE CatalogOK'
<1>1. /\ Running /\ UNCHANGED <<courses, sections, items>>
      /\ script'.release = script.release /\ script'.at = script.at + 1 /\ IsScript(script')
      /\ script'.cut = script.cut \cup {Statement.slug}
      /\ script'.cut \subseteq BookSlugs(script.release)
  BY PassChapterScript
<1>2. Statement \notin CourseStatements
  BY PassChapterScript DEF CourseStatements
<1>3. ScriptOK' /\ Executed'
  BY <1>1, <1>2, StepExecuted
<1> QED BY <1>1, <1>3 DEF CatalogOK

\* A script that is started has done nothing yet, one that ended does not run.
LEMMA StartSeedOK ==
  ASSUME CatalogOK, NEW r \in Releases, StartSeed(r)
  PROVE  CatalogOK'
<1>1. script' = [release |-> r, at |-> 1, told |-> {}, cut |-> {}] /\ UNCHANGED <<courses, sections, items>>
  BY DEF StartSeed
<1>2. ScriptOK'
  BY <1>1 DEF ScriptOK, IsScript
<1>3. Before(Programs[r], 1) = {}
  BY DEF Before
<1>4. Executed'
  BY <1>1, <1>3 DEF Executed
<1> QED BY <1>1, <1>2, <1>4 DEF CatalogOK

\* A script that ended has nothing to account for.
LEMMA EndedOK ==
  ASSUME CatalogOK, script' = [script EXCEPT !.at = 0]
  PROVE  ScriptOK' /\ Executed'
<1>1. IsScript(script) /\ script.release \in Releases /\ script.cut \subseteq BookSlugs(script.release)
  BY DEF CatalogOK, ScriptOK
<1>2. script' = [release |-> script.release, at |-> 0, told |-> script.told, cut |-> script.cut]
  BY <1>1 DEF IsScript
<1>3. ScriptOK' /\ script'.release \in Releases /\ script'.at = 0
  BY <1>1, <1>2 DEF ScriptOK, IsScript
<1>4. Programs[script'.release] \in Seq(Statements)
  BY <1>3, ProgramSequel DEF Sequels
<1>5. ~ Running'
  BY <1>3, <1>4, LenProperties DEF Running
<1> QED BY <1>3, <1>5 DEF Executed

\* A crash leaves the rows that were committed.
LEMMA CrashSeedOK == ASSUME CatalogOK, CrashSeed PROVE CatalogOK'
<1>1. ScriptOK' /\ Executed'
  BY EndedOK DEF CrashSeed
<1>2. UNCHANGED <<courses, sections, items>>
  BY DEF CrashSeed
<1> QED BY <1>1, <1>2 DEF CatalogOK

\* A reload empties course_items, and with it what refers to sections.
LEMMA ReloadOK == ASSUME CatalogOK, TruncateItems PROVE CatalogOK'
<1>1. ScriptOK' /\ Executed'
  BY EndedOK DEF TruncateItems
<1>2. UNCHANGED <<courses, sections>> /\ items' = <<>>
  BY DEF TruncateItems
<1>3. DOMAIN items' = {}
  BY <1>2
<1> QED BY <1>1, <1>2, <1>3 DEF CatalogOK

\* A step that leaves the catalogue alone.
LEMMA FrameCatalogOK == ASSUME CatalogOK, UNCHANGED <<courses, sections, items, script>> PROVE CatalogOK'
<1>1. ScriptOK' /\ Executed'
  BY DEF CatalogOK, ScriptOK, Executed, Running
<1> QED BY <1>1 DEF CatalogOK

\* Every step keeps the catalogue in order.
LEMMA NextCatalogOK == ASSUME CatalogOK, [Next]_vars PROVE CatalogOK'
<1>1. CASE Seed
  <2>1. CASE SeedStatement
    BY <2>1, UpsertCourseOK, UpsertSectionOK, InsertItemOK, InsertWarmupItemOK,
       InsertMessiahItemOK, InsertChapterOK, UpdateCommentaryOK DEF SeedStatement
  <2>2. CASE CrashSeed
    BY <2>2, CrashSeedOK
  <2>3. CASE \E r \in Releases : StartSeed(r)
    BY <2>3, StartSeedOK
  <2>4. CASE PassChapter
    BY <2>4, PassChapterOK
  <2> QED BY <1>1, <2>1, <2>2, <2>3, <2>4 DEF Seed
<1>2. CASE Reload
  BY <1>2, ReloadOK DEF Reload
<1>3. CASE UNCHANGED catalogVars
  BY <1>3, FrameCatalogOK DEF catalogVars
<1>4. ASSUME NEW u \in Users,
             \/ \E i \in DOMAIN items : AddFavorite(u, i) \/ RemoveFavorite(u, i)
             \/ Prepares(u) \/ CommitAttempt(u)
             \/ GetLastAttempt(u) \/ GetNextUnclearedItem(u)
             \/ StartStats(u) \/ NextFigure(u)
             \/ StartProgress(u) \/ ListUserProgress(u)
             \/ Deliver(u)
      PROVE  UNCHANGED catalogVars
  BY <1>4, PreparesRead DEF CommitAttempt, AddFavorite, RemoveFavorite, GetLastAttempt, GetNextUnclearedItem,
     StartStats, NextFigure, StartProgress, ListUserProgress, Deliver, catalogVars
<1>5. CASE UNCHANGED vars
  BY <1>5, FrameCatalogOK DEF vars
<1> QED BY <1>1, <1>2, <1>3, <1>4, <1>5 DEF Next, Prepares
-----------------------------------------------------------------------------
(* Attempts: each is of an item that is there and has the grade it         *)
(* deserves.                                                               *)

\* The normalised text is a sequence of words in lower case.
LEMMA NormalizeWords ==
  ASSUME NEW T, NEW text \in Seq(T)
  PROVE  Normalize(text) \in Seq(Words)
<1> DEFINE m == Len(text)
           V == Seq(Words)
           next(n, got) == IF text[n] \in Words THEN Append(got, Lower[text[n]]) ELSE got
           step == [p \in (1..m) \X V |-> next(p[1], p[2])]
           fields == CHOOSE g : g = [n \in 0..m |->
                       IF n = 0 THEN <<>>
                       ELSE IF text[n] \in Words THEN Append(g[n - 1], Lower[text[n]])
                       ELSE g[n - 1]]
           S == {n \in 0..m : fields[n] \in V}
<1>1. m \in Nat
  BY LenProperties
<1>2. Normalize(text) = fields[m]
  BY DEF Normalize
<1>3. <<>> \in V
  BY EmptySeq
<1>4. ASSUME NEW n \in 1..m, NEW got \in V PROVE next(n, got) \in V
  <2>1. CASE text[n] \in Words
    <3>1. Lower[text[n]] \in Words
      BY <2>1, LowerAssumption DEF Range
    <3>2. Append(got, Lower[text[n]]) \in Seq(Words)
      BY <3>1, AppendProperties
    <3> QED BY <2>1, <3>2
  <2>2. CASE text[n] \notin Words
    BY <1>4, <2>2
  <2> QED BY <2>1, <2>2
<1> HIDE DEF m, V
<1>5. \E g : g = [n \in 0..m |-> IF n = 0 THEN <<>> ELSE next(n, g[n - 1])]
  <2>1. IsStep(step, m, V)
    <3> HIDE DEF next
    <3> QED BY <1>4 DEF IsStep
  <2>2. PICK g : TakesSteps(g, m, V, <<>>, step)
    <3> HIDE DEF step
    <3> QED BY <1>1, <1>3, <2>1, RecursionExists
  <2>3. ASSUME NEW n \in 1..m PROVE g[n] = next(n, g[n - 1])
    <3>1. n - 1 \in 0..m
      BY <1>1
    <3>2. g[n - 1] \in V /\ g[n] = step[<<n, g[n - 1]>>]
      <4> HIDE DEF step
      <4> QED BY <3>1, <2>2 DEF TakesSteps
    <3> HIDE DEF next
    <3> QED BY <3>2
  <2> HIDE DEF step, next
  <2>4. \A n \in 0..m : g[n] = IF n = 0 THEN <<>> ELSE next(n, g[n - 1])
    BY <1>1, <2>2, <2>3 DEF TakesSteps
  <2> QED BY <2>2, <2>4 DEF TakesSteps
<1>6. fields = [n \in 0..m |-> IF n = 0 THEN <<>> ELSE next(n, fields[n - 1])]
  BY <1>5
<1> HIDE DEF fields, next
<1>7. 0 \in S
  BY <1>1, <1>3, <1>6
<1>8. ASSUME NEW n \in 1..m, n - 1 \in S PROVE n \in S
  <2>1. n \in 0..m /\ n # 0 /\ fields[n - 1] \in V
    BY <1>1, <1>8
  <2>2. fields[n] = next(n, fields[n - 1])
    BY <1>6, <2>1
  <2> QED BY <1>4, <2>1, <2>2
<1> HIDE DEF S
<1>9. m \in S
  <2>1. 0..m \subseteq S
    BY <1>1, <1>7, <1>8, IntervalInduction
  <2> QED BY <1>1, <2>1
<1> QED BY <1>2, <1>9 DEF S, V

\* The server's grade of a recital is the one it deserves.
LEMMA GradeDeserved ==
  ASSUME NEW v \in Verses, NEW x \in Recitals
  PROVE  GradeRecall(Normalize(Text[v]), x.tokens) = Deserved[v][x]
<1>1. Normalize(Text[v]) \in Seq(Words) /\ x.tokens \in Seq(STRING)
  BY NormalizeWords, CatalogAssumption, LearningAssumption DEF CatalogAssumption, LearningAssumption
<1>2. PICK T : T = Words \cup STRING
  OBVIOUS
<1>3. Normalize(Text[v]) \in Seq(T) /\ x.tokens \in Seq(T)
  BY <1>1, <1>2, SeqMonotonic
<1>4. GradeRecall(Normalize(Text[v]), x.tokens) = ShareGrade(Normalize(Text[v]), x.tokens)
  BY <1>3, GradeRecallIsShareGrade
<1> QED BY <1>4 DEF Deserved

Grades == {"green", "yellow", "red", "none"}

\* An attempt is of an item that is there, and has the grade it deserves.  It
\* is copied to the verse it was made on, unless its item was given another.
AttemptOK(a, ids, gone) ==
  /\ a \in [id : Nat \ {0}, item : ids, verse : Verses, recital : Recitals, grade : Grades,
            copied : Verses \cup {None}]
  /\ a.grade = Deserved[a.verse][a.recital]
  /\ IF IsPracticeMode(a.recital.mode) THEN a.copied = None
     ELSE a.copied = a.verse \/ a.item \in gone

\* An attempt that is graded, and its item if that still has the verse.
GradedOK(try) ==
  /\ try.item \in DOMAIN items /\ try.verse \in Verses /\ try.recital \in Recitals
  /\ try.grade \in Grades /\ try.grade = Deserved[try.verse][try.recital]
  /\ items[try.item].verse = try.verse \/ try.item \in moved

TryOK(try) ==
  /\ try.kind = "graded" => GradedOK(try)
  /\ try.kind = "spread" => AttemptOK(try.row, DOMAIN items, moved)

AttemptsOK ==
  \A u \in Users :
    /\ \A a \in Range(attempts[u]) : AttemptOK(a, DOMAIN items, moved)
    /\ TryOK(underway[u])

\* An attempt that is started is graded against the text of its item.
LEMMA StartAttemptOK ==
  ASSUME Inv, CatalogOK, NEW u \in Users, NEW i \in DOMAIN items, NEW x \in Recitals,
         StartAttempt(u, i, x)
  PROVE  TryOK(underway[u])'
<1> DEFINE verse == items[i].verse
           grade == GradeRecall(Normalize(Text[verse]), x.tokens)
           try == [kind |-> "graded", item |-> i, verse |-> verse, recital |-> x, grade |-> grade]
<1>1. items' = items /\ moved' = moved /\ underway'[u] = try
  BY DEF StartAttempt, catalogVars, Inv, LearnersOK
<1>2. RowOK(items[i], DOMAIN courses, DOMAIN sections)
  BY DEF CatalogOK
<1>3. verse \in Verses
  BY <1>2 DEF RowOK
<1>4. grade = Deserved[verse][x]
  BY <1>3, GradeDeserved
<1>5. grade \in Grades
  BY DEF GradeRecall, Grades
<1>6. verse = items[i].verse
  OBVIOUS
<1> HIDE DEF grade, verse
<1>7. /\ try.kind = "graded" /\ try.item = i /\ try.verse = verse /\ try.recital = x
      /\ try.grade = grade
  OBVIOUS
<1> HIDE DEF try
<1>8. (GradedOK(underway[u]))'
  BY <1>1, <1>3, <1>4, <1>5, <1>6, <1>7 DEF GradedOK
<1> QED BY <1>1, <1>7, <1>8 DEF TryOK

\* Its row says to which verse it is copied.
LEMMA ListSiblingsOK ==
  ASSUME Inv, CatalogOK, AttemptsOK, NEW u \in Users, ListSiblings(u)
  PROVE  TryOK(underway[u])'
<1>1. PICK try : try = underway[u]
  OBVIOUS
<1>2. try.kind = "graded" /\ GradedOK(try)
  BY <1>1 DEF ListSiblings, AttemptsOK, TryOK
<1> DEFINE practice == IsPracticeMode(try.recital.mode)
           copied == IF practice THEN None ELSE items[try.item].verse
           row == [id |-> Len(attempts[u]) + 1, item |-> try.item, verse |-> try.verse,
                   recital |-> try.recital, grade |-> try.grade, copied |-> copied]
<1>3. /\ items' = items /\ moved' = moved
      /\ underway'[u].kind = "spread" /\ underway'[u].row = row
  BY <1>1 DEF ListSiblings, catalogVars, Inv, LearnersOK
<1>4. RowOK(items[try.item], DOMAIN courses, DOMAIN sections)
  BY <1>2 DEF CatalogOK, GradedOK
<1>5. items[try.item].verse \in Verses
  BY <1>4 DEF RowOK
<1>6. Len(attempts[u]) + 1 \in Nat \ {0}
  <2>1. Len(attempts[u]) \in Nat
    BY LenProperties DEF Inv, LearnersOK, LearnerOK
  <2> QED BY <2>1
<1>7. /\ copied \in Verses \cup {None}
      /\ IF practice THEN copied = None ELSE copied = try.verse \/ try.item \in moved
  BY <1>2, <1>5 DEF GradedOK
<1> HIDE DEF copied
<1>8. AttemptOK(row, DOMAIN items, moved)
  BY <1>2, <1>6, <1>7 DEF AttemptOK, GradedOK
<1> HIDE DEF row
<1>9. AttemptOK(underway'[u].row, DOMAIN items', moved')
  BY <1>3, <1>8
<1> QED BY <1>3, <1>9 DEF TryOK

\* Attempts that are not written keep their items, and what is said of them.
LEMMA AttemptStays ==
  ASSUME NEW a, NEW ids, NEW gone, AttemptOK(a, ids, gone),
         NEW ids2, ids \subseteq ids2, NEW gone2, gone \subseteq gone2
  PROVE  AttemptOK(a, ids2, gone2)
BY DEF AttemptOK

\* So does an attempt under way.
LEMMA TryStays ==
  ASSUME NEW try, TryOK(try), DOMAIN items \subseteq DOMAIN items', moved \subseteq moved',
         \A i \in DOMAIN items \ moved' : items'[i].verse = items[i].verse
  PROVE  TryOK(try)'
<1>1. ASSUME try.kind = "graded" PROVE GradedOK(try)'
  BY <1>1 DEF TryOK, GradedOK
<1>2. ASSUME try.kind = "spread" PROVE AttemptOK(try.row, DOMAIN items', moved')
  BY <1>2, AttemptStays DEF TryOK
<1> QED BY <1>1, <1>2 DEF TryOK

\* The rows of all the tables together.
TablesOK == Inv /\ CatalogOK /\ AttemptsOK

\* The tables are in order at first.
LEMMA InitTablesOK == Init => TablesOK
<1> SUFFICES ASSUME Init PROVE AttemptsOK
  BY InitInv, InitCatalogOK DEF TablesOK
<1>1. ASSUME NEW u \in Users PROVE Range(attempts[u]) = {} /\ underway[u].kind = "idle"
  BY DEF Init, Idle, Range
<1> QED BY <1>1 DEF AttemptsOK, TryOK

\* Every item has a verse.
LEMMA TablesVerses == ASSUME CatalogOK PROVE VersesGiven
<1> SUFFICES ASSUME NEW i \in DOMAIN items PROVE items[i].verse # None
  BY DEF VersesGiven
<1>1. RowOK(items[i], DOMAIN courses, DOMAIN sections)
  BY DEF CatalogOK
<1>2. items[i].verse \in STRING
  BY <1>1, CatalogAssumption DEF RowOK, CatalogAssumption
<1> QED BY <1>2, NullAssumption DEF NullAssumption

\* Steps that grow the catalogue and write no attempts.
LEMMA AttemptsStay ==
  ASSUME AttemptsOK, attempts' = attempts, underway' = underway,
         DOMAIN items \subseteq DOMAIN items', moved \subseteq moved',
         \A i \in DOMAIN items \ moved' : items'[i].verse = items[i].verse
  PROVE  AttemptsOK'
<1>1. ASSUME NEW u \in Users, NEW a \in Range(attempts[u])
      PROVE  AttemptOK(a, DOMAIN items', moved')
  <2>1. AttemptOK(a, DOMAIN items, moved)
    BY <1>1 DEF AttemptsOK
  <2> QED BY <2>1, AttemptStays
<1>2. ASSUME NEW u \in Users PROVE TryOK(underway[u])'
  <2>1. PICK try : try = underway[u] /\ TryOK(try)
    BY <1>2 DEF AttemptsOK
  <2>2. TryOK(try)'
    BY <2>1, TryStays
  <2> QED BY <2>1, <2>2
<1> QED BY <1>1, <1>2 DEF AttemptsOK

\* A step of one learner's attempt.
LEMMA AttemptStep ==
  ASSUME AttemptsOK, NEW u \in Users, UNCHANGED <<items, moved>>,
         \A v \in Users \ {u} : attempts'[v] = attempts[v] /\ underway'[v] = underway[v],
         \A a \in Range(attempts'[u]) : AttemptOK(a, DOMAIN items, moved),
         TryOK(underway[u])'
  PROVE  AttemptsOK'
<1>1. ASSUME NEW v \in Users, NEW a \in Range(attempts'[v])
      PROVE  AttemptOK(a, DOMAIN items', moved')
  <2>1. CASE v = u
    BY <1>1, <2>1
  <2>2. CASE v # u
    BY <1>1, <2>2 DEF AttemptsOK
  <2> QED BY <2>1, <2>2
<1>2. ASSUME NEW v \in Users \ {u} PROVE TryOK(underway[v])'
  <2>1. PICK try : try = underway[v] /\ TryOK(try) /\ underway'[v] = try
    BY <1>2 DEF AttemptsOK
  <2>2. TryOK(try)'
    BY <2>1, TryStays
  <2> QED BY <2>1, <2>2
<1>3. \A v \in Users : TryOK(underway[v])'
  BY <1>2
<1> QED BY <1>1, <1>3 DEF AttemptsOK

\* The row that is committed is the one that was put together.
LEMMA CommitAttemptOK ==
  ASSUME Inv, AttemptsOK, NEW u \in Users, CommitAttempt(u)
  PROVE  AttemptsOK'
<1>1. /\ UNCHANGED <<items, moved>>
      /\ \A v \in Users \ {u} : attempts'[v] = attempts[v] /\ underway'[v] = underway[v]
      /\ underway'[u].kind = "idle"
  BY DEF CommitAttempt, catalogVars, Idle, Inv, LearnersOK
<1>2. PICK row : row = underway[u].row
  OBVIOUS
<1>3. PICK k \in 1..Len(attempts[u]) + 1 : attempts'[u] = InsertAt(attempts[u], k, row)
  BY <1>2 DEF CommitAttempt, Inv, LearnersOK
<1>4. Range(attempts'[u]) = Range(attempts[u]) \cup {row}
  BY <1>3, InsertAtRange DEF Inv, LearnersOK, LearnerOK
<1>5. AttemptOK(row, DOMAIN items, moved)
  BY <1>2 DEF CommitAttempt, AttemptsOK, TryOK
<1>6. \A a \in Range(attempts'[u]) : AttemptOK(a, DOMAIN items, moved)
  BY <1>4, <1>5 DEF AttemptsOK
<1>7. TryOK(underway[u])'
  BY <1>1 DEF TryOK
<1> QED BY <1>1, <1>6, <1>7, AttemptStep

\* A step before the commit.
LEMMA PreparesOK ==
  ASSUME Inv, CatalogOK, AttemptsOK, NEW u \in Users, Prepares(u)
  PROVE  AttemptsOK'
<1>1. UNCHANGED <<items, moved, attempts>>
  BY PreparesRead DEF catalogVars
<1>2. \A v \in Users \ {u} : attempts'[v] = attempts[v] /\ underway'[v] = underway[v]
  BY <1>1 DEF Prepares, StartAttempt, ListSiblings, FailAttempt, Inv, LearnersOK
<1>3. \A a \in Range(attempts'[u]) : AttemptOK(a, DOMAIN items, moved)
  BY <1>1 DEF AttemptsOK
<1>4. TryOK(underway[u])'
  <2>1. CASE FailAttempt(u)
    <3>1. underway'[u].kind = "idle"
      BY <2>1 DEF FailAttempt, Idle, Inv, LearnersOK
    <3> QED BY <3>1 DEF TryOK
  <2> QED BY <2>1, StartAttemptOK, ListSiblingsOK DEF Prepares
<1> QED BY <1>1, <1>2, <1>3, <1>4, AttemptStep

\* Every step keeps all the tables in order.
LEMMA NextTablesOK == TablesOK /\ [Next]_vars => TablesOK'
<1> SUFFICES ASSUME TablesOK, [Next]_vars PROVE AttemptsOK'
  BY NextInv, NextCatalogOK, TablesVerses DEF TablesOK
<1>1. CASE Seed
  <2>1. Grows /\ attempts' = attempts /\ underway' = underway
    BY <1>1, SeedGrows DEF TablesOK, Inv, Seed
  <2> QED BY <2>1, AttemptsStay DEF Grows, TablesOK
<1>2. CASE Reload
  <2>1. \A u \in Users : Range(attempts'[u]) = {} /\ underway'[u].kind = "idle"
    BY <1>2 DEF Reload, Idle, Range
  <2> QED BY <2>1 DEF AttemptsOK, TryOK
<1>3. ASSUME NEW u \in Users, Prepares(u) \/ CommitAttempt(u)
      PROVE  AttemptsOK'
  BY <1>3, PreparesOK, CommitAttemptOK DEF TablesOK
<1>4. ASSUME NEW u \in Users, NEW i \in DOMAIN items, AddFavorite(u, i) \/ RemoveFavorite(u, i)
      PROVE  UNCHANGED <<attempts, underway, items, moved>>
  BY <1>4 DEF AddFavorite, RemoveFavorite, catalogVars
<1>5. ASSUME NEW u \in Users,
             \/ GetLastAttempt(u) \/ GetNextUnclearedItem(u) \/ StartStats(u) \/ NextFigure(u)
             \/ StartProgress(u) \/ ListUserProgress(u) \/ Deliver(u)
      PROVE  UNCHANGED <<attempts, underway, items, moved>>
  BY <1>5, QueriesRead DEF TablesOK, Reads
<1>6. CASE UNCHANGED <<attempts, underway, items, moved>>
  BY <1>6, AttemptsStay DEF TablesOK
<1>7. CASE UNCHANGED vars
  BY <1>6, <1>7 DEF vars
<1> QED BY <1>1, <1>2, <1>3, <1>4, <1>5, <1>6, <1>7 DEF Next, Prepares

\* TablesOK is an invariant.
THEOREM LearningTablesOK == Spec => []TablesOK
BY InitTablesOK, NextTablesOK, PTL DEF Spec

\* Progress follows the last attempt at the verse, through the fan-out to
\* copies (submitLocked), seeding of whatever releases, crashes and reloads.
THEOREM LearningProgressFollowsLast == Spec => []ProgressFollowsLast
<1>1. TablesOK => ProgressFollowsLast
  BY DEF TablesOK, Inv
<1> QED BY <1>1, LearningTablesOK, PTL

\* The answer to a request to resume is an item of the course that is not
\* cleared, as long as there is one, whatever happened between the two
\* statements of GetResume.
THEOREM LearningResumeSound == Spec => ResumeSound
<1> DEFINE Sound(u) ==
      request[u].kind = "resume" /\ request'[u].kind = "target" =>
        LET i == request'[u].item
            course == ItemsOfCourse(request[u].course)
        IN  IF \A j \in course : Cleared(u, j) THEN i = request[u].item
            ELSE i \in course /\ ~ Cleared(u, i)
<1>1. ASSUME Inv, NEW u \in Users, GetNextUnclearedItem(u) PROVE Sound(u)
  <2> DEFINE open == Uncleared(u, request[u].course)
  <2>1. PICK i \in IF open = {} THEN {request[u].item} ELSE FirstFrom(open, request[u].ord) :
            request' = [request EXCEPT ![u] = Answer(i)]
    BY <1>1 DEF GetNextUnclearedItem
  <2>2. request'[u].item = i
    BY <1>1, <2>1 DEF Answer, Inv, LearnersOK
  <2>3. open = {j \in ItemsOfCourse(request[u].course) : ~ Cleared(u, j)}
    BY DEF Uncleared, ItemsOfCourse
  <2>4. open # {} => i \in open
    BY <2>1 DEF FirstFrom
  <2> HIDE DEF open
  <2> QED BY <2>1, <2>2, <2>3, <2>4
<1>2. ASSUME Inv, NEW u \in Users, request'[u].kind # "target" \/ request'[u] = request[u]
             \/ request[u].kind # "resume"
      PROVE  Sound(u)
  BY <1>2
<1>3. ASSUME Inv, [Next]_vars, NEW u \in Users PROVE Sound(u)
  <2>1. CASE Seed \/ Reload
    <3>1. request' = Disturbed(request) \/ request' = request
      BY <2>1 DEF Seed, Reload
    <3>2. request'[u].kind # "target" \/ request'[u] = request[u]
      BY <3>1 DEF Disturbed
    <3> QED BY <1>2, <1>3, <3>2
  <2>2. ASSUME NEW v \in Users,
               \/ \E i \in DOMAIN items : AddFavorite(v, i) \/ RemoveFavorite(v, i)
               \/ Prepares(v) \/ CommitAttempt(v)
        PROVE  Sound(u)
    <3>1. request' = Disturbed(request) \/ request' = request
      BY <2>2, PreparesRead DEF CommitAttempt, AddFavorite, RemoveFavorite
    <3>2. request'[u].kind # "target" \/ request'[u] = request[u]
      BY <3>1 DEF Disturbed
    <3> QED BY <1>2, <1>3, <3>2
  <2>3. ASSUME NEW v \in Users \ {u}, \E a : request' = [request EXCEPT ![v] = a]
        PROVE  Sound(u)
    <3>1. request'[u] = request[u]
      BY <1>3, <2>3 DEF Inv, LearnersOK
    <3> QED BY <1>2, <1>3, <3>1
  <2>4. ASSUME NEW v \in Users,
               \/ GetLastAttempt(v) \/ GetNextUnclearedItem(v) \/ StartStats(v) \/ NextFigure(v)
               \/ StartProgress(v) \/ ListUserProgress(v) \/ Deliver(v)
        PROVE  Sound(u)
    <3>1. \E a : request' = [request EXCEPT ![v] = a]
      BY <2>4 DEF GetLastAttempt, GetNextUnclearedItem, StartStats, NextFigure, StartProgress,
                  ListUserProgress, Deliver
    <3>2. CASE v # u
      BY <2>3, <3>1, <3>2
    <3>3. CASE v = u /\ ~ GetNextUnclearedItem(u)
      <4>1. request[u].kind # "resume"
        BY <2>4, <3>3 DEF GetLastAttempt, StartStats, NextFigure, StartProgress,
                          ListUserProgress, Deliver, Idle
      <4> QED BY <1>2, <1>3, <4>1
    <3> QED BY <1>1, <1>3, <3>2, <3>3
  <2>5. CASE UNCHANGED vars
    BY <1>2, <1>3, <2>5 DEF vars
  <2> QED BY <1>3, <2>1, <2>2, <2>4, <2>5 DEF Next, Prepares
<1>4. TablesOK /\ [Next]_vars => [\A u \in Users : Sound(u)]_request
  BY <1>3 DEF TablesOK
<1> QED BY <1>4, LearningTablesOK, PTL DEF Spec, ResumeSound

\* The tables refer to one another as the foreign keys say, in every state of
\* a seeding that crashes and is run again while learners write.
THEOREM LearningTypeOK == Spec => []TypeOK
<1>1. TablesOK => TypeOK
  <2> SUFFICES ASSUME TablesOK PROVE TypeOK
    OBVIOUS
  <2>1. ASSUME NEW s \in DOMAIN courses PROVE courses[s].hidden \in BOOLEAN
    BY DEF TablesOK, CatalogOK, CourseOK, CourseRows
  <2>2. ASSUME NEW i \in DOMAIN items
        PROVE  /\ items[i] \in ItemRecord
               /\ items[i].section # None => <<items[i].course, items[i].section>> \in DOMAIN sections
    <3>1. RowOK(items[i], DOMAIN courses, DOMAIN sections)
      BY DEF TablesOK, CatalogOK
    <3> QED BY <3>1 DEF RowOK, ItemRecord
  <2>3. ASSUME NEW u \in Users, NEW k \in DOMAIN attempts[u]
        PROVE  attempts[u][k] \in AttemptRecord
    <3>1. attempts[u][k] \in Range(attempts[u])
      BY DEF Range
    <3>2. AttemptOK(attempts[u][k], DOMAIN items, moved)
      BY <3>1 DEF TablesOK, AttemptsOK
    <3> QED BY <3>2 DEF AttemptOK, AttemptRecord, Grades
  <2>4. \A k \in DOMAIN sections : k[1] \in DOMAIN courses
    BY DEF TablesOK, CatalogOK
  <2>5. /\ DOMAIN items \subseteq 1..nextItem - 1 /\ moved \subseteq DOMAIN items
        /\ \A u \in Users : DOMAIN progress[u] \subseteq DOMAIN items /\ favorites[u] \subseteq DOMAIN items
    BY DEF TablesOK, Inv, ItemsOK, LearnersOK, LearnerOK
  <2>6. ASSUME NEW u \in Users
        PROVE  /\ underway[u].kind = "graded" => underway[u].item \in DOMAIN items
               /\ underway[u].kind = "spread" =>
                    underway[u].row \in AttemptRecord /\ underway[u].copies \subseteq DOMAIN items
    <3>1. UnderwayOK(u) /\ TryOK(underway[u])
      BY DEF TablesOK, Inv, LearnersOK, AttemptsOK
    <3>2. underway[u].kind = "spread" => underway[u].row \in AttemptRecord
      BY <3>1 DEF TryOK, AttemptOK, AttemptRecord, Grades
    <3> QED BY <3>1, <3>2 DEF UnderwayOK
  <2> QED BY <2>1, <2>2, <2>3, <2>4, <2>5, <2>6 DEF TypeOK
<1> QED BY <1>1, LearningTablesOK, PTL

\* Progress follows the last recital that was copied to the verse, the seeding
\* coming between the statements of an attempt or not; every recital was graded
\* by the longest part of its verse that it has in order, and it was copied to
\* that verse unless the seeding gave its item another one.
THEOREM LearningProgressFollowsVerse == Spec => []ProgressFollowsVerse
<1>1. TablesOK => ProgressFollowsVerse
  BY DEF TablesOK, Inv, AttemptsOK, AttemptOK, ProgressFollowsVerse
<1> QED BY <1>1, LearningTablesOK, PTL
-----------------------------------------------------------------------------
(* The figures of the dashboard and of the progress page add up.           *)

\* The image of a finite set is finite, and no larger.
LEMMA ImageFinite ==
  ASSUME NEW S, IsFiniteSet(S), NEW f
  PROVE  /\ IsFiniteSet({f[x] : x \in S})
         /\ Cardinality({f[x] : x \in S}) <= Cardinality(S)
<1> DEFINE T == {f[x] : x \in S}
           g == [x \in S |-> f[x]]
<1>1. g \in Surjection(S, T)
  BY DEF Surjection
<1> HIDE DEF g, T
<1>2. IsFiniteSet(T) /\ Cardinality(T) <= Cardinality(S)
  BY <1>1, FS_Surjection
<1> QED BY <1>2 DEF T

\* The sizes of the parts of a set add up to its size.
LEMMA SumOfParts ==
  ASSUME NEW D, IsFiniteSet(D), NEW G, \A x \in D : IsFiniteSet(G[x]),
         \A x, y \in D : x # y => G[x] \cap G[y] = {},
         NEW f, DOMAIN f = D, \A x \in D : f[x] = Cardinality(G[x])
  PROVE  SumFunction(f) = Cardinality(UNION {G[x] : x \in D})
<1> DEFINE h == [s \in SUBSET D |-> Cardinality(UNION {G[x] : x \in s})]
           some(s) == CHOOSE x \in s : TRUE
           iter == CHOOSE g : g = [s \in SUBSET D |->
                     IF s = {} THEN 0 ELSE f[some(s)] + g[s \ {some(s)}]]
           n == Cardinality(D)
           K == {k \in 0..n : \A s \in SUBSET D : Cardinality(s) = k => iter[s] = h[s]}
<1>1. SumFunction(f) = iter[D]
  BY DEF SumFunction, SumFunctionOnSet, FoldFunctionOnSet, MapThenFoldSet
<1>2. ASSUME NEW s \in SUBSET D
      PROVE  /\ IsFiniteSet(s) /\ Cardinality(s) \in Nat /\ Cardinality(s) <= n
             /\ IsFiniteSet(UNION {G[x] : x \in s})
  <2>1. IsFiniteSet(s) /\ Cardinality(s) <= n
    BY FS_Subset
  <2>2. IsFiniteSet({G[x] : x \in s})
    BY <2>1, ImageFinite
  <2>3. \A T \in {G[x] : x \in s} : IsFiniteSet(T)
    OBVIOUS
  <2>4. IsFiniteSet(UNION {G[x] : x \in s})
    BY <2>2, <2>3, FS_UNION
  <2> QED BY <2>1, <2>4, FS_CardinalityType
<1>3. h[{}] = 0
  <2>1. UNION {G[x] : x \in {}} = {} /\ {} \in SUBSET D
    OBVIOUS
  <2> QED BY <2>1, FS_EmptySet
<1>4. ASSUME NEW s \in SUBSET D, NEW x \in s
      PROVE  h[s] = f[x] + h[s \ {x}]
  <2> DEFINE rest == UNION {G[y] : y \in s \ {x}}
             whole == UNION {G[y] : y \in s}
  <2>1. IsFiniteSet(rest) /\ IsFiniteSet(G[x]) /\ s \ {x} \in SUBSET D
    BY <1>2
  <2>2. whole = G[x] \cup rest
    OBVIOUS
  <2>3. G[x] \cap rest = {}
    OBVIOUS
  <2>4. h[s] = Cardinality(whole) /\ h[s \ {x}] = Cardinality(rest) /\ f[x] = Cardinality(G[x])
    BY <2>1
  <2> HIDE DEF rest, whole, h
  <2>5. Cardinality(G[x] \cup rest)
          = Cardinality(G[x]) + Cardinality(rest) - Cardinality(G[x] \cap rest)
    BY <2>1, FS_Union
  <2>6. Cardinality(G[x]) \in Nat /\ Cardinality(rest) \in Nat /\ Cardinality({}) = 0
    BY <2>1, FS_CardinalityType, FS_EmptySet
  <2>7. Cardinality(whole) = Cardinality(G[x]) + Cardinality(rest) - Cardinality({})
    BY <2>2, <2>3, <2>5, Zenon
  <2> HIDE DEF h
  <2>8. Cardinality(whole) = Cardinality(G[x]) + Cardinality(rest)
    BY <2>6, <2>7
  <2> QED BY <2>4, <2>8, Zenon
<1>5. h = [s \in SUBSET D |-> IF s = {} THEN 0 ELSE f[some(s)] + h[s \ {some(s)}]]
  <2>1. \A s \in SUBSET D : h[s] = IF s = {} THEN 0 ELSE f[some(s)] + h[s \ {some(s)}]
    <3> SUFFICES ASSUME NEW s \in SUBSET D, s # {}
                 PROVE  h[s] = f[some(s)] + h[s \ {some(s)}]
      BY <1>3
    <3>1. some(s) \in s
      OBVIOUS
    <3> HIDE DEF some, h
    <3> QED BY <1>4, <3>1
  <2>2. h = [s \in SUBSET D |-> h[s]]
    OBVIOUS
  <2> HIDE DEF h, some
  <2> QED BY <2>1, <2>2
<1>6. iter = [s \in SUBSET D |-> IF s = {} THEN 0 ELSE f[some(s)] + iter[s \ {some(s)}]]
  <2> HIDE DEF h, some
  <2> QED BY <1>5
<1> HIDE DEF h, iter
<1>7. 0 \in K
  <2>1. ASSUME NEW s \in SUBSET D, Cardinality(s) = 0 PROVE iter[s] = h[s]
    <3>1. s = {}
      BY <1>2, <2>1, FS_EmptySet
    <3> QED BY <1>3, <1>6, <3>1
  <2>2. 0 \in 0..n
    BY FS_CardinalityType
  <2> QED BY <2>1, <2>2
<1>8. ASSUME NEW k \in 1..n, k - 1 \in K PROVE k \in K
  <2>1. ASSUME NEW s \in SUBSET D, Cardinality(s) = k PROVE iter[s] = h[s]
    <3>1. s # {}
      BY <2>1, FS_EmptySet
    <3>2. some(s) \in s
      BY <3>1
    <3> HIDE DEF some
    <3>3. iter[s] = f[some(s)] + iter[s \ {some(s)}]
      BY <1>6, <3>1
    <3>4. Cardinality(s \ {some(s)}) = k - 1 /\ s \ {some(s)} \in SUBSET D
      BY <1>2, <2>1, <3>2, FS_RemoveElement
    <3>5. iter[s \ {some(s)}] = h[s \ {some(s)}]
      BY <1>8, <3>4
    <3>6. h[s] = f[some(s)] + h[s \ {some(s)}]
      BY <1>4, <3>2
    <3> QED BY <3>3, <3>5, <3>6
  <2>2. k \in 0..n
    OBVIOUS
  <2> QED BY <2>1, <2>2
<1>9. n \in K
  <2>1. n \in Nat
    BY FS_CardinalityType
  <2> HIDE DEF K, n
  <2>2. 0..n \subseteq K
    BY <1>7, <1>8, <2>1, IntervalInduction
  <2> QED BY <2>1, <2>2
<1>10. iter[D] = h[D] /\ h[D] = Cardinality(UNION {G[x] : x \in D})
  <2>1. iter[D] = h[D]
    BY <1>9
  <2> QED BY <2>1 DEF h
<1> QED BY <1>1, <1>10

\* The figures of the tables as they are now.
Green(u) == Cardinality({i \in DOMAIN progress[u] : progress[u][i] = "green"})
SumCleared(f) == SumFunction([x \in DOMAIN f |-> f[x].cleared])

\* course_items is a finite table.
LEMMA ItemsFinite == ASSUME Inv PROVE IsFiniteSet(DOMAIN items)
<1>1. nextItem - 1 \in Int /\ DOMAIN items \in SUBSET (1..nextItem - 1)
  BY DEF Inv, ItemsOK
<1>2. IsFiniteSet(1..nextItem - 1)
  BY <1>1, FS_Interval
<1> QED BY <1>1, <1>2, FS_Subset

\* The cleared items of a learner are the green rows.
LEMMA ClearedAreGreen == ASSUME NEW u PROVE Cardinality(ClearedItems(u)) = Green(u)
<1>1. ClearedItems(u) = {i \in DOMAIN progress[u] : progress[u][i] = "green"}
  BY DEF ClearedItems, Cleared
<1> QED BY <1>1 DEF Green

\* Course items in groups: the cleared ones of the groups are all the cleared.
LEMMA GroupsAddUp ==
  ASSUME Inv, NEW u \in Users, NEW group, NEW f,
         DOMAIN f = {group[i] : i \in DOMAIN items},
         \A x \in DOMAIN f :
           f[x].cleared = Cardinality({i \in DOMAIN items : group[i] = x} \cap ClearedItems(u))
  PROVE  SumCleared(f) = Cardinality(ClearedItems(u))
<1> DEFINE D == {group[i] : i \in DOMAIN items}
           G == [x \in D |-> {i \in DOMAIN items : group[i] = x} \cap ClearedItems(u)]
           h == [x \in DOMAIN f |-> f[x].cleared]
<1>1. IsFiniteSet(DOMAIN items)
  BY ItemsFinite
<1>2. IsFiniteSet(D)
  BY <1>1, ImageFinite
<1>3. \A x \in D : IsFiniteSet(G[x])
  <2> SUFFICES ASSUME NEW x \in D PROVE IsFiniteSet(G[x])
    OBVIOUS
  <2>1. G[x] \in SUBSET DOMAIN items
    OBVIOUS
  <2> QED BY <1>1, <2>1, FS_Subset
<1>4. \A x, y \in D : x # y => G[x] \cap G[y] = {}
  OBVIOUS
<1>5. DOMAIN h = D /\ \A x \in D : h[x] = Cardinality(G[x])
  OBVIOUS
<1>6. ClearedItems(u) \subseteq DOMAIN items
  BY DEF ClearedItems, Inv, LearnersOK, LearnerOK
<1>7. UNION {G[x] : x \in D} = ClearedItems(u)
  <2>1. ASSUME NEW i \in ClearedItems(u) PROVE i \in UNION {G[x] : x \in D}
    <3>1. i \in DOMAIN items /\ group[i] \in D /\ i \in G[group[i]]
      BY <1>6
    <3> HIDE DEF G, D
    <3> QED BY <3>1
  <2>2. ASSUME NEW x \in D PROVE G[x] \subseteq ClearedItems(u)
    OBVIOUS
  <2> HIDE DEF G, D
  <2> QED BY <2>1, <2>2
<1> HIDE DEF G, h, D
<1>8. SumFunction(h) = Cardinality(UNION {G[x] : x \in D})
  BY <1>2, <1>3, <1>4, <1>5, SumOfParts
<1> QED BY <1>7, <1>8 DEF SumCleared, h

\* The courses of the progress page, and the categories of the dashboard.
LEMMA CoursesAddUp ==
  ASSUME Inv, NEW u \in Users
  PROVE  SumCleared(CourseProgress(u)) = Green(u)
<1> DEFINE group == [i \in DOMAIN items |-> items[i].course]
           f == CourseProgress(u)
<1>1. /\ DOMAIN f = {group[i] : i \in DOMAIN items}
      /\ \A x \in DOMAIN f :
           f[x].cleared = Cardinality({i \in DOMAIN items : group[i] = x} \cap ClearedItems(u))
  BY DEF CourseProgress, Count, ItemsOfCourse
<1> HIDE DEF group, f
<1>2. SumCleared(f) = Cardinality(ClearedItems(u))
  BY <1>1, GroupsAddUp
<1> QED BY <1>2, ClearedAreGreen DEF f

\* The same for the categories of the dashboard.
LEMMA CategoriesAddUp ==
  ASSUME Inv, NEW u \in Users
  PROVE  SumCleared(CategoryProgress(u)) = Green(u)
<1> DEFINE group == [i \in DOMAIN items |-> courses[items[i].course].category]
           f == CategoryProgress(u)
<1>1. /\ DOMAIN f = {group[i] : i \in DOMAIN items}
      /\ \A x \in DOMAIN f :
           f[x].cleared = Cardinality({i \in DOMAIN items : group[i] = x} \cap ClearedItems(u))
  BY DEF CategoryProgress, Count
<1> HIDE DEF group, f
<1>2. SumCleared(f) = Cardinality(ClearedItems(u))
  BY <1>1, GroupsAddUp
<1> QED BY <1>2, ClearedAreGreen DEF f

\* The books, which count verses.
LEMMA BooksAddUp ==
  ASSUME Inv, NEW u \in Users
  PROVE  /\ SumCleared(BookProgress(u)) = TotalCleared(u)
         /\ TotalCleared(u) <= Green(u)
<1> DEFINE verses == {items[i].verse : i \in ClearedItems(u)}
           D == {Place[items[i].verse].book : i \in DOMAIN items}
           G == [b \in D |-> {v \in verses : Place[v].book = b}]
           f == BookProgress(u)
           h == [x \in DOMAIN f |-> f[x].cleared]
           book == [i \in DOMAIN items |-> Place[items[i].verse].book]
           verse == [i \in DOMAIN items |-> items[i].verse]
<1>1. IsFiniteSet(DOMAIN items) /\ IsFiniteSet(ClearedItems(u)) /\ ClearedItems(u) \subseteq DOMAIN items
  <2>1. ClearedItems(u) \subseteq DOMAIN items
    BY DEF ClearedItems, Inv, LearnersOK, LearnerOK
  <2> QED BY <2>1, ItemsFinite, FS_Subset
<1>2. IsFiniteSet(verses) /\ Cardinality(verses) <= Cardinality(ClearedItems(u))
  <2>1. verses = {verse[i] : i \in ClearedItems(u)}
    BY <1>1
  <2> HIDE DEF verses, verse
  <2> QED BY <1>1, <2>1, ImageFinite
<1>3. IsFiniteSet(D)
  <2>1. D = {book[i] : i \in DOMAIN items}
    OBVIOUS
  <2> HIDE DEF D, book
  <2> QED BY <1>1, <2>1, ImageFinite
<1>4. \A b \in D : IsFiniteSet(G[b])
  <2> SUFFICES ASSUME NEW b \in D PROVE IsFiniteSet(G[b])
    OBVIOUS
  <2>1. G[b] \in SUBSET verses
    OBVIOUS
  <2> HIDE DEF G, verses
  <2> QED BY <1>2, <2>1, FS_Subset
<1>5. \A a, b \in D : a # b => G[a] \cap G[b] = {}
  OBVIOUS
<1>6. DOMAIN h = D /\ \A b \in D : h[b] = Cardinality(G[b])
  BY DEF BookProgress, VersesOfBook
<1>7. UNION {G[b] : b \in D} = verses
  <2>1. ASSUME NEW v \in verses PROVE v \in UNION {G[b] : b \in D}
    <3>1. Place[v].book \in D
      BY <1>1
    <3>2. v \in G[Place[v].book]
      BY <3>1
    <3> HIDE DEF G, D
    <3> QED BY <3>1, <3>2
  <2>2. ASSUME NEW b \in D PROVE G[b] \subseteq verses
    OBVIOUS
  <2> HIDE DEF G, D, verses
  <2> QED BY <2>1, <2>2
<1>8. TotalCleared(u) = Cardinality(verses)
  BY DEF TotalCleared
<1> HIDE DEF G, h, D, verses
<1>9. SumFunction(h) = Cardinality(UNION {G[b] : b \in D})
  BY <1>3, <1>4, <1>5, <1>6, SumOfParts
<1>10. SumCleared(f) = SumFunction(h)
  BY DEF SumCleared, h
<1> QED BY <1>2, <1>7, <1>8, <1>9, <1>10, ClearedAreGreen
-----------------------------------------------------------------------------
(* Requests that read several figures.                                     *)

\* What a request under way has read so far are the figures of the tables as
\* they are now.
Asked(u) ==
  LET a == request[u]
      total == TotalCleared(u)
      categories == CategoryProgress(u)
      grades == GradeDistribution(u)
  IN  /\ a.kind = "stats" =>
           \E figures \in {<<total>>, <<total, categories>>, <<total, categories, grades>>} :
             a = [kind |-> "stats", figures |-> figures]
      /\ a.kind = "progress" => a.courses = CourseProgress(u)

\* The figures of an answer agree.
Agrees(a) ==
  /\ a.kind = "dashboard" =>
       /\ SumCleared(a.books) = a.total
       /\ SumCleared(a.categories) = a.grades["green"]
       /\ a.total <= a.grades["green"]
  /\ a.kind = "page" =>
       SumCleared(a.courses) = Cardinality({i \in DOMAIN a.rows : a.rows[i] = "green"})

RequestsOK == \A u \in Users : Asked(u) /\ Agrees(request[u])

\* The tables that the figures are read from.
figureTables == <<courses, items, progress>>

\* Other steps than a write leave what was read as it is.
LEMMA AskedStays ==
  ASSUME NEW u, Asked(u), UNCHANGED figureTables, request'[u] = request[u]
  PROVE  Asked(u)'
<1>1. /\ TotalCleared(u)' = TotalCleared(u) /\ CategoryProgress(u)' = CategoryProgress(u)
      /\ GradeDistribution(u)' = GradeDistribution(u) /\ CourseProgress(u)' = CourseProgress(u)
  BY DEF TotalCleared, CategoryProgress, GradeDistribution, CourseProgress, Count, ItemsOfCourse,
         ClearedItems, Cleared, figureTables
<1> QED BY <1>1 DEF Asked

\* A write disturbs every answer that is not complete.
LEMMA DisturbedOK ==
  ASSUME Inv, RequestsOK, request' = Disturbed(request)
  PROVE  RequestsOK'
<1> SUFFICES ASSUME NEW u \in Users PROVE Asked(u)' /\ Agrees(request'[u])
  BY DEF RequestsOK
<1>1. request'[u] = IF request[u].kind \in {"stats", "progress"} THEN [kind |-> "torn"]
                    ELSE request[u]
  BY DEF Disturbed
<1>2. request'[u].kind \notin {"stats", "progress"}
  BY <1>1
<1>3. Asked(u)'
  BY <1>2 DEF Asked
<1>4. Agrees(request'[u])
  <2>1. CASE request[u].kind \in {"stats", "progress"}
    BY <1>1, <2>1 DEF Agrees
  <2>2. CASE request[u].kind \notin {"stats", "progress"}
    BY <1>1, <2>2, Zenon DEF RequestsOK
  <2> QED BY <2>1, <2>2
<1> QED BY <1>3, <1>4

\* A statement of a read, or the delivery of its answer.
LEMMA AnswerOK ==
  ASSUME Inv, RequestsOK, NEW u \in Users, UNCHANGED figureTables, NEW a,
         request' = [request EXCEPT ![u] = a], Asked(u)', Agrees(a)
  PROVE  RequestsOK'
<1>1. request'[u] = a /\ \A v \in Users \ {u} : request'[v] = request[v]
  BY DEF Inv, LearnersOK
<1>2. ASSUME NEW v \in Users PROVE Asked(v)' /\ Agrees(request'[v])
  <2>1. CASE v = u
    BY <1>1, <2>1
  <2>2. CASE v # u
    <3>1. request'[v] = request[v] /\ Asked(v) /\ Agrees(request[v])
      BY <1>1, <2>2 DEF RequestsOK
    <3> QED BY <3>1, AskedStays
  <2> QED BY <2>1, <2>2
<1> QED BY <1>2 DEF RequestsOK

\* Requests of another kind have nothing to agree.
LEMMA OtherAnswerOK ==
  ASSUME Inv, RequestsOK, NEW u \in Users, UNCHANGED figureTables, NEW a,
         request' = [request EXCEPT ![u] = a],
         a.kind \notin {"stats", "progress", "dashboard", "page"}
  PROVE  RequestsOK'
<1>1. request'[u] = a
  BY DEF Inv, LearnersOK
<1>2. Asked(u)' /\ Agrees(a)
  BY <1>1 DEF Asked, Agrees
<1> QED BY <1>2, AnswerOK

\* GetStats has read the total.
LEMMA StartStatsOK ==
  ASSUME Inv, RequestsOK, NEW u \in Users, StartStats(u)
  PROVE  RequestsOK'
<1> DEFINE a == [kind |-> "stats", figures |-> <<TotalCleared(u)>>]
<1>1. request' = [request EXCEPT ![u] = a] /\ UNCHANGED figureTables
  BY DEF StartStats, catalogVars, figureTables
<1>2. TotalCleared(u)' = TotalCleared(u)
  BY <1>1 DEF TotalCleared, ClearedItems, Cleared, figureTables
<1>3. request'[u] = [kind |-> "stats", figures |-> <<TotalCleared(u)'>>]
  BY <1>1, <1>2 DEF Inv, LearnersOK
<1>4. Asked(u)'
  BY <1>3 DEF Asked
<1>5. Agrees(a)
  BY DEF Agrees
<1> HIDE DEF a
<1> QED BY <1>1, <1>4, <1>5, AnswerOK

\* GetProgress has read the courses.
LEMMA StartProgressOK ==
  ASSUME Inv, RequestsOK, NEW u \in Users, StartProgress(u)
  PROVE  RequestsOK'
<1> DEFINE a == [kind |-> "progress", courses |-> CourseProgress(u)]
<1>1. request' = [request EXCEPT ![u] = a] /\ UNCHANGED figureTables
  BY DEF StartProgress, catalogVars, figureTables
<1>2. CourseProgress(u)' = CourseProgress(u)
  BY <1>1 DEF CourseProgress, Count, ItemsOfCourse, ClearedItems, Cleared, figureTables
<1>3. request'[u] = [kind |-> "progress", courses |-> CourseProgress(u)']
  BY <1>1, <1>2 DEF Inv, LearnersOK
<1>4. Asked(u)'
  BY <1>3 DEF Asked
<1>5. Agrees(a)
  BY DEF Agrees
<1> HIDE DEF a
<1> QED BY <1>1, <1>4, <1>5, AnswerOK

\* GetProgress reads the rows: nothing was written since it read the courses.
LEMMA ListUserProgressOK ==
  ASSUME Inv, RequestsOK, NEW u \in Users, ListUserProgress(u)
  PROVE  RequestsOK'
<1> DEFINE a == [kind |-> "page", courses |-> request[u].courses, rows |-> progress[u]]
<1>1. /\ request' = [request EXCEPT ![u] = a] /\ UNCHANGED figureTables
      /\ request[u].kind = "progress"
  BY DEF ListUserProgress, catalogVars, figureTables
<1>2. request[u].courses = CourseProgress(u)
  BY <1>1 DEF RequestsOK, Asked
<1>3. request'[u] = a
  BY <1>1 DEF Inv, LearnersOK
<1>4. Asked(u)'
  BY <1>3 DEF Asked
<1>5. Agrees(a)
  <2>1. /\ a.kind = "page" /\ a.courses = CourseProgress(u) /\ a.rows = progress[u]
    BY <1>2
  <2> HIDE DEF a
  <2> QED BY <2>1, CoursesAddUp DEF Agrees, Green
<1> HIDE DEF a
<1> QED BY <1>1, <1>4, <1>5, AnswerOK

\* The figures read so far, as a sequence.
LEMMA AppendToOne == ASSUME NEW a, NEW b PROVE Append(<<a>>, b) = <<a, b>>
<1> DEFINE s == <<a>>
           r == Append(<<a>>, b)
           t == <<a, b>>
<1>1. PICK T : T = {a, b}
  OBVIOUS
<1>2. s \in Seq(T) /\ b \in T /\ Len(s) = 1 /\ s[1] = a
  BY <1>1
<1>3. t \in Seq(T) /\ Len(t) = 2 /\ t[1] = a /\ t[2] = b
  BY <1>1
<1>4. r = Append(s, b)
  OBVIOUS
<1> HIDE DEF s, r, t
<1>5. r \in Seq(T) /\ Len(r) = 2 /\ r[1] = a /\ r[2] = b
  <2>1. /\ Append(s, b) \in Seq(T) /\ Len(Append(s, b)) = Len(s) + 1
        /\ \A i \in 1..Len(s) : Append(s, b)[i] = s[i]
        /\ Append(s, b)[Len(s) + 1] = b
    <3>1. s \in Seq(T) /\ b \in T
      BY <1>2
    <3> QED BY ONLY <3>1, AppendProperties
  <2>2. /\ r \in Seq(T) /\ Len(r) = Len(s) + 1
        /\ \A i \in 1..Len(s) : r[i] = s[i]
        /\ r[Len(s) + 1] = b
    BY <1>4, <2>1, Zenon
  <2> QED BY <1>2, <2>2
<1>6. r = t
  BY <1>3, <1>5, SeqEqual
<1> QED BY <1>6 DEF r, t

\* The same for a sequence of two.
LEMMA AppendToTwo == ASSUME NEW a, NEW b, NEW c PROVE Append(<<a, b>>, c) = <<a, b, c>>
<1> DEFINE s == <<a, b>>
           r == Append(<<a, b>>, c)
           t == <<a, b, c>>
<1>1. PICK T : T = {a, b, c}
  OBVIOUS
<1>2. s \in Seq(T) /\ c \in T /\ Len(s) = 2 /\ s[1] = a /\ s[2] = b
  BY <1>1
<1>3. t \in Seq(T) /\ Len(t) = 3 /\ t[1] = a /\ t[2] = b /\ t[3] = c
  BY <1>1
<1>4. r = Append(s, c)
  OBVIOUS
<1> HIDE DEF s, r, t
<1>5. r \in Seq(T) /\ Len(r) = 3 /\ r[1] = a /\ r[2] = b /\ r[3] = c
  <2>1. /\ Append(s, c) \in Seq(T) /\ Len(Append(s, c)) = Len(s) + 1
        /\ \A i \in 1..Len(s) : Append(s, c)[i] = s[i]
        /\ Append(s, c)[Len(s) + 1] = c
    <3>1. s \in Seq(T) /\ c \in T
      BY <1>2
    <3> QED BY ONLY <3>1, AppendProperties
  <2>2. /\ r \in Seq(T) /\ Len(r) = Len(s) + 1
        /\ \A i \in 1..Len(s) : r[i] = s[i]
        /\ r[Len(s) + 1] = c
    BY <1>4, <2>1, Zenon
  <2> QED BY <1>2, <2>2
<1>6. r = t
  BY <1>3, <1>5, SeqEqual
<1> QED BY <1>6 DEF r, t

\* The next figure of the dashboard, and the dashboard with its last one.
LEMMA NextFigureOK ==
  ASSUME Inv, RequestsOK, NEW u \in Users, NextFigure(u)
  PROVE  RequestsOK'
<1> DEFINE got  == request[u].figures
           next == IF Len(got) = 1 THEN CategoryProgress(u)
                   ELSE IF Len(got) = 2 THEN GradeDistribution(u) ELSE BookProgress(u)
           a == IF Len(got) < 3 THEN [request[u] EXCEPT !.figures = Append(got, next)]
                ELSE [kind |-> "dashboard", total |-> got[1], categories |-> got[2],
                      grades |-> got[3], books |-> next]
           total == TotalCleared(u)
           categories == CategoryProgress(u)
           grades == GradeDistribution(u)
<1>1. /\ request' = [request EXCEPT ![u] = a] /\ UNCHANGED figureTables
      /\ request[u].kind = "stats"
  BY DEF NextFigure, catalogVars, figureTables
<1>2. request'[u] = a
  BY <1>1 DEF Inv, LearnersOK
<1>3. /\ TotalCleared(u)' = total /\ CategoryProgress(u)' = categories
      /\ GradeDistribution(u)' = grades
  BY <1>1 DEF TotalCleared, CategoryProgress, GradeDistribution, Count,
     ClearedItems, Cleared, figureTables
<1> HIDE DEF total, categories, grades
<1>4. PICK figures \in {<<total>>, <<total, categories>>, <<total, categories, grades>>} :
        request[u] = [kind |-> "stats", figures |-> figures]
  BY <1>1 DEF RequestsOK, Asked, total, categories, grades
<1>5. got = figures
  BY <1>4
<1>6. ASSUME Len(got) < 3 PROVE a = [kind |-> "stats", figures |-> Append(figures, next)]
  <2>1. a = [request[u] EXCEPT !.figures = Append(got, next)]
    BY <1>6
  <2> HIDE DEF a, next, got
  <2>2. a = [[kind |-> "stats", figures |-> figures] EXCEPT !.figures = Append(figures, next)]
    BY <1>4, <1>5, <2>1, Zenon
  <2> QED BY <2>2
<1>7. Asked(u)' /\ Agrees(a)
  <2>1. CASE figures = <<total>>
    <3>1. Len(<<total>>) = 1
      OBVIOUS
    <3>2. Len(got) = 1
      BY <1>5, <2>1, <3>1, Zenon
    <3>3. next = categories
      BY <3>2 DEF categories
    <3> HIDE DEF got, next, a
    <3>4. Append(<<total>>, categories) = <<total, categories>>
      BY AppendToOne
    <3>5. Append(figures, next) = <<total, categories>>
      BY <2>1, <3>3, <3>4, Zenon
    <3>6. a = [kind |-> "stats", figures |-> Append(figures, next)]
      BY <1>6, <3>2
    <3>7. a = [kind |-> "stats", figures |-> <<total, categories>>]
      BY <3>5, <3>6, Zenon
    <3> QED BY <1>2, <1>3, <3>7 DEF Asked, Agrees
  <2>2. CASE figures = <<total, categories>>
    <3>1. Len(<<total, categories>>) = 2
      OBVIOUS
    <3>2. Len(got) = 2
      BY <1>5, <2>2, <3>1, Zenon
    <3>3. next = grades
      BY <3>2 DEF grades
    <3> HIDE DEF got, next, a
    <3>4. Append(<<total, categories>>, grades) = <<total, categories, grades>>
      BY AppendToTwo
    <3>5. Append(figures, next) = <<total, categories, grades>>
      BY <2>2, <3>3, <3>4, Zenon
    <3>6. a = [kind |-> "stats", figures |-> Append(figures, next)]
      BY <1>6, <3>2
    <3>7. a = [kind |-> "stats", figures |-> <<total, categories, grades>>]
      BY <3>5, <3>6, Zenon
    <3> QED BY <1>2, <1>3, <3>7 DEF Asked, Agrees
  <2>3. CASE figures = <<total, categories, grades>>
    <3>1. /\ Len(got) = 3 /\ got[1] = total /\ got[2] = categories /\ got[3] = grades
          /\ next = BookProgress(u)
      BY <1>5, <2>3
    <3>2. a = [kind |-> "dashboard", total |-> total, categories |-> categories,
               grades |-> grades, books |-> BookProgress(u)]
      BY <3>1
    <3> HIDE DEF a
    <3>3. grades["green"] = Green(u)
      BY DEF grades, GradeDistribution, Green
    <3>4. /\ SumCleared(BookProgress(u)) = total /\ SumCleared(categories) = Green(u)
          /\ total <= Green(u)
      BY BooksAddUp, CategoriesAddUp DEF total, categories
    <3>5. Agrees(a)
      BY <3>2, <3>3, <3>4 DEF Agrees
    <3>6. Asked(u)'
      BY <1>2, <3>2 DEF Asked
    <3> QED BY <3>5, <3>6
  <2> QED BY <1>4, <2>1, <2>2, <2>3
<1> HIDE DEF a
<1> QED BY <1>1, <1>7, AnswerOK

\* GetResume has no figures.
LEMMA GetLastAttemptOK ==
  ASSUME Inv, RequestsOK, NEW u \in Users, GetLastAttempt(u)
  PROVE  RequestsOK'
<1> DEFINE last == attempts[u][Max(Ranked(u))].item
           a == IF Ranked(u) = {} THEN Answer(None)
                ELSE IF Cleared(u, last)
                     THEN [kind |-> "resume", item |-> last,
                           course |-> items[last].course, ord |-> items[last].ord]
                     ELSE Answer(last)
<1>1. request' = [request EXCEPT ![u] = a] /\ UNCHANGED figureTables
  BY DEF GetLastAttempt, catalogVars, figureTables
<1>2. a.kind = "target" \/ a.kind = "resume"
  BY DEF Answer
<1> HIDE DEF a
<1> QED BY <1>1, <1>2, OtherAnswerOK

\* Every step keeps what is said of the requests.
LEMMA NextRequestsOK ==
  ASSUME Inv, RequestsOK, [Next]_vars
  PROVE  RequestsOK'
<1> DEFINE Same == UNCHANGED figureTables /\ UNCHANGED request
<1>1. Same => RequestsOK'
  <2> SUFFICES ASSUME Same, NEW u \in Users PROVE Asked(u)' /\ Agrees(request'[u])
    BY DEF RequestsOK
  <2> QED BY AskedStays DEF RequestsOK
<1>2. CASE Seed
  <2>1. CASE request' = Disturbed(request)
    BY <2>1, DisturbedOK
  <2>2. CASE PassChapter \/ CrashSeed \/ \E r \in Releases : StartSeed(r)
    <3>1. UNCHANGED <<courses, items>>
      BY <2>2 DEF PassChapter, CrashSeed, StartSeed
    <3>2. UNCHANGED progress
      BY <1>2 DEF Seed
    <3>3. request' = request \/ request' = Disturbed(request)
      BY <1>2 DEF Seed
    <3> QED BY <1>1, <2>1, <3>1, <3>2, <3>3 DEF figureTables
  <2> QED BY <1>2, <2>1, <2>2 DEF Seed
<1>3. CASE Reload
  BY <1>3, DisturbedOK DEF Reload
<1>4. ASSUME NEW u \in Users, Prepares(u) \/ CommitAttempt(u) PROVE RequestsOK'
  <2>1. CASE Prepares(u)
    <3>1. Same
      BY <2>1, PreparesRead DEF catalogVars, figureTables
    <3> QED BY <1>1, <3>1
  <2>2. CASE CommitAttempt(u)
    BY <2>2, DisturbedOK DEF CommitAttempt
  <2> QED BY <1>4, <2>1, <2>2
<1>5. ASSUME NEW u \in Users, NEW i \in DOMAIN items, AddFavorite(u, i) \/ RemoveFavorite(u, i)
      PROVE  RequestsOK'
  <2>1. Same
    BY <1>5 DEF AddFavorite, RemoveFavorite, catalogVars, figureTables
  <2> QED BY <1>1, <2>1
<1>6. ASSUME NEW u \in Users, GetNextUnclearedItem(u) PROVE RequestsOK'
  <2>1. PICK i : request' = [request EXCEPT ![u] = Answer(i)]
    BY <1>6 DEF GetNextUnclearedItem
  <2>2. UNCHANGED figureTables
    BY <1>6 DEF GetNextUnclearedItem, catalogVars, figureTables
  <2>3. Answer(i).kind = "target"
    BY DEF Answer
  <2> QED BY <2>1, <2>2, <2>3, OtherAnswerOK
<1>7. ASSUME NEW u \in Users, Deliver(u) PROVE RequestsOK'
  <2>1. request' = [request EXCEPT ![u] = Idle] /\ UNCHANGED figureTables
    BY <1>7 DEF Deliver, catalogVars, figureTables
  <2>2. Idle.kind = "idle"
    BY DEF Idle
  <2> QED BY <2>1, <2>2, OtherAnswerOK
<1>8. CASE UNCHANGED vars
  BY <1>1, <1>8 DEF vars, figureTables
<1> QED BY <1>2, <1>3, <1>4, <1>5, <1>6, <1>7, <1>8, GetLastAttemptOK, StartStatsOK, NextFigureOK,
           StartProgressOK, ListUserProgressOK DEF Next, Prepares

\* At first nothing is asked.
LEMMA InitRequestsOK == Init => RequestsOK
<1> SUFFICES ASSUME Init, NEW u \in Users PROVE Asked(u) /\ Agrees(request[u])
  BY DEF RequestsOK
<1>1. request[u].kind = "idle"
  BY DEF Init, Idle
<1> QED BY <1>1 DEF Asked, Agrees

\* The figures of one answer agree with one another unless something was
\* written between its statements (GetStats, GetProgress).
THEOREM LearningFiguresAgree == Spec => []FiguresAgree
<1>1. Init => TablesOK /\ RequestsOK
  BY InitTablesOK, InitRequestsOK
<1>2. (TablesOK /\ RequestsOK) /\ [Next]_vars => (TablesOK /\ RequestsOK)'
  BY NextTablesOK, NextRequestsOK DEF TablesOK
<1>3. TablesOK /\ RequestsOK => FiguresAgree
  BY DEF RequestsOK, Agrees, SumCleared, FiguresAgree
<1> QED BY <1>1, <1>2, <1>3, PTL DEF Spec
-----------------------------------------------------------------------------
(* The statements of a release, as a set: what a run of seed_courses is to *)
(* do with course_items, in whatever order.                                *)

\* What a sequence put together from two holds.
LEMMA ConcatRange ==
  ASSUME NEW T, NEW p \in Seq(T), NEW q \in Seq(T)
  PROVE  Range(p \o q) = Range(p) \cup Range(q)
<1> DEFINE r == p \o q
<1>1. /\ Len(p) \in Nat /\ Len(q) \in Nat /\ DOMAIN p = 1..Len(p) /\ DOMAIN q = 1..Len(q)
  BY LenProperties
<1>2. /\ r \in Seq(T) /\ Len(r) = Len(p) + Len(q)
      /\ \A k \in 1..Len(p) + Len(q) : r[k] = IF k <= Len(p) THEN p[k] ELSE q[k - Len(p)]
  BY ConcatProperties
<1> HIDE DEF r
<1>3. DOMAIN r = 1..Len(p) + Len(q)
  BY <1>2, LenProperties
<1>4. ASSUME NEW k \in DOMAIN r PROVE r[k] \in Range(p) \cup Range(q)
  <2>1. CASE k <= Len(p)
    BY <1>1, <1>2, <1>3, <2>1 DEF Range
  <2>2. CASE ~ (k <= Len(p))
    <3>1. k - Len(p) \in DOMAIN q /\ r[k] = q[k - Len(p)]
      BY <1>1, <1>2, <1>3, <2>2
    <3> QED BY <3>1 DEF Range
  <2> QED BY <2>1, <2>2
<1>5. ASSUME NEW k \in DOMAIN p PROVE p[k] \in Range(r)
  <2>1. k \in DOMAIN r /\ r[k] = p[k]
    BY <1>1, <1>2, <1>3, <1>5
  <2> QED BY <2>1 DEF Range
<1>6. ASSUME NEW k \in DOMAIN q PROVE q[k] \in Range(r)
  <2>1. k \in Nat /\ 1 <= k /\ k <= Len(q)
    BY <1>1, <1>6
  <2>2. Len(p) + k \in DOMAIN r /\ ~ (Len(p) + k <= Len(p)) /\ (Len(p) + k) - Len(p) = k
    BY <1>1, <1>3, <2>1
  <2>3. r[Len(p) + k] = q[(Len(p) + k) - Len(p)]
    BY <1>2, <1>3, <2>2
  <2>4. Len(p) + k \in DOMAIN r /\ r[Len(p) + k] = q[k]
    BY <2>2, <2>3
  <2> QED BY <2>4 DEF Range
<1>7. Range(r) = Range(p) \cup Range(q)
  <2>1. Range(r) \subseteq Range(p) \cup Range(q)
    BY <1>4 DEF Range
  <2>2. Range(p) \subseteq Range(r)
    BY <1>5 DEF Range
  <2>3. Range(q) \subseteq Range(r)
    BY <1>6 DEF Range
  <2> QED BY <2>1, <2>2, <2>3
<1> QED BY <1>7 DEF r

\* What a flattened sequence holds: what its parts hold.
LEMMA FlattenRange ==
  ASSUME NEW T, NEW seqs \in Seq(Seq(T))
  PROVE  Range(FlattenSeq(seqs)) = UNION {Range(seqs[k]) : k \in DOMAIN seqs}
<1> DEFINE U == UNION {Range(seqs[k]) : k \in DOMAIN seqs}
           whole == FlattenSeq(seqs)
<1>1. Len(seqs) \in Nat /\ DOMAIN seqs = 1..Len(seqs) /\ \A k \in 1..Len(seqs) : seqs[k] \in Seq(T)
  BY LenProperties, ElementOfSeq
<1>2. ASSUME NEW k \in 1..Len(seqs) PROVE seqs[k] \in Seq(U)
  <2>1. seqs[k] \in Seq(T) /\ k \in DOMAIN seqs
    BY <1>1
  <2>2. Len(seqs[k]) \in Nat /\ DOMAIN seqs[k] = 1..Len(seqs[k]) /\ seqs[k] = [j \in DOMAIN seqs[k] |-> seqs[k][j]]
    BY <2>1, LenProperties
  <2>3. \A j \in DOMAIN seqs[k] : seqs[k][j] \in U
    BY <2>1 DEF Range
  <2> HIDE DEF U
  <2>4. seqs[k] \in [1..Len(seqs[k]) -> U]
    BY <2>2, <2>3
  <2> QED BY <2>2, <2>4, SequenceOf
<1>3. seqs \in Seq(Seq(U))
  <2> HIDE DEF U
  <2>1. seqs \in [1..Len(seqs) -> Seq(U)]
    <3>1. seqs = [k \in DOMAIN seqs |-> seqs[k]]
      BY LenProperties
    <3> QED BY <1>1, <1>2, <3>1
  <2> QED BY <1>1, <2>1, SequenceOf
<1>4. whole \in Seq(U)
  <2> DEFINE G == Seq(U)
  <2> HIDE DEF U
  <2>1. G \in SUBSET Seq(U) /\ <<>> \in G
    BY EmptySeq
  <2>2. \A p, q \in G : p \o q \in G
    BY ConcatProperties
  <2>3. seqs \in Seq(G)
    BY <1>3
  <2> HIDE DEF G
  <2>4. FlattenSeq(seqs) \in G
    BY <2>1, <2>2, <2>3, FlattenClosed
  <2> QED BY <2>4 DEF G
<1>5. Len(whole) \in Nat /\ DOMAIN whole = 1..Len(whole) /\ \A i \in 1..Len(whole) : whole[i] \in U
  <2> HIDE DEF U, whole
  <2> QED BY <1>4, LenProperties, ElementOfSeq
<1>6. ASSUME NEW e \in U PROVE e \in Range(whole)
  <2>1. PICK k \in 1..Len(seqs) : e \in Range(seqs[k])
    BY <1>1
  <2>2. Len(seqs[k]) \in Nat /\ DOMAIN seqs[k] = 1..Len(seqs[k])
    BY <1>1, LenProperties
  <2>3. PICK j \in 1..Len(seqs[k]) : e = seqs[k][j]
    BY <2>1, <2>2 DEF Range
  <2>4. \E i \in 1..Len(whole) : whole[i] = seqs[k][j]
    BY FlattenHolds
  <2> HIDE DEF whole
  <2> QED BY <1>5, <2>3, <2>4 DEF Range
<1> HIDE DEF U, whole
<1>7. Range(whole) = U
  BY <1>5, <1>6 DEF Range
<1> QED BY <1>7 DEF U, whole

\* A sequence of statements, and those of them that insert items.
ItemOps == {"item", "warmup item", "messiah item", "chapter"}
Provides(p, sts) == p \in Seq(Range(p)) /\ sts = {st \in Range(p) : st.op \in ItemOps}

\* One statement.
LEMMA ProvidesOne ==
  ASSUME NEW st, st.op \notin ItemOps
  PROVE  Provides(<<st>>, {})
<1> DEFINE p == <<st>>
<1>1. p \in Seq({st}) /\ DOMAIN p = 1..1 /\ p[1] = st
  OBVIOUS
<1> HIDE DEF p
<1>2. Range(p) = {st}
  BY <1>1 DEF Range
<1>3. Provides(p, {})
  BY <1>1, <1>2 DEF Provides
<1> QED BY <1>3 DEF p

\* A statement and one that inserts items.
LEMMA ProvidesTwo ==
  ASSUME NEW st, st.op \notin ItemOps, NEW next, next.op \in ItemOps
  PROVE  Provides(<<st, next>>, {next})
<1> DEFINE p == <<st, next>>
<1>1. p \in Seq({st, next}) /\ DOMAIN p = 1..2 /\ p[1] = st /\ p[2] = next
  OBVIOUS
<1> HIDE DEF p
<1>2. Range(p) = {st, next}
  BY <1>1 DEF Range
<1>3. Provides(p, {next})
  BY <1>1, <1>2 DEF Provides
<1> QED BY <1>3 DEF p

\* Statements that all insert items.
LEMMA ProvidesAll ==
  ASSUME NEW n \in Nat, NEW sts, NEW p \in [1..n -> sts], \A st \in sts : st.op \in ItemOps,
         \A st \in sts : \E k \in 1..n : p[k] = st
  PROVE  Provides(p, sts)
<1>1. p \in Seq(sts)
  BY SequenceOf
<1>2. Range(p) = sts
  BY DEF Range
<1> QED BY <1>1, <1>2 DEF Provides

\* Statements after statements.
LEMMA ProvidesConcat ==
  ASSUME NEW p, NEW q, NEW sts, NEW more, Provides(p, sts), Provides(q, more)
  PROVE  Provides(p \o q, sts \cup more)
<1> DEFINE T == Range(p) \cup Range(q)
           r == p \o q
<1>1. p \in Seq(Range(p)) /\ q \in Seq(Range(q)) /\ Range(p) \subseteq T /\ Range(q) \subseteq T
  BY DEF Provides
<1>2. p \in Seq(T) /\ q \in Seq(T)
  <2> HIDE DEF T
  <2> QED BY <1>1, SeqMonotonic
<1>3. r \in Seq(T) /\ Range(r) = T
  <2>1. Range(r) = T
    BY <1>2, ConcatRange
  <2> HIDE DEF T
  <2> QED BY <1>2, <2>1, ConcatProperties
<1> HIDE DEF r
<1>4. sts \cup more = {st \in T : st.op \in ItemOps}
  BY DEF Provides
<1> HIDE DEF T
<1>5. Provides(r, sts \cup more)
  BY <1>3, <1>4 DEF Provides
<1> QED BY <1>5 DEF r

\* Sequences of statements, one after the other.
LEMMA ProvidesFlatten ==
  ASSUME NEW n \in Nat, NEW seqs, DOMAIN seqs = 1..n, seqs = [k \in 1..n |-> seqs[k]], NEW parts,
         \A k \in 1..n : Provides(seqs[k], parts[k])
  PROVE  Provides(FlattenSeq(seqs), UNION {parts[k] : k \in 1..n})
<1> DEFINE T == UNION {Range(seqs[k]) : k \in DOMAIN seqs}
           r == FlattenSeq(seqs)
<1>1. ASSUME NEW k \in 1..n PROVE seqs[k] \in Seq(T)
  <2>1. seqs[k] \in Seq(Range(seqs[k])) /\ Range(seqs[k]) \subseteq T
    BY DEF Provides
  <2> HIDE DEF T
  <2> QED BY <2>1, SeqMonotonic
<1>2. seqs \in Seq(Seq(T))
  <2> HIDE DEF T
  <2>1. seqs \in [1..n -> Seq(T)]
    BY <1>1
  <2> QED BY <2>1, SequenceOf
<1>3. Range(r) = T
  BY <1>2, FlattenRange
<1>4. r \in Seq(T)
  <2> DEFINE G == Seq(T)
  <2> HIDE DEF T
  <2>1. G \in SUBSET Seq(T) /\ <<>> \in G
    BY EmptySeq
  <2>2. \A p, q \in G : p \o q \in G
    BY ConcatProperties
  <2>3. seqs \in Seq(G)
    BY <1>2
  <2> HIDE DEF G
  <2>4. FlattenSeq(seqs) \in G
    BY <2>1, <2>2, <2>3, FlattenClosed
  <2> QED BY <2>4 DEF G
<1> HIDE DEF r
<1>5. UNION {parts[k] : k \in 1..n} = {st \in T : st.op \in ItemOps}
  <2>1. \A k \in 1..n : parts[k] = {st \in Range(seqs[k]) : st.op \in ItemOps}
    BY DEF Provides
  <2> QED BY <2>1
<1> HIDE DEF T
<1>6. Provides(r, UNION {parts[k] : k \in 1..n})
  BY <1>3, <1>4, <1>5 DEF Provides
<1> QED BY <1>6 DEF r

\* The statements for the verses of a course without sections, for the slots of
\* sections and for the chapters of a book.
ItemsOf(co) ==
  {[op |-> "item", slug |-> co.slug, ord |-> k, verse |-> co.verses[k]] : k \in DOMAIN co.verses}

SlotsOf(slug, op, s, verses) ==
  {[op |-> op, slug |-> slug, section |-> s, ord |-> k, verse |-> verses[k]] : k \in DOMAIN verses}

SlotsOfSections(slug, op, secs) == UNION {SlotsOf(slug, op, s, secs[s]) : s \in DOMAIN secs}

ChapterOf(b, ch) == [op |-> "chapter", slug |-> b.slug, num |-> b.num, section |-> ch]

ChaptersIn(b) ==
  {ChapterOf(b, ch) : ch \in {Place[v].chapter : v \in {w \in Verses : Place[w].book = b.num}}}

\* All that a release has for its items.
ItemStatementsOf(rel) ==
  (UNION {ItemsOf(rel.courses[c]) : c \in DOMAIN rel.courses})
  \cup SlotsOfSections("warmup", "warmup item", rel.warmup)
  \cup (UNION {ChaptersIn(rel.books[k]) : k \in DOMAIN rel.books})
  \cup SlotsOfSections(MessiahSlug, "messiah item", rel.messiah)

\* A course without sections.
LEMMA InsertCourseProvides ==
  ASSUME NEW co \in CourseList
  PROVE  Provides(InsertCourse(co), ItemsOf(co))
<1> DEFINE st == [op |-> "course", slug |-> co.slug, category |-> co.category, hidden |-> co.hidden]
           its == [k \in DOMAIN co.verses |->
                     [op |-> "item", slug |-> co.slug, ord |-> k, verse |-> co.verses[k]]]
           n == Len(co.verses)
<1>1. co.verses \in Seq(Verses)
  BY DEF CourseList
<1>2. n \in Nat /\ DOMAIN co.verses = 1..n
  BY <1>1, LenProperties
<1>3. Provides(<<st>>, {})
  BY ProvidesOne DEF ItemOps
<1>4. Provides(its, ItemsOf(co))
  <2> HIDE DEF n
  <2>1. its \in [1..n -> ItemsOf(co)] /\ \A x \in ItemsOf(co) : \E k \in 1..n : its[k] = x
    BY <1>2 DEF ItemsOf
  <2>2. \A x \in ItemsOf(co) : x.op \in ItemOps
    <3>1. "item" \in ItemOps
      BY DEF ItemOps
    <3>2. \A x \in ItemsOf(co) : x.op = "item"
      BY DEF ItemsOf
    <3> QED BY <3>1, <3>2
  <2> HIDE DEF its
  <2> QED BY <1>2, <2>1, <2>2, ProvidesAll
<1>5. InsertCourse(co) = <<st>> \o its
  BY DEF InsertCourse
<1> HIDE DEF st, its
<1>6. Provides(<<st>> \o its, {} \cup ItemsOf(co))
  BY <1>3, <1>4, ProvidesConcat
<1>7. {} \cup ItemsOf(co) = ItemsOf(co)
  OBVIOUS
<1> QED BY <1>5, <1>6, <1>7

\* The sections of the warm-up or of the prophecies.
LEMMA InsertSectionsProvides ==
  ASSUME NEW slug, NEW op \in SlotOps, NEW secs \in Seq(Seq(Verses))
  PROVE  Provides(InsertSections(slug, op, secs), SlotsOfSections(slug, op, secs))
<1> DEFINE sec(s) == [op |-> "section", slug |-> slug, ord |-> s]
           its(s) == [k \in DOMAIN secs[s] |->
                        [op |-> op, slug |-> slug, section |-> s, ord |-> k, verse |-> secs[s][k]]]
           seqs == [s \in DOMAIN secs |-> <<sec(s)>> \o its(s)]
           parts == [s \in DOMAIN secs |-> SlotsOf(slug, op, s, secs[s])]
           n == Len(secs)
<1>1. n \in Nat /\ DOMAIN secs = 1..n /\ \A s \in 1..n : secs[s] \in Seq(Verses)
  BY LenProperties, ElementOfSeq
<1>2. InsertSections(slug, op, secs) = FlattenSeq(seqs)
  BY DEF InsertSections
<1> HIDE DEF n
<1>3. ASSUME NEW s \in 1..n PROVE Provides(seqs[s], parts[s])
  <2> DEFINE verses == secs[s]
             all == SlotsOf(slug, op, s, verses)
             p == its(s)
             head == sec(s)
  <2>1. verses \in Seq(Verses)
    BY <1>1
  <2>2. Len(verses) \in Nat /\ DOMAIN verses = 1..Len(verses)
    BY <2>1, LenProperties
  <2>3. Provides(<<head>>, {})
    BY ProvidesOne DEF ItemOps
  <2>4. Provides(p, all)
    <3>1. p \in [1..Len(verses) -> all] /\ \A x \in all : \E k \in 1..Len(verses) : p[k] = x
      BY <2>2 DEF SlotsOf
    <3>2. \A x \in all : x.op \in ItemOps
      <4>1. op \in ItemOps
        BY DEF ItemOps, SlotOps
      <4>2. \A x \in all : x.op = op
        BY DEF SlotsOf
      <4> QED BY <4>1, <4>2
    <3> HIDE DEF p, all, verses
    <3> QED BY <2>2, <3>1, <3>2, ProvidesAll
  <2>5. seqs[s] = <<head>> \o p /\ parts[s] = all
    BY <1>1
  <2> HIDE DEF seqs, parts, head, p, all
  <2>6. Provides(<<head>> \o p, {} \cup all)
    BY <2>3, <2>4, ProvidesConcat
  <2>7. {} \cup all = all
    OBVIOUS
  <2> QED BY <2>5, <2>6, <2>7
<1>4. DOMAIN seqs = 1..n /\ seqs = [s \in 1..n |-> seqs[s]]
  BY <1>1
<1>5. UNION {parts[s] : s \in 1..n} = SlotsOfSections(slug, op, secs)
  BY <1>1 DEF SlotsOfSections
<1> HIDE DEF seqs, parts
<1>6. Provides(FlattenSeq(seqs), UNION {parts[s] : s \in 1..n})
  <2>1. n \in Nat /\ \A s \in 1..n : Provides(seqs[s], parts[s])
    BY <1>1, <1>3
  <2> QED BY <1>4, <2>1, ProvidesFlatten
<1> QED BY <1>2, <1>5, <1>6

\* A book.
LEMMA SeedBookProvides ==
  ASSUME NEW b \in BookList
  PROVE  Provides(SeedBook(b), ChaptersIn(b))
<1> DEFINE found == {Place[v].chapter : v \in {w \in Verses : Place[w].book = b.num}}
           n == Cardinality(found)
           chapters == ChaptersOf(b.num)
           st == [op |-> "course", slug |-> b.slug, category |-> b.category, hidden |-> None]
           sec(k) == [op |-> "section", slug |-> b.slug, ord |-> chapters[k]]
           seqs == [k \in DOMAIN chapters |-> <<sec(k), ChapterOf(b, chapters[k])>>]
           parts == [k \in DOMAIN chapters |-> {ChapterOf(b, chapters[k])}]
<1>1. /\ n \in Nat /\ chapters \in [1..n -> found]
      /\ \A ch \in found : \E k \in 1..n : chapters[k] = ch
  BY ChaptersRanked
<1>2. SeedBook(b) = <<st>> \o FlattenSeq(seqs)
  BY DEF SeedBook, ChapterOf
<1>3. Provides(<<st>>, {})
  BY ProvidesOne DEF ItemOps
<1>4. ChaptersIn(b) = {ChapterOf(b, ch) : ch \in found}
  BY DEF ChaptersIn
<1> HIDE DEF st, n, found, chapters
<1>5. ASSUME NEW k \in 1..n PROVE Provides(seqs[k], parts[k])
  <2> DEFINE head == sec(k)
             next == ChapterOf(b, chapters[k])
  <2>1. seqs[k] = <<head, next>> /\ parts[k] = {next}
    BY <1>1
  <2>2. head.op \notin ItemOps /\ next.op \in ItemOps
    BY DEF ItemOps, ChapterOf
  <2> HIDE DEF seqs, parts, head, next
  <2> QED BY <2>1, <2>2, ProvidesTwo
<1>6. DOMAIN seqs = 1..n /\ seqs = [k \in 1..n |-> seqs[k]]
  BY <1>1
<1>7. UNION {parts[k] : k \in 1..n} = ChaptersIn(b)
  <2>1. \A k \in 1..n : parts[k] = {ChapterOf(b, chapters[k])} /\ chapters[k] \in found
    BY <1>1
  <2> HIDE DEF parts
  <2>2. UNION {parts[k] : k \in 1..n} \subseteq ChaptersIn(b)
    BY <1>4, <2>1
  <2>3. ASSUME NEW ch \in found
        PROVE  ChapterOf(b, ch) \in UNION {parts[k] : k \in 1..n}
    BY <1>1, <2>1
  <2> QED BY <1>4, <2>2, <2>3
<1> HIDE DEF seqs, parts
<1>8. Provides(FlattenSeq(seqs), ChaptersIn(b))
  <2>1. n \in Nat
    BY <1>1
  <2>2. Provides(FlattenSeq(seqs), UNION {parts[k] : k \in 1..n})
    BY <1>5, <1>6, <2>1, ProvidesFlatten
  <2> QED BY <1>7, <2>2
<1>9. Provides(<<st>> \o FlattenSeq(seqs), {} \cup ChaptersIn(b))
  BY <1>3, <1>8, ProvidesConcat
<1>10. {} \cup ChaptersIn(b) = ChaptersIn(b)
  OBVIOUS
<1> QED BY <1>2, <1>9, <1>10

\* A whole run.
LEMMA ProgramProvides ==
  ASSUME NEW r \in Releases
  PROVE  Provides(Programs[r], ItemStatementsOf(Lists[r]))
<1> DEFINE rel == Lists[r]
           p1 == FlattenSeq([k \in DOMAIN rel.courses |-> InsertCourse(rel.courses[k])])
           p2 == InsertCourseWithSections(rel.warmup)
           p3 == FlattenSeq([k \in DOMAIN rel.books |-> SeedBook(rel.books[k])])
           p4 == SeedMessiahProphecy(rel.messiah)
           p5 == SeedCommentary(rel.commentary)
           s1 == UNION {ItemsOf(rel.courses[c]) : c \in DOMAIN rel.courses}
           s2 == SlotsOfSections("warmup", "warmup item", rel.warmup)
           s3 == UNION {ChaptersIn(rel.books[k]) : k \in DOMAIN rel.books}
           s4 == SlotsOfSections(MessiahSlug, "messiah item", rel.messiah)
<1>1. Programs[r] = (((p1 \o p2) \o p3) \o p4) \o p5
  BY DEF Programs, Program
<1>2. ItemStatementsOf(Lists[r]) = ((s1 \cup s2) \cup s3) \cup s4
  BY Zenon DEF ItemStatementsOf
<1> HIDE DEF p1, p2, p3, p4, p5, s1, s2, s3, s4
<1>3. /\ rel.courses \in Seq(CourseList) /\ rel.warmup \in Seq(Seq(Verses))
      /\ rel.books \in Seq(BookList) /\ rel.messiah \in Seq(Seq(Verses))
      /\ IsFiniteSet(DOMAIN rel.commentary)
  BY CatalogAssumption DEF CatalogAssumption
<1> HIDE DEF rel
<1>4. Provides(p1, s1)
  <2> DEFINE n == Len(rel.courses)
             seqs == [k \in DOMAIN rel.courses |-> InsertCourse(rel.courses[k])]
             parts == [k \in DOMAIN rel.courses |-> ItemsOf(rel.courses[k])]
  <2>1. n \in Nat /\ DOMAIN rel.courses = 1..n /\ \A k \in 1..n : rel.courses[k] \in CourseList
    BY <1>3, LenProperties, ElementOfSeq
  <2> HIDE DEF n
  <2>2. \A k \in 1..n : Provides(seqs[k], parts[k])
    BY <2>1, InsertCourseProvides
  <2>3. p1 = FlattenSeq(seqs) /\ UNION {parts[k] : k \in 1..n} = s1
    BY <2>1 DEF p1, s1
  <2>4. DOMAIN seqs = 1..n /\ seqs = [k \in 1..n |-> seqs[k]]
    BY <2>1
  <2> HIDE DEF seqs, parts
  <2> QED BY <2>1, <2>2, <2>3, <2>4, ProvidesFlatten
<1>5. Provides(p3, s3)
  <2> DEFINE n == Len(rel.books)
             seqs == [k \in DOMAIN rel.books |-> SeedBook(rel.books[k])]
             parts == [k \in DOMAIN rel.books |-> ChaptersIn(rel.books[k])]
  <2>1. n \in Nat /\ DOMAIN rel.books = 1..n /\ \A k \in 1..n : rel.books[k] \in BookList
    BY <1>3, LenProperties, ElementOfSeq
  <2> HIDE DEF n
  <2>2. \A k \in 1..n : Provides(seqs[k], parts[k])
    BY <2>1, SeedBookProvides
  <2>3. p3 = FlattenSeq(seqs) /\ UNION {parts[k] : k \in 1..n} = s3
    BY <2>1 DEF p3, s3
  <2>4. DOMAIN seqs = 1..n /\ seqs = [k \in 1..n |-> seqs[k]]
    BY <2>1
  <2> HIDE DEF seqs, parts
  <2> QED BY <2>1, <2>2, <2>3, <2>4, ProvidesFlatten
<1>6. Provides(p2, s2)
  <2> DEFINE st == [op |-> "course", slug |-> "warmup", category |-> "warmup", hidden |-> None]
             secs == InsertSections("warmup", "warmup item", rel.warmup)
  <2>1. Provides(<<st>>, {})
    BY ProvidesOne DEF ItemOps
  <2>2. p2 = <<st>> \o secs /\ {} \cup s2 = s2
    BY DEF p2, InsertCourseWithSections
  <2>3. Provides(secs, s2)
    <3>1. "warmup item" \in SlotOps
      BY DEF SlotOps
    <3> QED BY <1>3, <3>1, InsertSectionsProvides DEF s2
  <2> HIDE DEF st, secs
  <2>4. Provides(<<st>> \o secs, {} \cup s2)
    BY <2>1, <2>3, ProvidesConcat
  <2> QED BY <2>2, <2>4
<1>7. Provides(p4, s4)
  <2> DEFINE st == [op |-> "course", slug |-> MessiahSlug, category |-> "messiah", hidden |-> None]
             secs == InsertSections(MessiahSlug, "messiah item", rel.messiah)
  <2>1. Provides(<<st>>, {})
    BY ProvidesOne DEF ItemOps
  <2>2. p4 = <<st>> \o secs /\ {} \cup s4 = s4
    BY DEF p4, SeedMessiahProphecy
  <2>3. Provides(secs, s4)
    <3>1. "messiah item" \in SlotOps
      BY DEF SlotOps
    <3> QED BY <1>3, <3>1, InsertSectionsProvides DEF s4
  <2> HIDE DEF st, secs
  <2>4. Provides(<<st>> \o secs, {} \cup s4)
    BY <2>1, <2>3, ProvidesConcat
  <2> QED BY <2>2, <2>4
<1>8. Provides(p5, {})
  <2> DEFINE n == Cardinality(DOMAIN rel.commentary)
             st == [op |-> "commentary"]
  <2>1. n \in Nat
    BY <1>3, FS_CardinalityType
  <2>2. p5 = [k \in 1..n |-> st]
    BY DEF p5, SeedCommentary
  <2>3. st.op \notin ItemOps
    BY DEF ItemOps
  <2> HIDE DEF n, st
  <2>4. p5 \in [1..n -> Range(p5)] /\ Range(p5) \subseteq {st}
    BY <2>2 DEF Range
  <2>5. p5 \in Seq(Range(p5))
    BY <2>1, <2>4, SequenceOf
  <2> QED BY <2>3, <2>4, <2>5 DEF Provides
<1>9. Provides(p1 \o p2, s1 \cup s2)
  BY <1>4, <1>6, ProvidesConcat
<1>10. Provides((p1 \o p2) \o p3, (s1 \cup s2) \cup s3)
  BY <1>9, <1>5, ProvidesConcat
<1>11. Provides(((p1 \o p2) \o p3) \o p4, ((s1 \cup s2) \cup s3) \cup s4)
  BY <1>10, <1>7, ProvidesConcat
<1>12. Provides((((p1 \o p2) \o p3) \o p4) \o p5, (((s1 \cup s2) \cup s3) \cup s4) \cup {})
  BY <1>11, <1>8, ProvidesConcat
<1>13. (((s1 \cup s2) \cup s3) \cup s4) \cup {} = ((s1 \cup s2) \cup s3) \cup s4
  OBVIOUS
<1> QED BY <1>1, <1>2, <1>12, <1>13
-----------------------------------------------------------------------------
(* What each release lists, by the keys of course_items (the partial       *)
(* unique indexes of migration 6).                                         *)

\* The key of a row: by verse in a course without sections, by ord in a section.
Key(row) == <<row.course, row.section, IF row.section = None THEN row.verse ELSE row.ord>>

\* The rows that a statement leaves on an empty database.
RowsOf(rel, st) ==
  IF st.op = "chapter"
  THEN {ItemRow(st.slug, st.section, Place[v].verse, v, v, None) : v \in VersesIn(st.num, st.section)}
  ELSE IF st.op \in SlotOps
  THEN {ItemRow(st.slug, st.section, st.ord, st.verse, rel.topics, rel.english)}
  ELSE IF st.op = "item"
  THEN {ItemRow(st.slug, None, st.ord, st.verse, rel.topics, rel.english)}
  ELSE {}

\* A verse of a course without sections.
LEMMA CourseItem ==
  ASSUME NEW rel, NEW row
  PROVE  row \in CourseItems(rel) <=>
           \E c \in DOMAIN rel.courses : \E k \in DOMAIN rel.courses[c].verses :
             row = ItemRow(rel.courses[c].slug, None, k, rel.courses[c].verses[k], rel.topics, rel.english)
BY DEF CourseItems

\* A slot of the warm-up or of the prophecies.
LEMMA SlotItem ==
  ASSUME NEW rel, NEW slug, NEW secs, NEW row
  PROVE  row \in SlotItems(rel, slug, secs) <=>
           \E s \in DOMAIN secs : \E k \in DOMAIN secs[s] :
             row = ItemRow(slug, s, k, secs[s][k], rel.topics, rel.english)
BY DEF SlotItems

\* A verse of a book.
LEMMA BookItem ==
  ASSUME NEW rel, NEW row
  PROVE  row \in BookItems(rel) <=>
           \E b \in Range(rel.books) : \E v \in Verses :
             /\ Place[v].book = b.num
             /\ row = ItemRow(b.slug, Place[v].chapter, Place[v].verse, v, v, None)
BY DEF BookItems

\* What a release's lists are: sequences, sections and verses numbered from one.
LEMMA ReleaseLists ==
  ASSUME NEW r \in Releases
  PROVE  /\ \A c \in DOMAIN Lists[r].courses :
              /\ IsInjective(Lists[r].courses[c].verses)
              /\ \A k \in DOMAIN Lists[r].courses[c].verses : k \in Nat
         /\ \A s \in DOMAIN Lists[r].warmup : s \in Nat
         /\ \A s \in DOMAIN Lists[r].messiah : s \in Nat
<1> DEFINE rel == Lists[r]
<1>1. /\ rel.courses \in Seq(CourseList) /\ rel.warmup \in Seq(Seq(Verses))
      /\ rel.messiah \in Seq(Seq(Verses))
      /\ \A c \in DOMAIN rel.courses : IsInjective(rel.courses[c].verses)
  BY CatalogAssumption DEF CatalogAssumption
<1> HIDE DEF rel
<1>2. ASSUME NEW T, NEW s \in Seq(T) PROVE \A k \in DOMAIN s : k \in Nat
  <2>1. Len(s) \in Nat /\ DOMAIN s = 1..Len(s)
    BY <1>2, LenProperties
  <2> QED BY <2>1
<1>3. \A c \in DOMAIN rel.courses : rel.courses[c].verses \in Seq(Verses)
  <2>1. \A c \in DOMAIN rel.courses : rel.courses[c] \in CourseList
    BY <1>1, LenProperties, ElementOfSeq
  <2> QED BY <2>1 DEF CourseList
<1> QED BY <1>1, <1>2, <1>3 DEF rel

\* Two items that a release lists under one key are one item.
LEMMA ListedKeyed ==
  ASSUME NEW r \in Releases, NEW x \in ListedItems(Lists[r]), NEW y \in ListedItems(Lists[r]),
         Key(x) = Key(y)
  PROVE  x = y
<1> DEFINE rel == Lists[r]
           plain == CourseItems(rel)
           warmup == SlotItems(rel, "warmup", rel.warmup)
           messiah == SlotItems(rel, MessiahSlug, rel.messiah)
           books == BookItems(rel)
<1>1. /\ x.course = y.course /\ x.section = y.section
      /\ x.section = None => x.verse = y.verse
      /\ x.section # None => x.ord = y.ord
  BY DEF Key
<1>2. x \in plain \cup warmup \cup messiah \cup books /\ y \in plain \cup warmup \cup messiah \cup books
  BY DEF ListedItems
<1>3. None \notin Nat
  BY NullAssumption DEF NullAssumption
<1>4. ASSUME NEW z \in plain PROVE z.section = None
  BY <1>4, CourseItem DEF ItemRow
<1>5. ASSUME NEW z \in warmup PROVE z.course = "warmup" /\ z.section # None
  BY <1>3, <1>5, SlotItem, ReleaseLists DEF ItemRow
<1>6. ASSUME NEW z \in messiah PROVE z.course = MessiahSlug /\ z.section # None
  BY <1>3, <1>6, SlotItem, ReleaseLists DEF ItemRow
<1>7. ASSUME NEW z \in books
      PROVE  z.course # "warmup" /\ z.course # MessiahSlug /\ z.section # None
  <2>1. PICK b \in Range(rel.books), v \in Verses :
           z = ItemRow(b.slug, Place[v].chapter, Place[v].verse, v, v, None)
    BY <1>7, BookItem
  <2>2. b.slug # "warmup" /\ b.slug # MessiahSlug
    BY <2>1, KeysAssumption DEF KeysAssumption, MessiahSlug
  <2>3. Place[v].chapter \in Nat
    BY CatalogAssumption DEF CatalogAssumption
  <2> QED BY <1>3, <2>1, <2>2, <2>3 DEF ItemRow
<1>8. "warmup" # MessiahSlug
  BY DEF MessiahSlug
<1>9. CASE x \in plain /\ y \in plain
  <2>1. PICK c \in DOMAIN rel.courses : \E k \in DOMAIN rel.courses[c].verses :
           x = ItemRow(rel.courses[c].slug, None, k, rel.courses[c].verses[k], rel.topics, rel.english)
    BY <1>9, CourseItem
  <2>2. PICK k \in DOMAIN rel.courses[c].verses :
           x = ItemRow(rel.courses[c].slug, None, k, rel.courses[c].verses[k], rel.topics, rel.english)
    BY <2>1
  <2>3. PICK d \in DOMAIN rel.courses : \E m \in DOMAIN rel.courses[d].verses :
           y = ItemRow(rel.courses[d].slug, None, m, rel.courses[d].verses[m], rel.topics, rel.english)
    BY <1>9, CourseItem
  <2>4. PICK m \in DOMAIN rel.courses[d].verses :
           y = ItemRow(rel.courses[d].slug, None, m, rel.courses[d].verses[m], rel.topics, rel.english)
    BY <2>3
  <2>5. rel.courses[c].slug = rel.courses[d].slug /\ rel.courses[c].verses[k] = rel.courses[d].verses[m]
    BY <1>1, <2>2, <2>4 DEF ItemRow
  <2>6. c = d
    BY <2>5, KeysAssumption DEF KeysAssumption
  <2>7. k = m
    BY <2>5, <2>6, ReleaseLists DEF IsInjective
  <2> QED BY <2>2, <2>4, <2>6, <2>7
<1>10. ASSUME NEW slug, NEW secs, x \in SlotItems(rel, slug, secs), y \in SlotItems(rel, slug, secs),
              x.section # None
       PROVE  x = y
  <2>1. PICK s \in DOMAIN secs : \E k \in DOMAIN secs[s] :
           x = ItemRow(slug, s, k, secs[s][k], rel.topics, rel.english)
    BY <1>10, SlotItem
  <2>2. PICK k \in DOMAIN secs[s] : x = ItemRow(slug, s, k, secs[s][k], rel.topics, rel.english)
    BY <2>1
  <2>3. PICK t \in DOMAIN secs : \E m \in DOMAIN secs[t] :
           y = ItemRow(slug, t, m, secs[t][m], rel.topics, rel.english)
    BY <1>10, SlotItem
  <2>4. PICK m \in DOMAIN secs[t] : y = ItemRow(slug, t, m, secs[t][m], rel.topics, rel.english)
    BY <2>3
  <2>5. s = t /\ k = m
    BY <1>1, <1>10, <2>2, <2>4 DEF ItemRow
  <2> QED BY <2>2, <2>4, <2>5
<1>11. CASE x \in books /\ y \in books
  <2>1. PICK b \in Range(rel.books), v \in Verses :
           /\ Place[v].book = b.num
           /\ x = ItemRow(b.slug, Place[v].chapter, Place[v].verse, v, v, None)
    BY <1>11, BookItem
  <2>2. PICK d \in Range(rel.books), w \in Verses :
           /\ Place[w].book = d.num
           /\ y = ItemRow(d.slug, Place[w].chapter, Place[w].verse, w, w, None)
    BY <1>11, BookItem
  <2>3. b.slug = d.slug /\ Place[v].chapter = Place[w].chapter /\ Place[v].verse = Place[w].verse
    BY <1>1, <1>7, <1>11, <2>1, <2>2 DEF ItemRow
  <2>4. b.num = d.num
    BY <2>3, KeysAssumption DEF KeysAssumption
  <2>5. /\ Place[v] \in [book : Nat, chapter : Nat, verse : Nat]
        /\ Place[w] \in [book : Nat, chapter : Nat, verse : Nat]
    BY CatalogAssumption DEF CatalogAssumption
  <2>6. Place[v] = Place[w]
    BY <2>1, <2>2, <2>3, <2>4, <2>5
  <2>7. v = w
    BY <2>6, KeysAssumption DEF KeysAssumption
  <2> QED BY <2>1, <2>2, <2>3, <2>7
<1> HIDE DEF plain, books
<1>12. CASE x \in plain \/ y \in plain
  <2>1. x.section = None
    BY <1>1, <1>4, <1>12
  <2> HIDE DEF warmup, messiah
  <2>2. x \in plain /\ y \in plain
    BY <1>1, <1>2, <1>5, <1>6, <1>7, <2>1
  <2> QED BY <1>9, <2>2
<1>13. CASE x \in warmup \/ y \in warmup
  <2>1. x.course = "warmup" /\ x.section # None
    BY <1>1, <1>5, <1>13
  <2>2. x \in warmup /\ y \in warmup
    <3> HIDE DEF warmup, messiah
    <3> QED BY <1>1, <1>2, <1>4, <1>6, <1>7, <1>8, <2>1
  <2> QED BY <1>10, <2>1, <2>2
<1>14. CASE x \in messiah \/ y \in messiah
  <2>1. x.course = MessiahSlug /\ x.section # None
    BY <1>1, <1>6, <1>14
  <2>2. x \in messiah /\ y \in messiah
    <3> HIDE DEF warmup, messiah
    <3> QED BY <1>1, <1>2, <1>4, <1>5, <1>7, <1>8, <2>1
  <2> QED BY <1>10, <2>1, <2>2
<1> HIDE DEF warmup, messiah
<1> QED BY <1>2, <1>11, <1>12, <1>13, <1>14

\* The rows of a statement, by its kind.
LEMMA RowsOfKind ==
  ASSUME NEW rel, NEW st
  PROVE  /\ st.op = "item" =>
              RowsOf(rel, st) = {ItemRow(st.slug, None, st.ord, st.verse, rel.topics, rel.english)}
         /\ st.op \in SlotOps =>
              RowsOf(rel, st) = {ItemRow(st.slug, st.section, st.ord, st.verse, rel.topics, rel.english)}
         /\ st.op = "chapter" =>
              RowsOf(rel, st) = {ItemRow(st.slug, st.section, Place[v].verse, v, v, None) :
                                   v \in VersesIn(st.num, st.section)}
         /\ st.op \notin ItemOps => RowsOf(rel, st) = {}
<1>1. /\ "chapter" \notin SlotOps /\ "item" \notin SlotOps /\ "item" # "chapter"
      /\ SlotOps \subseteq ItemOps /\ "item" \in ItemOps /\ "chapter" \in ItemOps
  BY DEF SlotOps, ItemOps
<1> QED BY <1>1 DEF RowsOf

\* A statement for the items of a release inserts what the release lists.
LEMMA StatementListed ==
  ASSUME NEW r \in Releases, NEW st \in ItemStatementsOf(Lists[r])
  PROVE  RowsOf(Lists[r], st) \subseteq ListedItems(Lists[r])
<1> DEFINE rel == Lists[r]
<1>1. CASE \E c \in DOMAIN rel.courses : st \in ItemsOf(rel.courses[c])
  <2>1. PICK c \in DOMAIN rel.courses : st \in ItemsOf(rel.courses[c])
    BY <1>1
  <2>2. PICK k \in DOMAIN rel.courses[c].verses :
          st = [op |-> "item", slug |-> rel.courses[c].slug, ord |-> k, verse |-> rel.courses[c].verses[k]]
    BY <2>1 DEF ItemsOf
  <2> DEFINE row == ItemRow(rel.courses[c].slug, None, k, rel.courses[c].verses[k], rel.topics, rel.english)
  <2>3. RowsOf(rel, st) = {row}
    BY <2>2, RowsOfKind
  <2>4. row \in CourseItems(rel)
    BY CourseItem
  <2> QED BY <2>3, <2>4 DEF ListedItems
<1>2. ASSUME NEW slug, NEW op \in SlotOps, NEW secs, st \in SlotsOfSections(slug, op, secs)
      PROVE  RowsOf(rel, st) \subseteq SlotItems(rel, slug, secs)
  <2>1. PICK s \in DOMAIN secs : st \in SlotsOf(slug, op, s, secs[s])
    BY <1>2 DEF SlotsOfSections
  <2>2. PICK k \in DOMAIN secs[s] :
          st = [op |-> op, slug |-> slug, section |-> s, ord |-> k, verse |-> secs[s][k]]
    BY <2>1 DEF SlotsOf
  <2> DEFINE row == ItemRow(slug, s, k, secs[s][k], rel.topics, rel.english)
  <2>3. RowsOf(rel, st) = {row}
    BY <2>2, RowsOfKind
  <2>4. row \in SlotItems(rel, slug, secs)
    BY SlotItem
  <2> QED BY <2>3, <2>4
<1>3. CASE \E j \in DOMAIN rel.books : st \in ChaptersIn(rel.books[j])
  <2>1. PICK j \in DOMAIN rel.books : st \in ChaptersIn(rel.books[j])
    BY <1>3
  <2> DEFINE b == rel.books[j]
  <2>2. PICK ch : st = ChapterOf(b, ch)
    BY <2>1 DEF ChaptersIn
  <2>3. RowsOf(rel, st) = {ItemRow(b.slug, ch, Place[v].verse, v, v, None) : v \in VersesIn(b.num, ch)}
    BY <2>2, RowsOfKind DEF ChapterOf
  <2>4. b \in Range(rel.books)
    BY DEF Range
  <2> HIDE DEF b
  <2>5. ASSUME NEW v \in VersesIn(b.num, ch)
        PROVE  ItemRow(b.slug, ch, Place[v].verse, v, v, None) \in BookItems(rel)
    <3>1. v \in Verses /\ Place[v].book = b.num /\ Place[v].chapter = ch
      BY <2>5 DEF VersesIn
    <3> QED BY <2>4, <3>1, BookItem
  <2> QED BY <2>3, <2>5 DEF ListedItems
<1>4. \/ \E c \in DOMAIN rel.courses : st \in ItemsOf(rel.courses[c])
      \/ st \in SlotsOfSections("warmup", "warmup item", rel.warmup)
      \/ \E j \in DOMAIN rel.books : st \in ChaptersIn(rel.books[j])
      \/ st \in SlotsOfSections(MessiahSlug, "messiah item", rel.messiah)
  BY DEF ItemStatementsOf
<1> HIDE DEF rel
<1>5. "warmup item" \in SlotOps /\ "messiah item" \in SlotOps
  BY DEF SlotOps
<1>6. CASE st \in SlotsOfSections("warmup", "warmup item", rel.warmup)
  BY <1>2, <1>5, <1>6 DEF ListedItems, rel
<1>7. CASE st \in SlotsOfSections(MessiahSlug, "messiah item", rel.messiah)
  BY <1>2, <1>5, <1>7 DEF ListedItems, rel
<1> QED BY <1>1, <1>3, <1>4, <1>6, <1>7

\* What a release lists has its statement.
LEMMA ListedStatement ==
  ASSUME NEW r \in Releases, NEW row \in ListedItems(Lists[r])
  PROVE  \E st \in ItemStatementsOf(Lists[r]) :
           /\ row \in RowsOf(Lists[r], st)
           /\ row \in SlotItems(Lists[r], "warmup", Lists[r].warmup) => st.op = "warmup item"
<1> DEFINE rel == Lists[r]
           warmup == SlotItems(rel, "warmup", rel.warmup)
<1>1. CASE row \in CourseItems(rel) \ warmup
  <2>1. PICK c \in DOMAIN rel.courses : \E k \in DOMAIN rel.courses[c].verses :
           row = ItemRow(rel.courses[c].slug, None, k, rel.courses[c].verses[k], rel.topics, rel.english)
    BY <1>1, CourseItem
  <2>2. PICK k \in DOMAIN rel.courses[c].verses :
           row = ItemRow(rel.courses[c].slug, None, k, rel.courses[c].verses[k], rel.topics, rel.english)
    BY <2>1
  <2> DEFINE st == [op |-> "item", slug |-> rel.courses[c].slug, ord |-> k, verse |-> rel.courses[c].verses[k]]
  <2>3. row \in RowsOf(rel, st)
    BY <2>2, RowsOfKind
  <2>4. st \in ItemStatementsOf(rel)
    <3>1. st \in ItemsOf(rel.courses[c])
      BY DEF ItemsOf
    <3> HIDE DEF st
    <3> QED BY <3>1 DEF ItemStatementsOf
  <2> HIDE DEF st
  <2> QED BY <1>1, <2>3, <2>4
<1>2. ASSUME NEW slug, NEW op \in SlotOps, NEW secs, row \in SlotItems(rel, slug, secs)
      PROVE  \E st \in SlotsOfSections(slug, op, secs) : row \in RowsOf(rel, st) /\ st.op = op
  <2>1. PICK s \in DOMAIN secs : \E k \in DOMAIN secs[s] :
           row = ItemRow(slug, s, k, secs[s][k], rel.topics, rel.english)
    BY <1>2, SlotItem
  <2>2. PICK k \in DOMAIN secs[s] : row = ItemRow(slug, s, k, secs[s][k], rel.topics, rel.english)
    BY <2>1
  <2> DEFINE st == [op |-> op, slug |-> slug, section |-> s, ord |-> k, verse |-> secs[s][k]]
  <2>3. row \in RowsOf(rel, st) /\ st.op = op
    BY <2>2, RowsOfKind
  <2>4. st \in SlotsOfSections(slug, op, secs)
    BY DEF SlotsOfSections, SlotsOf
  <2> HIDE DEF st
  <2> QED BY <2>3, <2>4
<1>3. CASE row \in BookItems(rel) \ warmup
  <2>1. PICK b \in Range(rel.books) : \E v \in Verses :
             /\ Place[v].book = b.num
             /\ row = ItemRow(b.slug, Place[v].chapter, Place[v].verse, v, v, None)
    BY <1>3, BookItem
  <2>2. PICK v \in Verses : /\ Place[v].book = b.num
                            /\ row = ItemRow(b.slug, Place[v].chapter, Place[v].verse, v, v, None)
    BY <2>1
  <2> DEFINE ch == Place[v].chapter
             st == ChapterOf(b, ch)
  <2>3. st \in ItemStatementsOf(rel)
    <3>1. st \in ChaptersIn(b)
      BY <2>2 DEF ChaptersIn
    <3>2. PICK j \in DOMAIN rel.books : b = rel.books[j]
      BY DEF Range
    <3> HIDE DEF st
    <3> QED BY <3>1, <3>2 DEF ItemStatementsOf
  <2>4. row \in RowsOf(rel, st)
    <3>1. v \in VersesIn(b.num, ch)
      BY <2>2 DEF VersesIn
    <3>2. st.op = "chapter" /\ st.slug = b.slug /\ st.num = b.num /\ st.section = ch
      BY DEF ChapterOf
    <3>3. RowsOf(rel, st) = {ItemRow(b.slug, ch, Place[w].verse, w, w, None) : w \in VersesIn(b.num, ch)}
      BY <3>2, RowsOfKind
    <3>4. row = ItemRow(b.slug, ch, Place[v].verse, v, v, None)
      BY <2>2
    <3> HIDE DEF st, ch
    <3> QED BY <3>1, <3>3, <3>4
  <2> HIDE DEF st
  <2> QED BY <1>3, <2>3, <2>4
<1>4. "warmup item" \in SlotOps /\ "messiah item" \in SlotOps
  BY DEF SlotOps
<1> HIDE DEF rel
<1>5. CASE row \in warmup
  <2>1. \E st \in SlotsOfSections("warmup", "warmup item", rel.warmup) :
           row \in RowsOf(rel, st) /\ st.op = "warmup item"
    BY <1>2, <1>4, <1>5
  <2> QED BY <2>1 DEF ItemStatementsOf, rel
<1>6. CASE row \in SlotItems(rel, MessiahSlug, rel.messiah) \ warmup
  <2>1. \E st \in SlotsOfSections(MessiahSlug, "messiah item", rel.messiah) :
           row \in RowsOf(rel, st) /\ st.op = "messiah item"
    BY <1>2, <1>4, <1>6
  <2> QED BY <1>6, <2>1 DEF ItemStatementsOf, rel
<1>7. \/ row \in CourseItems(rel) \ warmup \/ row \in warmup
      \/ row \in SlotItems(rel, MessiahSlug, rel.messiah) \ warmup \/ row \in BookItems(rel) \ warmup
  BY DEF ListedItems, rel
<1> QED BY <1>1, <1>3, <1>5, <1>6, <1>7 DEF rel

\* A run inserts what its release lists, and all of it.
LEMMA ProgramRows ==
  ASSUME NEW r \in Releases
  PROVE  /\ \A k \in DOMAIN Programs[r] : RowsOf(Lists[r], Programs[r][k]) \subseteq ListedItems(Lists[r])
         /\ \A row \in ListedItems(Lists[r]) : \E k \in DOMAIN Programs[r] :
              /\ row \in RowsOf(Lists[r], Programs[r][k])
              /\ row \in SlotItems(Lists[r], "warmup", Lists[r].warmup) =>
                   Programs[r][k].op = "warmup item"
<1> DEFINE p == Programs[r]
<1>1. ItemStatementsOf(Lists[r]) = {st \in Range(p) : st.op \in ItemOps}
  BY ProgramProvides DEF Provides
<1> HIDE DEF p
<1>2. ASSUME NEW k \in DOMAIN p PROVE RowsOf(Lists[r], p[k]) \subseteq ListedItems(Lists[r])
  <2>1. p[k] \in Range(p)
    BY DEF Range
  <2>2. CASE p[k].op \in ItemOps
    BY <1>1, <2>1, <2>2, StatementListed
  <2>3. CASE p[k].op \notin ItemOps
    BY <2>3, RowsOfKind
  <2> QED BY <2>2, <2>3
<1>3. ASSUME NEW row \in ListedItems(Lists[r])
      PROVE  \E k \in DOMAIN p :
               /\ row \in RowsOf(Lists[r], p[k])
               /\ row \in SlotItems(Lists[r], "warmup", Lists[r].warmup) => p[k].op = "warmup item"
  <2>1. PICK st \in ItemStatementsOf(Lists[r]) :
           /\ row \in RowsOf(Lists[r], st)
           /\ row \in SlotItems(Lists[r], "warmup", Lists[r].warmup) => st.op = "warmup item"
    BY ListedStatement
  <2>2. PICK k \in DOMAIN p : st = p[k]
    BY <1>1 DEF Range
  <2> QED BY <2>1, <2>2
<1> QED BY <1>2, <1>3 DEF p
-----------------------------------------------------------------------------
(* What a statement does to course_items: the merge of its rows with those *)
(* of earlier runs and releases.                                           *)

\* What a statement may make of a row with the key of one of its own: that row,
\* or, but for the warm-up, the old one with the new translation.
Merged(new, old, rel, st) ==
  \E row \in RowsOf(rel, st) :
    /\ Key(row) = Key(old)
    /\ \/ new = row
       \/ /\ st.op # "warmup item"
          /\ new = ItemRow(old.course, old.section, old.ord, old.verse, old.topic, row.topicEn)

\* What a statement does to course_items: no row is lost, those of its keys are
\* merged, and the rows that are missing are added, each once.
Merges(rel, st) ==
  /\ \A i \in DOMAIN items :
       i \in DOMAIN items' /\ (items'[i] = items[i] \/ Merged(items'[i], items[i], rel, st))
  /\ \A i \in DOMAIN items' \ DOMAIN items :
       items'[i] \in RowsOf(rel, st) /\ \A j \in DOMAIN items : Key(items[j]) # Key(items'[i])
  /\ \A i, j \in DOMAIN items' \ DOMAIN items : Key(items'[i]) = Key(items'[j]) => i = j
  /\ \A row \in RowsOf(rel, st) : \E i \in DOMAIN items' :
       Key(items'[i]) = Key(row) /\ (st.op = "warmup item" => items'[i] = row)

\* The columns of a row that make up its key.
LEMMA KeyOf ==
  ASSUME NEW slug, NEW section, NEW ord, NEW verse, NEW topic, NEW topicEn
  PROVE  LET row == ItemRow(slug, section, ord, verse, topic, topicEn)
         IN  /\ row.course = slug /\ row.section = section /\ row.ord = ord /\ row.verse = verse
             /\ row.topic = topic /\ row.topicEn = topicEn
             /\ Key(row) = <<slug, section, IF section = None THEN verse ELSE ord>>
BY DEF ItemRow, Key

\* A row with another translation has the same key.
LEMMA RowUpdated ==
  ASSUME NEW row, NEW slugs, NEW keys, RowOK(row, slugs, keys), NEW english
  PROVE  [row EXCEPT !.topicEn = english]
           = ItemRow(row.course, row.section, row.ord, row.verse, row.topic, english)
BY DEF RowOK, ItemRow

\* A warm-up slot with another verse and its texts.
LEMMA SlotUpdated ==
  ASSUME NEW row, NEW slugs, NEW keys, RowOK(row, slugs, keys), NEW verse
  PROVE  WarmupUpdate(row, verse)
           = ItemRow(row.course, row.section, row.ord, verse, Release.topics, Release.english)
<1> DEFINE topics == Release.topics
           english == Release.english
<1>1. row = [course |-> row.course, section |-> row.section, ord |-> row.ord,
             verse |-> row.verse, topic |-> row.topic, topicEn |-> row.topicEn]
  BY DEF RowOK
<1>2. WarmupUpdate(row, verse)
        = [row EXCEPT !.verse = verse, !.topic = topics, !.topicEn = english]
  BY DEF WarmupUpdate
<1> HIDE DEF topics, english
<1>3. [row EXCEPT !.verse = verse, !.topic = topics, !.topicEn = english]
        = [[course |-> row.course, section |-> row.section, ord |-> row.ord,
            verse |-> row.verse, topic |-> row.topic, topicEn |-> row.topicEn]
             EXCEPT !.verse = verse, !.topic = topics, !.topicEn = english]
  BY <1>1, Zenon
<1>4. WarmupUpdate(row, verse) = ItemRow(row.course, row.section, row.ord, verse, topics, english)
  BY <1>2, <1>3 DEF ItemRow
<1> QED BY <1>4 DEF topics, english

\* Other texts do not change the key of a row.
LEMMA KeyKept ==
  ASSUME NEW old, NEW topic, NEW english
  PROVE  Key(ItemRow(old.course, old.section, old.ord, old.verse, topic, english)) = Key(old)
BY DEF Key, ItemRow

\* The row that an INSERT conflicts with is the one with its key.
LEMMA HitByKey ==
  ASSUME NEW i \in DOMAIN items, NEW slug, NEW section, NEW ord, NEW verse, NEW topic, NEW topicEn
  PROVE  /\ i \in SameVerse(slug, verse) <=>
              Key(items[i]) = Key(ItemRow(slug, None, ord, verse, topic, topicEn))
         /\ section \in Nat =>
              (i \in SameSlot(slug, section, ord) <=>
                 Key(items[i]) = Key(ItemRow(slug, section, ord, verse, topic, topicEn)))
<1>1. i \in SameVerse(slug, verse) <=>
        Key(items[i]) = Key(ItemRow(slug, None, ord, verse, topic, topicEn))
  BY DEF SameVerse, Key, ItemRow
<1>2. ASSUME section \in Nat
      PROVE  i \in SameSlot(slug, section, ord) <=>
               Key(items[i]) = Key(ItemRow(slug, section, ord, verse, topic, topicEn))
  <2>1. section # None
    BY <1>2, NullAssumption DEF NullAssumption
  <2> QED BY <2>1 DEF SameSlot, Key, ItemRow
<1> QED BY <1>1, <1>2

\* The next id is free.
LEMMA NextItemFree == ASSUME ItemsOK PROVE nextItem \notin DOMAIN items
BY DEF ItemsOK

\* The items after an INSERT ... ON CONFLICT DO UPDATE of one row: the rows it hits
\* become those of upd.
Upserted(hit, row, upd) ==
  IF hit = {} THEN With(items, nextItem, row)
  ELSE [i \in DOMAIN items |-> IF i \in hit THEN upd[i] ELSE items[i]]

\* An upsert of the one row of a statement: it hits the rows with the key of the
\* row, and of those it writes the whole row or its English topic.
UpsertOf(rel, st, row, hit, upd) ==
  /\ RowsOf(rel, st) = {row}
  /\ hit \subseteq DOMAIN items
  /\ \A i \in DOMAIN items : i \in hit <=> Key(items[i]) = Key(row)
  /\ \A i \in hit : Key(upd[i]) = Key(row)
  /\ \A i \in hit :
       \/ upd[i] = row
       \/ /\ st.op # "warmup item"
          /\ upd[i] = ItemRow(items[i].course, items[i].section, items[i].ord, items[i].verse,
                              items[i].topic, row.topicEn)
  /\ items' = Upserted(hit, row, upd)

\* An upsert of one row merges it.
LEMMA UpsertMerges ==
  ASSUME ItemsOK, NEW rel, NEW st, NEW row, NEW hit, NEW upd, UpsertOf(rel, st, row, hit, upd)
  PROVE  Merges(rel, st)
<1> USE DEF UpsertOf
<1>1. nextItem \notin DOMAIN items
  BY NextItemFree
<1>2. CASE hit = {}
  <2>1. items' = With(items, nextItem, row)
    BY <1>2 DEF Upserted
  <2>2. DOMAIN items' = DOMAIN items \cup {nextItem}
    BY <2>1 DEF With
  <2>3. items'[nextItem] = row /\ \A i \in DOMAIN items : items'[i] = items[i]
    BY <1>1, <2>1 DEF With
  <2>4. \A j \in DOMAIN items : Key(items[j]) # Key(row)
    BY <1>2
  <2> QED BY <2>2, <2>3, <2>4 DEF Merges
<1>3. CASE hit # {}
  <2>1. items' = [i \in DOMAIN items |-> IF i \in hit THEN upd[i] ELSE items[i]]
    BY <1>3 DEF Upserted
  <2>2. DOMAIN items' = DOMAIN items /\ \A i \in DOMAIN items : items'[i] = IF i \in hit THEN upd[i] ELSE items[i]
    BY <2>1
  <2>3. ASSUME NEW i \in DOMAIN items
        PROVE  items'[i] = items[i] \/ Merged(items'[i], items[i], rel, st)
    <3>1. CASE i \in hit
      <4>1. items'[i] = upd[i] /\ Key(row) = Key(items[i]) /\ row \in RowsOf(rel, st)
        BY <2>2, <3>1
      <4> QED BY <3>1, <4>1 DEF Merged
    <3>2. CASE i \notin hit
      BY <2>2, <3>2
    <3> QED BY <3>1, <3>2
  <2>4. PICK i \in hit : i \in DOMAIN items
    BY <1>3
  <2>5. Key(items'[i]) = Key(row) /\ (st.op = "warmup item" => items'[i] = row)
    BY <2>2, <2>4
  <2> QED BY <2>2, <2>3, <2>4, <2>5 DEF Merges
<1> QED BY <1>2, <1>3

\* The statements that insert single items.
LEMMA InsertItemMerges ==
  ASSUME ItemsOK, CatalogOK, InsertItem
  PROVE  Merges(Release, Statement)
<1> DEFINE hit == SameVerse(Statement.slug, Statement.verse)
           row == ItemRow(Statement.slug, None, Statement.ord, Statement.verse,
                          Release.topics, Release.english)
           upd == [i \in DOMAIN items |-> [items[i] EXCEPT !.topicEn = Release.english]]
<1>1. items' = Upserted(hit, row, upd)
  BY DEF InsertItem, InsertOrUpdate, Upserted
<1>2. Statement.op = "item"
  BY DEF InsertItem, Executes
<1>3. RowsOf(Release, Statement) = {row} /\ Statement.op # "warmup item"
  BY <1>2, RowsOfKind
<1>4. hit \in SUBSET DOMAIN items /\ \A i \in DOMAIN items : i \in hit <=> Key(items[i]) = Key(row)
  <2>1. hit \in SUBSET DOMAIN items
    BY DEF SameVerse
  <2> QED BY <2>1, HitByKey
<1>5. ASSUME NEW i \in hit
      PROVE  upd[i] = ItemRow(items[i].course, items[i].section, items[i].ord, items[i].verse,
                              items[i].topic, Release.english)
  <2>1. i \in DOMAIN items
    BY <1>4
  <2>2. RowOK(items[i], DOMAIN courses, DOMAIN sections)
    BY <2>1 DEF CatalogOK
  <2>3. upd[i] = [items[i] EXCEPT !.topicEn = Release.english]
    BY <2>1
  <2> QED BY <2>2, <2>3, RowUpdated
<1>6. row.topicEn = Release.english
  BY DEF ItemRow
<1> HIDE DEF hit, row, upd
<1>7. ASSUME NEW i \in hit PROVE Key(upd[i]) = Key(row)
  <2>1. Key(items[i]) = Key(row)
    BY <1>4
  <2> QED BY <1>5, <2>1, KeyKept
<1>8. \A i \in hit :
        \/ upd[i] = row
        \/ /\ Statement.op # "warmup item"
           /\ upd[i] = ItemRow(items[i].course, items[i].section, items[i].ord, items[i].verse,
                               items[i].topic, row.topicEn)
  BY <1>3, <1>5, <1>6
<1>9. UpsertOf(Release, Statement, row, hit, upd)
  BY <1>1, <1>3, <1>4, <1>7, <1>8 DEF UpsertOf
<1> QED BY <1>9, UpsertMerges

\* A slot of the prophecies.
LEMMA InsertMessiahItemMerges ==
  ASSUME ItemsOK, CatalogOK, InsertMessiahItem
  PROVE  Merges(Release, Statement)
<1> DEFINE hit == SameSlot(Statement.slug, Statement.section, Statement.ord)
           row == ItemRow(Statement.slug, Statement.section, Statement.ord, Statement.verse,
                          Release.topics, Release.english)
           upd == [i \in DOMAIN items |-> [items[i] EXCEPT !.topicEn = Release.english]]
<1>1. items' = Upserted(hit, row, upd)
  BY DEF InsertMessiahItem, InsertOrUpdate, Upserted
<1>2. Running /\ Statement.op = "messiah item"
  BY DEF InsertMessiahItem, Executes
<1>3. RowsOf(Release, Statement) = {row} /\ Statement.op # "warmup item"
  BY <1>2, RowsOfKind DEF SlotOps
<1>4. hit \in SUBSET DOMAIN items /\ \A i \in DOMAIN items : i \in hit <=> Key(items[i]) = Key(row)
  <2>1. Statement.section \in Nat
    BY <1>2, SlotStatement DEF SlotStatements
  <2>2. hit \in SUBSET DOMAIN items
    BY DEF SameSlot
  <2> QED BY <2>1, <2>2, HitByKey
<1>5. ASSUME NEW i \in hit
      PROVE  upd[i] = ItemRow(items[i].course, items[i].section, items[i].ord, items[i].verse,
                              items[i].topic, Release.english)
  <2>1. i \in DOMAIN items
    BY <1>4
  <2>2. RowOK(items[i], DOMAIN courses, DOMAIN sections)
    BY <2>1 DEF CatalogOK
  <2>3. upd[i] = [items[i] EXCEPT !.topicEn = Release.english]
    BY <2>1
  <2> QED BY <2>2, <2>3, RowUpdated
<1>6. row.topicEn = Release.english
  BY DEF ItemRow
<1> HIDE DEF hit, row, upd
<1>7. ASSUME NEW i \in hit PROVE Key(upd[i]) = Key(row)
  <2>1. Key(items[i]) = Key(row)
    BY <1>4
  <2> QED BY <1>5, <2>1, KeyKept
<1>8. \A i \in hit :
        \/ upd[i] = row
        \/ /\ Statement.op # "warmup item"
           /\ upd[i] = ItemRow(items[i].course, items[i].section, items[i].ord, items[i].verse,
                               items[i].topic, row.topicEn)
  BY <1>3, <1>5, <1>6
<1>9. UpsertOf(Release, Statement, row, hit, upd)
  BY <1>1, <1>3, <1>4, <1>7, <1>8 DEF UpsertOf
<1> QED BY <1>9, UpsertMerges

\* A slot of the warm-up.
LEMMA InsertWarmupItemMerges ==
  ASSUME ItemsOK, CatalogOK, InsertWarmupItem
  PROVE  Merges(Release, Statement)
<1> DEFINE hit == SameSlot(Statement.slug, Statement.section, Statement.ord)
           row == ItemRow(Statement.slug, Statement.section, Statement.ord, Statement.verse,
                          Release.topics, Release.english)
           upd == [i \in DOMAIN items |-> WarmupUpdate(items[i], Statement.verse)]
<1>1. items' = Upserted(hit, row, upd)
  BY DEF InsertWarmupItem, InsertOrUpdate, Upserted
<1>2. Running /\ Statement.op = "warmup item"
  BY DEF InsertWarmupItem, Executes
<1>3. RowsOf(Release, Statement) = {row}
  BY <1>2, RowsOfKind DEF SlotOps
<1>4. Statement.section \in Nat
  BY <1>2, SlotStatement DEF SlotStatements
<1>5. hit \in SUBSET DOMAIN items /\ \A i \in DOMAIN items : i \in hit <=> Key(items[i]) = Key(row)
  <2>1. hit \in SUBSET DOMAIN items
    BY DEF SameSlot
  <2> QED BY <1>4, <2>1, HitByKey
<1>6. ASSUME NEW i \in hit PROVE upd[i] = row
  <2>1. i \in DOMAIN items /\ items[i].course = Statement.slug
        /\ items[i].section = Statement.section /\ items[i].ord = Statement.ord
    BY DEF SameSlot
  <2>2. RowOK(items[i], DOMAIN courses, DOMAIN sections)
    BY <2>1 DEF CatalogOK
  <2>3. upd[i] = WarmupUpdate(items[i], Statement.verse)
    BY <2>1
  <2>4. upd[i] = ItemRow(items[i].course, items[i].section, items[i].ord, Statement.verse,
                         Release.topics, Release.english)
    BY <2>2, <2>3, SlotUpdated
  <2> QED BY <2>1, <2>4
<1> HIDE DEF hit, row, upd
<1>7. \A i \in hit : Key(upd[i]) = Key(row)
  BY <1>6
<1>8. UpsertOf(Release, Statement, row, hit, upd)
  BY <1>1, <1>3, <1>5, <1>6, <1>7 DEF UpsertOf
<1> QED BY <1>8, UpsertMerges

\* The verses of a chapter before one of them.
Earlier(chapter, v) == {w \in chapter : Place[w].verse < Place[v].verse}

\* A verse that comes earlier has fewer before it.
LEMMA EarlierFewer ==
  ASSUME NEW chapter \in SUBSET Verses, NEW v \in chapter, NEW w \in chapter,
         Place[v].verse < Place[w].verse
  PROVE  Cardinality(Earlier(chapter, v)) < Cardinality(Earlier(chapter, w))
<1>1. \A x \in Verses : Place[x].verse \in Nat
  BY CatalogAssumption DEF CatalogAssumption
<1>2. IsFiniteSet(chapter)
  BY FS_Subset, CatalogAssumption DEF CatalogAssumption
<1>3. IsFiniteSet(Earlier(chapter, w))
  <2>1. Earlier(chapter, w) \in SUBSET chapter
    BY DEF Earlier
  <2> QED BY <1>2, <2>1, FS_Subset
<1>4. Earlier(chapter, v) \in SUBSET Earlier(chapter, w)
  BY <1>1 DEF Earlier
<1>5. v \in Earlier(chapter, w) /\ v \notin Earlier(chapter, v)
  BY <1>1 DEF Earlier
<1>6. /\ IsFiniteSet(Earlier(chapter, v))
      /\ Cardinality(Earlier(chapter, v)) <= Cardinality(Earlier(chapter, w))
      /\ Cardinality(Earlier(chapter, w)) = Cardinality(Earlier(chapter, v)) =>
           Earlier(chapter, w) = Earlier(chapter, v)
  BY <1>3, <1>4, FS_Subset
<1>7. Cardinality(Earlier(chapter, v)) \in Nat /\ Cardinality(Earlier(chapter, w)) \in Nat
  BY <1>3, <1>6, FS_CardinalityType
<1>8. Earlier(chapter, w) # Earlier(chapter, v)
  BY <1>5
<1> HIDE DEF Earlier
<1> QED BY <1>6, <1>7, <1>8

\* The row of a verse of a chapter.
ChapterRow(st, v) == ItemRow(st.slug, st.section, Place[v].verse, v, v, None)

\* Verses of one chapter have different numbers.
LEMMA ChapterNumbers ==
  ASSUME NEW num, NEW ch, NEW v \in VersesIn(num, ch), NEW w \in VersesIn(num, ch),
         Place[v].verse = Place[w].verse
  PROVE  v = w
<1>1. /\ v \in Verses /\ w \in Verses /\ Place[v].book = Place[w].book
      /\ Place[v].chapter = Place[w].chapter
  BY DEF VersesIn
<1>2. /\ Place[v] \in [book : Nat, chapter : Nat, verse : Nat]
      /\ Place[w] \in [book : Nat, chapter : Nat, verse : Nat]
  BY <1>1, CatalogAssumption DEF CatalogAssumption
<1>3. Place[v] = Place[w]
  BY <1>1, <1>2
<1> QED BY <1>1, <1>3, KeysAssumption DEF KeysAssumption

\* The verses of a chapter that have no slot yet get one each.
LEMMA InsertChapterMerges ==
  ASSUME ItemsOK, CatalogOK, InsertChapter
  PROVE  Merges(Release, Statement)
<1> DEFINE st == Statement
           chapter == VersesIn(st.num, st.section)
           IdOf(v) == nextItem + Cardinality(Earlier(chapter, v))
           new == {v \in chapter : SameSlot(st.slug, st.section, Place[v].verse) = {}}
           VerseAt(i) == CHOOSE v \in new : IdOf(v) = i
<1>1. Running /\ st.op = "chapter" /\ st.slug \notin script.cut
  BY DEF InsertChapter, Executes
<1>2. /\ DOMAIN items' = DOMAIN items \cup {IdOf(v) : v \in new}
      /\ \A i \in DOMAIN items : items'[i] = items[i]
      /\ \A v \in new : IdOf(v) \notin DOMAIN items =>
           items'[IdOf(v)] = ChapterRow(st, VerseAt(IdOf(v)))
  BY DEF InsertChapter, Earlier, ChapterRow
<1>3. st.section \in Nat
  BY <1>1, ChapterStatement DEF ChapterStatements
<1>4. RowsOf(Release, st) = {ChapterRow(st, v) : v \in chapter} /\ st.op # "warmup item"
  BY <1>1, RowsOfKind DEF ChapterRow
<1> HIDE DEF st
<1>5. chapter \in SUBSET Verses /\ IsFiniteSet(chapter)
  <2>1. chapter \in SUBSET Verses
    BY DEF VersesIn
  <2> QED BY <2>1, FS_Subset, CatalogAssumption DEF CatalogAssumption
<1>6. \A v, w \in chapter : Place[v].verse = Place[w].verse => v = w
  BY ChapterNumbers
<1>7. \A v, w \in chapter :
        Place[v].verse < Place[w].verse =>
          Cardinality(Earlier(chapter, v)) < Cardinality(Earlier(chapter, w))
  BY <1>5, EarlierFewer
<1> HIDE DEF chapter
<1>8. \A v \in chapter : Cardinality(Earlier(chapter, v)) \in Nat
  <2> SUFFICES ASSUME NEW v \in chapter PROVE Cardinality(Earlier(chapter, v)) \in Nat
    OBVIOUS
  <2>1. Earlier(chapter, v) \in SUBSET chapter
    BY DEF Earlier
  <2> QED BY <1>5, <2>1, FS_Subset, FS_CardinalityType
<1>9. nextItem \in Nat /\ DOMAIN items \subseteq 1..nextItem - 1
  BY DEF ItemsOK
<1>10. ASSUME NEW v \in chapter, NEW w \in chapter, IdOf(v) = IdOf(w)
       PROVE  v = w
  <2>1. Place[v].verse \in Nat /\ Place[w].verse \in Nat
    BY <1>5, CatalogAssumption DEF CatalogAssumption
  <2>2. Cardinality(Earlier(chapter, v)) = Cardinality(Earlier(chapter, w))
    BY <1>8, <1>9, <1>10
  <2>3. ~ (Place[v].verse < Place[w].verse) /\ ~ (Place[w].verse < Place[v].verse)
    BY <1>7, <1>8, <2>2
  <2> QED BY <1>6, <2>1, <2>3
<1>11. ASSUME NEW v \in new
       PROVE  IdOf(v) \notin DOMAIN items /\ items'[IdOf(v)] = ChapterRow(st, v)
  <2>1. v \in chapter
    OBVIOUS
  <2>2. IdOf(v) \notin DOMAIN items
    BY <1>8, <1>9, <2>1
  <2> HIDE DEF IdOf
  <2>3. VerseAt(IdOf(v)) \in new /\ IdOf(VerseAt(IdOf(v))) = IdOf(v)
    OBVIOUS
  <2>4. VerseAt(IdOf(v)) = v
    BY <1>10, <2>1, <2>3
  <2> QED BY <1>2, <2>2, <2>4
<1> HIDE DEF IdOf, VerseAt
<1>12. ASSUME NEW i \in DOMAIN items' \ DOMAIN items
       PROVE  \E v \in new : i = IdOf(v) /\ items'[i] = ChapterRow(st, v)
  BY <1>2, <1>11, <1>12
<1>13. ASSUME NEW v \in chapter, NEW j \in DOMAIN items
       PROVE  j \in SameSlot(st.slug, st.section, Place[v].verse) <=> Key(items[j]) = Key(ChapterRow(st, v))
  BY <1>3, HitByKey DEF ChapterRow
<1>14. ASSUME NEW v \in chapter, NEW w \in chapter, Key(ChapterRow(st, v)) = Key(ChapterRow(st, w))
       PROVE  v = w
  <2>1. st.section # None
    BY <1>3, NullAssumption DEF NullAssumption
  <2>2. Place[v].verse = Place[w].verse
    BY <1>14, <2>1 DEF Key, ChapterRow, ItemRow
  <2> QED BY <1>6, <2>2
<1>15. new \subseteq chapter /\ \A v \in new : SameSlot(st.slug, st.section, Place[v].verse) = {}
  OBVIOUS
<1>16. \A v \in chapter \ new : \E i \in DOMAIN items : i \in SameSlot(st.slug, st.section, Place[v].verse)
  BY DEF SameSlot
<1> HIDE DEF new
<1>17. \A i \in DOMAIN items' \ DOMAIN items :
         items'[i] \in RowsOf(Release, st) /\ \A j \in DOMAIN items : Key(items[j]) # Key(items'[i])
  <2> SUFFICES ASSUME NEW i \in DOMAIN items' \ DOMAIN items
               PROVE  /\ items'[i] \in RowsOf(Release, st)
                      /\ \A j \in DOMAIN items : Key(items[j]) # Key(items'[i])
    OBVIOUS
  <2>1. PICK v \in new : items'[i] = ChapterRow(st, v)
    BY <1>12
  <2>2. v \in chapter /\ SameSlot(st.slug, st.section, Place[v].verse) = {}
    BY <1>15
  <2>3. items'[i] \in RowsOf(Release, st)
    BY <1>4, <2>1, <2>2
  <2>4. \A j \in DOMAIN items : Key(items[j]) # Key(items'[i])
    BY <1>13, <2>1, <2>2
  <2> QED BY <2>3, <2>4
<1>18. \A i, j \in DOMAIN items' \ DOMAIN items : Key(items'[i]) = Key(items'[j]) => i = j
  BY <1>12, <1>14, <1>15
<1>19. \A row \in RowsOf(Release, st) : \E i \in DOMAIN items' : Key(items'[i]) = Key(row)
  <2> SUFFICES ASSUME NEW v \in chapter
               PROVE  \E i \in DOMAIN items' : Key(items'[i]) = Key(ChapterRow(st, v))
    BY <1>4
  <2>1. CASE v \in new
    <3>1. IdOf(v) \in DOMAIN items' /\ items'[IdOf(v)] = ChapterRow(st, v)
      BY <1>2, <1>11, <2>1
    <3> QED BY <3>1
  <2>2. CASE v \notin new
    BY <1>2, <1>13, <1>16, <2>2
  <2> QED BY <2>1, <2>2
<1>20. Merges(Release, st)
  BY <1>2, <1>4, <1>17, <1>18, <1>19 DEF Merges
<1> QED BY <1>20 DEF st
-----------------------------------------------------------------------------
(* Convergence: the invariant of a seeding that crashes, is run again and  *)
(* gives way to later releases.                                            *)

\* A statement that is not about items leaves them alone.
LEMMA OtherMerges ==
  ASSUME CatalogOK, Running, Statement.op \notin ItemOps, items' = items
  PROVE  Merges(Release, Statement)
BY RowsOfKind DEF Merges

\* What a step is to course_items and the script.
Ran == Running /\ Advanced /\ seeded' = seeded /\ Merges(Release, Statement)
Passed ==
  /\ Running /\ script'.release = script.release /\ script'.at = script.at + 1
  /\ script'.cut = script.cut \cup {Statement.slug}
  /\ UNCHANGED <<items, seeded>>
  /\ Statement.op = "section" \/ Statement.op = "chapter"
Ended ==
  /\ script'.release = script.release /\ script'.at = 0 /\ seeded' = seeded
  /\ items' = items \/ DOMAIN items' = {}
Begun ==
  /\ script'.release \in Releases /\ script'.at = 1
  /\ seeded' = seeded \cup {script'.release} /\ items' = items

\* Each statement runs.
LEMMA StatementRan ==
  ASSUME ItemsOK, CatalogOK, SeedStatement
  PROVE  Ran
<1>1. /\ "course" \notin ItemOps /\ "section" \notin ItemOps /\ "commentary" \notin ItemOps
  BY DEF ItemOps
<1>2. CASE UpsertCourse \/ UpsertSection
  <2>1. Running /\ Statement.op \notin ItemOps /\ Advance /\ UNCHANGED <<items, seeded>>
    BY <1>1, <1>2 DEF UpsertCourse, UpsertSection, Executes
  <2> QED BY <2>1, OtherMerges, AdvanceAdvanced DEF Ran
<1>3. ASSUME NEW s, UpdateCommentary(s) PROVE Ran
  <2>1. Running /\ Statement.op \notin ItemOps /\ UNCHANGED <<items, seeded>>
    BY <1>1, <1>3 DEF UpdateCommentary, Executes
  <2>2. Advanced
    BY <1>3, CommentaryAdvanced
  <2> QED BY <2>1, <2>2, OtherMerges DEF Ran
<1>4. ASSUME InsertItem \/ InsertWarmupItem \/ InsertMessiahItem \/ InsertChapter
      PROVE  Running /\ Advanced /\ seeded' = seeded
  <2>1. Running /\ Advance /\ seeded' = seeded
    BY <1>4 DEF InsertItem, InsertWarmupItem, InsertMessiahItem, InsertChapter, Executes
  <2> QED BY <2>1, AdvanceAdvanced
<1>5. CASE InsertItem \/ InsertWarmupItem \/ InsertMessiahItem \/ InsertChapter
  BY <1>4, <1>5, InsertItemMerges, InsertWarmupItemMerges, InsertMessiahItemMerges,
     InsertChapterMerges DEF Ran
<1> QED BY <1>2, <1>3, <1>5 DEF SeedStatement

\* The kinds of steps.
LEMMA StepKinds ==
  ASSUME TablesOK, [Next]_vars
  PROVE  Ran \/ Passed \/ Ended \/ Begun \/ UNCHANGED <<items, script, seeded>>
<1>1. ItemsOK /\ CatalogOK
  BY DEF TablesOK, Inv
<1>2. script = [release |-> script.release, at |-> script.at, told |-> script.told, cut |-> script.cut]
  BY <1>1 DEF CatalogOK, ScriptOK, IsScript
<1>3. script' = [script EXCEPT !.at = 0] => script'.release = script.release /\ script'.at = 0
  BY <1>2
<1>4. CASE Seed
  <2>1. CASE SeedStatement
    BY <1>1, <2>1, StatementRan
  <2>2. CASE CrashSeed
    BY <1>3, <2>2 DEF CrashSeed, Ended
  <2>3. CASE \E r \in Releases : StartSeed(r)
    BY <2>3 DEF StartSeed, Begun
  <2>4. CASE PassChapter
    BY <1>1, <2>4, PassChapterScript DEF Passed
  <2> QED BY <1>4, <2>1, <2>2, <2>3, <2>4 DEF Seed
<1>5. CASE Reload
  BY <1>3, <1>5 DEF Reload, TruncateItems, Ended
<1>6. CASE UNCHANGED catalogVars
  BY <1>6 DEF catalogVars
<1>7. ASSUME NEW u \in Users,
             \/ \E i \in DOMAIN items : AddFavorite(u, i) \/ RemoveFavorite(u, i)
             \/ Prepares(u) \/ CommitAttempt(u)
             \/ GetLastAttempt(u) \/ GetNextUnclearedItem(u)
             \/ StartStats(u) \/ NextFigure(u)
             \/ StartProgress(u) \/ ListUserProgress(u)
             \/ Deliver(u)
      PROVE  UNCHANGED catalogVars
  BY <1>7, PreparesRead DEF CommitAttempt, AddFavorite, RemoveFavorite, GetLastAttempt, GetNextUnclearedItem,
     StartStats, NextFigure, StartProgress, ListUserProgress, Deliver, catalogVars
<1>8. CASE UNCHANGED vars
  BY <1>8 DEF vars
<1> QED BY <1>4, <1>5, <1>6, <1>7, <1>8 DEF Next, Prepares

\* A release that a script was started for is remembered; before the first one
\* there is nothing.
Started ==
  script.release \in seeded \/ (seeded = {} /\ script.at = 0 /\ DOMAIN items = {})

\* There is one row for each key.
Keyed == \A i, j \in DOMAIN items : Key(items[i]) = Key(items[j]) => i = j

\* A row in a section of a book is of the verse of its place.
Placed(row, b) ==
  row.course = b.slug /\ row.section # None =>
    Place[row.verse] = [book |-> b.num, chapter |-> row.section, verse |-> row.ord]
BookPlaces ==
  \A r \in Releases : \A b \in Range(Lists[r].books) : \A i \in DOMAIN items : Placed(items[i], b)

\* As long as one release is seeded, all that is there is what it lists.
ListedOnly ==
  seeded = {script.release} => \A i \in DOMAIN items : items[i] \in ListedItems(Release)

\* The row of an item is there; that of a warm-up slot has the listed verse.
Shown(row, op) ==
  \E i \in DOMAIN items :
    Key(items[i]) = Key(row) /\ (op = "warmup item" => items[i].verse = row.verse)

\* What the statements of the running script were to insert is there, but for
\* the books whose list of chapters broke off.
Present ==
  script.at \in 1..Len(Programs[script.release]) + 1 =>
    \A k \in 1..script.at - 1 : \A row \in RowsOf(Release, Programs[script.release][k]) :
      row.course \in script.cut \/ Shown(row, Programs[script.release][k].op)

SeededOK == Started /\ Keyed /\ BookPlaces /\ ListedOnly /\ Present

\* A statement of a running script is about what its release lists.
LEMMA RowListed ==
  ASSUME CatalogOK, Running, NEW row \in RowsOf(Release, Statement)
  PROVE  row \in ListedItems(Release)
<1>1. script.release \in Releases
  BY DEF CatalogOK, ScriptOK
<1> QED BY <1>1, ProgramRows DEF Running, Release, Statement

\* Merging keeps the key.
LEMMA MergedKey ==
  ASSUME NEW new, NEW old, NEW rel, NEW st, Merged(new, old, rel, st)
  PROVE  Key(new) = Key(old)
<1>1. PICK row \in RowsOf(rel, st) :
        /\ Key(row) = Key(old)
        /\ \/ new = row
           \/ new = ItemRow(old.course, old.section, old.ord, old.verse, old.topic, row.topicEn)
  BY DEF Merged
<1>2. Key(ItemRow(old.course, old.section, old.ord, old.verse, old.topic, row.topicEn)) = Key(old)
  BY KeyKept
<1> QED BY <1>1, <1>2, Zenon

\* Merging leaves one row for each key.
LEMMA RanKeyed == ASSUME Keyed, Ran PROVE Keyed'
<1>1. /\ \A i \in DOMAIN items : i \in DOMAIN items' /\ Key(items'[i]) = Key(items[i])
      /\ \A i \in DOMAIN items' \ DOMAIN items : \A j \in DOMAIN items : Key(items[j]) # Key(items'[i])
      /\ \A i, j \in DOMAIN items' \ DOMAIN items : Key(items'[i]) = Key(items'[j]) => i = j
  BY MergedKey DEF Ran, Merges
<1> QED BY <1>1 DEF Keyed

\* What a release lists in a section of a book is of the verse of its place.
LEMMA ListedPlaced ==
  ASSUME NEW r \in Releases, NEW s \in Releases, NEW b \in Range(Lists[s].books),
         NEW row \in ListedItems(Lists[r])
  PROVE  Placed(row, b)
<1> SUFFICES ASSUME row.course = b.slug, row.section # None
             PROVE  Place[row.verse] = [book |-> b.num, chapter |-> row.section, verse |-> row.ord]
  BY DEF Placed
<1> DEFINE rel == Lists[r]
<1>1. b.slug # "warmup" /\ b.slug # MessiahSlug
  BY KeysAssumption DEF KeysAssumption, MessiahSlug
<1>2. row \notin CourseItems(rel)
  BY CourseItem DEF ItemRow
<1>3. row \notin SlotItems(rel, "warmup", rel.warmup)
  BY <1>1, SlotItem DEF ItemRow
<1>4. row \notin SlotItems(rel, MessiahSlug, rel.messiah)
  BY <1>1, SlotItem DEF ItemRow
<1>5. row \in BookItems(rel)
  BY <1>2, <1>3, <1>4 DEF ListedItems
<1>6. PICK d \in Range(rel.books), v \in Verses :
        /\ Place[v].book = d.num
        /\ row = ItemRow(d.slug, Place[v].chapter, Place[v].verse, v, v, None)
  BY <1>5, BookItem
<1>7. d.slug = b.slug
  BY <1>6 DEF ItemRow
<1>8. d.num = b.num
  BY <1>7, KeysAssumption DEF KeysAssumption
<1>9. Place[v] \in [book : Nat, chapter : Nat, verse : Nat]
  BY CatalogAssumption DEF CatalogAssumption
<1>10. Place[v] = [book |-> b.num, chapter |-> Place[v].chapter, verse |-> Place[v].verse]
  BY <1>6, <1>8, <1>9
<1> QED BY <1>6, <1>10 DEF ItemRow

\* A statement puts what it lists in its place, and leaves the place of a row.
LEMMA RanPlaces == ASSUME CatalogOK, BookPlaces, Ran PROVE BookPlaces'
<1> SUFFICES ASSUME NEW r \in Releases, NEW b \in Range(Lists[r].books), NEW i \in DOMAIN items'
             PROVE  Placed(items'[i], b)
  BY DEF BookPlaces
<1>1. script.release \in Releases /\ Running
  BY DEF CatalogOK, ScriptOK, Ran
<1>2. \A row \in RowsOf(Release, Statement) : Placed(row, b)
  BY <1>1, RowListed, ListedPlaced DEF Release
<1>3. CASE i \notin DOMAIN items
  BY <1>2, <1>3 DEF Ran, Merges
<1>4. CASE i \in DOMAIN items
  <2>1. Placed(items[i], b)
    BY <1>4 DEF BookPlaces
  <2>2. items'[i] = items[i] \/ Merged(items'[i], items[i], Release, Statement)
    BY <1>4 DEF Ran, Merges
  <2>3. ASSUME NEW row, items'[i] = ItemRow(items[i].course, items[i].section, items[i].ord, items[i].verse,
                                            items[i].topic, row.topicEn)
        PROVE  Placed(items'[i], b)
    <3>1. /\ items'[i].course = items[i].course /\ items'[i].section = items[i].section
          /\ items'[i].ord = items[i].ord /\ items'[i].verse = items[i].verse
      BY <2>3 DEF ItemRow
    <3> QED BY <2>1, <3>1 DEF Placed
  <2> QED BY <1>2, <2>1, <2>2, <2>3 DEF Merged
<1> QED BY <1>3, <1>4

\* An item row is made up of its columns.
LEMMA RowIsItem ==
  ASSUME NEW row, NEW slugs, NEW keys, RowOK(row, slugs, keys)
  PROVE  row = ItemRow(row.course, row.section, row.ord, row.verse, row.topic, row.topicEn)
BY DEF RowOK, ItemRow

\* A statement leaves a listed row as it is.
LEMMA ListedStays ==
  ASSUME CatalogOK, Running, NEW i \in DOMAIN items, items[i] \in ListedItems(Release),
         NEW new, Merged(new, items[i], Release, Statement)
  PROVE  new = items[i]
<1>1. PICK row \in RowsOf(Release, Statement) :
        /\ Key(row) = Key(items[i])
        /\ \/ new = row
           \/ new = ItemRow(items[i].course, items[i].section, items[i].ord, items[i].verse,
                            items[i].topic, row.topicEn)
  BY DEF Merged
<1>2. script.release \in Releases
  BY DEF CatalogOK, ScriptOK
<1>3. row = items[i]
  BY <1>1, <1>2, RowListed, ListedKeyed DEF Release
<1>4. items[i] = ItemRow(items[i].course, items[i].section, items[i].ord, items[i].verse,
                         items[i].topic, items[i].topicEn)
  BY RowIsItem DEF CatalogOK
<1> QED BY <1>1, <1>3, <1>4, Zenon

\* While one release is seeded, nothing comes in that it does not list.
LEMMA RanListedOnly == ASSUME CatalogOK, ListedOnly, Ran PROVE ListedOnly'
<1>1. Release' = Release /\ seeded' = seeded /\ script'.release = script.release /\ Running
  BY DEF Ran, Advanced, Release
<1> SUFFICES ASSUME seeded = {script.release}, NEW i \in DOMAIN items'
             PROVE  items'[i] \in ListedItems(Release)
  BY <1>1 DEF ListedOnly
<1>2. CASE i \notin DOMAIN items
  BY <1>1, <1>2, RowListed DEF Ran, Merges
<1>3. CASE i \in DOMAIN items
  <2>1. items[i] \in ListedItems(Release)
    BY <1>3 DEF ListedOnly
  <2>2. items'[i] = items[i] \/ Merged(items'[i], items[i], Release, Statement)
    BY <1>3 DEF Ran, Merges
  <2>3. items'[i] = items[i]
    BY <1>1, <1>3, <2>1, <2>2, ListedStays
  <2> QED BY <2>1, <2>3
<1> QED BY <1>2, <1>3

\* What was shown stays shown: a later statement with the same key has the
\* same row.
LEMMA ShownStays ==
  ASSUME CatalogOK, Ran, NEW row \in ListedItems(Release), NEW op, Shown(row, op)
  PROVE  Shown(row, op)'
<1>1. PICK i \in DOMAIN items :
        Key(items[i]) = Key(row) /\ (op = "warmup item" => items[i].verse = row.verse)
  BY DEF Shown
<1>2. i \in DOMAIN items' /\ (items'[i] = items[i] \/ Merged(items'[i], items[i], Release, Statement))
  BY DEF Ran, Merges
<1>3. script.release \in Releases /\ Running
  BY DEF CatalogOK, ScriptOK, Ran
<1>4. CASE items'[i] = items[i]
  BY <1>1, <1>2, <1>4 DEF Shown
<1>5. CASE Merged(items'[i], items[i], Release, Statement)
  <2>1. Key(items'[i]) = Key(row)
    BY <1>1, <1>5, MergedKey
  <2>2. PICK other \in RowsOf(Release, Statement) :
          /\ Key(other) = Key(items[i])
          /\ \/ items'[i] = other
             \/ items'[i] = ItemRow(items[i].course, items[i].section, items[i].ord, items[i].verse,
                                    items[i].topic, other.topicEn)
    BY <1>5 DEF Merged
  <2>3. other = row
    BY <1>1, <1>3, <2>2, RowListed, ListedKeyed DEF Release
  <2>4. items'[i].verse = row.verse \/ items'[i].verse = items[i].verse
    BY <2>2, <2>3 DEF ItemRow
  <2> QED BY <1>1, <1>2, <2>1, <2>4 DEF Shown
<1> QED BY <1>2, <1>4, <1>5

\* A statement leaves its rows, and those of the statements before it.
LEMMA RanPresent == ASSUME CatalogOK, Present, Ran PROVE Present'
<1>0. PICK p : p = Programs[script.release]
  OBVIOUS
<1>1. Running /\ script.release \in Releases /\ script.at \in Nat
  BY DEF CatalogOK, ScriptOK, Ran
<1>2. /\ script'.release = script.release /\ script'.at = script.at + 1 /\ Release' = Release
      /\ script'.cut = script.cut
  BY DEF Ran, Advanced, Release
<1>3. p \in Seq(Statements)
  BY <1>0, <1>1, ProgramSequel DEF Sequels
<1>4. Len(p) \in Nat /\ script.at \in 1..Len(p) /\ DOMAIN p = 1..Len(p)
  BY <1>0, <1>1, <1>3, LenProperties DEF Running
<1>5. \A k \in 1..script.at - 1 : \A row \in RowsOf(Release, p[k]) :
        row.course \in script.cut \/ Shown(row, p[k].op)
  <2>1. script.at \in 1..Len(p) + 1
    BY <1>4
  <2> QED BY <1>0, <2>1 DEF Present
<1>6. \A k \in DOMAIN p : \A row \in RowsOf(Release, p[k]) : row \in ListedItems(Release)
  BY <1>0, <1>1, ProgramRows DEF Release
<1>7. Statement = p[script.at]
  BY <1>0 DEF Statement
<1>8. ASSUME NEW k \in 1..script.at, NEW row \in RowsOf(Release, p[k]), row.course \notin script.cut
      PROVE  Shown(row, p[k].op)'
  <2>1. CASE k = script.at
    <3>1. row \in RowsOf(Release, Statement)
      BY <1>7, <1>8, <2>1
    <3>2. PICK i \in DOMAIN items' :
            Key(items'[i]) = Key(row) /\ (Statement.op = "warmup item" => items'[i] = row)
      BY <3>1 DEF Ran, Merges
    <3>3. \E j \in DOMAIN items' :
            Key(items'[j]) = Key(row) /\ (p[k].op = "warmup item" => items'[j].verse = row.verse)
      BY <1>7, <2>1, <3>2
    <3> QED BY <3>3 DEF Shown
  <2>2. CASE k # script.at
    <3>1. k \in 1..script.at - 1 /\ k \in DOMAIN p
      BY <1>1, <1>4, <2>2
    <3>2. Shown(row, p[k].op) /\ row \in ListedItems(Release)
      BY <1>5, <1>6, <1>8, <3>1
    <3> QED BY <3>2, ShownStays
  <2> QED BY <2>1, <2>2
<1>9. script'.at - 1 = script.at
  BY <1>1, <1>2
<1> QED BY <1>0, <1>2, <1>8, <1>9 DEF Present

\* What is passed over is of a book whose list of chapters broke off.
LEMMA PassedPresent == ASSUME CatalogOK, Present, Passed PROVE Present'
<1>0. PICK p, cut : p = Programs[script.release] /\ cut = script.cut
  OBVIOUS
<1>1. Running /\ script.release \in Releases /\ script.at \in Nat
  BY DEF CatalogOK, ScriptOK, Passed
<1>2. /\ script'.release = script.release /\ script'.at = script.at + 1 /\ Release' = Release
      /\ script'.cut = cut \cup {Statement.slug} /\ items' = items
  BY <1>0 DEF Passed, Release
<1>3. p \in Seq(Statements)
  BY <1>0, <1>1, ProgramSequel DEF Sequels
<1>4. Len(p) \in Nat /\ script.at \in 1..Len(p)
  BY <1>0, <1>1, <1>3, LenProperties DEF Running
<1>5. \A k \in 1..script.at - 1 : \A row \in RowsOf(Release, p[k]) :
        row.course \in cut \/ Shown(row, p[k].op)
  <2>1. script.at \in 1..Len(p) + 1
    BY <1>4
  <2> QED BY <1>0, <2>1 DEF Present
<1>6. \A row \in RowsOf(Release, Statement) : row.course = Statement.slug
  <2>1. CASE Statement.op = "section"
    <3>1. Statement.op \notin ItemOps
      BY <2>1 DEF ItemOps
    <3>2. RowsOf(Release, Statement) = {}
      BY <3>1, RowsOfKind
    <3> QED BY <3>2
  <2>2. CASE Statement.op = "chapter"
    <3>1. RowsOf(Release, Statement)
            = {ItemRow(Statement.slug, Statement.section, Place[v].verse, v, v, None) :
                 v \in VersesIn(Statement.num, Statement.section)}
      BY <2>2, RowsOfKind
    <3> QED BY <3>1 DEF ItemRow
  <2> QED BY <2>1, <2>2 DEF Passed
<1>7. Statement = p[script.at]
  BY <1>0 DEF Statement
<1>8. ASSUME NEW k \in 1..script.at, NEW row \in RowsOf(Release, p[k]),
             row.course \notin cut \cup {Statement.slug}
      PROVE  Shown(row, p[k].op)'
  <2>1. k # script.at
    BY <1>6, <1>7, <1>8
  <2>2. k \in 1..script.at - 1
    BY <1>1, <1>4, <2>1
  <2>3. Shown(row, p[k].op)
    BY <1>5, <1>8, <2>2
  <2> QED BY <1>2, <2>3 DEF Shown
<1>9. script'.at - 1 = script.at
  BY <1>1, <1>2
<1> QED BY <1>0, <1>2, <1>8, <1>9 DEF Present

\* Nothing is seeded at first.
LEMMA InitSeededOK == Init => SeededOK
<1> SUFFICES ASSUME Init PROVE SeededOK
  OBVIOUS
<1>1. script.at = 0 /\ seeded = {} /\ DOMAIN items = {}
  BY DEF Init, CatalogInit
<1> QED BY <1>1 DEF SeededOK, Started, Keyed, BookPlaces, ListedOnly, Present

\* Every step keeps what is said of the seeding.
LEMMA NextSeededOK == ASSUME TablesOK, SeededOK, [Next]_vars PROVE SeededOK'
<1>1. CatalogOK /\ Started /\ Keyed /\ BookPlaces /\ ListedOnly /\ Present
  BY DEF TablesOK, SeededOK
<1>0. Running => script.at # 0
  <2>1. script.release \in Releases
    BY <1>1 DEF CatalogOK, ScriptOK
  <2>2. Programs[script.release] \in Seq(Statements)
    BY <2>1, ProgramSequel DEF Sequels
  <2> QED BY <2>2, LenProperties DEF Running
<1>2. CASE Ran
  <2>1. script'.release \in seeded'
    BY <1>0, <1>1, <1>2 DEF Ran, Advanced, Started
  <2> QED BY <1>1, <1>2, <2>1, RanKeyed, RanPlaces, RanListedOnly, RanPresent DEF SeededOK, Started
<1>3. CASE Ended
  <2>1. \A i \in DOMAIN items' : i \in DOMAIN items /\ items'[i] = items[i]
    BY <1>3 DEF Ended
  <2>2. script'.release = script.release /\ script'.at = 0 /\ seeded' = seeded
    BY <1>3 DEF Ended
  <2>3. Started' /\ Keyed'
    BY <1>1, <2>1, <2>2 DEF Started, Keyed
  <2>4. BookPlaces'
    BY <1>1, <2>1 DEF BookPlaces
  <2>5. ListedOnly'
    BY <1>1, <2>1, <2>2 DEF ListedOnly, Release
  <2>6. Present'
    BY <2>2 DEF Present
  <2> QED BY <2>3, <2>4, <2>5, <2>6 DEF SeededOK
<1>4. CASE Begun
  <2>1. items' = items /\ script'.at = 1 /\ seeded' = seeded \cup {script'.release}
    BY <1>4 DEF Begun
  <2>2. Started' /\ Keyed'
    BY <1>1, <2>1 DEF Started, Keyed
  <2>3. BookPlaces'
    BY <1>1, <2>1 DEF BookPlaces
  <2>4. ListedOnly'
    <3> SUFFICES ASSUME seeded' = {script'.release}, NEW i \in DOMAIN items
                 PROVE  items[i] \in ListedItems(Release')
      BY <2>1 DEF ListedOnly
    <3>1. script.release \in seeded
      BY <1>1 DEF Started
    <3>2. script'.release = script.release /\ seeded = {script.release}
      BY <2>1, <3>1
    <3> QED BY <1>1, <3>2 DEF ListedOnly, Release
  <2>5. Present'
    <3>1. 1..script'.at - 1 = {}
      BY <2>1
    <3> QED BY <3>1 DEF Present
  <2> QED BY <2>2, <2>3, <2>4, <2>5 DEF SeededOK
<1>5. CASE UNCHANGED <<items, script, seeded>>
  <2>1. Started' /\ Keyed' /\ BookPlaces'
    BY <1>1, <1>5 DEF Started, Keyed, BookPlaces
  <2>2. ListedOnly'
    BY <1>1, <1>5 DEF ListedOnly, Release
  <2>3. Present'
    <3>1. ASSUME NEW row, NEW op, Shown(row, op) PROVE Shown(row, op)'
      BY <1>5, <3>1 DEF Shown
    <3>2. script' = script /\ Release' = Release
      BY <1>5 DEF Release
    <3>3. PICK p, n, rel, cut : /\ p = Programs[script.release] /\ n = script.at
                                /\ rel = Release /\ cut = script.cut
      OBVIOUS
    <3>4. n \in 1..Len(p) + 1 => \A k \in 1..n - 1 : \A row \in RowsOf(rel, p[k]) :
            row.course \in cut \/ Shown(row, p[k].op)
      BY <1>1, <3>3 DEF Present
    <3>5. n \in 1..Len(p) + 1 => \A k \in 1..n - 1 : \A row \in RowsOf(rel, p[k]) :
            row.course \in cut \/ Shown(row, p[k].op)'
      BY <3>1, <3>4
    <3> QED BY <3>2, <3>3, <3>5 DEF Present
  <2> QED BY <2>1, <2>2, <2>3 DEF SeededOK
<1>6. CASE Passed
  <2>1. /\ items' = items /\ seeded' = seeded /\ script'.release = script.release
        /\ script.at # 0
    BY <1>0, <1>6 DEF Passed
  <2>2. Started' /\ Keyed' /\ BookPlaces'
    BY <1>1, <2>1 DEF Started, Keyed, BookPlaces
  <2>3. ListedOnly'
    BY <1>1, <2>1 DEF ListedOnly, Release
  <2> QED BY <1>1, <1>6, <2>2, <2>3, PassedPresent DEF SeededOK
<1> QED BY <1>2, <1>3, <1>4, <1>5, <1>6, StepKinds

\* Rows that differ have different ids: there are as many as ids.
LEMMA RowsCounted ==
  ASSUME IsFiniteSet(DOMAIN items), Keyed
  PROVE  Cardinality(DOMAIN items) = Cardinality({items[i] : i \in DOMAIN items})
<1> DEFINE ids == DOMAIN items
           rows == {items[i] : i \in DOMAIN items}
           row == [i \in ids |-> items[i]]
<1>1. row \in [ids -> rows] /\ \A x \in rows : \E i \in ids : row[i] = x
  OBVIOUS
<1>2. \A i, j \in ids : row[i] = row[j] => i = j
  BY DEF Keyed
<1> HIDE DEF row, ids, rows
<1>3. row \in Surjection(ids, rows) /\ row \in Injection(ids, rows)
  BY <1>1, <1>2 DEF Surjection, Injection, IsInjective
<1>4. IsFiniteSet(ids)
  BY DEF ids
<1>5. Cardinality(rows) = Cardinality(ids)
  BY <1>3, <1>4, FS_Surjection
<1> QED BY <1>5 DEF ids, rows

\* Of a finished run every listed item is shown, but for the books whose list
\* of chapters broke off.
LEMMA FinishedShown ==
  ASSUME CatalogOK, Present, Finished, NEW row \in ListedItems(Release), row.course \notin script.cut
  PROVE  /\ \E i \in DOMAIN items : Key(items[i]) = Key(row)
         /\ row \in SlotItems(Release, "warmup", Release.warmup) =>
              \E i \in DOMAIN items : Key(items[i]) = Key(row) /\ items[i].verse = row.verse
<1>0. PICK p : p = Programs[script.release]
  OBVIOUS
<1>1. script.release \in Releases
  BY DEF CatalogOK, ScriptOK
<1>2. p \in Seq(Statements)
  BY <1>0, <1>1, ProgramSequel DEF Sequels
<1>3. Len(p) \in Nat /\ DOMAIN p = 1..Len(p) /\ script.at = Len(p) + 1
  BY <1>0, <1>2, LenProperties DEF Finished
<1>4. PICK k \in DOMAIN p :
        /\ row \in RowsOf(Release, p[k])
        /\ row \in SlotItems(Release, "warmup", Release.warmup) => p[k].op = "warmup item"
  BY <1>0, <1>1, ProgramRows DEF Release
<1>5. script.at \in 1..Len(p) + 1 /\ k \in 1..script.at - 1
  BY <1>3
<1>6. Shown(row, p[k].op)
  BY <1>0, <1>4, <1>5 DEF Present
<1> QED BY <1>4, <1>6 DEF Shown

\* What a finished run has left.
LEMMA FinishedConverges == ASSUME TablesOK, SeededOK PROVE SeedConverges
<1> SUFFICES ASSUME Finished PROVE SeedConverges
  BY DEF SeedConverges
<1>1. /\ CatalogOK /\ Keyed /\ BookPlaces /\ ListedOnly /\ Present
      /\ script.release \in Releases
  BY DEF TablesOK, SeededOK, CatalogOK, ScriptOK
<1>2. IsFiniteSet(DOMAIN items)
  BY ItemsFinite DEF TablesOK
<1> DEFINE rows == {items[i] : i \in DOMAIN items}
           listed == ListedItems(Release)
           due == {row \in listed : row.course \notin script.cut}
<1>3. Cardinality(DOMAIN items) = Cardinality(rows)
  BY <1>1, <1>2, RowsCounted
<1>4. ASSUME seeded = {script.release}
      PROVE  due \subseteq rows /\ rows \subseteq listed
  <2>1. \A i \in DOMAIN items : items[i] \in listed
    BY <1>1, <1>4 DEF ListedOnly
  <2>2. ASSUME NEW row \in due PROVE row \in rows
    <3>1. PICK i \in DOMAIN items : Key(items[i]) = Key(row)
      BY <1>1, FinishedShown
    <3>2. items[i] = row
      BY <1>1, <2>1, <3>1, ListedKeyed DEF Release
    <3> QED BY <3>2
  <2> QED BY <2>1, <2>2
<1>5. ASSUME NEW row \in due, row.course # MessiahSlug
      PROVE  \E i \in DOMAIN items :
               /\ items[i].course = row.course /\ items[i].verse = row.verse
               /\ items[i].section = row.section
               /\ items[i].section # None => items[i].ord = row.ord
  <2>1. PICK i \in DOMAIN items : Key(items[i]) = Key(row)
    BY <1>1, FinishedShown
  <2>2. \A j \in DOMAIN items : Key(items[j]) = Key(row) =>
          /\ items[j].course = row.course /\ items[j].section = row.section
          /\ row.section = None => items[j].verse = row.verse
          /\ row.section # None => items[j].ord = row.ord
    BY DEF Key
  <2>3. CASE row.section = None
    BY <2>1, <2>2, <2>3
  <2>4. CASE row \in SlotItems(Release, "warmup", Release.warmup)
    BY <1>1, <2>2, <2>4, FinishedShown
  <2>5. CASE row.section # None /\ row \in BookItems(Release)
    <3>1. PICK b \in Range(Release.books), v \in Verses :
            /\ Place[v].book = b.num
            /\ row = ItemRow(b.slug, Place[v].chapter, Place[v].verse, v, v, None)
      BY <2>5, BookItem
    <3>2. row.course = b.slug /\ row.verse \in Verses
      BY <3>1 DEF ItemRow
    <3>3. Placed(row, b)
      BY <1>1, ListedPlaced DEF Release
    <3>4. Placed(items[i], b)
      BY <1>1 DEF BookPlaces, Release
    <3>5. Place[items[i].verse] = Place[row.verse]
      BY <2>1, <2>2, <2>5, <3>2, <3>3, <3>4 DEF Placed
    <3>6. items[i].verse \in Verses
      BY <1>1 DEF CatalogOK, RowOK
    <3>7. items[i].verse = row.verse
      BY <3>2, <3>5, <3>6, KeysAssumption DEF KeysAssumption
    <3> QED BY <2>1, <2>2, <2>5, <3>7
  <2>6. row \in CourseItems(Release) => row.section = None
    BY CourseItem DEF ItemRow
  <2>7. row \in SlotItems(Release, MessiahSlug, Release.messiah) => row.course = MessiahSlug
    BY SlotItem DEF ItemRow
  <2> QED BY <1>5, <2>3, <2>4, <2>5, <2>6, <2>7 DEF ListedItems
<1>6. \A row \in due : row.course # MessiahSlug =>
        \E old \in rows : /\ old.course = row.course /\ old.verse = row.verse
                          /\ old.section = row.section
                          /\ old.section # None => old.ord = row.ord
  BY <1>5
<1> QED BY <1>3, <1>4, <1>6 DEF SeedConverges

\* A seeding run that reaches its end leaves each listed item once, whatever
\* crashed runs, reloads and earlier releases came before (seed_courses), in
\* every course but the books whose list of chapters broke off in that run.
THEOREM LearningSeedConverges == Spec => []SeedConverges
<1>1. Init => TablesOK /\ SeededOK
  BY InitTablesOK, InitSeededOK
<1>2. TablesOK /\ SeededOK /\ [Next]_vars => TablesOK' /\ SeededOK'
  BY NextTablesOK, NextSeededOK
<1>3. TablesOK /\ SeededOK => SeedConverges
  BY FinishedConverges
<1> QED BY <1>1, <1>2, <1>3, PTL DEF Spec
-----------------------------------------------------------------------------
(* concat_ws: what the digest of the catalogue tells of the fields of a row.*)

\* A field as concat_ws takes it.
Given(field) == IF field = None THEN <<>> ELSE <<field>>

\* Two sequences with parts of the same lengths are the same in each part.
LEMMA PartsEqual ==
  ASSUME NEW T, NEW p \in Seq(T), NEW q \in Seq(T), NEW r \in Seq(T), NEW s \in Seq(T),
         p \o r = q \o s, Len(p) = Len(q)
  PROVE  p = q /\ r = s
<1>1. /\ Len(p) \in Nat /\ Len(q) \in Nat /\ Len(r) \in Nat /\ Len(s) \in Nat
  BY LenProperties
<1>2. PICK w : w = p \o r /\ w = q \o s
  OBVIOUS
<1>3. /\ Len(w) = Len(p) + Len(r)
      /\ \A k \in 1..Len(p) + Len(r) : w[k] = IF k <= Len(p) THEN p[k] ELSE r[k - Len(p)]
  <2>1. /\ Len(p \o r) = Len(p) + Len(r)
        /\ \A k \in 1..Len(p) + Len(r) :
             (p \o r)[k] = IF k <= Len(p) THEN p[k] ELSE r[k - Len(p)]
    BY ConcatProperties
  <2> QED BY <1>2, <2>1
<1>4. /\ Len(w) = Len(q) + Len(s)
      /\ \A k \in 1..Len(q) + Len(s) : w[k] = IF k <= Len(q) THEN q[k] ELSE s[k - Len(q)]
  <2>1. /\ Len(q \o s) = Len(q) + Len(s)
        /\ \A k \in 1..Len(q) + Len(s) :
             (q \o s)[k] = IF k <= Len(q) THEN q[k] ELSE s[k - Len(q)]
    BY ConcatProperties
  <2> QED BY <1>2, <2>1
<1>5. PICK m \in Nat : m = Len(p) /\ m = Len(q)
  BY <1>1
<1>6. Len(r) = Len(s)
  BY <1>1, <1>3, <1>4
<1>7. \A k \in 1..m : p[k] = q[k]
  BY <1>1, <1>3, <1>4, <1>5
<1>8. ASSUME NEW k \in 1..Len(r) PROVE r[k] = s[k]
  <2>1. m + k \in 1..m + Len(r) /\ ~ (m + k <= m) /\ (m + k) - m = k
    BY <1>1, <1>5
  <2>2. w[m + k] = r[k]
    BY <1>3, <1>5, <2>1
  <2>3. w[m + k] = s[k]
    BY <1>4, <1>5, <1>6, <2>1
  <2> QED BY <2>2, <2>3
<1>9. p = q
  BY <1>5, <1>7, SeqEqual
<1>10. r = s
  BY <1>6, <1>8, SeqEqual
<1> QED BY <1>9, <1>10

\* What a field adds.
LEMMA GivenSeq ==
  ASSUME NEW T, NEW field \in T
  PROVE  /\ Given(field) \in Seq(T)
         /\ field = None => Given(field) = <<>> /\ Len(Given(field)) = 0
         /\ field # None => Given(field) = <<field>> /\ Len(Given(field)) = 1
<1>1. <<>> \in Seq(T) /\ Len(<<>>) = 0
  BY EmptySeq
<1>2. <<field>> \in Seq(T) /\ Len(<<field>>) = 1
  OBVIOUS
<1> QED BY <1>1, <1>2 DEF Given

\* concat_ws, field by field.
Builds(f, n, T, fields) ==
  /\ f \in [0..n -> Seq(T)]
  /\ f[0] = <<>>
  /\ \A k \in 1..n : f[k] = f[k - 1] \o Given(fields[k])
  /\ ConcatWs(fields) = f[n]

\* concat_ws is built so, and gives a sequence.
LEMMA WsUnfolds ==
  ASSUME NEW T, NEW n \in Nat, NEW fields \in Seq(T), Len(fields) = n
  PROVE  \E f : Builds(f, n, T, fields)
<1> DEFINE seqs == [k \in DOMAIN fields |-> Given(fields[k])]
<1>1. DOMAIN fields = 1..n /\ \A k \in 1..n : fields[k] \in T
  BY LenProperties, ElementOfSeq
<1>2. \A k \in 1..n : Given(fields[k]) \in Seq(T)
  BY <1>1, GivenSeq
<1>3. seqs \in [1..n -> Seq(T)] /\ \A k \in 1..n : seqs[k] = Given(fields[k])
  BY <1>1, <1>2
<1>4. ConcatWs(fields) = FlattenSeq(seqs)
  BY DEF ConcatWs, Given
<1> HIDE DEF seqs
<1>5. seqs \in Seq(Seq(T)) /\ Len(seqs) = n
  BY <1>3, SequenceOf
<1>6. PICK f \in [0..Len(seqs) -> Seq(T)] :
        /\ f[0] = <<>>
        /\ \A k \in 1..Len(seqs) : f[k] = f[k - 1] \o seqs[k]
        /\ FlattenSeq(seqs) = f[Len(seqs)]
  BY <1>5, FlattenUnfolds
<1>7. Builds(f, n, T, fields)
  BY <1>3, <1>4, <1>5, <1>6 DEF Builds
<1> QED BY <1>7

\* What one more field makes of a sequence.
Extends(p, q, field) ==
  /\ Len(p) \in Nat /\ Len(q) \in Nat
  /\ Len(q) = Len(p) + Len(Given(field))
  /\ \A k \in 1..Len(p) : q[k] = p[k]
  /\ field # None => Len(q) = Len(p) + 1 /\ q[Len(p) + 1] = field

\* One more field.
LEMMA GivenAfter ==
  ASSUME NEW T, NEW p \in Seq(T), NEW field \in T
  PROVE  Extends(p, p \o Given(field), field)
<1>1. /\ Given(field) \in Seq(T) /\ Len(Given(field)) \in {0, 1}
      /\ field # None => Len(Given(field)) = 1 /\ Given(field)[1] = field
  BY GivenSeq
<1> DEFINE w == Given(field)
           q == p \o w
<1> HIDE DEF w
<1>2. Len(p) \in Nat /\ Len(w) \in Nat
  BY <1>1, LenProperties DEF w
<1>3. /\ Len(q) = Len(p) + Len(w)
      /\ \A k \in 1..Len(p) + Len(w) : q[k] = IF k <= Len(p) THEN p[k] ELSE w[k - Len(p)]
  BY <1>1, ConcatProperties DEF w
<1> HIDE DEF q
<1>4. \A k \in 1..Len(p) : q[k] = p[k]
  BY <1>2, <1>3
<1>5. ASSUME field # None PROVE Len(q) = Len(p) + 1 /\ q[Len(p) + 1] = field
  <2>1. Len(w) = 1 /\ w[1] = field
    BY <1>1, <1>5 DEF w
  <2>2. q[Len(p) + 1] = w[(Len(p) + 1) - Len(p)]
    BY <1>2, <1>3, <2>1
  <2>3. (Len(p) + 1) - Len(p) = 1
    BY <1>2
  <2> QED BY <1>3, <2>1, <2>2, <2>3
<1>6. Extends(p, q, field)
  BY <1>2, <1>3, <1>4, <1>5 DEF Extends, w
<1> QED BY <1>6 DEF q, w

\* The first two fields, if they are there, are the first two of the result.
LEMMA WsHead ==
  ASSUME NEW T, NEW n \in Nat, NEW fields \in Seq(T), Len(fields) = n, 2 <= n,
         fields[1] # None, fields[2] # None
  PROVE  ConcatWs(fields)[1] = fields[1] /\ ConcatWs(fields)[2] = fields[2]
<1>1. PICK f : Builds(f, n, T, fields)
  BY WsUnfolds
<1>2. /\ f \in [0..n -> Seq(T)] /\ f[0] = <<>> /\ ConcatWs(fields) = f[n]
      /\ \A k \in 1..n : f[k] = f[k - 1] \o Given(fields[k])
  BY <1>1 DEF Builds
<1>3. \A k \in 1..n : fields[k] \in T
  BY ElementOfSeq
<1>4. ASSUME NEW k \in 1..n
      PROVE  Extends(f[k - 1], f[k], fields[k])
  <2>1. k - 1 \in 0..n
    OBVIOUS
  <2>2. f[k - 1] \in Seq(T)
    BY <1>2, <2>1
  <2>3. fields[k] \in T /\ f[k] = f[k - 1] \o Given(fields[k])
    BY <1>2, <1>3
  <2> QED BY <2>2, <2>3, GivenAfter
<1>5. Extends(f[0], f[1], fields[1]) /\ Extends(f[1], f[2], fields[2])
  <2>1. 1 \in 1..n /\ 2 \in 1..n /\ 1 - 1 = 0 /\ 2 - 1 = 1
    OBVIOUS
  <2> QED BY <1>4, <2>1
<1>6. Len(f[0]) = 0
  BY <1>2, EmptySeq
<1>7. Len(f[1]) = 1 /\ f[1][1] = fields[1]
  BY <1>5, <1>6 DEF Extends
<1>8. Len(f[2]) = 2 /\ f[2][1] = fields[1] /\ f[2][2] = fields[2]
  <2>1. PICK p, r, field : p = f[1] /\ r = f[2] /\ field = fields[2]
    OBVIOUS
  <2>2. Extends(p, r, field) /\ field # None /\ Len(p) = 1 /\ p[1] = fields[1]
    BY <1>5, <1>7, <2>1
  <2>3. Len(r) = 1 + 1 /\ r[1] = p[1] /\ r[1 + 1] = field
    BY <2>2 DEF Extends
  <2> QED BY <2>1, <2>2, <2>3
<1> DEFINE Starts(k) == 2 <= Len(f[k]) /\ f[k][1] = fields[1] /\ f[k][2] = fields[2]
           S == {k \in 0..n : 2 <= k => Starts(k)}
<1>9. 0 \in S
  OBVIOUS
<1>10. ASSUME NEW k \in 1..n, k - 1 \in S PROVE k \in S
  <2>1. CASE k = 1
    BY <2>1
  <2>2. CASE k = 2
    BY <1>8, <2>2
  <2>3. CASE 2 <= k - 1
    <3>1. Starts(k - 1)
      BY <1>10, <2>3
    <3>2. Extends(f[k - 1], f[k], fields[k])
      BY <1>4
    <3>3. Len(f[k - 1]) <= Len(f[k]) /\ f[k][1] = f[k - 1][1] /\ f[k][2] = f[k - 1][2]
      <4>1. fields[k] \in T
        BY <1>3
      <4>2. Len(Given(fields[k])) \in {0, 1}
        BY <4>1, GivenSeq
      <4> QED BY <3>1, <3>2, <4>2 DEF Extends
    <3>4. Starts(k)
      BY <3>1, <3>2, <3>3 DEF Extends
    <3> QED BY <3>4
  <2> QED BY <2>1, <2>2, <2>3
<1> HIDE DEF S
<1>11. 0..n \subseteq S
  BY <1>9, <1>10, IntervalInduction
<1>12. Starts(n)
  BY <1>11 DEF S
<1> QED BY <1>2, <1>12

\* A field is known by what it adds.
LEMMA GivenEqual ==
  ASSUME NEW T, NEW x \in T, NEW y \in T, Given(x) = Given(y)
  PROVE  x = y
<1>0. ASSUME NEW z \in T PROVE z = None <=> Len(Given(z)) = 0
  <2>1. CASE z = None
    <3>1. Len(Given(z)) = 0
      BY <2>1, GivenSeq
    <3> QED BY <2>1, <3>1
  <2>2. CASE z # None
    <3>1. Len(Given(z)) = 1
      BY <2>2, GivenSeq
    <3> QED BY <2>2, <3>1
  <2> QED BY <2>1, <2>2
<1>1. x = None <=> Len(Given(x)) = 0
  BY <1>0
<1>2. y = None <=> Len(Given(y)) = 0
  BY <1>0
<1>3. CASE x = None
  BY <1>1, <1>2, <1>3
<1>4. CASE x # None
  <2>1. y # None
    BY <1>1, <1>2, <1>4
  <2>2. <<x>> = <<y>>
    BY <1>4, <2>1 DEF Given
  <2> QED BY <2>2
<1> QED BY <1>3, <1>4

\* NULLs are at the same places, but for one place perhaps.
NullsAgree(n, x, y, q) == \A k \in 1..n : k # q => (x[k] = None <=> y[k] = None)

\* Which field it was can be told: two lists of fields whose NULLs are at the
\* same places, but for one place perhaps, give different results.
LEMMA WsDetermines ==
  ASSUME NEW T, NEW n \in Nat, NEW x \in Seq(T), NEW y \in Seq(T), Len(x) = n, Len(y) = n,
         NEW q \in 1..n, NullsAgree(n, x, y, q),
         ConcatWs(x) = ConcatWs(y)
  PROVE  \A k \in 1..n : x[k] = y[k]
<1>1. PICK f : Builds(f, n, T, x)
  BY WsUnfolds
<1>2. PICK g : Builds(g, n, T, y)
  BY WsUnfolds
<1>3. /\ f \in [0..n -> Seq(T)] /\ g \in [0..n -> Seq(T)] /\ f[0] = <<>> /\ g[0] = <<>>
      /\ \A k \in 1..n : f[k] = f[k - 1] \o Given(x[k]) /\ g[k] = g[k - 1] \o Given(y[k])
      /\ f[n] = g[n]
  BY <1>1, <1>2 DEF Builds
<1> DEFINE a(k) == Len(Given(x[k]))
           b(k) == Len(Given(y[k]))
<1>4. ASSUME NEW k \in 1..n
      PROVE  /\ k - 1 \in 0..n /\ f[k - 1] \in Seq(T) /\ g[k - 1] \in Seq(T)
             /\ Given(x[k]) \in Seq(T) /\ Given(y[k]) \in Seq(T)
             /\ a(k) \in Nat /\ b(k) \in Nat
             /\ Len(f[k]) = Len(f[k - 1]) + a(k) /\ Len(g[k]) = Len(g[k - 1]) + b(k)
  <2>1. k - 1 \in 0..n /\ x[k] \in T /\ y[k] \in T
    BY ElementOfSeq
  <2>2. f[k - 1] \in Seq(T) /\ g[k - 1] \in Seq(T)
    BY <1>3, <2>1
  <2>3. Given(x[k]) \in Seq(T) /\ Given(y[k]) \in Seq(T) /\ a(k) \in Nat /\ b(k) \in Nat
    BY <2>1, GivenSeq, LenProperties
  <2>4. Extends(f[k - 1], f[k], x[k]) /\ Extends(g[k - 1], g[k], y[k])
    BY <1>3, <2>1, <2>2, GivenAfter
  <2> QED BY <2>1, <2>2, <2>3, <2>4 DEF Extends
<1>5. \A k \in 0..n : Len(f[k]) \in Nat /\ Len(g[k]) \in Nat
  BY <1>3, LenProperties
<1>6. Len(f[0]) = 0 /\ Len(g[0]) = 0
  BY <1>3, EmptySeq
<1>7. ASSUME NEW k \in 1..n, x[k] = None <=> y[k] = None PROVE a(k) = b(k)
  <2>1. x[k] \in T /\ y[k] \in T
    BY ElementOfSeq
  <2> QED BY <1>7, <2>1, GivenSeq
<1> HIDE DEF a, b
<1> DEFINE Level(k) == (k < q => Len(f[k]) = Len(g[k])) /\ (q <= k => Len(f[k]) + b(q) = Len(g[k]) + a(q))
           S == {k \in 0..n : Level(k)}
<1>8. 0 \in S
  BY <1>6
<1>9. ASSUME NEW k \in 1..n, k - 1 \in S PROVE k \in S
  <2>1. /\ Len(f[k]) = Len(f[k - 1]) + a(k) /\ Len(g[k]) = Len(g[k - 1]) + b(k)
        /\ a(k) \in Nat /\ b(k) \in Nat /\ a(q) \in Nat /\ b(q) \in Nat
        /\ Len(f[k - 1]) \in Nat /\ Len(g[k - 1]) \in Nat
    BY <1>4, <1>5
  <2>2. k # q => a(k) = b(k)
    BY <1>7 DEF NullsAgree
  <2>3. Level(k - 1)
    BY <1>9
  <2>4. CASE k < q
    BY <2>1, <2>2, <2>3, <2>4
  <2>5. CASE k = q
    <3>1. Len(f[k - 1]) = Len(g[k - 1])
      BY <2>3, <2>5
    <3>2. Len(f[k]) + b(k) = Len(g[k]) + a(k)
      <4>1. PICK c, u, w : c = Len(f[k - 1]) /\ u = a(k) /\ w = b(k)
        OBVIOUS
      <4>2. c \in Nat /\ u \in Nat /\ w \in Nat /\ Len(g[k - 1]) = c
        BY <2>1, <3>1, <4>1
      <4>3. (c + u) + w = (c + w) + u
        BY <4>2
      <4> QED BY <2>1, <4>1, <4>2, <4>3
    <3> QED BY <2>5, <3>2
  <2>6. CASE q < k
    <3>1. Len(f[k - 1]) + b(q) = Len(g[k - 1]) + a(q)
      BY <2>3, <2>6
    <3>2. a(k) = b(k)
      BY <2>2, <2>6
    <3>3. Len(f[k]) = Len(f[k - 1]) + a(k) /\ Len(g[k]) = Len(g[k - 1]) + a(k)
      BY <2>1, <3>2
    <3>4. Len(f[k]) + b(q) = Len(g[k]) + a(q)
      <4>1. PICK c, d, m, u, w :
              c = Len(f[k - 1]) /\ d = Len(g[k - 1]) /\ m = a(k) /\ u = a(q) /\ w = b(q)
        OBVIOUS
      <4>2. c \in Nat /\ d \in Nat /\ m \in Nat /\ u \in Nat /\ w \in Nat /\ c + w = d + u
        BY <2>1, <3>1, <4>1
      <4>3. (c + m) + w = (d + m) + u
        BY <4>2
      <4> QED BY <3>3, <4>1, <4>3
    <3> QED BY <2>6, <3>4
  <2> QED BY <2>4, <2>5, <2>6
<1> HIDE DEF S
<1>10. \A k \in 0..n : Level(k)
  <2>1. 0..n \subseteq S
    BY <1>8, <1>9, IntervalInduction
  <2> QED BY <2>1 DEF S
<1>11. a(q) = b(q)
  <2>1. Len(f[n]) + b(q) = Len(g[n]) + a(q)
    BY <1>10
  <2>2. PICK m, u, w : m = Len(f[n]) /\ u = a(q) /\ w = b(q)
    OBVIOUS
  <2>3. m \in Nat /\ u \in Nat /\ w \in Nat
    BY <1>4, <1>5, <2>2
  <2>4. m + w = m + u
    BY <1>3, <2>1, <2>2
  <2>5. w = u
    BY <2>3, <2>4
  <2> QED BY <2>2, <2>5
<1>12. \A k \in 0..n : Len(f[k]) = Len(g[k])
  <2> SUFFICES ASSUME NEW k \in 0..n PROVE Len(f[k]) = Len(g[k])
    OBVIOUS
  <2>1. PICK c, d, u : c = Len(f[k]) /\ d = Len(g[k]) /\ u = a(q)
    OBVIOUS
  <2>2. c \in Nat /\ d \in Nat /\ u \in Nat
    BY <1>4, <1>5, <2>1
  <2>3. c + u = d + u
    BY <1>10, <1>11, <2>1
  <2>4. c = d
    BY <2>2, <2>3
  <2> QED BY <2>1, <2>4
<1> HIDE DEF Level
<1>13. ASSUME NEW k \in 1..n, f[k] = g[k]
       PROVE  f[k - 1] = g[k - 1] /\ x[k] = y[k]
  <2>1. f[k - 1] \o Given(x[k]) = g[k - 1] \o Given(y[k]) /\ Len(f[k - 1]) = Len(g[k - 1])
    BY <1>3, <1>4, <1>12, <1>13
  <2>2. f[k - 1] = g[k - 1] /\ Given(x[k]) = Given(y[k])
    <3>1. PICK p, r, u, w : p = f[k - 1] /\ r = Given(x[k]) /\ u = g[k - 1] /\ w = Given(y[k])
      OBVIOUS
    <3>2. /\ p \in Seq(T) /\ r \in Seq(T) /\ u \in Seq(T) /\ w \in Seq(T)
          /\ p \o r = u \o w /\ Len(p) = Len(u)
      BY <1>4, <2>1, <3>1
    <3>3. p = u /\ r = w
      BY <3>2, PartsEqual
    <3> QED BY <3>1, <3>3
  <2>3. x[k] \in T /\ y[k] \in T
    BY ElementOfSeq
  <2>4. x[k] = y[k]
    BY <2>2, <2>3, GivenEqual
  <2> QED BY <2>2, <2>4
<1> DEFINE R == {j \in 0..n : f[n - j] = g[n - j]}
<1>14. 0 \in R
  BY <1>3
<1>15. ASSUME NEW j \in 1..n, j - 1 \in R PROVE j \in R
  <2>1. n - (j - 1) \in 1..n /\ (n - (j - 1)) - 1 = n - j
    OBVIOUS
  <2>2. f[n - (j - 1)] = g[n - (j - 1)]
    BY <1>15
  <2>3. f[(n - (j - 1)) - 1] = g[(n - (j - 1)) - 1]
    BY <1>13, <2>1, <2>2
  <2> QED BY <2>1, <2>3
<1> HIDE DEF R
<1>16. ASSUME NEW k \in 1..n PROVE f[k] = g[k]
  <2>1. 0..n \subseteq R
    BY <1>14, <1>15, IntervalInduction
  <2>2. n - k \in R /\ n - (n - k) = k
    BY <2>1
  <2> QED BY <2>2 DEF R
<1> QED BY <1>13, <1>16

\* Two fields.
LEMMA WsTwo ==
  ASSUME NEW T, NEW a \in T, NEW b \in T
  PROVE  ConcatWs(<<a, b>>) = Given(a) \o Given(b)
<1> DEFINE x == <<a, b>>
<1>1. x \in Seq(T) /\ Len(x) = 2 /\ x[1] = a /\ x[2] = b
  OBVIOUS
<1> HIDE DEF x
<1>2. PICK f : Builds(f, 2, T, x)
  BY <1>1, WsUnfolds
<1>3. /\ f[0] = <<>> /\ ConcatWs(x) = f[2]
      /\ \A k \in 1..2 : f[k] = f[k - 1] \o Given(x[k])
  BY <1>2 DEF Builds
<1>4. 1 \in 1..2 /\ 2 \in 1..2 /\ 1 - 1 = 0 /\ 2 - 1 = 1
  OBVIOUS
<1>5. f[1] = f[0] \o Given(a) /\ f[2] = f[1] \o Given(b)
  BY <1>1, <1>3, <1>4
<1>6. <<>> \o Given(a) = Given(a)
  <2>1. Given(a) \in Seq(T)
    BY GivenSeq
  <2> QED BY <2>1, ConcatEmptySeq
<1>7. ConcatWs(x) = Given(a) \o Given(b)
  BY <1>3, <1>5, <1>6, Zenon
<1> QED BY <1>7 DEF x

\* One sequence after another.
Joins(p, a, x) == x = p \o a

\* Three sequences in a row, however they are grouped.
LEMMA Regroup ==
  ASSUME NEW T, NEW p \in Seq(T), NEW a \in Seq(T), NEW b \in Seq(T),
         NEW x, Joins(p, a, x), NEW v, Joins(x, b, v), NEW y, Joins(a, b, y), NEW w, Joins(p, y, w)
  PROVE  v = w
<1>1. x = p \o a /\ y = a \o b
  BY DEF Joins
<1>2. v = x \o b /\ w = p \o y
  BY DEF Joins
<1>3. /\ x \in Seq(T) /\ Len(x) = Len(p) + Len(a)
      /\ \A k \in 1..Len(p) + Len(a) : x[k] = IF k <= Len(p) THEN p[k] ELSE a[k - Len(p)]
  <2>1. /\ p \o a \in Seq(T) /\ Len(p \o a) = Len(p) + Len(a)
        /\ \A k \in 1..Len(p) + Len(a) : (p \o a)[k] = IF k <= Len(p) THEN p[k] ELSE a[k - Len(p)]
    BY ConcatProperties
  <2> QED BY <1>1, <2>1
<1>4. /\ y \in Seq(T) /\ Len(y) = Len(a) + Len(b)
      /\ \A k \in 1..Len(a) + Len(b) : y[k] = IF k <= Len(a) THEN a[k] ELSE b[k - Len(a)]
  <2>1. /\ a \o b \in Seq(T) /\ Len(a \o b) = Len(a) + Len(b)
        /\ \A k \in 1..Len(a) + Len(b) : (a \o b)[k] = IF k <= Len(a) THEN a[k] ELSE b[k - Len(a)]
    BY ConcatProperties
  <2> QED BY <1>1, <2>1
<1>5. /\ v \in Seq(T) /\ Len(v) = Len(x) + Len(b)
      /\ \A k \in 1..Len(x) + Len(b) : v[k] = IF k <= Len(x) THEN x[k] ELSE b[k - Len(x)]
  <2>1. /\ x \o b \in Seq(T) /\ Len(x \o b) = Len(x) + Len(b)
        /\ \A k \in 1..Len(x) + Len(b) : (x \o b)[k] = IF k <= Len(x) THEN x[k] ELSE b[k - Len(x)]
    <3>1. x \in Seq(T)
      BY <1>3
    <3> QED BY <3>1, ConcatProperties
  <2> QED BY <1>2, <2>1
<1>6. /\ w \in Seq(T) /\ Len(w) = Len(p) + Len(y)
      /\ \A k \in 1..Len(p) + Len(y) : w[k] = IF k <= Len(p) THEN p[k] ELSE y[k - Len(p)]
  <2>1. /\ p \o y \in Seq(T) /\ Len(p \o y) = Len(p) + Len(y)
        /\ \A k \in 1..Len(p) + Len(y) : (p \o y)[k] = IF k <= Len(p) THEN p[k] ELSE y[k - Len(p)]
    <3>1. y \in Seq(T)
      BY <1>4
    <3> QED BY <3>1, ConcatProperties
  <2> QED BY <1>2, <2>1
<1>7. PICK l, m, n : l = Len(p) /\ m = Len(a) /\ n = Len(b)
  OBVIOUS
<1>8. l \in Nat /\ m \in Nat /\ n \in Nat
  BY <1>7, LenProperties
<1>9. Len(x) = l + m /\ Len(y) = m + n /\ Len(v) = (l + m) + n /\ Len(w) = l + (m + n)
  BY <1>3, <1>4, <1>5, <1>6, <1>7
<1>10. Len(v) = Len(w)
  BY <1>8, <1>9
<1>11. ASSUME NEW k \in 1..Len(v) PROVE v[k] = w[k]
  <2>1. k \in Nat /\ 1 <= k /\ k <= (l + m) + n
    BY <1>8, <1>9
  <2>2. CASE k <= l
    <3>1. k \in 1..l + m /\ k \in 1..(l + m) + n /\ k \in 1..l + (m + n) /\ k <= l + m
      BY <1>8, <2>1, <2>2
    <3>2. v[k] = x[k] /\ x[k] = p[k] /\ w[k] = p[k]
      BY <1>3, <1>5, <1>6, <1>7, <1>9, <2>2, <3>1
    <3> QED BY <3>2
  <2>3. CASE ~ (k <= l) /\ k <= l + m
    <3>1. /\ k \in 1..l + m /\ k \in 1..(l + m) + n /\ k \in 1..l + (m + n)
          /\ k - l \in 1..m + n /\ k - l <= m
      BY <1>8, <2>1, <2>3
    <3>2. v[k] = x[k] /\ x[k] = a[k - l]
      BY <1>3, <1>5, <1>7, <1>9, <2>3, <3>1
    <3>3. w[k] = y[k - l] /\ y[k - l] = a[k - l]
      BY <1>4, <1>6, <1>7, <1>9, <2>3, <3>1
    <3> QED BY <3>2, <3>3
  <2>4. CASE ~ (k <= l) /\ ~ (k <= l + m)
    <3>1. /\ k \in 1..(l + m) + n /\ k \in 1..l + (m + n)
          /\ k - l \in 1..m + n /\ ~ (k - l <= m) /\ (k - l) - m = k - (l + m)
      BY <1>8, <2>1, <2>4
    <3>2. v[k] = b[k - (l + m)]
      BY <1>5, <1>7, <1>9, <2>4, <3>1
    <3>3. w[k] = y[k - l] /\ y[k - l] = b[(k - l) - m]
      BY <1>4, <1>6, <1>7, <1>9, <2>4, <3>1
    <3> QED BY <3>1, <3>2, <3>3
  <2> QED BY <2>2, <2>3, <2>4
<1> QED BY <1>5, <1>6, <1>10, <1>11, SeqEqual

\* What the last two fields give is known when the others are the same.
LEMMA WsTail ==
  ASSUME NEW T, NEW n \in Nat, 2 <= n, NEW x \in Seq(T), NEW y \in Seq(T), Len(x) = n, Len(y) = n,
         \A k \in 1..n - 2 : x[k] = y[k], ConcatWs(x) = ConcatWs(y)
  PROVE  ConcatWs(<<x[n - 1], x[n]>>) = ConcatWs(<<y[n - 1], y[n]>>)
<1>1. PICK f : Builds(f, n, T, x)
  BY WsUnfolds
<1>2. PICK g : Builds(g, n, T, y)
  BY WsUnfolds
<1>3. /\ f \in [0..n -> Seq(T)] /\ g \in [0..n -> Seq(T)] /\ f[0] = <<>> /\ g[0] = <<>>
      /\ \A k \in 1..n : f[k] = f[k - 1] \o Given(x[k]) /\ g[k] = g[k - 1] \o Given(y[k])
      /\ f[n] = g[n]
  BY <1>1, <1>2 DEF Builds
<1>4. n - 2 \in Nat /\ n - 2 \in 0..n /\ n - 1 \in 1..n /\ n \in 1..n /\ (n - 1) - 1 = n - 2
  OBVIOUS
<1> DEFINE S == {k \in 0..n - 2 : f[k] = g[k]}
<1>5. 0 \in S
  BY <1>3, <1>4
<1>6. ASSUME NEW k \in 1..n - 2, k - 1 \in S PROVE k \in S
  <2>1. k \in 1..n /\ k \in 0..n - 2 /\ f[k - 1] = g[k - 1]
    BY <1>6
  <2>2. f[k] = f[k - 1] \o Given(x[k]) /\ g[k] = g[k - 1] \o Given(y[k]) /\ x[k] = y[k]
    BY <1>3, <2>1
  <2>3. f[k] = g[k]
    BY <2>1, <2>2, Zenon
  <2> QED BY <2>1, <2>3
<1> HIDE DEF S
<1>7. n - 2 \in S
  <2>1. 0..n - 2 \subseteq S
    BY <1>4, <1>5, <1>6, IntervalInduction
  <2> QED BY <1>4, <2>1
<1>8. PICK p : p = f[n - 2] /\ p = g[n - 2]
  BY <1>7 DEF S
<1>9. PICK a, b, c, d : a = x[n - 1] /\ b = x[n] /\ c = y[n - 1] /\ d = y[n]
  OBVIOUS
<1>10. a \in T /\ b \in T /\ c \in T /\ d \in T /\ p \in Seq(T)
  BY <1>3, <1>4, <1>8, <1>9, ElementOfSeq
<1>11. f[n - 1] = p \o Given(a) /\ g[n - 1] = p \o Given(c)
  BY <1>3, <1>4, <1>8, <1>9
<1>12. f[n] = f[n - 1] \o Given(b) /\ g[n] = g[n - 1] \o Given(d)
  BY <1>3, <1>4, <1>9
<1>13. Given(a) \in Seq(T) /\ Given(b) \in Seq(T) /\ Given(c) \in Seq(T) /\ Given(d) \in Seq(T)
  BY <1>10, GivenSeq
<1>14. PICK ga, gb, gc, gd : ga = Given(a) /\ gb = Given(b) /\ gc = Given(c) /\ gd = Given(d)
  OBVIOUS
<1>15. PICK v, z : v = f[n - 1] /\ z = g[n - 1]
  OBVIOUS
<1>16. ga \in Seq(T) /\ gb \in Seq(T) /\ gc \in Seq(T) /\ gd \in Seq(T)
  BY <1>13, <1>14
<1>17. ga \o gb = gc \o gd
  <2>1. p \in Seq(T)
    BY <1>10
  <2>2. PICK u, w : u = ga \o gb /\ w = gc \o gd
    OBVIOUS
  <2>3. PICK l, m : l = p \o u /\ m = p \o w
    OBVIOUS
  <2>4. u \in Seq(T) /\ w \in Seq(T)
    BY <1>16, <2>2, ConcatProperties
  <2>5. PICK k : k = v \o gb /\ k = z \o gd
    BY <1>3, <1>12, <1>14, <1>15
  <2>6. Joins(p, ga, v) /\ Joins(v, gb, k) /\ Joins(p, gc, z) /\ Joins(z, gd, k)
    BY <1>11, <1>14, <1>15, <2>5 DEF Joins
  <2>7. Joins(ga, gb, u) /\ Joins(gc, gd, w) /\ Joins(p, u, l) /\ Joins(p, w, m)
    BY <2>2, <2>3 DEF Joins
  <2>8. k = l /\ k = m
    BY <1>16, <2>1, <2>6, <2>7, Regroup
  <2>9. p \o u = p \o w
    BY <2>3, <2>8
  <2>10. u = w
    BY <2>1, <2>4, <2>9, ConcatSimplifications
  <2> QED BY <2>2, <2>10
<1>18. ConcatWs(<<a, b>>) = ga \o gb /\ ConcatWs(<<c, d>>) = gc \o gd
  BY <1>10, <1>14, WsTwo
<1> QED BY <1>9, <1>17, <1>18

\* What is digested of a row.
CourseFields(s, row) ==
  <<"c", s, row.title, row.titleEn, row.category, row.commentary, row.commentaryEn>>
\* Of a section.
SectionFields(k, row) == <<"s", k[1], k[2], row.title, row.titleEn>>
\* Of an item.
ItemFields(i, row) ==
  <<"i", i, row.course, row.section, row.ord, row.topic, row.topicEn, row.verse>>

\* The digest of a row begins with its table and its key.
LEMMA CourseHead ==
  ASSUME NEW s, NEW row, s # None
  PROVE  ConcatWs(CourseFields(s, row))[1] = "c" /\ ConcatWs(CourseFields(s, row))[2] = s
<1> DEFINE x == CourseFields(s, row)
<1>1. PICK T : x \in Seq(T)
  <2> DEFINE T == {"c", s, row.title, row.titleEn, row.category, row.commentary, row.commentaryEn}
  <2>1. x \in Seq(T)
    BY DEF CourseFields
  <2> QED BY <2>1
<1>2. Len(x) = 7 /\ x[1] = "c" /\ x[2] = s /\ "c" # None
  BY NullAssumption DEF CourseFields, NullAssumption
<1> HIDE DEF x
<1>3. 7 \in Nat /\ 2 <= 7 /\ x[1] # None /\ x[2] # None
  BY <1>2
<1>4. ConcatWs(x)[1] = x[1] /\ ConcatWs(x)[2] = x[2]
  BY <1>1, <1>2, <1>3, WsHead
<1> QED BY <1>2, <1>4 DEF x

\* A section.
LEMMA SectionHead ==
  ASSUME NEW k, NEW row, k[1] # None
  PROVE  ConcatWs(SectionFields(k, row))[1] = "s"
<1> DEFINE x == SectionFields(k, row)
<1>1. PICK T : x \in Seq(T)
  <2> DEFINE T == {"s", k[1], k[2], row.title, row.titleEn}
  <2>1. x \in Seq(T)
    BY DEF SectionFields
  <2> QED BY <2>1
<1>2. Len(x) = 5 /\ x[1] = "s" /\ x[2] = k[1] /\ "s" # None
  BY NullAssumption DEF SectionFields, NullAssumption
<1> HIDE DEF x
<1>3. 5 \in Nat /\ 2 <= 5 /\ x[1] # None /\ x[2] # None
  BY <1>2
<1>4. ConcatWs(x)[1] = x[1] /\ ConcatWs(x)[2] = x[2]
  BY <1>1, <1>2, <1>3, WsHead
<1> QED BY <1>2, <1>4 DEF x

\* An item.
LEMMA ItemHead ==
  ASSUME NEW i, NEW row, i # None
  PROVE  ConcatWs(ItemFields(i, row))[1] = "i" /\ ConcatWs(ItemFields(i, row))[2] = i
<1> DEFINE x == ItemFields(i, row)
<1>1. PICK T : x \in Seq(T)
  <2> DEFINE T == {"i", i, row.course, row.section, row.ord, row.topic, row.topicEn, row.verse}
  <2>1. x \in Seq(T)
    BY DEF ItemFields
  <2> QED BY <2>1
<1>2. Len(x) = 8 /\ x[1] = "i" /\ x[2] = i /\ "i" # None
  BY NullAssumption DEF ItemFields, NullAssumption
<1> HIDE DEF x
<1>3. 8 \in Nat /\ 2 <= 8 /\ x[1] # None /\ x[2] # None
  BY <1>2
<1>4. ConcatWs(x)[1] = x[1] /\ ConcatWs(x)[2] = x[2]
  BY <1>1, <1>2, <1>3, WsHead
<1> QED BY <1>2, <1>4 DEF x
-----------------------------------------------------------------------------
(* What a row's digest determines, given what a statement cannot change.   *)

\* Items with one id, course and section have different digests when anything
\* else differs.
LEMMA ItemDetermined ==
  ASSUME NEW i, NEW old, NEW new, old.course = new.course, old.section = new.section,
         i # None, old.course # None,
         old.ord # None, old.topic # None, old.verse # None,
         new.ord # None, new.topic # None, new.verse # None,
         ConcatWs(ItemFields(i, old)) = ConcatWs(ItemFields(i, new))
  PROVE  /\ old.ord = new.ord /\ old.topic = new.topic /\ old.topicEn = new.topicEn
         /\ old.verse = new.verse
<1> DEFINE x == ItemFields(i, old)
           y == ItemFields(i, new)
<1>1. PICK T : x \in Seq(T) /\ y \in Seq(T)
  <2> DEFINE T == {"i", i, old.course, old.section, old.ord, old.topic, old.topicEn, old.verse,
                   new.course, new.section, new.ord, new.topic, new.topicEn, new.verse}
  <2>1. x \in Seq(T) /\ y \in Seq(T)
    BY DEF ItemFields
  <2> QED BY <2>1
<1>2. /\ Len(x) = 8 /\ x[1] = "i" /\ x[2] = i /\ x[3] = old.course /\ x[4] = old.section
      /\ x[5] = old.ord /\ x[6] = old.topic /\ x[7] = old.topicEn /\ x[8] = old.verse
      /\ Len(y) = 8 /\ y[1] = "i" /\ y[2] = i /\ y[3] = new.course /\ y[4] = new.section
      /\ y[5] = new.ord /\ y[6] = new.topic /\ y[7] = new.topicEn /\ y[8] = new.verse
  BY DEF ItemFields
<1>3. ConcatWs(x) = ConcatWs(y)
  OBVIOUS
<1> HIDE DEF x, y
<1>4. 8 \in Nat /\ 7 \in 1..8
  OBVIOUS
<1>5. NullsAgree(8, x, y, 7)
  <2> SUFFICES ASSUME NEW k \in 1..8, k # 7 PROVE x[k] = None <=> y[k] = None
    BY DEF NullsAgree
  <2>1. k = 1 \/ k = 2 \/ k = 3 \/ k = 4 \/ k = 5 \/ k = 6 \/ k = 8
    OBVIOUS
  <2>2. x[1] = y[1] /\ x[2] = y[2] /\ x[3] = y[3] /\ x[4] = y[4]
    BY <1>2
  <2>3. x[5] # None /\ y[5] # None /\ x[6] # None /\ y[6] # None /\ x[8] # None /\ y[8] # None
    BY <1>2
  <2> QED BY <2>1, <2>2, <2>3
<1>6. \A k \in 1..8 : x[k] = y[k]
  <2>1. PICK n, q : n = 8 /\ q = 7
    OBVIOUS
  <2>2. n \in Nat /\ q \in 1..n /\ Len(x) = n /\ Len(y) = n /\ NullsAgree(n, x, y, q)
    BY <1>2, <1>5, <2>1
  <2>3. \A k \in 1..n : x[k] = y[k]
    BY <1>1, <1>3, <2>2, WsDetermines
  <2> QED BY <2>1, <2>3
<1>7. x[5] = y[5] /\ x[6] = y[6] /\ x[7] = y[7] /\ x[8] = y[8]
  BY <1>6
<1> QED BY <1>2, <1>7

\* The digest of a section determines its key and its titles.
LEMMA SectionDetermined ==
  ASSUME NEW j, NEW k, NEW old, NEW new, j[1] # None, j[2] # None, k[1] # None, k[2] # None,
         old.title # None, new.title # None,
         ConcatWs(SectionFields(j, old)) = ConcatWs(SectionFields(k, new))
  PROVE  j[1] = k[1] /\ j[2] = k[2] /\ old.title = new.title /\ old.titleEn = new.titleEn
<1> DEFINE x == SectionFields(j, old)
           y == SectionFields(k, new)
<1>1. PICK T : x \in Seq(T) /\ y \in Seq(T)
  <2> DEFINE T == {"s", j[1], j[2], old.title, old.titleEn, k[1], k[2], new.title, new.titleEn}
  <2>1. x \in Seq(T) /\ y \in Seq(T)
    BY DEF SectionFields
  <2> QED BY <2>1
<1>2. /\ Len(x) = 5 /\ x[1] = "s" /\ x[2] = j[1] /\ x[3] = j[2] /\ x[4] = old.title /\ x[5] = old.titleEn
      /\ Len(y) = 5 /\ y[1] = "s" /\ y[2] = k[1] /\ y[3] = k[2] /\ y[4] = new.title /\ y[5] = new.titleEn
  BY DEF SectionFields
<1>3. ConcatWs(x) = ConcatWs(y)
  OBVIOUS
<1> HIDE DEF x, y
<1>4. 5 \in Nat /\ 5 \in 1..5
  OBVIOUS
<1>5. NullsAgree(5, x, y, 5)
  <2> SUFFICES ASSUME NEW m \in 1..5, m # 5 PROVE x[m] = None <=> y[m] = None
    BY DEF NullsAgree
  <2>1. m = 1 \/ m = 2 \/ m = 3 \/ m = 4
    OBVIOUS
  <2>2. x[1] = y[1]
    BY <1>2
  <2>3. x[2] # None /\ y[2] # None /\ x[3] # None /\ y[3] # None /\ x[4] # None /\ y[4] # None
    BY <1>2
  <2> QED BY <2>1, <2>2, <2>3
<1>6. \A m \in 1..5 : x[m] = y[m]
  <2>1. PICK n, q : n = 5 /\ q = 5
    OBVIOUS
  <2>2. n \in Nat /\ q \in 1..n /\ Len(x) = n /\ Len(y) = n /\ NullsAgree(n, x, y, q)
    BY <1>2, <1>5, <2>1
  <2>3. \A m \in 1..n : x[m] = y[m]
    BY <1>1, <1>3, <2>2, WsDetermines
  <2> QED BY <2>1, <2>3
<1>7. x[2] = y[2] /\ x[3] = y[3] /\ x[4] = y[4] /\ x[5] = y[5]
  BY <1>6
<1> QED BY <1>2, <1>7

\* What the app shows of a course, but for its commentary.
SameTitles(old, new) == old.title = new.title /\ old.titleEn = new.titleEn /\ old.category = new.category
\* Its commentary, in both languages.
SameCommentary(old, new) == old.commentary = new.commentary /\ old.commentaryEn = new.commentaryEn

\* A commentary that changes only in its column.
ColumnMoved(old, new) ==
  /\ new.commentary # old.commentary
  /\ ConcatWs(<<new.commentary, new.commentaryEn>>) = ConcatWs(<<old.commentary, old.commentaryEn>>)

\* Either the titles or the commentary of a course change: the digest changes
\* too, unless the commentary changed in its column only.
LEMMA CourseDetermined ==
  ASSUME NEW s, NEW old, NEW new, s # None, old.title # None, old.category # None,
         new.title # None, new.category # None,
         SameTitles(old, new) \/ SameCommentary(old, new),
         ConcatWs(CourseFields(s, old)) = ConcatWs(CourseFields(s, new)),
         ~ ColumnMoved(old, new)
  PROVE  SameTitles(old, new) /\ SameCommentary(old, new)
<1> DEFINE x == CourseFields(s, old)
           y == CourseFields(s, new)
<1>1. PICK T : x \in Seq(T) /\ y \in Seq(T)
  <2> DEFINE T == {"c", s, old.title, old.titleEn, old.category, old.commentary, old.commentaryEn,
                   new.title, new.titleEn, new.category, new.commentary, new.commentaryEn}
  <2>1. x \in Seq(T) /\ y \in Seq(T)
    BY DEF CourseFields
  <2> QED BY <2>1
<1>2. /\ Len(x) = 7 /\ x[1] = "c" /\ x[2] = s /\ x[3] = old.title /\ x[4] = old.titleEn
      /\ x[5] = old.category /\ x[6] = old.commentary /\ x[7] = old.commentaryEn
      /\ Len(y) = 7 /\ y[1] = "c" /\ y[2] = s /\ y[3] = new.title /\ y[4] = new.titleEn
      /\ y[5] = new.category /\ y[6] = new.commentary /\ y[7] = new.commentaryEn
  BY DEF CourseFields
<1>3. ConcatWs(x) = ConcatWs(y)
  OBVIOUS
<1> HIDE DEF x, y
<1>4. 7 \in Nat /\ 4 \in 1..7 /\ 7 \in 1..7 /\ 2 <= 7 /\ 7 - 1 = 6 /\ 7 - 2 = 5
  OBVIOUS
<1>5. CASE SameCommentary(old, new)
  <2>1. x[6] = y[6] /\ x[7] = y[7] /\ x[1] = y[1] /\ x[2] = y[2]
    BY <1>2, <1>5 DEF SameCommentary
  <2>2. x[3] # None /\ y[3] # None /\ x[5] # None /\ y[5] # None
    BY <1>2
  <2>3. NullsAgree(7, x, y, 4)
    <3> SUFFICES ASSUME NEW k \in 1..7, k # 4 PROVE x[k] = None <=> y[k] = None
      BY DEF NullsAgree
    <3>1. k = 1 \/ k = 2 \/ k = 3 \/ k = 5 \/ k = 6 \/ k = 7
      OBVIOUS
    <3> QED BY <2>1, <2>2, <3>1
  <2>4. \A k \in 1..7 : x[k] = y[k]
    <3>1. PICK n, q : n = 7 /\ q = 4
      OBVIOUS
    <3>2. n \in Nat /\ q \in 1..n /\ Len(x) = n /\ Len(y) = n /\ NullsAgree(n, x, y, q)
      BY <1>2, <2>3, <3>1
    <3>3. \A k \in 1..n : x[k] = y[k]
      BY <1>1, <1>3, <3>2, WsDetermines
    <3> QED BY <3>1, <3>3
  <2>5. x[3] = y[3] /\ x[4] = y[4] /\ x[5] = y[5]
    BY <2>4
  <2> QED BY <1>2, <1>5, <2>5 DEF SameTitles
<1>6. CASE SameTitles(old, new)
  <2>1. x[1] = y[1] /\ x[2] = y[2] /\ x[3] = y[3] /\ x[4] = y[4] /\ x[5] = y[5]
    BY <1>2, <1>6 DEF SameTitles
  <2>2. \A k \in 1..7 - 2 : x[k] = y[k]
    <3> SUFFICES ASSUME NEW k \in 1..5 PROVE x[k] = y[k]
      BY <1>4
    <3>1. k = 1 \/ k = 2 \/ k = 3 \/ k = 4 \/ k = 5
      OBVIOUS
    <3> QED BY <2>1, <3>1
  <2>3. ConcatWs(<<x[7 - 1], x[7]>>) = ConcatWs(<<y[7 - 1], y[7]>>)
    BY <1>1, <1>2, <1>3, <1>4, <2>2, WsTail
  <2>4. new.commentary = old.commentary
    BY <1>2, <1>4, <2>3 DEF ColumnMoved
  <2>5. NullsAgree(7, x, y, 7)
    <3> SUFFICES ASSUME NEW k \in 1..7, k # 7 PROVE x[k] = None <=> y[k] = None
      BY DEF NullsAgree
    <3>1. k = 1 \/ k = 2 \/ k = 3 \/ k = 4 \/ k = 5 \/ k = 6
      OBVIOUS
    <3> QED BY <1>2, <2>1, <2>4, <3>1
  <2>6. \A k \in 1..7 : x[k] = y[k]
    <3>1. PICK n, q : n = 7 /\ q = 7
      OBVIOUS
    <3>2. n \in Nat /\ q \in 1..n /\ Len(x) = n /\ Len(y) = n /\ NullsAgree(n, x, y, q)
      BY <1>2, <2>5, <3>1
    <3>3. \A k \in 1..n : x[k] = y[k]
      BY <1>1, <1>3, <3>2, WsDetermines
    <3> QED BY <3>1, <3>3
  <2>7. x[7] = y[7]
    BY <2>6
  <2> QED BY <1>2, <1>6, <2>4, <2>7 DEF SameCommentary
<1> QED BY <1>5, <1>6

\* The columns that are never NULL.
CourseNamed(s, row) == s # None /\ row.title # None /\ row.category # None
\* Those of a section, whose key is a pair.
SectionNamed(k, row) == k = <<k[1], k[2]>> /\ k[1] # None /\ k[2] # None /\ row.title # None
\* Those of an item.
ItemNamed(i, row) ==
  i # None /\ row.course # None /\ row.ord # None /\ row.topic # None /\ row.verse # None

\* So they are in all rows of the three tables.
Named(co, se, it) ==
  /\ \A s \in DOMAIN co : CourseNamed(s, co[s])
  /\ \A k \in DOMAIN se : SectionNamed(k, se[k])
  /\ \A i \in DOMAIN it : ItemNamed(i, it[i])

\* The courses of given tables that are not hidden.
VisibleOf(co) == {s \in DOMAIN co : ~ co[s].hidden}
\* The digests of the rows of given tables.
Digests(co, se, it) ==
  {ConcatWs(CourseFields(s, co[s])) : s \in VisibleOf(co)}
  \cup {ConcatWs(SectionFields(k, se[k])) : k \in DOMAIN se}
  \cup {ConcatWs(ItemFields(i, it[i])) : i \in DOMAIN it}

\* Whose digest it is.
LEMMA DigestOf ==
  ASSUME NEW co, NEW se, NEW it, NEW d
  PROVE  d \in Digests(co, se, it) <=>
           \/ \E s \in VisibleOf(co) : d = ConcatWs(CourseFields(s, co[s]))
           \/ \E k \in DOMAIN se : d = ConcatWs(SectionFields(k, se[k]))
           \/ \E i \in DOMAIN it : d = ConcatWs(ItemFields(i, it[i]))
BY DEF Digests

\* Tables whose rows are all digested in others have only rows of theirs.
LEMMA DigestsCover ==
  ASSUME NEW co, NEW se, NEW it, Named(co, se, it), NEW co2, NEW se2, NEW it2, Named(co2, se2, it2),
         Digests(co, se, it) \subseteq Digests(co2, se2, it2)
  PROVE  /\ \A s \in VisibleOf(co) :
              s \in VisibleOf(co2) /\ ConcatWs(CourseFields(s, co[s])) = ConcatWs(CourseFields(s, co2[s]))
         /\ \A k \in DOMAIN se :
              k \in DOMAIN se2 /\ se[k].title = se2[k].title /\ se[k].titleEn = se2[k].titleEn
         /\ \A i \in DOMAIN it :
              i \in DOMAIN it2 /\ ConcatWs(ItemFields(i, it[i])) = ConcatWs(ItemFields(i, it2[i]))
<1>1. "c" # "s" /\ "c" # "i" /\ "s" # "i"
  OBVIOUS
<1>2. ASSUME NEW co3, NEW se3, NEW it3, Named(co3, se3, it3)
      PROVE  /\ \A s \in VisibleOf(co3) : /\ ConcatWs(CourseFields(s, co3[s]))[1] = "c"
                                          /\ ConcatWs(CourseFields(s, co3[s]))[2] = s
             /\ \A k \in DOMAIN se3 : ConcatWs(SectionFields(k, se3[k]))[1] = "s"
             /\ \A i \in DOMAIN it3 : /\ ConcatWs(ItemFields(i, it3[i]))[1] = "i"
                                      /\ ConcatWs(ItemFields(i, it3[i]))[2] = i
  <2>1. ASSUME NEW s \in VisibleOf(co3)
        PROVE  ConcatWs(CourseFields(s, co3[s]))[1] = "c" /\ ConcatWs(CourseFields(s, co3[s]))[2] = s
    <3>1. s # None
      BY <1>2 DEF Named, CourseNamed, VisibleOf
    <3> QED BY <3>1, CourseHead
  <2>2. ASSUME NEW k \in DOMAIN se3 PROVE ConcatWs(SectionFields(k, se3[k]))[1] = "s"
    <3>1. k[1] # None
      BY <1>2 DEF Named, SectionNamed
    <3> QED BY <3>1, SectionHead
  <2>3. ASSUME NEW i \in DOMAIN it3
        PROVE  ConcatWs(ItemFields(i, it3[i]))[1] = "i" /\ ConcatWs(ItemFields(i, it3[i]))[2] = i
    <3>1. i # None
      BY <1>2 DEF Named, ItemNamed
    <3> QED BY <3>1, ItemHead
  <2> QED BY <2>1, <2>2, <2>3
<1>3. ASSUME NEW s \in VisibleOf(co)
      PROVE  s \in VisibleOf(co2) /\ ConcatWs(CourseFields(s, co[s])) = ConcatWs(CourseFields(s, co2[s]))
  <2>1. PICK d : d = ConcatWs(CourseFields(s, co[s]))
    OBVIOUS
  <2>2. d \in Digests(co2, se2, it2)
    BY <2>1, DigestOf
  <2>3. d[1] = "c" /\ d[2] = s
    BY <1>2, <2>1
  <2>4. ~ \E k \in DOMAIN se2 : d = ConcatWs(SectionFields(k, se2[k]))
    BY <1>1, <1>2, <2>3
  <2>5. ~ \E i \in DOMAIN it2 : d = ConcatWs(ItemFields(i, it2[i]))
    BY <1>1, <1>2, <2>3
  <2>6. PICK t \in VisibleOf(co2) : d = ConcatWs(CourseFields(t, co2[t]))
    BY <2>2, <2>4, <2>5, DigestOf
  <2>7. t = s
    BY <1>2, <2>3, <2>6
  <2> QED BY <2>1, <2>6, <2>7
<1>4. ASSUME NEW k \in DOMAIN se
      PROVE  k \in DOMAIN se2 /\ se[k].title = se2[k].title /\ se[k].titleEn = se2[k].titleEn
  <2>1. PICK d : d = ConcatWs(SectionFields(k, se[k]))
    OBVIOUS
  <2>2. d \in Digests(co2, se2, it2)
    BY <2>1, DigestOf
  <2>3. d[1] = "s"
    BY <1>2, <2>1
  <2>4. ~ \E s \in VisibleOf(co2) : d = ConcatWs(CourseFields(s, co2[s]))
    BY <1>1, <1>2, <2>3
  <2>5. ~ \E i \in DOMAIN it2 : d = ConcatWs(ItemFields(i, it2[i]))
    BY <1>1, <1>2, <2>3
  <2>6. PICK j \in DOMAIN se2 : d = ConcatWs(SectionFields(j, se2[j]))
    BY <2>2, <2>4, <2>5, DigestOf
  <2>7. SectionNamed(k, se[k]) /\ SectionNamed(j, se2[j])
    BY DEF Named
  <2>8. k[1] = j[1] /\ k[2] = j[2] /\ se[k].title = se2[j].title /\ se[k].titleEn = se2[j].titleEn
    <3>1. PICK old, new : old = se[k] /\ new = se2[j]
      OBVIOUS
    <3>2. /\ k[1] # None /\ k[2] # None /\ j[1] # None /\ j[2] # None
          /\ old.title # None /\ new.title # None
      BY <2>7, <3>1 DEF SectionNamed
    <3>3. ConcatWs(SectionFields(k, old)) = ConcatWs(SectionFields(j, new))
      BY <2>1, <2>6, <3>1
    <3>4. k[1] = j[1] /\ k[2] = j[2] /\ old.title = new.title /\ old.titleEn = new.titleEn
      BY <3>2, <3>3, SectionDetermined
    <3> QED BY <3>1, <3>4
  <2>9. k = j
    BY <2>7, <2>8 DEF SectionNamed
  <2> QED BY <2>8, <2>9
<1>5. ASSUME NEW i \in DOMAIN it
      PROVE  i \in DOMAIN it2 /\ ConcatWs(ItemFields(i, it[i])) = ConcatWs(ItemFields(i, it2[i]))
  <2>1. PICK d : d = ConcatWs(ItemFields(i, it[i]))
    OBVIOUS
  <2>2. d \in Digests(co2, se2, it2)
    BY <2>1, DigestOf
  <2>3. d[1] = "i" /\ d[2] = i
    BY <1>2, <2>1
  <2>4. ~ \E s \in VisibleOf(co2) : d = ConcatWs(CourseFields(s, co2[s]))
    BY <1>1, <1>2, <2>3
  <2>5. ~ \E k \in DOMAIN se2 : d = ConcatWs(SectionFields(k, se2[k]))
    BY <1>1, <1>2, <2>3
  <2>6. PICK j \in DOMAIN it2 : d = ConcatWs(ItemFields(j, it2[j]))
    BY <2>2, <2>4, <2>5, DigestOf
  <2>7. j = i
    BY <1>2, <2>3, <2>6
  <2> QED BY <2>1, <2>6, <2>7
<1> QED BY <1>3, <1>4, <1>5
-----------------------------------------------------------------------------
(* Every step keeps the columns that are never NULL, and changes the titles*)
(* of a course or its commentary, never both.                              *)

\* Texts and numbers are not NULL.
LEMMA TextsGiven == \A t \in Texts \cup Nat : t # None
<1>1. None \notin Nat \cup STRING /\ None \notin {"warmup", "messiah", MessiahSlug}
  BY NullAssumption DEF NullAssumption, MessiahSlug
<1> QED BY <1>1 DEF Texts

\* No statement leaves a NULL where the digest counts on a value.
NamesOK ==
  /\ \A s \in DOMAIN courses : CourseNamed(s, courses[s])
  /\ \A k \in DOMAIN sections : SectionNamed(k, sections[k])

\* The columns of an upserted course.
LEMMA CourseColumns ==
  ASSUME NEW old, CourseOK(old), NEW titles, NEW english, NEW category, NEW hidden
  PROVE  LET new == [old EXCEPT !.title = titles, !.titleEn = english, !.category = category,
                                !.hidden = hidden]
         IN  new.title = titles /\ new.category = category /\ SameCommentary(old, new)
<1>1. PICK texts : old \in CourseRows(texts)
  BY DEF CourseOK
<1> QED BY <1>1 DEF CourseRows, SameCommentary

\* The columns of a course with another commentary.
LEMMA CommentaryColumns ==
  ASSUME NEW old, CourseOK(old), NEW ko, NEW en
  PROVE  SameTitles(old, [old EXCEPT !.commentary = ko, !.commentaryEn = en])
<1>1. PICK texts : old \in CourseRows(texts)
  BY DEF CourseOK
<1> QED BY <1>1 DEF CourseRows, SameTitles

\* A step changes the titles of courses or their commentaries, never both.
CoursesStep ==
  \A s \in DOMAIN courses :
    /\ s \in DOMAIN courses'
    /\ SameTitles(courses[s], courses'[s]) \/ SameCommentary(courses[s], courses'[s])

\* An upsert writes the titles.
LEMMA UpsertCourseNames ==
  ASSUME CatalogOK, NamesOK, UpsertCourse
  PROVE  NamesOK' /\ CoursesStep
<1> DEFINE slug == Statement.slug
           old == IF slug \in DOMAIN courses THEN courses[slug]
                  ELSE [title |-> None, titleEn |-> None, category |-> "topic",
                        hidden |-> FALSE, commentary |-> None, commentaryEn |-> None]
           hidden == HiddenAfter(old.hidden, Statement.hidden)
           new == [old EXCEPT !.title = Release.titles, !.titleEn = Release.english,
                       !.category = Statement.category, !.hidden = hidden]
<1>1. Running /\ Statement.op = "course" /\ sections' = sections
  BY DEF UpsertCourse, Executes
<1>2. DOMAIN courses' = DOMAIN courses \cup {slug} /\ courses'[slug] = new
      /\ \A s \in DOMAIN courses : s # slug => courses'[s] = courses[s]
  BY DEF UpsertCourse, With
<1>3. slug # None /\ Statement.category # None
  <2>1. Statement \in CourseStatements
    BY <1>1, CourseStatement
  <2>2. slug \in Texts /\ Statement.category \in Texts
    BY <2>1 DEF CourseStatements
  <2> QED BY <2>2, TextsGiven
<1>4. Release.titles # None
  BY CatalogAssumption, NullAssumption DEF CatalogAssumption, NullAssumption, CatalogOK, ScriptOK, Release
<1>5. CourseOK(old)
  <2>1. CASE slug \in DOMAIN courses
    <3>1. old = courses[slug]
      BY <2>1
    <3> HIDE DEF old, slug
    <3> QED BY <2>1, <3>1 DEF CatalogOK
  <2>2. CASE slug \notin DOMAIN courses
    <3> DEFINE texts == {None, "topic"}
    <3>1. old \in CourseRows(texts)
      BY <2>2 DEF CourseRows
    <3> QED BY <3>1 DEF CourseOK
  <2> QED BY <2>1, <2>2
<1>6. slug \in DOMAIN courses => old = courses[slug]
  OBVIOUS
<1> HIDE DEF slug, old, hidden
<1>7. new.title = Release.titles /\ new.category = Statement.category /\ SameCommentary(old, new)
  BY <1>5, CourseColumns
<1> HIDE DEF new
<1>8. CourseNamed(slug, new)
  BY <1>3, <1>4, <1>7 DEF CourseNamed
<1>9. NamesOK'
  BY <1>1, <1>2, <1>8 DEF NamesOK
<1>10. CoursesStep
  BY <1>2, <1>6, <1>7 DEF CoursesStep, SameTitles
<1> QED BY <1>9, <1>10

\* A section gets a key of values, and the titles of its release.
LEMMA UpsertSectionNames ==
  ASSUME CatalogOK, NamesOK, UpsertSection
  PROVE  NamesOK'
<1> DEFINE key == <<Statement.slug, Statement.ord>>
           row == [title |-> Release.titles, titleEn |-> Release.english]
<1>1. Running /\ Statement.op = "section" /\ courses' = courses
  BY DEF UpsertSection, Executes
<1>2. DOMAIN sections' = DOMAIN sections \cup {key} /\ sections'[key] = row
      /\ \A k \in DOMAIN sections : k # key => sections'[k] = sections[k]
  BY DEF UpsertSection, With
<1>3. Statement.slug # None /\ Statement.ord # None
  <2>1. Statement \in SectionStatements
    BY <1>1, SectionStatement
  <2>2. Statement.slug \in Texts /\ Statement.ord \in Nat
    BY <2>1 DEF SectionStatements
  <2> QED BY <2>2, TextsGiven
<1>4. Release.titles # None
  BY CatalogAssumption, NullAssumption DEF CatalogAssumption, NullAssumption, CatalogOK, ScriptOK, Release
<1>5. SectionNamed(key, row)
  BY <1>3, <1>4 DEF SectionNamed
<1> HIDE DEF key, row
<1> QED BY <1>1, <1>2, <1>5 DEF NamesOK

\* A commentary leaves the titles.
LEMMA CommentaryNames ==
  ASSUME CatalogOK, NamesOK, NEW s, UpdateCommentary(s)
  PROVE  NamesOK' /\ CoursesStep
<1>1. sections' = sections /\ DOMAIN courses' = DOMAIN courses
  BY DEF UpdateCommentary
<1>2. \A t \in DOMAIN courses : t # s => courses'[t] = courses[t]
  BY DEF UpdateCommentary
<1>3. s \in DOMAIN courses => SameTitles(courses[s], courses'[s])
  <2> SUFFICES ASSUME s \in DOMAIN courses PROVE SameTitles(courses[s], courses'[s])
    OBVIOUS
  <2>1. PICK old, ko, en : old = courses[s] /\ ko = Release.commentary[s].ko
                             /\ en = Release.commentary[s].en
    OBVIOUS
  <2>2. courses'[s] = [old EXCEPT !.commentary = ko, !.commentaryEn = en]
    BY <2>1 DEF UpdateCommentary
  <2>3. CourseOK(old)
    BY <2>1 DEF CatalogOK
  <2>4. SameTitles(old, [old EXCEPT !.commentary = ko, !.commentaryEn = en])
    BY <2>3, CommentaryColumns
  <2> QED BY <2>1, <2>2, <2>4
<1>4. \A t \in DOMAIN courses : SameTitles(courses[t], courses'[t])
  BY <1>2, <1>3 DEF SameTitles
<1>5. NamesOK'
  BY <1>1, <1>4 DEF NamesOK, CourseNamed, SameTitles
<1> QED BY <1>1, <1>4, <1>5 DEF CoursesStep

\* Every step of the seeding, a reload and the rest.
LEMMA NextNames ==
  ASSUME TablesOK, NamesOK, [Next]_vars
  PROVE  NamesOK' /\ CoursesStep
<1>1. CatalogOK
  BY DEF TablesOK
<1>2. CASE UNCHANGED <<courses, sections>>
  BY <1>2 DEF NamesOK, CoursesStep, SameTitles
<1>3. CASE UpsertCourse
  BY <1>1, <1>3, UpsertCourseNames
<1>4. CASE UpsertSection
  <2>1. CoursesStep
    BY <1>4 DEF UpsertSection, CoursesStep, SameTitles
  <2> QED BY <1>1, <1>4, <2>1, UpsertSectionNames
<1>5. CASE \E s \in DOMAIN Release.commentary : UpdateCommentary(s)
  BY <1>1, <1>5, CommentaryNames
<1>6. CASE Seed
  <2>1. InsertItem \/ InsertWarmupItem \/ InsertMessiahItem \/ InsertChapter
          => UNCHANGED <<courses, sections>>
    BY DEF InsertItem, InsertWarmupItem, InsertMessiahItem, InsertChapter
  <2>2. PassChapter \/ CrashSeed \/ (\E r \in Releases : StartSeed(r)) => UNCHANGED <<courses, sections>>
    BY DEF PassChapter, CrashSeed, StartSeed
  <2> QED BY <1>2, <1>3, <1>4, <1>5, <1>6, <2>1, <2>2 DEF Seed, SeedStatement
<1>7. Reload => UNCHANGED <<courses, sections>>
  BY DEF Reload, TruncateItems
<1>8. ASSUME NEW u \in Users,
             \/ \E i \in DOMAIN items : AddFavorite(u, i) \/ RemoveFavorite(u, i)
             \/ Prepares(u) \/ CommitAttempt(u)
             \/ GetLastAttempt(u) \/ GetNextUnclearedItem(u)
             \/ StartStats(u) \/ NextFigure(u)
             \/ StartProgress(u) \/ ListUserProgress(u)
             \/ Deliver(u)
      PROVE  UNCHANGED <<courses, sections>>
  BY <1>8, PreparesRead DEF CommitAttempt, AddFavorite, RemoveFavorite, GetLastAttempt, GetNextUnclearedItem,
     StartStats, NextFigure, StartProgress, ListUserProgress, Deliver, catalogVars
<1>9. UNCHANGED vars => UNCHANGED <<courses, sections>>
  BY DEF vars
<1> QED BY <1>2, <1>6, <1>7, <1>8, <1>9 DEF Next, Prepares
-----------------------------------------------------------------------------
(* The digest covers the content: no step changes what the app downloads and*)
(* leaves the digest, but for a commentary that moves between its columns. *)

\* No item goes to another course or section, as long as it is there.
ItemsStep ==
  \A i \in DOMAIN items \cap DOMAIN items' :
    items'[i].course = items[i].course /\ items'[i].section = items[i].section

\* A statement keeps the key of a row; a reload removes all rows.
LEMMA NextItemsStep == ASSUME TablesOK, [Next]_vars PROVE ItemsStep
<1>1. Ran \/ Passed \/ Ended \/ Begun \/ UNCHANGED <<items, script, seeded>>
  BY StepKinds
<1>2. CASE Ran
  <2> SUFFICES ASSUME NEW i \in DOMAIN items
               PROVE  items'[i].course = items[i].course /\ items'[i].section = items[i].section
    BY DEF ItemsStep
  <2>1. items'[i] = items[i] \/ Merged(items'[i], items[i], Release, Statement)
    BY <1>2 DEF Ran, Merges
  <2>2. PICK new, old : new = items'[i] /\ old = items[i]
    OBVIOUS
  <2>3. PICK rel, st : rel = Release /\ st = Statement
    OBVIOUS
  <2>4. Key(new) = Key(old)
    <3>1. CASE new = old
      BY <3>1
    <3>2. CASE Merged(new, old, rel, st)
      BY <3>2, MergedKey
    <3> QED BY <2>1, <2>2, <2>3, <3>1, <3>2
  <2>5. new.course = old.course /\ new.section = old.section
    BY <2>4 DEF Key
  <2> QED BY <2>2, <2>5
<1>3. CASE items' = items \/ DOMAIN items' = {}
  BY <1>3 DEF ItemsStep
<1> QED BY <1>1, <1>2, <1>3 DEF Passed, Ended, Begun

\* The catalogue is empty at first.
LEMMA InitNames == Init => NamesOK
BY DEF Init, CatalogInit, NamesOK

\* No row of the catalogue has a NULL where the digest counts on a value.
LEMMA TablesNamed == TablesOK /\ NamesOK => Named(courses, sections, items)
<1> SUFFICES ASSUME TablesOK, NamesOK PROVE Named(courses, sections, items)
  OBVIOUS
<1>1. ASSUME NEW i \in DOMAIN items PROVE ItemNamed(i, items[i])
  <2>1. RowOK(items[i], DOMAIN courses, DOMAIN sections)
    BY DEF TablesOK, CatalogOK
  <2>2. PICK row : row = items[i]
    OBVIOUS
  <2>3. row.course \in DOMAIN courses /\ row.ord \in Nat /\ row.topic \in STRING /\ row.verse \in STRING
    BY <2>1, <2>2, CatalogAssumption DEF RowOK, CatalogAssumption
  <2>4. row.course # None
    BY <2>3 DEF NamesOK, CourseNamed
  <2>5. i \in Nat
    BY DEF TablesOK, Inv, ItemsOK
  <2>6. None \notin Nat /\ None \notin STRING
    BY NullAssumption DEF NullAssumption
  <2> QED BY <2>2, <2>3, <2>4, <2>5, <2>6 DEF ItemNamed
<1> QED BY <1>1 DEF Named, NamesOK

\* The digest of the catalogue is that of its tables.
LEMMA DigestIsOfTables == ContentDigest = Digests(courses, sections, items)
BY DEF ContentDigest, Digests, Visible, VisibleOf, CourseDigest, SectionDigest, ItemDigest,
   CourseFields, SectionFields, ItemFields

\* Tables with one digest show the same, when they are a step apart.
LEMMA DigestDetermines ==
  ASSUME NEW co, NEW se, NEW it, Named(co, se, it), NEW co2, NEW se2, NEW it2, Named(co2, se2, it2),
         Digests(co, se, it) = Digests(co2, se2, it2),
         \A s \in DOMAIN co \cap DOMAIN co2 :
           /\ SameTitles(co[s], co2[s]) \/ SameCommentary(co[s], co2[s])
           /\ ~ ColumnMoved(co[s], co2[s]),
         \A i \in DOMAIN it \cap DOMAIN it2 :
           /\ it[i].course = it2[i].course /\ it[i].section = it2[i].section
  PROVE  /\ VisibleOf(co) = VisibleOf(co2)
         /\ \A s \in VisibleOf(co) : SameTitles(co[s], co2[s]) /\ SameCommentary(co[s], co2[s])
         /\ DOMAIN se = DOMAIN se2
         /\ \A k \in DOMAIN se : se[k].title = se2[k].title /\ se[k].titleEn = se2[k].titleEn
         /\ DOMAIN it = DOMAIN it2
         /\ \A i \in DOMAIN it :
              /\ it[i].course = it2[i].course /\ it[i].section = it2[i].section
              /\ it[i].ord = it2[i].ord /\ it[i].topic = it2[i].topic
              /\ it[i].topicEn = it2[i].topicEn /\ it[i].verse = it2[i].verse
<1>1. /\ \A s \in VisibleOf(co) :
           s \in VisibleOf(co2) /\ ConcatWs(CourseFields(s, co[s])) = ConcatWs(CourseFields(s, co2[s]))
      /\ \A k \in DOMAIN se :
           k \in DOMAIN se2 /\ se[k].title = se2[k].title /\ se[k].titleEn = se2[k].titleEn
      /\ \A i \in DOMAIN it :
           i \in DOMAIN it2 /\ ConcatWs(ItemFields(i, it[i])) = ConcatWs(ItemFields(i, it2[i]))
  BY DigestsCover
<1>2. /\ \A s \in VisibleOf(co2) : s \in VisibleOf(co)
      /\ \A k \in DOMAIN se2 : k \in DOMAIN se
      /\ \A i \in DOMAIN it2 : i \in DOMAIN it
  BY DigestsCover
<1>3. ASSUME NEW s \in VisibleOf(co) PROVE SameTitles(co[s], co2[s]) /\ SameCommentary(co[s], co2[s])
  <2>1. s \in DOMAIN co /\ s \in DOMAIN co2
    BY <1>1 DEF VisibleOf
  <2>2. PICK old, new : old = co[s] /\ new = co2[s]
    OBVIOUS
  <2>3. CourseNamed(s, old) /\ CourseNamed(s, new)
    BY <2>1, <2>2 DEF Named
  <2>4. SameTitles(old, new) \/ SameCommentary(old, new)
    BY <2>1, <2>2
  <2>5. ~ ColumnMoved(old, new)
    BY <2>1, <2>2
  <2>6. ConcatWs(CourseFields(s, old)) = ConcatWs(CourseFields(s, new))
    BY <1>1, <2>2
  <2>7. /\ s # None /\ old.title # None /\ old.category # None
        /\ new.title # None /\ new.category # None
    BY <2>3 DEF CourseNamed
  <2>8. SameTitles(old, new) /\ SameCommentary(old, new)
    BY <2>4, <2>5, <2>6, <2>7, CourseDetermined
  <2> QED BY <2>2, <2>8
<1>4. ASSUME NEW i \in DOMAIN it
      PROVE  /\ it[i].course = it2[i].course /\ it[i].section = it2[i].section
             /\ it[i].ord = it2[i].ord /\ it[i].topic = it2[i].topic
             /\ it[i].topicEn = it2[i].topicEn /\ it[i].verse = it2[i].verse
  <2>1. i \in DOMAIN it2
    BY <1>1
  <2>2. PICK old, new : old = it[i] /\ new = it2[i]
    OBVIOUS
  <2>3. ItemNamed(i, old) /\ ItemNamed(i, new)
    BY <2>1, <2>2 DEF Named
  <2>4. old.course = new.course /\ old.section = new.section
    BY <2>1, <2>2
  <2>5. ConcatWs(ItemFields(i, old)) = ConcatWs(ItemFields(i, new))
    BY <1>1, <2>2
  <2>6. /\ i # None /\ old.course # None
        /\ old.ord # None /\ old.topic # None /\ old.verse # None
        /\ new.ord # None /\ new.topic # None /\ new.verse # None
    BY <2>3 DEF ItemNamed
  <2>7. /\ old.ord = new.ord /\ old.topic = new.topic /\ old.topicEn = new.topicEn
        /\ old.verse = new.verse
    BY <2>4, <2>5, <2>6, ItemDetermined
  <2> QED BY <2>2, <2>4, <2>7
<1>5. VisibleOf(co) = VisibleOf(co2)
  BY <1>1, <1>2
<1>6. DOMAIN se = DOMAIN se2
  BY <1>1, <1>2
<1>7. DOMAIN it = DOMAIN it2
  BY <1>1, <1>2
<1> QED BY <1>1, <1>3, <1>4, <1>5, <1>6, <1>7

\* What the app downloads is made of the columns that the digest determines.
LEMMA ContentStays ==
  ASSUME TablesOK, TablesOK', NamesOK, NamesOK', CoursesStep, ItemsStep,
         ~ CommentaryMoved, ContentDigest' = ContentDigest
  PROVE  Content' = Content
<1>1. /\ Named(courses, sections, items) /\ Named(courses', sections', items')
      /\ Digests(courses, sections, items) = Digests(courses', sections', items')
  <2>1. TablesOK' /\ NamesOK' => Named(courses, sections, items)'
    BY TablesNamed, PTL
  <2>2. (ContentDigest = Digests(courses, sections, items))'
    BY DigestIsOfTables, PTL
  <2> QED BY <2>1, <2>2, TablesNamed, DigestIsOfTables
<1>2. PICK co, se, it, co2, se2, it2 :
        /\ co = courses /\ se = sections /\ it = items
        /\ co2 = courses' /\ se2 = sections' /\ it2 = items'
  OBVIOUS
<1>3. \A s \in DOMAIN co \cap DOMAIN co2 :
        /\ SameTitles(co[s], co2[s]) \/ SameCommentary(co[s], co2[s])
        /\ ~ ColumnMoved(co[s], co2[s])
  BY <1>2 DEF CoursesStep, CommentaryMoved, ColumnMoved
<1>4. \A i \in DOMAIN it \cap DOMAIN it2 :
        it[i].course = it2[i].course /\ it[i].section = it2[i].section
  BY <1>2 DEF ItemsStep
<1>5. /\ VisibleOf(co) = VisibleOf(co2)
      /\ \A s \in VisibleOf(co) : SameTitles(co[s], co2[s]) /\ SameCommentary(co[s], co2[s])
      /\ DOMAIN se = DOMAIN se2
      /\ \A k \in DOMAIN se : se[k].title = se2[k].title /\ se[k].titleEn = se2[k].titleEn
      /\ DOMAIN it = DOMAIN it2
      /\ \A i \in DOMAIN it :
           /\ it[i].course = it2[i].course /\ it[i].section = it2[i].section
           /\ it[i].ord = it2[i].ord /\ it[i].topic = it2[i].topic
           /\ it[i].topicEn = it2[i].topicEn /\ it[i].verse = it2[i].verse
  BY <1>1, <1>2, <1>3, <1>4, DigestDetermines
<1>6. Visible' = Visible /\ DOMAIN sections' = DOMAIN sections /\ DOMAIN items' = DOMAIN items
  BY <1>2, <1>5 DEF Visible, VisibleOf
<1>7. ASSUME NEW i \in DOMAIN items PROVE items'[i] = items[i]
  <2>1. PICK old, new : old = items[i] /\ new = items'[i]
    OBVIOUS
  <2>2. old = ItemRow(old.course, old.section, old.ord, old.verse, old.topic, old.topicEn)
    BY <2>1, RowIsItem DEF TablesOK, CatalogOK
  <2>3. new = ItemRow(new.course, new.section, new.ord, new.verse, new.topic, new.topicEn)
    BY <1>6, <2>1, RowIsItem DEF TablesOK, CatalogOK
  <2>4. /\ old.course = new.course /\ old.section = new.section
        /\ old.ord = new.ord /\ old.topic = new.topic
        /\ old.topicEn = new.topicEn /\ old.verse = new.verse
    BY <1>2, <1>5, <2>1
  <2> QED BY <2>1, <2>2, <2>3, <2>4, Zenon
<1>8. ASSUME NEW s \in Visible
      PROVE  SameTitles(courses[s], courses'[s]) /\ SameCommentary(courses[s], courses'[s])
  BY <1>2, <1>5 DEF Visible, VisibleOf
<1>9. ASSUME NEW k \in DOMAIN sections
      PROVE  sections[k].title = sections'[k].title /\ sections[k].titleEn = sections'[k].titleEn
  BY <1>2, <1>5
<1>10. ASSUME NEW i \in DOMAIN items PROVE ItemResponse(i)' = ItemResponse(i)
  BY <1>7 DEF ItemResponse
<1>11. ASSUME NEW s \in Visible PROVE CourseResponse(s)' = CourseResponse(s)
  BY <1>8 DEF CourseResponse, SameTitles
<1>12. ASSUME NEW k \in DOMAIN sections PROVE SectionDetail(k)' = SectionDetail(k)
  <2>1. {j \in DOMAIN items : items[j].course = k[1] /\ items[j].section = k[2]}
          = {j \in DOMAIN items' : items'[j].course = k[1] /\ items'[j].section = k[2]}
    BY <1>6, <1>7
  <2>2. ListItemsBySection(k)' = ListItemsBySection(k)
    BY <1>10, <2>1 DEF ListItemsBySection
  <2> QED BY <1>9, <2>2 DEF SectionDetail
<1>13. ASSUME NEW s \in Visible PROVE CourseDetail(s)' = CourseDetail(s)
  <2>1. ListSectionsByCourse(s)' = ListSectionsByCourse(s)
    BY <1>6 DEF ListSectionsByCourse
  <2>2. {SectionDetail(k) : k \in ListSectionsByCourse(s)}'
          = {SectionDetail(k) : k \in ListSectionsByCourse(s)}
    BY <1>12, <2>1 DEF ListSectionsByCourse
  <2>3. ListCourseItemsWithVerse(s)' = ListCourseItemsWithVerse(s)
    <3>1. {j \in DOMAIN items : items[j].course = s} = {j \in DOMAIN items' : items'[j].course = s}
      BY <1>6, <1>7
    <3> QED BY <1>10, <3>1 DEF ListCourseItemsWithVerse
  <2>4. courses'[s].commentary = courses[s].commentary /\ courses'[s].commentaryEn = courses[s].commentaryEn
    BY <1>8 DEF SameCommentary
  <2> QED BY <1>11, <2>1, <2>2, <2>3, <2>4 DEF CourseDetail
<1>14. ListCourses' = ListCourses
  BY <1>6, <1>11 DEF ListCourses
<1>15. {CourseDetail(s) : s \in Visible}' = {CourseDetail(s) : s \in Visible}
  BY <1>6, <1>13
<1>16. {SectionDetail(k) : k \in DOMAIN sections}' = {SectionDetail(k) : k \in DOMAIN sections}
  BY <1>6, <1>12
<1> QED BY <1>14, <1>15, <1>16 DEF Content

\* No step changes what the app downloads and leaves the digest as it was, but
\* for a commentary that moves between its columns (GetCoursesContentDigest).
THEOREM LearningDigestCoversContent == Spec => DigestCoversContent
<1>1. Init => TablesOK /\ NamesOK
  BY InitTablesOK, InitNames
<1>2. TablesOK /\ NamesOK /\ [Next]_vars => TablesOK' /\ NamesOK'
  BY NextTablesOK, NextNames
<1>3. TablesOK /\ NamesOK /\ [Next]_vars =>
        Content' = Content \/ ContentDigest' # ContentDigest \/ CommentaryMoved
  BY NextTablesOK, NextNames, NextItemsStep, ContentStays
<1>4. TablesOK /\ NamesOK /\ [Next]_vars =>
        [<<courses, sections, items>>' # <<courses, sections, items>> =>
           Content' = Content \/ ContentDigest' # ContentDigest \/ CommentaryMoved]_vars
  BY <1>3
<1> QED BY <1>1, <1>2, <1>4, PTL DEF Spec, DigestCoversContent
=============================================================================
