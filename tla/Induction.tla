----------------------------- MODULE Induction -----------------------------
(***************************************************************************)
(* Induction over numbers in a form without operator parameters, which the *)
(* provers can use: a set of numbers has a least element.  And what it     *)
(* gives for functions defined by recursion: a function that takes the     *)
(* n-th step from its value at n - 1 exists, and is the only one.  Then    *)
(* the places of the elements in a finite ordered set; sums, as the        *)
(* community modules take them; and the largest sum of the weights of      *)
(* elements that come and go.                                              *)
(***************************************************************************)
EXTENDS Integers, FiniteSets, FiniteSetTheorems, WellFoundedInduction, TLAPS

\* A nonempty set of natural numbers has a least element.
THEOREM LeastNumber ==
    ASSUME NEW T, T \subseteq Nat, T # {}
    PROVE  \E m \in T : \A n \in T : m <= n
<1> DEFINE R == {ss \in Nat \X Nat : ss[1] < ss[2]}
<1>1. IsWellFoundedOn(R, Nat)
  BY NatLessThanWellFounded DEF OpToRel
<1>2. \A y, m \in Nat : <<y, m>> \in R <=> y < m
  OBVIOUS
<1> HIDE DEF R
<1>3. PICK m \in T : \A y \in T : ~ (<<y, m>> \in R)
  BY <1>1, WFMin
<1>4. \A y \in T : ~ (y < m)
  BY <1>2, <1>3
<1>5. m \in Nat /\ \A y \in T : y \in Nat
  OBVIOUS
<1> QED
  BY <1>4, <1>5

\* Induction from 0 up to n, for the set of numbers that have the property in question.
THEOREM InductionUpTo ==
    ASSUME NEW n \in Nat, NEW T,
           0 \in T,
           \A i \in 0 .. n - 1 : i \in T => i + 1 \in T
    PROVE  0 .. n \subseteq T
<1>1. SUFFICES ASSUME (0 .. n) \ T # {} PROVE FALSE
  OBVIOUS
<1>2. PICK m \in (0 .. n) \ T : \A k \in (0 .. n) \ T : m <= k
  BY <1>1, LeastNumber, (0 .. n) \ T \subseteq Nat
<1>3. m # 0 /\ m - 1 \in 0 .. n - 1 /\ m - 1 \in T
  BY <1>2
<1> QED
  BY <1>2, <1>3

\* Induction over all numbers.
THEOREM InductionOnNat ==
    ASSUME NEW T,
           0 \in T,
           \A i \in Nat : i \in T => i + 1 \in T
    PROVE  Nat \subseteq T
<1> SUFFICES ASSUME NEW n \in Nat PROVE n \in T
  OBVIOUS
<1>1. 0 .. n \subseteq T
  BY InductionUpTo
<1> QED
  BY <1>1

\* n steps, each a function on S, and a value of S to start from.
AreSteps(step, n, S, c) == n \in Nat /\ c \in S /\ step \in [1 .. n -> [S -> S]]

IsRecursion(f, step, n, S, c) ==
    /\ f \in [0 .. n -> S]
    /\ f[0] = c
    /\ \A i \in 1 .. n : f[i] = step[i][f[i - 1]]

\* A recursion over 0 .. n, whose i-th step is the function step[i], has a solution.
THEOREM RecursionExists ==
    ASSUME NEW step, NEW n, NEW S, NEW c, AreSteps(step, n, S, c)
    PROVE  \E f : IsRecursion(f, step, n, S, c)
<1>0. n \in Nat /\ c \in S /\ \A i \in 1 .. n, v \in S : step[i][v] \in S
  BY DEF AreSteps
<1> USE <1>0
<1> DEFINE Solves(f, k) ==
              /\ f \in [0 .. k -> S]
              /\ f[0] = c
              /\ \A i \in 1 .. k : f[i] = step[i][f[i - 1]]
<1> DEFINE T == {k \in 0 .. n : \E f : Solves(f, k)}
<1>1. 0 \in T
  <2>1. Solves([i \in 0 .. 0 |-> c], 0)
    OBVIOUS
  <2> HIDE DEF Solves
  <2>2. \E f : Solves(f, 0)
    BY <2>1
  <2> QED
    BY <2>2
<1>2. ASSUME NEW k \in 0 .. n - 1, k \in T
      PROVE  k + 1 \in T
  <2>1. PICK f : Solves(f, k)
    BY <1>2
  <2> DEFINE g == [i \in 0 .. k + 1 |-> IF i = k + 1 THEN step[k + 1][f[k]] ELSE f[i]]
  <2>2. f[k] \in S
    BY <2>1
  <2>3. step[k + 1][f[k]] \in S
    BY <2>2
  <2>4. g \in [0 .. k + 1 -> S] /\ g[0] = c
    BY <2>1, <2>3
  <2>5. ASSUME NEW i \in 1 .. k + 1 PROVE g[i] = step[i][g[i - 1]]
    BY <2>1
  <2>6. Solves(g, k + 1)
    BY <2>4, <2>5
  <2> HIDE DEF g, Solves
  <2>7. \E h : Solves(h, k + 1)
    BY <2>6
  <2> QED
    BY <2>7
<1> HIDE DEF T
<1>3. 0 .. n \subseteq T
  BY <1>1, <1>2, InductionUpTo
<1>4. n \in T
  BY <1>3
<1>5. PICK f : Solves(f, n)
  BY <1>4 DEF T
<1>6. IsRecursion(f, step, n, S, c)
  BY <1>5 DEF IsRecursion
<1> QED
  BY <1>6

-----------------------------------------------------------------------------
(* Folds over 1 .. n, as the community modules define FoldLeft: the elements *)
(* of the set are taken out one by one, the greatest first.                  *)

Greatest(s) == CHOOSE x \in s : \A y \in s : x >= y

LEMMA GreatestOfInterval ==
    ASSUME NEW k \in Nat, k > 0
    PROVE  /\ Greatest(1 .. k) = k
           /\ (1 .. k) \ {k} = 1 .. k - 1
<1>1. k \in 1 .. k /\ \A y \in 1 .. k : k >= y
  OBVIOUS
<1>2. \A x \in 1 .. k : (\A y \in 1 .. k : x >= y) => x = k
  OBVIOUS
<1>3. Greatest(1 .. k) \in 1 .. k /\ \A y \in 1 .. k : Greatest(1 .. k) >= y
  BY <1>1 DEF Greatest
<1>4. Greatest(1 .. k) = k
  BY <1>2, <1>3
<1> QED
  BY <1>4

\* A nonempty set of numbers up to n has a greatest one.
LEMMA GreatestExists ==
    ASSUME NEW n \in Nat, NEW s \in SUBSET (1 .. n), s # {}
    PROVE  \E x \in s : \A y \in s : x >= y
<1> DEFINE T == {n - x : x \in s}
<1>0. \A x \in s : x \in 1 .. n /\ n - x \in Nat
  OBVIOUS
<1>1. T \subseteq Nat /\ T # {}
  BY <1>0
<1>2. PICK m \in T : \A k \in T : m <= k
  BY <1>1, LeastNumber
<1>3. PICK x \in s : m = n - x
  BY <1>2
<1>4. \A y \in s : n - x <= n - y
  BY <1>2, <1>3
<1>5. \A y \in s : y \in 1 .. n
  OBVIOUS
<1> QED
  BY <1>4, <1>5

IsFold(iter, step, n, S, c) ==
    /\ iter = [s \in SUBSET (1 .. n) |->
                  IF s = {} THEN c ELSE step[Greatest(s)][iter[s \ {Greatest(s)}]]]
    /\ \A s \in SUBSET (1 .. n) : iter[s] \in S

\* The recursion over the subsets of 1 .. n that a fold is defined by has a solution.
THEOREM FoldExists ==
    ASSUME NEW step, NEW n, NEW S, NEW c, AreSteps(step, n, S, c)
    PROVE  \E iter : IsFold(iter, step, n, S, c)
<1>0. n \in Nat /\ c \in S /\ \A i \in 1 .. n, v \in S : step[i][v] \in S
  BY DEF AreSteps
<1> USE <1>0
<1> DEFINE Solves(it, k) ==
        /\ it = [s \in SUBSET (1 .. k) |->
                    IF s = {} THEN c ELSE step[Greatest(s)][it[s \ {Greatest(s)}]]]
        /\ \A s \in SUBSET (1 .. k) : it[s] \in S
<1> DEFINE T == {k \in 0 .. n : \E it : Solves(it, k)}
<1>1. 0 \in T
  <2> DEFINE it == [s \in SUBSET (1 .. 0) |-> c]
  <2>1. \A s \in SUBSET (1 .. 0) : s = {}
    OBVIOUS
  <2>2. Solves(it, 0)
    BY <2>1
  <2> HIDE DEF Solves, it
  <2>3. \E f : Solves(f, 0)
    BY <2>2
  <2> QED
    BY <2>3
<1>2. ASSUME NEW k \in 0 .. n - 1, k \in T
      PROVE  k + 1 \in T
  <2>1. PICK it : Solves(it, k)
    BY <1>2
  <2> DEFINE it2 == [s \in SUBSET (1 .. k + 1) |->
                        IF k + 1 \in s THEN step[k + 1][it[s \ {k + 1}]] ELSE it[s]]
  <2>2. ASSUME NEW s \in SUBSET (1 .. k + 1)
        PROVE  /\ it2[s] = IF s = {} THEN c ELSE step[Greatest(s)][it2[s \ {Greatest(s)}]]
               /\ it2[s] \in S
    <3>1. CASE k + 1 \in s
      <4>1. \A x \in s : x \in 1 .. k + 1
        OBVIOUS
      <4>2. \A x \in s : (\A y \in s : x >= y) => x = k + 1
        BY <3>1, <4>1
      <4>3. k + 1 \in s /\ \A y \in s : k + 1 >= y
        BY <3>1, <4>1
      <4>4. Greatest(s) \in s /\ \A y \in s : Greatest(s) >= y
        BY <4>3 DEF Greatest
      <4>5. Greatest(s) = k + 1
        BY <4>2, <4>4
      <4> DEFINE r == s \ {k + 1}
      <4>6. r \in SUBSET (1 .. k) /\ r \in SUBSET (1 .. k + 1) /\ k + 1 \notin r
        BY <4>1
      <4>7. it2[r] = it[r] /\ it[r] \in S
        BY <2>1, <4>6
      <4>8. it2[s] = step[k + 1][it[r]]
        BY <3>1
      <4> HIDE DEF it2, r
      <4>9. step[k + 1][it[r]] \in S
        BY <4>7, k + 1 \in 1 .. n
      <4> QED
        BY <3>1, <4>5, <4>7, <4>8, <4>9 DEF r
    <3>2. CASE k + 1 \notin s
      <4> DEFINE r == s \ {Greatest(s)}
      <4>0. \A x \in s : x \in 1 .. k
        <5>1. \A x \in s : x \in 1 .. k + 1 /\ x # k + 1
          BY <3>2
        <5> QED
          BY <5>1
      <4>1. s \in SUBSET (1 .. k) /\ r \in SUBSET (1 .. k) /\ r \in SUBSET (1 .. k + 1) /\ k + 1 \notin r
        BY <3>2, <4>0
      <4>2. it2[s] = it[s] /\ it2[r] = it[r]
        BY <3>2, <4>1
      <4>3. it[s] = (IF s = {} THEN c ELSE step[Greatest(s)][it[r]]) /\ it[s] \in S
        BY <2>1, <4>1
      <4> HIDE DEF it2
      <4> QED
        BY <4>2, <4>3
    <3> QED
      BY <3>1, <3>2
  <2>3. Solves(it2, k + 1)
    <3> DEFINE it3 == [s \in SUBSET (1 .. k + 1) |->
                         IF s = {} THEN c ELSE step[Greatest(s)][it2[s \ {Greatest(s)}]]]
    <3>1. \A s \in SUBSET (1 .. k + 1) : it2[s] = it3[s]
      BY <2>2
    <3>2. it2 = it3
      <4>1. /\ it2 = [s \in SUBSET (1 .. k + 1) |-> it2[s]]
            /\ it3 = [s \in SUBSET (1 .. k + 1) |-> it3[s]]
        OBVIOUS
      <4> HIDE DEF it2, it3
      <4> QED
        BY <3>1, <4>1
    <3>3. \A s \in SUBSET (1 .. k + 1) : it2[s] \in S
      BY <2>2
    <3> HIDE DEF it2
    <3>4. it2 = [s \in SUBSET (1 .. k + 1) |->
                   IF s = {} THEN c ELSE step[Greatest(s)][it2[s \ {Greatest(s)}]]]
      BY <3>2, Zenon
    <3> QED
      BY <3>3, <3>4
  <2> HIDE DEF Solves, it2
  <2>4. \E f : Solves(f, k + 1)
    BY <2>3
  <2> QED
    BY <2>4
<1> HIDE DEF T
<1>3. 0 .. n \subseteq T
  BY <1>1, <1>2, InductionUpTo
<1>4. n \in T
  BY <1>3
<1>5. PICK it : Solves(it, n)
  BY <1>4 DEF T
<1>6. IsFold(it, step, n, S, c)
  BY <1>5 DEF IsFold
<1> QED
  BY <1>6

-----------------------------------------------------------------------------
(* The elements of a finite set in a strict total order R have the ranks 0, 1, ... *)

IsOrder(R, S) ==
    /\ \A x, y, z \in S : <<x, y>> \in R /\ <<y, z>> \in R => <<x, z>> \in R
    /\ \A x \in S : <<x, x>> \notin R
    /\ \A x, y \in S : x = y \/ <<x, y>> \in R \/ <<y, x>> \in R

Below(R, S, x) == {y \in S : <<y, x>> \in R}

\* A finite set that is not empty has a last element.
LEMMA LastExists ==
    ASSUME NEW S, NEW R, IsFiniteSet(S), IsOrder(R, S), S # {}
    PROVE  \E x \in S : \A y \in S \ {x} : <<y, x>> \in R
<1> DEFINE HasLast(A) == \E x \in A : \A y \in A \ {x} : <<y, x>> \in R
<1> DEFINE T == {n \in Nat : \A A \in SUBSET S : Cardinality(A) = n + 1 => HasLast(A)}
<1>1. 0 \in T
  <2>1. ASSUME NEW A \in SUBSET S, Cardinality(A) = 1 PROVE HasLast(A)
    <3>1. PICK x : A = {x}
      BY <2>1, FS_Subset, FS_Singleton
    <3> QED
      BY <3>1
  <2> HIDE DEF HasLast
  <2> QED
    BY <2>1
<1>2. ASSUME NEW n \in Nat, n \in T PROVE n + 1 \in T
  <2>1. ASSUME NEW A \in SUBSET S, Cardinality(A) = n + 2 PROVE HasLast(A)
    <3>1. IsFiniteSet(A) /\ A # {}
      BY <2>1, FS_Subset, FS_EmptySet
    <3>2. PICK z : z \in A
      BY <3>1
    <3>3. Cardinality(A \ {z}) = n + 1
      <4>1. Cardinality(A \ {z}) = Cardinality(A) - 1
        BY <3>1, <3>2, FS_RemoveElement
      <4> QED
        BY <2>1, <4>1
    <3>4. HasLast(A \ {z})
      <4> DEFINE B == A \ {z}
      <4>1. B \in SUBSET S /\ Cardinality(B) = n + 1
        BY <3>3
      <4> HIDE DEF HasLast, B
      <4>2. HasLast(B)
        BY <1>2, <4>1
      <4> QED
        BY <4>2 DEF B
    <3>5. PICK x \in A \ {z} : \A y \in (A \ {z}) \ {x} : <<y, x>> \in R
      BY <3>4
    <3>6. x \in S /\ z \in S /\ x # z
      BY <3>2, <3>5
    <3>7. CASE <<z, x>> \in R
      <4>1. \A y \in A \ {x} : <<y, x>> \in R
        BY <3>5, <3>7
      <4> QED
        BY <3>5, <4>1
    <3>8. CASE <<x, z>> \in R
      <4>1. ASSUME NEW y \in A \ {z} PROVE <<y, z>> \in R
        <5>1. CASE y = x
          BY <3>8, <5>1
        <5>2. CASE y # x
          <6>1. <<y, x>> \in R /\ y \in S
            BY <3>5, <5>2
          <6> QED
            BY <3>6, <3>8, <6>1 DEF IsOrder
        <5> QED
          BY <5>1, <5>2
      <4> QED
        BY <3>2, <4>1
    <3> QED
      BY <3>6, <3>7, <3>8 DEF IsOrder
  <2>2. n + 1 + 1 = n + 2
    OBVIOUS
  <2> HIDE DEF HasLast
  <2> QED
    BY <2>1, <2>2
<1> HIDE DEF T, HasLast
<1>3. Nat \subseteq T
  BY <1>1, <1>2, InductionOnNat DEF T
<1>4. PICK n \in Nat : Cardinality(S) = n + 1
  <2>1. Cardinality(S) \in Nat /\ Cardinality(S) # 0
    BY FS_CardinalityType, FS_EmptySet
  <2>2. Cardinality(S) - 1 \in Nat /\ Cardinality(S) = (Cardinality(S) - 1) + 1
    BY <2>1
  <2> QED
    BY <2>2
<1>5. HasLast(S)
  BY <1>3, <1>4 DEF T
<1> QED
  BY <1>5 DEF HasLast

\* A later element has more elements below it.
LEMMA RanksGrow ==
    ASSUME NEW S, NEW R, IsFiniteSet(S), IsOrder(R, S), NEW x \in S, NEW y \in S, <<x, y>> \in R
    PROVE  Cardinality(Below(R, S, x)) < Cardinality(Below(R, S, y))
<1>1. Below(R, S, x) \cup {x} \subseteq Below(R, S, y)
  BY DEF Below, IsOrder
<1>2. x \notin Below(R, S, x)
  BY DEF Below, IsOrder
<1>3. IsFiniteSet(Below(R, S, x)) /\ IsFiniteSet(Below(R, S, y))
  BY FS_Subset DEF Below
<1>4. Cardinality(Below(R, S, x) \cup {x}) = Cardinality(Below(R, S, x)) + 1
  BY <1>2, <1>3, FS_AddElement
<1>5. Cardinality(Below(R, S, x) \cup {x}) <= Cardinality(Below(R, S, y))
  BY <1>1, <1>3, FS_Subset
<1>6. Cardinality(Below(R, S, x)) \in Nat /\ Cardinality(Below(R, S, y)) \in Nat
  BY <1>3, FS_CardinalityType
<1> QED
  BY <1>4, <1>5, <1>6

\* Every rank below the number of elements is that of one element.
LEMMA RanksTaken ==
    ASSUME NEW S, NEW R, IsFiniteSet(S), IsOrder(R, S), NEW k \in 1 .. Cardinality(S)
    PROVE  \E x \in S : Cardinality(Below(R, S, x)) = k - 1
<1> DEFINE AllTaken(A, n) == \A j \in 1 .. n : \E x \in A : Cardinality(Below(R, A, x)) = j - 1
<1> DEFINE T == {n \in Nat : \A A \in SUBSET S : Cardinality(A) = n => AllTaken(A, n)}
<1>1. 0 \in T
  BY DEF T
<1>2. ASSUME NEW n \in Nat, n \in T PROVE n + 1 \in T
  <2>1. ASSUME NEW A \in SUBSET S, Cardinality(A) = n + 1, NEW j \in 1 .. n + 1
        PROVE  \E x \in A : Cardinality(Below(R, A, x)) = j - 1
    <3>1. IsFiniteSet(A) /\ A # {}
      BY <2>1, FS_Subset, FS_EmptySet
    <3>2. IsOrder(R, A)
      BY DEF IsOrder
    <3>3. PICK g \in A : \A y \in A \ {g} : <<y, g>> \in R
      BY <3>1, <3>2, LastExists
    <3> DEFINE B == A \ {g}
    <3>4. Cardinality(B) = n
      BY <2>1, <3>1, FS_RemoveElement
    <3>5. CASE j = n + 1
      <4>1. Below(R, A, g) = B
        BY <3>2, <3>3 DEF Below, IsOrder
      <4>2. n = j - 1
        BY <3>5
      <4> HIDE DEF B
      <4>3. Cardinality(Below(R, A, g)) = j - 1
        BY <3>4, <4>1, <4>2
      <4> QED
        BY <4>3
    <3>6. CASE j # n + 1
      <4>1. j \in 1 .. n
        BY <3>6
      <4>2. AllTaken(B, n)
        <5> HIDE DEF AllTaken
        <5> QED
          BY <1>2, <3>4
      <4>3. PICK x \in B : Cardinality(Below(R, B, x)) = j - 1
        BY <4>1, <4>2
      <4>4. Below(R, A, x) = Below(R, B, x)
        <5>1. <<x, g>> \in R /\ x \in A
          BY <3>3, <4>3
        <5>2. <<g, x>> \notin R
          BY <3>2, <3>3, <5>1 DEF IsOrder
        <5> QED
          BY <5>2 DEF Below
      <4> QED
        BY <4>3, <4>4
    <3> QED
      BY <3>5, <3>6
  <2>2. \A A \in SUBSET S : Cardinality(A) = n + 1 => AllTaken(A, n + 1)
    BY <2>1
  <2>3. n + 1 \in Nat
    OBVIOUS
  <2> HIDE DEF AllTaken
  <2> QED
    BY <2>2, <2>3 DEF T
<1> HIDE DEF T
<1>3. Nat \subseteq T
  BY <1>1, <1>2, InductionOnNat DEF T
<1>4. Cardinality(S) \in Nat
  BY FS_CardinalityType
<1>5. AllTaken(S, Cardinality(S))
  <2> HIDE DEF AllTaken
  <2>1. Cardinality(S) \in T
    BY <1>3, <1>4
  <2> QED
    BY <2>1 DEF T
<1> QED
  BY <1>5

\* For a fact about all subsets of a finite set it is enough that it holds for the empty
\* set, and goes from a set to the set with one more element.
THEOREM SubsetInduction ==
    ASSUME NEW S, IsFiniteSet(S), NEW T,
           {} \in T,
           \A A \in SUBSET S : \A e \in S \ A : A \in T => A \cup {e} \in T
    PROVE  SUBSET S \subseteq T
<1> DEFINE N == {k \in Nat : \A A \in SUBSET S : Cardinality(A) = k => A \in T}
<1>1. 0 \in N
  BY FS_Subset, FS_EmptySet
<1>2. ASSUME NEW k \in Nat, k \in N PROVE k + 1 \in N
  <2>1. ASSUME NEW A \in SUBSET S, Cardinality(A) = k + 1 PROVE A \in T
    <3>1. IsFiniteSet(A) /\ A # {}
      BY <2>1, FS_Subset, FS_EmptySet
    <3>2. PICK e : e \in A
      BY <3>1
    <3> DEFINE B == A \ {e}
    <3>3. Cardinality(B) = Cardinality(A) - 1
      BY <3>1, <3>2, FS_RemoveElement
    <3>4. B \in SUBSET S /\ Cardinality(B) = k /\ e \in S \ B /\ A = B \cup {e}
      BY <2>1, <3>2, <3>3
    <3> HIDE DEF B
    <3>5. B \in T
      BY <1>2, <3>4
    <3> QED
      BY <3>4, <3>5
  <2> HIDE DEF N
  <2> QED
    BY <2>1 DEF N
<1> HIDE DEF N
<1>3. Nat \subseteq N
  BY <1>1, <1>2, InductionOnNat
<1>4. ASSUME NEW A \in SUBSET S PROVE A \in T
  BY <1>3, FS_Subset, FS_CardinalityType DEF N
<1> QED
  BY <1>4

\* The values of a function on a finite set are finitely many.
LEMMA FiniteImage ==
    ASSUME NEW S, IsFiniteSet(S), NEW f
    PROVE  IsFiniteSet({f[x] : x \in S})
<1> DEFINE R == {f[x] : x \in S}
           g == [x \in S |-> f[x]]
<1>1. g \in Surjection(S, R)
  BY DEF Surjection
<1> HIDE DEF R, g
<1>2. IsFiniteSet(R)
  BY <1>1, FS_Surjection
<1> QED
  BY <1>2 DEF R

-----------------------------------------------------------------------------
(* Sums over a finite set, as the community modules define MapThenSumSet:    *)
(* the elements of the set are taken out one by one, in any order.           *)

AnyValue(s) == CHOOSE x \in s : TRUE

IsSumOver(iter, v, S) ==
    iter = [s \in SUBSET S |-> IF s = {} THEN 0 ELSE v[AnyValue(s)] + iter[s \ {AnyValue(s)}]]

\* The sum of a set does not depend on which element is taken out first.
Additive(g, v, S) ==
    /\ g \in [SUBSET S -> Nat]
    /\ g[{}] = 0
    /\ \A s \in SUBSET S : \A x \in s : g[s] = v[x] + g[s \ {x}]

\* Sums over the subsets of S give sums over those with one more element e.
LEMMA AdditiveExtends ==
    ASSUME NEW S, NEW e, e \notin S, NEW v, NEW g, Additive(g, v, S),
           \A x \in S \cup {e} : v[x] \in Nat
    PROVE  \E h : Additive(h, v, S \cup {e})
<1> DEFINE All == SUBSET (S \cup {e})
           h == [s \in All |-> IF e \in s THEN v[e] + g[s \ {e}] ELSE g[s]]
<1>1. \A s \in All : s \ {e} \in SUBSET S /\ (e \notin s => s \in SUBSET S)
  OBVIOUS
<1>2. \A s \in SUBSET S : g[s] \in Nat
  BY DEF Additive
<1>3. /\ \A s \in All : e \in s => h[s] = v[e] + g[s \ {e}]
      /\ \A s \in All : e \notin s => h[s] = g[s]
  OBVIOUS
<1>4. h \in [All -> Nat]
  BY <1>1, <1>2
<1>5. h[{}] = 0
  BY <1>3 DEF Additive
<1> HIDE DEF h
<1>6. ASSUME NEW s \in All, NEW x \in s PROVE h[s] = v[x] + h[s \ {x}]
  <2> DEFINE r == s \ {x}
             t == s \ {e}
  <2>1. r \in All /\ t \in SUBSET S /\ (e \notin s => s \in SUBSET S)
    BY <1>1
  <2>2. CASE x = e
    <3>1. h[r] = g[r] /\ h[s] = v[e] + g[t] /\ r = t
      BY <1>3, <2>1, <2>2
    <3> QED
      BY <2>2, <3>1
  <2>3. CASE x # e /\ e \in s
    <3> DEFINE q == t \ {x}
    <3>1. x \in t /\ r \ {e} = q /\ e \in r /\ q \in SUBSET S
      BY <2>1, <2>3
    <3>2. h[s] = v[e] + g[t] /\ h[r] = v[e] + g[q] /\ g[t] = v[x] + g[q]
      BY <1>3, <2>1, <2>3, <3>1 DEF Additive
    <3>3. g[q] \in Nat /\ g[t] \in Nat
      BY <1>2, <2>1, <3>1
    <3> HIDE DEF q, r, t
    <3>4. h[s] = v[x] + h[r]
      <4> DEFINE gq == g[q]
                 gt == g[t]
                 vx == v[x]
                 ve == v[e]
      <4>1. h[s] = ve + gt /\ h[r] = ve + gq /\ gt = vx + gq /\ gq \in Nat /\ ve \in Nat
        BY <3>2, <3>3, e \in S \cup {e}
      <4>2. vx \in Nat
        BY <2>3
      <4> QED
        BY <4>1, <4>2
    <3> QED
      BY <3>4 DEF r
  <2>4. CASE e \notin s
    <3>1. h[s] = g[s] /\ h[r] = g[r] /\ s \in SUBSET S
      BY <1>3, <2>1, <2>4
    <3> QED
      BY <3>1 DEF Additive
  <2> QED
    BY <2>2, <2>3, <2>4
<1>7. Additive(h, v, S \cup {e})
  BY <1>4, <1>5, <1>6 DEF Additive
<1> QED
  BY <1>7

\* A finite set has sums.
LEMMA AdditiveExists ==
    ASSUME NEW S, IsFiniteSet(S), NEW v, \A x \in S : v[x] \in Nat
    PROVE  \E g : Additive(g, v, S)
<1> DEFINE T == {A \in SUBSET S : \E g : Additive(g, v, A)}
<1>1. {} \in T
  <2> DEFINE g == [s \in SUBSET {} |-> 0]
  <2>1. \A s \in SUBSET {} : s = {}
    OBVIOUS
  <2>2. Additive(g, v, {})
    BY <2>1 DEF Additive
  <2> HIDE DEF g
  <2> QED
    BY <2>2
<1>2. ASSUME NEW A \in SUBSET S, NEW e \in S \ A, A \in T PROVE A \cup {e} \in T
  BY <1>2, AdditiveExtends
<1> HIDE DEF T
<1>3. S \in T
  BY <1>1, <1>2, SubsetInduction
<1> QED
  BY <1>3 DEF T

LEMMA AdditiveIsSum ==
    ASSUME NEW S, NEW v, NEW g, Additive(g, v, S)
    PROVE  IsSumOver(g, v, S)
<1> DEFINE h == [s \in SUBSET S |-> IF s = {} THEN 0 ELSE v[AnyValue(s)] + g[s \ {AnyValue(s)}]]
<1>1. \A s \in SUBSET S : g[s] = h[s]
  BY DEF Additive, AnyValue
<1>2. h = [s \in SUBSET S |-> h[s]] /\ g = [s \in SUBSET S |-> g[s]]
  BY DEF Additive
<1> HIDE DEF h
<1>3. g = h
  BY <1>1, <1>2
<1> QED
  BY <1>3 DEF h, IsSumOver

\* Two functions that are sums in whichever way agree.
LEMMA SumIsAdditive ==
    ASSUME NEW S, IsFiniteSet(S), NEW v, NEW g, Additive(g, v, S),
           NEW A \in SUBSET S, NEW iter, IsSumOver(iter, v, A)
    PROVE  iter[A] = g[A]
<1> DEFINE T == {m \in Nat : \A s \in SUBSET A : Cardinality(s) = m => iter[s] = g[s]}
<1>1. IsFiniteSet(A) /\ \A s \in SUBSET A : IsFiniteSet(s)
  BY FS_Subset
<1>2. \A s \in SUBSET A : iter[s] = IF s = {} THEN 0 ELSE v[AnyValue(s)] + iter[s \ {AnyValue(s)}]
  BY DEF IsSumOver
<1>3. 0 \in T
  <2>1. \A s \in SUBSET A : Cardinality(s) = 0 => s = {}
    BY <1>1, FS_EmptySet
  <2> QED
    BY <1>2, <2>1 DEF Additive
<1>4. ASSUME NEW m \in Nat, m \in T PROVE m + 1 \in T
  <2>1. ASSUME NEW s \in SUBSET A, Cardinality(s) = m + 1 PROVE iter[s] = g[s]
    <3> DEFINE x == AnyValue(s)
               r == s \ {x}
    <3>1. s # {}
      BY <2>1, FS_EmptySet
    <3>2. x \in s /\ r \in SUBSET A
      BY <3>1 DEF AnyValue
    <3>3. Cardinality(r) = m
      <4>1. IsFiniteSet(s)
        BY <1>1
      <4> HIDE DEF x
      <4>2. Cardinality(r) = Cardinality(s) - 1
        BY <3>2, <4>1, FS_RemoveElement
      <4> QED
        BY <2>1, <4>2
    <3>4. iter[r] = g[r]
      BY <1>4, <3>2, <3>3
    <3>5. iter[s] = v[x] + iter[r]
      BY <1>2, <3>1
    <3>6. g[s] = v[x] + g[r]
      BY <3>2 DEF Additive
    <3> QED
      BY <3>4, <3>5, <3>6
  <2> QED
    BY <2>1
<1> HIDE DEF T
<1>5. Nat \subseteq T
  BY <1>3, <1>4, InductionOnNat
<1>6. Cardinality(A) \in T
  BY <1>1, <1>5, FS_CardinalityType
<1> QED
  BY <1>6 DEF T

\* The recursion that takes out any element first has a solution for every subset A of S,
\* and its value is the sum that Additive describes.
THEOREM SumOver ==
    ASSUME NEW S, IsFiniteSet(S), NEW v, NEW g, Additive(g, v, S), NEW A \in SUBSET S
    PROVE  /\ \E iter : IsSumOver(iter, v, A)
           /\ \A iter : IsSumOver(iter, v, A) => iter[A] = g[A]
<1> DEFINE h == [s \in SUBSET A |-> g[s]]
<1>1. \A s \in SUBSET A : h[s] = g[s] /\ s \in SUBSET S
  OBVIOUS
<1>2. Additive(h, v, A)
  BY <1>1 DEF Additive
<1> HIDE DEF h
<1>3. IsSumOver(h, v, A)
  BY <1>2, AdditiveIsSum
<1>4. \A iter : IsSumOver(iter, v, A) => iter[A] = g[A]
  BY SumIsAdditive
<1> QED
  BY <1>3, <1>4

\* The sum of one element more.
LEMMA SumOfOneMore ==
    ASSUME NEW S, NEW v, NEW g, Additive(g, v, S), NEW A \in SUBSET S, NEW e \in S \ A
    PROVE  g[A \cup {e}] = v[e] + g[A]
<1> DEFINE B == A \cup {e}
<1>1. B \in SUBSET S /\ e \in B /\ B \ {e} = A
  OBVIOUS
<1> HIDE DEF B
<1>2. g[B] = v[e] + g[A]
  BY <1>1 DEF Additive
<1> QED
  BY <1>2 DEF B

\* The sums of two disjoint sets.
THEOREM SumOfUnion ==
    ASSUME NEW S, IsFiniteSet(S), NEW v, \A x \in S : v[x] \in Nat, NEW g, Additive(g, v, S),
           NEW A \in SUBSET S, NEW B \in SUBSET S, A \cap B = {}
    PROVE  g[A \cup B] = g[A] + g[B]
<1> DEFINE T == {C \in SUBSET S : C \cap A = {} => g[A \cup C] = g[A] + g[C]}
<1>1. \A C \in SUBSET S : g[C] \in Nat
  BY DEF Additive
<1>2. {} \in T
  BY <1>1, A \cup {} = A DEF Additive
<1>3. ASSUME NEW C \in SUBSET S, NEW e \in S \ C, C \in T PROVE C \cup {e} \in T
  <2> SUFFICES ASSUME (C \cup {e}) \cap A = {}
               PROVE  g[A \cup (C \cup {e})] = g[A] + g[C \cup {e}]
    OBVIOUS
  <2> DEFINE AC == A \cup C
             AE == A \cup (C \cup {e})
             CE == C \cup {e}
  <2>1. AC \in SUBSET S /\ e \in S \ AC /\ AE = AC \cup {e} /\ CE \in SUBSET S
    OBVIOUS
  <2>2. g[AC] = g[A] + g[C]
    BY <1>3
  <2>3. g[CE] = v[e] + g[C]
    BY SumOfOneMore
  <2> HIDE DEF AC, AE, CE
  <2>4. g[AE] = v[e] + g[AC]
    BY <2>1, SumOfOneMore
  <2>5. g[A] \in Nat /\ g[C] \in Nat /\ v[e] \in Nat
    BY <1>1
  <2>6. g[AE] = g[A] + g[CE]
    BY <2>2, <2>3, <2>4, <2>5
  <2> QED
    BY <2>6 DEF AE, CE
<1> HIDE DEF T
<1>4. SUBSET S \subseteq T
  BY <1>2, <1>3, SubsetInduction
<1>5. B \in T
  BY <1>4
<1> QED
  BY <1>5 DEF T

\* A set has no smaller a sum than its subsets.
LEMMA SumGrows ==
    ASSUME NEW S, IsFiniteSet(S), NEW v, \A x \in S : v[x] \in Nat, NEW g, Additive(g, v, S),
           NEW B \in SUBSET S, NEW A \in SUBSET B
    PROVE  g[A] <= g[B]
<1> DEFINE C == B \ A
           D == A \cup C
<1>1. A \in SUBSET S /\ C \in SUBSET S /\ A \cap C = {} /\ D = A \cup C /\ D = B
  OBVIOUS
<1> HIDE DEF C, D
<1>2. g[D] = g[A] + g[C]
  BY <1>1, SumOfUnion
<1>3. g[A] \in Nat /\ g[C] \in Nat
  BY <1>1 DEF Additive
<1> QED
  BY <1>1, <1>2, <1>3

\* A sum does not depend on the names of the elements.
THEOREM SumOfImage ==
    ASSUME NEW S, IsFiniteSet(S), NEW v, NEW g, Additive(g, v, S),
           NEW R, NEW w, NEW h, Additive(h, w, R),
           NEW f \in [S -> R],
           \A x, y \in S : x # y => f[x] # f[y],
           \A x \in S : v[x] = w[f[x]],
           NEW A \in SUBSET S
    PROVE  g[A] = h[{f[x] : x \in A}]
<1> DEFINE Im(C) == {f[x] : x \in C}
           T == {C \in SUBSET S : g[C] = h[Im(C)]}
<1>1. {} \in T
  <2>1. Im({}) = {}
    OBVIOUS
  <2> HIDE DEF Im
  <2> QED
    BY <2>1 DEF Additive
<1>2. ASSUME NEW C \in SUBSET S, NEW e \in S \ C, C \in T PROVE C \cup {e} \in T
  <2>1. Im(C) \in SUBSET R /\ f[e] \in R \ Im(C) /\ Im(C \cup {e}) = Im(C) \cup {f[e]}
    OBVIOUS
  <2> HIDE DEF Im
  <2>2. g[C \cup {e}] = v[e] + g[C]
    BY SumOfOneMore
  <2>3. h[Im(C) \cup {f[e]}] = w[f[e]] + h[Im(C)]
    BY <2>1, SumOfOneMore
  <2> QED
    BY <1>2, <2>1, <2>2, <2>3
<1> HIDE DEF T
<1>3. SUBSET S \subseteq T
  BY <1>1, <1>2, SubsetInduction
<1>4. A \in T
  BY <1>3
<1> QED
  BY <1>4 DEF T

-----------------------------------------------------------------------------
(* Sums over 1 .. n. *)

IsSum(iter, v, n) == IsSumOver(iter, v, 1 .. n)

\* c[k] is the sum of v[1] to v[k].
AreSums(c, v, n) ==
    /\ c \in [0 .. n -> Nat]
    /\ c[0] = 0
    /\ \A k \in 1 .. n : c[k] = c[k - 1] + v[k]

\* The sum over 1 .. n is what adding v[1], v[2], ... gives.
THEOREM SumIs ==
    ASSUME NEW n \in Nat, NEW v \in [1 .. n -> Nat], NEW c, AreSums(c, v, n)
    PROVE  /\ \E iter : IsSum(iter, v, n)
           /\ \A iter : IsSum(iter, v, n) => iter[1 .. n] = c[n]
<1> DEFINE I == 1 .. n
<1>0. IsFiniteSet(I) /\ \A x \in I : v[x] \in Nat
  <2>1. IsFiniteSet(1 .. n)
    BY FS_Interval
  <2> QED
    BY <2>1
<1>1. PICK g : Additive(g, v, I)
  <2> HIDE DEF I
  <2> QED
    BY <1>0, AdditiveExists
<1> DEFINE T == {k \in 0 .. n : g[1 .. k] = c[k]}
<1>3. 0 \in T
  BY <1>1, 1 .. 0 = {} DEF Additive, AreSums
<1>4. ASSUME NEW k \in 0 .. n - 1, k \in T PROVE k + 1 \in T
  <2>1. /\ 1 .. k \in SUBSET I /\ k + 1 \in I \ (1 .. k) /\ (1 .. k) \cup {k + 1} = 1 .. k + 1
        /\ k + 1 \in 1 .. n /\ (k + 1) - 1 = k
    OBVIOUS
  <2>2. g[1 .. k + 1] = v[k + 1] + g[1 .. k]
    <3> DEFINE A == 1 .. k
    <3>1. A \in SUBSET I /\ k + 1 \in I \ A
      BY <2>1
    <3> HIDE DEF A, I
    <3>2. g[A \cup {k + 1}] = v[k + 1] + g[A]
      BY <1>1, <3>1, SumOfOneMore
    <3> QED
      BY <2>1, <3>2 DEF A
  <2>3. c[k + 1] = c[k] + v[k + 1] /\ c[k] \in Nat /\ v[k + 1] \in Nat
    BY <2>1 DEF AreSums
  <2> QED
    BY <1>4, <2>2, <2>3
<1> HIDE DEF T
<1>5. 0 .. n \subseteq T
  BY <1>3, <1>4, InductionUpTo
<1>6. n \in T
  BY <1>5
<1>7. g[I] = c[n]
  BY <1>6 DEF T
<1> HIDE DEF I
<1>8. (\E iter : IsSumOver(iter, v, I)) /\ \A iter : IsSumOver(iter, v, I) => iter[I] = c[n]
  BY <1>0, <1>1, <1>7, SumOver
<1> QED
  BY <1>8 DEF I, IsSum

\* Such sums exist.
LEMMA SumsExist ==
    ASSUME NEW n \in Nat, NEW v \in [1 .. n -> Nat]
    PROVE  \E c : AreSums(c, v, n)
<1> DEFINE step == [k \in 1 .. n |-> [t \in Nat |-> t + v[k]]]
<1>1. step \in [1 .. n -> [Nat -> Nat]]
  OBVIOUS
<1>2. \A k \in 1 .. n, t \in Nat : step[k][t] = t + v[k]
  OBVIOUS
<1> HIDE DEF step
<1>3. PICK c : IsRecursion(c, step, n, Nat, 0)
  BY <1>1, RecursionExists DEF AreSteps
<1>4. c \in [0 .. n -> Nat] /\ c[0] = 0 /\ \A k \in 1 .. n : c[k] = step[k][c[k - 1]]
  BY <1>3 DEF IsRecursion
<1>5. \A k \in 1 .. n : c[k - 1] \in Nat
  BY <1>4
<1>6. \A k \in 1 .. n : c[k] = c[k - 1] + v[k]
  BY <1>2, <1>4, <1>5
<1> QED
  BY <1>4, <1>6 DEF AreSums

\* They grow.
LEMMA SumsGrow ==
    ASSUME NEW n \in Nat, NEW v \in [1 .. n -> Nat], NEW c, AreSums(c, v, n),
           NEW j \in 0 .. n, NEW k \in 0 .. n, j <= k
    PROVE  c[j] <= c[k]
<1> DEFINE T == {i \in 0 .. n : j <= i => c[j] <= c[i]}
<1>1. /\ \A i \in 0 .. n : c[i] \in Nat
      /\ \A i \in 1 .. n : c[i] = c[i - 1] + v[i] /\ v[i] \in Nat
  BY DEF AreSums
<1>2. 0 \in T
  BY <1>1
<1>3. ASSUME NEW i \in 0 .. n - 1, i \in T PROVE i + 1 \in T
  <2>1. i + 1 \in 1 .. n /\ i + 1 \in 0 .. n /\ i \in 0 .. n
    OBVIOUS
  <2>2. c[i + 1] = c[i] + v[i + 1] /\ v[i + 1] \in Nat
    <3>1. (i + 1) - 1 = i
      OBVIOUS
    <3> QED
      BY <1>1, <2>1, <3>1
  <2>3. CASE j <= i
    BY <1>1, <1>3, <2>1, <2>2, <2>3
  <2>4. CASE ~ (j <= i)
    <3>1. j <= i + 1 => j = i + 1
      BY <2>4
    <3> QED
      BY <1>1, <2>1, <3>1
  <2> QED
    BY <2>3, <2>4
<1> HIDE DEF T
<1>4. 0 .. n \subseteq T
  BY <1>2, <1>3, InductionUpTo
<1>5. k \in T
  BY <1>4
<1> QED
  BY <1>5 DEF T

\* Rows of v[1], v[2], ... elements one after the other: the k-th of row b is number off[b - 1] + k.
FillUp(off, v, n) ==
    /\ \A b \in 1 .. n : \A k \in 1 .. v[b] : off[b - 1] + k \in 1 .. off[n]
    /\ \A j \in 1 .. off[n] : \E b \in 1 .. n : \E k \in 1 .. v[b] : j = off[b - 1] + k

LEMMA RowsFill ==
    ASSUME NEW n \in Nat, NEW v \in [1 .. n -> Nat], NEW off, AreSums(off, v, n)
    PROVE  FillUp(off, v, n)
<1>1. /\ \A i \in 0 .. n : off[i] \in Nat
      /\ off[0] = 0
      /\ \A b \in 1 .. n : /\ off[b] = off[b - 1] + v[b] /\ v[b] \in Nat
                           /\ b \in 0 .. n /\ b - 1 \in 0 .. n /\ off[b - 1] \in Nat /\ off[b] \in Nat
  BY DEF AreSums
<1>2. \A i, j \in 0 .. n : i <= j => off[i] <= off[j]
  BY SumsGrow
<1>3. ASSUME NEW b \in 1 .. n, NEW k \in 1 .. v[b] PROVE off[b - 1] + k \in 1 .. off[n]
  <2>1. off[b] <= off[n] /\ off[n] \in Nat
    BY <1>1, <1>2
  <2> QED
    BY <1>1, <2>1
<1> DEFINE T == {m \in 0 .. n : \A j \in 1 .. off[m] :
                                   \E b \in 1 .. n : \E k \in 1 .. v[b] : j = off[b - 1] + k}
<1>4. 0 \in T
  BY <1>1
<1>5. ASSUME NEW m \in 0 .. n - 1, m \in T PROVE m + 1 \in T
  <2> DEFINE i == m + 1
  <2>1. i \in 1 .. n /\ i \in 0 .. n /\ i - 1 = m /\ m \in 0 .. n
    OBVIOUS
  <2> HIDE DEF i
  <2>2. off[i] = off[m] + v[i] /\ v[i] \in Nat /\ off[m] \in Nat
    BY <1>1, <2>1
  <2>3. ASSUME NEW j \in 1 .. off[i] PROVE \E b \in 1 .. n : \E k \in 1 .. v[b] : j = off[b - 1] + k
    <3>1. CASE j <= off[m]
      BY <1>5, <2>2, <3>1
    <3>2. CASE j > off[m]
      <4> DEFINE k == j - off[m]
      <4>1. k \in 1 .. v[i] /\ j = off[i - 1] + k
        BY <2>1, <2>2, <3>2
      <4> QED
        BY <2>1, <4>1
    <3> QED
      BY <2>2, <3>1, <3>2
  <2> QED
    BY <2>1, <2>3 DEF i
<1> HIDE DEF T
<1>6. 0 .. n \subseteq T
  BY <1>4, <1>5, InductionUpTo
<1>7. n \in T
  BY <1>6
<1> QED
  BY <1>3, <1>7 DEF T, FillUp

\* A sum over 1 .. n may also be taken as a fold, the last element first.
IsFoldedSum(iter, v, n) ==
    iter = [s \in SUBSET (1 .. n) |-> IF s = {} THEN 0 ELSE iter[s \ {Greatest(s)}] + v[Greatest(s)]]

THEOREM FoldedSumIs ==
    ASSUME NEW n \in Nat, NEW v \in [1 .. n -> Nat], NEW c, AreSums(c, v, n)
    PROVE  /\ \E iter : IsFoldedSum(iter, v, n)
           /\ \A iter : IsFoldedSum(iter, v, n) => iter[1 .. n] = c[n]
<1> DEFINE step == [i \in 1 .. n |-> [u \in Nat |-> u + v[i]]]
<1>1. step \in [1 .. n -> [Nat -> Nat]] /\ \A i \in 1 .. n, u \in Nat : step[i][u] = u + v[i]
  OBVIOUS
<1> HIDE DEF step
<1>2. PICK f : IsFold(f, step, n, Nat, 0)
  BY <1>1, FoldExists DEF AreSteps
<1>3. \A s \in SUBSET (1 .. n) : s # {} => Greatest(s) \in s
  BY GreatestExists DEF Greatest
<1>4. IsFoldedSum(f, v, n)
  <2> DEFINE h == [s \in SUBSET (1 .. n) |->
                     IF s = {} THEN 0 ELSE f[s \ {Greatest(s)}] + v[Greatest(s)]]
  <2>1. ASSUME NEW s \in SUBSET (1 .. n) PROVE f[s] = h[s]
    <3>1. CASE s = {}
      BY <1>2, <3>1 DEF IsFold
    <3>2. CASE s # {}
      <4>1. Greatest(s) \in 1 .. n /\ s \ {Greatest(s)} \in SUBSET (1 .. n)
        BY <1>3, <3>2
      <4>2. f[s] = step[Greatest(s)][f[s \ {Greatest(s)}]] /\ f[s \ {Greatest(s)}] \in Nat
        BY <1>2, <3>2, <4>1 DEF IsFold
      <4>3. f[s] = f[s \ {Greatest(s)}] + v[Greatest(s)]
        BY <1>1, <4>1, <4>2
      <4> QED
        BY <3>2, <4>3
    <3> QED
      BY <3>1, <3>2
  <2>2. f = [s \in SUBSET (1 .. n) |-> f[s]] /\ h = [s \in SUBSET (1 .. n) |-> h[s]]
    BY <1>2 DEF IsFold
  <2>3. h = [s \in SUBSET (1 .. n) |-> IF s = {} THEN 0 ELSE f[s \ {Greatest(s)}] + v[Greatest(s)]]
    OBVIOUS
  <2> HIDE DEF h
  <2>4. f = h
    BY <2>1, <2>2
  <2> QED
    BY <2>3, <2>4 DEF IsFoldedSum
<1>5. ASSUME NEW iter, IsFoldedSum(iter, v, n) PROVE iter[1 .. n] = c[n]
  <2> DEFINE T == {k \in 0 .. n : iter[1 .. k] = c[k]}
  <2>1. \A s \in SUBSET (1 .. n) :
           iter[s] = IF s = {} THEN 0 ELSE iter[s \ {Greatest(s)}] + v[Greatest(s)]
    BY <1>5 DEF IsFoldedSum
  <2>2. 0 \in T
    <3>1. 1 .. 0 = {} /\ {} \in SUBSET (1 .. n)
      OBVIOUS
    <3>2. iter[1 .. 0] = 0
      BY <2>1, <3>1
    <3> QED
      BY <3>2 DEF AreSums
  <2>3. ASSUME NEW k \in 0 .. n - 1, k \in T PROVE k + 1 \in T
    <3> DEFINE m == k + 1
               A == 1 .. m
    <3>1. m \in 1 .. n /\ m \in Nat /\ m > 0 /\ m - 1 = k /\ m \in 0 .. n
      OBVIOUS
    <3>2. A \in SUBSET (1 .. n) /\ A # {}
      BY <3>1
    <3>3. Greatest(A) = m /\ A \ {m} = 1 .. k
      BY <3>1, GreatestOfInterval
    <3>4. iter[A] = iter[A \ {Greatest(A)}] + v[Greatest(A)]
      BY <2>1, <3>2
    <3>5. c[m] = c[k] + v[m]
      BY <3>1 DEF AreSums
    <3> HIDE DEF A, m
    <3>6. iter[A] = c[m]
      BY <2>3, <3>3, <3>4, <3>5
    <3> QED
      BY <3>1, <3>6 DEF A, m
  <2> HIDE DEF T
  <2>4. 0 .. n \subseteq T
    BY <2>2, <2>3, InductionUpTo
  <2>5. n \in T
    BY <2>4
  <2> QED
    BY <2>5 DEF T
<1> QED
  BY <1>4, <1>5

\* Two ways to round up a quotient.
LEMMA RoundedUp ==
    ASSUME NEW n \in Nat \ {0}, NEW c \in Nat \ {0}
    PROVE  /\ (n - 1) \div c \in Nat
           /\ (n - 1) \div c + 1 = (n + c - 1) \div c
<1> DEFINE q == (n - 1) \div c
           r == (n - 1) % c
           p == (n + c - 1) \div c
           s == (n + c - 1) % c
<1>1. q \in Nat /\ r \in 0 .. c - 1 /\ n - 1 = c * q + r
  <2>1. n - 1 \in Nat
    OBVIOUS
  <2> QED
    BY <2>1
<1>2. p \in Nat /\ s \in 0 .. c - 1 /\ n + c - 1 = c * p + s
  <2>1. n + c - 1 \in Nat
    OBVIOUS
  <2> QED
    BY <2>1
<1> HIDE DEF q, r, p, s
<1>3. c * p + s = c * (q + 1) + r
  BY <1>1, <1>2
<1>4. CASE p < q + 1
  <2>1. c * (p + 1) <= c * (q + 1)
    BY <1>1, <1>2, <1>4
  <2> QED
    BY <1>1, <1>2, <1>3, <2>1
<1>5. CASE p > q + 1
  <2>1. c * (q + 1 + 1) <= c * p
    BY <1>1, <1>2, <1>5
  <2> QED
    BY <1>1, <1>2, <1>3, <2>1
<1>6. p = q + 1
  BY <1>1, <1>2, <1>4, <1>5
<1> QED
  BY <1>1, <1>6 DEF p, q

-----------------------------------------------------------------------------
(* Elements that come and go: step b takes in those that come at b, and      *)
(* keeps those that are due at limit[b] or later.                            *)

Held(Q, comes, due, limit, b) == {x \in Q : comes[x] <= b /\ (b > 0 => due[x] >= limit[b])}

\* What step b lets go, and what it takes in.
LetGo(Q, comes, due, limit, b) == {x \in Held(Q, comes, due, limit, b - 1) : due[x] < limit[b]}
TakenIn(Q, comes, due, limit, b) == {x \in Q : comes[x] = b /\ due[x] >= limit[b]}

\* The elements come at steps 1 to n, and are due at numbers; the limits do not descend.
\* v is what each counts for, and g gives the sums.
IsFlow(Q, comes, due, limit, n, v, g) ==
    /\ IsFiniteSet(Q)
    /\ comes \in [Q -> 1 .. n]
    /\ due \in [Q -> Nat]
    /\ n \in Nat
    /\ limit \in [1 .. n -> Nat]
    /\ \A b, c \in 1 .. n : b <= c => limit[b] <= limit[c]
    /\ \A x \in Q : v[x] \in Nat
    /\ Additive(g, v, Q)

\* Step b: what goes and what comes, and the sum of what is held after it.
THEOREM HeldStep ==
    ASSUME NEW Q, NEW comes, NEW due, NEW limit, NEW n, NEW v, NEW g,
           IsFlow(Q, comes, due, limit, n, v, g), NEW b \in 1 .. n
    PROVE  LET before == Held(Q, comes, due, limit, b - 1)
               after == Held(Q, comes, due, limit, b)
               gone == LetGo(Q, comes, due, limit, b)
               come == TakenIn(Q, comes, due, limit, b)
           IN /\ after = (before \ gone) \cup come
              /\ after \in SUBSET Q /\ gone \in SUBSET Q /\ come \in SUBSET Q
              /\ g[after] = g[before] - g[gone] + g[come]
<1> DEFINE before == Held(Q, comes, due, limit, b - 1)
           after == Held(Q, comes, due, limit, b)
           gone == LetGo(Q, comes, due, limit, b)
           come == TakenIn(Q, comes, due, limit, b)
           rest == before \ gone
<1>0. IsFiniteSet(Q) /\ (\A x \in Q : v[x] \in Nat) /\ Additive(g, v, Q)
  BY DEF IsFlow
<1>1. /\ n \in Nat /\ b > 0 /\ limit[b] \in Nat
      /\ b - 1 > 0 => limit[b - 1] \in Nat /\ limit[b - 1] <= limit[b]
  <2>1. n \in Nat /\ b > 0 /\ limit[b] \in Nat
    BY DEF IsFlow
  <2>2. b - 1 > 0 => b - 1 \in 1 .. n /\ b - 1 <= b
    BY <2>1
  <2> QED
    BY <2>1, <2>2 DEF IsFlow
<1>2. \A x \in Q : comes[x] \in 1 .. n /\ due[x] \in Nat
  BY DEF IsFlow
<1>3. before \in SUBSET Q /\ after \in SUBSET Q /\ gone \in SUBSET before /\ come \in SUBSET Q
  BY DEF Held, LetGo, TakenIn
<1>4. ASSUME NEW x \in Q
      PROVE  /\ x \in rest <=> comes[x] <= b - 1 /\ due[x] >= limit[b]
             /\ x \in come <=> comes[x] = b /\ due[x] >= limit[b]
             /\ x \in after <=> comes[x] <= b /\ due[x] >= limit[b]
  <2>1. x \in before <=> comes[x] <= b - 1 /\ (b - 1 > 0 => due[x] >= limit[b - 1])
    BY DEF Held
  <2>2. x \in rest <=> x \in before /\ ~ (due[x] < limit[b])
    BY DEF LetGo
  <2>3. x \in after <=> comes[x] <= b /\ due[x] >= limit[b]
    BY <1>1 DEF Held
  <2>4. comes[x] \in 1 .. n /\ due[x] \in Nat
    BY <1>2
  <2> HIDE DEF before, after, gone, rest
  <2>5. x \in rest <=> comes[x] <= b - 1 /\ due[x] >= limit[b]
    BY <1>1, <2>1, <2>2, <2>4
  <2>6. x \in come <=> comes[x] = b /\ due[x] >= limit[b]
    BY DEF TakenIn
  <2> QED
    BY <2>3, <2>5, <2>6
<1> HIDE DEF before, after, gone, come
<1>5. after = rest \cup come /\ rest \cap come = {} /\ rest \in SUBSET Q /\ gone \in SUBSET Q
  <2>1. rest \in SUBSET Q /\ gone \in SUBSET Q
    BY <1>3
  <2>2. ASSUME NEW x \in Q PROVE /\ x \in after <=> x \in rest \/ x \in come
                                 /\ ~ (x \in rest /\ x \in come)
    <3>1. comes[x] \in Nat /\ b \in Nat
      BY <1>1, <1>2
    <3> QED
      BY <1>4, <3>1
  <2> QED
    BY <1>3, <2>1, <2>2
<1>6. before = rest \cup gone /\ rest \cap gone = {}
  BY <1>3
<1> HIDE DEF rest
<1>7. g[after] = g[rest] + g[come]
  BY <1>0, <1>3, <1>5, SumOfUnion
<1>8. g[before] = g[rest] + g[gone]
  BY <1>0, <1>5, <1>6, SumOfUnion
<1>9. g[rest] \in Nat /\ g[gone] \in Nat /\ g[come] \in Nat
  BY <1>0, <1>3, <1>5 DEF Additive
<1>10. g[after] = g[before] - g[gone] + g[come]
  <2> DEFINE r == g[rest]
             o == g[gone]
             c == g[come]
  <2>1. r \in Nat /\ o \in Nat /\ c \in Nat /\ g[after] = r + c /\ g[before] = r + o
    BY <1>7, <1>8, <1>9
  <2> HIDE DEF r, o, c
  <2>2. g[after] = g[before] - o + c
    BY <2>1
  <2> QED
    BY <2>2 DEF o, c
<1>11. after = (before \ gone) \cup come
  BY <1>5 DEF rest
<1> QED
  BY <1>3, <1>5, <1>10, <1>11 DEF before, after, gone, come

\* The largest of s[0] to s[b], found in order.
IsPeak(top, s, n) ==
    /\ top \in [0 .. n -> Nat]
    /\ top[0] = s[0]
    /\ \A b \in 1 .. n : top[b] = IF s[b] > top[b - 1] THEN s[b] ELSE top[b - 1]

LEMMA PeakExists ==
    ASSUME NEW n \in Nat, NEW s \in [0 .. n -> Nat]
    PROVE  \E top : IsPeak(top, s, n)
<1> DEFINE step == [b \in 1 .. n |-> [t \in Nat |-> IF s[b] > t THEN s[b] ELSE t]]
<1>1. step \in [1 .. n -> [Nat -> Nat]] /\ s[0] \in Nat
  OBVIOUS
<1>2. \A b \in 1 .. n, t \in Nat : step[b][t] = IF s[b] > t THEN s[b] ELSE t
  OBVIOUS
<1> HIDE DEF step
<1>3. PICK top : IsRecursion(top, step, n, Nat, s[0])
  BY <1>1, RecursionExists DEF AreSteps
<1>4. top \in [0 .. n -> Nat] /\ top[0] = s[0] /\ \A b \in 1 .. n : top[b] = step[b][top[b - 1]]
  BY <1>3 DEF IsRecursion
<1>5. \A b \in 1 .. n : top[b - 1] \in Nat
  BY <1>4
<1>6. \A b \in 1 .. n : top[b] = IF s[b] > top[b - 1] THEN s[b] ELSE top[b - 1]
  BY <1>2, <1>4, <1>5
<1> QED
  BY <1>4, <1>6 DEF IsPeak

\* It is one of them, and none is larger.
THEOREM PeakIsLargest ==
    ASSUME NEW n \in Nat, NEW s \in [0 .. n -> Nat], NEW top, IsPeak(top, s, n), NEW b \in 0 .. n
    PROVE  /\ \A c \in 0 .. b : s[c] <= top[b]
           /\ \E c \in 0 .. b : s[c] = top[b]
<1> DEFINE T == {m \in 0 .. n : /\ \A c \in 0 .. m : s[c] <= top[m]
                                /\ \E c \in 0 .. m : s[c] = top[m]}
<1>1. /\ \A c \in 0 .. n : s[c] \in Nat /\ top[c] \in Nat
      /\ top[0] = s[0]
      /\ \A c \in 1 .. n : top[c] = IF s[c] > top[c - 1] THEN s[c] ELSE top[c - 1]
  BY DEF IsPeak
<1>2. 0 \in T
  BY <1>1
<1>3. ASSUME NEW m \in 0 .. n - 1, m \in T PROVE m + 1 \in T
  <2> DEFINE k == m + 1
  <2>1. k \in 1 .. n /\ k \in 0 .. n /\ k - 1 = m /\ m \in 0 .. n /\ m \in Nat
    OBVIOUS
  <2>2. top[k] = (IF s[k] > top[m] THEN s[k] ELSE top[m])
        /\ s[k] \in Nat /\ top[m] \in Nat
    BY <1>1, <2>1
  <2>3. /\ \A c \in 0 .. m : s[c] <= top[m] /\ s[c] \in Nat
        /\ \E c \in 0 .. m : s[c] = top[m]
    BY <1>1, <1>3, <2>1
  <2>4. \A c \in 0 .. k : c = k \/ c \in 0 .. m
    BY <2>1
  <2>5. \A c \in 0 .. m : c \in 0 .. k
    BY <2>1
  <2>6. k \in 0 .. k
    BY <2>1
  <2> HIDE DEF k
  <2>7. \A c \in 0 .. k : s[c] <= top[k]
    <3> SUFFICES ASSUME NEW c \in 0 .. k PROVE s[c] <= top[k]
      OBVIOUS
    <3>1. CASE c = k
      BY <2>2, <3>1
    <3>2. CASE c \in 0 .. m
      <4>1. s[c] <= top[m] /\ s[c] \in Nat
        BY <2>3, <3>2
      <4> QED
        BY <2>2, <4>1
    <3> QED
      BY <2>4, <3>1, <3>2
  <2>8. \E c \in 0 .. k : s[c] = top[k]
    BY <2>2, <2>3, <2>5, <2>6
  <2>9. k \in T
    BY <2>1, <2>7, <2>8
  <2> QED
    BY <2>9 DEF k
<1> HIDE DEF T
<1>4. 0 .. n \subseteq T
  BY <1>2, <1>3, InductionUpTo
<1>5. b \in T
  BY <1>4
<1> QED
  BY <1>5 DEF T
=============================================================================
