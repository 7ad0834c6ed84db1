------------------------------- MODULE Ranks -------------------------------
(***************************************************************************)
(* Positions in a finite set that is put in order, for the proofs about    *)
(* what the code sorts: the times of the benchmark, the candidates for the *)
(* primary, the parameters of a query, the keys of a listing.              *)
(*                                                                         *)
(* The models say where an element comes by counting those that are not    *)
(* behind it.  Here: every position from 1 to the size of the set is that  *)
(* of one element, so an element with a given position can be chosen, and  *)
(* there is a first one.  (An order is a set of pairs, not an operator,    *)
(* since the provers cannot instantiate operators.)                        *)
(***************************************************************************)
EXTENDS Integers, FiniteSetTheorems, TLAPS

\* R puts the elements of S in order, none beside another.
Orders(R, S) ==
    /\ \A x \in S : <<x, x>> \notin R
    /\ \A x, y, z \in S : <<x, y>> \in R /\ <<y, z>> \in R => <<x, z>> \in R
    /\ \A x, y \in S : x = y \/ <<x, y>> \in R \/ <<y, x>> \in R

UpTo(x, S, R) == {y \in S : y = x \/ <<y, x>> \in R}
Rank(x, S, R) == Cardinality(UpTo(x, S, R))

LEMMA PositionsFinite ==
  ASSUME NEW n \in Nat
  PROVE  IsFiniteSet(1 .. n) /\ Cardinality(1 .. n) = n
BY FS_Interval

\* A position is one of the numbers from 1 to the size of the set.
LEMMA RankType ==
  ASSUME NEW S, IsFiniteSet(S), NEW R, NEW x \in S
  PROVE  Rank(x, S, R) \in 1 .. Cardinality(S)
<1>1. UpTo(x, S, R) \in SUBSET S /\ x \in UpTo(x, S, R)
  BY DEF UpTo
<1>2. /\ IsFiniteSet(UpTo(x, S, R))
      /\ Cardinality(UpTo(x, S, R)) <= Cardinality(S)
  BY <1>1, FS_Subset
<1>3. Cardinality(UpTo(x, S, R)) \in Nat /\ Cardinality(S) \in Nat
  BY <1>2, FS_CardinalityType
<1>4. Cardinality(UpTo(x, S, R)) # 0
  BY <1>1, <1>2, FS_EmptySet
<1> QED
  BY <1>2, <1>3, <1>4 DEF Rank

\* What comes before has the lower position.
LEMMA RankIncreases ==
  ASSUME NEW S, IsFiniteSet(S), NEW R, Orders(R, S),
         NEW x \in S, NEW y \in S, <<x, y>> \in R
  PROVE  Rank(x, S, R) < Rank(y, S, R)
<1>1. UpTo(x, S, R) \in SUBSET UpTo(y, S, R)
  BY DEF Orders, UpTo
<1>2. y \in UpTo(y, S, R) /\ y \notin UpTo(x, S, R)
  BY DEF Orders, UpTo
<1>3. UpTo(y, S, R) \in SUBSET S
  BY DEF UpTo
<1>4. IsFiniteSet(UpTo(y, S, R))
  BY <1>3, FS_Subset
<1>5. /\ Cardinality(UpTo(x, S, R)) <= Cardinality(UpTo(y, S, R))
      /\ Cardinality(UpTo(x, S, R)) # Cardinality(UpTo(y, S, R))
  BY <1>1, <1>2, <1>4, FS_Subset
<1>6. Rank(x, S, R) \in Int /\ Rank(y, S, R) \in Int
  BY RankType
<1> QED
  BY <1>5, <1>6 DEF Rank

\* No two elements have the same position.
LEMMA RankInjective ==
  ASSUME NEW S, IsFiniteSet(S), NEW R, Orders(R, S),
         NEW x \in S, NEW y \in S, Rank(x, S, R) = Rank(y, S, R)
  PROVE  x = y
<1>1. Rank(x, S, R) \in Int /\ Rank(y, S, R) \in Int
  BY RankType
<1>2. <<x, y>> \notin R
  BY <1>1, RankIncreases
<1>3. <<y, x>> \notin R
  BY <1>1, RankIncreases
<1> QED
  BY <1>2, <1>3 DEF Orders

\* Every position is somebody's: an injection of a finite set into one of the
\* same size leaves out nothing.
LEMMA RankExists ==
  ASSUME NEW S, IsFiniteSet(S), NEW R, Orders(R, S),
         NEW k \in 1 .. Cardinality(S)
  PROVE  \E x \in S : Rank(x, S, R) = k
<1> DEFINE n == Cardinality(S)
           f == [x \in S |-> Rank(x, S, R)]
<1>1. n \in Nat
  BY FS_CardinalityType
<1>2. f \in [S -> 1 .. n]
  BY RankType
<1>3. \A x, y \in S : f[x] = f[y] => x = y
  <2>1. ASSUME NEW x \in S, NEW y \in S, Rank(x, S, R) = Rank(y, S, R)
        PROVE  x = y
    BY <2>1, RankInjective
  <2> QED
    BY <2>1
<1>4. f \in Injection(S, 1 .. n)
  BY <1>2, <1>3 DEF Injection, IsInjective
<1>5. IsFiniteSet(1 .. n) /\ Cardinality(1 .. n) = n
  BY <1>1, FS_Interval
<1> HIDE DEF f
<1>6. f \in Surjection(S, 1 .. n)
  BY <1>4, <1>5, FS_Injection
<1>7. PICK x \in S : f[x] = k
  BY <1>6 DEF Surjection
<1> QED
  BY <1>7 DEF f

\* A set that is not empty has a first element.
LEMMA FirstExists ==
  ASSUME NEW S, IsFiniteSet(S), S # {}, NEW R, Orders(R, S)
  PROVE  \E x \in S : \A y \in S : y = x \/ <<x, y>> \in R
<1>1. Cardinality(S) \in Nat /\ Cardinality(S) # 0
  BY FS_CardinalityType, FS_EmptySet
<1>2. PICK x \in S : Rank(x, S, R) = 1
  BY <1>1, RankExists
<1>3. ASSUME NEW y \in S, <<y, x>> \in R
      PROVE  FALSE
  <2>1. Rank(y, S, R) < 1 /\ Rank(y, S, R) \in 1 .. Cardinality(S)
    BY <1>2, <1>3, RankIncreases, RankType
  <2> QED
    BY <2>1
<1> QED
  BY <1>2, <1>3 DEF Orders

\* The elements with the first n positions are n, or else all.
LEMMA PrefixSize ==
  ASSUME NEW S, IsFiniteSet(S), NEW R, Orders(R, S), NEW n \in Nat
  PROVE  LET P == {x \in S : Rank(x, S, R) <= n}
         IN  /\ Cardinality(P) <= n
             /\ Cardinality(P) < n => P = S
<1> DEFINE P == {x \in S : Rank(x, S, R) <= n}
           f == [x \in P |-> Rank(x, S, R)]
<1>1. \A x \in P : Rank(x, S, R) \in 1 .. n /\ x \in S
  BY RankType
<1>2. ASSUME NEW x \in P, NEW y \in P, f[x] = f[y]
      PROVE  x = y
  BY <1>1, <1>2, RankInjective
<1>3. f \in Injection(P, 1 .. n)
  BY <1>1, <1>2 DEF Injection, IsInjective
<1>4. IsFiniteSet(1 .. n) /\ Cardinality(1 .. n) = n
  BY FS_Interval
<1>5. /\ Cardinality(P) <= n
      /\ f \in Surjection(P, 1 .. n) => Cardinality(P) = n
  <2> HIDE DEF P, f
  <2> QED
    BY <1>3, <1>4, FS_Injection
<1>6. IsFiniteSet(P) /\ Cardinality(P) \in Nat /\ Cardinality(S) \in Nat
  <2>1. P \in SUBSET S
    OBVIOUS
  <2> HIDE DEF P
  <2> QED
    BY <2>1, FS_Subset, FS_CardinalityType
<1>7. CASE Cardinality(S) <= n
  <2>1. ASSUME NEW x \in S
        PROVE  Rank(x, S, R) <= n
    BY <1>6, <1>7, RankType
  <2> QED
    BY <1>5, <2>1
<1>8. CASE n < Cardinality(S)
  <2>1. ASSUME NEW k \in 1 .. n
        PROVE  \E x \in P : f[x] = k
    <3>1. k \in 1 .. Cardinality(S)
      BY <1>6, <1>8
    <3>2. PICK x \in S : Rank(x, S, R) = k
      BY <3>1, RankExists
    <3> QED
      BY <3>2
  <2>2. f \in Surjection(P, 1 .. n)
    BY <1>3, <2>1 DEF Surjection, Injection
  <2> QED
    BY <1>5, <1>6, <2>2
<1> QED
  BY <1>6, <1>7, <1>8

\* The order of the integers.
Less(S) == {p \in S \X S : p[1] < p[2]}

LEMMA LessOrders == ASSUME NEW S \in SUBSET Int PROVE Orders(Less(S), S)
BY DEF Orders, Less

=============================================================================
