---------------------------- MODULE ClaimsProofs ----------------------------
(***************************************************************************)
(* Facts about the queries of Ledger, for every state of the tables, and   *)
(* what the promises of Claims are worth, whoever keeps them.              *)
(***************************************************************************)
EXTENDS Claims, TLAPS, FiniteSetTheorems, SequenceTheorems, WellFoundedInduction

-----------------------------------------------------------------------------
(* Least and greatest numbers.                                             *)

\* A non-empty set of naturals has a least element.
LEMMA NatMin ==
  ASSUME NEW S \in SUBSET Nat, S # {}
  PROVE  \E x \in S : \A y \in S : x <= y
<1> DEFINE R == {ss \in Nat \X Nat : ss[1] < ss[2]}
<1>1. IsWellFoundedOn(R, Nat)
  BY NatLessThanWellFounded DEF OpToRel
<1>2. \E x \in S : \A y \in S : <<y, x>> \notin R
  <2> HIDE DEF R
  <2> QED
    BY <1>1, WFMin
<1>3. PICK x \in S : \A y \in S : <<y, x>> \notin R
  BY <1>2
<1>4. ASSUME NEW y \in S PROVE x <= y
  <2>1. <<y, x>> \in Nat \X Nat /\ <<y, x>>[1] = y /\ <<y, x>>[2] = x
    OBVIOUS
  <2>2. ~(y < x)
    BY <1>3, <2>1
  <2> QED
    BY <2>2
<1> QED
  BY <1>4

\* A non-empty set of naturals up to n has a greatest element.
LEMMA NatMax ==
  ASSUME NEW n \in Nat, NEW S \in SUBSET (0..n), S # {}
  PROVE  \E x \in S : \A y \in S : y <= x
<1> DEFINE T == {n - s : s \in S}
<1>1. T \in SUBSET Nat
  OBVIOUS
<1>2. T # {}
  OBVIOUS
<1>3. PICK t \in T : \A y \in T : t <= y
  <2> HIDE DEF T
  <2> QED
    BY <1>1, <1>2, NatMin
<1>4. PICK s \in S : t = n - s
  OBVIOUS
<1>5. \A y \in S : n - s <= n - y
  BY <1>3, <1>4
<1>6. ASSUME NEW y \in S PROVE y <= s
  <2>1. y \in Int /\ s \in Int /\ n \in Int /\ n - s <= n - y
    BY <1>5
  <2> QED
    BY <2>1
<1> QED
  BY <1>6

-----------------------------------------------------------------------------
(* Lists.                                                                  *)

\* A list holds outputs of the account above the offset, and all of them up to
\* any output it holds, though its scan may have stopped early.
LEMMA ListIsPrefix ==
  ASSUME NEW d, NEW a, NEW offset, NEW target, NEW limit,
         NEW S \in Scans(ListTarget(d, a, offset, target, limit)),
         d.outputs \subseteq Nat
  PROVE  /\ S \subseteq OutputsAbove(d, a, offset)
         /\ \A p \in S, s \in OutputsAbove(d, a, offset) : s <= p => s \in S
<1> DEFINE rows == OutputsAbove(d, a, offset)
           Read(p) == {q \in rows : q <= p}
           StopsAt(p) == \/ Cardinality(Read(p)) >= limit
                         \/ Value(Read(p)) >= target
           list == ListTarget(d, a, offset, target, limit)
<1>1. list = {s \in rows : \A p \in rows : p < s => ~StopsAt(p)}
  BY DEF ListTarget
<1>2. S \subseteq list /\ \A s \in S, p \in list : p < s => p \in S
  BY DEF Scans
<1>3. rows \subseteq Nat
  BY DEF OutputsAbove
<1>4. ASSUME NEW p \in S, NEW s \in rows, s <= p PROVE s \in S
  <2>1. CASE s = p
    BY <2>1
  <2>2. CASE s < p
    <3>1. p \in list /\ p \in rows
      BY <1>1, <1>2
    <3>2. \A q \in rows : q < s => q < p
      BY <1>3, <2>2, <3>1
    <3>3. s \in list
      BY <1>1, <3>1, <3>2
    <3> QED
      BY <1>2, <2>2, <3>3
  <2> QED
    BY <1>3, <1>1, <1>2, <1>4, <2>1, <2>2
<1> QED
  BY <1>1, <1>2, <1>4

\* A list holds no more outputs than the limit.
LEMMA ListIsLimited ==
  ASSUME NEW d, NEW a, NEW offset, NEW target, NEW limit \in Nat \ {0}, NEW n \in Nat,
         NEW S \in Scans(ListTarget(d, a, offset, target, limit)),
         d.outputs \subseteq 0..n
  PROVE  IsFiniteSet(S) /\ Cardinality(S) <= limit
<1> DEFINE rows == OutputsAbove(d, a, offset)
           Read(p) == {q \in rows : q <= p}
<1>1. S \subseteq rows /\ rows \subseteq 0..n
  BY ListIsPrefix DEF OutputsAbove
<1>2. ASSUME NEW s \in S, NEW p \in S, p < s PROVE Cardinality(Read(p)) < limit
  <2>1. ~(Cardinality(Read(p)) >= limit)
    BY <1>1, <1>2 DEF Scans, ListTarget
  <2>2. IsFiniteSet(0..n)
    BY FS_Interval
  <2>3. IsFiniteSet(Read(p))
    BY <1>1, <2>2, FS_Subset
  <2> QED
    BY <2>1, <2>3, FS_CardinalityType
<1>3. IsFiniteSet(0..n)
  BY FS_Interval
<1>4. \A T \in SUBSET (0..n) : IsFiniteSet(T) /\ Cardinality(T) \in Nat
  BY <1>3, FS_Subset, FS_CardinalityType
<1>5. CASE S = {}
  BY <1>5, FS_EmptySet
<1>6. CASE S # {}
  <2>1. PICK m \in S : \A s \in S : s <= m
    BY <1>1, <1>6, NatMax
  <2> DEFINE rest == S \ {m}
  <2>2. Cardinality(rest) = Cardinality(S) - 1
    BY <1>1, <1>4, FS_RemoveElement
  <2>3. CASE rest = {}
    BY <1>1, <1>4, <2>2, <2>3, FS_EmptySet
  <2>4. CASE rest # {}
    <3>1. PICK p \in rest : \A s \in rest : s <= p
      BY <1>1, <2>4, NatMax
    <3>2. Cardinality(Read(p)) < limit
      BY <1>1, <1>2, <2>1, <3>1
    <3>3. rest \in SUBSET Read(p)
      BY <1>1, <3>1
    <3>4. Read(p) \in SUBSET (0..n)
      BY <1>1
    <3>5. Cardinality(rest) <= Cardinality(Read(p))
      <4> HIDE DEF Read, rest
      <4> QED
        BY <1>4, <3>3, <3>4, FS_Subset
    <3> QED
      BY <1>1, <1>4, <2>2, <3>2, <3>4, <3>5
  <2> QED
    BY <2>3, <2>4
<1> QED
  BY <1>1, <1>4, <1>5, <1>6
-----------------------------------------------------------------------------
(* Sums.                                                                   *)

\* What sums are is proved by induction on the size of sets.  The induction
\* theorems of the library take an operator, which no prover here instantiates;
\* a smallest counterexample serves instead.

\* Of sets of elements of a finite set there is a smallest, whose proper subsets
\* are not among them.
LEMMA SmallestSet ==
  ASSUME NEW D, IsFiniteSet(D), NEW Bad \in SUBSET (SUBSET D), Bad # {}
  PROVE  \E S \in Bad : \A T \in SUBSET S : T \in Bad => T = S
<1> DEFINE sizes == {Cardinality(S) : S \in Bad}
<1>1. \A S \in SUBSET D : IsFiniteSet(S) /\ Cardinality(S) \in Nat
  BY FS_Subset, FS_CardinalityType
<1>2. sizes \in SUBSET Nat /\ sizes # {}
  BY <1>1
<1>3. PICK n \in sizes : \A m \in sizes : n <= m
  <2> HIDE DEF sizes
  <2> QED
    BY <1>2, NatMin
<1>4. PICK S \in Bad : Cardinality(S) = n
  OBVIOUS
<1>5. ASSUME NEW T \in SUBSET S, T \in Bad PROVE T = S
  <2>1. Cardinality(S) <= Cardinality(T)
    BY <1>3, <1>4, <1>5
  <2>2. Cardinality(T) <= Cardinality(S) /\ (Cardinality(S) = Cardinality(T) => S = T)
    BY <1>1, FS_Subset
  <2>3. Cardinality(S) \in Nat /\ Cardinality(T) \in Nat
    BY <1>1
  <2> QED
    BY <2>1, <2>2, <2>3
<1> QED
  BY <1>5

\* The sum of f over a part of its domain.
SumOver(f, S) == Total([x \in S |-> f[x]])

\* Finitely many numbers to add.
Addends(f, S) == IsFiniteSet(S) /\ \A s \in S : f[s] \in Nat

\* What the folds compute for the subsets of S.
IsSum(f, g, S) ==
  g = [T \in SUBSET S |->
        IF T = {} THEN 0
        ELSE f[CHOOSE x \in T : TRUE] + g[T \ {CHOOSE x \in T : TRUE}]]

\* The recursion has a solution.
LEMMA SumExists ==
  ASSUME NEW f, NEW S, Addends(f, S)
  PROVE  \E g \in [SUBSET S -> Nat] : IsSum(f, g, S)
<1> DEFINE one(T) == CHOOSE x \in T : TRUE
           Right(g, T) == g[T] = IF T = {} THEN 0 ELSE f[one(T)] + g[T \ {one(T)}]
           Upto(n) == \E g \in [SUBSET S -> Nat] :
                        \A T \in SUBSET S : Cardinality(T) <= n => Right(g, T)
           bad == {n \in Nat : ~Upto(n)}
<1>1. \A T \in SUBSET S : IsFiniteSet(T) /\ Cardinality(T) \in Nat
  BY FS_Subset, FS_CardinalityType DEF Addends
<1>2. \A T \in SUBSET S : T # {} => one(T) \in T
  OBVIOUS
<1>3. ASSUME bad # {} PROVE FALSE
  <2>1. PICK n \in bad : \A m \in bad : n <= m
    <3>1. bad \in SUBSET Nat
      OBVIOUS
    <3> HIDE DEF bad
    <3> QED
      BY <1>3, <3>1, NatMin
  <2>2. CASE n = 0
    <3> DEFINE g == [T \in SUBSET S |-> 0]
    <3>1. g \in [SUBSET S -> Nat]
      OBVIOUS
    <3>2. \A T \in SUBSET S : Cardinality(T) <= 0 => T = {}
      BY <1>1, FS_EmptySet
    <3>3. \A T \in SUBSET S : Cardinality(T) <= 0 => Right(g, T)
      BY <3>2
    <3>4. Upto(0)
      <4> HIDE DEF g, Right
      <4> QED
        BY <3>1, <3>3
    <3> HIDE DEF Upto
    <3> QED
      BY <2>2, <3>4
  <2>3. CASE n # 0
    <3>1. n - 1 \in Nat /\ ~(n <= n - 1) /\ n \in Nat
      BY <2>3
    <3>2. Upto(n - 1)
      <4> HIDE DEF Upto
      <4> QED
        BY <2>1, <3>1
    <3>3. PICK g \in [SUBSET S -> Nat] :
            \A T \in SUBSET S : Cardinality(T) <= n - 1 => Right(g, T)
      <4> HIDE DEF Right
      <4> QED
        BY <3>2
    <3> DEFINE h == [T \in SUBSET S |-> IF T = {} THEN 0
                                        ELSE f[one(T)] + g[T \ {one(T)}]]
    <3>4. h \in [SUBSET S -> Nat]
      <4>1. ASSUME NEW T \in SUBSET S, T # {}
            PROVE  f[one(T)] + g[T \ {one(T)}] \in Nat
        <5>1. f[one(T)] \in Nat
          BY <1>2, <4>1 DEF Addends
        <5>2. g[T \ {one(T)}] \in Nat
          OBVIOUS
        <5> QED
          BY <5>1, <5>2
      <4> HIDE DEF one
      <4> QED
        BY <4>1
    <3>5. ASSUME NEW T \in SUBSET S, Cardinality(T) <= n PROVE Right(h, T)
      <4>1. CASE T = {}
        BY <4>1
      <4>2. CASE T # {}
        <5> DEFINE x == one(T)
                   U == T \ {x}
        <5>1. x \in T /\ U \in SUBSET S
          BY <1>2, <4>2
        <5>2. Cardinality(U) = Cardinality(T) - 1
          BY <1>1, <5>1, FS_RemoveElement
        <5>3. Cardinality(U) <= n - 1
          <6> HIDE DEF U
          <6> QED
            BY <1>1, <3>1, <3>5, <5>1, <5>2
        <5>4. Right(g, U)
          BY <3>3, <5>1, <5>3
        <5>5. h[U] = g[U]
          <6> HIDE DEF one, U
          <6> QED
            BY <5>1, <5>4
        <5>6. h[T] = f[x] + g[U]
          BY <4>2
        <5> HIDE DEF h, one
        <5> QED
          BY <4>2, <5>5, <5>6
      <4> QED
        BY <4>1, <4>2
    <3>6. Upto(n)
      <4> HIDE DEF h, Right
      <4> QED
        BY <3>4, <3>5
    <3> HIDE DEF Upto
    <3> QED
      BY <3>6
  <2> QED
    BY <2>2, <2>3
<1>4. Upto(Cardinality(S))
  <2>1. Cardinality(S) \in Nat
    BY <1>1
  <2> HIDE DEF Upto
  <2> QED
    BY <1>3, <2>1
<1>5. PICK g \in [SUBSET S -> Nat] :
        \A T \in SUBSET S : Cardinality(T) <= Cardinality(S) => Right(g, T)
  <2> HIDE DEF Right
  <2> QED
    BY <1>4
<1>6. \A T \in SUBSET S : Right(g, T)
  <2>1. \A T \in SUBSET S : Cardinality(T) <= Cardinality(S)
    BY FS_Subset DEF Addends
  <2> HIDE DEF Right
  <2> QED
    BY <1>5, <2>1
<1>7. g = [T \in SUBSET S |-> g[T]]
  OBVIOUS
<1>8. IsSum(f, g, S)
  BY <1>6, <1>7 DEF IsSum
<1> QED
  BY <1>8

\* All solutions agree where they overlap.
LEMMA SumsAgree ==
  ASSUME NEW f, NEW S, NEW R \in SUBSET S, IsFiniteSet(S),
         NEW g, NEW h, IsSum(f, g, R), IsSum(f, h, S)
  PROVE  \A T \in SUBSET R : g[T] = h[T]
<1> DEFINE one(T) == CHOOSE x \in T : TRUE
           bad == {T \in SUBSET R : g[T] # h[T]}
<1>1. ASSUME bad # {} PROVE FALSE
  <2>1. PICK T \in bad : \A U \in SUBSET T : U \in bad => U = T
    <3>1. bad \in SUBSET (SUBSET S)
      OBVIOUS
    <3> HIDE DEF bad
    <3> QED
      BY <1>1, <3>1, SmallestSet
  <2>2. T \in SUBSET R /\ T \in SUBSET S /\ g[T] # h[T]
    OBVIOUS
  <2>3. T # {}
    BY <2>2 DEF IsSum
  <2>4. one(T) \in T
    BY <2>3
  <2> DEFINE U == T \ {one(T)}
  <2>5. U \in SUBSET T /\ U # T /\ U \in SUBSET R
    BY <2>2, <2>4
  <2>6. g[U] = h[U]
    <3> HIDE DEF U
    <3> QED
      BY <2>1, <2>5
  <2>7. g[T] = f[one(T)] + g[U] /\ h[T] = f[one(T)] + h[U]
    BY <2>2, <2>3 DEF IsSum
  <2> QED
    BY <2>2, <2>6, <2>7
<1> QED
  BY <1>1

\* Total is what the recursion computes.
LEMMA TotalIsSum ==
  ASSUME NEW f, NEW S, Addends(f, S), NEW g \in [SUBSET S -> Nat], IsSum(f, g, S),
         NEW T \in SUBSET S
  PROVE  SumOver(f, T) = g[T]
<1> DEFINE p == [s \in T |-> f[s]]
           Iter(i) == [U \in SUBSET T |->
             IF U = {} THEN 0
             ELSE p[CHOOSE x \in U : TRUE] + i[U \ {CHOOSE x \in U : TRUE}]]
           iter == CHOOSE i : i = Iter(i)
<1>1. SumFunction(p) = iter[DOMAIN p]
  BY DEF SumFunction, SumFunctionOnSet, FoldFunctionOnSet, MapThenFoldSet
<1>2. ASSUME NEW i PROVE i = Iter(i) <=> IsSum(f, i, T)
  <2>1. \A U \in SUBSET T : U # {} =>
          p[CHOOSE x \in U : TRUE] = f[CHOOSE x \in U : TRUE]
    OBVIOUS
  <2>2. Iter(i) = [U \in SUBSET T |->
          IF U = {} THEN 0
          ELSE f[CHOOSE x \in U : TRUE] + i[U \ {CHOOSE x \in U : TRUE}]]
    <3> HIDE DEF p
    <3> QED
      BY <2>1
  <2> HIDE DEF Iter
  <2> QED
    BY <2>2 DEF IsSum
<1>3. Addends(f, T)
  BY FS_Subset DEF Addends
<1>4. \E i : i = Iter(i)
  <2> HIDE DEF Iter
  <2> QED
    BY <1>2, <1>3, SumExists
<1>5. iter = Iter(iter)
  <2> HIDE DEF Iter
  <2> QED
    BY <1>4
<1>6. IsSum(f, iter, T)
  <2> HIDE DEF iter
  <2> QED
    BY <1>2, <1>5
<1>7. iter[T] = g[T]
  <2> HIDE DEF iter
  <2> QED
    BY <1>6, SumsAgree DEF Addends
<1>8. SumFunction(p) = g[T] /\ g[T] \in Nat
  BY <1>1, <1>7
<1> QED
  BY <1>8 DEF SumOver, Total

\* A sum is a natural number.
LEMMA SumType == ASSUME NEW f, NEW S PROVE SumOver(f, S) \in Nat
  BY DEF SumOver, Total

\* The sum of nothing.
LEMMA SumEmpty == ASSUME NEW f PROVE SumOver(f, {}) = 0
<1>1. Addends(f, {})
  BY FS_EmptySet DEF Addends
<1>2. PICK g \in [SUBSET {} -> Nat] : IsSum(f, g, {})
  BY <1>1, SumExists
<1>3. g[{}] = 0
  BY <1>2 DEF IsSum
<1>4. \A T \in SUBSET {} : SumOver(f, T) = g[T]
  BY <1>1, <1>2, TotalIsSum
<1>5. SumOver(f, {}) = g[{}]
  BY <1>4
<1> QED
  BY <1>3, <1>5

\* Any element may be counted first.
LEMMA SumRemove ==
  ASSUME NEW f, NEW S, Addends(f, S), NEW y \in S
  PROVE  SumOver(f, S) = f[y] + SumOver(f, S \ {y})
<1> DEFINE one(T) == CHOOSE x \in T : TRUE
           Sum(T) == SumOver(f, T)
           bad == {T \in SUBSET S : \E z \in T : Sum(T) # f[z] + Sum(T \ {z})}
<1>1. PICK g \in [SUBSET S -> Nat] : IsSum(f, g, S)
  BY SumExists
<1>2. \A T \in SUBSET S : Sum(T) = g[T] /\ Sum(T) \in Nat
  BY <1>1, TotalIsSum
<1>3. ASSUME NEW T \in SUBSET S, T # {}
      PROVE  one(T) \in T /\ Sum(T) = f[one(T)] + Sum(T \ {one(T)})
  <2>1. g[T] = f[one(T)] + g[T \ {one(T)}]
    BY <1>1, <1>3 DEF IsSum
  <2> HIDE DEF Sum
  <2> QED
    BY <1>2, <1>3, <2>1
<1> HIDE DEF Sum
<1>4. ASSUME bad # {} PROVE FALSE
  <2>1. PICK T \in bad : \A U \in SUBSET T : U \in bad => U = T
    <3>1. bad \in SUBSET (SUBSET S)
      OBVIOUS
    <3> HIDE DEF bad
    <3> QED
      BY <1>4, <3>1, SmallestSet DEF Addends
  <2>2. PICK z \in T : Sum(T) # f[z] + Sum(T \ {z})
    OBVIOUS
  <2> DEFINE x == one(T)
  <2>3. T \in SUBSET S /\ x \in T /\ Sum(T) = f[x] + Sum(T \ {x})
    BY <1>3, <2>2
  <2> HIDE DEF one, x
  <2>4. x # z
    BY <2>2, <2>3
  <2>5. T \ {x} \notin bad /\ T \ {z} \notin bad
    <3> HIDE DEF bad
    <3> QED
      BY <2>1, <2>2, <2>3
  <2>6. Sum(T \ {x}) = f[z] + Sum((T \ {x}) \ {z})
    BY <2>2, <2>3, <2>4, <2>5
  <2>7. Sum(T \ {z}) = f[x] + Sum((T \ {z}) \ {x})
    BY <2>2, <2>3, <2>4, <2>5
  <2>8. (T \ {x}) \ {z} = (T \ {z}) \ {x}
    OBVIOUS
  <2>9. f[x] \in Nat /\ f[z] \in Nat /\ Sum((T \ {z}) \ {x}) \in Nat
    BY <1>2, <2>2, <2>3 DEF Addends
  <2>10. Sum(T \ {x}) = f[z] + Sum((T \ {z}) \ {x})
    BY <2>6, <2>8
  <2> DEFINE a == f[x]
             b == f[z]
             rest == Sum((T \ {z}) \ {x})
  <2>11. Sum(T) = a + (b + rest) /\ b + Sum(T \ {z}) = b + (a + rest)
    BY <2>3, <2>7, <2>10
  <2>12. a + (b + rest) = b + (a + rest)
    <3> HIDE DEF a, b, rest
    <3>1. a \in Nat /\ b \in Nat /\ rest \in Nat
      BY <2>9 DEF a, b, rest
    <3> QED
      BY <3>1
  <2> QED
    BY <2>2, <2>11, <2>12
<1>5. Sum(S) = f[y] + Sum(S \ {y})
  BY <1>4
<1> QED
  BY <1>5 DEF Sum

\* A set is worth what two parts of it are worth together.
LEMMA SumUnion ==
  ASSUME NEW f, NEW S, Addends(f, S), NEW T \in SUBSET S
  PROVE  SumOver(f, S) = SumOver(f, T) + SumOver(f, S \ T)
<1> DEFINE Sum(U) == SumOver(f, U)
           bad == {U \in SUBSET S : T \subseteq U /\ Sum(U) # Sum(T) + Sum(U \ T)}
<1>1. \A U : Sum(U) \in Nat
  BY SumType
<1>2. Sum({}) = 0
  BY SumEmpty
<1>3. ASSUME NEW U \in SUBSET S, NEW y \in U PROVE Sum(U) = f[y] + Sum(U \ {y})
  <2>1. Addends(f, U)
    BY FS_Subset DEF Addends
  <2> QED
    BY <2>1, SumRemove
<1> HIDE DEF Sum
<1>4. ASSUME bad # {} PROVE FALSE
  <2>1. PICK U \in bad : \A V \in SUBSET U : V \in bad => V = U
    <3>1. bad \in SUBSET (SUBSET S)
      OBVIOUS
    <3> HIDE DEF bad
    <3> QED
      BY <1>4, <3>1, SmallestSet DEF Addends
  <2>2. U \in SUBSET S /\ T \subseteq U /\ Sum(U) # Sum(T) + Sum(U \ T)
    OBVIOUS
  <2>3. U # T
    <3>1. T \ T = {}
      OBVIOUS
    <3> QED
      BY <1>1, <1>2, <2>2, <3>1
  <2>4. PICK y \in U : y \notin T
    BY <2>2, <2>3
  <2>5. U \ {y} \notin bad
    <3> HIDE DEF bad
    <3> QED
      BY <2>1, <2>4
  <2>6. Sum(U \ {y}) = Sum(T) + Sum((U \ {y}) \ T)
    BY <2>2, <2>4, <2>5
  <2>7. Sum(U) = f[y] + Sum(U \ {y}) /\ Sum(U \ T) = f[y] + Sum((U \ T) \ {y})
    BY <1>3, <2>2, <2>4
  <2>8. (U \ T) \ {y} = (U \ {y}) \ T
    OBVIOUS
  <2>9. f[y] \in Nat
    BY <2>2 DEF Addends
  <2> HIDE DEF bad
  <2>10. Sum(U) = f[y] + (Sum(T) + Sum((U \ {y}) \ T))
         /\ Sum(U \ T) = f[y] + Sum((U \ {y}) \ T)
    BY <2>6, <2>7, <2>8
  <2> QED
    BY <1>1, <2>2, <2>9, <2>10
<1>5. Sum(S) = Sum(T) + Sum(S \ T)
  BY <1>4
<1> QED
  BY <1>5 DEF Sum

\* Equal functions have equal sums.
LEMMA SumSame ==
  ASSUME NEW S, NEW f, NEW g, \A s \in S : f[s] = g[s]
  PROVE  SumOver(f, S) = SumOver(g, S)
<1>1. [x \in S |-> f[x]] = [x \in S |-> g[x]]
  OBVIOUS
<1> QED
  BY <1>1 DEF SumOver

-----------------------------------------------------------------------------
(* What outputs are worth.                                                 *)

\* Outputs with amounts.
Worth(S) == IsFiniteSet(S) /\ \A s \in S : utxos[s].amount \in Nat \ {0}

\* Their amounts.
Amounts(S) == [s \in S |-> utxos[s].amount]

\* Value is a sum.
LEMMA ValueIsSum ==
  ASSUME NEW S, NEW T \in SUBSET S PROVE Value(T) = SumOver(Amounts(S), T)
<1>1. [s \in T |-> utxos[s].amount] = [s \in T |-> Amounts(S)[s]]
  BY DEF Amounts
<1> QED
  BY <1>1 DEF Value, SumOver

\* It adds natural numbers.
LEMMA AmountsAreAddends ==
  ASSUME NEW S, Worth(S), NEW T \in SUBSET S PROVE Addends(Amounts(S), T)
  BY FS_Subset DEF Worth, Addends, Amounts

\* Nothing is worth nothing, whatever the utxos are.
LEMMA ValueEmpty == Value({}) = 0
  BY ValueIsSum, SumEmpty

\* Any output may be counted first.
LEMMA ValueRemove ==
  ASSUME NEW S, Worth(S), NEW y \in S
  PROVE  Value(S) = utxos[y].amount + Value(S \ {y})
<1>1. SumOver(Amounts(S), S) = Amounts(S)[y] + SumOver(Amounts(S), S \ {y})
  BY AmountsAreAddends, SumRemove
<1>2. Amounts(S)[y] = utxos[y].amount
  BY DEF Amounts
<1> QED
  BY <1>1, <1>2, ValueIsSum

\* Two parts of a set of outputs are worth what the set is.
LEMMA ValueUnion ==
  ASSUME NEW S, Worth(S), NEW T \in SUBSET S
  PROVE  Value(S) = Value(T) + Value(S \ T)
<1>1. SumOver(Amounts(S), S) = SumOver(Amounts(S), T) + SumOver(Amounts(S), S \ T)
  BY AmountsAreAddends, SumUnion
<1> QED
  BY <1>1, ValueIsSum

\* Fewer outputs are worth less.
LEMMA ValueGrows ==
  ASSUME NEW S, Worth(S), NEW T \in SUBSET S
  PROVE  Value(T) <= Value(S) /\ (T # S => Value(T) < Value(S))
<1>1. \A U : Value(U) \in Nat
  BY DEF Value, Total
<1>2. Value(S) = Value(T) + Value(S \ T)
  BY ValueUnion
<1>3. ASSUME T # S PROVE Value(S \ T) # 0
  <2>1. PICK y \in S \ T : TRUE
    BY <1>3
  <2>2. Worth(S \ T)
    BY FS_Subset DEF Worth
  <2>3. Value(S \ T) = utxos[y].amount + Value((S \ T) \ {y})
    BY <2>1, <2>2, ValueRemove
  <2>4. utxos[y].amount \in Nat \ {0}
    BY <2>1 DEF Worth
  <2> QED
    BY <1>1, <2>3, <2>4
<1> QED
  BY <1>1, <1>2, <1>3

\* The outputs before the last of a list are not worth the target: the scan
\* would have stopped there.
LEMMA ListIsMinimal ==
  ASSUME NEW d, NEW a, NEW offset, NEW target \in Nat \ {0}, NEW limit, NEW n \in Nat,
         NEW S \in Scans(ListTarget(d, a, offset, target, limit)),
         d.outputs \subseteq 0..n,
         NEW m \in S, \A s \in S : s <= m
  PROVE  Value(S \ {m}) < target
<1> DEFINE rows == OutputsAbove(d, a, offset)
           Read(p) == {q \in rows : q <= p}
           rest == S \ {m}
<1>0. 0..n \subseteq Nat /\ d.outputs \subseteq Nat
  OBVIOUS
<1>1. /\ S \subseteq rows /\ rows \subseteq 0..n
      /\ \A p \in S, s \in rows : s <= p => s \in S
  BY <1>0, ListIsPrefix DEF OutputsAbove
<1>2. CASE rest = {}
  BY <1>2, ValueEmpty
<1>3. CASE rest # {}
  <2>1. PICK p \in rest : \A s \in rest : s <= p
    BY <1>1, <1>3, NatMax
  <2>2. p < m
    BY <1>0, <1>1, <2>1
  <2>3. Read(p) = rest
    BY <1>0, <1>1, <2>1, <2>2
  <2>4. ~(Value(Read(p)) >= target)
    BY <1>1, <2>1, <2>2 DEF Scans, ListTarget
  <2>5. Value(rest) \in Nat
    BY DEF Value, Total
  <2> QED
    BY <2>3, <2>4, <2>5
<1> QED
  BY <1>2, <1>3

-----------------------------------------------------------------------------
(* The invariant of Claims.                                                *)

\* Outputs and tables, with transfers of any traces.
ClaimTyped ==
  /\ utxos \in Seq(Utxo)
  /\ saved \subseteq DOMAIN utxos
  /\ \E T : db \in Tables(T)

\* The offset of an account is an output, or there is none.
OffsetsSaved == \A a \in Accounts : db.assigns[a] \in saved \cup {0}

\* The ranges of an account follow each other up to its offset.
RangesFollow ==
  \A i \in DOMAIN db.transfers :
    LET row == db.transfers[i] IN
    /\ row.from \in saved /\ row.to \in saved
    /\ row.from <= row.to /\ row.to <= db.assigns[row.account]
    /\ \A j \in DOMAIN db.transfers :
         i < j /\ db.transfers[j].account = row.account
           => row.to < db.transfers[j].from

ClaimInv == ClaimTyped /\ OffsetsSaved /\ RangesFollow /\ NothingStranded

\* The tables are sequences and functions of the declared rows.
LEMMA ClaimBasics ==
  ASSUME ClaimTyped
  PROVE  /\ Len(utxos) \in Nat /\ DOMAIN utxos = 1..Len(utxos)
         /\ saved \subseteq Nat \ {0}
         /\ \A s \in saved : utxos[s].account \in Accounts
         /\ db.assigns \in [Accounts -> Nat]
         /\ DOMAIN db.transfers = 1..Len(db.transfers)
         /\ Len(db.transfers) \in Nat
         /\ \A i \in DOMAIN db.transfers :
              /\ db.transfers[i].account \in Accounts
              /\ db.transfers[i].from \in Nat /\ db.transfers[i].to \in Nat
<1>1. Len(utxos) \in Nat /\ DOMAIN utxos = 1..Len(utxos)
  BY LenProperties DEF ClaimTyped
<1>2. \A s \in saved : utxos[s] \in Utxo
  BY <1>1, ElementOfSeq DEF ClaimTyped
<1>3. PICK T : db \in Tables(T)
  BY DEF ClaimTyped
<1>4. db.transfers \in Seq(Transfer(T)) /\ db.assigns \in [Accounts -> Nat]
  BY <1>3 DEF Tables
<1>5. DOMAIN db.transfers = 1..Len(db.transfers) /\ Len(db.transfers) \in Nat
  BY <1>4, LenProperties
<1>6. \A i \in DOMAIN db.transfers : db.transfers[i] \in Transfer(T)
  BY <1>4, <1>5, ElementOfSeq
<1>7. saved \subseteq Nat \ {0}
  BY <1>1 DEF ClaimTyped
<1> QED
  BY <1>1, <1>2, <1>4, <1>5, <1>6, <1>7 DEF Utxo, Transfer

\* What is saved after a step has a number and an account.
LEMMA SavedAfter ==
  ASSUME ClaimTyped'
  PROVE  saved' \subseteq Nat \ {0} /\ \A s \in saved' : utxos'[s].account \in Accounts
<1>1. PICK list, S : list = utxos' /\ S = saved'
  OBVIOUS
<1>2. list \in Seq(Utxo) /\ S \subseteq DOMAIN list
  BY <1>1 DEF ClaimTyped
<1>3. DOMAIN list = 1..Len(list) /\ Len(list) \in Nat
  BY <1>2, LenProperties
<1>4. \A s \in S : list[s] \in Utxo
  BY <1>2, <1>3, ElementOfSeq
<1> QED
  BY <1>1, <1>2, <1>3, <1>4 DEF Utxo

\* What a step may do to the rows: nothing, or insert one that it grants.
RowsStay == DOMAIN db'.transfers = DOMAIN db.transfers /\ db'.assigns = db.assigns

RowIsAdded(row) ==
  /\ Grant(row)
  /\ DOMAIN db'.transfers = DOMAIN db.transfers \cup {Len(db.transfers) + 1}
  /\ db'.transfers[Len(db.transfers) + 1] = row
  /\ db'.assigns = [db.assigns EXCEPT ![row.account] = row.to]

\* What no step takes back: outputs, their contents and ranges.
RangeKept(new, old) ==
  new.account = old.account /\ new.from = old.from /\ new.to = old.to

ClaimKeeps ==
  /\ saved \subseteq saved'
  /\ \A s \in saved' \ saved : \A p \in saved : p < s
  /\ \A s \in saved : utxos'[s] = utxos[s]
  /\ \A i \in DOMAIN db.transfers : RangeKept(db'.transfers[i], db.transfers[i])

\* A grant inserts its row.
LEMMA GrantAdds ==
  ASSUME ClaimTyped, NEW row, Grant(row)
  PROVE  ClaimTyped' /\ ClaimKeeps /\ RowIsAdded(row)
<1>1. PICK T : db \in Tables(T)
  BY DEF ClaimTyped
<1>2. PICK U : U = T \cup {row.trace}
  OBVIOUS
<1>3. row \in Transfer({row.trace}) /\ UNCHANGED <<utxos, saved>>
  BY DEF Grant
<1>4. row \in Transfer(U) /\ row.account \in Accounts /\ row.to \in Nat
  BY <1>2, <1>3 DEF Transfer
<1>5. Transfer(T) \subseteq Transfer(U)
  BY <1>2 DEF Transfer
<1>6. /\ db \in [outputs : SUBSET Nat, assigns : [Accounts -> Nat],
                 transfers : Seq(Transfer(T))]
      /\ db.transfers \in Seq(Transfer(U))
  BY <1>1, <1>5 DEF Tables
<1>7. /\ db'.assigns = [db.assigns EXCEPT ![row.account] = row.to]
      /\ db'.transfers = Append(db.transfers, row)
      /\ db'.outputs = db.outputs
      /\ db' = [outputs |-> db'.outputs, assigns |-> db'.assigns,
                transfers |-> db'.transfers]
  BY <1>6 DEF Grant, Assign
<1>8. /\ Append(db.transfers, row) \in Seq(Transfer(U))
      /\ DOMAIN Append(db.transfers, row) = 1..(Len(db.transfers) + 1)
      /\ Append(db.transfers, row)[Len(db.transfers) + 1] = row
      /\ \A i \in 1..Len(db.transfers) :
           Append(db.transfers, row)[i] = db.transfers[i]
  BY <1>4, <1>6, AppendProperties, LenProperties
<1>9. db'.assigns \in [Accounts -> Nat]
  BY <1>4, <1>6, <1>7
<1>10. db' \in Tables(U)
  BY <1>6, <1>7, <1>8, <1>9 DEF Tables
<1>11. ClaimTyped'
  BY <1>3, <1>10 DEF ClaimTyped
<1>12. DOMAIN db.transfers = 1..Len(db.transfers) /\ Len(db.transfers) \in Nat
  BY ClaimBasics
<1> QED
  BY <1>3, <1>7, <1>8, <1>11, <1>12 DEF ClaimKeeps, RangeKept, RowIsAdded

\* All other steps leave ranges and offsets alone.
LEMMA OthersKeep ==
  ASSUME ClaimTyped,
         \/ Extend
         \/ \E S \in SUBSET (1..Len(utxos)) : Save(S)
         \/ \E s \in db.outputs : Delete(s)
         \/ \E i \in DOMAIN db.transfers : Handle(i)
         \/ UNCHANGED claimVars
  PROVE  ClaimTyped' /\ ClaimKeeps /\ RowsStay
<1>1. PICK T : db \in Tables(T)
  BY DEF ClaimTyped
<1>2. db \in [outputs : SUBSET Nat, assigns : [Accounts -> Nat],
              transfers : Seq(Transfer(T))]
  BY <1>1 DEF Tables
<1>3. /\ DOMAIN utxos = 1..Len(utxos) /\ Len(utxos) \in Nat
      /\ DOMAIN db.transfers = 1..Len(db.transfers) /\ Len(db.transfers) \in Nat
  BY ClaimBasics
<1>4. ASSUME UNCHANGED <<utxos, saved>>, db'.transfers = db.transfers,
             db'.assigns = db.assigns, db' \in Tables(T)
      PROVE  ClaimTyped' /\ ClaimKeeps /\ RowsStay
  BY <1>4 DEF ClaimTyped, ClaimKeeps, RangeKept, RowsStay
<1>5. CASE Extend
  <2>1. /\ utxos' \in Seq(Utxo) /\ Len(utxos) <= Len(utxos')
        /\ UNCHANGED <<db, saved>>
        /\ \A s \in DOMAIN utxos : utxos'[s] = utxos[s]
    BY <1>5 DEF Extend
  <2>2. DOMAIN utxos' = 1..Len(utxos') /\ Len(utxos') \in Nat
    BY <2>1, LenProperties
  <2>3. DOMAIN utxos \subseteq DOMAIN utxos'
    BY <1>3, <2>1, <2>2
  <2> QED
    BY <1>1, <2>1, <2>3 DEF ClaimTyped, ClaimKeeps, RangeKept, RowsStay
<1>6. ASSUME NEW S \in SUBSET (1..Len(utxos)), Save(S)
      PROVE  ClaimTyped' /\ ClaimKeeps /\ RowsStay
  <2>1. db' = [db EXCEPT !.outputs = @ \cup S] /\ saved' = saved \cup S /\ utxos' = utxos
    BY <1>6 DEF Save, SaveOutputs
  <2>2. S \subseteq Nat
    BY <1>3
  <2>3. /\ db'.transfers = db.transfers /\ db'.assigns = db.assigns
        /\ db' \in Tables(T)
    BY <1>2, <2>1, <2>2 DEF Tables
  <2>4. \A s \in saved' \ saved : \A p \in saved : p < s
    BY <1>6, <2>1 DEF Save
  <2>5. saved' \subseteq DOMAIN utxos'
    BY <1>3, <2>1 DEF ClaimTyped
  <2> QED
    BY <2>1, <2>3, <2>4, <2>5 DEF ClaimTyped, ClaimKeeps, RangeKept, RowsStay
<1>7. ASSUME NEW s \in db.outputs, Delete(s)
      PROVE  ClaimTyped' /\ ClaimKeeps /\ RowsStay
  <2>1. db' = [db EXCEPT !.outputs = @ \ {s}] /\ UNCHANGED <<utxos, saved>>
    BY <1>7 DEF Delete, DeleteOutput
  <2>2. /\ db'.transfers = db.transfers /\ db'.assigns = db.assigns
        /\ db' \in Tables(T)
    BY <1>2, <2>1 DEF Tables
  <2> QED
    BY <1>4, <2>1, <2>2
<1>8. ASSUME NEW i \in DOMAIN db.transfers, Handle(i)
      PROVE  ClaimTyped' /\ ClaimKeeps /\ RowsStay
  <2>1. PICK new : new = [db.transfers[i] EXCEPT !.status = "handled"]
    OBVIOUS
  <2>2. db' = [db EXCEPT !.transfers = [@ EXCEPT ![i] = new]] /\ UNCHANGED <<utxos, saved>>
    BY <1>2, <1>8, <2>1 DEF Handle, MarkHandled
  <2>3. db.transfers[i] \in Transfer(T)
    BY <1>2, <1>3, ElementOfSeq
  <2>4. new \in Transfer(T) /\ RangeKept(new, db.transfers[i])
    BY <2>1, <2>3 DEF Transfer, Status, RangeKept
  <2>5. [db.transfers EXCEPT ![i] = new] \in Seq(Transfer(T))
    BY <1>2, <1>3, <2>4, ExceptSeq
  <2>6. /\ db'.transfers = [db.transfers EXCEPT ![i] = new]
        /\ db'.assigns = db.assigns
        /\ db' \in Tables(T)
    BY <1>2, <2>2, <2>5 DEF Tables
  <2>7. \A j \in DOMAIN db.transfers : RangeKept(db'.transfers[j], db.transfers[j])
    BY <2>4, <2>6 DEF RangeKept
  <2> QED
    BY <2>2, <2>6, <2>7 DEF ClaimTyped, ClaimKeeps, RowsStay
<1>9. CASE UNCHANGED claimVars
  BY <1>1, <1>4, <1>9 DEF claimVars
<1> QED
  BY <1>5, <1>6, <1>7, <1>8, <1>9

\* Every step of Claims is one of these two kinds.
LEMMA ClaimSteps ==
  ASSUME ClaimTyped, [ClaimNext]_claimVars
  PROVE  /\ ClaimTyped' /\ ClaimKeeps
         /\ RowsStay \/ \E row : RowIsAdded(row)
  BY GrantAdds, OthersKeep DEF ClaimNext

\* The outputs in a range stay the same: later ones lie behind it.
LEMMA ClaimRangeStays ==
  ASSUME ClaimTyped, ClaimTyped', ClaimKeeps, NEW i \in DOMAIN db.transfers,
         db.transfers[i].to \in saved
  PROVE  RangeOf(db.transfers[i])' = RangeOf(db.transfers[i])
<1>1. PICK new, old : new = db'.transfers[i] /\ old = db.transfers[i]
  OBVIOUS
<1>2. RangeKept(new, old) /\ saved \subseteq saved' /\ saved' \subseteq Nat
  BY <1>1, ClaimBasics DEF ClaimKeeps, ClaimTyped
<1>3. ASSUME NEW s \in saved' \ saved PROVE ~(s <= old.to)
  <2>1. old.to < s /\ old.to \in Nat /\ s \in Nat
    BY <1>1, <1>2, <1>3 DEF ClaimKeeps
  <2> QED
    BY <2>1
<1>4. \A s \in saved : utxos'[s].account = utxos[s].account
  BY DEF ClaimKeeps
<1> QED
  BY <1>1, <1>2, <1>3, <1>4 DEF RangeOf, RangeKept

\* A step keeps offsets at outputs.
LEMMA OffsetsSavedStep == ASSUME ClaimInv, [ClaimNext]_claimVars PROVE OffsetsSaved'
<1>1. /\ ClaimTyped /\ ClaimKeeps /\ OffsetsSaved
      /\ RowsStay \/ \E row : RowIsAdded(row)
  BY ClaimSteps DEF ClaimInv
<1>2. saved \subseteq saved'
  BY <1>1 DEF ClaimKeeps
<1>3. CASE RowsStay
  BY <1>1, <1>2, <1>3 DEF OffsetsSaved, RowsStay
<1>4. ASSUME NEW row, RowIsAdded(row) PROVE OffsetsSaved'
  <2>1. db'.assigns = [db.assigns EXCEPT ![row.account] = row.to] /\ row.to \in saved
    BY <1>4 DEF RowIsAdded, Grant
  <2>2. db.assigns \in [Accounts -> Nat]
    BY <1>1, ClaimBasics
  <2> QED
    BY <1>1, <1>2, <2>1, <2>2 DEF OffsetsSaved
<1> QED
  BY <1>1, <1>3, <1>4

\* A step keeps the ranges of an account one behind the other.
LEMMA RangesFollowStep == ASSUME ClaimInv, [ClaimNext]_claimVars PROVE RangesFollow'
<1>1. /\ ClaimTyped /\ ClaimTyped' /\ ClaimKeeps /\ RangesFollow
      /\ RowsStay \/ \E row : RowIsAdded(row)
  BY ClaimSteps DEF ClaimInv
<1> DEFINE n == Len(db.transfers) + 1
           old == DOMAIN db.transfers
<1>2. saved \subseteq saved' /\ saved \subseteq Nat /\ saved' \subseteq Nat
  BY <1>1, ClaimBasics, SavedAfter DEF ClaimKeeps
<1>3. \A i \in old : RangeKept(db'.transfers[i], db.transfers[i])
  BY <1>1 DEF ClaimKeeps
<1>4. ASSUME NEW i \in old
      PROVE  /\ db'.transfers[i].from \in saved' /\ db'.transfers[i].to \in saved'
             /\ db'.transfers[i].from <= db'.transfers[i].to
             /\ db'.transfers[i].to <= db.assigns[db'.transfers[i].account]
             /\ \A j \in old :
                  i < j /\ db'.transfers[j].account = db'.transfers[i].account
                    => db'.transfers[i].to < db'.transfers[j].from
  BY <1>1, <1>2, <1>3 DEF RangesFollow, RangeKept
<1>5. CASE RowsStay
  BY <1>4, <1>5 DEF RangesFollow, RowsStay
<1>6. ASSUME NEW row, RowIsAdded(row) PROVE RangesFollow'
  <2>1. /\ n \in Nat /\ old = 1..(n - 1) /\ db.assigns \in [Accounts -> Nat]
        /\ row.account \in Accounts
    BY <1>1, <1>6, ClaimBasics DEF RowIsAdded, Grant, Transfer
  <2>2. /\ row.from \in saved /\ row.to \in saved /\ row.from <= row.to
        /\ db.assigns[row.account] < row.from
        /\ db'.assigns = [db.assigns EXCEPT ![row.account] = row.to]
        /\ DOMAIN db'.transfers = old \cup {n} /\ db'.transfers[n] = row
    BY <1>6 DEF RowIsAdded, Grant
  <2>3. db.assigns[row.account] <= row.to
    <3>1. db.assigns[row.account] \in Nat /\ row.from \in Nat /\ row.to \in Nat
      BY <1>2, <2>1, <2>2
    <3> QED
      BY <2>2, <3>1
  <2>4. ASSUME NEW i \in old
        PROVE  db'.transfers[i].to <= db'.assigns[db'.transfers[i].account]
    <3>1. PICK a : a = db'.transfers[i].account
      OBVIOUS
    <3>2. a \in Accounts
      BY <1>1, <1>3, <3>1, ClaimBasics DEF RangeKept
    <3>3. CASE a = row.account
      <4>1. /\ db'.transfers[i].to \in Nat /\ row.to \in Nat
            /\ db.assigns[a] \in Nat /\ db'.transfers[i].to <= db.assigns[a]
        BY <1>2, <1>4, <2>1, <2>2, <3>1, <3>2
      <4>2. db'.assigns[a] = row.to
        BY <2>1, <2>2, <3>2, <3>3
      <4> QED
        BY <2>3, <3>1, <3>3, <4>1, <4>2
    <3>4. CASE a # row.account
      BY <1>4, <2>1, <2>2, <3>1, <3>2, <3>4
    <3> QED
      BY <3>3, <3>4
  <2>5. ASSUME NEW i \in old, db'.transfers[i].account = row.account
        PROVE  db'.transfers[i].to < row.from
    <3>1. /\ db'.transfers[i].to <= db.assigns[row.account]
          /\ db'.transfers[i].to \in Nat /\ db.assigns[row.account] \in Nat
          /\ row.from \in Nat
      BY <1>2, <1>4, <2>1, <2>2, <2>5
    <3> HIDE DEF n, old
    <3> QED
      BY <2>2, <3>1
  <2>6. row.to <= db'.assigns[row.account] /\ row.from \in saved' /\ row.to \in saved'
    <3>1. PICK top \in Nat : top = db'.assigns[row.account] /\ top = row.to
      BY <1>2, <2>1, <2>2
    <3>2. row.from \in saved' /\ row.to \in saved'
      BY <1>2, <2>2
    <3> QED
      BY <3>1, <3>2
  <2>7. \A i \in old : i < n /\ ~(n < i) /\ ~(n < n)
    BY <2>1
  <2> QED
    BY <1>4, <2>2, <2>4, <2>5, <2>6, <2>7 DEF RangesFollow
<1> QED
  BY <1>1, <1>5, <1>6

\* An offset moves over outputs only together with a transfer of them all.
LEMMA NothingStrandedStep ==
  ASSUME ClaimInv, [ClaimNext]_claimVars PROVE NothingStranded'
<1>1. /\ ClaimTyped /\ ClaimTyped' /\ ClaimKeeps /\ RangesFollow
      /\ OffsetsSaved /\ NothingStranded
      /\ RowsStay \/ \E row : RowIsAdded(row)
  BY ClaimSteps DEF ClaimInv
<1>2. /\ saved \subseteq saved' /\ saved \subseteq Nat \ {0} /\ saved' \subseteq Nat \ {0}
      /\ \A s \in saved' : utxos'[s].account \in Accounts
      /\ \A s \in saved : utxos'[s] = utxos[s]
      /\ db.assigns \in [Accounts -> Nat]
      /\ DOMAIN db.transfers \subseteq DOMAIN db'.transfers
  <2>1. /\ saved \subseteq Nat \ {0} /\ db.assigns \in [Accounts -> Nat]
    BY <1>1, ClaimBasics
  <2>2. /\ saved' \subseteq Nat \ {0} /\ \A s \in saved' : utxos'[s].account \in Accounts
    BY <1>1, SavedAfter
  <2>3. DOMAIN db.transfers \subseteq DOMAIN db'.transfers
    BY <1>1 DEF RowsStay, RowIsAdded
  <2> QED
    BY <1>1, <2>1, <2>2, <2>3 DEF ClaimKeeps
<1> SUFFICES ASSUME NEW s \in saved', s <= db'.assigns[utxos'[s].account]
             PROVE  \E i \in DOMAIN db'.transfers : s \in RangeOf(db.transfers[i])'
  BY DEF NothingStranded
<1>3. PICK a \in Accounts : a = utxos'[s].account
  BY <1>2
<1>4. ASSUME s \in saved, s <= db.assigns[a]
      PROVE  \E i \in DOMAIN db'.transfers : s \in RangeOf(db.transfers[i])'
  <2>1. PICK i \in DOMAIN db.transfers : s \in RangeOf(db.transfers[i])
    BY <1>1, <1>2, <1>3, <1>4 DEF NothingStranded
  <2>2. RangeOf(db.transfers[i])' = RangeOf(db.transfers[i])
    BY <1>1, ClaimRangeStays DEF RangesFollow
  <2> QED
    BY <1>2, <2>1, <2>2
<1>5. CASE s \in saved /\ ~(s <= db.assigns[a])
  <2>1. ~RowsStay
    BY <1>3, <1>5 DEF RowsStay
  <2>2. PICK row : RowIsAdded(row)
    BY <1>1, <2>1
  <2>3. PICK n : n = Len(db.transfers) + 1
    OBVIOUS
  <2>4. /\ n \in DOMAIN db'.transfers /\ db'.transfers[n] = row
        /\ db'.assigns = [db.assigns EXCEPT ![row.account] = row.to]
        /\ UNCHANGED <<utxos, saved>>
    BY <2>2, <2>3 DEF RowIsAdded, Grant
  <2>5. a = row.account /\ s <= row.to
    BY <1>2, <1>3, <1>5, <2>4
  <2>6. db.assigns[a] < s
    <3>1. s \in Nat /\ db.assigns[a] \in Nat
      BY <1>2
    <3> QED
      BY <1>5, <3>1
  <2>7. row.from <= s
    BY <1>3, <1>5, <2>2, <2>4, <2>5, <2>6 DEF RowIsAdded, Grant
  <2>8. s \in RangeOf(db.transfers[n])'
    BY <1>3, <2>4, <2>5, <2>7 DEF RangeOf
  <2> QED
    BY <2>4, <2>8
<1>6. CASE s \notin saved
  <2>1. \A p \in saved : p < s
    BY <1>1, <1>6 DEF ClaimKeeps
  <2>2. ~\E row : RowIsAdded(row)
    BY <1>6 DEF RowIsAdded, Grant
  <2>3. db'.assigns = db.assigns
    BY <1>1, <2>2 DEF RowsStay
  <2>4. PICK o \in saved \cup {0} : o = db.assigns[a]
    BY <1>1 DEF OffsetsSaved
  <2>5. o < s /\ o \in Nat /\ s \in Nat
    BY <1>2, <2>1
  <2> QED
    BY <1>3, <2>3, <2>4, <2>5
<1> QED
  BY <1>3, <1>4, <1>5, <1>6

-----------------------------------------------------------------------------
(* What Claims is worth.                                                   *)

\* The tables fit together in every behaviour that Claims allows.
THEOREM ClaimsInvariance == ClaimSpec => []ClaimInv
<1>1. ASSUME ClaimInit PROVE ClaimInv
  <2>1. /\ db.transfers = << >> /\ DOMAIN db.transfers = {} /\ saved = {}
        /\ \A a \in Accounts : db.assigns[a] = 0
    BY <1>1, EmptySeq DEF ClaimInit, EmptyDb
  <2>2. db \in Tables({})
    BY <1>1, EmptySeq DEF ClaimInit, EmptyDb, Tables
  <2> QED
    BY <1>1, <2>1, <2>2
    DEF ClaimInit, ClaimInv, ClaimTyped, OffsetsSaved, RangesFollow, NothingStranded
<1>2. ASSUME ClaimInv, [ClaimNext]_claimVars PROVE ClaimInv'
  <2>1. ClaimTyped'
    BY <1>2, ClaimSteps DEF ClaimInv
  <2> QED
    BY <1>2, <2>1, OffsetsSavedStep, RangesFollowStep, NothingStrandedStep DEF ClaimInv
<1> QED
  BY <1>1, <1>2, PTL DEF ClaimSpec

\* No output is given to two transfers by parts that keep what Claims promises:
\* the optimistic lock of the assign transaction and the order of the ranges are
\* all they need to share.
THEOREM ClaimsAssignOnce == ClaimSpec => []NoDoubleAssign
<1>1. ASSUME ClaimInv PROVE NoDoubleAssign
  <2>1. SUFFICES ASSUME NEW i \in DOMAIN db.transfers, NEW j \in DOMAIN db.transfers,
                        i # j, NEW s \in RangeOf(db.transfers[i]),
                        s \in RangeOf(db.transfers[j])
                 PROVE  FALSE
    BY DEF NoDoubleAssign
  <2>2. /\ i \in Nat /\ j \in Nat /\ s \in Nat
        /\ db.transfers[i].from \in Nat /\ db.transfers[j].from \in Nat
        /\ db.transfers[i].to \in Nat /\ db.transfers[j].to \in Nat
    BY <1>1, ClaimBasics DEF ClaimInv, RangeOf
  <2>3. \/ db.transfers[i].to < db.transfers[j].from
        \/ db.transfers[j].to < db.transfers[i].from
    BY <1>1, <2>1, <2>2 DEF ClaimInv, RangesFollow, RangeOf
  <2> QED
    BY <2>1, <2>2, <2>3 DEF RangeOf
<1> QED
  BY <1>1, ClaimsInvariance, PTL

\* No output that the offset has passed is lost to the wallet, as long as new
\* outputs are saved behind all others and transfers are granted the next ones.
THEOREM ClaimsStrandNothing == ClaimSpec => []NothingStranded
<1>1. ClaimInv => NothingStranded
  BY DEF ClaimInv
<1> QED
  BY <1>1, ClaimsInvariance, PTL
=============================================================================
