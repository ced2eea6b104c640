-------------------------- MODULE SplitChangeProofs --------------------------
(***************************************************************************)
(* The change of a transaction, for inputs and amounts of any size, any    *)
(* precision of quotients and any width of integers.                       *)
(***************************************************************************)
EXTENDS SplitChange, TLAPS

\* A half and what is left of it.
LEMMA Halves ==
  ASSUME NEW n \in Nat
  PROVE  /\ n \div 2 \in Nat
         /\ 2 * (n \div 2) <= n /\ n <= 2 * (n \div 2) + 1
  OBVIOUS

\* However many parts are asked for, a negative number included, the parts of a
\* change that is not negative are worth the change, and each is none or a quarter
\* of it.
LEMMA SplitConserves ==
  ASSUME NEW remain \in Nat, NEW n
  PROVE  LET parts == Split(remain, n) IN
         /\ parts \in Nat \X Nat \X Nat
         /\ parts[1] + parts[2] + parts[3] = remain
         /\ \A i \in 1..3 : parts[i] # 0 => 4 * parts[i] + 3 >= remain
<1> DEFINE first == IF n > 1 THEN remain \div 2 ELSE 0
           left  == remain - first
           second == IF n > 2 /\ first # 0 THEN left \div 2 ELSE 0
           rest == remain - first - second
<1>1. /\ first \in Nat /\ 2 * first <= remain
      /\ first # 0 => remain <= 2 * first + 1
  BY Halves
<1>2. left \in Nat /\ remain <= 2 * left
  <2> HIDE DEF first
  <2> QED
    BY <1>1
<1>3. /\ second \in Nat /\ 2 * second <= left
      /\ second # 0 => left <= 2 * second + 1
  <2> HIDE DEF first, left
  <2> QED
    BY <1>2, Halves
<1>4. rest \in Nat /\ left <= 2 * rest /\ first + second + rest = remain
  <2> HIDE DEF first, second
  <2> QED
    BY <1>1, <1>3
<1>5. Split(remain, n) = <<first, second, rest>>
  <2>1. Split(remain, n) = <<first, second, IF rest > 0 THEN rest ELSE 0>>
    BY DEF Split
  <2>2. (IF rest > 0 THEN rest ELSE 0) = rest
    <3> HIDE DEF rest
    <3> QED
      BY <1>4
  <2> QED
    BY <2>1, <2>2
<1> HIDE DEF first, left, second, rest
<1>6. /\ first # 0 => 4 * first + 3 >= remain
      /\ second # 0 => 4 * second + 3 >= remain
      /\ 4 * rest + 3 >= remain
  BY <1>1, <1>2, <1>3, <1>4
<1>7. \A i \in 1..3 : <<first, second, rest>>[i] # 0
                       => 4 * <<first, second, rest>>[i] + 3 >= remain
  <2> TAKE i \in 1..3
  <2>1. i = 1 \/ i = 2 \/ i = 3
    OBVIOUS
  <2> QED
    BY <1>6, <2>1
<1> QED
  BY <1>1, <1>3, <1>4, <1>5, <1>7

-----------------------------------------------------------------------------

\* What is built from inputs that pay for the amount: an integer of at most 3
\* parts is asked for.
LEMMA PartsType ==
  ASSUME NEW remain \in Int, NEW to \in Nat \ {0}
  PROVE  Parts(remain, to) \in Int /\ Parts(remain, to) <= 3
<1>1. RoundedQuotient(remain, to) \in Int
  <2> DEFINE Round(n) == (2 * n * Precision + to) \div (2 * to)
  <2>1. ASSUME NEW n \in Int PROVE Round(n) \in Int
    <3>1. 2 * n * Precision + to \in Int /\ 2 * to \in Nat \ {0}
      BY PrecisionIsPositive
    <3> QED
      BY <3>1
  <2>2. -remain \in Int
    OBVIOUS
  <2>3. Round(remain) \in Int /\ Round(-remain) \in Int
    BY <2>1, <2>2
  <2>4. -Round(-remain) \in Int
    <3> HIDE DEF Round
    <3> QED
      BY <2>3
  <2>5. RoundedQuotient(remain, to) =
          IF remain < 0 THEN -Round(-remain) ELSE Round(remain)
    BY DEF RoundedQuotient
  <2> HIDE DEF Round
  <2> QED
    BY <2>3, <2>4, <2>5
<1> DEFINE r == RoundedQuotient(remain, to)
<1>2. Ceil(r) \in Int
  <2>1. -r \in Int
    BY <1>1
  <2>2. (-r) \div Precision \in Int
    BY <2>1, PrecisionIsPositive
  <2> HIDE DEF r
  <2> QED
    BY <2>2 DEF Ceil
<1>3. \A x \in Int : IntPart(x) \in Int
  <2> TAKE x \in Int
  <2>1. Modulus \in Nat \ {0}
    BY ModulusIsEven
  <2>2. x % Modulus \in Int
    BY <2>1
  <2> QED
    BY <2>1, <2>2 DEF IntPart
<1> HIDE DEF r
<1> QED
  BY <1>2, <1>3 DEF Parts, r

-----------------------------------------------------------------------------

\* The inputs and the amount are fixed before the change is built.
Chosen == sum \in Nat /\ amount \in Nat \ {0}

\* A transaction whose inputs pay for the amount conserves them.
LEMMA BuildConserves ==
  ASSUME Chosen, Build, sum >= amount
  PROVE  amount + change'[1] + change'[2] + change'[3] = sum
<1>1. sum - amount \in Nat
  BY DEF Chosen
<1>2. count' \in Int /\ change' = Split(sum - amount, count')
  BY <1>1, PartsType DEF Chosen, Build
<1> DEFINE parts == Split(sum - amount, count')
<1>3. /\ parts \in Nat \X Nat \X Nat
      /\ parts[1] + parts[2] + parts[3] = sum - amount
  BY <1>1, <1>2, SplitConserves
<1>4. /\ change'[1] \in Nat /\ change'[2] \in Nat /\ change'[3] \in Nat
      /\ change'[1] + change'[2] + change'[3] = sum - amount
  <2> HIDE DEF parts
  <2> QED
    BY <1>2, <1>3 DEF parts
<1> QED
  BY <1>1, <1>4 DEF Chosen

\* For inputs and amounts of any size, quotients rounded to any precision and
\* integers of any width, no transaction loses or makes money with its change.
THEOREM ChangeConserves == Spec => Conserves
<1>1. Init => Chosen
  BY MaxUnitsIsNat DEF Init, Chosen
<1>2. Chosen /\ [Next]_vars => Chosen'
  BY DEF Chosen, Next, Build, vars
<1>3. Chosen /\ [Next]_vars
        => [sum >= amount => amount + change'[1] + change'[2] + change'[3] = sum]_vars
  BY BuildConserves DEF Next
<1> QED
  BY <1>1, <1>2, <1>3, PTL DEF Spec, Conserves

-----------------------------------------------------------------------------
(* A transaction whose inputs do not pay for the amount.                   *)

\* A quotient is not negative, and goes into its dividend ...
LEMMA QuotientFits ==
  ASSUME NEW a \in Nat, NEW b \in Nat \ {0}
  PROVE  a \div b \in Nat /\ b * (a \div b) <= a
  OBVIOUS

\* ... products grow with their factors ...
LEMMA ProductGrows ==
  ASSUME NEW b \in Nat \ {0}, NEW x \in Nat, NEW y \in Nat, x < y
  PROVE  b * x + b <= b * y
  OBVIOUS

\* ... so that a dividend below c + 1 divisors has a quotient of at most c.
LEMMA QuotientAtMost ==
  ASSUME NEW a \in Nat, NEW b \in Nat \ {0}, NEW c \in Nat, a < b * c + b
  PROVE  a \div b <= c
<1>1. PICK q \in Nat : q = a \div b /\ b * q <= a
  BY QuotientFits
<1>2. c < q => b * c + b <= b * q
  BY ProductGrows
<1>3. b * c \in Nat /\ b * q \in Nat
  OBVIOUS
<1> QED
  BY <1>1, <1>2, <1>3

\* The integer part of 0 and -1 is what it is.
LEMMA SmallIntParts == IntPart(0) = 0 /\ IntPart(-1) = -1
<1>1. PICK k \in Nat \ {0} : Modulus = 2 * k
  BY ModulusIsEven
<1>2. /\ Modulus \in Nat /\ Modulus > 0 /\ Modulus \div 2 = k
      /\ 0 % Modulus = 0 /\ (-1) % Modulus = Modulus - 1
  BY <1>1
<1> QED
  BY <1>1, <1>2 DEF IntPart

\* A remainder that is negative asks for no part: it is not below minus the
\* amount, and the quotient of both not below -1.
LEMMA NoPartsWithoutChange ==
  ASSUME NEW remain \in Int, NEW to \in Nat \ {0}, remain < 0, -remain <= to
  PROVE  Parts(remain, to) <= 0
<1> DEFINE a == 2 * (-remain) * Precision + to
           q == a \div (2 * to)
<1>1. PICK p \in Nat \ {0} : p = Precision
  BY PrecisionIsPositive
<1>2. PICK d \in Nat : d = -remain /\ d <= to
  OBVIOUS
<1>3. PICK x \in Nat : x = d * p /\ x <= to * p
  <2>1. d * p \in Nat /\ d * p <= to * p
    BY <1>2
  <2> QED
    BY <2>1
<1>4. PICK y \in Nat : y = to * p /\ (2 * to) * p = 2 * y
  OBVIOUS
<1>5. a = 2 * x + to
  BY <1>1, <1>2, <1>3
<1>6. a \in Nat /\ 2 * to \in Nat \ {0} /\ a < (2 * to) * p + 2 * to
  BY <1>3, <1>4, <1>5
<1> HIDE DEF a
<1>7. q \in Nat /\ q <= p
  BY <1>6, QuotientFits, QuotientAtMost
<1>8. RoundedQuotient(remain, to) = -q
  BY DEF RoundedQuotient, a
<1> HIDE DEF q
<1>9. PICK c \in Nat : c = q \div p /\ c <= 1
  <2>1. q \div p \in Nat /\ q \div p <= 1
    BY <1>7, QuotientFits, QuotientAtMost
  <2> QED
    BY <2>1
<1>10. Ceil(-q) = -c
  <2>1. -(-q) = q
    BY <1>7
  <2> QED
    BY <1>1, <1>9, <2>1 DEF Ceil
<1>11. c = 0 \/ c = 1
  BY <1>9
<1>12. IntPart(-c) = -c
  BY <1>11, SmallIntParts
<1> QED
  BY <1>8, <1>9, <1>10, <1>12 DEF Parts

\* Inputs that do not pay for the amount have no change.
LEMMA BuildNothing ==
  ASSUME Chosen, Build, sum - amount \notin Nat
  PROVE  change' = <<0, 0, 0>>
<1>1. /\ sum - amount \in Int /\ amount \in Nat \ {0}
      /\ sum - amount < 0 /\ -(sum - amount) <= amount
  BY DEF Chosen
<1>2. count' = Parts(sum - amount, amount) /\ change' = Split(sum - amount, count')
  BY DEF Build
<1>3. count' \in Int /\ count' <= 0
  BY <1>1, <1>2, PartsType, NoPartsWithoutChange
<1> QED
  BY <1>1, <1>2, <1>3 DEF Split

\* What is built has its type, whether the inputs pay for the amount or not.
LEMMA BuildType ==
  ASSUME Chosen, Build
  PROVE  count' \in Int /\ count' <= 3 /\ change' \in Nat \X Nat \X Nat
<1>1. sum - amount \in Int /\ amount \in Nat \ {0}
  BY DEF Chosen
<1>2. count' = Parts(sum - amount, amount) /\ change' = Split(sum - amount, count')
  BY DEF Build
<1>3. count' \in Int /\ count' <= 3
  BY <1>1, <1>2, PartsType
<1>4. CASE sum - amount \in Nat
  BY <1>2, <1>3, <1>4, SplitConserves
<1>5. CASE sum - amount \notin Nat
  BY <1>3, <1>5, BuildNothing
<1> QED
  BY <1>4, <1>5

\* At most three parts are asked for and none of them is negative, not even of a
\* transaction whose inputs do not pay for the amount.
THEOREM TypeCorrect == Spec => []TypeOK
<1>1. Init => TypeOK
  <2>1. 0..MaxUnits \subseteq Nat /\ 1..MaxUnits \subseteq Nat \ {0}
    BY MaxUnitsIsNat
  <2> QED
    BY <2>1 DEF Init, TypeOK, NoChange
<1>2. TypeOK /\ [Next]_vars => TypeOK'
  <2>1. ASSUME TypeOK, Build PROVE TypeOK'
    <3>1. Chosen
      BY <2>1 DEF TypeOK, Chosen
    <3> QED
      BY <2>1, <3>1, BuildType DEF TypeOK, Build
  <2> QED
    BY <2>1 DEF Next, TypeOK, vars
<1> QED
  BY <1>1, <1>2, PTL DEF Spec

\* No part of the change is dust next to the others, however many are asked for:
\* when the inputs do not pay for the amount there is no part at all.
THEOREM PartsAreFair == Spec => Spread
<1> DEFINE Fair == \A i \in 1..3 : change'[i] # 0 => 4 * change'[i] + 3 >= sum - amount
<1>1. ASSUME Chosen, Build PROVE Fair
  <2>1. sum - amount \in Int /\ amount \in Nat \ {0}
    BY <1>1 DEF Chosen
  <2>2. count' \in Int /\ change' = Split(sum - amount, count')
    BY <1>1, BuildType DEF Build
  <2>3. CASE sum - amount \in Nat
    BY <2>2, <2>3, SplitConserves
  <2>4. CASE sum - amount \notin Nat
    BY <1>1, <2>1, <2>4, BuildNothing
  <2> QED
    BY <2>3, <2>4
<1>2. Init => Chosen
  BY MaxUnitsIsNat DEF Init, Chosen
<1>3. Chosen /\ [Next]_vars => Chosen'
  BY DEF Chosen, Next, Build, vars
<1>4. Chosen /\ [Next]_vars => [Fair]_vars
  <2> HIDE DEF Fair
  <2> QED
    BY <1>1 DEF Next
<1> QED
  BY <1>2, <1>3, <1>4, PTL DEF Spec, Spread
=============================================================================
