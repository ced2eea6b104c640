------------------------------- MODULE Change -------------------------------
(***************************************************************************)
(* The change of a transaction: what remains of its inputs is split into   *)
(* up to three parts, so that later transfers find more than one output to *)
(* spend.  Amounts are whole numbers of 10^-8.                             *)
(***************************************************************************)
EXTENDS Integers

CONSTANTS
  Precision,   \* a quotient is rounded to 1/Precision: 10^16
  Modulus      \* integers wrap at this: 2^64

ASSUME PrecisionIsPositive == Precision \in Nat \ {0}
ASSUME ModulusIsEven == Modulus \in {2 * k : k \in 1..Modulus}

-----------------------------------------------------------------------------
(* decimal.Decimal                                                         *)

\* Div: rounded half away from zero, in units of 1/Precision.
RoundedQuotient(p, q) ==
  LET Round(n) == (2 * n * Precision + q) \div (2 * q)
  IN  IF p < 0 THEN -Round(-p) ELSE Round(p)

Ceil(r) == -((-r) \div Precision)

\* IntPart: the low bits of the number.
IntPart(x) ==
  LET low == x % Modulus
  IN  IF low >= Modulus \div 2 THEN low - Modulus ELSE low

-----------------------------------------------------------------------------

\* n of Spend.
Parts(remain, to) ==
  LET n == IntPart(Ceil(RoundedQuotient(remain, to)))
  IN  IF n < 3 THEN n ELSE 3

\* Mutants of Split: the rest forgets the second half ...
SplitRestTooLarge(remain, n) ==
  LET first  == IF n > 1 THEN remain \div 2 ELSE 0
      second == IF n > 2 /\ first # 0 THEN (remain - first) \div 2 ELSE 0
      rest   == remain - first
  IN  <<first, second, IF rest > 0 THEN rest ELSE 0>>

\* ... halves of halves are cut ...
SplitUneven(remain, n) ==
  LET first  == IF n > 1 THEN remain \div 4 ELSE 0
      second == IF n > 2 /\ first # 0 THEN first \div 4 ELSE 0
      rest   == remain - first - second
  IN  <<first, second, IF rest > 0 THEN rest ELSE 0>>

\* ... and the rest is an output even when it is negative.
SplitNegativeRest(remain, n) ==
  LET first  == IF n > 1 THEN remain \div 2 ELSE 0
      second == IF n > 2 /\ first # 0 THEN (remain - first) \div 2 ELSE 0
  IN  <<first, second, remain - first - second>>

\* splitChange for n <= 3: n - 1 times half of what is left, while there is a
\* half, then the rest.  A remainder that is not positive makes no part.
Split(remain, n) ==
  LET first  == IF n > 1 THEN remain \div 2 ELSE 0
      second == IF n > 2 /\ first # 0 THEN (remain - first) \div 2 ELSE 0
      rest   == remain - first - second
  IN  <<first, second, IF rest > 0 THEN rest ELSE 0>>
=============================================================================
