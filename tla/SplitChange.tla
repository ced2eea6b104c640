----------------------------- MODULE SplitChange -----------------------------
(***************************************************************************)
(* How Spend builds the outputs of a transfer: the opponent gets the       *)
(* amount, the change goes back to the user.                               *)
(*                                                                         *)
(* One behaviour is one transaction: inputs and an amount are chosen, then *)
(* the outputs are built.                                                  *)
(***************************************************************************)
EXTENDS Change

CONSTANT MaxUnits   \* bound: the inputs are worth no more

ASSUME MaxUnitsIsNat == MaxUnits \in Nat

VARIABLES
  sum,       \* what the inputs are worth
  amount,    \* what the opponent gets
  count,     \* n, the number of parts that is asked for
  change     \* three slots for the parts, 0 for an empty one

vars == <<sum, amount, count, change>>

NoChange == <<0, 0, 0>>

Init ==
  /\ sum \in 0..MaxUnits
  /\ amount \in 1..MaxUnits
  /\ count = 0
  /\ change = NoChange

\* The change outputs of the transaction.
Build ==
  /\ count' = Parts(sum - amount, amount)
  /\ change' = Split(sum - amount, count')
  /\ UNCHANGED <<sum, amount>>

Next == Build

Spec == Init /\ [][Next]_vars

-----------------------------------------------------------------------------
(* Properties.                                                             *)

TypeOK ==
  /\ sum \in Nat
  /\ amount \in Nat \ {0}
  /\ count \in Int /\ count <= 3
  /\ change \in Nat \X Nat \X Nat

\* The outputs of a transaction are worth what its inputs are: nothing is lost
\* when halves are truncated, the quotient is rounded or the count wraps.
Conserves ==
  [][sum >= amount => amount + change'[1] + change'[2] + change'[3] = sum]_vars

\* No part is dust next to the others: each is a quarter of the change at least.
Spread ==
  [][\A i \in 1..3 : change'[i] # 0 => 4 * change'[i] + 3 >= sum - amount]_vars
==============================================================================
