------------------------------ MODULE Payments ------------------------------
(***************************************************************************)
(* What the wallet promises its clients, without outputs, ranges, offsets, *)
(* workers or tables: accounts with a balance, and orders that are         *)
(* accepted, paid and reported to be handled, each once and in this order. *)
(*                                                                         *)
(* Settlement implements PaymentSpec.                                      *)
(***************************************************************************)
EXTENDS FiniteSetsExt, Naturals

CONSTANTS Users, Assets, Opponents

Accounts == Users \X Assets

VARIABLES
  balance,   \* what every account is worth
  orders     \* the orders that were accepted, by trace

paymentVars == <<balance, orders>>

Order ==
  [account : Accounts, amount : Nat, opponent : Opponents,
   state : {"accepted", "paid", "handled"}]

\* What an account owes to orders that were accepted and not paid.
Owed(book, a) ==
  MapThenSumSet(LAMBDA t : book[t].amount,
    {t \in DOMAIN book : book[t].account = a /\ book[t].state = "accepted"})

\* Every account is worth what it owes.
Solvent == \A a \in Accounts : Owed(orders, a) <= balance[a]

\* An order is accepted only if its account can pay it beside all the others.
Accept ==
  LET before == orders
      after == orders'
  IN
  \E t \in DOMAIN after \ DOMAIN before :
    /\ DOMAIN after = DOMAIN before \cup {t}
    /\ \A s \in DOMAIN before : after[s] = before[s]
    /\ after[t] \in Order /\ after[t].state = "accepted"
    /\ Owed(after, after[t].account) <= balance[after[t].account]
    /\ UNCHANGED balance

Moved(book, t, state) == [book EXCEPT ![t].state = state]

\* The amount goes from the account to the opponent, who may have an account of
\* the wallet as well; nothing else moves.
Pay ==
  LET before == orders
      after == orders'
      from(t) == before[t].account
      to(t) == <<before[t].opponent, from(t)[2]>>
      Moves(t, a, b) == IF a = b THEN before[t].amount ELSE 0
  IN
  \E t \in DOMAIN before :
    /\ before[t].state = "accepted"
    /\ after = Moved(before, t, "paid")
    /\ balance' = [a \in Accounts |->
         (balance[a] + Moves(t, a, to(t))) - Moves(t, a, from(t))]

Report ==
  LET before == orders
      after == orders'
  IN
  \E t \in DOMAIN before :
    /\ before[t].state = "paid"
    /\ after = Moved(before, t, "handled")
    /\ UNCHANGED balance

\* Others pay the accounts: none of them loses.
Receive ==
  LET before == balance
      after == balance'
  IN
  /\ UNCHANGED orders
  /\ \A a \in Accounts : after[a] >= before[a]

PaymentInit == balance \in [Accounts -> Nat] /\ orders = << >>

PaymentNext == Receive \/ Accept \/ Pay \/ Report

PaymentSpec == PaymentInit /\ [][PaymentNext]_paymentVars
=============================================================================
