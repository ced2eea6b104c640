---------------------------- MODULE MCSettlement ----------------------------
(***************************************************************************)
(* Small instances of Settlement: one asset, amounts of one or two units,  *)
(* pages of one or two outputs.                                            *)
(***************************************************************************)
EXTENDS Settlement, TLC

CONSTANTS w1, w2, w3, u, v, btc, x, t1, t2

\* Two of the workers may be renamed.
MCWorkerSymmetry == Permutations({w1, w2})

Coin(user, n) == [account |-> <<user, btc>>, amount |-> n]

To(receiver, t, user, n) ==
  [trace |-> t, account |-> <<user, btc>>, amount |-> n, opponent |-> receiver]

\* Two coins, and a deposit.
MCCoins == <<Coin(u, 1), Coin(u, 1)>>

MCDeposits == {Coin(u, 2)}

\* One payment of two coins.
MCOnePayment == {To(x, t1, u, 2)}

\* Two users, one of them without keys; its first coin was spent before.
MCMixedCoins == <<Coin(u, 1), Coin(v, 1), Coin(u, 1), Coin(u, 1)>>

MCMixedOrders == {To(x, t1, v, 1), To(x, t2, u, 2)}
=============================================================================
