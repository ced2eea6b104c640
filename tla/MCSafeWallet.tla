---------------------------- MODULE MCSafeWallet ----------------------------
(***************************************************************************)
(* A small instance of SafeWallet: two users, one asset.                   *)
(***************************************************************************)
EXTENDS SafeWallet, TLC

CONSTANTS w1, h1, s1, u1, u2, btc, other, t1, a1

MCOneServer == h1 :> s1

Coin(user, n) == [account |-> <<user, btc>>, amount |-> n]

\* Three coins of one user, the first of which was spent before.
MCOldCoins == <<Coin(u1, 1), Coin(u1, 1), Coin(u1, 2)>>

\* A payment to another user of the wallet.
MCPayments ==
  {[trace |-> <<"client", t1>>, user |-> NoUser, asset |-> btc, amount |-> 2,
    opponent |-> u2]}
=============================================================================
