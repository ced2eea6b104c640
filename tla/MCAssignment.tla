---------------------------- MODULE MCAssignment ----------------------------
(***************************************************************************)
(* Small instances of Assignment: one user, one or two assets, amounts of  *)
(* a few units, a page (Limit) of two outputs.                             *)
(***************************************************************************)
EXTENDS Assignment, TLC

CONSTANTS h1, h2, s1, s2, u, btc, eth, x, t1, t2

\* Two handlers of one process, or one of each of two processes.
MCOneServer == h1 :> s1 @@ h2 :> s1

MCTwoServers == h1 :> s1 @@ h2 :> s2

\* The two processes are alike, each with its handler.
MCTwins ==
  {p \in Permutations({h1, h2, s1, s2}) :
     \A h \in {h1, h2} : p[h] \in {h1, h2} /\ p[MCTwoServers[h]] = MCTwoServers[p[h]]}

Coin(asset, n) == [account |-> <<u, asset>>, amount |-> n]

Pay(id, asset, amount) ==
  [trace |-> <<"client", id>>, user |-> u, asset |-> asset, amount |-> amount,
   opponent |-> x]

\* Three coins: one payment takes one of them; the other two need all, more than a
\* page, so that it is merged first. Two of the payments use the same trace.
MCCoins == <<Coin(btc, 1), Coin(btc, 1), Coin(btc, 2)>>

MCPayments == {Pay(t1, btc, 1), Pay(t1, btc, 3), Pay(t2, btc, 3)}

\* A trace that is used for two different payments, one of one coin, by the user,
\* and one of all coins, by nobody.
MCReused ==
  {Pay(t1, btc, 1), [Pay(t1, btc, 3) EXCEPT !.user = NoUser]}

\* Two coins, to which the third one comes later.
MCTwoCoins == <<Coin(btc, 1), Coin(btc, 1)>>

MCLateCoin == {<<Coin(btc, 2)>>}
=============================================================================
