------------------------------ MODULE MCWallets ------------------------------
(***************************************************************************)
(* Small instances of Wallets.                                             *)
(***************************************************************************)
EXTENDS Wallets, TLC

CONSTANTS s1, s2, u1, u2, short, long

MCSymmetry == Permutations({s1, s2}) \cup Permutations({u1, u2})

Section(session, private, sessionPrivate) ==
  [session_id |-> session, private_key |-> private,
   session_private_key |-> sessionPrivate]

\* The session of the dapp is replaced; the key may be under either name.
MCRotated == {Section("a", "k", ""), Section("a", "", "k"), Section("b", "k", "")}
=============================================================================
