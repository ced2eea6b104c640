----------------------------- MODULE SafeWallet -----------------------------
(***************************************************************************)
(* The whole wallet: servers and workers over one database and one         *)
(* network, with nothing left to an environment but the clients, the       *)
(* deposits and the failures.                                              *)
(*                                                                         *)
(* Assignment models the servers and the cleaners' merges, and leaves the  *)
(* rest to an environment; Settlement models the rest, and leaves those to *)
(* an environment.  Here each half is the environment of the other: the    *)
(* actions are theirs, over the same variables.                            *)
(***************************************************************************)
EXTENDS CreateTransfer, Syncer, Cleaner, Cashier

CONSTANTS
  Capacity,   \* outputs an account may have before it is merged
  AutoIds,    \* random uuids of merges
  Genesis     \* what the network lists for the wallet at the start

ASSUME StartsListed ==
  /\ Capacity \in Nat
  /\ Genesis \in Seq(Utxo)
  /\ SpentBefore \subseteq DOMAIN Genesis

VARIABLE merger   \* the local state of every cleaner's mergeOutputs

\* Transfers that may be assigned: those of any request and any merge.
Traces == ClientTraces \cup ({"merge"} \X Nat \X Nat) \cup ({"auto"} \X AutoIds)

Orders ==
  [trace : Traces, account : Accounts, amount : Nat \ {0}, opponent : Opponents]

\* The halves, with what is proved about them.
Assigning == INSTANCE AssignmentProofs WITH Arrivals <- Seq(Utxo)

Settling == INSTANCE SettlementProofs

workerVars == <<payments, syncOffset, syncer, cleaner, cashier>>

walletVars == <<utxos, db, saved, rpcVars, merger, workerVars>>

WalletInit == Assigning!Init /\ Settling!Init

-----------------------------------------------------------------------------

ServerStep == Assigning!RpcNext /\ UNCHANGED <<saved, merger, workerVars>>

\* Cleaner.run goes through the outputs, and then through mergeOutputs: one of
\* them at a time.
MergesOutputs(w) ==
  /\ cleaner[w] = Settling!CleanStart
  /\ Assigning!MergeStep(w)
  /\ UNCHANGED <<saved, rpcVars, workerVars>>

Cleans(w) ==
  /\ merger[w] = Assigning!Looping({})
  /\ Settling!Clean(w) \/ Settling!CleanFault(w)
  /\ UNCHANGED <<rpcVars, merger, syncOffset, syncer, cashier>>

Syncs(w) ==
  /\ Settling!Sync(w) \/ Settling!SyncFault(w)
  /\ UNCHANGED <<rpcVars, merger, cleaner, cashier>>

Cashes(w) ==
  /\ Settling!Cash(w) \/ Settling!CashFault(w)
  /\ UNCHANGED <<rpcVars, merger, syncOffset, syncer, cleaner>>

\* Transactions are listed, and deposits.
NetworkStep ==
  /\ Settling!NetworkNext
  /\ UNCHANGED <<rpcVars, merger, syncOffset, syncer, cleaner, cashier>>

WalletNext ==
  \/ ServerStep
  \/ \E w \in Cleaners : MergesOutputs(w) \/ Cleans(w)
  \/ \E w \in Syncers : Syncs(w)
  \/ \E w \in Cashiers : Cashes(w)
  \/ NetworkStep

WalletSpec == WalletInit /\ [][WalletNext]_walletVars

-----------------------------------------------------------------------------
(* Properties.                                                             *)

\* Money leaves an account only as a client asked for it, to whom and as much as
\* it asked: what else is paid is a merge, and stays with its user.
PaidAsRequested ==
  \A t \in DOMAIN payments :
    LET p == payments[t] IN
    IF t \in ClientTraces
      THEN \E r \in Requests :
             /\ r.trace = t
             /\ p.account = Account(r)
             /\ p.amount = r.amount
             /\ p.opponent = r.opponent
      ELSE p.opponent = p.account[1]

\* Rows that will be assigned next can be spent.
FreeIsUnspent == Settling!FreeIsUnspent

\* An account is worth all of its transfers that are not paid yet: the server
\* answers for outputs that only the workers know the fate of.
AssignedIsCovered == Settling!AssignedIsCovered

\* Seen from outside the whole wallet is a bank.
PaymentSpec == Settling!PaymentSpec
=============================================================================
