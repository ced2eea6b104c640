-------------------------- MODULE SafeWalletProofs --------------------------
(***************************************************************************)
(* The two halves of the wallet fit together, for every set of servers,    *)
(* workers, requests and utxos.                                            *)
(*                                                                         *)
(* Each half was proved to keep what Claims says, if its environment does; *)
(* here the environment is the other half, which keeps it only as long as  *)
(* the first one does.  The circle is broken by an induction over both     *)
(* invariants at once.                                                     *)
(***************************************************************************)
EXTENDS SafeWallet, TLAPS

\* What each half knows.
Inv == Assigning!Inv /\ Settling!Inv

-----------------------------------------------------------------------------
(* What both halves mean by a grant.                                       *)

\* Sums are the same sums on both sides.
LEMMA SameSum == ASSUME NEW f PROVE Assigning!SumFunction(f) = Settling!SumFunction(f)
  BY DEF Assigning!SumFunction, Assigning!SumFunctionOnSet,
         Assigning!FoldFunctionOnSet, Assigning!MapThenFoldSet,
         Settling!SumFunction, Settling!SumFunctionOnSet,
         Settling!FoldFunctionOnSet, Settling!MapThenFoldSet

\* Outputs are worth the same.
LEMMA SameValue == ASSUME NEW S PROVE Assigning!Value(S) = Settling!Value(S)
  BY SameSum DEF Assigning!Value, Assigning!Total, Settling!Value, Settling!Total

\* And sets are as large.
LEMMA SameSize == ASSUME NEW S PROVE Assigning!Cardinality(S) = Settling!Cardinality(S)
  BY DEF Assigning!Cardinality, Settling!Cardinality

\* What the servers grant is granted in the workers' sense.
LEMMA SameGrant == ASSUME NEW row, Assigning!Grant(row) PROVE Settling!Grant(row)
<1>1. Settling!RangeOf(row) = Assigning!RangeOf(row)
  BY DEF Settling!RangeOf, Assigning!RangeOf
<1>2. Settling!Covers(row)
  BY <1>1, SameValue, SameSize DEF Settling!Covers, Assigning!Covers, Assigning!Grant
<1> QED
  BY <1>2 DEF Settling!Grant, Assigning!Grant, Settling!Assign, Assigning!Assign,
              Settling!CanAssign, Assigning!CanAssign, Settling!HasTrace, Assigning!HasTrace,
              Settling!Transfer, Assigning!Transfer, Settling!Accounts, Assigning!Accounts,
              Settling!Status, Assigning!Status

\* What the servers grant is an order.
LEMMA GrantedIsOrder ==
  ASSUME NEW row \in Assigning!Transfer(Assigning!Traces), Assigning!Granted(row)
  PROVE  \E o \in Orders : Settling!Order(o)
<1>1. Settling!Grant(row) /\ row.status = "assigned" /\ row.from \in saved /\ row.to \in saved
  BY SameGrant DEF Assigning!Granted, Assigning!Grant
<1>2. /\ row.trace \in Traces /\ row.account \in Accounts
      /\ row.amount \in Nat \ {0} /\ row.opponent \in Opponents
  BY DEF Assigning!Granted, Assigning!Transfer, Assigning!Traces, Traces,
         Assigning!ClientTraces, ClientTraces, Assigning!MergeTraces, Assigning!AutoTraces,
         Assigning!Accounts, Accounts
<1> DEFINE o == [trace |-> row.trace, account |-> row.account, amount |-> row.amount,
                 opponent |-> row.opponent]
<1>3. o \in Orders
  BY <1>2 DEF Orders
<1>4. row = Settling!RowOf(o, row.from, row.to)
  BY <1>1 DEF Settling!RowOf, Assigning!Transfer
<1>5. Settling!Order(o)
  BY <1>1, <1>4 DEF Settling!Order
<1> QED
  BY <1>3, <1>5

-----------------------------------------------------------------------------
(* Each step of the wallet is one of both halves.                          *)

\* What Assignment assumes of its constants is so here ...
LEMMA AssigningFits ==
  /\ Users \subseteq Opponents /\ Limit \in Nat \ {0}
  /\ ServerOf \in [Handlers -> Servers]
  /\ Requests \subseteq Assigning!Request /\ NoRequest \notin Requests
  /\ DefaultUser \in Users
  /\ Capacity \in Nat
  /\ Genesis \in Seq(Assigning!Utxo) /\ Seq(Utxo) \subseteq Seq(Assigning!Utxo)
  /\ MaxOutputs \in Nat
  BY UsersAreOpponents, LimitIsPositive, ServersOfHandlers, RequestsAreRequests,
     StartsListed, ArrivalsAreUtxos
  DEF Utxo, Accounts, Request, ClientTraces, Assigning!Utxo, Assigning!Accounts,
      Assigning!Request, Assigning!ClientTraces

\* ... and what Settlement assumes.
LEMMA SettlingFits ==
  /\ Users \subseteq Opponents /\ Limit \in Nat \ {0}
  /\ Precision \in Nat \ {0} /\ Modulus \in {2 * k : k \in 1..Modulus}
  /\ Arrivals \subseteq Settling!Utxo /\ MaxOutputs \in Nat
  /\ PageLimit \in Nat \ {0} /\ CleanLimit \in Nat \ {0}
  /\ Batch \in Nat \ {0} /\ InFlight \in Nat \ {0} /\ RangeLimit \in Nat \ {0}
  /\ Wallets \subseteq Users
  /\ Genesis \in Seq(Settling!Utxo) /\ SpentBefore \subseteq DOMAIN Genesis
  /\ \A o \in Orders :
       /\ o.account \in Settling!Accounts /\ o.amount \in Nat \ {0}
       /\ o.opponent \in Opponents
  BY UsersAreOpponents, LimitIsPositive, PrecisionIsPositive, ModulusIsEven,
     ArrivalsAreUtxos, PageLimitIsPositive, CleanLimitIsPositive, CashierLimits,
     StartsListed
  DEF Utxo, Accounts, Orders, Settling!Utxo, Settling!Accounts

\* A step that is none of the servers' or the merges' business.
LEMMA OthersIdle ==
  ASSUME UNCHANGED <<utxos, db, saved, rpcVars, merger>> PROVE UNCHANGED Assigning!vars
  BY DEF Assigning!vars, rpcVars

\* What the servers and the merges grant is an order to the workers.
LEMMA GrantIsEnvironment ==
  ASSUME UNCHANGED workerVars,
         \/ UNCHANGED <<utxos, db, saved>>
         \/ \E row \in Assigning!Transfer(Assigning!Traces) : Assigning!Granted(row)
  PROVE  [Settling!Next]_(Settling!vars)
<1>1. CASE UNCHANGED <<utxos, db, saved>>
  BY <1>1 DEF workerVars, Settling!vars
<1>2. ASSUME NEW o \in Orders, Settling!Order(o) PROVE Settling!Next
  BY <1>2 DEF workerVars, Settling!Next, Settling!Regular, Settling!Environment
<1> QED
  BY <1>1, <1>2, GrantedIsOrder

\* What the workers and the network do to the tables and the utxos is what the
\* servers expect.
LEMMA WorkIsEnvironment ==
  ASSUME UNCHANGED <<rpcVars, merger>>,
         \/ UNCHANGED <<utxos, db, saved>>
         \/ \E S \in SUBSET (1..Len(utxos)) : Settling!Save(S)
         \/ \E s \in db.outputs : Settling!Delete(s)
         \/ \E i \in DOMAIN db.transfers : Settling!Handle(i)
         \/ \E more \in Seq(Settling!Utxo) :
              /\ Len(utxos) + Len(more) <= MaxOutputs
              /\ utxos' = utxos \o more
              /\ UNCHANGED <<db, saved>>
  PROVE  [Assigning!Next]_(Assigning!vars)
<1> USE DEF Assigning!Next, Assigning!Environment, rpcVars
<1>1. CASE UNCHANGED <<utxos, db, saved>>
  BY <1>1, OthersIdle
<1>2. ASSUME NEW S \in SUBSET (1..Len(utxos)), Settling!Save(S) PROVE Assigning!Next
  BY <1>2 DEF Settling!Save, Assigning!Save, Settling!SaveOutputs, Assigning!SaveOutputs
<1>3. ASSUME NEW s \in db.outputs, Settling!Delete(s) PROVE Assigning!Next
  BY <1>3 DEF Settling!Delete, Assigning!Delete, Settling!DeleteOutput,
              Assigning!DeleteOutput
<1>4. ASSUME NEW i \in DOMAIN db.transfers, Settling!Handle(i) PROVE Assigning!Next
  BY <1>4 DEF Settling!Handle, Assigning!Handle, Settling!MarkHandled,
              Assigning!MarkHandled
<1>5. ASSUME NEW more \in Seq(Settling!Utxo), Len(utxos) + Len(more) <= MaxOutputs,
             utxos' = utxos \o more, UNCHANGED <<db, saved>>
      PROVE  Assigning!Next
  <2>1. more \in Seq(Utxo)
    BY DEF Settling!Utxo, Settling!Accounts, Utxo, Accounts
  <2> QED
    BY <1>5, <2>1 DEF Assigning!Arrive
<1> QED
  BY <1>1, <1>2, <1>3, <1>4, <1>5

\* The servers take a step of their own, and one of the workers' environment.
LEMMA ServersFit ==
  ASSUME Inv, ServerStep
  PROVE  [Assigning!Next]_(Assigning!vars) /\ [Settling!Next]_(Settling!vars)
<1>1. Assigning!Next
  BY DEF ServerStep, Assigning!Next
<1>2. \/ UNCHANGED <<utxos, db, saved>>
      \/ \E row \in Assigning!Transfer(Assigning!Traces) : Assigning!Granted(row)
  BY AssigningFits, Assigning!ServersGrant DEF Inv, ServerStep
<1>3. UNCHANGED workerVars
  BY DEF ServerStep
<1> QED
  BY <1>1, <1>2, <1>3, GrantIsEnvironment

\* So do the merges.
LEMMA MergesFit ==
  ASSUME Inv, NEW w \in Cleaners, MergesOutputs(w)
  PROVE  [Assigning!Next]_(Assigning!vars) /\ [Settling!Next]_(Settling!vars)
<1>1. Assigning!Next
  BY DEF MergesOutputs, Assigning!Next, Assigning!MergeNext, rpcVars
<1>2. \/ UNCHANGED <<utxos, db, saved>>
      \/ \E row \in Assigning!Transfer(Assigning!Traces) : Assigning!Granted(row)
  BY AssigningFits, Assigning!MergesGrant DEF Inv, MergesOutputs
<1>3. UNCHANGED workerVars
  BY DEF MergesOutputs
<1> QED
  BY <1>1, <1>2, <1>3, GrantIsEnvironment

\* A syncer takes a step of its own, and one of the servers' environment.
LEMMA SyncsFit ==
  ASSUME Inv, NEW w \in Syncers, Syncs(w)
  PROVE  [Assigning!Next]_(Assigning!vars) /\ [Settling!Next]_(Settling!vars)
<1>1. Settling!Next
  BY DEF Syncs, Settling!Next, Settling!Regular, Settling!Fault, Settling!DoSync
<1>2. \/ UNCHANGED <<utxos, db, saved>>
      \/ \E S \in SUBSET (1..Len(utxos)) : Settling!Save(S)
  BY SettlingFits, Settling!SyncerSaves, Settling!SavesIsClaimed DEF Inv, Syncs, Settling!Reads
<1>3. UNCHANGED <<rpcVars, merger>>
  BY DEF Syncs
<1> QED
  BY <1>1, <1>2, <1>3, WorkIsEnvironment

\* So does a cleaner, ...
LEMMA CleansFit ==
  ASSUME Inv, NEW w \in Cleaners, Cleans(w)
  PROVE  [Assigning!Next]_(Assigning!vars) /\ [Settling!Next]_(Settling!vars)
<1>1. Settling!Next
  BY DEF Cleans, Settling!Next, Settling!Regular, Settling!Fault, Settling!DoClean
<1>2. \/ UNCHANGED <<utxos, db, saved>>
      \/ \E s \in db.outputs : Settling!Delete(s)
  BY SettlingFits, Settling!CleanerDeletes, Settling!DeletesIsClaimed
  DEF Inv, Cleans, Settling!Reads, Settling!claimVars
<1>3. UNCHANGED <<rpcVars, merger>>
  BY DEF Cleans
<1> QED
  BY <1>1, <1>2, <1>3, WorkIsEnvironment

\* ... a cashier ...
LEMMA CashesFit ==
  ASSUME Inv, NEW w \in Cashiers, Cashes(w)
  PROVE  [Assigning!Next]_(Assigning!vars) /\ [Settling!Next]_(Settling!vars)
<1>1. Settling!Next
  BY DEF Cashes, Settling!Next, Settling!Regular, Settling!Fault, Settling!DoCash
<1>2. \/ UNCHANGED <<utxos, db, saved>>
      \/ \E i \in DOMAIN db.transfers : Settling!Handle(i)
  BY SettlingFits, Settling!CashierPays, Settling!HandlesIsClaimed
  DEF Inv, Cashes, Settling!Reads, Settling!Pays, Settling!claimVars
<1>3. UNCHANGED <<rpcVars, merger>>
  BY DEF Cashes
<1> QED
  BY <1>1, <1>2, <1>3, WorkIsEnvironment

\* ... and the network.
LEMMA NetworkFits ==
  ASSUME Inv, NetworkStep
  PROVE  [Assigning!Next]_(Assigning!vars) /\ [Settling!Next]_(Settling!vars)
<1>1. Settling!Next
  BY DEF NetworkStep, Settling!Next, Settling!Regular, Settling!Environment
<1>2. \E more \in Seq(Settling!Utxo) :
        /\ Len(utxos) + Len(more) <= MaxOutputs
        /\ utxos' = utxos \o more
        /\ UNCHANGED <<db, saved>>
  BY SettlingFits, Settling!NetworkAppends DEF Inv, Settling!Inv, NetworkStep
<1>3. UNCHANGED <<rpcVars, merger>>
  BY DEF NetworkStep
<1> QED
  BY <1>1, <1>2, <1>3, WorkIsEnvironment

\* Every step of the wallet is one of both halves, or changes nothing of one.
LEMMA HalvesFit ==
  ASSUME Inv, [WalletNext]_walletVars
  PROVE  [Assigning!Next]_(Assigning!vars) /\ [Settling!Next]_(Settling!vars)
<1>1. CASE UNCHANGED walletVars
  BY <1>1 DEF walletVars, workerVars, rpcVars, Assigning!vars, Settling!vars
<1> QED
  BY <1>1, ServersFit, MergesFit, SyncsFit, CleansFit, CashesFit, NetworkFits DEF WalletNext

-----------------------------------------------------------------------------
(* The theorems.                                                           *)

\* What each half knows is so in the whole wallet.
THEOREM WalletInvariance == WalletSpec => []Inv
<1>1. WalletInit => Inv
  BY AssigningFits, SettlingFits, Assigning!InvInit, Settling!InvInit DEF WalletInit, Inv
<1>2. Inv /\ [WalletNext]_walletVars => Inv'
  BY AssigningFits, SettlingFits, HalvesFit, Assigning!InvStep, Settling!InvStep DEF Inv
<1> QED
  BY <1>1, <1>2, PTL DEF WalletSpec

\* The whole wallet is what Assignment says, and what Settlement says: neither
\* assumes more of its environment than the other one does.
THEOREM HalvesCompose == WalletSpec => Assigning!Spec /\ Settling!Spec
<1>1. WalletInit => Assigning!Init /\ Settling!Init
  BY DEF WalletInit
<1>2. Inv /\ [WalletNext]_walletVars =>
        [Assigning!Next]_(Assigning!vars) /\ [Settling!Next]_(Settling!vars)
  BY HalvesFit
<1> QED
  BY <1>1, <1>2, WalletInvariance, PTL DEF WalletSpec, Assigning!Spec, Settling!Spec

\* What leaves an account leaves it because a client asked for it, as it asked, or
\* to come back to its user.
THEOREM WalletPaysAsRequested == WalletSpec => []PaidAsRequested
<1>1. ASSUME Inv PROVE PaidAsRequested
  <2>1. Assigning!OnceAsRequested /\ Settling!PaidAsAssigned
    BY <1>1 DEF Inv, Assigning!Inv, Settling!Inv
  <2>2. SUFFICES ASSUME NEW t \in DOMAIN payments
                 PROVE  IF t \in ClientTraces
                          THEN \E r \in Requests :
                                 /\ r.trace = t
                                 /\ payments[t].account = Account(r)
                                 /\ payments[t].amount = r.amount
                                 /\ payments[t].opponent = r.opponent
                          ELSE payments[t].opponent = payments[t].account[1]
    BY DEF PaidAsRequested
  <2>3. PICK i \in DOMAIN db.transfers :
          /\ db.transfers[i].trace = t
          /\ payments[t].account = db.transfers[i].account
          /\ payments[t].amount = db.transfers[i].amount
          /\ payments[t].opponent = db.transfers[i].opponent
    BY <2>1 DEF Settling!PaidAsAssigned
  <2>4. Assigning!AsRequested(db.transfers[i])
    BY <2>1 DEF Assigning!OnceAsRequested
  <2> QED
    BY <2>3, <2>4
    DEF Assigning!AsRequested, Assigning!Account, Account, Assigning!ClientTraces, ClientTraces
<1> QED
  BY <1>1, WalletInvariance, PTL

\* Rows that will be assigned next can be spent, while the servers assign and the
\* cashiers spend.
THEOREM WalletFreeIsUnspent == WalletSpec => []FreeIsUnspent
<1>1. Settling!Spec => []Settling!FreeIsUnspent
  BY SettlingFits, Settling!FreeCanBeSpent
<1> QED
  BY <1>1, HalvesCompose, PTL DEF FreeIsUnspent

\* What the servers assigned and the cashiers did not pay yet can be paid, all of it.
THEOREM WalletCoversAssigned == WalletSpec => []AssignedIsCovered
<1>1. Settling!Spec => []Settling!AssignedIsCovered
  BY SettlingFits, Settling!TransfersAreCovered
<1> QED
  BY <1>1, HalvesCompose, PTL DEF AssignedIsCovered

\* The whole wallet, servers and workers together, is the bank of Payments.
THEOREM WalletImplementsPayments == WalletSpec => PaymentSpec
<1>1. Settling!Spec => Settling!PaymentSpec
  BY SettlingFits, Settling!ImplementsPayments
<1> QED
  BY <1>1, HalvesCompose, PTL DEF PaymentSpec

\* What was proved of each half is so in the whole wallet: no output is given to two
\* transfers or lost behind an offset, an answer that a client got stays true, and
\* nothing is reported handled that was not paid, or passed that is not saved.
THEOREM WalletKeepsPromises ==
  WalletSpec =>
    [](/\ Assigning!NoDoubleAssign /\ Assigning!NothingStranded
       /\ Assigning!RangePays /\ Assigning!OnceAsRequested /\ Assigning!AckDurable
       /\ Settling!PaidAsAssigned /\ Settling!HandledIsPaid /\ Settling!NothingMissed)
<1>1. Assigning!Spec => /\ []Assigning!NoDoubleAssign /\ []Assigning!NothingStranded
                        /\ []Assigning!RangePays /\ []Assigning!OnceAsRequested
                        /\ []Assigning!AckDurable
  BY AssigningFits, Assigning!OutputsAssignedOnce, Assigning!OutputsNeverStranded,
     Assigning!RangesPay, Assigning!TracesOnceAsRequested, Assigning!AnswersLast
<1>2. Settling!Spec => /\ []Settling!PaidAsAssigned /\ []Settling!HandledIsPaid
                       /\ []Settling!NothingMissed
  BY SettlingFits, Settling!PaymentsAreRight, Settling!ReportsAreTrue,
     Settling!OffsetIsRight
<1> QED
  BY <1>1, <1>2, HalvesCompose, PTL
=============================================================================
