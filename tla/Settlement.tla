----------------------------- MODULE Settlement -----------------------------
(***************************************************************************)
(* How transfers are paid: the syncers, cleaners and cashiers of several   *)
(* workers share the tables and the network, without a lock.               *)
(*                                                                         *)
(* The servers and the cleaners' merges are the environment here: they do  *)
(* what Claims says of them, that is they grant orders the next outputs of *)
(* their accounts.                                                         *)
(***************************************************************************)
EXTENDS Syncer, Cleaner, Cashier

CONSTANTS
  Genesis,   \* what the network lists for the wallet at the start
  Orders     \* transfers that may be assigned: clients' and merges

ASSUME OrdersAreTransfers ==
  /\ Genesis \in Seq(Utxo)
  /\ SpentBefore \subseteq DOMAIN Genesis
  /\ \A o \in Orders :
       o.account \in Accounts /\ o.amount \in Nat \ {0} /\ o.opponent \in Opponents

vars == <<utxos, db, saved, payments, syncOffset, syncer, cleaner, cashier>>

OrderTraces == {o.trace : o \in Orders}

Init ==
  /\ utxos = Genesis
  /\ db = EmptyDb
  /\ saved = {}
  /\ payments = NoPayments
  /\ SyncInit
  /\ CleanInit
  /\ CashierInit

RowOf(o, from, to) ==
  [trace |-> o.trace, account |-> o.account, amount |-> o.amount,
   opponent |-> o.opponent, from |-> from, to |-> to, status |-> "assigned"]

\* An order is assigned a range.
Order(o) == \E from, to \in saved : Grant(RowOf(o, from, to))

Environment ==
  \/ NetworkNext
  \/ \E o \in Orders : Order(o) /\ UNCHANGED payments

DoSync(w) == Sync(w) /\ UNCHANGED <<cleaner, cashier>>

DoClean(w) == Clean(w) /\ UNCHANGED <<syncOffset, syncer, cashier>>

DoCash(w) == Cash(w) /\ UNCHANGED <<syncOffset, syncer, cleaner>>

\* Steps in which no call fails and no worker stops.
Regular ==
  \/ \E w \in Syncers : DoSync(w)
  \/ \E w \in Cleaners : DoClean(w)
  \/ \E w \in Cashiers : DoCash(w)
  \/ Environment /\ UNCHANGED <<syncOffset, syncer, cleaner, cashier>>

Fault ==
  \/ \E w \in Syncers : SyncFault(w) /\ UNCHANGED <<cleaner, cashier>>
  \/ \E w \in Cleaners : CleanFault(w) /\ UNCHANGED <<syncOffset, syncer, cashier>>
  \/ \E w \in Cashiers : CashFault(w) /\ UNCHANGED <<syncOffset, syncer, cleaner>>

Next == Regular \/ Fault

Spec == Init /\ [][Next]_vars

\* The loops of the workers go on.
Fairness ==
  /\ \A w \in Syncers : WF_vars(DoSync(w))
  /\ \A w \in Cleaners : WF_vars(DoClean(w))
  /\ \A w \in Cashiers : WF_vars(DoCash(w))

\* Whatever failed, in the end database and network work for long enough.
FairSpec == Spec /\ Fairness /\ <>[][Regular]_vars

-----------------------------------------------------------------------------
(* Properties.                                                             *)

TypeOK ==
  /\ utxos \in Seq(Utxo)
  /\ saved \subseteq DOMAIN utxos
  /\ db \in Tables(OrderTraces)
  /\ db.outputs \subseteq saved
  /\ DOMAIN payments \subseteq OrderTraces
  /\ \A t \in DOMAIN payments : payments[t] \in Payment
  /\ syncOffset \in 0..Len(utxos) + 1
  /\ syncer \in [Syncers -> SyncerState]
  /\ cleaner \in [Cleaners -> CleanerState]
  /\ cashier \in [Cashiers -> CashierState]

\* A transaction spends exactly the outputs that its transfer was assigned, and
\* pays what the transfer says, though the cashier looks the range up anew at
\* every try, in a table that the cleaner is deleting from and with scans that
\* end early.
PaidAsAssigned ==
  \A t \in DOMAIN payments : \E i \in DOMAIN db.transfers :
    LET row == db.transfers[i] IN
    /\ row.trace = t
    /\ payments[t].inputs = RangeOf(row)
    /\ payments[t].account = row.account
    /\ payments[t].amount = row.amount
    /\ payments[t].opponent = row.opponent

\* A transfer that is handled was paid.
HandledIsPaid ==
  \A i \in DOMAIN db.transfers :
    db.transfers[i].status = "handled" => db.transfers[i].trace \in DOMAIN payments

\* What the sync offset has passed and nobody has spent is in the table.
NothingMissed ==
  \A s \in Listed : s < syncOffset /\ s \notin Spent => s \in db.outputs

\* Rows that will be assigned next can be spent.
FreeIsUnspent ==
  \A s \in db.outputs : s > db.assigns[utxos[s].account] => s \notin Spent

\* What a transaction that is not listed yet owes an account.
Due(p, a) ==
  (IF a = <<p.opponent, p.account[2]>> THEN p.amount ELSE 0)
    + (IF a = p.account THEN Value(p.inputs) - p.amount ELSE 0)

\* What an account is worth: its unspent utxos and what is due to it.
Balance(a) ==
  Value({s \in Listed \ Spent : utxos[s].account = a})
    + Total([t \in {t \in DOMAIN payments : ~payments[t].listed} |-> Due(payments[t], a)])

\* What became of the order that a transfer is.
OrderOf(row) ==
  [account |-> row.account, amount |-> row.amount, opponent |-> row.opponent,
   state |-> IF row.status = "handled" THEN "handled"
             ELSE IF row.trace \in DOMAIN payments THEN "paid" ELSE "accepted"]

P == INSTANCE Payments WITH
  balance <- [a \in Accounts |-> Balance(a)],
  orders <- [t \in {db.transfers[i].trace : i \in DOMAIN db.transfers} |->
    OrderOf(CHOOSE row \in {db.transfers[i] : i \in DOMAIN db.transfers} : row.trace = t)]

\* Seen from outside the wallet is a bank: an order is accepted only if its
\* account can pay it beside all others, is paid once, from its account to its
\* opponent to the last unit, and reported after that, while inputs, change,
\* tables and workers come and go.
PaymentSpec == P!PaymentSpec

\* Whatever was assigned, spent, deleted and listed in the meantime, an account is
\* worth all of its transfers together that are not paid yet: none of them was
\* promised what another one gets, or what is gone.
AssignedIsCovered == P!Solvent

\* Transfers before the i-th that nobody can pay: they stay in the batch.
Unpayable(i) ==
  {j \in DOMAIN db.transfers : j < i /\ db.transfers[j].account[1] \notin Wallets}

\* A transfer of a user whose keys are known, with fewer than a batch of unpayable
\* ones before it, is handled in the end: also when its payment was submitted and
\* not marked, and its rows were deleted, all or some of them, before it was
\* tried again.
EveryTransferHandled ==
  \A i \in 1..Cardinality(Orders) :
    (/\ i \in DOMAIN db.transfers /\ db.transfers[i].account[1] \in Wallets
     /\ Cardinality(Unpayable(i)) < Batch)
      ~> (i \in DOMAIN db.transfers /\ db.transfers[i].status = "handled")

\* Every utxo that the network lists is saved in the end, or was spent.
EveryUtxoSaved ==
  \A s \in 1..MaxOutputs : s \in Listed ~> s \in saved \cup Spent
=============================================================================
