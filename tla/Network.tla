------------------------------- MODULE Network -------------------------------
(***************************************************************************)
(* The Mixin Safe network as the workers use it, and service/output, which *)
(* lists utxos on it.  The network is external: modelled are the answers   *)
(* that service/output and service/transfer rely on.                       *)
(*                                                                         *)
(* A transaction is known to the network by its request id, the trace of   *)
(* the transfer.  Its inputs are not unspent any more from the moment it   *)
(* is submitted; its outputs are listed some time later.                   *)
(***************************************************************************)
EXTENDS Claims, Change

CONSTANTS
  SpentBefore,   \* utxos that were spent before the wallet's database existed
  Arrivals,      \* deposits that may be listed
  MaxOutputs     \* bound: outputs the network ever lists

ASSUME ArrivalsAreUtxos == Arrivals \subseteq Utxo /\ MaxOutputs \in Nat

VARIABLE payments   \* request ids submitted, with their transactions

\* A transaction; listed: its outputs are.
Payment ==
  [account : Accounts, inputs : SUBSET Nat, amount : Nat, opponent : Opponents,
   listed : BOOLEAN]

NoPayments == << >>

Spent == SpentBefore \cup UNION {payments[t].inputs : t \in DOMAIN payments}

Listed == DOMAIN utxos

-----------------------------------------------------------------------------
(* Lists.                                                                  *)

\* SafeListUtxos: the first `limit` utxos at or behind an offset, in ascending
\* order, of the account or, when there is none given, of all users.
Page(rows, offset, limit) ==
  LET behind == {s \in rows : s >= offset}
  IN  {s \in behind : Cardinality({p \in behind : p < s}) < limit}

\* Mutant of Pulled: every state passes.
PulledAll(page) == page

\* Pull keeps those that are unspent ...
Pulled(page) == page \ Spent

\* Mutant of NextOffset: behind the last unspent one.
NextOffsetUnspent(page, offset) ==
  IF Pulled(page) = {} THEN offset ELSE Max(Pulled(page)) + 1

\* ... and moves the offset behind the last one that it was shown.
NextOffset(page, offset) == IF page = {} THEN offset ELSE Max(page) + 1

\* Mutant of NetworkRange: only what can still be spent.
NetworkRangeUnspent(row, limit) ==
  {s \in Page({s \in Listed : utxos[s].account = row.account}, row.from, limit) :
     s <= row.to} \ Spent

\* ListRange: whatever their state, the utxos of the account in the range, of
\* the first `limit` from its start.
NetworkRange(row, limit) ==
  {s \in Page({s \in Listed : utxos[s].account = row.account}, row.from, limit) :
     s <= row.to}

-----------------------------------------------------------------------------
(* Transactions.                                                           *)

\* A transaction is accepted if its inputs are unspent and worth what it pays.
CanPay(row, inputs) ==
  /\ row.trace \notin DOMAIN payments
  /\ inputs \cap Spent = {}
  /\ row.amount <= Value(inputs)

\* Mutant of Pay: all of the inputs goes to the opponent.
PayAll(row, inputs) ==
  /\ CanPay(row, inputs)
  /\ payments' = [t \in DOMAIN payments \cup {row.trace} |->
       IF t = row.trace
         THEN [account |-> row.account, inputs |-> inputs, amount |-> Value(inputs),
               opponent |-> row.opponent, listed |-> FALSE]
         ELSE payments[t]]

\* It is known by its request id, and its outputs are not listed yet.
Pay(row, inputs) ==
  /\ CanPay(row, inputs)
  /\ payments' = [t \in DOMAIN payments \cup {row.trace} |->
       IF t = row.trace
         THEN [account |-> row.account, inputs |-> inputs, amount |-> row.amount,
               opponent |-> row.opponent, listed |-> FALSE]
         ELSE payments[t]]

\* The transaction of this request id has these inputs already.
Paid(row, inputs) ==
  /\ row.trace \in DOMAIN payments
  /\ payments[row.trace].inputs = inputs

\* Mutant of Receipts: the last part of the change is forgotten.
ReceiptsWithoutRest(t) ==
  LET p == payments[t]
      remain == Value(p.inputs) - p.amount
      change == Split(remain, Parts(remain, p.amount))
      To(user, n) == IF user \in Users /\ n > 0
                       THEN <<[account |-> <<user, p.account[2]>>, amount |-> n]>>
                       ELSE << >>
  IN  To(p.opponent, p.amount) \o To(p.account[1], change[1])
        \o To(p.account[1], change[2])

\* What a transaction pays to users of the wallet: the opponent, if it is one,
\* gets the amount, the spender the change.
Receipts(t) ==
  LET p == payments[t]
      remain == Value(p.inputs) - p.amount
      change == Split(remain, Parts(remain, p.amount))
      To(user, n) == IF user \in Users /\ n > 0
                       THEN <<[account |-> <<user, p.account[2]>>, amount |-> n]>>
                       ELSE << >>
  IN  To(p.opponent, p.amount) \o To(p.account[1], change[1])
        \o To(p.account[1], change[2]) \o To(p.account[1], change[3])

\* The transaction is final: its outputs are listed.
Settle(t) ==
  /\ ~payments[t].listed
  /\ Len(utxos) + Len(Receipts(t)) <= MaxOutputs
  /\ payments' = [payments EXCEPT ![t].listed = TRUE]
  /\ utxos' = utxos \o Receipts(t)
  /\ UNCHANGED <<db, saved>>

\* Somebody pays the wallet.
Deposit(u) ==
  /\ Len(utxos) < MaxOutputs
  /\ utxos' = Append(utxos, u)
  /\ UNCHANGED <<db, saved, payments>>

NetworkNext ==
  \/ \E t \in DOMAIN payments : Settle(t)
  \/ \E u \in Arrivals : Deposit(u)
=============================================================================
