------------------------------- MODULE Ledger -------------------------------
(***************************************************************************)
(* The MySQL tables of the wallet and the queries and transactions that    *)
(* the stores run on them.                                                 *)
(*                                                                         *)
(*   utxos   what the Mixin network lists, in sequence order.  A utxo is   *)
(*           named by its sequence number, its position in the list; its   *)
(*           account and amount never change once it is listed.            *)
(*   db      the tables:                                                   *)
(*     outputs    the sequence numbers of the rows of `outputs`; the rows  *)
(*                copy account and amount from the network and are never   *)
(*                updated, so the number stands for the row;               *)
(*     assigns    the `offset` column of `assigns` for every account, 0    *)
(*                when the account has no row (offsets of rows are > 0);   *)
(*     transfers  the rows of `transfers`; the position of a row is its    *)
(*                AUTO_INCREMENT id.                                       *)
(*                                                                         *)
(* An account is a pair <<user_id, asset_id>>, the primary key of          *)
(* `assigns`.  Amounts are whole numbers of 10^-8.                         *)
(***************************************************************************)
EXTENDS Sequences, FiniteSetsExt

CONSTANTS
  Users,      \* user ids: the dapp's own user and the sub wallets
  Assets,     \* asset ids
  Opponents,  \* receivers of a transfer, the users among them
  Limit       \* most outputs a transfer is given: 256 in both callers of Assign

ASSUME UsersAreOpponents == Users \subseteq Opponents
ASSUME LimitIsPositive == Limit \in Nat \ {0}

VARIABLES utxos, db

Accounts == Users \X Assets

Utxo == [account : Accounts, amount : Nat \ {0}]

Status == {"assigned", "handled"}

\* A row of `transfers`: output_from and output_to are the assign range.
Transfer(Trace) ==
  [trace : Trace, account : Accounts, amount : Nat, opponent : Opponents,
   from : Nat, to : Nat, status : Status]

\* The tables, with transfers of these traces.
Tables(Trace) ==
  [outputs : SUBSET Nat, assigns : [Accounts -> Nat],
   transfers : Seq(Transfer(Trace))]

EmptyDb ==
  [outputs |-> {}, assigns |-> [a \in Accounts |-> 0], transfers |-> << >>]

-----------------------------------------------------------------------------
(* Sums.                                                                   *)

\* Sum of the values of f.  A sum of naturals is a natural: the test only
\* states the type, it never changes the value.
Total(f) == LET sum == SumFunction(f) IN IF sum \in Nat THEN sum ELSE 0

\* What the outputs S are worth together.
Value(S) == Total([s \in S |-> utxos[s].amount])

-----------------------------------------------------------------------------
(* Queries on a snapshot d of the tables.                                  *)

\* The outputs of an account above an offset.
OutputsAbove(d, a, offset) ==
  {s \in d.outputs : utxos[s].account = a /\ s > offset}

\* Mutant of ListTarget: the page is full one output too late.
ListTargetPageTooLong(d, a, offset, target, limit) ==
  LET rows == OutputsAbove(d, a, offset)
      Read(p) == {q \in rows : q <= p}
      StopsAt(p) == \/ Cardinality(Read(p)) > limit
                    \/ Value(Read(p)) >= target
  IN  {s \in rows : \A p \in rows : p < s => ~StopsAt(p)}

\* Outputs above the offset in sequence order, until their sum reaches the
\* target or `limit` rows are read: a row is returned unless the scan stopped
\* at a row before it.
ListTarget(d, a, offset, target, limit) ==
  LET rows == OutputsAbove(d, a, offset)
      Read(p) == {q \in rows : q <= p}
      StopsAt(p) == \/ Cardinality(Read(p)) >= limit
                    \/ Value(Read(p)) >= target
  IN  {s \in rows : \A p \in rows : p < s => ~StopsAt(p)}

\* What a scan of the rows may return: rows.Next also ends the loop when the
\* connection or the context fails, and rows.Err is never asked.
Scans(rows) ==
  {S \in SUBSET rows : \A s \in S, p \in rows : p < s => p \in S}

\* Per account with unassigned outputs: their sum and their number.
SumBalances(d) ==
  LET Free(a) == OutputsAbove(d, a, d.assigns[a])
  IN  {[account |-> a, amount |-> Value(Free(a)), count |-> Cardinality(Free(a))]
         : a \in {b \in Accounts : Free(b) # {}}}

HasTrace(d, t) == \E i \in DOMAIN d.transfers : d.transfers[i].trace = t

\* A listed range: its first and its last output.
Spans(S, from, to) ==
  /\ from \in S
  /\ to \in S
  /\ \A s \in S : from <= s /\ s <= to

\* The transfer that merges outputs: all they are worth, to their own user.
MergeOf(trace, account, S, from, to) ==
  [trace |-> trace, account |-> account, amount |-> Value(S),
   opponent |-> account[1], from |-> from, to |-> to, status |-> "assigned"]

-----------------------------------------------------------------------------
(* Transactions on the primary.                                            *)

\* Mutants of CanAssign: the offset is not compared ...
CanAssignUnlocked(row, previousOffset) == ~HasTrace(db, row.trace)

\* ... and the trace has no unique key.
CanAssignTwice(row, previousOffset) ==
  db.assigns[row.account] = previousOffset

\* updateAssign and insert succeed if the account's offset is still the one
\* the caller read (INSERT of the key when it read none, UPDATE ... WHERE
\* offset = ? when it read one) and no transfer has the trace (unique key).
CanAssign(row, previousOffset) ==
  /\ db.assigns[row.account] = previousOffset
  /\ ~HasTrace(db, row.trace)

\* The transaction moves the offset and inserts the transfer ...
Assign(row, previousOffset) ==
  /\ CanAssign(row, previousOffset)
  /\ db' = [db EXCEPT !.assigns[row.account] = row.to,
                      !.transfers = Append(@, row)]

\* Mutant of AssignFails: the offset moves outside the transaction.
AssignFailsHalfway(row, previousOffset) ==
  \/ UNCHANGED db
  \/ /\ db.assigns[row.account] = previousOffset
     /\ db' = [db EXCEPT !.assigns[row.account] = row.to]

\* ... or is rolled back whole: lock lost, trace taken, database error.
AssignFails(row, previousOffset) == UNCHANGED db

\* Mutant of MarkHandled: the row is updated to pending.
MarkPending(i) ==
  /\ db.transfers[i].status = "assigned"
  /\ db' = [db EXCEPT !.transfers[i].status = "pending"]

\* UPDATE transfers SET status = handled WHERE id = ? AND status = assigned.
MarkHandled(i) ==
  /\ db.transfers[i].status = "assigned"
  /\ db' = [db EXCEPT !.transfers[i].status = "handled"]

\* INSERT IGNORE of a batch of outputs, one transaction.
SaveOutputs(S) == db' = [db EXCEPT !.outputs = @ \cup S]

\* DELETE FROM outputs WHERE sequence = ?
DeleteOutput(s) == db' = [db EXCEPT !.outputs = @ \ {s}]
=============================================================================
