------------------------------- MODULE Claims -------------------------------
(***************************************************************************)
(* What the parts of the wallet promise each other about the tables.       *)
(*                                                                         *)
(* The servers and the cleaners' merges only ever Grant a transfer the     *)
(* next outputs of its account, however they race.  The syncers save new   *)
(* outputs behind all they saved before, the cleaners delete assigned      *)
(* outputs only, and the cashiers mark transfers handled.  Each side is    *)
(* modelled in detail against an environment that does what this module    *)
(* says of the other side: Assignment the first, Settlement the second,    *)
(* and each implements ClaimSpec.                                          *)
(***************************************************************************)
EXTENDS Ledger

VARIABLE saved   \* ghost: every output that was ever saved

claimVars == <<utxos, db, saved>>

\* The outputs a transfer was given.
RangeOf(row) ==
  {s \in saved : /\ utxos[s].account = row.account
                 /\ row.from <= s /\ s <= row.to}

\* The range of a transfer pays for it within one transaction, and takes no more
\* outputs than that needs: all they are worth is paid, or without the last one
\* they would not do.
Covers(row) ==
  /\ row.amount <= Value(RangeOf(row))
  /\ \/ row.amount = Value(RangeOf(row))
     \/ Value(RangeOf(row) \ {row.to}) < row.amount
  /\ Cardinality(RangeOf(row)) <= Limit

-----------------------------------------------------------------------------

\* A transfer is assigned all outputs of its account behind the account's
\* offset, up to the end of its range.
Grant(row) ==
  /\ Assign(row, db.assigns[row.account])
  /\ row \in Transfer({row.trace})
  /\ row.status = "assigned"
  /\ row.from \in saved /\ row.to \in saved
  /\ db.assigns[row.account] < row.from /\ row.from <= row.to
  /\ \A s \in saved :
       utxos[s].account = row.account /\ db.assigns[row.account] < s /\ s <= row.to
         => row.from <= s
  /\ Covers(row)
  /\ UNCHANGED <<utxos, saved>>

\* The network lists more outputs behind the ones it lists.
Extend ==
  /\ utxos' \in Seq(Utxo)
  /\ Len(utxos) <= Len(utxos')
  /\ \A s \in DOMAIN utxos : utxos'[s] = utxos[s]
  /\ UNCHANGED <<db, saved>>

\* The syncer saves a page: outputs it saved before, perhaps deleted since, and
\* new ones behind all of those.  Spent ones in between are never saved.
Save(S) ==
  /\ S # {}
  /\ \A s \in S \ saved : \A p \in saved : p < s
  /\ SaveOutputs(S)
  /\ saved' = saved \cup S
  /\ UNCHANGED utxos

\* The cleaner deletes an output that is spent, which an assigned one may be.
Delete(s) ==
  /\ s <= db.assigns[utxos[s].account]
  /\ DeleteOutput(s)
  /\ UNCHANGED <<utxos, saved>>

\* The cashier has spent the range of a transfer.
Handle(i) ==
  /\ MarkHandled(i)
  /\ UNCHANGED <<utxos, saved>>

ClaimInit == utxos \in Seq(Utxo) /\ db = EmptyDb /\ saved = {}

ClaimNext ==
  \/ \E i \in DOMAIN db'.transfers : Grant(db'.transfers[i])
  \/ Extend
  \/ \E S \in SUBSET (1..Len(utxos)) : Save(S)
  \/ \E s \in db.outputs : Delete(s)
  \/ \E i \in DOMAIN db.transfers : Handle(i)

ClaimSpec == ClaimInit /\ [][ClaimNext]_claimVars

-----------------------------------------------------------------------------
(* What the promises are worth.                                            *)

\* No output is given to two transfers, whoever raced for it and however stale
\* the offset and the list were that the loser worked with.
NoDoubleAssign ==
  \A i, j \in DOMAIN db.transfers :
    i # j => RangeOf(db.transfers[i]) \cap RangeOf(db.transfers[j]) = {}

\* An output the offset has passed is in a transfer: nothing below the offset
\* is lost to the wallet because a list missed it.
NothingStranded ==
  \A s \in saved :
    s <= db.assigns[utxos[s].account] =>
      \E i \in DOMAIN db.transfers : s \in RangeOf(db.transfers[i])
=============================================================================
