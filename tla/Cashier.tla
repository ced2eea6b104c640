------------------------------- MODULE Cashier -------------------------------
(***************************************************************************)
(* The cashier of every worker: list the first assigned transfers, work on *)
(* several at once, and wait for all of them.  For each: find the outputs  *)
(* of its range, in the table or, if none are left there, on the network,  *)
(* spend them, and mark the transfer handled.                              *)
(*                                                                         *)
(* A transfer is named by its id, its position in db.transfers.            *)
(***************************************************************************)
EXTENDS Network

CONSTANTS
  Cashiers,     \* worker processes that run a cashier
  Wallets,      \* users whose keys the loader finds
  Batch,        \* transfers of a run: 64
  InFlight,     \* transfers it works on at once: 10
  RangeLimit    \* utxos the network lists for a range: 500

ASSUME CashierLimits ==
  /\ Batch \in Nat \ {0} /\ InFlight \in Nat \ {0} /\ RangeLimit \in Nat \ {0}
  /\ Wallets \subseteq Users

VARIABLE cashier   \* the local state of every cashier

Task == [id : Nat, pc : {"range", "network", "spend", "mark"}, outputs : SUBSET Nat]

\* queue: transfers of the batch that wait for their turn.
CashierState == [queue : SUBSET Nat, running : SUBSET Task]

CashierStart == [queue |-> {}, running |-> {}]

CashierInit == cashier = [w \in Cashiers |-> CashierStart]

Goto(w, k, pc, outputs) ==
  cashier' = [cashier EXCEPT ![w].running =
    (@ \ {k}) \cup {[id |-> k.id, pc |-> pc, outputs |-> outputs]}]

End(w, k) == cashier' = [cashier EXCEPT ![w].running = @ \ {k}]

Row(k) == db.transfers[k.id]

-----------------------------------------------------------------------------

\* The first assigned transfers, by id.
ListStatus(limit) ==
  LET assigned == {i \in DOMAIN db.transfers : db.transfers[i].status = "assigned"}
  IN  {i \in assigned : Cardinality({j \in assigned : j < i}) < limit}

\* transfers.ListStatus, once all transfers of the last batch have ended.
TakeBatch(w, S) ==
  /\ cashier[w] = CashierStart
  /\ S # {}
  /\ cashier' = [cashier EXCEPT ![w].queue = S]
  /\ UNCHANGED <<claimVars, payments>>

ListAssigned(w) == TakeBatch(w, ListStatus(Batch))

\* errgroup.Go: the next transfer has a goroutine.
StartTask(w) ==
  LET c == cashier[w] IN
  /\ c.queue # {}
  /\ Cardinality(c.running) < InFlight
  /\ cashier' = [cashier EXCEPT ![w] =
       [queue |-> c.queue \ {Min(c.queue)},
        running |-> c.running \cup
          {[id |-> Min(c.queue), pc |-> "range", outputs |-> {}]}]]
  /\ UNCHANGED <<claimVars, payments>>

\* Mutant of TableRange: no upper bound.
TableRangeOpen(row) ==
  {s \in db.outputs : utxos[s].account = row.account /\ row.from <= s}

\* The rows of the range in the table.
TableRange(row) ==
  {s \in db.outputs : /\ utxos[s].account = row.account
                      /\ row.from <= s /\ s <= row.to}

\* outputs.ListRange
TakeRange(w, k, S) ==
  /\ k.pc = "range"
  /\ Goto(w, k, IF S = {} THEN "network" ELSE "spend", S)
  /\ UNCHANGED <<claimVars, payments>>

ListRange(w, k) == TakeRange(w, k, TableRange(Row(k)))

\* outputz.ListRange
LoadRange(w, k) ==
  LET S == NetworkRange(Row(k), RangeLimit) IN
  /\ k.pc = "network"
  /\ Row(k).account[1] \in Wallets
  /\ S # {}
  /\ Goto(w, k, "spend", S)
  /\ UNCHANGED <<claimVars, payments>>

\* transferz.Spend: create, sign and submit the transaction of these inputs.
\* A second transaction for the request id is no payment, but may be answered
\* like one.
Spend(w, k) ==
  /\ k.pc = "spend"
  /\ Row(k).account[1] \in Wallets
  /\ \/ Pay(Row(k), k.outputs)
     \/ Row(k).trace \in DOMAIN payments /\ UNCHANGED payments
  /\ Goto(w, k, "mark", {})
  /\ UNCHANGED claimVars

\* The network refuses a transaction, unless it can be paid or was before.
Refused(w, k) ==
  /\ k.pc = "spend"
  /\ ~CanPay(Row(k), k.outputs) /\ ~Paid(Row(k), k.outputs)
  /\ End(w, k)
  /\ UNCHANGED <<claimVars, payments>>

\* The loader finds no wallet, or there is nothing in the range.
Unservable(w, k) ==
  /\ \/ k.pc \in {"network", "spend"} /\ Row(k).account[1] \notin Wallets
     \/ k.pc = "network" /\ NetworkRange(Row(k), RangeLimit) = {}
  /\ End(w, k)
  /\ UNCHANGED <<claimVars, payments>>

\* transfers.UpdateStatus: nothing is updated and an error if another worker
\* was faster.
UpdateStatus(w, k) ==
  /\ k.pc = "mark"
  /\ \/ MarkHandled(k.id)
     \/ Row(k).status # "assigned" /\ UNCHANGED db
  /\ End(w, k)
  /\ UNCHANGED <<utxos, saved, payments>>

Work(w, k) ==
  \/ ListRange(w, k)
  \/ LoadRange(w, k)
  \/ Spend(w, k)
  \/ Refused(w, k)
  \/ Unservable(w, k)
  \/ UpdateStatus(w, k)

Cash(w) ==
  \/ ListAssigned(w)
  \/ StartTask(w)
  \/ \E k \in cashier[w].running : Work(w, k)

-----------------------------------------------------------------------------
(* What goes wrong.                                                        *)

\* A scan stops early.
ListAssignedShort(w) == \E S \in Scans(ListStatus(Batch)) : TakeBatch(w, S)

ListRangeShort(w, k) == \E S \in Scans(TableRange(Row(k))) : TakeRange(w, k, S)

\* Mutant of SpendFails: the error is logged and forgotten.
SpendFailsSilently(w, k) ==
  /\ k.pc = "spend"
  /\ Goto(w, k, "mark", {})
  /\ UNCHANGED <<claimVars, payments>>

\* Spend fails before the transaction is submitted, or the answer is lost.
SpendFails(w, k) ==
  /\ k.pc = "spend"
  /\ \/ UNCHANGED payments
     \/ Row(k).account[1] \in Wallets /\ Pay(Row(k), k.outputs)
  /\ End(w, k)
  /\ UNCHANGED claimVars

\* Another call fails.
TaskFails(w, k) ==
  /\ k.pc # "spend"
  /\ End(w, k)
  /\ UNCHANGED <<claimVars, payments>>

\* The worker stops or crashes.
CrashCashier(w) ==
  /\ cashier[w] # CashierStart
  /\ cashier' = [cashier EXCEPT ![w] = CashierStart]
  /\ UNCHANGED <<claimVars, payments>>

CashFault(w) ==
  \/ ListAssignedShort(w)
  \/ \E k \in cashier[w].running :
       ListRangeShort(w, k) \/ SpendFails(w, k) \/ TaskFails(w, k)
  \/ CrashCashier(w)
=============================================================================
