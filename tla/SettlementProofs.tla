-------------------------- MODULE SettlementProofs --------------------------
(***************************************************************************)
(* How transfers are paid, for every set of workers, orders and utxos: a   *)
(* payment spends exactly what its transfer was assigned, the tables and   *)
(* the network keep what Claims promises, and the clients see the bank     *)
(* that Payments describes.                                                *)
(***************************************************************************)
EXTENDS Settlement, ClaimsProofs

-----------------------------------------------------------------------------
(* The inductive invariant.                                                *)

\* All utxos before x are saved, but for those that were spent before.
Passed(x) == \A s \in Listed : s < x => s \in saved \cup SpentBefore

\* The table has every saved output that can still be spent, none that was spent
\* before, and no gap.
SavedIsKept ==
  /\ SpentBefore \subseteq Listed
  /\ saved \cap SpentBefore = {}
  /\ saved \ Spent \subseteq db.outputs
  /\ \A p \in saved : Passed(p)

\* The offset has passed what is saved, and so has what a syncer makes of it.
SyncerKnows(c) ==
  /\ c.offset <= Len(utxos) + 1 /\ c.next <= Len(utxos) + 1
  /\ Passed(c.offset)
  /\ c.outputs \subseteq Listed \ SpentBefore
  /\ c.pc = "save" =>
       /\ c.outputs # {}
       /\ \A s \in c.outputs : s < c.next
       /\ \A s \in Listed : s < c.next => s \in saved \cup SpentBefore \cup c.outputs
  /\ c.pc \in {"set", "insert"} => Passed(c.next)

SyncersKnow == Passed(syncOffset) /\ \A w \in Syncers : SyncerKnows(syncer[w])

\* A cleaner looks at saved outputs and will delete a spent one.
CleanerKnows(c) == c.todo \subseteq saved /\ c.doomed \subseteq saved \cap Spent

CleanersKnow == \A w \in Cleaners : CleanerKnows(cleaner[w])

\* Ranges lie in the table, up to the offsets, one behind the other.
RowKept(row) ==
  /\ row.from \in saved /\ row.to \in saved
  /\ row.from <= row.to /\ row.to <= db.assigns[row.account]
  /\ row.amount # 0
  /\ Covers(row)

RowsOrdered ==
  /\ \A i \in DOMAIN db.transfers : RowKept(db.transfers[i])
  /\ \A i, j \in DOMAIN db.transfers : i < j =>
       /\ db.transfers[i].trace # db.transfers[j].trace
       /\ db.transfers[i].account = db.transfers[j].account
            => db.transfers[i].to < db.transfers[j].from

\* The first outputs of a range.
Begins(S, row) ==
  /\ S \subseteq RangeOf(row)
  /\ \A s \in S, p \in RangeOf(row) : p < s => p \in S

\* What a cashier is about to spend is a beginning of the range, or will not be
\* spent; what it is about to mark is paid.
TaskKnows(k) ==
  /\ k.id \in DOMAIN db.transfers
  /\ k.pc = "spend" => \/ Row(k).trace \in DOMAIN payments
                       \/ k.outputs \cap Spent # {}
                       \/ Begins(k.outputs, Row(k))
  /\ k.pc = "mark" => Row(k).trace \in DOMAIN payments

CashiersKnow ==
  \A w \in Cashiers :
    /\ cashier[w].queue \subseteq DOMAIN db.transfers
    /\ \A k \in cashier[w].running : TaskKnows(k)

Inv ==
  /\ TypeOK
  /\ SavedIsKept
  /\ SyncersKnow
  /\ CleanersKnow
  /\ RowsOrdered
  /\ CashiersKnow
  /\ PaidAsAssigned
  /\ HandledIsPaid

-----------------------------------------------------------------------------
(* What a state is made of.                                                *)

\* Lists, tables and rows have the types that the provers need.
LEMMA Basics ==
  ASSUME TypeOK
  PROVE  /\ Len(utxos) \in Nat /\ Listed = 1..Len(utxos)
         /\ saved \subseteq Listed /\ saved \subseteq Nat
         /\ \A s \in Listed : utxos[s].account \in Accounts /\ utxos[s].amount \in Nat \ {0}
         /\ db.assigns \in [Accounts -> Nat]
         /\ db.outputs \subseteq saved
         /\ Len(db.transfers) \in Nat /\ DOMAIN db.transfers = 1..Len(db.transfers)
         /\ \A i \in DOMAIN db.transfers : db.transfers[i] \in Transfer(OrderTraces)
<1>1. utxos \in Seq(Utxo) /\ Len(utxos) \in Nat /\ Listed = 1..Len(utxos)
  BY LenProperties DEF TypeOK, Listed
<1>2. \A s \in Listed : utxos[s] \in Utxo
  BY <1>1, ElementOfSeq
<1>3. /\ db.transfers \in Seq(Transfer(OrderTraces))
      /\ Len(db.transfers) \in Nat /\ DOMAIN db.transfers = 1..Len(db.transfers)
  BY LenProperties DEF TypeOK, Tables
<1>4. \A i \in DOMAIN db.transfers : db.transfers[i] \in Transfer(OrderTraces)
  BY <1>3, ElementOfSeq
<1> QED
  BY <1>1, <1>2, <1>3, <1>4 DEF TypeOK, Tables, Utxo, Listed

\* Saved outputs are finitely many and have amounts.
LEMMA SavedIsWorth == ASSUME TypeOK, NEW S \in SUBSET saved PROVE Worth(S)
<1>1. IsFiniteSet(1..Len(utxos))
  BY Basics, FS_Interval
<1>2. S \in SUBSET (1..Len(utxos))
  BY Basics
<1>3. IsFiniteSet(S)
  BY <1>1, <1>2, FS_Subset
<1> QED
  BY <1>3, Basics DEF Worth

-----------------------------------------------------------------------------
(* What a step does to tables, network and payments.                       *)

Reads == UNCHANGED <<utxos, db, saved, payments>>

Lists ==
  /\ Extend
  /\ DOMAIN payments' = DOMAIN payments
  /\ \A t \in DOMAIN payments :
       /\ payments'[t] \in Payment
       /\ payments'[t].inputs = payments[t].inputs
       /\ payments'[t].account = payments[t].account
       /\ payments'[t].amount = payments[t].amount
       /\ payments'[t].opponent = payments[t].opponent

Saves(w) ==
  /\ syncer[w].pc = "save"
  /\ SaveOutputs(syncer[w].outputs)
  /\ saved' = saved \cup syncer[w].outputs
  /\ UNCHANGED <<utxos, payments>>

Deletes(w) ==
  /\ \E s \in cleaner[w].doomed : DeleteOutput(s)
  /\ UNCHANGED <<utxos, saved, payments>>

Pays(k) ==
  /\ k.pc = "spend"
  /\ Pay(Row(k), k.outputs)
  /\ UNCHANGED claimVars

Handles(k) ==
  /\ k.pc = "mark"
  /\ Handle(k.id)
  /\ UNCHANGED payments

\* What a transaction pays the wallet's users are utxos.
LEMMA ReceiptsType ==
  ASSUME TypeOK, NEW t \in DOMAIN payments PROVE Receipts(t) \in Seq(Utxo)
<1> DEFINE p == payments[t]
           remain == Value(p.inputs) - p.amount
           n == Parts(remain, p.amount)
           change == Split(remain, n)
           To(user, m) == IF user \in Users /\ m > 0
                            THEN <<[account |-> <<user, p.account[2]>>, amount |-> m]>>
                            ELSE << >>
<1>1. p \in Payment /\ remain \in Int /\ p.account[2] \in Assets
  <2>1. p \in Payment
    BY DEF TypeOK
  <2>2. Value(p.inputs) \in Nat
    BY DEF Value, Total
  <2> QED
    BY <2>1, <2>2 DEF Payment, Accounts
<1>2. ASSUME NEW user, NEW m \in Int PROVE To(user, m) \in Seq(Utxo)
  <2>1. CASE user \in Users /\ m > 0
    <3>1. [account |-> <<user, p.account[2]>>, amount |-> m] \in Utxo
      BY <1>1, <1>2, <2>1 DEF Utxo, Accounts
    <3> QED
      BY <2>1, <3>1
  <2>2. CASE ~(user \in Users /\ m > 0)
    BY <2>2
  <2> QED
    BY <2>1, <2>2
<1>3. change[1] \in Int /\ change[2] \in Int /\ change[3] \in Int
  <2> HIDE DEF n, remain
  <2> QED
    BY <1>1 DEF Split
<1>4. Receipts(t) = To(p.opponent, p.amount) \o To(p.account[1], change[1])
                      \o To(p.account[1], change[2]) \o To(p.account[1], change[3])
  BY DEF Receipts
<1>5. p.amount \in Int
  BY <1>1 DEF Payment
<1> HIDE DEF To, change, p
<1>6. /\ To(p.opponent, p.amount) \in Seq(Utxo) /\ To(p.account[1], change[1]) \in Seq(Utxo)
      /\ To(p.account[1], change[2]) \in Seq(Utxo) /\ To(p.account[1], change[3]) \in Seq(Utxo)
  BY <1>2, <1>3, <1>5
<1> QED
  BY <1>4, <1>6, ConcatProperties

\* What the network lists comes behind what it listed.
LEMMA NetworkAppends ==
  ASSUME TypeOK, NetworkNext
  PROVE  \E more \in Seq(Utxo) :
           /\ Len(utxos) + Len(more) <= MaxOutputs
           /\ utxos' = utxos \o more
           /\ UNCHANGED <<db, saved>>
<1>1. ASSUME NEW t \in DOMAIN payments, Settle(t)
      PROVE  /\ Receipts(t) \in Seq(Utxo) /\ Len(utxos) + Len(Receipts(t)) <= MaxOutputs
             /\ utxos' = utxos \o Receipts(t) /\ UNCHANGED <<db, saved>>
  BY <1>1, ReceiptsType DEF Settle
<1>2. ASSUME NEW u \in Arrivals, Deposit(u)
      PROVE  /\ <<u>> \in Seq(Utxo) /\ Len(utxos) + Len(<<u>>) <= MaxOutputs
             /\ utxos' = utxos \o <<u>> /\ UNCHANGED <<db, saved>>
  <2>1. u \in Utxo /\ utxos \in Seq(Utxo)
    BY ArrivalsAreUtxos DEF TypeOK
  <2>2. Len(utxos) < MaxOutputs /\ Len(utxos) \in Nat /\ MaxOutputs \in Nat
    BY <1>2, <2>1, LenProperties, ArrivalsAreUtxos DEF Deposit
  <2>3. Append(utxos, u) = utxos \o <<u>>
    BY <2>1, AppendIsConcat
  <2> QED
    BY <1>2, <2>1, <2>2, <2>3 DEF Deposit
<1> QED
  BY <1>1, <1>2 DEF NetworkNext

\* The network lists more utxos and forgets none.
LEMMA NetworkLists == ASSUME TypeOK, NetworkNext PROVE Lists
<1>1. Extend
  <2>1. PICK more \in Seq(Utxo) : utxos' = utxos \o more /\ UNCHANGED <<db, saved>>
    BY NetworkAppends
  <2>2. /\ utxos \in Seq(Utxo) /\ utxos' \in Seq(Utxo)
        /\ Len(utxos') = Len(utxos) + Len(more)
        /\ \A s \in 1..Len(utxos) : utxos'[s] = utxos[s]
    BY <2>1, ConcatProperties DEF TypeOK
  <2>3. Len(utxos) \in Nat /\ Len(more) \in Nat /\ DOMAIN utxos = 1..Len(utxos)
    BY <2>1, <2>2, LenProperties
  <2> QED
    BY <2>1, <2>2, <2>3 DEF Extend
<1>2. ASSUME NEW t \in DOMAIN payments, Settle(t) PROVE Lists
  <2>1. \A u \in DOMAIN payments : payments[u] \in Payment
    BY DEF TypeOK
  <2>2. payments' = [payments EXCEPT ![t] = [payments[t] EXCEPT !.listed = TRUE]]
    BY <1>2 DEF Settle
  <2>3. [payments[t] EXCEPT !.listed = TRUE] \in Payment
    BY <2>1 DEF Payment
  <2> QED
    BY <1>1, <2>1, <2>2, <2>3 DEF Lists, Payment
<1>3. ASSUME NEW u \in Arrivals, Deposit(u) PROVE Lists
  BY <1>1, <1>3 DEF Lists, Deposit, TypeOK
<1> QED
  BY <1>2, <1>3 DEF NetworkNext

\* A syncer saves a page or shares nothing of what it does.
LEMMA SyncerSaves ==
  ASSUME NEW w \in Syncers, Sync(w) \/ SyncFault(w) PROVE Reads \/ Saves(w)
  BY DEF Sync, SyncFault, GetOffset, Pull, SavePage, SetOffset, InsertOffset,
         SaveFails, AbortSync, Saves, Reads, claimVars

\* A cleaner deletes the row it meant to.
LEMMA CleanerDeletes ==
  ASSUME NEW w \in Cleaners, Clean(w) \/ CleanFault(w) PROVE Reads \/ Deletes(w)
  BY DEF Clean, CleanFault, ListRows, ReadRows, CheckRow, DeleteRow,
         ListRowsShort, AbortClean, Deletes, Reads, claimVars

\* A cashier pays a transfer or marks one.
LEMMA CashierPays ==
  ASSUME NEW w \in Cashiers, Cash(w) \/ CashFault(w)
  PROVE  Reads \/ \E k \in cashier[w].running : Pays(k) \/ Handles(k)
<1> USE DEF claimVars, Reads
<1>1. CASE ListAssigned(w) \/ ListAssignedShort(w) \/ StartTask(w) \/ CrashCashier(w)
  BY <1>1 DEF ListAssigned, ListAssignedShort, TakeBatch, StartTask, CrashCashier
<1>2. ASSUME NEW k \in cashier[w].running, Work(w, k) PROVE Reads \/ Pays(k) \/ Handles(k)
  BY <1>2 DEF Work, ListRange, TakeRange, LoadRange, Spend, Refused, Unservable,
              UpdateStatus, Pays, Handles, Handle
<1>3. ASSUME NEW k \in cashier[w].running,
             ListRangeShort(w, k) \/ SpendFails(w, k) \/ TaskFails(w, k)
      PROVE  Reads \/ Pays(k)
  BY <1>3 DEF ListRangeShort, TakeRange, SpendFails, TaskFails, Pays
<1> QED
  BY <1>1, <1>2, <1>3 DEF Cash, CashFault

\* Whatever step is taken, that is what happens to them.
LEMMA Steps ==
  ASSUME TypeOK, [Next]_vars
  PROVE  \/ Reads
         \/ NetworkNext /\ Lists
         \/ \E o \in Orders : Order(o) /\ UNCHANGED payments
         \/ \E w \in Syncers : Saves(w)
         \/ \E w \in Cleaners : Deletes(w)
         \/ \E w \in Cashiers : \E k \in cashier[w].running : Pays(k)
         \/ \E w \in Cashiers : \E k \in cashier[w].running : Handles(k)
<1>1. CASE Regular
  BY <1>1, SyncerSaves, CleanerDeletes, CashierPays, NetworkLists
  DEF Regular, DoSync, DoClean, DoCash, Environment
<1>2. CASE Fault
  BY <1>2, SyncerSaves, CleanerDeletes, CashierPays DEF Fault
<1>3. CASE UNCHANGED vars
  BY <1>3 DEF vars, Reads
<1> QED
  BY <1>1, <1>2, <1>3 DEF Next

-----------------------------------------------------------------------------
(* What lasts.                                                             *)

\* A transfer changes in nothing but its status.
Same(new, old) ==
  /\ new.trace = old.trace /\ new.account = old.account
  /\ new.amount = old.amount /\ new.opponent = old.opponent
  /\ new.from = old.from /\ new.to = old.to

\* Utxos are listed and saved behind the others, offsets move up, transfers and
\* payments stay.
Grows ==
  /\ Len(utxos') \in Nat /\ Len(utxos) <= Len(utxos') /\ Listed' = 1..Len(utxos')
  /\ \A s \in Listed : utxos'[s] = utxos[s]
  /\ saved \subseteq saved' /\ saved' \subseteq Listed'
  /\ \A s \in saved' \ saved, p \in saved : p < s
  /\ \A a \in Accounts : db'.assigns[a] \in Nat /\ db.assigns[a] <= db'.assigns[a]
  /\ Len(db'.transfers) \in Nat /\ Len(db.transfers) <= Len(db'.transfers)
  /\ DOMAIN db'.transfers = 1..Len(db'.transfers)
  /\ \A i \in DOMAIN db.transfers : Same(db'.transfers[i], db.transfers[i])
  /\ DOMAIN payments \subseteq DOMAIN payments'
  /\ \A t \in DOMAIN payments :
       /\ payments'[t].inputs = payments[t].inputs
       /\ payments'[t].account = payments[t].account
       /\ payments'[t].amount = payments[t].amount
       /\ payments'[t].opponent = payments[t].opponent

\* A step that leaves the tables, but for the outputs of db, alone.
LEMMA SameTables ==
  ASSUME TypeOK, db'.assigns = db.assigns, db'.transfers = db.transfers
  PROVE  /\ \A a \in Accounts : db'.assigns[a] \in Nat /\ db.assigns[a] <= db'.assigns[a]
         /\ Len(db'.transfers) \in Nat /\ Len(db.transfers) <= Len(db'.transfers)
         /\ DOMAIN db'.transfers = 1..Len(db'.transfers)
         /\ \A i \in DOMAIN db.transfers : Same(db'.transfers[i], db.transfers[i])
<1>1. \A a \in Accounts : db.assigns[a] \in Nat
  BY Basics
<1> QED
  BY <1>1, Basics DEF Same

\* A range that is granted follows those of its account.
LEMMA OrderGrants ==
  ASSUME TypeOK, NEW o \in Orders, Order(o)
  PROVE  \E row \in Transfer(OrderTraces) :
           /\ Grant(row)
           /\ row.amount # 0
           /\ db'.assigns = [db.assigns EXCEPT ![row.account] = row.to]
           /\ db'.transfers = Append(db.transfers, row)
           /\ db'.outputs = db.outputs
           /\ db' \in Tables(OrderTraces)
           /\ UNCHANGED <<utxos, saved>>
<1>1. PICK from \in saved, to \in saved : Grant(RowOf(o, from, to))
  BY DEF Order
<1> DEFINE row == RowOf(o, from, to)
<1>2. row \in Transfer(OrderTraces) /\ row.amount # 0
  <2>1. from \in Nat /\ to \in Nat
    BY Basics
  <2>2. /\ o.account \in Accounts /\ o.amount \in Nat \ {0} /\ o.opponent \in Opponents
        /\ o.trace \in OrderTraces
    BY OrdersAreTransfers DEF OrderTraces
  <2> QED
    BY <2>1, <2>2 DEF RowOf, Transfer, Status
<1> HIDE DEF row
<1>3. Assign(row, db.assigns[row.account]) /\ UNCHANGED <<utxos, saved>>
  BY <1>1 DEF Grant, row
<1>4. row.account \in Accounts /\ row.to \in Nat
  BY <1>2 DEF Transfer
<1>5. db \in [outputs : SUBSET Nat, assigns : [Accounts -> Nat],
              transfers : Seq(Transfer(OrderTraces))]
  BY DEF TypeOK, Tables
<1>6. db' = [db EXCEPT !.assigns[row.account] = row.to, !.transfers = Append(@, row)]
  BY <1>3 DEF Assign
<1>7. /\ db'.assigns = [db.assigns EXCEPT ![row.account] = row.to]
      /\ db'.transfers = Append(db.transfers, row)
      /\ db'.outputs = db.outputs
      /\ db' = [outputs |-> db'.outputs, assigns |-> db'.assigns,
                transfers |-> db'.transfers]
  BY <1>5, <1>6
<1>8. Append(db.transfers, row) \in Seq(Transfer(OrderTraces))
  BY <1>2, <1>5, AppendProperties
<1>9. [db.assigns EXCEPT ![row.account] = row.to] \in [Accounts -> Nat]
  BY <1>4, <1>5
<1>10. db' \in Tables(OrderTraces)
  BY <1>5, <1>7, <1>8, <1>9 DEF Tables
<1> QED
  BY <1>1, <1>2, <1>3, <1>7, <1>10 DEF row

\* Marking a transfer handled changes its status only.
LEMMA HandleMarks ==
  ASSUME TypeOK, NEW i \in DOMAIN db.transfers, MarkHandled(i)
  PROVE  /\ db' \in Tables(OrderTraces)
         /\ db'.outputs = db.outputs /\ db'.assigns = db.assigns
         /\ db'.transfers = [db.transfers EXCEPT ![i] = [@ EXCEPT !.status = "handled"]]
         /\ DOMAIN db'.transfers = DOMAIN db.transfers
         /\ Len(db'.transfers) = Len(db.transfers)
         /\ \A j \in DOMAIN db.transfers : Same(db'.transfers[j], db.transfers[j])
<1> DEFINE row == [db.transfers[i] EXCEPT !.status = "handled"]
<1>1. db.transfers[i] \in Transfer(OrderTraces)
  BY Basics
<1>2. row \in Transfer(OrderTraces) /\ Same(row, db.transfers[i])
  BY <1>1 DEF Transfer, Status, Same
<1> HIDE DEF row
<1>3. db \in [outputs : SUBSET Nat, assigns : [Accounts -> Nat],
              transfers : Seq(Transfer(OrderTraces))]
  BY DEF TypeOK, Tables
<1>4. db' = [db EXCEPT !.transfers[i] = row]
  BY <1>3 DEF MarkHandled, row
<1>5. /\ db'.transfers = [db.transfers EXCEPT ![i] = row]
      /\ db'.outputs = db.outputs /\ db'.assigns = db.assigns
      /\ db' = [outputs |-> db'.outputs, assigns |-> db'.assigns,
                transfers |-> db'.transfers]
  BY <1>3, <1>4
<1>6. /\ [db.transfers EXCEPT ![i] = row] \in Seq(Transfer(OrderTraces))
      /\ Len([db.transfers EXCEPT ![i] = row]) = Len(db.transfers)
  BY <1>2, <1>3, ExceptSeq, Basics
<1>7. \A j \in DOMAIN db.transfers : Same(db'.transfers[j], db.transfers[j])
  BY <1>2, <1>3, <1>5 DEF Same
<1> QED
  BY <1>3, <1>5, <1>6, <1>7 DEF Tables, row

\* A new transaction is added to those that are there.
LEMMA PayAdds ==
  ASSUME NEW row, NEW inputs, Pay(row, inputs)
  PROVE  /\ row.trace \notin DOMAIN payments
         /\ DOMAIN payments' = DOMAIN payments \cup {row.trace}
         /\ \A t \in DOMAIN payments : payments'[t] = payments[t]
         /\ payments'[row.trace] =
              [account |-> row.account, inputs |-> inputs, amount |-> row.amount,
               opponent |-> row.opponent, listed |-> FALSE]
  BY DEF Pay, CanPay

\* New outputs are saved behind all that were saved: a page has no hole but what
\* was spent before.
LEMMA SavedBehind ==
  ASSUME Inv, NEW w \in Syncers, Saves(w), NEW s \in saved' \ saved, NEW p \in saved
  PROVE  p < s
<1>1. s \in syncer[w].outputs /\ syncer[w].outputs \subseteq Listed \ SpentBefore
  BY DEF Inv, SyncersKnow, SyncerKnows, Saves
<1>2. s \in Listed /\ s \notin SpentBefore /\ s \notin saved
  BY <1>1
<1>3. ~(s < p) /\ s # p
  BY <1>2 DEF Inv, SavedIsKept, Passed
<1>4. s \in Nat /\ p \in Nat
  BY <1>2, Basics DEF Inv
<1> QED
  BY <1>3, <1>4

\* Every step lets the shared state grow in this way.
LEMMA StepGrows == ASSUME Inv, [Next]_vars PROVE Grows
<1>0. TypeOK
  BY DEF Inv
<1>1. Len(utxos) \in Nat /\ Listed = 1..Len(utxos) /\ saved \subseteq Listed
  BY <1>0, Basics
<1>2. CASE Reads
  BY <1>0, <1>1, <1>2, SameTables DEF Grows, Reads, Listed
<1>3. CASE Lists
  <2>1. /\ Len(utxos') \in Nat /\ DOMAIN utxos' = 1..Len(utxos')
    BY <1>3, LenProperties DEF Lists, Extend
  <2> QED
    BY <1>0, <1>1, <1>3, <2>1, SameTables DEF Grows, Lists, Extend, Listed
<1>4. ASSUME NEW o \in Orders, Order(o), UNCHANGED payments PROVE Grows
  <2>1. PICK row \in Transfer(OrderTraces) :
           /\ Grant(row)
           /\ db'.assigns = [db.assigns EXCEPT ![row.account] = row.to]
           /\ db'.transfers = Append(db.transfers, row)
           /\ UNCHANGED <<utxos, saved>>
    BY <1>0, <1>4, OrderGrants
  <2>2. row.account \in Accounts /\ row.to \in Nat /\ db.assigns \in [Accounts -> Nat]
    BY <1>0, Basics DEF Transfer
  <2>3. db.assigns[row.account] < row.from /\ row.from <= row.to /\ row.from \in Nat
    BY <2>1 DEF Grant, Transfer
  <2>4. \A a \in Accounts : db'.assigns[a] \in Nat /\ db.assigns[a] <= db'.assigns[a]
    BY <2>1, <2>2, <2>3
  <2>5. /\ Len(db'.transfers) = Len(db.transfers) + 1
        /\ DOMAIN db'.transfers = 1..Len(db'.transfers)
        /\ \A i \in DOMAIN db.transfers : db'.transfers[i] = db.transfers[i]
        /\ Len(db.transfers) \in Nat
    <3>1. db.transfers \in Seq(Transfer(OrderTraces))
      BY <1>0 DEF TypeOK, Tables
    <3>2. Append(db.transfers, row) \in Seq(Transfer(OrderTraces))
          /\ Len(Append(db.transfers, row)) = Len(db.transfers) + 1
          /\ \A i \in 1..Len(db.transfers) : Append(db.transfers, row)[i] = db.transfers[i]
      BY <3>1, AppendProperties
    <3> QED
      BY <1>0, <2>1, <3>2, Basics, LenProperties
  <2> QED
    BY <1>1, <1>4, <2>1, <2>4, <2>5 DEF Grows, Same, Listed
<1>5. ASSUME NEW w \in Syncers, Saves(w) PROVE Grows
  <2>1. db'.assigns = db.assigns /\ db'.transfers = db.transfers
    BY <1>0, <1>5 DEF Saves, SaveOutputs, TypeOK, Tables
  <2>2. \A s \in saved' \ saved, p \in saved : p < s
    BY <1>5, SavedBehind
  <2>3. syncer[w].outputs \subseteq Listed
    BY DEF Inv, SyncersKnow, SyncerKnows
  <2> QED
    BY <1>0, <1>1, <1>5, <2>1, <2>2, <2>3, SameTables DEF Grows, Saves, Listed
<1>6. ASSUME NEW w \in Cleaners, Deletes(w) PROVE Grows
  <2>1. db'.assigns = db.assigns /\ db'.transfers = db.transfers
    BY <1>0, <1>6 DEF Deletes, DeleteOutput, TypeOK, Tables
  <2> QED
    BY <1>0, <1>1, <1>6, <2>1, SameTables DEF Grows, Deletes, Listed
<1>7. ASSUME NEW w \in Cashiers, NEW k \in cashier[w].running, Pays(k) PROVE Grows
  <2>1. /\ DOMAIN payments \subseteq DOMAIN payments'
        /\ \A t \in DOMAIN payments : payments'[t] = payments[t]
    <3>1. Pay(Row(k), k.outputs)
      BY <1>7 DEF Pays
    <3> QED
      BY <3>1, PayAdds
  <2>2. UNCHANGED <<utxos, db, saved>>
    BY <1>7 DEF Pays, claimVars
  <2> QED
    BY <1>0, <1>1, <2>1, <2>2, SameTables DEF Grows, Listed
<1>8. ASSUME NEW w \in Cashiers, NEW k \in cashier[w].running, Handles(k) PROVE Grows
  <2>1. k.id \in DOMAIN db.transfers
    BY DEF Inv, CashiersKnow, TaskKnows
  <2>2. MarkHandled(k.id) /\ UNCHANGED <<utxos, saved, payments>>
    BY <1>8 DEF Handles, Handle
  <2>3. /\ db'.assigns = db.assigns
        /\ DOMAIN db'.transfers = DOMAIN db.transfers
        /\ Len(db'.transfers) = Len(db.transfers)
        /\ \A j \in DOMAIN db.transfers : Same(db'.transfers[j], db.transfers[j])
    BY <1>0, <2>1, <2>2, HandleMarks
  <2>4. /\ Len(db.transfers) \in Nat /\ DOMAIN db.transfers = 1..Len(db.transfers)
        /\ \A a \in Accounts : db.assigns[a] \in Nat
    BY <1>0, Basics
  <2> QED
    BY <1>0, <1>1, <2>2, <2>3, <2>4 DEF Grows, Listed
<1> QED
  BY <1>0, <1>2, <1>3, <1>4, <1>5, <1>6, <1>7, <1>8, Steps

-----------------------------------------------------------------------------
(* What depends only on what lasts.                                        *)

\* What was spent stays spent.
LEMMA SpentStays == ASSUME Grows PROVE Spent \subseteq Spent'
  BY DEF Grows, Spent

\* What was passed stays passed: new utxos are listed behind.
LEMMA PassedStays ==
  ASSUME TypeOK, Grows, NEW x \in Nat, x <= Len(utxos) + 1, Passed(x)
  PROVE  Passed(x)' /\ x <= Len(utxos') + 1
<1>1. Len(utxos) \in Nat /\ Listed = 1..Len(utxos)
  BY Basics
<1>2. \A s \in Listed' : s < x => s \in Listed
  BY <1>1 DEF Grows
<1> QED
  BY <1>1, <1>2 DEF Passed, Grows

\* A range stays what it was.
LEMMA RangeStays ==
  ASSUME TypeOK, Grows, NEW i \in DOMAIN db.transfers, db.transfers[i].to \in saved
  PROVE  RangeOf(db.transfers[i])' = RangeOf(db.transfers[i])
<1> DEFINE row == db.transfers[i]
           new == db'.transfers[i]
<1>1. new.account = row.account /\ new.from = row.from /\ new.to = row.to
  BY DEF Grows, Same
<1>2. saved' \subseteq Nat /\ row.to \in Nat
  <2>1. saved' \subseteq Nat
    BY DEF Grows
  <2>2. row.to \in Nat
    BY Basics DEF Transfer
  <2> QED
    BY <2>1, <2>2
<1>3. \A s \in saved' \ saved : ~(s <= row.to)
  <2>1. \A s \in saved' \ saved : row.to < s
    BY DEF Grows
  <2> QED
    BY <1>2, <2>1
<1>4. \A s \in saved : s \in saved' /\ utxos'[s] = utxos[s]
  BY Basics DEF Grows
<1>5. RangeOf(db.transfers[i])' =
        {s \in saved' : /\ utxos'[s].account = new.account
                        /\ new.from <= s /\ s <= new.to}
  BY DEF RangeOf
<1>6. RangeOf(row) = {s \in saved : /\ utxos[s].account = row.account
                                    /\ row.from <= s /\ s <= row.to}
  BY DEF RangeOf
<1> HIDE DEF row, new
<1> QED
  BY <1>1, <1>3, <1>4, <1>5, <1>6 DEF row

\* Saved outputs keep their worth.
LEMMA ValueStays ==
  ASSUME TypeOK, Grows, NEW S \in SUBSET saved PROVE Value(S)' = Value(S)
<1>1. \A s \in S : utxos'[s] = utxos[s]
  BY Basics DEF Grows
<1>2. [s \in S |-> utxos'[s].amount] = [s \in S |-> utxos[s].amount]
  BY <1>1
<1> QED
  BY <1>2 DEF Value

\* The outputs of a transaction are a range, and saved.
LEMMA InputsAreSaved ==
  ASSUME PaidAsAssigned, NEW t \in DOMAIN payments
  PROVE  payments[t].inputs \subseteq saved
  BY DEF PaidAsAssigned, RangeOf

\* What is spent was spent before or is saved.
LEMMA SpentIsSaved ==
  ASSUME PaidAsAssigned PROVE Spent \subseteq SpentBefore \cup saved
  BY InputsAreSaved DEF Spent

-----------------------------------------------------------------------------
(* Pages.                                                                  *)

\* A page holds all rows from its offset up to any that it holds.
LEMMA PageIsPrefix ==
  ASSUME NEW n \in Nat, NEW rows \in SUBSET (1..n), NEW offset \in Nat, NEW limit \in Nat
  PROVE  /\ Page(rows, offset, limit) \subseteq rows
         /\ \A s \in Page(rows, offset, limit) : offset <= s
         /\ \A s \in Page(rows, offset, limit), p \in rows :
              offset <= p /\ p < s => p \in Page(rows, offset, limit)
<1> DEFINE behind == {s \in rows : s >= offset}
           Before(s) == {p \in behind : p < s}
           page == Page(rows, offset, limit)
<1>1. page = {s \in behind : Cardinality(Before(s)) < limit}
  BY DEF Page
<1>2. \A S \in SUBSET (1..n) : IsFiniteSet(S) /\ Cardinality(S) \in Nat
  <2>1. IsFiniteSet(1..n)
    BY FS_Interval
  <2> QED
    BY <2>1, FS_Subset, FS_CardinalityType
<1>3. ASSUME NEW s \in page, NEW p \in rows, offset <= p, p < s PROVE p \in page
  <2>1. p \in behind /\ s \in behind /\ Cardinality(Before(s)) < limit
    <3>1. s \in behind /\ Cardinality(Before(s)) < limit
      <4> HIDE DEF page, behind, Before
      <4> QED
        BY <1>1, <1>3
    <3> QED
      BY <1>3, <3>1
  <2>2. Before(p) \in SUBSET Before(s) /\ Before(s) \in SUBSET (1..n)
        /\ Before(p) \in SUBSET (1..n)
    <3>1. behind \subseteq 1..n /\ \A q \in behind : q \in Int
      <4>1. behind \subseteq rows /\ rows \subseteq 1..n
        OBVIOUS
      <4>2. \A q \in 1..n : q \in Int
        OBVIOUS
      <4> HIDE DEF behind
      <4> QED
        BY <4>1, <4>2
    <3>2. p \in Int /\ s \in Int /\ p < s
      BY <1>3, <2>1, <3>1
    <3>3. \A q \in behind : q < p => q < s
      BY <3>1, <3>2
    <3> HIDE DEF behind
    <3> QED
      BY <3>1, <3>3
  <2> HIDE DEF Before
  <2>3. Cardinality(Before(p)) <= Cardinality(Before(s))
    BY <1>2, <2>2, FS_Subset
  <2>4. Cardinality(Before(p)) \in Nat /\ Cardinality(Before(s)) \in Nat
    BY <1>2, <2>2
  <2>5. Cardinality(Before(p)) < limit
    BY <2>1, <2>3, <2>4
  <2> QED
    BY <1>1, <2>1, <2>5
<1>4. page \subseteq rows /\ \A s \in page : offset <= s
  <2>1. behind \subseteq rows /\ \A s \in behind : offset <= s
    OBVIOUS
  <2> HIDE DEF behind, Before, page
  <2> QED
    BY <1>1, <2>1
<1> QED
  BY <1>3, <1>4

\* The page of one row at an output of the list is this output.
LEMMA PageOfOne ==
  ASSUME NEW n \in Nat, NEW rows \in SUBSET (1..n), NEW s \in rows
  PROVE  s \in Page(rows, s, 1)
<1> DEFINE behind == {p \in rows : p >= s}
<1>1. {p \in behind : p < s} = {}
  <2>1. \A p \in rows : p \in Int /\ s \in Int
    OBVIOUS
  <2>2. \A p \in behind : p \in Int /\ s \in Int /\ p >= s
    BY <2>1
  <2>3. \A p \in behind : ~(p < s)
    BY <2>2
  <2> HIDE DEF behind
  <2> QED
    BY <2>3
<1>2. Cardinality({p \in behind : p < s}) < 1
  BY <1>1, FS_EmptySet
<1>3. s \in behind
  OBVIOUS
<1> HIDE DEF behind
<1>4. Page(rows, s, 1) = {q \in behind : Cardinality({p \in behind : p < q}) < 1}
  BY DEF Page, behind
<1> QED
  BY <1>2, <1>3, <1>4

\* The greatest of a set of numbers is one of them, and no other is greater.
LEMMA MaxIsGreatest ==
  ASSUME NEW n \in Nat, NEW S \in SUBSET (1..n), S # {}
  PROVE  Max(S) \in S /\ \A s \in S : s <= Max(S)
<1>1. S \in SUBSET (0..n)
  OBVIOUS
<1>2. \E x \in S : \A y \in S : y <= x
  BY <1>1, NatMax
<1>3. \E x \in S : \A y \in S : x >= y
  BY <1>2
<1>4. Max(S) \in S /\ \A y \in S : Max(S) >= y
  BY <1>3 DEF Max
<1> QED
  BY <1>4

\* The least of a set of naturals is one of them.
LEMMA MinIsLeast ==
  ASSUME NEW S \in SUBSET Nat, S # {} PROVE Min(S) \in S
<1>1. \E x \in S : \A y \in S : x =< y
  BY NatMin
<1> QED
  BY <1>1 DEF Min

-----------------------------------------------------------------------------
(* Syncers.                                                                *)

\* What a syncer knows holds until it takes a step.
LEMMA SyncerStays ==
  ASSUME TypeOK, Grows, NEW w \in Syncers, SyncerKnows(syncer[w]), syncer'[w] = syncer[w]
  PROVE  SyncerKnows(syncer[w])'
<1> DEFINE c == syncer[w]
<1>1. c.offset \in Nat /\ c.next \in Nat
  BY DEF TypeOK, SyncerState
<1>2. Len(utxos) \in Nat /\ Listed = 1..Len(utxos) /\ Len(utxos') \in Nat
      /\ Listed' = 1..Len(utxos') /\ Len(utxos) <= Len(utxos') /\ saved \subseteq saved'
  BY Basics DEF Grows
<1>3. c.offset <= Len(utxos') + 1 /\ c.next <= Len(utxos') + 1
      /\ c.outputs \subseteq Listed' \ SpentBefore
  BY <1>1, <1>2 DEF SyncerKnows
<1>4. \A s \in Listed' : s < c.offset \/ s < c.next => s \in Listed
  BY <1>1, <1>2 DEF SyncerKnows
<1>5. \A s \in Listed' : s < c.offset => s \in saved' \cup SpentBefore
  BY <1>2, <1>4 DEF SyncerKnows, Passed
<1>6. c.pc = "save" =>
        /\ c.outputs # {}
        /\ \A s \in c.outputs : s < c.next
        /\ \A s \in Listed' : s < c.next => s \in saved' \cup SpentBefore \cup c.outputs
  BY <1>2, <1>4 DEF SyncerKnows
<1>7. c.pc \in {"set", "insert"} =>
        \A s \in Listed' : s < c.next => s \in saved' \cup SpentBefore
  BY <1>2, <1>4 DEF SyncerKnows, Passed
<1>8. syncer'[w] = c
  OBVIOUS
<1> HIDE DEF c
<1> QED
  BY <1>3, <1>5, <1>6, <1>7, <1>8 DEF SyncerKnows, Passed

\* What a page shows: whatever is not saved was spent before or is unspent.
LEMMA PullKnows ==
  ASSUME Inv, NEW offset \in Nat, Passed(offset), offset <= Len(utxos) + 1
  PROVE  LET page == Page(Listed, offset, PageLimit)
             next == NextOffset(page, offset)
         IN  /\ next \in Nat /\ next <= Len(utxos) + 1
             /\ Pulled(page) \subseteq Listed \ SpentBefore
             /\ \A s \in Pulled(page) : s < next
             /\ \A s \in Listed : s < next => s \in saved \cup SpentBefore \cup Pulled(page)
<1> DEFINE page == Page(Listed, offset, PageLimit)
           next == NextOffset(page, offset)
<1>1. TypeOK /\ PaidAsAssigned /\ Len(utxos) \in Nat /\ Listed = 1..Len(utxos)
  BY Basics DEF Inv
<1>2. /\ page \subseteq Listed /\ \A s \in page : offset <= s
      /\ \A s \in page, p \in Listed : offset <= p /\ p < s => p \in page
  <2>1. Listed \in SUBSET (1..Len(utxos)) /\ PageLimit \in Nat
    BY <1>1, PageLimitIsPositive
  <2> QED
    BY <1>1, <2>1, PageIsPrefix
<1>3. Pulled(page) = page \ Spent /\ SpentBefore \subseteq Spent
  BY DEF Pulled, Spent
<1> HIDE DEF page
<1>4. CASE page = {}
  <2>1. next = offset
    BY <1>4 DEF NextOffset
  <2> QED
    BY <1>3, <1>4, <2>1 DEF Passed, page
<1>5. CASE page # {}
  <2>1. Max(page) \in page /\ \A s \in page : s <= Max(page)
    BY <1>1, <1>2, <1>5, MaxIsGreatest
  <2>2. next = Max(page) + 1
    BY <1>5 DEF NextOffset
  <2> HIDE DEF next
  <2>3. \A s \in page : s \in Nat /\ s <= Len(utxos)
    BY <1>1, <1>2
  <2>4. Max(page) \in Nat /\ Max(page) <= Len(utxos)
    BY <2>1, <2>3
  <2>5. next \in Nat /\ next <= Len(utxos) + 1 /\ \A s \in page : s < next
    BY <1>1, <2>1, <2>2, <2>3, <2>4
  <2>6. ASSUME NEW s \in Listed, s < next PROVE s \in saved \cup SpentBefore \cup Pulled(page)
    <3>1. CASE s < offset
      BY <3>1 DEF Passed
    <3>2. CASE ~(s < offset)
      <4>1. s \in page
        <5>1. s \in Nat /\ Max(page) \in Nat
          BY <1>1, <2>4
        <5>2. s <= Max(page) /\ offset <= s
          BY <2>2, <2>6, <3>2, <5>1
        <5>3. s = Max(page) \/ s < Max(page)
          BY <5>1, <5>2
        <5> QED
          BY <1>2, <2>1, <5>2, <5>3
      <4> QED
        BY <1>1, <1>3, <4>1, SpentIsSaved
    <3> QED
      BY <3>1, <3>2
  <2> QED
    BY <1>2, <1>3, <2>5, <2>6 DEF page, next
<1> QED
  BY <1>4, <1>5 DEF page

\* Every step of a syncer keeps what it knows, in the state that the step leaves.
LEMMA SyncStepKnows ==
  ASSUME Inv, Grows, NEW w \in Syncers, Sync(w) \/ SyncFault(w)
  PROVE  /\ \E c \in SyncerState :
              /\ syncer' = [syncer EXCEPT ![w] = c]
              /\ c.offset <= Len(utxos') + 1 /\ c.next <= Len(utxos') + 1
              /\ \A s \in Listed' : s < c.offset => s \in saved' \cup SpentBefore
              /\ c.outputs \subseteq Listed' \ SpentBefore
              /\ c.pc = "save" =>
                   /\ c.outputs # {}
                   /\ \A s \in c.outputs : s < c.next
                   /\ \A s \in Listed' :
                        s < c.next => s \in saved' \cup SpentBefore \cup c.outputs
              /\ c.pc \in {"set", "insert"} =>
                   \A s \in Listed' : s < c.next => s \in saved' \cup SpentBefore
         /\ syncOffset' \in 0..Len(utxos') + 1
         /\ \A s \in Listed' : s < syncOffset' => s \in saved' \cup SpentBefore
<1> DEFINE c == syncer[w]
<1>0. TypeOK /\ Len(utxos) \in Nat /\ Listed = 1..Len(utxos)
  BY Basics DEF Inv
<1>1. /\ c \in SyncerState /\ syncer \in [Syncers -> SyncerState]
      /\ SyncerKnows(c) /\ Passed(syncOffset) /\ syncOffset \in 0..Len(utxos) + 1
  BY DEF Inv, TypeOK, SyncersKnow
<1>2. Listed' = Listed /\ utxos' = utxos /\ saved \subseteq saved'
  BY DEF Sync, SyncFault, GetOffset, Pull, SavePage, SetOffset, InsertOffset,
         SaveFails, AbortSync, claimVars, Listed
<1>3. /\ c.offset \in Nat /\ c.next \in Nat /\ c.outputs \in SUBSET Nat
      /\ c.pc \in {"get", "pull", "save", "set", "insert"}
  BY <1>1 DEF SyncerState
<1> DEFINE Known(d) ==
             /\ d.offset <= Len(utxos) + 1 /\ d.next <= Len(utxos) + 1
             /\ \A s \in Listed : s < d.offset => s \in saved' \cup SpentBefore
             /\ d.outputs \subseteq Listed \ SpentBefore
             /\ d.pc = "save" =>
                  /\ d.outputs # {}
                  /\ \A s \in d.outputs : s < d.next
                  /\ \A s \in Listed :
                       s < d.next => s \in saved' \cup SpentBefore \cup d.outputs
             /\ d.pc \in {"set", "insert"} =>
                  \A s \in Listed : s < d.next => s \in saved' \cup SpentBefore
           OffsetKept == /\ syncOffset' \in 0..Len(utxos) + 1
                         /\ \A s \in Listed :
                              s < syncOffset' => s \in saved' \cup SpentBefore
<1>4. SUFFICES /\ \E d \in SyncerState : syncer' = [syncer EXCEPT ![w] = d] /\ Known(d)
               /\ OffsetKept
  BY <1>2
<1>5. syncOffset' = syncOffset => OffsetKept
  BY <1>1, <1>2 DEF Passed
<1>6. Rerun(w) => \E d \in SyncerState : syncer' = [syncer EXCEPT ![w] = d] /\ Known(d)
  <2>1. SyncStart \in SyncerState /\ Known(SyncStart)
    BY <1>0 DEF SyncStart, SyncerState
  <2> HIDE DEF Known
  <2> QED
    BY <2>1 DEF Rerun
<1>7. CASE GetOffset(w)
  <2> DEFINE d == [c EXCEPT !.pc = "pull", !.offset = syncOffset]
  <2>1. syncer' = [syncer EXCEPT ![w] = d] /\ syncOffset' = syncOffset
    BY <1>1, <1>7 DEF GetOffset
  <2>2. d \in SyncerState
    <3>1. syncOffset \in Nat
      BY <1>0, <1>1
    <3> QED
      BY <1>1, <3>1 DEF SyncerState
  <2>3. Known(d)
    BY <1>0, <1>1, <1>2, <1>3 DEF SyncerState, SyncerKnows, Passed
  <2> HIDE DEF d, Known, OffsetKept
  <2> QED
    BY <1>5, <2>1, <2>2, <2>3
<1>8. CASE Pull(w)
  <2> DEFINE page == Page(Listed, c.offset, PageLimit)
             next == NextOffset(page, c.offset)
  <2>1. syncOffset' = syncOffset /\ saved' = saved
    BY <1>8 DEF Pull, claimVars
  <2>2. /\ next \in Nat /\ next <= Len(utxos) + 1
        /\ Pulled(page) \subseteq Listed \ SpentBefore
        /\ \A s \in Pulled(page) : s < next
        /\ \A s \in Listed : s < next => s \in saved \cup SpentBefore \cup Pulled(page)
    BY <1>1, <1>3, PullKnows DEF SyncerKnows
  <2>3. \/ /\ Pulled(page) # {}
           /\ syncer' = [syncer EXCEPT ![w].pc = "save", ![w].next = next,
                                       ![w].outputs = Pulled(page)]
        \/ /\ Pulled(page) = {}
           /\ syncer' = [syncer EXCEPT ![w].pc = "set", ![w].next = next]
        \/ Rerun(w)
    BY <1>8 DEF Pull
  <2> HIDE DEF page, next
  <2>4. CASE Pulled(page) # {} /\ syncer' = [syncer EXCEPT ![w].pc = "save",
                ![w].next = next, ![w].outputs = Pulled(page)]
    <3> DEFINE d == [c EXCEPT !.pc = "save", !.next = next, !.outputs = Pulled(page)]
    <3>1. syncer' = [syncer EXCEPT ![w] = d]
      BY <1>1, <2>4
    <3>2. d \in SyncerState
      <4>1. Pulled(page) \in SUBSET Nat
        BY <1>0, <2>2
      <4> QED
        BY <1>1, <2>2, <4>1 DEF SyncerState
    <3>3. Known(d)
      BY <1>1, <1>2, <2>1, <2>2, <2>4 DEF SyncerState, SyncerKnows, Passed
    <3> HIDE DEF d, Known, OffsetKept
    <3> QED
      BY <1>5, <2>1, <3>1, <3>2, <3>3
  <2>5. CASE Pulled(page) = {} /\ syncer' = [syncer EXCEPT ![w].pc = "set", ![w].next = next]
    <3> DEFINE d == [c EXCEPT !.pc = "set", !.next = next]
    <3>1. syncer' = [syncer EXCEPT ![w] = d]
      BY <1>1, <2>5
    <3>2. d \in SyncerState
      BY <1>1, <2>2 DEF SyncerState
    <3>3. Known(d)
      BY <1>1, <1>2, <2>1, <2>2, <2>5 DEF SyncerState, SyncerKnows, Passed
    <3> HIDE DEF d, Known, OffsetKept
    <3> QED
      BY <1>5, <2>1, <3>1, <3>2, <3>3
  <2> HIDE DEF Known, OffsetKept
  <2> QED
    BY <1>5, <1>6, <2>1, <2>3, <2>4, <2>5
<1>9. CASE SavePage(w)
  <2> DEFINE d == [c EXCEPT !.pc = "set"]
  <2>1. /\ syncer' = [syncer EXCEPT ![w] = d] /\ syncOffset' = syncOffset
        /\ c.pc = "save" /\ saved' = saved \cup c.outputs
    BY <1>1, <1>9 DEF SavePage
  <2>2. d \in SyncerState
    BY <1>1 DEF SyncerState
  <2>3. Known(d)
    BY <1>1, <1>2, <2>1 DEF SyncerState, SyncerKnows, Passed
  <2> HIDE DEF d, Known, OffsetKept
  <2> QED
    BY <1>5, <2>1, <2>2, <2>3
<1>10. CASE SetOffset(w) /\ syncOffset # 0
  <2>1. syncOffset' = c.next /\ Rerun(w) /\ c.pc = "set"
    BY <1>10 DEF SetOffset
  <2>2. OffsetKept
    BY <1>0, <1>1, <1>2, <1>3, <2>1 DEF SyncerKnows, Passed
  <2> HIDE DEF Known, OffsetKept
  <2> QED
    BY <1>6, <2>1, <2>2
<1>11. CASE SetOffset(w) /\ syncOffset = 0
  <2> DEFINE d == [c EXCEPT !.pc = "insert"]
  <2>1. syncer' = [syncer EXCEPT ![w] = d] /\ syncOffset' = syncOffset /\ c.pc = "set"
    BY <1>1, <1>11 DEF SetOffset
  <2>2. d \in SyncerState
    BY <1>1 DEF SyncerState
  <2>3. Known(d)
    BY <1>1, <1>2, <2>1 DEF SyncerState, SyncerKnows, Passed
  <2> HIDE DEF d, Known, OffsetKept
  <2> QED
    BY <1>5, <2>1, <2>2, <2>3
<1>12. CASE InsertOffset(w)
  <2>1. (syncOffset' = c.next \/ syncOffset' = syncOffset) /\ Rerun(w) /\ c.pc = "insert"
    BY <1>12 DEF InsertOffset
  <2>2. syncOffset' = c.next => OffsetKept
    BY <1>0, <1>1, <1>2, <1>3, <2>1 DEF SyncerKnows, Passed
  <2> HIDE DEF Known, OffsetKept
  <2> QED
    BY <1>5, <1>6, <2>1, <2>2
<1>13. CASE SaveFails(w) \/ AbortSync(w)
  <2>1. Rerun(w) /\ syncOffset' = syncOffset
    BY <1>13 DEF SaveFails, AbortSync
  <2> HIDE DEF Known, OffsetKept
  <2> QED
    BY <1>5, <1>6, <2>1
<1> QED
  BY <1>7, <1>8, <1>9, <1>10, <1>11, <1>12, <1>13 DEF Sync, SyncFault

\* Syncers and offset keep their types and what they know.
SyncersTyped ==
  /\ syncOffset \in 0..Len(utxos) + 1
  /\ syncer \in [Syncers -> SyncerState]

\* Whether a syncer moves or another process does, all syncers know afterwards what
\* they must.
LEMMA SyncersStep ==
  ASSUME Inv, Grows,
         \/ \E w \in Syncers : Sync(w) \/ SyncFault(w)
         \/ UNCHANGED <<syncOffset, syncer>>
  PROVE  SyncersTyped' /\ SyncersKnow'
<1>0. TypeOK /\ SyncersKnow /\ Len(utxos) \in Nat
  BY Basics DEF Inv
<1>1. /\ syncer \in [Syncers -> SyncerState] /\ syncOffset \in 0..Len(utxos) + 1
      /\ Len(utxos') \in Nat /\ Len(utxos) <= Len(utxos')
  BY <1>0 DEF TypeOK, Grows
<1>2. \A v \in Syncers : syncer'[v] = syncer[v] => SyncerKnows(syncer[v])'
  BY <1>0, SyncerStays DEF SyncersKnow
<1>3. ASSUME NEW w \in Syncers, Sync(w) \/ SyncFault(w) PROVE SyncersTyped' /\ SyncersKnow'
  <2>1. PICK c \in SyncerState :
              /\ syncer' = [syncer EXCEPT ![w] = c]
              /\ c.offset <= Len(utxos') + 1 /\ c.next <= Len(utxos') + 1
              /\ \A s \in Listed' : s < c.offset => s \in saved' \cup SpentBefore
              /\ c.outputs \subseteq Listed' \ SpentBefore
              /\ c.pc = "save" =>
                   /\ c.outputs # {}
                   /\ \A s \in c.outputs : s < c.next
                   /\ \A s \in Listed' :
                        s < c.next => s \in saved' \cup SpentBefore \cup c.outputs
              /\ c.pc \in {"set", "insert"} =>
                   \A s \in Listed' : s < c.next => s \in saved' \cup SpentBefore
    BY <1>3, SyncStepKnows
  <2>2. /\ syncOffset' \in 0..Len(utxos') + 1
        /\ \A s \in Listed' : s < syncOffset' => s \in saved' \cup SpentBefore
    BY <1>3, SyncStepKnows
  <2>3. syncer'[w] = c /\ \A v \in Syncers : v # w => syncer'[v] = syncer[v]
    BY <1>1, <2>1
  <2>4. SyncerKnows(syncer[w])'
    BY <2>1, <2>3 DEF SyncerKnows, Passed
  <2>5. \A v \in Syncers : SyncerKnows(syncer[v])'
    BY <1>2, <2>3, <2>4
  <2>6. syncer' \in [Syncers -> SyncerState]
    BY <1>1, <2>1
  <2> QED
    BY <2>2, <2>5, <2>6 DEF SyncersTyped, SyncersKnow, Passed
<1>4. CASE UNCHANGED <<syncOffset, syncer>>
  <2>1. \A v \in Syncers : SyncerKnows(syncer[v])'
    BY <1>2, <1>4
  <2>2. syncOffset \in Nat /\ syncOffset <= Len(utxos) + 1 /\ Passed(syncOffset)
    BY <1>0, <1>1 DEF SyncersKnow
  <2>3. \A s \in Listed' : s < syncOffset => s \in saved' \cup SpentBefore
    BY <1>0, <2>2, PassedStays DEF Passed
  <2> QED
    BY <1>0, <1>1, <1>4, <2>1, <2>2, <2>3 DEF SyncersTyped, SyncersKnow, Passed
<1> QED
  BY <1>3, <1>4

-----------------------------------------------------------------------------
(* Cleaners.                                                               *)

CleanersTyped == cleaner \in [Cleaners -> CleanerState]

\* Every step of a cleaner leaves it with saved outputs to look at, and to delete
\* one that is spent.
LEMMA CleanStepKnows ==
  ASSUME Inv, NEW w \in Cleaners, Clean(w) \/ CleanFault(w)
  PROVE  \E c \in CleanerState :
           /\ cleaner' = [cleaner EXCEPT ![w] = c]
           /\ c.todo \subseteq saved /\ c.doomed \subseteq saved \cap Spent
<1> DEFINE c == cleaner[w]
           Known(d) == d.todo \subseteq saved /\ d.doomed \subseteq saved \cap Spent
<1>0. TypeOK /\ Len(utxos) \in Nat /\ Listed = 1..Len(utxos) /\ saved \subseteq Listed
      /\ saved \subseteq Nat /\ db.outputs \subseteq saved
      /\ \A s \in Listed : utxos[s].account \in Accounts
  BY Basics DEF Inv
<1>1. c \in CleanerState /\ cleaner \in [Cleaners -> CleanerState] /\ Known(c)
  BY DEF Inv, TypeOK, CleanersKnow, CleanerKnows
<1>2. SUFFICES \E d \in CleanerState : cleaner' = [cleaner EXCEPT ![w] = d] /\ Known(d)
  OBVIOUS
<1>3. CASE Restart(w)
  <2>1. CleanStart \in CleanerState /\ Known(CleanStart)
    BY DEF CleanStart, CleanerState
  <2> HIDE DEF Known
  <2> QED
    BY <1>3, <2>1 DEF Restart
<1>4. ASSUME NEW S \in SUBSET db.outputs, ReadRows(w, S), S # {}
      PROVE  \E d \in CleanerState : cleaner' = [cleaner EXCEPT ![w] = d] /\ Known(d)
  <2> DEFINE todo == OfOthers(S, c.skip)
             d == [c EXCEPT !.offset = Max(S) + 1, !.todo = todo]
  <2>1. todo \subseteq S
    BY DEF OfOthers
  <2>2. Max(S) + 1 \in Nat
    <3>1. S \in SUBSET (1..Len(utxos))
      BY <1>0
    <3>2. Max(S) \in S
      BY <1>0, <1>4, <3>1, MaxIsGreatest
    <3>3. Max(S) \in Nat
      BY <1>0, <3>2
    <3> QED
      BY <3>3
  <2> HIDE DEF todo
  <2>3. cleaner' = [cleaner EXCEPT ![w] = d]
    BY <1>1, <1>4 DEF ReadRows, todo
  <2>4. d \in CleanerState
    <3>1. todo \in SUBSET Nat
      BY <1>0, <2>1
    <3> QED
      BY <1>1, <2>2, <3>1 DEF CleanerState
  <2>5. Known(d)
    BY <1>0, <1>1, <2>1 DEF CleanerState
  <2> HIDE DEF d, Known
  <2> QED
    BY <2>3, <2>4, <2>5
<1>5. CASE ListRows(w) \/ ListRowsShort(w)
  <2>1. Rows(c) \subseteq db.outputs
    <3>1. db.outputs \in SUBSET (1..Len(utxos))
      BY <1>0
    <3>2. c.offset \in Nat /\ CleanLimit \in Nat
      BY <1>1, CleanLimitIsPositive DEF CleanerState
    <3> QED
      BY <1>0, <3>1, <3>2, PageIsPrefix DEF Rows
  <2>2. PICK S \in SUBSET db.outputs : ReadRows(w, S)
    BY <1>5, <2>1 DEF ListRows, ListRowsShort, Scans
  <2>3. S = {} => Restart(w)
    BY <2>2 DEF ReadRows
  <2> HIDE DEF Known
  <2> QED
    BY <1>3, <1>4, <2>2, <2>3
<1>6. CASE CheckRow(w)
  <2> DEFINE s == Min(c.todo)
             skip == c.skip \cup {utxos[s].account}
             todo == OfOthers(c.todo, skip)
             kept == [c EXCEPT !.todo = todo, !.skip = skip]
             dooms == [c EXCEPT !.todo = @ \ {s}, !.doomed = {s}]
  <2>1. c.todo # {} /\ cleaner' = [cleaner EXCEPT ![w] =
            IF IsUnspent(s) THEN kept ELSE dooms]
    BY <1>6 DEF CheckRow
  <2>2. s \in c.todo
    <3>1. c.todo \in SUBSET Nat
      BY <1>0, <1>1
    <3> QED
      BY <2>1, <3>1, MinIsLeast
  <2>3. s \in saved /\ s \in Listed /\ s \in Nat /\ utxos[s].account \in Accounts
    BY <1>0, <1>1, <2>2
  <2> HIDE DEF s
  <2>4. kept \in CleanerState /\ Known(kept)
    <3>1. todo \subseteq c.todo /\ skip \in SUBSET Accounts
      BY <1>1, <2>3 DEF OfOthers, CleanerState
    <3> HIDE DEF todo, skip
    <3> QED
      BY <1>1, <3>1 DEF CleanerState
  <2>5. ~IsUnspent(s) => dooms \in CleanerState /\ Known(dooms)
    <3>1. ~IsUnspent(s) => s \in Spent
      <4>1. Listed \in SUBSET (1..Len(utxos))
        BY <1>0
      <4>2. s \in Page(Listed, s, 1)
        BY <1>0, <2>3, <4>1, PageOfOne
      <4> QED
        BY <4>2 DEF IsUnspent, Pulled
    <3> QED
      BY <1>1, <2>3, <3>1 DEF CleanerState
  <2> HIDE DEF kept, dooms, Known
  <2> QED
    BY <2>1, <2>4, <2>5
<1>7. CASE DeleteRow(w)
  <2> DEFINE d == [c EXCEPT !.doomed = {}]
  <2>1. cleaner' = [cleaner EXCEPT ![w] = d]
    BY <1>1, <1>7 DEF DeleteRow
  <2>2. d \in CleanerState /\ Known(d)
    BY <1>1 DEF CleanerState
  <2> HIDE DEF d, Known
  <2> QED
    BY <2>1, <2>2
<1>8. CASE AbortClean(w)
  BY <1>3, <1>8 DEF AbortClean
<1> QED
  BY <1>5, <1>6, <1>7, <1>8 DEF Clean, CleanFault

\* The same of the cleaners ...
LEMMA CleanersStep ==
  ASSUME Inv, Grows,
         \/ \E w \in Cleaners : Clean(w) \/ CleanFault(w)
         \/ UNCHANGED cleaner
  PROVE  CleanersTyped' /\ CleanersKnow'
<1>1. cleaner \in [Cleaners -> CleanerState] /\ saved \subseteq saved' /\ Spent \subseteq Spent'
  BY SpentStays DEF Inv, TypeOK, Grows
<1>2. \A v \in Cleaners : cleaner[v].todo \subseteq saved'
                           /\ cleaner[v].doomed \subseteq saved' \cap Spent'
  BY <1>1 DEF Inv, CleanersKnow, CleanerKnows
<1>3. ASSUME NEW w \in Cleaners, Clean(w) \/ CleanFault(w) PROVE CleanersTyped' /\ CleanersKnow'
  <2>1. PICK c \in CleanerState :
           /\ cleaner' = [cleaner EXCEPT ![w] = c]
           /\ c.todo \subseteq saved /\ c.doomed \subseteq saved \cap Spent
    BY <1>3, CleanStepKnows
  <2>2. cleaner'[w] = c /\ \A v \in Cleaners : v # w => cleaner'[v] = cleaner[v]
    BY <1>1, <2>1
  <2>3. \A v \in Cleaners : cleaner'[v].todo \subseteq saved'
                             /\ cleaner'[v].doomed \subseteq saved' \cap Spent'
    BY <1>1, <1>2, <2>1, <2>2
  <2>4. cleaner' \in [Cleaners -> CleanerState]
    BY <1>1, <2>1
  <2> QED
    BY <2>3, <2>4 DEF CleanersTyped, CleanersKnow, CleanerKnows
<1>4. CASE UNCHANGED cleaner
  BY <1>1, <1>2, <1>4 DEF CleanersTyped, CleanersKnow, CleanerKnows
<1> QED
  BY <1>3, <1>4

-----------------------------------------------------------------------------
(* Cashiers.                                                               *)

\* Ranges of two transfers share no output.
LEMMA RangesAreDisjoint ==
  ASSUME TypeOK, RowsOrdered, NEW i \in DOMAIN db.transfers, NEW j \in DOMAIN db.transfers,
         i # j, NEW s \in RangeOf(db.transfers[i])
  PROVE  s \notin RangeOf(db.transfers[j])
<1> DEFINE a == db.transfers[i]
           b == db.transfers[j]
<1>1. SUFFICES ASSUME s \in RangeOf(b) PROVE FALSE
  OBVIOUS
<1>2. i \in Nat /\ j \in Nat /\ s \in Nat
  BY Basics DEF RangeOf
<1>3. a \in Transfer(OrderTraces) /\ b \in Transfer(OrderTraces)
  BY Basics
<1>4. /\ a.from \in Nat /\ a.to \in Nat /\ b.from \in Nat /\ b.to \in Nat
  BY <1>3 DEF Transfer
<1>5. /\ a.account = b.account /\ a.from <= s /\ s <= a.to /\ b.from <= s /\ s <= b.to
  BY <1>1 DEF RangeOf
<1>6. ~(i < j) /\ ~(j < i)
  <2>1. i < j => a.to < b.from
    BY <1>5 DEF RowsOrdered
  <2>2. j < i => b.to < a.from
    BY <1>5 DEF RowsOrdered
  <2> HIDE DEF a, b
  <2> QED
    BY <1>2, <1>4, <1>5, <2>1, <2>2
<1> QED
  BY <1>2, <1>6

\* Nothing of the range of a transfer that is not paid was spent.
LEMMA UnpaidIsUnspent ==
  ASSUME Inv, NEW i \in DOMAIN db.transfers, db.transfers[i].trace \notin DOMAIN payments,
         NEW s \in RangeOf(db.transfers[i])
  PROVE  s \notin Spent
<1>1. TypeOK /\ RowsOrdered /\ SavedIsKept /\ PaidAsAssigned
  BY DEF Inv
<1>2. s \in saved /\ s \notin SpentBefore
  BY <1>1 DEF RangeOf, SavedIsKept
<1>3. ASSUME NEW t \in DOMAIN payments, s \in payments[t].inputs PROVE FALSE
  <2>1. PICK j \in DOMAIN db.transfers :
          db.transfers[j].trace = t /\ payments[t].inputs = RangeOf(db.transfers[j])
    BY <1>1 DEF PaidAsAssigned
  <2> QED
    BY <1>1, <1>3, <2>1, RangesAreDisjoint
<1> QED
  BY <1>2, <1>3 DEF Spent

\* What a scan of its rows returns is a beginning of the range, unless it is paid.
LEMMA TableBegins ==
  ASSUME Inv, NEW i \in DOMAIN db.transfers, db.transfers[i].trace \notin DOMAIN payments,
         NEW S \in Scans(TableRange(db.transfers[i]))
  PROVE  Begins(S, db.transfers[i])
<1> DEFINE row == db.transfers[i]
<1>1. TypeOK /\ SavedIsKept /\ db.outputs \subseteq saved
  BY Basics DEF Inv
<1>2. RangeOf(row) \subseteq db.outputs
  BY <1>1, UnpaidIsUnspent DEF SavedIsKept, RangeOf
<1>3. TableRange(row) = RangeOf(row)
  BY <1>1, <1>2 DEF TableRange, RangeOf
<1> QED
  BY <1>3 DEF Begins, Scans

\* What the network lists of a range holds a spent utxo or is a beginning of it.
LEMMA NetworkBegins ==
  ASSUME Inv, NEW i \in DOMAIN db.transfers,
         NetworkRange(db.transfers[i], RangeLimit) \cap Spent = {}
  PROVE  Begins(NetworkRange(db.transfers[i], RangeLimit), db.transfers[i])
<1> DEFINE row == db.transfers[i]
           rows == {s \in Listed : utxos[s].account = row.account}
           page == Page(rows, row.from, RangeLimit)
           S == NetworkRange(row, RangeLimit)
<1>0. TypeOK /\ SavedIsKept /\ Len(utxos) \in Nat /\ Listed = 1..Len(utxos)
      /\ saved \subseteq Listed /\ SpentBefore \subseteq Spent
  BY Basics DEF Inv, Spent
<1>1. row \in Transfer(OrderTraces) /\ row.to \in saved
  BY Basics DEF Inv, RowsOrdered, RowKept
<1>2. row.from \in Nat /\ row.to \in Nat
  BY <1>1 DEF Transfer
<1>3. rows \in SUBSET (1..Len(utxos)) /\ RangeLimit \in Nat
  BY <1>0, CashierLimits
<1> HIDE DEF rows
<1>4. /\ page \subseteq rows /\ \A s \in page : row.from <= s
      /\ \A s \in page, p \in rows : row.from <= p /\ p < s => p \in page
  <2> HIDE DEF row
  <2> QED
    BY <1>0, <1>2, <1>3, PageIsPrefix
<1>5. S = {s \in page : s <= row.to}
  BY DEF NetworkRange, rows
<1> HIDE DEF page, S
<1>6. ASSUME NEW s \in S PROVE s \in RangeOf(row)
  <2>1. s \in rows /\ row.from <= s /\ s <= row.to /\ s \in Listed
    BY <1>4, <1>5, <1>6 DEF rows
  <2>2. s \notin SpentBefore
    BY <1>0, <1>6 DEF S
  <2>3. s = row.to \/ s < row.to
    BY <1>0, <1>2, <2>1
  <2>4. s \in saved
    BY <1>0, <1>1, <2>1, <2>2, <2>3 DEF SavedIsKept, Passed
  <2> QED
    BY <2>1, <2>4 DEF RangeOf, rows
<1>7. ASSUME NEW s \in S, NEW p \in RangeOf(row), p < s PROVE p \in S
  <2>1. p \in rows /\ row.from <= p /\ p <= row.to
    BY <1>0 DEF RangeOf, rows
  <2> QED
    BY <1>4, <1>5, <1>7, <2>1
<1> QED
  BY <1>6, <1>7 DEF Begins, S

\* What a task knows holds until it takes a step.
LEMMA TaskStays ==
  ASSUME TypeOK, RowsOrdered, Grows, NEW k, TaskKnows(k)
  PROVE  TaskKnows(k)'
<1>1. /\ k.id \in DOMAIN db.transfers /\ k.id \in DOMAIN db'.transfers
      /\ db'.transfers[k.id].trace = db.transfers[k.id].trace
      /\ db.transfers[k.id].to \in saved
  BY Basics DEF TaskKnows, Grows, Same, RowsOrdered, RowKept
<1>2. RangeOf(db.transfers[k.id])' = RangeOf(db.transfers[k.id])
  BY <1>1, RangeStays
<1>3. DOMAIN payments \subseteq DOMAIN payments' /\ Spent \subseteq Spent'
  BY SpentStays DEF Grows
<1>4. Begins(k.outputs, Row(k)) => Begins(k.outputs, Row(k))'
  BY <1>2 DEF Begins, Row
<1> QED
  BY <1>1, <1>3, <1>4 DEF TaskKnows, Row

CashiersTyped == cashier \in [Cashiers -> CashierState]

\* Every step of a cashier leaves tasks that know what they need.
LEMMA CashStepKnows ==
  ASSUME Inv, Grows, NEW w \in Cashiers, Cash(w) \/ CashFault(w)
  PROVE  \E c \in CashierState :
           /\ cashier' = [cashier EXCEPT ![w] = c]
           /\ c.queue \subseteq DOMAIN db'.transfers
           /\ \A k \in c.running : TaskKnows(k)'
<1> DEFINE c == cashier[w]
           Goes(d) == /\ cashier' = [cashier EXCEPT ![w] = d]
                      /\ d.queue \subseteq DOMAIN db'.transfers
                      /\ \A k \in d.running : TaskKnows(k)'
<1>0. TypeOK /\ RowsOrdered
  BY DEF Inv
<1>1. /\ c \in CashierState /\ cashier \in [Cashiers -> CashierState]
      /\ c.queue \subseteq DOMAIN db.transfers
      /\ \A k \in c.running : TaskKnows(k) /\ TaskKnows(k)'
  BY <1>0, TaskStays DEF Inv, TypeOK, CashiersKnow
<1>2. DOMAIN db.transfers \subseteq DOMAIN db'.transfers /\ DOMAIN db.transfers \subseteq Nat
  BY <1>0, Basics DEF Grows
<1>3. c.queue \in SUBSET Nat /\ c.running \in SUBSET Task
  BY <1>1 DEF CashierState
<1>4. SUFFICES \E d \in CashierState : Goes(d)
  OBVIOUS
<1>5. ASSUME NEW k \in c.running, End(w, k) PROVE \E d \in CashierState : Goes(d)
  <2> DEFINE d == [c EXCEPT !.running = @ \ {k}]
  <2>1. cashier' = [cashier EXCEPT ![w] = d]
    BY <1>1, <1>5 DEF End
  <2>2. d \in CashierState /\ d.queue = c.queue /\ d.running \subseteq c.running
    BY <1>1 DEF CashierState
  <2> HIDE DEF d
  <2>3. Goes(d)
    BY <1>1, <1>2, <2>1, <2>2
  <2> HIDE DEF Goes
  <2> QED
    BY <2>2, <2>3
<1>6. ASSUME NEW k \in c.running, NEW pc \in {"network", "spend", "mark"},
             NEW S \in SUBSET Nat, Goto(w, k, pc, S),
             TaskKnows([id |-> k.id, pc |-> pc, outputs |-> S])'
      PROVE  \E d \in CashierState : Goes(d)
  <2> DEFINE next == [id |-> k.id, pc |-> pc, outputs |-> S]
             d == [c EXCEPT !.running = (@ \ {k}) \cup {next}]
  <2>1. cashier' = [cashier EXCEPT ![w] = d]
    BY <1>1, <1>6 DEF Goto
  <2>2. next \in Task
    BY <1>3 DEF Task
  <2>3. TaskKnows(next)'
    BY <1>6
  <2> HIDE DEF next
  <2>4. d \in CashierState /\ d.queue = c.queue
        /\ \A j \in d.running : j \in c.running \/ j = next
    BY <1>1, <2>2 DEF CashierState
  <2> HIDE DEF d
  <2>5. \A j \in d.running : TaskKnows(j)'
    BY <1>1, <2>3, <2>4 DEF TaskKnows, Row
  <2>6. Goes(d)
    BY <1>1, <1>2, <2>1, <2>4, <2>5
  <2> HIDE DEF Goes
  <2> QED
    BY <2>4, <2>6
<1>7. CASE ListAssigned(w) \/ ListAssignedShort(w)
  <2>1. ListStatus(Batch) \subseteq DOMAIN db.transfers
    BY DEF ListStatus
  <2>2. PICK S \in SUBSET DOMAIN db.transfers : TakeBatch(w, S)
    BY <1>7, <2>1 DEF ListAssigned, ListAssignedShort, Scans
  <2> DEFINE d == [c EXCEPT !.queue = S]
  <2>3. cashier' = [cashier EXCEPT ![w] = d] /\ c.running = {}
    BY <1>1, <2>2 DEF TakeBatch, CashierStart
  <2>4. d \in CashierState /\ d.queue = S /\ d.running = {}
    BY <1>1, <1>2, <2>3 DEF CashierState
  <2> HIDE DEF d
  <2> QED
    BY <1>2, <2>3, <2>4
<1>8. CASE StartTask(w)
  <2> DEFINE i == Min(c.queue)
             new == [id |-> i, pc |-> "range", outputs |-> {}]
             d == [queue |-> c.queue \ {i}, running |-> c.running \cup {new}]
  <2>1. c.queue # {} /\ cashier' = [cashier EXCEPT ![w] = d]
    BY <1>8 DEF StartTask
  <2>2. i \in c.queue
    BY <1>3, <2>1, MinIsLeast
  <2> HIDE DEF i
  <2>3. new \in Task /\ new.id \in DOMAIN db'.transfers /\ new.pc = "range"
    BY <1>1, <1>2, <2>2 DEF Task
  <2> HIDE DEF new
  <2>4. d \in CashierState
    BY <1>3, <2>3 DEF CashierState
  <2>5. \A k \in d.running : TaskKnows(k)'
    BY <1>1, <2>3 DEF TaskKnows
  <2>6. d.queue \subseteq DOMAIN db'.transfers
    BY <1>1, <1>2
  <2> HIDE DEF d
  <2> QED
    BY <2>1, <2>4, <2>5, <2>6
<1>9. CASE CrashCashier(w)
  <2>1. CashierStart \in CashierState /\ CashierStart.queue = {} /\ CashierStart.running = {}
    BY DEF CashierStart, CashierState
  <2> QED
    BY <1>9, <2>1 DEF CrashCashier
<1>10. ASSUME NEW k \in c.running, NEW S \in Scans(TableRange(Row(k))), TakeRange(w, k, S)
       PROVE  \E d \in CashierState : Goes(d)
  <2> DEFINE pc == IF S = {} THEN "network" ELSE "spend"
             next == [id |-> k.id, pc |-> pc, outputs |-> S]
  <2>1. Goto(w, k, pc, S) /\ pc \in {"network", "spend", "mark"}
    BY <1>10 DEF TakeRange
  <2>2. S \in SUBSET Nat
    BY <1>0, Basics DEF Scans, TableRange
  <2>3. k.id \in DOMAIN db.transfers
    BY <1>1 DEF TaskKnows
  <2>4. \/ Row(k).trace \in DOMAIN payments
        \/ Begins(S, Row(k))
    BY <2>3, TableBegins DEF Row
  <2>5. TaskKnows(next)
    BY <2>3, <2>4 DEF TaskKnows, Row
  <2> HIDE DEF Goes, pc
  <2>6. TaskKnows(next)'
    BY <1>0, <2>5, TaskStays
  <2> QED
    BY <1>6, <2>1, <2>2, <2>6
<1>11. ASSUME NEW k \in c.running, LoadRange(w, k)
       PROVE  \E d \in CashierState : Goes(d)
  <2>0. PICK S : S = NetworkRange(Row(k), RangeLimit)
    OBVIOUS
  <2> DEFINE next == [id |-> k.id, pc |-> "spend", outputs |-> S]
  <2>1. Goto(w, k, "spend", S)
    BY <1>11, <2>0 DEF LoadRange
  <2>2. S \in SUBSET Nat
    BY <1>0, <2>0, Basics DEF NetworkRange, Page
  <2>3. k.id \in DOMAIN db.transfers
    BY <1>1 DEF TaskKnows
  <2>4. S \cap Spent # {} \/ Begins(S, Row(k))
    BY <2>0, <2>3, NetworkBegins DEF Row
  <2>5. TaskKnows(next)
    BY <2>3, <2>4 DEF TaskKnows, Row
  <2>6. TaskKnows(next)'
    BY <1>0, <2>5, TaskStays
  <2> HIDE DEF Goes
  <2> QED
    BY <1>6, <2>1, <2>2, <2>6
<1>12. ASSUME NEW k \in c.running, Spend(w, k)
       PROVE  \E d \in CashierState : Goes(d)
  <2>1. Goto(w, k, "mark", {}) /\ db' = db
    BY <1>12 DEF Spend, claimVars
  <2>2. k.id \in DOMAIN db.transfers
    BY <1>1 DEF TaskKnows
  <2>3. Row(k).trace \in DOMAIN payments'
    BY <1>12, PayAdds DEF Spend
  <2>4. ASSUME NEW S, S = {}
        PROVE  TaskKnows([id |-> k.id, pc |-> "mark", outputs |-> S])'
    BY <2>1, <2>2, <2>3 DEF TaskKnows, Row
  <2>5. PICK S \in SUBSET Nat : S = {}
    OBVIOUS
  <2> HIDE DEF Goes
  <2> QED
    BY <1>6, <2>1, <2>4, <2>5
<1>13. ASSUME NEW k \in c.running, Work(w, k)
       PROVE  \E d \in CashierState : Goes(d)
  <2>1. ListRange(w, k) => \E S \in Scans(TableRange(Row(k))) : TakeRange(w, k, S)
    <3>1. TableRange(Row(k)) \in Scans(TableRange(Row(k)))
      BY DEF Scans
    <3> QED
      BY <3>1 DEF ListRange
  <2> HIDE DEF Goes
  <2> QED
    BY <1>5, <1>10, <1>11, <1>12, <1>13, <2>1
    DEF Work, Refused, Unservable, UpdateStatus
<1>14. ASSUME NEW k \in c.running, ListRangeShort(w, k) \/ SpendFails(w, k) \/ TaskFails(w, k)
       PROVE  \E d \in CashierState : Goes(d)
  <2> HIDE DEF Goes
  <2> QED
    BY <1>5, <1>10, <1>14 DEF ListRangeShort, SpendFails, TaskFails
<1> HIDE DEF Goes
<1> QED
  BY <1>7, <1>8, <1>9, <1>13, <1>14 DEF Cash, CashFault

\* ... and of the cashiers.
LEMMA CashiersStep ==
  ASSUME Inv, Grows,
         \/ \E w \in Cashiers : Cash(w) \/ CashFault(w)
         \/ UNCHANGED cashier
  PROVE  CashiersTyped' /\ CashiersKnow'
<1>0. TypeOK /\ RowsOrdered /\ cashier \in [Cashiers -> CashierState]
  BY DEF Inv, TypeOK
<1>1. DOMAIN db.transfers \subseteq DOMAIN db'.transfers
  BY <1>0, Basics DEF Grows
<1>2. \A v \in Cashiers : /\ cashier[v].queue \subseteq DOMAIN db'.transfers
                          /\ \A k \in cashier[v].running : TaskKnows(k)'
  BY <1>0, <1>1, TaskStays DEF Inv, CashiersKnow
<1>3. ASSUME NEW w \in Cashiers, Cash(w) \/ CashFault(w) PROVE CashiersTyped' /\ CashiersKnow'
  <2>1. PICK c \in CashierState :
           /\ cashier' = [cashier EXCEPT ![w] = c]
           /\ c.queue \subseteq DOMAIN db'.transfers
           /\ \A k \in c.running : TaskKnows(k)'
    BY <1>3, CashStepKnows
  <2>2. cashier'[w] = c /\ \A v \in Cashiers : v # w => cashier'[v] = cashier[v]
    BY <1>0, <2>1
  <2>3. \A v \in Cashiers : /\ cashier'[v].queue \subseteq DOMAIN db'.transfers
                            /\ \A k \in cashier'[v].running : TaskKnows(k)'
    BY <1>2, <2>1, <2>2
  <2>4. cashier' \in [Cashiers -> CashierState]
    BY <1>0, <2>1
  <2> QED
    BY <2>3, <2>4 DEF CashiersTyped, CashiersKnow
<1>4. CASE UNCHANGED cashier
  BY <1>0, <1>2, <1>4 DEF CashiersTyped, CashiersKnow
<1> QED
  BY <1>3, <1>4

-----------------------------------------------------------------------------
(* Every step.                                                             *)

\* Some worker of each kind moves, or none does.
LEMMA WorkersMove ==
  ASSUME [Next]_vars
  PROVE  /\ \/ \E w \in Syncers : Sync(w) \/ SyncFault(w)
            \/ UNCHANGED <<syncOffset, syncer>>
         /\ \/ \E w \in Cleaners : Clean(w) \/ CleanFault(w)
            \/ UNCHANGED cleaner
         /\ \/ \E w \in Cashiers : Cash(w) \/ CashFault(w)
            \/ UNCHANGED cashier
<1>1. CASE Regular
  BY <1>1 DEF Regular, DoSync, DoClean, DoCash
<1>2. CASE Fault
  BY <1>2 DEF Fault
<1>3. CASE UNCHANGED vars
  BY <1>3 DEF vars
<1> QED
  BY <1>1, <1>2, <1>3 DEF Next

\* The types of what the workers share.
SharedTyped ==
  /\ utxos \in Seq(Utxo)
  /\ saved \subseteq DOMAIN utxos
  /\ db \in Tables(OrderTraces)
  /\ db.outputs \subseteq saved
  /\ DOMAIN payments \subseteq OrderTraces
  /\ \A t \in DOMAIN payments : payments[t] \in Payment

\* Tables, network and payments keep their types.
LEMMA SharedStep == ASSUME Inv, [Next]_vars PROVE SharedTyped'
<1>0. TypeOK /\ SharedTyped /\ Grows
  BY StepGrows DEF Inv, TypeOK, SharedTyped
<1>1. CASE Reads
  BY <1>0, <1>1 DEF Reads, SharedTyped
<1>2. CASE Lists
  BY <1>0, <1>2, Basics DEF Lists, Extend, SharedTyped, Listed, Grows
<1>3. ASSUME NEW o \in Orders, Order(o), UNCHANGED payments PROVE SharedTyped'
  <2>1. PICK row \in Transfer(OrderTraces) :
          db'.outputs = db.outputs /\ db' \in Tables(OrderTraces) /\ UNCHANGED <<utxos, saved>>
    BY <1>0, <1>3, OrderGrants
  <2> QED
    BY <1>0, <1>3, <2>1 DEF SharedTyped
<1>4. ASSUME NEW w \in Syncers, Saves(w) PROVE SharedTyped'
  <2>1. db' = [db EXCEPT !.outputs = @ \cup syncer[w].outputs]
    BY <1>4 DEF Saves, SaveOutputs
  <2>2. syncer[w].outputs \subseteq Listed /\ db.outputs \subseteq saved
    BY Basics, <1>0 DEF Inv, SyncersKnow, SyncerKnows
  <2>3. saved' \subseteq Listed' /\ db'.outputs \subseteq saved' /\ saved' \subseteq Nat
    BY <1>0, <1>4, <2>1, <2>2 DEF Saves, Tables, SharedTyped, Grows
  <2>4. db' \in Tables(OrderTraces)
    BY <1>0, <2>1, <2>3 DEF Tables, SharedTyped
  <2> QED
    BY <1>0, <1>4, <2>3, <2>4 DEF SharedTyped, Saves, Listed
<1>5. ASSUME NEW w \in Cleaners, Deletes(w) PROVE SharedTyped'
  BY <1>0, <1>5 DEF Deletes, DeleteOutput, Tables, SharedTyped
<1>6. ASSUME NEW w \in Cashiers, NEW k \in cashier[w].running, Pays(k) PROVE SharedTyped'
  <2>1. UNCHANGED <<utxos, db, saved>> /\ Pay(Row(k), k.outputs)
    BY <1>6 DEF Pays, claimVars
  <2>2. k.id \in DOMAIN db.transfers /\ k.outputs \in SUBSET Nat
    <3>1. cashier[w] \in CashierState
      BY <1>0 DEF TypeOK
    <3> QED
      BY <3>1 DEF Inv, CashiersKnow, TaskKnows, CashierState, Task
  <2>3. Row(k) \in Transfer(OrderTraces)
    BY <1>0, <2>2, Basics DEF Row
  <2>4. payments'[Row(k).trace] \in Payment /\ Row(k).trace \in OrderTraces
    <3>1. /\ Row(k).account \in Accounts /\ Row(k).amount \in Nat
          /\ Row(k).opponent \in Opponents /\ Row(k).trace \in OrderTraces
      BY <2>3 DEF Transfer
    <3>2. payments'[Row(k).trace] =
            [account |-> Row(k).account, inputs |-> k.outputs, amount |-> Row(k).amount,
             opponent |-> Row(k).opponent, listed |-> FALSE]
      BY <2>1, PayAdds
    <3> QED
      BY <2>2, <3>1, <3>2 DEF Payment
  <2>5. /\ DOMAIN payments' = DOMAIN payments \cup {Row(k).trace}
        /\ \A t \in DOMAIN payments : payments'[t] = payments[t]
    BY <2>1, PayAdds
  <2> QED
    BY <1>0, <2>1, <2>4, <2>5 DEF SharedTyped
<1>7. ASSUME NEW w \in Cashiers, NEW k \in cashier[w].running, Handles(k) PROVE SharedTyped'
  <2>1. k.id \in DOMAIN db.transfers
    BY DEF Inv, CashiersKnow, TaskKnows
  <2>2. MarkHandled(k.id) /\ UNCHANGED <<utxos, saved, payments>>
    BY <1>7 DEF Handles, Handle
  <2>3. db' \in Tables(OrderTraces) /\ db'.outputs = db.outputs
    BY <1>0, <2>1, <2>2, HandleMarks
  <2> QED
    BY <1>0, <2>2, <2>3 DEF SharedTyped
<1> QED
  BY <1>0, <1>1, <1>2, <1>3, <1>4, <1>5, <1>6, <1>7, Steps

\* What can still be spent stays in the table.
LEMMA SavedStep == ASSUME Inv, [Next]_vars PROVE SavedIsKept'
<1>0. TypeOK /\ SavedIsKept /\ Grows /\ Spent \subseteq Spent'
      /\ Len(utxos) \in Nat /\ Listed = 1..Len(utxos) /\ saved \subseteq Listed
  BY StepGrows, SpentStays, Basics DEF Inv
<1>1. SpentBefore \subseteq Listed'
  BY <1>0 DEF Grows, SavedIsKept
<1>2. ASSUME NEW p \in saved PROVE Passed(p)'
  <2>1. p \in Nat /\ p <= Len(utxos) + 1 /\ Passed(p)
    BY <1>0 DEF SavedIsKept
  <2> QED
    BY <1>0, <2>1, PassedStays
<1>3. CASE UNCHANGED saved /\ db.outputs \subseteq db'.outputs
  BY <1>0, <1>1, <1>2, <1>3 DEF SavedIsKept
<1>4. CASE Lists
  BY <1>3, <1>4 DEF Lists, Extend
<1>5. ASSUME NEW o \in Orders, Order(o) PROVE SavedIsKept'
  BY <1>0, <1>3, <1>5, OrderGrants
<1>6. ASSUME NEW w \in Syncers, Saves(w) PROVE SavedIsKept'
  <2> DEFINE c == syncer[w]
  <2>1. /\ c.outputs \subseteq Listed \ SpentBefore
        /\ \A s \in c.outputs : s < c.next
        /\ \A s \in Listed : s < c.next => s \in saved \cup SpentBefore \cup c.outputs
    BY <1>6 DEF Inv, SyncersKnow, SyncerKnows, Saves
  <2>2. saved' = saved \cup c.outputs /\ utxos' = utxos /\ payments' = payments
        /\ db'.outputs = db.outputs \cup c.outputs
    BY <1>0, <1>6 DEF Saves, SaveOutputs, TypeOK, Tables
  <2>3. c.next \in Nat
    BY <1>0 DEF TypeOK, SyncerState
  <2> HIDE DEF c
  <2>4. ASSUME NEW p \in c.outputs, NEW s \in Listed, s < p
        PROVE  s \in saved \cup SpentBefore \cup c.outputs
    <3>1. s < c.next
      BY <1>0, <2>1, <2>3, <2>4
    <3> QED
      BY <2>1, <3>1
  <2>5. \A p \in saved' : \A s \in Listed' : s < p => s \in saved' \cup SpentBefore
    BY <1>2, <2>2, <2>4 DEF Passed, Listed
  <2> QED
    BY <1>0, <1>1, <2>1, <2>2, <2>5 DEF SavedIsKept, Passed, Spent
<1>7. ASSUME NEW w \in Cleaners, Deletes(w) PROVE SavedIsKept'
  <2>1. PICK s \in cleaner[w].doomed : DeleteOutput(s) /\ UNCHANGED <<utxos, saved, payments>>
    BY <1>7 DEF Deletes
  <2>2. s \in Spent
    BY DEF Inv, CleanersKnow, CleanerKnows
  <2>3. db'.outputs = db.outputs \ {s}
    BY <1>0, <2>1 DEF DeleteOutput, TypeOK, Tables
  <2> QED
    BY <1>0, <1>1, <1>2, <2>1, <2>2, <2>3 DEF SavedIsKept
<1>8. ASSUME NEW w \in Cashiers, NEW k \in cashier[w].running, Pays(k) \/ Handles(k)
      PROVE  SavedIsKept'
  <2>1. k.id \in DOMAIN db.transfers
    BY DEF Inv, CashiersKnow, TaskKnows
  <2>2. UNCHANGED saved
    BY <1>8 DEF Pays, Handles, Handle, claimVars
  <2>3. db.outputs \subseteq db'.outputs
    BY <1>0, <1>8, <2>1, HandleMarks DEF Pays, Handles, Handle, claimVars
  <2> QED
    BY <1>3, <2>2, <2>3
<1>9. CASE Reads
  BY <1>3, <1>9 DEF Reads
<1> QED
  BY <1>0, <1>4, <1>5, <1>6, <1>7, <1>8, <1>9, Steps

-----------------------------------------------------------------------------
(* Ranges.                                                                 *)

\* A range that covers its transfer does so in the next state.
LEMMA RowStays ==
  ASSUME TypeOK, Grows, NEW i \in DOMAIN db.transfers, RowKept(db.transfers[i])
  PROVE  RowKept(db.transfers[i])'
<1> DEFINE row == db.transfers[i]
           new == db'.transfers[i]
<1>1. Same(new, row)
  BY DEF Grows
<1>2. row.account \in Accounts /\ row.to \in Nat /\ db.assigns[row.account] \in Nat
  BY Basics DEF Transfer
<1>3. RangeOf(row)' = RangeOf(row) /\ RangeOf(row) \in SUBSET saved
  BY RangeStays DEF RowKept, RangeOf
<1>4. PICK R : R = RangeOf(row)
  OBVIOUS
<1>5. PICK to : to = row.to
  OBVIOUS
<1>6. R \in SUBSET saved /\ R \ {to} \in SUBSET saved
  BY <1>3, <1>4
<1>7. Value(R)' = Value(R) /\ Value(R \ {to})' = Value(R \ {to})
  BY <1>6, ValueStays
<1>8. Covers(row)'
  <2>1. /\ row.amount <= Value(R)
        /\ row.amount = Value(R) \/ Value(R \ {to}) < row.amount
        /\ Cardinality(R) <= Limit
    BY <1>4, <1>5 DEF RowKept, Covers
  <2>2. RangeOf(row)' = R /\ new.to = to /\ new.amount = row.amount
    BY <1>1, <1>3, <1>4, <1>5 DEF Same
  <2> QED
    BY <1>7, <2>1, <2>2 DEF Covers
<1>9. db'.assigns[row.account] \in Nat /\ db.assigns[row.account] <= db'.assigns[row.account]
  BY <1>2 DEF Grows
<1>10. row.to <= db.assigns[row.account] /\ row.to <= db'.assigns[row.account]
  BY <1>2, <1>9 DEF RowKept
<1> QED
  BY <1>1, <1>8, <1>10 DEF RowKept, Same, Grows

\* Ranges follow one another.
LEMMA RowsStep == ASSUME Inv, [Next]_vars PROVE RowsOrdered'
<1>0. TypeOK /\ RowsOrdered /\ Grows /\ \A i \in DOMAIN db.transfers : RowKept(db.transfers[i])'
  <2>1. TypeOK /\ RowsOrdered /\ Grows
    BY StepGrows DEF Inv
  <2> QED
    BY <2>1, RowStays DEF RowsOrdered
<1>1. CASE DOMAIN db'.transfers = DOMAIN db.transfers
  BY <1>0, <1>1 DEF RowsOrdered, Grows, Same
<1>2. ASSUME NEW o \in Orders, Order(o) PROVE RowsOrdered'
  <2>1. PICK row \in Transfer(OrderTraces) :
           /\ Grant(row)
           /\ row.amount # 0
           /\ db'.assigns = [db.assigns EXCEPT ![row.account] = row.to]
           /\ db'.transfers = Append(db.transfers, row)
           /\ UNCHANGED <<utxos, saved>>
    BY <1>0, <1>2, OrderGrants
  <2>0. PICK n : n = Len(db.transfers)
    OBVIOUS
  <2>2. n \in Nat /\ DOMAIN db.transfers = 1..n /\ db.transfers \in Seq(Transfer(OrderTraces))
    BY <1>0, <2>0, Basics DEF TypeOK, Tables
  <2>3. /\ DOMAIN db'.transfers = 1..n + 1
        /\ \A i \in 1..n : db'.transfers[i] = db.transfers[i]
        /\ db'.transfers[n + 1] = row
    BY <2>0, <2>1, <2>2, AppendProperties, LenProperties
  <2>4. /\ row.account \in Accounts /\ row.from \in Nat /\ row.to \in Nat
        /\ db.assigns \in [Accounts -> Nat]
    BY <1>0, Basics DEF Transfer
  <2>5. /\ row.from \in saved /\ row.to \in saved /\ Covers(row)
        /\ db.assigns[row.account] < row.from /\ row.from <= row.to
        /\ ~HasTrace(db, row.trace)
    BY <2>1 DEF Grant, Assign, CanAssign
  <2>6. RowKept(row)'
    BY <2>1, <2>4, <2>5 DEF RowKept, Covers, Value, RangeOf
  <2>7. ASSUME NEW i \in 1..n
        PROVE  /\ db.transfers[i].trace # row.trace
               /\ db.transfers[i].account = row.account => db.transfers[i].to < row.from
    <3>1. db.transfers[i].trace # row.trace
      BY <2>2, <2>5 DEF HasTrace
    <3>2. db.transfers[i].to \in Nat /\ db.transfers[i].account \in Accounts
      BY <1>0, <2>2, Basics DEF Transfer
    <3>3. db.transfers[i].to <= db.assigns[db.transfers[i].account]
      BY <1>0, <2>2 DEF RowsOrdered, RowKept
    <3> QED
      BY <2>4, <2>5, <3>1, <3>2, <3>3
  <2>8. \A i \in 1..n + 1 : RowKept(db.transfers[i])'
    <3>1. \A i \in 1..n + 1 : i \in 1..n \/ i = n + 1
      BY <2>2
    <3>2. RowKept(db.transfers[n + 1])'
      BY <2>3, <2>6 DEF RowKept, Covers, RangeOf
    <3> QED
      BY <1>0, <2>2, <3>1, <3>2
  <2>9. \A i, j \in 1..n + 1 : i < j =>
          /\ db'.transfers[i].trace # db'.transfers[j].trace
          /\ db'.transfers[i].account = db'.transfers[j].account
               => db'.transfers[i].to < db'.transfers[j].from
    <3> TAKE i, j \in 1..n + 1
    <3> HAVE i < j
    <3>1. i \in 1..n /\ (j \in 1..n \/ j = n + 1)
      BY <2>2
    <3>2. CASE j = n + 1
      BY <2>3, <2>7, <3>1, <3>2
    <3>3. CASE j \in 1..n
      BY <1>0, <2>2, <2>3, <3>1, <3>3 DEF RowsOrdered
    <3> QED
      BY <3>1, <3>2, <3>3
  <2> QED
    BY <2>3, <2>8, <2>9 DEF RowsOrdered
<1>3. ASSUME NEW w \in Syncers, Saves(w) PROVE DOMAIN db'.transfers = DOMAIN db.transfers
  BY <1>0, <1>3 DEF Saves, SaveOutputs, TypeOK, Tables
<1>4. ASSUME NEW w \in Cleaners, Deletes(w) PROVE DOMAIN db'.transfers = DOMAIN db.transfers
  BY <1>0, <1>4 DEF Deletes, DeleteOutput, TypeOK, Tables
<1>5. ASSUME NEW w \in Cashiers, NEW k \in cashier[w].running, Pays(k) \/ Handles(k)
      PROVE  DOMAIN db'.transfers = DOMAIN db.transfers
  <2>1. k.id \in DOMAIN db.transfers
    BY DEF Inv, CashiersKnow, TaskKnows
  <2> QED
    BY <1>0, <1>5, <2>1, HandleMarks DEF Pays, Handles, Handle, claimVars
<1>6. CASE Reads \/ Lists
  BY <1>1, <1>6 DEF Reads, Lists, Extend
<1> QED
  BY <1>0, <1>1, <1>2, <1>3, <1>4, <1>5, <1>6, Steps

-----------------------------------------------------------------------------
(* Payments.                                                               *)

\* The network accepts the first outputs of a range only if they are all of it:
\* the range has no output to spare.
LEMMA SpendsRange ==
  ASSUME TypeOK, RowsOrdered, NEW i \in DOMAIN db.transfers,
         NEW S, Begins(S, db.transfers[i]), db.transfers[i].amount <= Value(S)
  PROVE  S = RangeOf(db.transfers[i])
<1> DEFINE row == db.transfers[i]
           R == RangeOf(row)
<1>1. /\ row \in Transfer(OrderTraces) /\ saved \subseteq Nat
      /\ \A T : Value(T) \in Nat
  BY Basics DEF Value, Total
<1>2. row.amount \in Nat /\ row.to \in Nat
  BY <1>1 DEF Transfer
<1>3. /\ row.amount = Value(R) \/ Value(R \ {row.to}) < row.amount
      /\ R \in SUBSET saved /\ S \in SUBSET R
      /\ \A s \in S, p \in R : p < s => p \in S
      /\ \A s \in R : s \in Nat /\ s <= row.to
  BY <1>1 DEF RowsOrdered, RowKept, Covers, Begins, RangeOf
<1>4. Worth(R) /\ Worth(R \ {row.to})
  BY <1>3, SavedIsWorth
<1> HIDE DEF row, R
<1>5. CASE row.amount = Value(R)
  <2>1. S # R => Value(S) < Value(R)
    BY <1>3, <1>4, ValueGrows
  <2> QED
    BY <1>1, <1>2, <1>5, <2>1 DEF row, R
<1>6. CASE Value(R \ {row.to}) < row.amount
  <2>1. CASE row.to \in S
    <3>1. \A p \in R : p = row.to \/ p < row.to
      BY <1>2, <1>3
    <3>2. R \subseteq S
      BY <1>3, <2>1, <3>1
    <3> QED
      BY <1>3, <3>2 DEF R, row
  <2>2. CASE row.to \notin S
    <3>1. S \in SUBSET (R \ {row.to})
      BY <1>3, <2>2
    <3>2. Value(S) <= Value(R \ {row.to})
      BY <1>4, <3>1, ValueGrows
    <3>3. row.amount <= Value(S)
      BY DEF row
    <3> QED
      BY <1>1, <1>2, <1>6, <3>2, <3>3
  <2> QED
    BY <2>1, <2>2
<1> QED
  BY <1>3, <1>5, <1>6

\* Payments spend what is assigned.
LEMMA PaidStep == ASSUME Inv, [Next]_vars PROVE PaidAsAssigned'
<1>0. TypeOK /\ RowsOrdered /\ PaidAsAssigned /\ Grows
  BY StepGrows DEF Inv
<1>1. ASSUME NEW t \in DOMAIN payments
      PROVE  \E i \in DOMAIN db'.transfers :
               /\ db'.transfers[i].trace = t
               /\ payments'[t].inputs = RangeOf(db.transfers[i])'
               /\ payments'[t].account = db'.transfers[i].account
               /\ payments'[t].amount = db'.transfers[i].amount
               /\ payments'[t].opponent = db'.transfers[i].opponent
  <2>1. PICK i \in DOMAIN db.transfers :
               /\ db.transfers[i].trace = t
               /\ payments[t].inputs = RangeOf(db.transfers[i])
               /\ payments[t].account = db.transfers[i].account
               /\ payments[t].amount = db.transfers[i].amount
               /\ payments[t].opponent = db.transfers[i].opponent
    BY <1>0 DEF PaidAsAssigned
  <2>2. i \in DOMAIN db'.transfers /\ Same(db'.transfers[i], db.transfers[i])
    BY <1>0, Basics DEF Grows
  <2>3. RangeOf(db.transfers[i])' = RangeOf(db.transfers[i])
    BY <1>0, RangeStays DEF RowsOrdered, RowKept
  <2> QED
    BY <1>0, <2>1, <2>2, <2>3 DEF Same, Grows
<1>2. CASE DOMAIN payments' = DOMAIN payments
  BY <1>1, <1>2 DEF PaidAsAssigned
<1>3. ASSUME NEW w \in Cashiers, NEW k \in cashier[w].running, Pays(k) PROVE PaidAsAssigned'
  <2>1. TaskKnows(k) /\ k.id \in DOMAIN db.transfers
    BY DEF Inv, CashiersKnow, TaskKnows
  <2>2. /\ k.pc = "spend" /\ Pay(Row(k), k.outputs)
        /\ UNCHANGED <<utxos, db, saved>>
    BY <1>3 DEF Pays, claimVars
  <2>3. Row(k).trace \notin DOMAIN payments /\ k.outputs \cap Spent = {}
        /\ Row(k).amount <= Value(k.outputs)
    BY <2>2 DEF Pay, CanPay
  <2>4. k.outputs = RangeOf(Row(k))
    BY <1>0, <2>1, <2>2, <2>3, SpendsRange DEF TaskKnows, Row
  <2>5. /\ DOMAIN payments' = DOMAIN payments \cup {Row(k).trace}
        /\ payments'[Row(k).trace] =
              [account |-> Row(k).account, inputs |-> k.outputs, amount |-> Row(k).amount,
               opponent |-> Row(k).opponent, listed |-> FALSE]
    BY <2>2, PayAdds
  <2>6. RangeOf(db.transfers[k.id])' = RangeOf(db.transfers[k.id])
    BY <1>0, <2>1, RangeStays DEF RowsOrdered, RowKept
  <2>7. /\ k.id \in DOMAIN db'.transfers
        /\ db'.transfers[k.id].trace = Row(k).trace
        /\ payments'[Row(k).trace].inputs = RangeOf(db.transfers[k.id])'
        /\ payments'[Row(k).trace].account = db'.transfers[k.id].account
        /\ payments'[Row(k).trace].amount = db'.transfers[k.id].amount
        /\ payments'[Row(k).trace].opponent = db'.transfers[k.id].opponent
    BY <2>1, <2>2, <2>4, <2>5, <2>6 DEF Row
  <2> QED
    BY <1>1, <2>5, <2>7 DEF PaidAsAssigned
<1>4. CASE Reads \/ Lists
  BY <1>2, <1>4 DEF Reads, Lists
<1>5. ASSUME NEW w \in Cashiers, NEW k \in cashier[w].running, Handles(k)
      PROVE  UNCHANGED payments
  BY <1>5 DEF Handles
<1> QED
  BY <1>0, <1>2, <1>3, <1>4, <1>5, Steps DEF Saves, Deletes

\* Only paid transfers are marked.
LEMMA HandledStep == ASSUME Inv, [Next]_vars PROVE HandledIsPaid'
<1>0. TypeOK /\ HandledIsPaid /\ Grows
  BY StepGrows DEF Inv
<1>1. CASE db'.transfers = db.transfers
  BY <1>0, <1>1 DEF HandledIsPaid, Grows
<1>2. ASSUME NEW o \in Orders, Order(o) PROVE HandledIsPaid'
  <2>1. PICK row \in Transfer(OrderTraces) :
          Grant(row) /\ db'.transfers = Append(db.transfers, row)
    BY <1>0, <1>2, OrderGrants
  <2>2. db.transfers \in Seq(Transfer(OrderTraces)) /\ row.status = "assigned"
    BY <1>0, <2>1 DEF TypeOK, Tables, Grant
  <2>3. \A i \in DOMAIN db'.transfers :
          \/ i \in DOMAIN db.transfers /\ db'.transfers[i] = db.transfers[i]
          \/ db'.transfers[i] = row
    <3>1. /\ DOMAIN db'.transfers = 1..Len(db.transfers) + 1
          /\ \A i \in 1..Len(db.transfers) : db'.transfers[i] = db.transfers[i]
          /\ db'.transfers[Len(db.transfers) + 1] = row
      BY <2>1, <2>2, AppendProperties, LenProperties
    <3>2. Len(db.transfers) \in Nat /\ DOMAIN db.transfers = 1..Len(db.transfers)
      BY <1>0, Basics
    <3> QED
      BY <3>1, <3>2
  <2> QED
    BY <1>0, <2>2, <2>3 DEF HandledIsPaid, Grows
<1>3. ASSUME NEW w \in Cashiers, NEW k \in cashier[w].running, Handles(k) PROVE HandledIsPaid'
  <2>1. k.id \in DOMAIN db.transfers /\ TaskKnows(k)
    BY DEF Inv, CashiersKnow, TaskKnows
  <2>2. Row(k).trace \in DOMAIN payments /\ MarkHandled(k.id) /\ UNCHANGED payments
    BY <1>3, <2>1 DEF Handles, Handle, TaskKnows
  <2>3. /\ db'.transfers = [db.transfers EXCEPT ![k.id] = [@ EXCEPT !.status = "handled"]]
        /\ DOMAIN db'.transfers = DOMAIN db.transfers
        /\ \A j \in DOMAIN db.transfers : Same(db'.transfers[j], db.transfers[j])
    BY <1>0, <2>1, <2>2, HandleMarks
  <2>4. \A j \in DOMAIN db.transfers : j # k.id => db'.transfers[j] = db.transfers[j]
    BY <2>3
  <2> QED
    BY <1>0, <2>1, <2>2, <2>3, <2>4 DEF HandledIsPaid, Same, Row
<1>4. ASSUME NEW w \in Syncers, Saves(w) PROVE db'.transfers = db.transfers
  BY <1>0, <1>4 DEF Saves, SaveOutputs, TypeOK, Tables
<1>5. ASSUME NEW w \in Cleaners, Deletes(w) PROVE db'.transfers = db.transfers
  BY <1>0, <1>5 DEF Deletes, DeleteOutput, TypeOK, Tables
<1>6. ASSUME NEW k, Pays(k) PROVE db'.transfers = db.transfers
  BY <1>6 DEF Pays, claimVars
<1>7. CASE Reads \/ Lists
  BY <1>1, <1>7 DEF Reads, Lists, Extend
<1> QED
  BY <1>0, <1>1, <1>2, <1>3, <1>4, <1>5, <1>6, <1>7, Steps

-----------------------------------------------------------------------------
(* The invariant.                                                          *)

\* It holds at the start, when nothing is saved and nobody works ...
LEMMA InvInit == ASSUME Init PROVE Inv
<1>1. /\ utxos = Genesis /\ db = EmptyDb /\ saved = {} /\ payments = << >>
      /\ syncOffset = 0 /\ syncer = [w \in Syncers |-> SyncStart]
      /\ cleaner = [w \in Cleaners |-> CleanStart]
      /\ cashier = [w \in Cashiers |-> CashierStart]
  BY DEF Init, SyncInit, CleanInit, CashierInit, NoPayments
<1>2. /\ db.outputs = {} /\ db.transfers = << >> /\ DOMAIN db.transfers = {}
      /\ db \in Tables(OrderTraces)
  BY <1>1 DEF EmptyDb, Tables
<1>3. Len(utxos) \in Nat /\ DOMAIN utxos = 1..Len(utxos) /\ utxos \in Seq(Utxo)
  BY <1>1, OrdersAreTransfers, LenProperties
<1>4. /\ SyncStart \in SyncerState /\ CleanStart \in CleanerState
      /\ CashierStart \in CashierState
  BY DEF SyncStart, SyncerState, CleanStart, CleanerState, CashierStart, CashierState
<1>5. DOMAIN payments = {}
  BY <1>1
<1>6. TypeOK
  <2>1. syncOffset \in 0..Len(utxos) + 1
    BY <1>1, <1>3
  <2> QED
    BY <1>1, <1>2, <1>3, <1>4, <1>5, <2>1 DEF TypeOK
<1>7. SavedIsKept
  BY <1>1, OrdersAreTransfers DEF SavedIsKept, Listed
<1>8. SyncersKnow
  <2>1. Passed(0)
    BY <1>3 DEF Passed, Listed
  <2> QED
    BY <1>1, <1>3, <2>1 DEF SyncersKnow, SyncerKnows, SyncStart
<1>9. CleanersKnow /\ CashiersKnow
  BY <1>1 DEF CleanersKnow, CleanerKnows, CleanStart, CashiersKnow, CashierStart
<1>10. RowsOrdered /\ PaidAsAssigned /\ HandledIsPaid
  BY <1>2, <1>5 DEF RowsOrdered, PaidAsAssigned, HandledIsPaid
<1> QED
  BY <1>6, <1>7, <1>8, <1>9, <1>10 DEF Inv

\* ... and every step keeps it.
LEMMA InvStep == ASSUME Inv, [Next]_vars PROVE Inv'
<1>1. Grows
  BY StepGrows
<1>2. SyncersTyped' /\ SyncersKnow'
  BY <1>1, WorkersMove, SyncersStep
<1>3. CleanersTyped' /\ CleanersKnow'
  BY <1>1, WorkersMove, CleanersStep
<1>4. CashiersTyped' /\ CashiersKnow'
  BY <1>1, WorkersMove, CashiersStep
<1>5. SharedTyped'
  BY SharedStep
<1>6. TypeOK'
  BY <1>2, <1>3, <1>4, <1>5
  DEF TypeOK, SharedTyped, SyncersTyped, CleanersTyped, CashiersTyped
<1> QED
  BY <1>2, <1>3, <1>4, <1>6, SavedStep, RowsStep, PaidStep, HandledStep DEF Inv

\* The inductive invariant holds in every state, however many workers share the
\* tables, whichever of their calls fail, and whenever they crash.
THEOREM Invariance == Spec => []Inv
<1>1. Init => Inv
  BY InvInit
<1>2. Inv /\ [Next]_vars => Inv'
  BY InvStep
<1> QED
  BY <1>1, <1>2, PTL DEF Spec

\* Tables, network and workers hold what they are meant to hold.
THEOREM TypeCorrect == Spec => []TypeOK
<1>1. Inv => TypeOK
  BY DEF Inv
<1> QED
  BY <1>1, Invariance, PTL

\* Every transaction spends the whole range of its transfer, nothing else, and pays
\* what the transfer says: a cashier that read half of the range, or a range that
\* the cleaner has half deleted, has its transaction refused by the network.
THEOREM PaymentsAreRight == Spec => []PaidAsAssigned
<1>1. Inv => PaidAsAssigned
  BY DEF Inv
<1> QED
  BY <1>1, Invariance, PTL

\* No transfer is reported handled that was not paid.
THEOREM ReportsAreTrue == Spec => []HandledIsPaid
<1>1. Inv => HandledIsPaid
  BY DEF Inv
<1> QED
  BY <1>1, Invariance, PTL

\* The syncers' offset passes no utxo that can be spent and is not in the table,
\* though a slower syncer may set it back and faster ones move it on.
THEOREM OffsetIsRight == Spec => []NothingMissed
<1>1. ASSUME Inv PROVE NothingMissed
  BY <1>1 DEF Inv, SyncersKnow, Passed, SavedIsKept, NothingMissed, Spent
<1> QED
  BY <1>1, Invariance, PTL

\* What is spent lies below its account's offset.
LEMMA SpentIsAssigned ==
  ASSUME Inv, NEW s \in saved \cap Spent PROVE s <= db.assigns[utxos[s].account]
<1>1. TypeOK /\ PaidAsAssigned /\ RowsOrdered /\ s \notin SpentBefore /\ s \in Nat
  BY Basics DEF Inv, SavedIsKept
<1>2. PICK t \in DOMAIN payments : s \in payments[t].inputs
  BY <1>1 DEF Spent
<1>3. PICK i \in DOMAIN db.transfers : s \in RangeOf(db.transfers[i])
  BY <1>1, <1>2 DEF PaidAsAssigned
<1> DEFINE row == db.transfers[i]
<1>4. s <= row.to /\ row.to <= db.assigns[row.account] /\ utxos[s].account = row.account
  BY <1>1, <1>3 DEF RangeOf, RowsOrdered, RowKept
<1>5. row.to \in Nat /\ db.assigns[row.account] \in Nat
  BY <1>1, Basics DEF Transfer
<1> HIDE DEF row
<1> QED
  BY <1>1, <1>4, <1>5

\* A row that will be assigned next can be spent.
THEOREM FreeCanBeSpent == Spec => []FreeIsUnspent
<1>1. ASSUME Inv PROVE FreeIsUnspent
  <2>1. SUFFICES ASSUME NEW s \in db.outputs, s > db.assigns[utxos[s].account], s \in Spent
                 PROVE  FALSE
    BY DEF FreeIsUnspent
  <2>2. TypeOK
    BY <1>1 DEF Inv
  <2>3. s \in saved /\ s \in Nat
    BY <2>2, Basics
  <2>4. utxos[s].account \in Accounts /\ db.assigns \in [Accounts -> Nat]
    BY <2>2, <2>3, Basics
  <2>5. s <= db.assigns[utxos[s].account]
    BY <1>1, <2>1, <2>3, SpentIsAssigned
  <2> QED
    BY <2>1, <2>3, <2>4, <2>5
<1> QED
  BY <1>1, Invariance, PTL

-----------------------------------------------------------------------------
(* What the servers may rely on.                                           *)

\* The syncers save behind what was saved, ...
LEMMA SavesIsClaimed ==
  ASSUME Inv, NEW w \in Syncers, Saves(w)
  PROVE  \E S \in SUBSET (1..Len(utxos)) : Save(S)
<1>1. Listed = 1..Len(utxos)
  BY Basics DEF Inv
<1>2. syncer[w].outputs # {} /\ syncer[w].outputs \in SUBSET (1..Len(utxos))
  BY <1>1 DEF Inv, SyncersKnow, SyncerKnows, Saves
<1>3. \A s \in syncer[w].outputs \ saved : \A p \in saved : p < s
  <2>1. saved' = saved \cup syncer[w].outputs
    BY DEF Saves
  <2> QED
    BY <2>1, SavedBehind
<1>4. Save(syncer[w].outputs)
  BY <1>2, <1>3 DEF Save, Saves
<1> QED
  BY <1>2, <1>4

\* ... the cleaners delete assigned outputs only ...
LEMMA DeletesIsClaimed ==
  ASSUME Inv, NEW w \in Cleaners, Deletes(w)
  PROVE  UNCHANGED claimVars \/ \E s \in db.outputs : Delete(s)
<1>1. PICK s \in cleaner[w].doomed : DeleteOutput(s) /\ UNCHANGED <<utxos, saved>>
  BY DEF Deletes
<1>2. s <= db.assigns[utxos[s].account]
  BY SpentIsAssigned DEF Inv, CleanersKnow, CleanerKnows
<1>3. CASE s \in db.outputs
  BY <1>1, <1>2, <1>3 DEF Delete
<1>4. CASE s \notin db.outputs
  <2>1. db.outputs \ {s} = db.outputs
    BY <1>4
  <2>2. db' = db
    BY <1>1, <2>1 DEF DeleteOutput, Inv, TypeOK, Tables
  <2> QED
    BY <1>1, <2>2 DEF claimVars
<1> QED
  BY <1>3, <1>4

\* ... and the cashiers mark transfers there are.
LEMMA HandlesIsClaimed ==
  ASSUME Inv, NEW w \in Cashiers, NEW k \in cashier[w].running, Handles(k)
  PROVE  \E i \in DOMAIN db.transfers : Handle(i)
  BY DEF Handles, Inv, CashiersKnow, TaskKnows

\* Each step does what Claims allows, or nothing that Claims speaks of.
LEMMA StepIsClaimed == ASSUME Inv, [Next]_vars PROVE [ClaimNext]_claimVars
<1>0. TypeOK /\ DOMAIN db.transfers = 1..Len(db.transfers) /\ Len(db.transfers) \in Nat
  BY Basics DEF Inv
<1>1. CASE Reads
  BY <1>1 DEF Reads, claimVars
<1>2. CASE Lists
  BY <1>2 DEF Lists, ClaimNext
<1>3. ASSUME NEW o \in Orders, Order(o) PROVE ClaimNext
  <2>1. PICK row \in Transfer(OrderTraces) :
          Grant(row) /\ db'.transfers = Append(db.transfers, row)
    BY <1>0, <1>3, OrderGrants
  <2>2. db.transfers \in Seq(Transfer(OrderTraces))
    BY <1>0 DEF TypeOK, Tables
  <2>3. PICK i \in DOMAIN db'.transfers : db'.transfers[i] = row
    BY <1>0, <2>1, <2>2, AppendProperties, LenProperties
  <2>4. Grant(db'.transfers[i])
    BY <2>1, <2>3
  <2> QED
    BY <2>4 DEF ClaimNext
<1>4. ASSUME NEW w \in Cashiers, NEW k \in cashier[w].running, Pays(k) PROVE UNCHANGED claimVars
  BY <1>4 DEF Pays
<1> QED
  BY <1>0, <1>1, <1>2, <1>3, <1>4, Steps, SavesIsClaimed, DeletesIsClaimed, HandlesIsClaimed
  DEF ClaimNext

\* Settlement implements Claims: the syncers save behind what was saved, the cleaners
\* delete assigned outputs only, and the cashiers mark transfers only once.
THEOREM ImplementsClaims == Spec => ClaimSpec
<1>1. Init => ClaimInit
  BY OrdersAreTransfers DEF Init, ClaimInit
<1>2. Inv /\ [Next]_vars => [ClaimNext]_claimVars
  BY StepIsClaimed
<1> QED
  BY <1>1, <1>2, Invariance, PTL DEF Spec, ClaimSpec

-----------------------------------------------------------------------------
(* What the clients see: the mapping to Payments.                          *)

\* What the accounts are worth, and the orders: what PaymentSpec calls balance and
\* orders.
Worths == [a \in Accounts |-> Balance(a)]

Book ==
  [t \in {db.transfers[i].trace : i \in DOMAIN db.transfers} |->
     OrderOf(CHOOSE row \in {db.transfers[i] : i \in DOMAIN db.transfers} : row.trace = t)]

\* The steps of PaymentSpec, in these terms: it begins ...
LEMMA Begin ==
  ASSUME Worths \in [Accounts -> Nat], Book = << >> PROVE P!PaymentInit
  BY DEF P!PaymentInit, P!Accounts, Accounts, Worths, Book

\* ... an order is accepted ...
LEMMA AcceptsOne ==
  ASSUME NEW t \in DOMAIN Book' \ DOMAIN Book,
         DOMAIN Book' = DOMAIN Book \cup {t},
         \A s \in DOMAIN Book : Book'[s] = Book[s],
         Book'[t] \in P!Order, Book'[t].state = "accepted",
         P!Owed(Book', Book'[t].account) <= Worths[Book'[t].account],
         UNCHANGED Worths
  PROVE  P!Accept
  BY DEF P!Accept, Worths, Book

\* ... one is paid ...
LEMMA PaysOne ==
  ASSUME NEW t \in DOMAIN Book, Book[t].state = "accepted",
         Book' = [Book EXCEPT ![t].state = "paid"],
         Worths' = [a \in Accounts |->
           (Worths[a] + (IF a = <<Book[t].opponent, Book[t].account[2]>>
                           THEN Book[t].amount ELSE 0))
             - (IF a = Book[t].account THEN Book[t].amount ELSE 0)]
  PROVE  P!Pay
  BY DEF P!Pay, P!Moved, P!Accounts, Accounts, Worths, Book

\* ... one is reported ...
LEMMA ReportsOne ==
  ASSUME NEW t \in DOMAIN Book, Book[t].state = "paid",
         Book' = [Book EXCEPT ![t].state = "handled"], UNCHANGED Worths
  PROVE  P!Report
  BY DEF P!Report, P!Moved, Worths, Book

\* ... the network pays ...
LEMMA Receives ==
  ASSUME UNCHANGED Book, \A a \in Accounts : Worths'[a] >= Worths[a]
  PROVE  P!Receive
  BY DEF P!Receive, P!Accounts, Accounts, Worths, Book

\* ... and clients see nothing of the rest.
LEMMA ShowsNothing ==
  ASSUME UNCHANGED Worths, UNCHANGED Book PROVE UNCHANGED P!paymentVars
  BY DEF P!paymentVars, Worths, Book

\* The accepted orders of an account, and what it owes to them.
Debts(book, a) ==
  {t \in DOMAIN book : book[t].account = a /\ book[t].state = "accepted"}

Owes(book, a) == SumOver([t \in Debts(book, a) |-> book[t].amount], Debts(book, a))

\* Owed of Payments is this sum.
LEMMA OwedIsSum ==
  ASSUME NEW book, NEW a, IsFiniteSet(Debts(book, a)),
         \A t \in Debts(book, a) : book[t].amount \in Nat
  PROVE  P!Owed(book, a) = Owes(book, a)
<1> DEFINE S == Debts(book, a)
           f == [t \in S |-> book[t].amount]
           Iter(i) == [U \in SUBSET S |->
             IF U = {} THEN 0
             ELSE book[CHOOSE x \in U : TRUE].amount + i[U \ {CHOOSE x \in U : TRUE}]]
           iter == CHOOSE i : i = Iter(i)
<1>1. P!Owed(book, a) = iter[S]
  BY DEF P!Owed, P!MapThenSumSet, P!MapThenFoldSet, Debts
<1>2. ASSUME NEW i PROVE i = Iter(i) <=> IsSum(f, i, S)
  <2>1. \A U \in SUBSET S : U # {} =>
          f[CHOOSE x \in U : TRUE] = book[CHOOSE x \in U : TRUE].amount
    OBVIOUS
  <2>2. Iter(i) = [U \in SUBSET S |->
          IF U = {} THEN 0
          ELSE f[CHOOSE x \in U : TRUE] + i[U \ {CHOOSE x \in U : TRUE}]]
    <3> HIDE DEF f
    <3> QED
      BY <2>1
  <2> HIDE DEF Iter
  <2> QED
    BY <2>2 DEF IsSum
<1>3. Addends(f, S)
  BY DEF Addends
<1> HIDE DEF f, S
<1>4. PICK g \in [SUBSET S -> Nat] : IsSum(f, g, S)
  BY <1>3, SumExists
<1>5. iter = Iter(iter)
  <2>1. \E i : i = Iter(i)
    <3> HIDE DEF Iter
    <3> QED
      BY <1>2, <1>4
  <2> HIDE DEF Iter
  <2> QED
    BY <2>1
<1>6. IsSum(f, iter, S)
  <2> HIDE DEF iter
  <2> QED
    BY <1>2, <1>5
<1>7. iter[S] = g[S]
  <2> HIDE DEF iter
  <2> QED
    BY <1>3, <1>4, <1>6, SumsAgree DEF Addends
<1>8. SumOver(f, S) = g[S]
  BY <1>3, <1>4, TotalIsSum
<1> HIDE DEF iter
<1> QED
  BY <1>1, <1>7, <1>8 DEF Owes, f, S

-----------------------------------------------------------------------------
(* What an account is worth.                                               *)

\* The utxos an account can spend, the transactions that are not listed yet, and
\* what they owe it.
Purse(a) == {s \in Listed \ Spent : utxos[s].account = a}

Unlisted == {t \in DOMAIN payments : ~payments[t].listed}

Dues(a) == [t \in DOMAIN payments |-> Due(payments[t], a)]

\* Its balance is the sum of both.
LEMMA BalanceIsSum ==
  ASSUME NEW a
  PROVE  /\ Balance(a) = Value(Purse(a)) + SumOver(Dues(a), Unlisted)
         /\ Balance(a)' = Value(Purse(a))' + SumOver(Dues(a)', Unlisted')
<1>1. [t \in Unlisted |-> Due(payments[t], a)] = [t \in Unlisted |-> Dues(a)[t]]
  BY DEF Unlisted, Dues
<1>2. [t \in Unlisted' |-> Due(payments[t], a)'] = [t \in Unlisted' |-> (Dues(a)')[t]]
  BY DEF Unlisted, Dues
<1>3. Balance(a) = Value(Purse(a)) + Total([t \in Unlisted |-> Due(payments[t], a)])
  BY DEF Balance, Purse, Unlisted
<1>4. Balance(a)' = Value(Purse(a))' + Total([t \in Unlisted' |-> Due(payments[t], a)'])
  BY DEF Balance, Purse, Unlisted, Total
<1> QED
  BY <1>1, <1>2, <1>3, <1>4 DEF SumOver

\* Listed utxos are finitely many and have amounts.
LEMMA ListedIsWorth == ASSUME TypeOK, NEW S \in SUBSET Listed PROVE Worth(S)
<1>1. IsFiniteSet(1..Len(utxos))
  BY Basics, FS_Interval
<1>2. S \in SUBSET (1..Len(utxos))
  BY Basics
<1>3. IsFiniteSet(S)
  BY <1>1, <1>2, FS_Subset
<1> QED
  BY <1>3, Basics DEF Worth

\* A transaction pays for a row: there are finitely many, none pays more than its
\* inputs are worth.
LEMMA PaymentsAreFine ==
  ASSUME Inv
  PROVE  /\ IsFiniteSet(DOMAIN payments)
         /\ \A t \in DOMAIN payments :
              /\ payments[t].inputs \subseteq saved
              /\ payments[t].amount \in Nat /\ payments[t].amount # 0
              /\ payments[t].amount <= Value(payments[t].inputs)
              /\ payments[t].account \in Accounts
<1>0. TypeOK /\ PaidAsAssigned /\ RowsOrdered
  BY DEF Inv
<1> DEFINE n == Len(db.transfers)
           traces == {db.transfers[i].trace : i \in 1..n}
           trace == [i \in 1..n |-> db.transfers[i].trace]
<1>1. n \in Nat /\ DOMAIN db.transfers = 1..n
  BY <1>0, Basics
<1>2. IsFiniteSet(traces)
  <2>1. trace \in Surjection(1..n, traces)
    BY DEF Surjection
  <2>2. IsFiniteSet(1..n)
    BY <1>1, FS_Interval
  <2> QED
    BY <2>1, <2>2, FS_Surjection
<1>3. DOMAIN payments \subseteq traces
  BY <1>0, <1>1 DEF PaidAsAssigned
<1>4. IsFiniteSet(DOMAIN payments)
  BY <1>2, <1>3, FS_Subset
<1>5. ASSUME NEW t \in DOMAIN payments
      PROVE  /\ payments[t].inputs \subseteq saved
             /\ payments[t].amount \in Nat /\ payments[t].amount # 0
             /\ payments[t].amount <= Value(payments[t].inputs)
             /\ payments[t].account \in Accounts
  <2>1. PICK i \in DOMAIN db.transfers :
          /\ payments[t].inputs = RangeOf(db.transfers[i])
          /\ payments[t].account = db.transfers[i].account
          /\ payments[t].amount = db.transfers[i].amount
    BY <1>0 DEF PaidAsAssigned
  <2>2. db.transfers[i] \in Transfer(OrderTraces) /\ RowKept(db.transfers[i])
    BY <1>0, Basics DEF RowsOrdered
  <2> QED
    BY <2>1, <2>2 DEF Transfer, RowKept, Covers, RangeOf
<1> QED
  BY <1>4, <1>5

\* What is due to an account is a natural number.
LEMMA DuesAreAddends ==
  ASSUME Inv, NEW a, NEW S \in SUBSET DOMAIN payments PROVE Addends(Dues(a), S)
<1>1. IsFiniteSet(S)
  BY PaymentsAreFine, FS_Subset
<1>2. ASSUME NEW t \in S PROVE Due(payments[t], a) \in Nat
  <2>1. /\ payments[t].amount \in Nat /\ Value(payments[t].inputs) \in Nat
        /\ payments[t].amount <= Value(payments[t].inputs)
    BY PaymentsAreFine DEF Value, Total
  <2> QED
    BY <2>1 DEF Due
<1> QED
  BY <1>1, <1>2 DEF Addends, Dues

\* No account is worth more or less without the network or a payment.
LEMMA StillAsRich ==
  ASSUME UNCHANGED <<utxos, payments>> PROVE UNCHANGED Worths
  BY DEF Worths, Balance, Value, Due, Spent, Listed, Total

\* What is due does not depend on the step.
LEMMA DueStays ==
  ASSUME UNCHANGED utxos, NEW a, NEW u, NEW p, p = payments'[u]
  PROVE  Due(payments[u], a)' = Due(p, a)
  BY DEF Due, Value, Total

\* A payment moves the amount from the account of the transfer to the opponent's:
\* the change, though it is not listed, is due to the account.
LEMMA PayMoves ==
  ASSUME Inv, NEW i \in DOMAIN db.transfers, NEW row, row = db.transfers[i],
         Pay(row, RangeOf(row)), UNCHANGED <<utxos, db, saved>>, NEW a \in Accounts
  PROVE  Balance(a)' = (Balance(a) + (IF a = <<row.opponent, row.account[2]>>
                                        THEN row.amount ELSE 0))
                         - (IF a = row.account THEN row.amount ELSE 0)
<1>0. TypeOK /\ RowsOrdered
  BY DEF Inv
<1>1. PICK R : R = RangeOf(row)
  OBVIOUS
<1>2. R \subseteq Listed /\ \A s \in R : utxos[s].account = row.account
  BY <1>0, <1>1, Basics DEF RangeOf
<1>3. PICK t : t = row.trace
  OBVIOUS
<1>4. row.amount \in Nat /\ row.amount <= Value(R) /\ R \cap Spent = {}
  BY <1>0, <1>1, Basics DEF Pay, CanPay, Transfer
<1>5. /\ t \notin DOMAIN payments
      /\ DOMAIN payments' = DOMAIN payments \cup {t}
      /\ \A u \in DOMAIN payments : payments'[u] = payments[u]
      /\ payments'[t] = [account |-> row.account, inputs |-> R, amount |-> row.amount,
                         opponent |-> row.opponent, listed |-> FALSE]
  BY <1>1, <1>3, PayAdds
<1>6. \A S : Value(S) \in Nat /\ Value(S)' = Value(S)
  BY DEF Value, Total
<1>7. PICK old, new : old = Purse(a) /\ new = Purse(a)'
  OBVIOUS
<1>8. new = old \ R
  <2>1. Spent' = Spent \cup R
    BY <1>5 DEF Spent
  <2> QED
    BY <1>7, <2>1 DEF Purse, Listed
<1>9. Value(new)' = Value(old) - (IF a = row.account THEN Value(R) ELSE 0)
  <2>1. CASE a = row.account
    <3>1. R \in SUBSET old
      BY <1>2, <1>4, <1>7, <2>1 DEF Purse
    <3>2. Worth(old)
      BY <1>0, <1>7, ListedIsWorth DEF Purse
    <3>3. Value(old) = Value(R) + Value(old \ R)
      BY <3>1, <3>2, ValueUnion
    <3> QED
      BY <1>6, <1>8, <2>1, <3>3
  <2>2. CASE a # row.account
    <3>1. new = old
      BY <1>2, <1>7, <1>8, <2>2 DEF Purse
    <3>2. Value(new)' = Value(old) /\ Value(old) \in Nat
      BY <1>6, <3>1
    <3> QED
      BY <2>2, <3>2
  <2> QED
    BY <2>1, <2>2
<1> DEFINE due == (IF a = <<row.opponent, row.account[2]>> THEN row.amount ELSE 0)
                    + (IF a = row.account THEN Value(R) - row.amount ELSE 0)
<1>10. PICK d, e : d = Dues(a) /\ e = Dues(a)'
  OBVIOUS
<1>11. e[t] = due /\ \A u \in DOMAIN payments : e[u] = d[u]
  <2>1. ASSUME NEW u \in DOMAIN payments', NEW p, p = payments'[u]
        PROVE  e[u] = Due(p, a)
    <3>1. e[u] = Due(payments[u], a)'
      BY <1>10, <2>1 DEF Dues
    <3> QED
      BY <2>1, <3>1, DueStays
  <2>2. \A u \in DOMAIN payments : e[u] = d[u]
    BY <1>5, <1>10, <2>1 DEF Dues
  <2>3. PICK p : p = payments'[t]
    OBVIOUS
  <2>4. Due(p, a) = due
    BY <1>5, <2>3 DEF Due
  <2> QED
    BY <1>5, <2>1, <2>2, <2>3, <2>4
<1>12. PICK was, is : was = Unlisted /\ is = Unlisted'
  OBVIOUS
<1>13. is = was \cup {t} /\ was \subseteq DOMAIN payments /\ t \notin was /\ is \ {t} = was
  BY <1>5, <1>12 DEF Unlisted
<1>14. due \in Nat
  BY <1>4, <1>6
<1>15. SumOver(e, is) = due + SumOver(d, was)
  <2>1. Addends(d, was)
    BY <1>10, <1>13, DuesAreAddends
  <2>2. Addends(e, is)
    <3>1. IsFiniteSet(is)
      BY <1>13, <2>1, FS_AddElement DEF Addends
    <3> HIDE DEF due
    <3> QED
      BY <1>11, <1>13, <1>14, <2>1, <3>1 DEF Addends
  <2>3. SumOver(e, is) = e[t] + SumOver(e, was)
    BY <1>13, <2>2, SumRemove
  <2>4. SumOver(e, was) = SumOver(d, was)
    BY <1>11, <1>13, SumSame
  <2> QED
    BY <1>11, <2>3, <2>4
<1>16. Balance(a) = Value(old) + SumOver(d, was)
  BY <1>7, <1>10, <1>12, BalanceIsSum
<1>17. Balance(a)' = Value(new)' + SumOver(e, is)
  BY <1>7, <1>10, <1>12, BalanceIsSum
<1>18. SumOver(d, was) \in Nat /\ Value(old) \in Nat /\ Value(R) \in Nat
  BY <1>6, SumType
<1> QED
  BY <1>4, <1>9, <1>15, <1>16, <1>17, <1>18

-----------------------------------------------------------------------------
(* What new utxos add.                                                     *)

\* What an account has in a list of utxos, without those that are gone.
Held(q, a, gone) ==
  SumOver([s \in DOMAIN q |-> q[s].amount],
          {s \in DOMAIN q \ gone : q[s].account = a})

\* What an account can spend is what it has in the list, less what is spent.
LEMMA PurseIsHeld ==
  ASSUME NEW a
  PROVE  /\ Value(Purse(a)) = Held(utxos, a, Spent)
         /\ Value(Purse(a))' = Held(utxos', a, Spent')
<1>1. /\ Value(Purse(a)) = Total([s \in Purse(a) |-> utxos[s].amount])
      /\ Value(Purse(a))' = Total([s \in Purse(a)' |-> utxos'[s].amount])
  BY DEF Value, Total
<1>2. /\ Purse(a) = {s \in DOMAIN utxos \ Spent : utxos[s].account = a}
      /\ Purse(a)' = {s \in DOMAIN utxos' \ Spent' : utxos'[s].account = a}
  BY DEF Purse, Listed
<1>3. /\ [s \in Purse(a) |-> utxos[s].amount]
           = [s \in Purse(a) |-> [x \in DOMAIN utxos |-> utxos[x].amount][s]]
      /\ [s \in Purse(a)' |-> utxos'[s].amount]
           = [s \in Purse(a)' |-> [x \in DOMAIN utxos' |-> utxos'[x].amount][s]]
  BY <1>2
<1> QED
  BY <1>1, <1>2, <1>3 DEF Held, SumOver

\* One more utxo adds its amount to its account.
LEMMA OneMore ==
  ASSUME NEW q \in Seq(Utxo), NEW u \in Utxo, NEW a, NEW gone \in SUBSET DOMAIN q
  PROVE  Held(Append(q, u), a, gone)
           = Held(q, a, gone) + (IF u.account = a THEN u.amount ELSE 0)
<1> DEFINE n == Len(q)
           more == Append(q, u)
           f == [s \in DOMAIN q |-> q[s].amount]
           g == [s \in DOMAIN more |-> more[s].amount]
           S == {s \in DOMAIN q \ gone : q[s].account = a}
           T == {s \in DOMAIN more \ gone : more[s].account = a}
<1>1. /\ n \in Nat /\ DOMAIN q = 1..n /\ \A s \in 1..n : q[s] \in Utxo
      /\ DOMAIN more = 1..n + 1 /\ more[n + 1] = u
      /\ \A s \in 1..n : more[s] = q[s]
  BY AppendProperties, LenProperties, ElementOfSeq
<1>2. /\ \A s \in 1..n : f[s] \in Nat /\ g[s] = f[s]
      /\ g[n + 1] = u.amount /\ g[n + 1] \in Nat
  BY <1>1 DEF Utxo
<1>3. S \subseteq 1..n /\ n + 1 \notin S /\ n + 1 \notin gone
      /\ T = IF u.account = a THEN S \cup {n + 1} ELSE S
  BY <1>1
<1>4. IsFiniteSet(S)
  <2>1. IsFiniteSet(1..n)
    BY <1>1, FS_Interval
  <2> HIDE DEF S, n
  <2> QED
    BY <1>3, <2>1, FS_Subset
<1> HIDE DEF f, g, S, T, more, n
<1>5. SumOver(g, S) = SumOver(f, S) /\ SumOver(f, S) \in Nat
  BY <1>2, <1>3, SumSame, SumType
<1>6. CASE u.account = a
  <2>1. T = S \cup {n + 1} /\ T \ {n + 1} = S
    BY <1>3, <1>6
  <2>2. IsFiniteSet(T)
    BY <1>4, <2>1, FS_AddElement
  <2>3. Addends(g, T)
    BY <1>2, <1>3, <2>1, <2>2 DEF Addends
  <2>4. SumOver(g, T) = g[n + 1] + SumOver(g, S)
    BY <2>1, <2>3, SumRemove
  <2>5. SumOver(g, T) = SumOver(f, S) + u.amount
    BY <1>2, <1>5, <2>4
  <2> QED
    BY <1>6, <2>5 DEF Held, f, g, S, T, more
<1>7. CASE u.account # a
  <2>1. SumOver(g, T) = SumOver(f, S) + 0
    BY <1>3, <1>5, <1>7
  <2> QED
    BY <1>7, <2>1 DEF Held, f, g, S, T, more
<1> QED
  BY <1>6, <1>7

\* What a transaction pays to a user in one output.
Paying(user, asset, n) ==
  IF user \in Users /\ n > 0
    THEN <<[account |-> <<user, asset>>, amount |-> n]>> ELSE << >>

\* What is gone was listed.
Within(gone, q) == gone \in SUBSET DOMAIN q

\* One output more adds what it pays, to the account that it pays.
LEMMA OutputAdds ==
  ASSUME NEW q \in Seq(Utxo), NEW user, NEW asset \in Assets, NEW n \in Nat,
         NEW gone, Within(gone, q), NEW a \in Accounts
  PROVE  /\ q \o Paying(user, asset, n) \in Seq(Utxo)
         /\ Paying(user, asset, n) \in Seq(Utxo)
         /\ Within(gone, q \o Paying(user, asset, n))
         /\ a = <<user, asset>> =>
              Held(q \o Paying(user, asset, n), a, gone) = Held(q, a, gone) + n
         /\ a # <<user, asset>> =>
              Held(q \o Paying(user, asset, n), a, gone) = Held(q, a, gone)
<1>1. PICK out : out = Paying(user, asset, n)
  OBVIOUS
<1>2. PICK more, to : more = q \o out /\ to = <<user, asset>>
  OBVIOUS
<1>3. Held(q, a, gone) \in Nat
  BY SumType DEF Held
<1>4. CASE user \in Users /\ n > 0
  <2> DEFINE u == [account |-> <<user, asset>>, amount |-> n]
  <2>1. u \in Utxo /\ u.account = to /\ u.amount = n
    BY <1>4, <1>2 DEF Utxo, Accounts
  <2>2. out = <<u>>
    BY <1>4, <1>1 DEF Paying
  <2> HIDE DEF u
  <2>3. more = Append(q, u) /\ out \in Seq(Utxo)
    BY <1>2, <2>1, <2>2
  <2>4. Append(q, u) \in Seq(Utxo) /\ gone \in SUBSET DOMAIN Append(q, u)
    BY <2>1, AppendProperties, LenProperties DEF Within
  <2>5. Held(Append(q, u), a, gone)
          = Held(q, a, gone) + (IF u.account = a THEN u.amount ELSE 0)
    BY <2>1, OneMore DEF Within
  <2> QED
    BY <1>3, <1>1, <1>2, <2>1, <2>3, <2>4, <2>5 DEF Within
<1>5. CASE ~(user \in Users /\ n > 0)
  <2>1. out = << >> /\ << >> \in Seq(Utxo)
    BY <1>5, <1>1, EmptySeq DEF Paying
  <2>2. more = q
    BY <1>2, <2>1, ConcatEmptySeq
  <2>3. a = to => n = 0
    BY <1>5, <1>2 DEF Accounts
  <2> QED
    BY <1>3, <1>1, <1>2, <2>1, <2>2, <2>3
<1> QED
  BY <1>4, <1>5

\* What a transaction owes an account stays the same until it is listed.
LEMMA DuesStay ==
  ASSUME Inv, Grows, NEW a, NEW t \in DOMAIN payments
  PROVE  (Dues(a)')[t] = Dues(a)[t]
<1>1. PICK S : S = payments[t].inputs
  OBVIOUS
<1>2. /\ payments'[t].inputs = S /\ payments'[t].account = payments[t].account
      /\ payments'[t].amount = payments[t].amount
      /\ payments'[t].opponent = payments[t].opponent
      /\ t \in DOMAIN payments'
  BY <1>1 DEF Grows
<1>3. S \in SUBSET saved
  BY <1>1, PaymentsAreFine
<1>4. Value(S)' = Value(S)
  BY <1>3, ValueStays DEF Inv
<1>5. Value(payments[t].inputs)' = Value(S)'
  BY <1>2 DEF Value
<1>6. Due(payments[t], a)' = Due(payments[t], a)
  BY <1>1, <1>2, <1>4, <1>5 DEF Due
<1> QED
  BY <1>2, <1>6 DEF Dues

\* Spent utxos are listed.
LEMMA SpentIsListed == ASSUME Inv PROVE Spent \in SUBSET Listed
  BY SpentIsSaved, Basics DEF Inv, SavedIsKept

\* A deposit makes no account poorer.
LEMMA DepositAdds ==
  ASSUME Inv, Grows, NEW u \in Arrivals, Deposit(u), NEW a \in Accounts
  PROVE  Balance(a)' >= Balance(a)
<1>1. u \in Utxo /\ utxos \in Seq(Utxo)
  BY ArrivalsAreUtxos DEF Inv, TypeOK
<1>2. utxos' = Append(utxos, u) /\ UNCHANGED payments
  BY DEF Deposit
<1>3. PICK gone : gone = Spent
  OBVIOUS
<1>4. gone = Spent' /\ gone \in SUBSET DOMAIN utxos
  BY <1>2, <1>3, SpentIsListed DEF Spent, Listed
<1>5. Held(utxos', a, gone)
        = Held(utxos, a, gone) + (IF u.account = a THEN u.amount ELSE 0)
  BY <1>1, <1>2, <1>4, OneMore
<1>6. PICK d, e : d = Dues(a) /\ e = Dues(a)'
  OBVIOUS
<1>7. PICK open : open = Unlisted
  OBVIOUS
<1>8. open = Unlisted' /\ open \subseteq DOMAIN payments
  BY <1>2, <1>7 DEF Unlisted
<1>9. SumOver(e, open) = SumOver(d, open)
  BY <1>6, <1>8, DuesStay, SumSame
<1>10. Balance(a) = Held(utxos, a, gone) + SumOver(d, open)
  BY <1>3, <1>6, <1>7, BalanceIsSum, PurseIsHeld
<1>11. Balance(a)' = Held(utxos', a, gone) + SumOver(e, open)
  BY <1>4, <1>6, <1>8, BalanceIsSum, PurseIsHeld
<1>12. SumOver(d, open) \in Nat /\ Held(utxos, a, gone) \in Nat /\ u.amount \in Nat
  BY <1>1, SumType DEF Held, Utxo
<1> QED
  BY <1>5, <1>9, <1>10, <1>11, <1>12

\* Lemmas about the parts of the change: they are about all remainders and counts,
\* so that it does not matter what the variables of that module stand for.
Building == INSTANCE SplitChangeProofs WITH
  MaxUnits <- 0, sum <- 0, amount <- 0, count <- 0, change <- <<0, 0, 0>>

\* The parts of the change are natural numbers and worth the change.
LEMMA PartsAreTheChange ==
  ASSUME NEW remain \in Nat, NEW n
  PROVE  /\ Split(remain, n)[1] \in Nat /\ Split(remain, n)[2] \in Nat
         /\ Split(remain, n)[3] \in Nat
         /\ Split(remain, n)[1] + Split(remain, n)[2] + Split(remain, n)[3] = remain
<1>1. /\ Split(remain, n) \in Nat \X Nat \X Nat
      /\ Split(remain, n)[1] + Split(remain, n)[2] + Split(remain, n)[3] = remain
  BY Building!SplitConserves DEF Split, Building!Split
<1>2. \A parts \in Nat \X Nat \X Nat :
        parts[1] \in Nat /\ parts[2] \in Nat /\ parts[3] \in Nat
  OBVIOUS
<1> QED
  BY <1>1, <1>2

\* The same for an output of the account itself.
LEMMA ChangeAdds ==
  ASSUME NEW q \in Seq(Utxo), NEW account \in Accounts, NEW n \in Nat,
         NEW gone, Within(gone, q), NEW a \in Accounts
  PROVE  /\ q \o Paying(account[1], account[2], n) \in Seq(Utxo)
         /\ Paying(account[1], account[2], n) \in Seq(Utxo)
         /\ Within(gone, q \o Paying(account[1], account[2], n))
         /\ a = account =>
              Held(q \o Paying(account[1], account[2], n), a, gone) = Held(q, a, gone) + n
         /\ a # account =>
              Held(q \o Paying(account[1], account[2], n), a, gone) = Held(q, a, gone)
<1>1. PICK user \in Users, asset \in Assets : account = <<user, asset>>
  BY DEF Accounts
<1>2. account[1] = user /\ account[2] = asset
  BY <1>1
<1>3. /\ q \o Paying(user, asset, n) \in Seq(Utxo)
      /\ Paying(user, asset, n) \in Seq(Utxo)
      /\ Within(gone, q \o Paying(user, asset, n))
      /\ a = <<user, asset>> =>
           Held(q \o Paying(user, asset, n), a, gone) = Held(q, a, gone) + n
      /\ a # <<user, asset>> =>
           Held(q \o Paying(user, asset, n), a, gone) = Held(q, a, gone)
  BY OutputAdds
<1> QED
  BY <1>1, <1>2, <1>3

\* What is listed of a transaction is what was due of it.
LEMMA ReceiptsAreDue ==
  ASSUME Inv, NEW t \in DOMAIN payments, NEW a \in Accounts
  PROVE  Held(utxos \o Receipts(t), a, Spent)
           = Held(utxos, a, Spent) + Due(payments[t], a)
<1>1. PICK p : p = payments[t]
  OBVIOUS
<1>2. PICK remain : remain = Value(p.inputs) - p.amount
  OBVIOUS
<1>3. PICK c : c = Split(remain, Parts(remain, p.amount))
  OBVIOUS
<1>4. PICK gone, list : gone = Spent /\ list = utxos
  OBVIOUS
<1>5. /\ p.amount \in Nat /\ remain \in Nat /\ p.account[2] \in Assets
      /\ p.account \in Accounts
  <2>1. Value(p.inputs) \in Nat
    BY DEF Value, Total
  <2> QED
    BY <1>1, <1>2, <2>1, PaymentsAreFine DEF Accounts
<1>6. c[1] \in Nat /\ c[2] \in Nat /\ c[3] \in Nat /\ c[1] + c[2] + c[3] = remain
  BY <1>3, <1>5, PartsAreTheChange
<1>7. PICK account \in Accounts : account = p.account
  BY <1>5
<1>8. PICK x \in Nat, y \in Nat, z \in Nat : x = c[1] /\ y = c[2] /\ z = c[3]
  BY <1>6
<1>9. PICK A : A = Paying(p.opponent, p.account[2], p.amount)
  OBVIOUS
<1>10. PICK B : B = Paying(account[1], account[2], x)
  OBVIOUS
<1>11. PICK C : C = Paying(account[1], account[2], y)
  OBVIOUS
<1>12. PICK D : D = Paying(account[1], account[2], z)
  OBVIOUS
<1>13. Receipts(t) = ((A \o B) \o C) \o D
  BY <1>1, <1>2, <1>3, <1>9, <1>10, <1>11, <1>12, <1>8, <1>7 DEF Receipts, Paying
<1>14. list \in Seq(Utxo) /\ Within(gone, list)
  BY <1>4, SpentIsListed DEF Inv, TypeOK, Listed, Within
<1>15. PICK l1 : l1 = list \o A
  OBVIOUS
<1>16. PICK l2 : l2 = l1 \o B
  OBVIOUS
<1>17. PICK l3 : l3 = l2 \o C
  OBVIOUS
<1>18. PICK l4 : l4 = l3 \o D
  OBVIOUS
<1>19. PICK to : to = <<p.opponent, p.account[2]>>
  OBVIOUS
<1>20. /\ l1 \in Seq(Utxo) /\ A \in Seq(Utxo) /\ Within(gone, l1)
       /\ a = to => Held(l1, a, gone) = Held(list, a, gone) + p.amount
       /\ a # to => Held(l1, a, gone) = Held(list, a, gone)
  BY <1>5, <1>9, <1>14, <1>15, <1>19, OutputAdds
<1>21. /\ l2 \in Seq(Utxo) /\ B \in Seq(Utxo) /\ Within(gone, l2)
       /\ a = account => Held(l2, a, gone) = Held(l1, a, gone) + x
       /\ a # account => Held(l2, a, gone) = Held(l1, a, gone)
  BY <1>10, <1>16, <1>20, ChangeAdds
<1>22. /\ l3 \in Seq(Utxo) /\ C \in Seq(Utxo) /\ Within(gone, l3)
       /\ a = account => Held(l3, a, gone) = Held(l2, a, gone) + y
       /\ a # account => Held(l3, a, gone) = Held(l2, a, gone)
  BY <1>11, <1>17, <1>21, ChangeAdds
<1>23. /\ l4 \in Seq(Utxo) /\ D \in Seq(Utxo)
       /\ a = account => Held(l4, a, gone) = Held(l3, a, gone) + z
       /\ a # account => Held(l4, a, gone) = Held(l3, a, gone)
  BY <1>12, <1>18, <1>22, ChangeAdds
<1>24. list \o Receipts(t) = l4
  <2>1. PICK X \in Seq(Utxo) : X = A \o B
    BY <1>20, <1>21, ConcatProperties
  <2>2. l2 = list \o X
    BY <1>14, <1>15, <1>16, <1>20, <1>21, <2>1, ConcatAssociative
  <2>3. PICK Y \in Seq(Utxo) : Y = X \o C
    BY <1>22, ConcatProperties
  <2>4. l3 = list \o Y
    BY <1>14, <1>17, <1>22, <2>2, <2>3, ConcatAssociative
  <2>5. l4 = list \o (Y \o D)
    BY <1>14, <1>18, <1>23, <2>4, ConcatAssociative
  <2> QED
    BY <1>13, <2>1, <2>3, <2>5
<1>25. Held(list, a, gone) \in Nat
  BY SumType DEF Held
<1>26. Due(payments[t], a) =
         (IF a = <<p.opponent, p.account[2]>> THEN p.amount ELSE 0)
           + (IF a = account THEN remain ELSE 0)
  BY <1>1, <1>2, <1>7 DEF Due
<1>27. Held(l4, a, gone) = Held(l1, a, gone) + (IF a = account THEN remain ELSE 0)
  <2>1. Held(l1, a, gone) \in Nat
    BY SumType DEF Held
  <2>2. x + y + z = remain
    BY <1>6, <1>8
  <2>3. CASE a = account
    BY <1>21, <1>22, <1>23, <2>1, <2>2, <2>3
  <2>4. CASE a # account
    BY <1>5, <1>21, <1>22, <1>23, <2>1, <2>4
  <2> QED
    BY <2>3, <2>4
<1>28. Held(l1, a, gone) = Held(list, a, gone) + (IF a = to THEN p.amount ELSE 0)
  BY <1>20, <1>25
<1>29. Held(l4, a, gone) = Held(list, a, gone) + Due(payments[t], a)
  BY <1>5, <1>19, <1>25, <1>26, <1>27, <1>28
<1> QED
  BY <1>4, <1>24, <1>29

\* A transaction that becomes final lists what was due: all accounts are worth what
\* they were.
LEMMA SettleMoves ==
  ASSUME Inv, Grows, NEW t \in DOMAIN payments, Settle(t), NEW a \in Accounts
  PROVE  Balance(a)' = Balance(a)
<1>1. /\ ~payments[t].listed
      /\ payments' = [payments EXCEPT ![t].listed = TRUE]
      /\ utxos' = utxos \o Receipts(t)
  BY DEF Settle
<1>2. \A u \in DOMAIN payments : payments[u] \in Payment
  BY DEF Inv, TypeOK
<1>3. /\ DOMAIN payments' = DOMAIN payments
      /\ \A u \in DOMAIN payments : payments'[u].inputs = payments[u].inputs
      /\ \A u \in DOMAIN payments : u # t => payments'[u].listed = payments[u].listed
      /\ payments'[t].listed
  BY <1>1, <1>2 DEF Payment
<1>4. PICK gone : gone = Spent
  OBVIOUS
<1>5. gone = Spent'
  BY <1>3, <1>4 DEF Spent
<1>6. Held(utxos', a, gone) = Held(utxos, a, gone) + Due(payments[t], a)
  BY <1>1, <1>4, ReceiptsAreDue
<1>7. PICK d, e : d = Dues(a) /\ e = Dues(a)'
  OBVIOUS
<1>8. PICK was, is : was = Unlisted /\ is = Unlisted'
  OBVIOUS
<1>9. is = was \ {t} /\ t \in was /\ was \subseteq DOMAIN payments
  BY <1>1, <1>3, <1>8 DEF Unlisted
<1>10. SumOver(e, is) = SumOver(d, is)
  BY <1>7, <1>9, DuesStay, SumSame
<1>11. SumOver(d, was) = d[t] + SumOver(d, was \ {t})
  BY <1>7, <1>9, DuesAreAddends, SumRemove
<1>12. d[t] = Due(payments[t], a) /\ d[t] \in Nat
  BY <1>7, <1>9, DuesAreAddends DEF Dues, Addends
<1>13. Balance(a) = Held(utxos, a, gone) + SumOver(d, was)
  BY <1>4, <1>7, <1>8, BalanceIsSum, PurseIsHeld
<1>14. Balance(a)' = Held(utxos', a, gone) + SumOver(e, is)
  BY <1>5, <1>7, <1>8, BalanceIsSum, PurseIsHeld
<1>15. SumOver(d, is) \in Nat /\ Held(utxos, a, gone) \in Nat
  BY SumType DEF Held
<1> QED
  BY <1>6, <1>9, <1>10, <1>11, <1>12, <1>13, <1>14, <1>15

-----------------------------------------------------------------------------
(* The book of orders.                                                     *)

\* A trace is in the book with what became of its transfer.
LEMMA BookAt ==
  Inv => /\ DOMAIN Book = {db.transfers[i].trace : i \in DOMAIN db.transfers}
         /\ \A i \in DOMAIN db.transfers :
              Book[db.transfers[i].trace] = OrderOf(db.transfers[i])
<1> SUFFICES ASSUME Inv
             PROVE  \A i \in DOMAIN db.transfers :
                      Book[db.transfers[i].trace] = OrderOf(db.transfers[i])
  BY DEF Book
<1> TAKE i \in DOMAIN db.transfers
<1>1. PICK row : row = db.transfers[i]
  OBVIOUS
<1>2. ASSUME NEW j \in DOMAIN db.transfers, db.transfers[j].trace = row.trace PROVE j = i
  <2>1. i \in Nat /\ j \in Nat
    BY Basics DEF Inv
  <2>2. ~(i < j) /\ ~(j < i)
    BY <1>1, <1>2 DEF Inv, RowsOrdered
  <2> QED
    BY <2>1, <2>2
<1> DEFINE rows == {db.transfers[j] : j \in DOMAIN db.transfers}
<1>3. row \in rows /\ \A r \in rows : r.trace = row.trace => r = row
  BY <1>1, <1>2
<1>4. (CHOOSE r \in rows : r.trace = row.trace) = row
  <2> HIDE DEF rows
  <2> QED
    BY <1>3
<1>5. Book[row.trace] = OrderOf(CHOOSE r \in rows : r.trace = row.trace)
  BY <1>1 DEF Book
<1> QED
  BY <1>1, <1>4, <1>5

\* Amounts that disjoint sets of outputs pay for are paid for by all of them.
LEMMA DisjointCover ==
  ASSUME NEW S, Worth(S), NEW D, NEW f, Addends(f, D), NEW k \in [D -> SUBSET S],
         \A t \in D : f[t] <= Value(k[t]),
         \A t, u \in D : t # u => k[t] \cap k[u] = {}
  PROVE  SumOver(f, D) <= Value(S)
<1> DEFINE All(T) == UNION {k[t] : t \in T}
           bad == {T \in SUBSET D : ~(SumOver(f, T) <= Value(All(T)))}
<1>1. \A T : Value(T) \in Nat
  BY DEF Value, Total
<1>2. bad = {}
  <2>1. SUFFICES ASSUME bad # {} PROVE FALSE
    OBVIOUS
  <2>2. PICK T \in bad : \A U \in SUBSET T : U \in bad => U = T
    <3>1. bad \in SUBSET (SUBSET D) /\ IsFiniteSet(D)
      BY DEF Addends
    <3> HIDE DEF bad
    <3> QED
      BY <2>1, <3>1, SmallestSet
  <2>3. T \in SUBSET D /\ ~(SumOver(f, T) <= Value(All(T)))
    BY <2>2
  <2>4. T # {}
    <3>1. Value(All(T)) \in Nat
      BY <1>1
    <3> HIDE DEF All
    <3> QED
      BY <2>3, <3>1, SumEmpty
  <2>5. PICK x \in T : TRUE
    BY <2>4
  <2>6. T \ {x} \in SUBSET D /\ T \ {x} \notin bad
    BY <2>2, <2>3
  <2>7. SumOver(f, T \ {x}) <= Value(All(T \ {x}))
    BY <2>6
  <2>8. SumOver(f, T) = f[x] + SumOver(f, T \ {x})
    <3>1. Addends(f, T)
      BY <2>3, FS_Subset DEF Addends
    <3> QED
      BY <3>1, SumRemove
  <2>9. Value(All(T)) = Value(k[x]) + Value(All(T \ {x}))
    <3>1. All(T) \in SUBSET S /\ k[x] \in SUBSET All(T)
      BY <2>3
    <3>2. All(T) \ k[x] = All(T \ {x})
      BY <2>3
    <3>3. Worth(All(T))
      <4> HIDE DEF All
      <4> QED
        BY <3>1, FS_Subset DEF Worth
    <3> HIDE DEF All
    <3> QED
      BY <3>1, <3>2, <3>3, ValueUnion
  <2>10. /\ f[x] \in Nat /\ f[x] <= Value(k[x]) /\ SumOver(f, T \ {x}) \in Nat
         /\ Value(k[x]) \in Nat /\ Value(All(T \ {x})) \in Nat
    BY <1>1, <2>3, SumType DEF Addends
  <2> HIDE DEF All, bad
  <2> QED
    BY <2>3, <2>7, <2>8, <2>9, <2>10
<1>3. SumOver(f, D) <= Value(All(D))
  BY <1>2
<1>4. Value(All(D)) <= Value(S)
  <2>1. All(D) \in SUBSET S
    OBVIOUS
  <2> HIDE DEF All
  <2> QED
    BY <2>1, ValueGrows
<1>5. SumOver(f, D) \in Nat /\ Value(All(D)) \in Nat /\ Value(S) \in Nat
  BY <1>1, SumType
<1> HIDE DEF All
<1> QED
  BY <1>3, <1>4, <1>5

\* What an account owes is covered by what is not spent of the ranges of its
\* transfers: they do not overlap.
LEMMA OwedIsCovered ==
  Inv => \A a \in Accounts :
           /\ IsFiniteSet(Debts(Book, a))
           /\ \A t \in Debts(Book, a) : Book[t].amount \in Nat
           /\ Owes(Book, a) <= Balance(a)
<1> SUFFICES ASSUME Inv, NEW a \in Accounts
             PROVE  /\ IsFiniteSet(Debts(Book, a))
                    /\ \A t \in Debts(Book, a) : Book[t].amount \in Nat
                    /\ Owes(Book, a) <= Balance(a)
  OBVIOUS
<1>0. TypeOK /\ RowsOrdered
  BY DEF Inv
<1> DEFINE n == Len(db.transfers)
           D == Debts(Book, a)
           Of(t) == CHOOSE i \in 1..n : db.transfers[i].trace = t
           f == [t \in D |-> Book[t].amount]
           k == [t \in D |-> RangeOf(db.transfers[Of(t)])]
           trace == [i \in 1..n |-> db.transfers[i].trace]
<1>1. n \in Nat /\ DOMAIN db.transfers = 1..n
  BY <1>0, Basics
<1>2. DOMAIN Book = {db.transfers[i].trace : i \in 1..n}
  BY <1>1, BookAt
<1>3. IsFiniteSet(D)
  <2>1. trace \in Surjection(1..n, DOMAIN Book)
    BY <1>2 DEF Surjection
  <2>2. IsFiniteSet(1..n)
    BY <1>1, FS_Interval
  <2>3. IsFiniteSet(DOMAIN Book)
    BY <2>1, <2>2, FS_Surjection
  <2> QED
    BY <2>3, FS_Subset DEF Debts
<1>4. \A t \in D : Of(t) \in 1..n /\ db.transfers[Of(t)].trace = t
  BY <1>2 DEF Debts
<1> HIDE DEF Of
<1>5. ASSUME NEW t \in D, NEW i, i = Of(t)
      PROVE  /\ i \in DOMAIN db.transfers /\ db.transfers[i].account = a
             /\ db.transfers[i].trace = t /\ t \notin DOMAIN payments
             /\ Book[t].amount = db.transfers[i].amount
             /\ Book[t].amount \in Nat
             /\ Book[t].amount <= Value(RangeOf(db.transfers[i]))
  <2>1. i \in DOMAIN db.transfers /\ db.transfers[i].trace = t
    BY <1>1, <1>4, <1>5
  <2>2. Book[t] = OrderOf(db.transfers[i])
    BY <2>1, BookAt
  <2>3. db.transfers[i] \in Transfer(OrderTraces) /\ RowKept(db.transfers[i])
    BY <1>0, <2>1, Basics DEF RowsOrdered
  <2> QED
    BY <2>1, <2>2, <2>3 DEF OrderOf, Debts, Transfer, RowKept, Covers
<1>6. Addends(f, D)
  BY <1>3, <1>5 DEF Addends
<1>7. k \in [D -> SUBSET Purse(a)]
  <2>1. ASSUME NEW t \in D, NEW s \in RangeOf(db.transfers[Of(t)]) PROVE s \in Purse(a)
    <3>1. PICK i \in DOMAIN db.transfers : i = Of(t)
      BY <1>5
    <3>2. s \notin Spent
      BY <1>5, <2>1, <3>1, UnpaidIsUnspent
    <3>3. s \in Listed /\ utxos[s].account = a
      BY <1>0, <1>5, <2>1, <3>1, Basics DEF RangeOf
    <3> QED
      BY <3>2, <3>3 DEF Purse
  <2> QED
    BY <2>1
<1>8. \A t \in D : f[t] <= Value(k[t])
  BY <1>5
<1>9. \A t, u \in D : t # u => k[t] \cap k[u] = {}
  <2>1. ASSUME NEW t \in D, NEW u \in D, t # u,
               NEW s \in RangeOf(db.transfers[Of(t)]), s \in RangeOf(db.transfers[Of(u)])
        PROVE  FALSE
    <3>1. PICK i \in DOMAIN db.transfers : i = Of(t)
      BY <1>5
    <3>2. PICK j \in DOMAIN db.transfers : j = Of(u)
      BY <1>5
    <3>3. i # j
      BY <1>5, <2>1, <3>1, <3>2
    <3> QED
      BY <1>0, <2>1, <3>1, <3>2, <3>3, RangesAreDisjoint
  <2> QED
    BY <2>1
<1>10. Worth(Purse(a))
  BY <1>0, ListedIsWorth DEF Purse
<1>11. Owes(Book, a) = SumOver(f, D)
  BY DEF Owes
<1> HIDE DEF k, f, D
<1>12. SumOver(f, D) <= Value(Purse(a))
  BY <1>6, <1>7, <1>8, <1>9, <1>10, DisjointCover
<1>13. PICK d : d = SumOver(Dues(a), Unlisted)
  OBVIOUS
<1>14. Balance(a) = Value(Purse(a)) + d /\ d \in Nat
  BY <1>13, BalanceIsSum, SumType
<1>15. SumOver(f, D) \in Nat /\ Value(Purse(a)) \in Nat
  BY SumType DEF Value, Total
<1>16. Owes(Book, a) <= Balance(a)
  BY <1>11, <1>12, <1>14, <1>15
<1>17. \A t \in D : Book[t].amount \in Nat
  BY <1>5
<1> QED
  BY <1>3, <1>16, <1>17 DEF D

\* Every account can pay all that was assigned and not paid yet: the ranges of
\* transfers are disjoint, and nobody spends from those that are not paid.
THEOREM TransfersAreCovered == Spec => []AssignedIsCovered
<1>1. ASSUME Inv, NEW a \in Accounts PROVE P!Owed(Book, a) <= Balance(a)
  <2>1. PICK book : book = Book
    OBVIOUS
  <2>2. /\ IsFiniteSet(Debts(book, a))
        /\ \A t \in Debts(book, a) : book[t].amount \in Nat
        /\ Owes(book, a) <= Balance(a)
    BY <1>1, <2>1, OwedIsCovered
  <2>3. P!Owed(book, a) = Owes(book, a)
    BY <2>2, OwedIsSum
  <2> QED
    BY <2>1, <2>2, <2>3
<1>2. Inv => AssignedIsCovered
  BY <1>1 DEF AssignedIsCovered, P!Solvent, P!Accounts, Accounts, Book
<1> QED
  BY <1>2, Invariance, PTL

\* What became of the order that a transfer is, when these traces are paid.
OrderIn(row, paid) ==
  [account |-> row.account, amount |-> row.amount, opponent |-> row.opponent,
   state |-> IF row.status = "handled" THEN "handled"
             ELSE IF row.trace \in paid THEN "paid" ELSE "accepted"]

\* The book before a step ...
LEMMA BookBefore ==
  Inv => /\ DOMAIN Book = {db.transfers[i].trace : i \in DOMAIN db.transfers}
         /\ \A i \in DOMAIN db.transfers :
              Book[db.transfers[i].trace] = OrderIn(db.transfers[i], DOMAIN payments)
  BY BookAt DEF OrderOf, OrderIn

\* ... and after it.
LEMMA BookAfter ==
  Inv' => /\ DOMAIN Book' = {db'.transfers[i].trace : i \in DOMAIN db'.transfers}
          /\ \A i \in DOMAIN db'.transfers :
               Book'[db'.transfers[i].trace] = OrderIn(db'.transfers[i], DOMAIN payments')
<1> DEFINE Known ==
             /\ DOMAIN Book = {db.transfers[i].trace : i \in DOMAIN db.transfers}
             /\ \A i \in DOMAIN db.transfers :
                  Book[db.transfers[i].trace] = OrderIn(db.transfers[i], DOMAIN payments)
<1>1. Inv => Known
  BY BookBefore
<1>2. Inv' => Known'
  BY <1>1, PTL
<1>3. Known' =>
         /\ DOMAIN Book' = {db'.transfers[i].trace : i \in DOMAIN db'.transfers}
         /\ \A i \in DOMAIN db'.transfers :
              Book'[db'.transfers[i].trace] = OrderIn(db'.transfers[i], DOMAIN payments')
  BY DEF OrderIn
<1> HIDE DEF Known
<1> QED
  BY <1>2, <1>3

\* The book lists transfers: it stays while they and the payments do.
LEMMA BookStays ==
  ASSUME db'.transfers = db.transfers, DOMAIN payments' = DOMAIN payments
  PROVE  UNCHANGED Book
  BY DEF Book, OrderOf

\* After a step every account has what it owes ...
LEMMA CoveredAfter ==
  Inv' => \A a \in Accounts :
            /\ IsFiniteSet(Debts(Book', a))
            /\ \A t \in Debts(Book', a) : Book'[t].amount \in Nat
            /\ Owes(Book', a) <= Balance(a)'
<1> DEFINE Known ==
             \A a \in Accounts :
               /\ IsFiniteSet(Debts(Book, a))
               /\ \A t \in Debts(Book, a) : Book[t].amount \in Nat
               /\ Owes(Book, a) <= Balance(a)
<1>1. Inv => Known
  BY OwedIsCovered
<1>2. Inv' => Known'
  BY <1>1, PTL
<1>3. Known' => \A a \in Accounts :
                  /\ IsFiniteSet(Debts(Book', a))
                  /\ \A t \in Debts(Book', a) : Book'[t].amount \in Nat
                  /\ Owes(Book', a) <= Balance(a)'
  BY DEF Debts, Owes, SumOver, Total
<1> HIDE DEF Known
<1> QED
  BY <1>2, <1>3

\* ... so that Payments would accept what was accepted.
LEMMA OwedAfter ==
  ASSUME Inv', NEW a \in Accounts PROVE P!Owed(Book', a) <= Balance(a)'
<1>1. PICK book : book = Book'
  OBVIOUS
<1>2. /\ IsFiniteSet(Debts(book, a))
      /\ \A t \in Debts(book, a) : book[t].amount \in Nat
      /\ Owes(book, a) <= Balance(a)'
  BY <1>1, CoveredAfter
<1>3. P!Owed(book, a) = Owes(book, a)
  BY <1>2, OwedIsSum
<1> QED
  BY <1>1, <1>2, <1>3

\* An order is accepted.
LEMMA OrderAccepts ==
  ASSUME Inv, Inv', NEW o \in Orders, Order(o), UNCHANGED payments PROVE P!Accept
<1>0. TypeOK /\ PaidAsAssigned /\ RowsOrdered
  BY DEF Inv
<1>1. PICK row \in Transfer(OrderTraces) :
        /\ Grant(row) /\ db'.transfers = Append(db.transfers, row)
        /\ UNCHANGED <<utxos, saved>>
  BY <1>0, OrderGrants
<1>2. /\ db.transfers \in Seq(Transfer(OrderTraces)) /\ row.status = "assigned"
      /\ ~HasTrace(db, row.trace)
  BY <1>0, <1>1 DEF TypeOK, Tables, Grant, Assign, CanAssign
<1> DEFINE n == Len(db.transfers)
           t == row.trace
<1>3. n \in Nat /\ DOMAIN db.transfers = 1..n
  BY <1>0, Basics
<1>4. /\ DOMAIN db'.transfers = 1..n + 1
      /\ \A i \in 1..n : db'.transfers[i] = db.transfers[i]
      /\ db'.transfers[n + 1] = row
  BY <1>1, <1>2, AppendProperties, LenProperties
<1> HIDE DEF n
<1>5. PICK before, after : before = Book /\ after = Book'
  OBVIOUS
<1>6. PICK paid : paid = DOMAIN payments /\ paid = DOMAIN payments'
  OBVIOUS
<1>7. /\ DOMAIN before = {db.transfers[i].trace : i \in 1..n}
      /\ \A i \in 1..n : before[db.transfers[i].trace] = OrderIn(db.transfers[i], paid)
  BY <1>3, <1>5, <1>6, BookBefore
<1>8. /\ DOMAIN after = {db'.transfers[i].trace : i \in 1..n + 1}
      /\ \A i \in 1..n + 1 : after[db'.transfers[i].trace] = OrderIn(db'.transfers[i], paid)
  BY <1>4, <1>5, <1>6, BookAfter
<1>9. 1..n + 1 = (1..n) \cup {n + 1} /\ n + 1 \notin 1..n
  BY <1>3
<1>10. /\ \A i \in 1..n : after[db.transfers[i].trace] = OrderIn(db.transfers[i], paid)
       /\ after[t] = OrderIn(row, paid)
  BY <1>4, <1>8, <1>9
<1>11. DOMAIN after = DOMAIN before \cup {t}
  <2>1. ASSUME NEW s \in DOMAIN before PROVE s \in DOMAIN after
    <3>1. PICK i \in 1..n : s = db.transfers[i].trace
      BY <1>7
    <3> QED
      BY <1>4, <1>8, <1>9, <3>1
  <2>2. t \in DOMAIN after
    BY <1>4, <1>8, <1>9
  <2>3. ASSUME NEW s \in DOMAIN after, s # t PROVE s \in DOMAIN before
    <3>1. PICK i \in 1..n + 1 : s = db'.transfers[i].trace
      BY <1>8
    <3>2. i \in 1..n
      BY <1>4, <1>9, <2>3, <3>1
    <3> QED
      BY <1>4, <1>7, <3>1, <3>2
  <2> QED
    BY <2>1, <2>2, <2>3
<1>12. t \notin DOMAIN before
  BY <1>2, <1>3, <1>7 DEF HasTrace
<1>13. \A s \in DOMAIN before : after[s] = before[s]
  BY <1>7, <1>10
<1>14. t \notin paid
  BY <1>0, <1>2, <1>6 DEF PaidAsAssigned, HasTrace
<1>15. after[t] = OrderIn(row, paid)
  BY <1>10
<1>16. /\ after[t].state = "accepted" /\ after[t].account = row.account
       /\ after[t] \in P!Order /\ row.account \in Accounts
  BY <1>2, <1>14, <1>15 DEF OrderIn, P!Order, P!Accounts, Accounts, Transfer
<1>17. UNCHANGED Worths
  BY <1>1, StillAsRich
<1>18. P!Owed(after, row.account) <= Worths[row.account]
  <2>1. PICK a \in Accounts : a = row.account
    BY <1>16
  <2>2. P!Owed(after, a) <= Balance(a)'
    BY <1>5, OwedAfter
  <2>3. Balance(a)' = Worths'[a]
    BY DEF Worths
  <2> QED
    BY <1>17, <2>1, <2>2, <2>3
<1> QED
  BY <1>5, <1>11, <1>12, <1>13, <1>16, <1>17, <1>18, AcceptsOne

\* A transfer is paid: its range, to the last unit.
LEMMA PaysIsPay ==
  ASSUME Inv, Inv', NEW w \in Cashiers, NEW k \in cashier[w].running, Pays(k)
  PROVE  P!Pay
<1>0. TypeOK /\ RowsOrdered /\ HandledIsPaid
  BY DEF Inv
<1>1. k.id \in DOMAIN db.transfers /\ TaskKnows(k)
  BY DEF Inv, CashiersKnow, TaskKnows
<1>2. PICK row : row = db.transfers[k.id]
  OBVIOUS
<1>3. k.pc = "spend" /\ Pay(row, k.outputs) /\ UNCHANGED <<utxos, db, saved>>
  BY <1>2 DEF Pays, claimVars, Row
<1>4. row.trace \notin DOMAIN payments /\ k.outputs \cap Spent = {}
      /\ row.amount <= Value(k.outputs)
  BY <1>3 DEF Pay, CanPay
<1>5. k.outputs = RangeOf(row)
  BY <1>0, <1>1, <1>2, <1>3, <1>4, SpendsRange DEF TaskKnows, Row
<1>6. row \in Transfer(OrderTraces)
  BY <1>0, <1>1, <1>2, Basics
<1>7. PICK before, after : before = Book /\ after = Book'
  OBVIOUS
<1>8. PICK paid : paid = DOMAIN payments /\ DOMAIN payments' = paid \cup {row.trace}
  BY <1>3, PayAdds
<1>9. PICK trs : trs = db.transfers /\ trs = db'.transfers
  BY <1>3
<1>10. /\ DOMAIN before = {trs[i].trace : i \in DOMAIN trs}
       /\ \A i \in DOMAIN trs : before[trs[i].trace] = OrderIn(trs[i], paid)
  BY <1>7, <1>8, <1>9, BookBefore
<1>11. /\ DOMAIN after = {trs[i].trace : i \in DOMAIN trs}
       /\ \A i \in DOMAIN trs :
            after[trs[i].trace] = OrderIn(trs[i], paid \cup {row.trace})
  BY <1>7, <1>8, <1>9, BookAfter
<1>12. PICK t \in DOMAIN before : t = row.trace
  BY <1>1, <1>2, <1>9, <1>10
<1>13. /\ before[t] = OrderIn(row, paid) /\ after[t] = OrderIn(row, paid \cup {t})
       /\ row.status # "handled" /\ t \notin paid
  BY <1>0, <1>1, <1>2, <1>4, <1>8, <1>9, <1>10, <1>11, <1>12 DEF HandledIsPaid
<1>14. /\ before[t].state = "accepted" /\ before[t].account = row.account
       /\ before[t].amount = row.amount /\ before[t].opponent = row.opponent
       /\ after[t] = [before[t] EXCEPT !.state = "paid"]
  <2>1. OrderIn(row, paid) =
          [account |-> row.account, amount |-> row.amount, opponent |-> row.opponent,
           state |-> "accepted"]
    BY <1>12, <1>13 DEF OrderIn
  <2>2. OrderIn(row, paid \cup {t}) =
          [account |-> row.account, amount |-> row.amount, opponent |-> row.opponent,
           state |-> "paid"]
    BY <1>12, <1>13 DEF OrderIn
  <2> QED
    BY <1>13, <2>1, <2>2
<1>15. ASSUME NEW s \in DOMAIN before, s # t PROVE after[s] = before[s]
  <2>1. PICK i \in DOMAIN trs : s = trs[i].trace
    BY <1>10
  <2>2. OrderIn(trs[i], paid \cup {t}) = OrderIn(trs[i], paid)
    BY <1>15, <2>1 DEF OrderIn
  <2> QED
    BY <1>10, <1>11, <1>12, <2>1, <2>2
<1>16. after = [before EXCEPT ![t].state = "paid"]
  <2>1. /\ before = [s \in DOMAIN before |-> before[s]]
        /\ after = [s \in DOMAIN after |-> after[s]]
    BY <1>7 DEF Book
  <2>2. DOMAIN after = DOMAIN before
    BY <1>10, <1>11
  <2> QED
    BY <1>14, <1>15, <2>1, <2>2
<1>17. Worths' = [a \in Accounts |->
         (Worths[a] + (IF a = <<row.opponent, row.account[2]>> THEN row.amount ELSE 0))
           - (IF a = row.account THEN row.amount ELSE 0)]
  <2>1. Pay(row, RangeOf(row))
    BY <1>3, <1>5
  <2>2. ASSUME NEW a \in Accounts
        PROVE  Balance(a)' = (Balance(a) + (IF a = <<row.opponent, row.account[2]>>
                                              THEN row.amount ELSE 0))
                               - (IF a = row.account THEN row.amount ELSE 0)
    BY <1>1, <1>2, <1>3, <2>1, PayMoves
  <2> QED
    BY <2>2 DEF Worths
<1>18. /\ t \in DOMAIN Book /\ Book[t].state = "accepted"
       /\ Book' = [Book EXCEPT ![t].state = "paid"]
  BY <1>7, <1>14, <1>16
<1>19. Worths' = [a \in Accounts |->
         (Worths[a] + (IF a = <<Book[t].opponent, Book[t].account[2]>>
                         THEN Book[t].amount ELSE 0))
           - (IF a = Book[t].account THEN Book[t].amount ELSE 0)]
  BY <1>7, <1>14, <1>17
<1> QED
  BY <1>18, <1>19, PaysOne

\* A transfer is marked: it was paid.
LEMMA HandlesIsReport ==
  ASSUME Inv, Inv', NEW w \in Cashiers, NEW k \in cashier[w].running, Handles(k)
  PROVE  P!Report
<1>0. TypeOK /\ RowsOrdered
  BY DEF Inv
<1>1. k.id \in DOMAIN db.transfers /\ TaskKnows(k)
  BY DEF Inv, CashiersKnow, TaskKnows
<1>2. PICK id : id = k.id
  OBVIOUS
<1>3. /\ db.transfers[id].trace \in DOMAIN payments /\ MarkHandled(id)
      /\ UNCHANGED <<utxos, payments>>
  BY <1>1, <1>2 DEF Handles, Handle, TaskKnows, Row
<1>4. PICK paid : paid = DOMAIN payments /\ paid = DOMAIN payments'
  BY <1>3
<1>5. PICK before, after : before = Book /\ after = Book'
  OBVIOUS
<1>6. PICK old, new : old = db.transfers /\ new = db'.transfers
  OBVIOUS
<1>7. /\ new = [old EXCEPT ![id] = [old[id] EXCEPT !.status = "handled"]]
      /\ DOMAIN new = DOMAIN old /\ old[id].status = "assigned"
      /\ \A j \in DOMAIN old : j # id => new[j] = old[j]
  BY <1>0, <1>1, <1>2, <1>3, <1>6, HandleMarks DEF MarkHandled
<1>8. old[id] \in Transfer(OrderTraces) /\ id \in DOMAIN old
  BY <1>0, <1>1, <1>2, <1>6, Basics
<1>9. /\ DOMAIN before = {old[i].trace : i \in DOMAIN old}
      /\ \A i \in DOMAIN old : before[old[i].trace] = OrderIn(old[i], paid)
  BY <1>4, <1>5, <1>6, BookBefore
<1>10. /\ DOMAIN after = {new[i].trace : i \in DOMAIN new}
       /\ \A i \in DOMAIN new : after[new[i].trace] = OrderIn(new[i], paid)
  BY <1>4, <1>5, <1>6, BookAfter
<1>11. PICK row : row = new[id]
  OBVIOUS
<1>12. /\ row.trace = old[id].trace /\ row.account = old[id].account
       /\ row.amount = old[id].amount /\ row.opponent = old[id].opponent
       /\ row.status = "handled"
  BY <1>7, <1>8, <1>11 DEF Transfer
<1>13. PICK t \in DOMAIN before : t = old[id].trace
  BY <1>8, <1>9
<1>14. /\ before[t] = OrderIn(old[id], paid) /\ after[t] = OrderIn(row, paid)
       /\ t \in paid
  BY <1>3, <1>4, <1>6, <1>7, <1>8, <1>9, <1>10, <1>11, <1>12, <1>13
<1>15. before[t].state = "paid" /\ after[t] = [before[t] EXCEPT !.state = "handled"]
  BY <1>7, <1>12, <1>13, <1>14 DEF OrderIn
<1>16. DOMAIN after = DOMAIN before
  BY <1>7, <1>8, <1>9, <1>10, <1>11, <1>12
<1>17. ASSUME NEW s \in DOMAIN before, s # t PROVE after[s] = before[s]
  <2>1. PICK i \in DOMAIN old : s = old[i].trace
    BY <1>9
  <2>2. new[i] = old[i] /\ i \in DOMAIN new
    BY <1>7, <1>13, <1>17, <2>1
  <2> QED
    BY <1>9, <1>10, <2>1, <2>2
<1>18. after = [before EXCEPT ![t].state = "handled"]
  <2>1. /\ before = [s \in DOMAIN before |-> before[s]]
        /\ after = [s \in DOMAIN after |-> after[s]]
    BY <1>5 DEF Book
  <2> QED
    BY <1>15, <1>16, <1>17, <2>1
<1>19. UNCHANGED Worths
  BY <1>3, StillAsRich
<1> QED
  BY <1>5, <1>13, <1>15, <1>18, <1>19, ReportsOne

\* What the network lists makes no account poorer.
LEMMA ListsIsReceive ==
  ASSUME Inv, Grows, NetworkNext, Lists PROVE P!Receive
<1>1. UNCHANGED Book
  BY BookStays DEF Lists, Extend
<1>2. ASSUME NEW a \in Accounts PROVE Balance(a)' >= Balance(a)
  <2>1. ASSUME NEW t \in DOMAIN payments, Settle(t) PROVE Balance(a)' >= Balance(a)
    <3>1. Balance(a)' = Balance(a)
      BY <2>1, SettleMoves
    <3>2. Balance(a) \in Int
      <4>1. PICK v, d : v = Value(Purse(a)) /\ d = SumOver(Dues(a), Unlisted)
        OBVIOUS
      <4>2. Balance(a) = v + d
        BY <4>1, BalanceIsSum
      <4>3. v \in Nat /\ d \in Nat
        BY <4>1, SumType DEF Value, Total
      <4> QED
        BY <4>2, <4>3
    <3> QED
      BY <3>1, <3>2
  <2>2. ASSUME NEW u \in Arrivals, Deposit(u) PROVE Balance(a)' >= Balance(a)
    BY <2>2, DepositAdds
  <2> QED
    BY <2>1, <2>2 DEF NetworkNext
<1>3. \A a \in Accounts : Worths'[a] >= Worths[a]
  BY <1>2 DEF Worths
<1> QED
  BY <1>1, <1>3, Receives

\* Every step is one of a wallet without outputs, ranges and offsets, or none.
LEMMA StepIsPayment ==
  ASSUME Inv, Inv', [Next]_vars PROVE [P!PaymentNext]_(P!paymentVars)
<1>0. TypeOK /\ Grows
  BY StepGrows DEF Inv
<1>1. CASE Reads
  BY <1>1, StillAsRich, BookStays, ShowsNothing DEF Reads
<1>2. CASE NetworkNext /\ Lists
  BY <1>0, <1>2, ListsIsReceive DEF P!PaymentNext
<1>3. ASSUME NEW o \in Orders, Order(o), UNCHANGED payments PROVE P!PaymentNext
  BY <1>3, OrderAccepts DEF P!PaymentNext
<1>4. ASSUME NEW w \in Syncers, Saves(w) PROVE UNCHANGED P!paymentVars
  <2>1. db'.transfers = db.transfers /\ UNCHANGED <<utxos, payments>>
    BY <1>0, <1>4 DEF Saves, SaveOutputs, TypeOK, Tables
  <2> QED
    BY <2>1, StillAsRich, BookStays, ShowsNothing
<1>5. ASSUME NEW w \in Cleaners, Deletes(w) PROVE UNCHANGED P!paymentVars
  <2>1. db'.transfers = db.transfers /\ UNCHANGED <<utxos, payments>>
    BY <1>0, <1>5 DEF Deletes, DeleteOutput, TypeOK, Tables
  <2> QED
    BY <2>1, StillAsRich, BookStays, ShowsNothing
<1>6. ASSUME NEW w \in Cashiers, NEW k \in cashier[w].running, Pays(k) PROVE P!PaymentNext
  BY <1>6, PaysIsPay DEF P!PaymentNext
<1>7. ASSUME NEW w \in Cashiers, NEW k \in cashier[w].running, Handles(k)
      PROVE  P!PaymentNext
  BY <1>7, HandlesIsReport DEF P!PaymentNext
<1> QED
  BY <1>0, <1>1, <1>2, <1>3, <1>4, <1>5, <1>6, <1>7, Steps

\* The accounts have what the network lists for them, and there is no order.
LEMMA InitIsPayment == ASSUME Init PROVE P!PaymentInit
<1>1. Worths \in [Accounts -> Nat]
  <2>1. ASSUME NEW a \in Accounts PROVE Balance(a) \in Nat
    <3>1. PICK v, d : v = Value(Purse(a)) /\ d = SumOver(Dues(a), Unlisted)
      OBVIOUS
    <3>2. Balance(a) = v + d
      BY <3>1, BalanceIsSum
    <3>3. v \in Nat /\ d \in Nat
      BY <3>1, SumType DEF Value, Total
    <3> QED
      BY <3>2, <3>3
  <2> QED
    BY <2>1 DEF Worths
<1>2. Book = << >>
  <2>1. DOMAIN db.transfers = {}
    BY DEF Init, EmptyDb
  <2>2. {db.transfers[i].trace : i \in DOMAIN db.transfers} = {}
    BY <2>1
  <2>3. Book \in [1..0 -> {}]
    BY <2>2 DEF Book
  <2>4. Book \in Seq({})
    BY <2>3, SeqDef
  <2>5. DOMAIN Book = {}
    BY <2>3
  <2> HIDE DEF Book
  <2> QED
    BY <2>4, <2>5, LenProperties, EmptySeq
<1> QED
  BY <1>1, <1>2, Begin

\* Settlement implements Payments, whatever the tables, the workers, the network and
\* its failures do: an order is accepted only if its account can pay it beside all
\* others, is paid once, to the last unit, and reported handled after that; apart
\* from payments no account ever becomes poorer.
THEOREM ImplementsPayments == Spec => PaymentSpec
<1>1. Init => P!PaymentInit
  BY InitIsPayment
<1>2. Inv /\ Inv' /\ [Next]_vars => [P!PaymentNext]_(P!paymentVars)
  BY StepIsPayment
<1> QED
  BY <1>1, <1>2, Invariance, PTL DEF Spec, PaymentSpec, P!PaymentSpec
=============================================================================
