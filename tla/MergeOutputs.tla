---------------------------- MODULE MergeOutputs ----------------------------
(***************************************************************************)
(* The cleaner's mergeOutputs: for every account with more than Capacity   *)
(* unassigned outputs, assign the first Limit of them to a transfer to the *)
(* account's own user.  Several workers may run at once; each of them only *)
(* talks to the primary database.                                          *)
(***************************************************************************)
EXTENDS Ledger

CONSTANTS
  Cleaners,     \* worker processes that run the cleaner
  Capacity,     \* outputs an account may have before it is merged
  AutoIds       \* random uuids (uuid.NewString): as many merges as a run has

ASSUME CapacityIsNat == Capacity \in Nat

AutoTraces == {"auto"} \X AutoIds

VARIABLE merger   \* the local state of every cleaner

Balance == [account : Accounts, amount : Nat, count : Nat]

\* todo: the balances the loop has yet to visit; balance: the one it is at,
\* none between two rounds of the loop.
Merger ==
  [pc : {"loop", "list", "assign"}, todo : SUBSET Balance,
   balance : SUBSET Balance, offset : Nat, outputs : SUBSET Nat]

MergerType ==
  /\ merger \in [Cleaners -> Merger]
  /\ \A c \in Cleaners :
       merger[c].pc # "loop" =>
         \E b \in merger[c].balance : merger[c].balance = {b}

Looping(todo) ==
  [pc |-> "loop", todo |-> todo, balance |-> {}, offset |-> 0, outputs |-> {}]

MergeInit == merger = [c \in Cleaners |-> Looping({})]

-----------------------------------------------------------------------------

\* outputs.SumBalances (the scan may stop early) finds balances to merge: the
\* loop skips those that fit the capacity.
SumAll(c) ==
  /\ merger[c] = Looping({})
  /\ \E found \in SUBSET SumBalances(db) :
       /\ \E b \in found : b.count > Capacity
       /\ merger' = [merger EXCEPT ![c] =
                       Looping({b \in found : b.count > Capacity})]
  /\ UNCHANGED <<utxos, db>>

\* transfers.GetAssignOffset for the next balance.
ReadOffset(c) ==
  /\ merger[c].pc = "loop"
  /\ \E b \in merger[c].todo :
       merger' = [merger EXCEPT
         ![c] = [Looping(merger[c].todo \ {b}) EXCEPT
                   !.pc = "list", !.balance = {b},
                   !.offset = db.assigns[b.account]]]
  /\ UNCHANGED <<utxos, db>>

\* outputs.ListTarget of the whole balance: fewer than Limit are left alone.
ListMerge(c) ==
  /\ merger[c].pc = "list"
  /\ \E b \in merger[c].balance :
     \E S \in Scans(ListTarget(db, b.account, merger[c].offset, b.amount, Limit)) :
       merger' = [merger EXCEPT ![c] =
         IF Cardinality(S) < Limit
           THEN Looping(merger[c].todo)
           ELSE [merger[c] EXCEPT !.pc = "assign", !.outputs = S]]
  /\ UNCHANGED <<utxos, db>>

\* transfers.Assign; an error ends the round, though it may have committed.
AssignAuto(c) ==
  /\ merger[c].pc = "assign"
  /\ \E b \in merger[c].balance, trace \in AutoTraces,
        from, to \in merger[c].outputs :
       LET row == MergeOf(trace, b.account, merger[c].outputs, from, to) IN
       /\ Spans(merger[c].outputs, from, to)
       /\ ~HasTrace(db, trace)
       /\ \/ /\ Assign(row, merger[c].offset)
             /\ \E todo \in {merger[c].todo, {}} :
                  merger' = [merger EXCEPT ![c] = Looping(todo)]
          \/ /\ AssignFails(row, merger[c].offset)
             /\ merger' = [merger EXCEPT ![c] = Looping({})]
  /\ UNCHANGED utxos

\* A query fails, Begin panics, or the worker is stopped or crashes.
AbortMerge(c) ==
  /\ merger[c] # Looping({})
  /\ merger' = [merger EXCEPT ![c] = Looping({})]
  /\ UNCHANGED <<utxos, db>>

MergeStep(c) ==
  \/ SumAll(c)
  \/ ReadOffset(c)
  \/ ListMerge(c)
  \/ AssignAuto(c)
  \/ AbortMerge(c)

MergeNext == \E c \in Cleaners : MergeStep(c)
=============================================================================
