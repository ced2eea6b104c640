----------------------------- MODULE Assignment -----------------------------
(***************************************************************************)
(* How unspent outputs are given to transfers: the CreateTransfer handlers *)
(* of the servers and the mergeOutputs of the cleaners compete for the     *)
(* outputs of an account over one database, without a lock.                *)
(*                                                                         *)
(* The rest of the wallet is an environment that may do whatever Claims    *)
(* allows the syncer, the cleaner's deletion and the cashier: save outputs *)
(* in sequence order, again or for the first time, delete outputs that are *)
(* assigned, and mark transfers handled.                                   *)
(***************************************************************************)
EXTENDS CreateTransfer, MergeOutputs, Claims

CONSTANTS
  Genesis,      \* what the network lists for the wallet at the start
  Arrivals,     \* lists of outputs that may be listed together later
  MaxOutputs    \* bound: outputs the network ever lists

ASSUME GenesisIsListed ==
  /\ Genesis \in Seq(Utxo)
  /\ Arrivals \subseteq Seq(Utxo)
  /\ MaxOutputs \in Nat

vars == <<utxos, db, handler, replica, acked, merger, saved>>

MergeTraces == {"merge"} \X Nat \X Nat

Traces == ClientTraces \cup MergeTraces \cup AutoTraces

Init ==
  /\ utxos = Genesis
  /\ db = EmptyDb
  /\ saved = {}
  /\ RpcInit
  /\ MergeInit

-----------------------------------------------------------------------------
(* The environment.                                                        *)

\* The network lists more outputs: a deposit, or those of a transaction.
Arrive(more) ==
  /\ Len(utxos) + Len(more) <= MaxOutputs
  /\ utxos' = utxos \o more
  /\ UNCHANGED <<db, saved>>

Environment ==
  /\ \/ \E more \in Arrivals : Arrive(more)
     \/ \E S \in SUBSET (1..Len(utxos)) : Save(S)
     \/ \E s \in db.outputs : Delete(s)
     \/ \E i \in DOMAIN db.transfers : Handle(i)
  /\ UNCHANGED <<handler, replica, acked, merger>>

Next ==
  \/ RpcNext /\ UNCHANGED <<merger, saved>>
  \/ MergeNext /\ UNCHANGED <<handler, replica, acked, saved>>
  \/ Environment

Spec == Init /\ [][Next]_vars

\* A running handler keeps running: its process is scheduled and its queries
\* end, with a result or an error.
Fairness == \A h \in Handlers : WF_vars(Serve(h) /\ UNCHANGED <<merger, saved>>)

FairSpec == Spec /\ Fairness

-----------------------------------------------------------------------------
(* Properties.                                                             *)

TypeOK ==
  /\ utxos \in Seq(Utxo)
  /\ saved \subseteq 1..Len(utxos)
  /\ db \in Tables(Traces)
  /\ db.outputs \subseteq saved
  /\ replica \in [Replicas -> Tables(Traces)]
  /\ HandlerType
  /\ MergerType
  /\ acked \subseteq ClientTraces

\* The range of a transfer pays for it in one transaction: exactly, if it is a
\* merge.
Pays(row) ==
  /\ Covers(row)
  /\ row.trace \notin ClientTraces => row.amount = Value(RangeOf(row))

\* The cashier spends the outputs it finds in the range later on, not the ones
\* that were listed: they still pay for the transfer.
RangePays == \A i \in DOMAIN db.transfers : Pays(db.transfers[i])

\* The transfer is what a request of its trace asked for; one that nobody asked
\* for is a merge, which goes to the user whose outputs it merges.
AsRequested(row) ==
  IF row.trace \in ClientTraces
    THEN \E r \in Requests :
           /\ r.trace = row.trace
           /\ row.account = Account(r)
           /\ row.amount = r.amount
           /\ row.opponent = r.opponent
    ELSE row.opponent = row.account[1]

\* However often and wherever a request is sent, its trace has one transfer,
\* and the transfer is what a request of that trace asked for.
OnceAsRequested ==
  \A i \in DOMAIN db.transfers :
    /\ AsRequested(db.transfers[i])
    /\ \A j \in DOMAIN db.transfers :
         db.transfers[j].trace = db.transfers[i].trace => i = j

\* A request that was answered without an error has its transfer, whichever
\* replica, call in flight or commit the answer came from.
AckDurable == \A t \in acked : HasTrace(db, t)

\* Every request is answered or cut off by a crash: a handler that joined the
\* call of another is never left waiting for it.
EveryRequestEnds ==
  \A h \in Handlers : handler[h].pc # "idle" ~> handler[h].pc = "idle"

\* config.yaml's rpc.blocked_assets are not transferred on request.
BlockedAssetsStay ==
  \A i \in DOMAIN db.transfers :
    db.transfers[i].trace \in ClientTraces =>
      db.transfers[i].account[2] \notin ConfiguredBlocked
=============================================================================
