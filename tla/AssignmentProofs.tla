-------------------------- MODULE AssignmentProofs --------------------------
(***************************************************************************)
(* The types and the safety of Assignment, for every set of servers,       *)
(* handlers, replicas, cleaners, requests and outputs.                     *)
(*                                                                         *)
(* Whoever assigns, with however stale a list, a transaction that commits  *)
(* grants its transfer exactly the next outputs of the account (Grant):    *)
(* the offset it read is still the account's, so nothing of the list has   *)
(* been assigned since, and the list misses nothing in its range (Claim).  *)
(* The properties of the transfers follow from that alone.                 *)
(***************************************************************************)
EXTENDS Assignment, ClaimsProofs

-----------------------------------------------------------------------------
(* Types of what the actions write.                                        *)

\* The worth of outputs is a natural number.
LEMMA ValueType == ASSUME NEW S PROVE Value(S) \in Nat
  BY DEF Value, Total

\* A request names an account.
LEMMA AccountType ==
  ASSUME NEW r \in Requests PROVE Account(r) \in Accounts
  BY RequestsAreRequests DEF Account, Accounts, Request

\* The row of a request is a transfer.
LEMMA TransferOfType ==
  ASSUME NEW r \in Requests, NEW from \in Nat, NEW to \in Nat
  PROVE  TransferOf(r, from, to) \in Transfer(Traces)
<1>1. Account(r) \in Accounts
  BY AccountType
<1> QED
  BY <1>1, RequestsAreRequests
  DEF TransferOf, Transfer, Traces, Request, Status

\* The row of a merge is a transfer.
LEMMA MergeOfType ==
  ASSUME NEW trace \in MergeTraces \cup AutoTraces, NEW a \in Accounts, NEW S,
         NEW from \in Nat, NEW to \in Nat
  PROVE  MergeOf(trace, a, S, from, to) \in Transfer(Traces)
<1>1. Value(S) \in Nat
  BY ValueType
<1>2. a[1] \in Opponents
  BY UsersAreOpponents DEF Accounts
<1> QED
  BY <1>1, <1>2 DEF MergeOf, Transfer, Traces, Status

\* The tables stay tables when a transfer is assigned.
LEMMA AssignType ==
  ASSUME NEW row \in Transfer(Traces), NEW previousOffset,
         db \in Tables(Traces), Assign(row, previousOffset)
  PROVE  db' \in Tables(Traces) /\ db'.outputs = db.outputs
<1>1. /\ row.account \in Accounts /\ row.to \in Nat
  BY DEF Transfer
<1>2. [db.assigns EXCEPT ![row.account] = row.to] \in [Accounts -> Nat]
  BY <1>1 DEF Tables
<1>3. Append(db.transfers, row) \in Seq(Transfer(Traces))
  BY AppendProperties DEF Tables
<1> QED
  BY <1>2, <1>3 DEF Assign, Tables

\* They stay tables when a transfer is handled.
LEMMA MarkHandledType ==
  ASSUME NEW i \in DOMAIN db.transfers, db \in Tables(Traces), MarkHandled(i)
  PROVE  db' \in Tables(Traces) /\ db'.outputs = db.outputs
<1> DEFINE row == [db.transfers[i] EXCEPT !.status = "handled"]
<1>1. db.transfers \in Seq(Transfer(Traces))
  BY DEF Tables
<1>2. row \in Transfer(Traces)
  <2>1. db.transfers[i] \in Transfer(Traces)
    BY <1>1, ElementOfSeq, LenProperties
  <2> QED
    BY <2>1 DEF Transfer, Status
<1>3. [db.transfers EXCEPT ![i] = row] \in Seq(Transfer(Traces))
  BY <1>1, <1>2, ExceptSeq, LenProperties
<1> QED
  BY <1>3 DEF MarkHandled, Tables

\* A call that returns leaves handlers behind, whoever waited for it.
LEMMA ReturnType ==
  ASSUME NEW h \in Handlers, NEW ok \in BOOLEAN, HandlerType,
         handler[h].pc # "idle", Return(h, ok)
  PROVE  HandlerType'
<1>1. ASSUME NEW g \in Handlers
      PROVE  /\ handler'[g] \in Handler
             /\ handler'[g].pc # "idle" => handler'[g].req \in Requests
  <2>1. CASE g \in {h} \cup Followers(h)
    <3>1. handler[g].req \in Requests
      BY <2>1 DEF Followers, HandlerType
    <3> QED
      BY <2>1, <3>1 DEF Return, Handler, Idle
  <2>2. CASE g \notin {h} \cup Followers(h)
    BY <2>2 DEF Return, HandlerType
  <2> QED
    BY <2>1, <2>2
<1> QED
  BY <1>1 DEF Return, HandlerType

\* What a query is answered from is a state of the tables.
LEMMA SnapshotsType ==
  ASSUME NEW d \in Snapshots, TypeOK PROVE d \in Tables(Traces)
  BY DEF Snapshots, TypeOK

-----------------------------------------------------------------------------
(* Type correctness.                                                       *)

\* The empty tables and idle processes have their types.
LEMMA TypeInit == Init => TypeOK
<1> SUFFICES ASSUME Init PROVE TypeOK
  OBVIOUS
<1>1. EmptyDb \in Tables(Traces) /\ EmptyDb.outputs = {}
  BY EmptySeq DEF EmptyDb, Tables
<1>2. HandlerType
  BY DEF Init, RpcInit, HandlerType, Handler, Idle
<1>3. MergerType
  BY DEF Init, MergeInit, MergerType, Merger, Looping
<1> QED
  BY <1>1, <1>2, <1>3, GenesisIsListed DEF Init, RpcInit, TypeOK

\* A step of the servers that leaves the tables alone.
LEMMA TypeRead ==
  ASSUME TypeOK, HandlerType', acked' = acked,
         UNCHANGED <<utxos, db, replica>>, UNCHANGED <<merger, saved>>
  PROVE  TypeOK'
  BY DEF TypeOK, MergerType

\* A step that replaces the tables and touches no output.
LEMMA TypeWrite ==
  ASSUME TypeOK, db' \in Tables(Traces), db'.outputs = db.outputs,
         HandlerType', MergerType',
         UNCHANGED <<utxos, replica, acked, saved>>
  PROVE  TypeOK'
  BY DEF TypeOK

\* Every step of a handler, a server or a replica keeps the types.
LEMMA TypeRpc ==
  ASSUME TypeOK, RpcNext, UNCHANGED <<merger, saved>> PROVE TypeOK'
<1> USE DEF HandlerType
<1>0. HandlerType
  BY DEF TypeOK
<1>1. ASSUME NEW h \in Handlers, NEW r \in Requests, Receive(h, r) PROVE TypeOK'
  <2>1. HandlerType'
    BY <1>0, <1>1 DEF Receive, Handler, Idle, Running
  <2> QED
    BY <1>1, <2>1, TypeRead DEF Receive
<1>2. ASSUME NEW h \in Handlers, FindTrace(h) PROVE TypeOK'
  <2>1. CASE Return(h, TRUE)
    BY <1>0, <1>2, <2>1, ReturnType, TypeRead DEF FindTrace
  <2>2. CASE handler' = [handler EXCEPT ![h].pc = "offset"]
    <3>1. HandlerType'
      BY <1>0, <1>2, <2>2 DEF FindTrace, Handler, Running
    <3> QED
      BY <1>2, <3>1, TypeRead DEF FindTrace
  <2> QED
    BY <1>2, <2>1, <2>2 DEF FindTrace
<1>3. ASSUME NEW h \in Handlers, GetAssignOffset(h) PROVE TypeOK'
  <2>1. handler[h].req \in Requests
    BY <1>0, <1>3 DEF GetAssignOffset
  <2>2. PICK d \in Snapshots :
          handler' = [handler EXCEPT ![h].pc = "list",
                        ![h].offset = d.assigns[Account(handler[h].req)]]
    BY <1>3 DEF GetAssignOffset
  <2>3. d.assigns[Account(handler[h].req)] \in Nat
    BY <2>1, SnapshotsType, AccountType DEF Tables
  <2>4. HandlerType'
    BY <1>0, <2>1, <2>2, <2>3 DEF Handler, Running
  <2> QED
    BY <1>3, <2>4, TypeRead DEF GetAssignOffset
<1>4. ASSUME NEW h \in Handlers, ListOutputs(h) PROVE TypeOK'
  <2> DEFINE Listed(d) == ListTarget(d, Account(handler[h].req),
                 handler[h].offset, handler[h].req.amount, Limit)
             Goes(S) == \/ handler' = [handler EXCEPT ![h].pc = "assign",
                                                     ![h].outputs = S]
                        \/ handler' = [handler EXCEPT ![h].pc = "merge",
                                                     ![h].outputs = S]
                        \/ Return(h, FALSE)
  <2>0. PICK d \in Snapshots : \E S \in Scans(Listed(d)) : Goes(S)
    BY <1>4 DEF ListOutputs
  <2>1. PICK S \in Scans(Listed(d)) : Goes(S)
    BY <2>0
  <2>2. S \in SUBSET Nat
    BY SnapshotsType DEF Scans, ListTarget, OutputsAbove, Tables
  <2>3. handler[h].pc = "list"
    BY <1>4 DEF ListOutputs
  <2>4. HandlerType'
    <3>1. CASE Return(h, FALSE)
      BY <1>0, <2>3, <3>1, ReturnType
    <3>2. CASE handler' = [handler EXCEPT ![h].pc = "assign", ![h].outputs = S]
      BY <1>0, <2>2, <2>3, <3>2 DEF Handler, Running
    <3>3. CASE handler' = [handler EXCEPT ![h].pc = "merge", ![h].outputs = S]
      BY <1>0, <2>2, <2>3, <3>3 DEF Handler, Running
    <3> QED
      BY <2>1, <3>1, <3>2, <3>3
  <2> QED
    BY <1>4, <2>4, TypeRead DEF ListOutputs
<1>5. ASSUME NEW h \in Handlers, AssignTransfer(h) PROVE TypeOK'
  <2>1. PICK from \in handler[h].outputs, to \in handler[h].outputs :
          LET row == TransferOf(handler[h].req, from, to) IN
          \/ /\ Assign(row, handler[h].offset)
             /\ \E ok \in BOOLEAN : Return(h, ok)
          \/ UNCHANGED db /\ Return(h, FALSE)
    BY <1>5 DEF AssignTransfer, AssignFails
  <2>2. handler[h].req \in Requests /\ from \in Nat /\ to \in Nat
    BY <1>0, <1>5 DEF AssignTransfer, Handler
  <2>3. db' \in Tables(Traces) /\ db'.outputs = db.outputs
    BY <2>1, <2>2, TransferOfType, AssignType DEF TypeOK
  <2>4. HandlerType'
    BY <1>0, <1>5, <2>1, ReturnType DEF AssignTransfer
  <2> QED
    BY <1>5, <2>3, <2>4, TypeWrite DEF AssignTransfer, TypeOK, MergerType
<1>6. ASSUME NEW h \in Handlers, AssignMerge(h) PROVE TypeOK'
  <2>1. PICK from \in handler[h].outputs, to \in handler[h].outputs :
          \/ Assign(MergeOf(MergeTrace(from, to), Account(handler[h].req),
                            handler[h].outputs, from, to), handler[h].offset)
          \/ UNCHANGED db
    BY <1>6 DEF AssignMerge, AssignFails
  <2>2. handler[h].req \in Requests /\ from \in Nat /\ to \in Nat
    BY <1>0, <1>6 DEF AssignMerge, Handler
  <2>3. MergeTrace(from, to) \in MergeTraces
    BY <2>2 DEF MergeTrace, MergeTraces
  <2>4. db' \in Tables(Traces) /\ db'.outputs = db.outputs
    BY <2>1, <2>2, <2>3, AccountType, MergeOfType, AssignType DEF TypeOK
  <2>5. HandlerType'
    BY <1>0, <1>6, ReturnType DEF AssignMerge
  <2> QED
    BY <1>6, <2>4, <2>5, TypeWrite DEF AssignMerge, TypeOK, MergerType
<1>7. ASSUME NEW h \in Handlers, Abort(h) PROVE TypeOK'
  <2>1. handler[h].pc # "idle"
    BY <1>7 DEF Abort, Running
  <2> QED
    BY <1>0, <1>7, <2>1, ReturnType, TypeRead DEF Abort
<1>8. ASSUME NEW h \in Handlers, Respond(h) PROVE TypeOK'
  <2>1. handler[h].req.trace \in ClientTraces
    BY <1>0, <1>8, RequestsAreRequests DEF Respond, Request
  <2>2. HandlerType'
    BY <1>0, <1>8 DEF Respond, Handler, Idle
  <2> QED
    BY <1>8, <2>1, <2>2 DEF Respond, TypeOK, MergerType
<1>9. ASSUME NEW server \in Servers, Crash(server) PROVE TypeOK'
  <2>1. HandlerType'
    BY <1>0, <1>9 DEF Crash, Handler, Idle
  <2> QED
    BY <1>9, <2>1, TypeRead DEF Crash
<1>10. ASSUME NEW r \in Replicas, Replicate(r) PROVE TypeOK'
  BY <1>10 DEF Replicate, TypeOK, MergerType
<1> QED
  BY <1>1, <1>2, <1>3, <1>4, <1>5, <1>6, <1>7, <1>8, <1>9, <1>10
  DEF RpcNext, Serve

\* Every step of a cleaner keeps the types.
LEMMA TypeMerge ==
  ASSUME TypeOK, MergeNext, UNCHANGED <<handler, replica, acked, saved>>
  PROVE  TypeOK'
<1>0. MergerType
  BY DEF TypeOK
<1>1. PICK c \in Cleaners : MergeStep(c)
  BY DEF MergeNext
<1>2. CASE SumAll(c)
  <2>1. SumBalances(db) \subseteq Balance
    <3> SUFFICES ASSUME NEW b \in SumBalances(db) PROVE b \in Balance
      OBVIOUS
    <3>1. PICK a \in Accounts :
            b = [account |-> a,
                 amount |-> Value(OutputsAbove(db, a, db.assigns[a])),
                 count |-> Cardinality(OutputsAbove(db, a, db.assigns[a]))]
      BY DEF SumBalances
    <3>2. IsFiniteSet(OutputsAbove(db, a, db.assigns[a]))
      <4>1. Len(utxos) \in Nat
        BY LenProperties DEF TypeOK
      <4>2. OutputsAbove(db, a, db.assigns[a]) \subseteq 1..Len(utxos)
        BY DEF TypeOK, OutputsAbove
      <4> QED
        <5>1. IsFiniteSet(1..Len(utxos))
          BY <4>1, FS_Interval
        <5> QED
          BY <4>2, <5>1, FS_Subset
    <3> QED
      BY <3>1, <3>2, ValueType, FS_CardinalityType DEF Balance
  <2> QED
    BY <1>2, <2>1 DEF SumAll, TypeOK, HandlerType, MergerType, Merger, Looping
<1>3. CASE ReadOffset(c)
  <2>1. PICK b \in merger[c].todo :
          merger' = [merger EXCEPT
            ![c] = [Looping(merger[c].todo \ {b}) EXCEPT
                      !.pc = "list", !.balance = {b},
                      !.offset = db.assigns[b.account]]]
    BY <1>3 DEF ReadOffset
  <2>2. b \in Balance
    BY DEF TypeOK, MergerType, Merger
  <2>3. db.assigns[b.account] \in Nat
    BY <2>2 DEF TypeOK, Tables, Balance
  <2>4. MergerType'
    BY <2>1, <2>2, <2>3 DEF TypeOK, MergerType, Merger, Looping
  <2> QED
    BY <1>3, <2>4 DEF ReadOffset, TypeOK, HandlerType, MergerType
<1>4. CASE ListMerge(c)
  <2>0. PICK b \in merger[c].balance :
          \E S \in Scans(ListTarget(db, b.account, merger[c].offset,
                                   b.amount, Limit)) :
            merger' = [merger EXCEPT ![c] =
              IF Cardinality(S) < Limit
                THEN Looping(merger[c].todo)
                ELSE [merger[c] EXCEPT !.pc = "assign", !.outputs = S]]
    BY <1>4 DEF ListMerge
  <2>1. PICK S \in Scans(ListTarget(db, b.account, merger[c].offset,
                                   b.amount, Limit)) :
          merger' = [merger EXCEPT ![c] =
            IF Cardinality(S) < Limit
              THEN Looping(merger[c].todo)
              ELSE [merger[c] EXCEPT !.pc = "assign", !.outputs = S]]
    BY <2>0
  <2>2. S \in SUBSET Nat
    BY DEF Scans, ListTarget, OutputsAbove, Tables, TypeOK
  <2>3. /\ Looping(merger[c].todo) \in Merger
        /\ [merger[c] EXCEPT !.pc = "assign", !.outputs = S] \in Merger
    BY <2>2 DEF TypeOK, MergerType, Merger, Looping
  <2>4. MergerType'
    <3>1. /\ merger[c].pc = "list" /\ merger \in [Cleaners -> Merger]
          /\ \E one \in merger[c].balance : merger[c].balance = {one}
      BY <1>0, <1>4 DEF ListMerge, MergerType
    <3>2. /\ Looping(merger[c].todo).pc = "loop"
          /\ [merger[c] EXCEPT !.pc = "assign", !.outputs = S].balance
               = merger[c].balance
      BY <3>1 DEF Looping, Merger
    <3> QED
      BY <1>0, <2>1, <2>3, <3>1, <3>2 DEF MergerType
  <2> QED
    BY <1>4, <2>4 DEF ListMerge, TypeOK, HandlerType, MergerType
<1>5. CASE AssignAuto(c)
  <2>1. PICK b \in merger[c].balance, trace \in AutoTraces,
             from \in merger[c].outputs, to \in merger[c].outputs :
          \/ /\ Assign(MergeOf(trace, b.account, merger[c].outputs, from, to),
                       merger[c].offset)
             /\ \E todo \in {merger[c].todo, {}} :
                  merger' = [merger EXCEPT ![c] = Looping(todo)]
          \/ UNCHANGED db /\ merger' = [merger EXCEPT ![c] = Looping({})]
    BY <1>5 DEF AssignAuto, AssignFails
  <2>2. b.account \in Accounts /\ from \in Nat /\ to \in Nat
    <3>1. merger[c] \in Merger
      BY DEF TypeOK, MergerType
    <3> QED
      BY <2>1, <3>1 DEF Merger, Balance
  <2>3. db' \in Tables(Traces) /\ db'.outputs = db.outputs
    BY <2>1, <2>2, MergeOfType, AssignType DEF TypeOK
  <2>4. PICK todo \in {merger[c].todo, {}} :
          merger' = [merger EXCEPT ![c] = Looping(todo)]
    BY <2>1
  <2>5. MergerType'
    BY <2>4 DEF TypeOK, MergerType, Merger, Looping
  <2> QED
    BY <1>5, <2>3, <2>5, TypeWrite DEF AssignAuto, TypeOK, HandlerType
<1>6. CASE AbortMerge(c)
  BY <1>6 DEF AbortMerge, TypeOK, HandlerType, MergerType, Merger, Looping
<1> QED
  BY <1>1, <1>2, <1>3, <1>4, <1>5, <1>6 DEF MergeStep

\* Every step of the environment keeps the types.
LEMMA TypeEnvironment == ASSUME TypeOK, Environment PROVE TypeOK'
<1>0. UNCHANGED <<handler, replica, acked, merger>>
  BY DEF Environment
<1>1. ASSUME NEW out \in Arrivals, Arrive(out) PROVE TypeOK'
  <2>1. utxos' \in Seq(Utxo) /\ Len(utxos') = Len(utxos) + Len(out)
    BY <1>1, GenesisIsListed, ConcatProperties DEF Arrive, TypeOK
  <2>2. Len(utxos) \in Nat /\ Len(out) \in Nat
    BY GenesisIsListed, LenProperties DEF TypeOK
  <2>3. PICK old \in Nat, new \in Nat : old = Len(utxos) /\ new = Len(utxos') /\ old <= new
    BY <2>1, <2>2
  <2>4. 1..Len(utxos) \subseteq 1..Len(utxos')
    BY <2>3
  <2> QED
    BY <1>0, <1>1, <2>1, <2>4 DEF Arrive, TypeOK, HandlerType, MergerType
<1>2. ASSUME NEW S \in SUBSET (1..Len(utxos)), Save(S) PROVE TypeOK'
  <2>1. Len(utxos) \in Nat
    BY LenProperties DEF TypeOK
  <2>2. db' \in Tables(Traces) /\ db'.outputs = db.outputs \cup S
    <3>1. db \in Tables(Traces) /\ S \subseteq Nat
      BY <2>1 DEF TypeOK
    <3>2. db' = [db EXCEPT !.outputs = @ \cup S]
      BY <1>2 DEF Save, SaveOutputs
    <3> QED
      BY <3>1, <3>2 DEF Tables
  <2> QED
    BY <1>0, <1>2, <2>2 DEF Save, TypeOK, HandlerType, MergerType
<1>3. ASSUME NEW s \in db.outputs, Delete(s) PROVE TypeOK'
  BY <1>0, <1>3 DEF Delete, DeleteOutput, TypeOK, HandlerType, MergerType, Tables
<1>4. ASSUME NEW i \in DOMAIN db.transfers, Handle(i) PROVE TypeOK'
  BY <1>0, <1>4, MarkHandledType DEF Handle, TypeOK, HandlerType, MergerType
<1> QED
  BY <1>1, <1>2, <1>3, <1>4 DEF Environment

\* Every step of a server, a worker or the environment keeps the types.
LEMMA TypeStep == TypeOK /\ [Next]_vars => TypeOK'
<1> SUFFICES ASSUME TypeOK, [Next]_vars PROVE TypeOK'
  OBVIOUS
<1>1. CASE UNCHANGED vars
  BY <1>1 DEF vars, TypeOK, HandlerType, MergerType
<1> QED
  BY <1>1, TypeRpc, TypeMerge, TypeEnvironment DEF Next

\* Every variable keeps its type in every behaviour.
THEOREM TypeCorrect == Spec => []TypeOK
  BY TypeInit, TypeStep, PTL DEF Spec

-----------------------------------------------------------------------------
(* The inductive invariant.                                                *)

\* An output that is not in the table any more is assigned.
DbComplete ==
  \A s \in saved : s \in db.outputs \/ s <= db.assigns[utxos[s].account]

\* A replica knows no more than the primary, and what it misses is assigned or
\* newer than all it has.
Lags(d) ==
  /\ d.outputs \subseteq saved
  /\ \A a \in Accounts : d.assigns[a] <= db.assigns[a]
  /\ \A i \in DOMAIN d.transfers : HasTrace(db, d.transfers[i].trace)
  /\ \A s \in saved : \/ s \in d.outputs
                       \/ s <= db.assigns[utxos[s].account]
                       \/ \A p \in d.outputs : p < s

ReplicasLag == \A r \in Replicas : Lags(replica[r])

\* A list that is about to be assigned: the first outputs of the account above
\* the offset, except for such as were assigned since.
Claim(a, offset, S) ==
  /\ S \subseteq saved
  /\ Cardinality(S) <= Limit
  /\ \A s \in S : utxos[s].account = a /\ offset < s
  /\ \A s \in saved, p \in S :
       utxos[s].account = a /\ offset < s /\ s <= p
         => s \in S \/ s <= db.assigns[a]

\* The outputs are worth the amount, and those before the last one are not.
Suffices(S, amount) ==
  /\ amount <= Value(S)
  /\ \A to \in S : (\A s \in S : s <= to) => Value(S \ {to}) < amount

HandlerClaims ==
  \A h \in Handlers :
    /\ handler[h].pc \in {"assign", "merge"} =>
         Claim(Account(handler[h].req), handler[h].offset, handler[h].outputs)
    /\ handler[h].pc = "assign" =>
         Suffices(handler[h].outputs, handler[h].req.amount)

MergerClaims ==
  \A c \in Cleaners : merger[c].pc = "assign" =>
    \A b \in merger[c].balance :
      Claim(b.account, merger[c].offset, merger[c].outputs)

\* A range ends at an output that was saved.
RangesSaved == \A i \in DOMAIN db.transfers : db.transfers[i].to \in saved

Inv ==
  /\ TypeOK
  /\ DbComplete /\ ReplicasLag
  /\ HandlerClaims /\ MergerClaims
  /\ RangesSaved /\ RangePays /\ OnceAsRequested

\* What every assignment that commits amounts to: it grants a transfer that a
\* request asked for, or a merge.
Granted(row) ==
  /\ row \in Transfer(Traces) /\ row.amount # 0
  /\ AsRequested(row)
  /\ Pays(row)
  /\ Grant(row)

-----------------------------------------------------------------------------
(* Types that the proofs below use again and again.                        *)

\* The tables are sequences and functions of the declared rows.
LEMMA Basics ==
  ASSUME TypeOK
  PROVE  /\ Len(utxos) \in Nat /\ DOMAIN utxos = 1..Len(utxos)
         /\ saved \subseteq Nat
         /\ \A s \in saved : utxos[s].account \in Accounts
         /\ db.assigns \in [Accounts -> Nat]
         /\ db.outputs \subseteq saved
         /\ db.transfers \in Seq(Transfer(Traces))
         /\ DOMAIN db.transfers = 1..Len(db.transfers)
         /\ Len(db.transfers) \in Nat
         /\ \A i \in DOMAIN db.transfers : db.transfers[i] \in Transfer(Traces)
<1>1. utxos \in Seq(Utxo) /\ saved \subseteq 1..Len(utxos)
  BY DEF TypeOK
<1>2. Len(utxos) \in Nat /\ DOMAIN utxos = 1..Len(utxos)
  BY <1>1, LenProperties
<1>3. \A s \in saved : utxos[s] \in Utxo
  BY <1>1, ElementOfSeq
<1>4. db.transfers \in Seq(Transfer(Traces)) /\ db.assigns \in [Accounts -> Nat]
  BY DEF TypeOK, Tables
<1>5. DOMAIN db.transfers = 1..Len(db.transfers) /\ Len(db.transfers) \in Nat
  BY <1>4, LenProperties
<1>6. \A i \in DOMAIN db.transfers : db.transfers[i] \in Transfer(Traces)
  BY <1>4, <1>5, ElementOfSeq
<1> QED
  BY <1>1, <1>2, <1>3, <1>4, <1>5, <1>6 DEF TypeOK, Utxo

\* Outputs in a range are those of the list that was claimed for it, when the
\* offset has not moved.
LEMMA ClaimIsRange ==
  ASSUME TypeOK, NEW a, NEW offset, NEW S, Claim(a, offset, S),
         NEW row \in Transfer(Traces), row.account = a,
         Spans(S, row.from, row.to), db.assigns[a] = offset
  PROVE  RangeOf(row) = S
<1>1. S \subseteq Nat /\ saved \subseteq Nat
  BY Basics DEF Claim
<1>2. a \in Accounts /\ offset \in Nat
  BY Basics DEF Transfer
<1>3. ASSUME NEW s \in S PROVE s \in RangeOf(row)
  BY <1>3 DEF Claim, Spans, RangeOf
<1>4. ASSUME NEW s \in RangeOf(row) PROVE s \in S
  <2>1. s \in saved /\ utxos[s].account = a /\ row.from <= s /\ s <= row.to
    BY DEF RangeOf
  <2>2. row.from \in S /\ row.to \in S /\ offset < row.from
    BY DEF Claim, Spans
  <2>3. offset < s
    <3>1. row.from \in Nat /\ s \in Nat
      BY <1>1, <2>1, <2>2
    <3> QED
      BY <1>2, <2>1, <2>2, <3>1
  <2>4. s \in S \/ s <= db.assigns[a]
    BY <2>1, <2>2, <2>3 DEF Claim
  <2>5. ~(s <= offset)
    <3>1. s \in Nat
      BY <1>1, <2>1
    <3> QED
      BY <1>2, <2>3, <3>1
  <2> QED
    BY <2>4, <2>5
<1> QED
  BY <1>3, <1>4

\* A transaction on a claimed list grants.
LEMMA ClaimGrants ==
  ASSUME TypeOK, NEW S, NEW offset, NEW row \in Transfer(Traces),
         Claim(row.account, offset, S), Spans(S, row.from, row.to),
         row.status = "assigned", Assign(row, offset), AsRequested(row),
         row.amount <= Value(S), row.amount # 0,
         row.amount = Value(S) \/ Value(S \ {row.to}) < row.amount,
         row.trace \notin ClientTraces => row.amount = Value(S),
         UNCHANGED <<utxos, saved>>
  PROVE  Granted(row)
<1>1. db.assigns[row.account] = offset /\ ~HasTrace(db, row.trace)
  BY DEF Assign, CanAssign
<1>2. RangeOf(row) = S
  BY <1>1, ClaimIsRange
<1>3. Pays(row)
  BY <1>2 DEF Pays, Covers, Claim
<1>4. /\ row.from \in saved /\ row.to \in saved
      /\ offset < row.from /\ row.from <= row.to
  BY DEF Claim, Spans
<1>5. ASSUME NEW s \in saved, utxos[s].account = row.account,
             offset < s, s <= row.to
      PROVE  row.from <= s
  <2>1. s \in S \/ s <= offset
    BY <1>1, <1>5 DEF Claim, Spans
  <2>2. s \in Nat /\ offset \in Nat
    BY <1>1, Basics DEF Transfer
  <2> QED
    BY <1>5, <2>1, <2>2 DEF Spans
<1>6. row \in Transfer({row.trace})
  BY DEF Transfer
<1> QED
  BY <1>1, <1>3, <1>4, <1>5, <1>6 DEF Granted, Grant, Pays

\* A list that is claimed is worth something, unless it is empty.
LEMMA ClaimIsWorth ==
  ASSUME TypeOK, NEW a, NEW offset, NEW S, Claim(a, offset, S), NEW s \in S
  PROVE  Value(S) # 0
<1>1. S \in SUBSET (1..Len(utxos)) /\ Len(utxos) \in Nat
  BY LenProperties DEF Claim, TypeOK
<1>2. IsFiniteSet(S)
  <2>1. IsFiniteSet(1..Len(utxos))
    BY <1>1, FS_Interval
  <2> QED
    BY <1>1, <2>1, FS_Subset
<1>3. \A p \in S : utxos[p].amount \in Nat \ {0}
  <2>1. \A p \in S : utxos[p] \in Utxo
    BY <1>1, ElementOfSeq DEF TypeOK
  <2> QED
    BY <2>1 DEF Utxo
<1>4. Worth(S)
  BY <1>2, <1>3 DEF Worth
<1>5. Value(S) = utxos[s].amount + Value(S \ {s})
  BY <1>4, ValueRemove
<1> QED
  BY <1>3, <1>5, ValueType

\* The transaction of a request changes nothing or grants the request's transfer.
LEMMA GrantTransfer ==
  ASSUME Inv, NEW h \in Handlers, AssignTransfer(h), UNCHANGED saved
  PROVE  db' = db \/ \E row \in Transfer(Traces) : Granted(row)
<1> DEFINE S == handler[h].outputs
           r == handler[h].req
<1>1. PICK from \in S, to \in S :
        /\ Spans(S, from, to)
        /\ \/ Assign(TransferOf(r, from, to), handler[h].offset)
           \/ db' = db
  BY DEF AssignTransfer, AssignFails
<1>2. r \in Requests /\ S \subseteq Nat
  BY DEF Inv, TypeOK, HandlerType, AssignTransfer, Handler
<1> DEFINE row == TransferOf(r, from, to)
<1>3. /\ row \in Transfer(Traces)
      /\ row.account = Account(r) /\ row.from = from /\ row.to = to
      /\ row.amount = r.amount /\ row.trace = r.trace /\ row.opponent = r.opponent
      /\ row.status = "assigned" /\ row.amount # 0
  BY <1>2, TransferOfType, RequestsAreRequests DEF TransferOf, Request
<1>4. Claim(row.account, handler[h].offset, S) /\ Suffices(S, row.amount)
  BY <1>3 DEF Inv, HandlerClaims, AssignTransfer
<1>5. AsRequested(row) /\ row.trace \in ClientTraces
  BY <1>2, <1>3, RequestsAreRequests DEF AsRequested, Request
<1>6. CASE Assign(row, handler[h].offset)
  <2>1. row.amount <= Value(S) /\ Value(S \ {row.to}) < row.amount
    BY <1>1, <1>3, <1>4 DEF Suffices, Spans
  <2>2. Granted(row)
    BY <1>1, <1>3, <1>4, <1>5, <1>6, <2>1, ClaimGrants DEF Inv, AssignTransfer
  <2> QED
    BY <1>3, <2>2
<1> QED
  BY <1>1, <1>6

\* The transaction of a request's merge changes nothing or grants the merge.
LEMMA GrantMerge ==
  ASSUME Inv, NEW h \in Handlers, AssignMerge(h), UNCHANGED saved
  PROVE  db' = db \/ \E row \in Transfer(Traces) : Granted(row)
<1> DEFINE S == handler[h].outputs
           a == Account(handler[h].req)
<1>1. PICK from \in S, to \in S :
        /\ Spans(S, from, to)
        /\ \/ Assign(MergeOf(MergeTrace(from, to), a, S, from, to),
                     handler[h].offset)
           \/ db' = db
  BY DEF AssignMerge, AssignFails
<1>2. a \in Accounts /\ S \subseteq Nat
  BY AccountType DEF Inv, TypeOK, HandlerType, AssignMerge, Handler
<1> DEFINE row == MergeOf(MergeTrace(from, to), a, S, from, to)
<1>3. MergeTrace(from, to) \in MergeTraces /\ MergeTrace(from, to) \notin ClientTraces
  BY <1>2 DEF MergeTrace, MergeTraces, ClientTraces
<1>4. /\ row \in Transfer(Traces)
      /\ row.account = a /\ row.from = from /\ row.to = to
      /\ row.amount = Value(S) /\ row.trace \notin ClientTraces
      /\ row.status = "assigned" /\ row.opponent = row.account[1]
  BY <1>2, <1>3, MergeOfType DEF MergeOf
<1>5. Claim(a, handler[h].offset, S)
  BY DEF Inv, HandlerClaims, AssignMerge
<1>6. CASE Assign(row, handler[h].offset)
  <2>1. AsRequested(row) /\ row.amount <= Value(S) /\ row.amount # 0
    <3>1. Value(S) \in Nat
      BY ValueType
    <3>2. Value(S) # 0
      BY <1>1, <1>5, ClaimIsWorth DEF Inv
    <3> QED
      BY <1>4, <3>1, <3>2 DEF AsRequested
  <2>2. Granted(row)
    BY <1>1, <1>4, <1>5, <1>6, <2>1, ClaimGrants DEF Inv, AssignMerge
  <2> QED
    BY <1>4, <2>2
<1> QED
  BY <1>1, <1>6

\* The transaction of a cleaner's merge changes nothing or grants the merge.
LEMMA GrantAuto ==
  ASSUME Inv, NEW c \in Cleaners, AssignAuto(c), UNCHANGED saved
  PROVE  db' = db \/ \E row \in Transfer(Traces) : Granted(row)
<1> DEFINE S == merger[c].outputs
<1>1. PICK b \in merger[c].balance, trace \in AutoTraces, from \in S, to \in S :
        /\ Spans(S, from, to)
        /\ \/ Assign(MergeOf(trace, b.account, S, from, to), merger[c].offset)
           \/ db' = db
  BY DEF AssignAuto, AssignFails
<1>2. b.account \in Accounts /\ S \subseteq Nat
  BY DEF Inv, TypeOK, MergerType, Merger, Balance
<1> DEFINE row == MergeOf(trace, b.account, S, from, to)
<1>3. trace \notin ClientTraces
  BY DEF AutoTraces, ClientTraces
<1>4. /\ row \in Transfer(Traces)
      /\ row.account = b.account /\ row.from = from /\ row.to = to
      /\ row.amount = Value(S) /\ row.trace \notin ClientTraces
      /\ row.status = "assigned" /\ row.opponent = row.account[1]
  BY <1>2, <1>3, MergeOfType DEF MergeOf
<1>5. Claim(b.account, merger[c].offset, S)
  BY DEF Inv, MergerClaims, AssignAuto
<1>6. CASE Assign(row, merger[c].offset)
  <2>1. AsRequested(row) /\ row.amount <= Value(S) /\ row.amount # 0
    <3>1. Value(S) \in Nat
      BY ValueType
    <3>2. Value(S) # 0
      BY <1>1, <1>5, ClaimIsWorth DEF Inv
    <3> QED
      BY <1>4, <3>1, <3>2 DEF AsRequested
  <2>2. Granted(row)
    BY <1>1, <1>4, <1>5, <1>6, <2>1, ClaimGrants DEF Inv, AssignAuto
  <2> QED
    BY <1>4, <2>2
<1> QED
  BY <1>1, <1>6

\* A step of the servers changes nothing in the tables or grants a transfer.
LEMMA ServersGrant ==
  ASSUME Inv, RpcNext, UNCHANGED saved
  PROVE  \/ UNCHANGED <<utxos, db, saved>>
         \/ \E row \in Transfer(Traces) : Granted(row)
<1>1. ASSUME NEW h \in Handlers, AssignTransfer(h) PROVE UNCHANGED utxos
  BY <1>1 DEF AssignTransfer
<1>2. ASSUME NEW h \in Handlers, AssignMerge(h) PROVE UNCHANGED utxos
  BY <1>2 DEF AssignMerge
<1> QED
  BY <1>1, <1>2, GrantTransfer, GrantMerge
  DEF RpcNext, Serve, Receive, FindTrace, GetAssignOffset, ListOutputs, Abort,
      Respond, Crash, Replicate

\* So does a step of a cleaner's merges.
LEMMA MergesGrant ==
  ASSUME Inv, NEW c \in Cleaners, MergeStep(c), UNCHANGED saved
  PROVE  \/ UNCHANGED <<utxos, db, saved>>
         \/ \E row \in Transfer(Traces) : Granted(row)
<1>1. ASSUME AssignAuto(c) PROVE UNCHANGED utxos
  BY <1>1 DEF AssignAuto
<1> QED
  BY <1>1, GrantAuto DEF MergeStep, SumAll, ReadOffset, ListMerge, AbortMerge

\* What a step does to the tables.
LEMMA Steps ==
  ASSUME Inv, [Next]_vars
  PROVE  \/ UNCHANGED <<utxos, db, saved>>
         \/ \E row \in Transfer(Traces) : Granted(row)
         \/ \E out \in Arrivals : Arrive(out)
         \/ \E S \in SUBSET (1..Len(utxos)) : Save(S)
         \/ \E s \in db.outputs : Delete(s)
         \/ \E i \in DOMAIN db.transfers : Handle(i)
<1>1. CASE UNCHANGED vars
  BY <1>1 DEF vars
<1>2. CASE RpcNext /\ UNCHANGED <<merger, saved>>
  BY <1>2, ServersGrant
<1>3. CASE MergeNext /\ UNCHANGED <<handler, replica, acked, saved>>
  BY <1>3, MergesGrant DEF MergeNext
<1> QED
  BY <1>1, <1>2, <1>3 DEF Next, Environment

-----------------------------------------------------------------------------
(* What no step takes back.                                                *)

\* The columns of a transfer that no statement updates.
Same(p, q) ==
  /\ p.trace = q.trace /\ p.account = q.account /\ p.amount = q.amount
  /\ p.opponent = q.opponent /\ p.from = q.from /\ p.to = q.to

Grows ==
  /\ saved \subseteq saved'
  /\ \A s \in saved' \ saved : s \in db'.outputs /\ \A p \in saved : p < s
  /\ \A s \in saved : utxos'[s] = utxos[s]
  /\ \A a \in Accounts : db.assigns[a] <= db'.assigns[a]
  /\ Len(db.transfers) <= Len(db'.transfers)
  /\ \A i \in DOMAIN db.transfers : Same(db'.transfers[i], db.transfers[i])

\* A step loses no saved output and no transfer, and moves no offset back.
LEMMA StepGrows == ASSUME Inv, [Next]_vars PROVE Grows
<1>0. TypeOK /\ TypeOK'
  BY TypeStep DEF Inv
<1>1. CASE UNCHANGED <<utxos, db, saved>>
  BY <1>0, <1>1, Basics DEF Grows, Same
<1>2. ASSUME NEW row \in Transfer(Traces), Granted(row) PROVE Grows
  <2>1. row.account \in Accounts /\ row.to \in Nat
    BY DEF Transfer
  <2>2. db.assigns \in [Accounts -> Nat] /\ db.transfers \in Seq(Transfer(Traces))
    BY <1>0, Basics
  <2>3. /\ db'.assigns = [db.assigns EXCEPT ![row.account] = row.to]
        /\ db'.transfers = Append(db.transfers, row)
    BY <1>0, <1>2 DEF Granted, Grant, Assign, TypeOK, Tables
  <2>4. db.assigns[row.account] <= row.to
    BY <1>0, <1>2, <2>1, <2>2, Basics DEF Granted, Grant, Assign, Transfer
  <2>5. \A a \in Accounts : db.assigns[a] <= db'.assigns[a]
    BY <2>1, <2>2, <2>3, <2>4
  <2>6. /\ Len(db.transfers) <= Len(db'.transfers)
        /\ \A i \in DOMAIN db.transfers : db'.transfers[i] = db.transfers[i]
    BY <1>0, <2>2, <2>3, Basics, AppendProperties
  <2> QED
    BY <1>2, <2>5, <2>6 DEF Granted, Grant, Assign, Grows, Same
<1>3. ASSUME NEW out \in Arrivals, Arrive(out) PROVE Grows
  <2>1. \A s \in 1..Len(utxos) : utxos'[s] = utxos[s]
    BY <1>0, <1>3, GenesisIsListed, ConcatProperties DEF Arrive, TypeOK
  <2>2. UNCHANGED <<db, saved>> /\ saved \subseteq 1..Len(utxos)
    BY <1>0, <1>3 DEF Arrive, TypeOK
  <2> QED
    BY <1>0, <2>1, <2>2, Basics DEF Grows, Same
<1>4. ASSUME NEW S \in SUBSET (1..Len(utxos)), Save(S) PROVE Grows
  <2>1. /\ db'.outputs = db.outputs \cup S
        /\ db'.assigns = db.assigns /\ db'.transfers = db.transfers
    BY <1>0, <1>4 DEF Save, SaveOutputs, TypeOK, Tables
  <2> QED
    <3>1. saved' = saved \cup S /\ utxos' = utxos
      BY <1>4 DEF Save
    <3>2. \A s \in S \ saved : \A p \in saved : p < s
      BY <1>4 DEF Save
    <3>3. \A a \in Accounts : db.assigns[a] <= db'.assigns[a]
      BY <1>0, <2>1, Basics
    <3>4. Len(db.transfers) <= Len(db'.transfers)
      BY <1>0, <2>1, Basics
    <3>5. \A s \in saved' \ saved : s \in db'.outputs /\ \A p \in saved : p < s
      BY <2>1, <3>1, <3>2
    <3> QED
      BY <2>1, <3>1, <3>3, <3>4, <3>5 DEF Grows, Same
<1>5. ASSUME NEW s \in db.outputs, Delete(s) PROVE Grows
  <2>1. db'.assigns = db.assigns /\ db'.transfers = db.transfers
    BY <1>0, <1>5 DEF Delete, DeleteOutput, TypeOK, Tables
  <2> QED
    BY <1>0, <1>5, <2>1, Basics DEF Delete, Grows, Same
<1>6. ASSUME NEW i \in DOMAIN db.transfers, Handle(i) PROVE Grows
  <2>1. /\ db'.assigns = db.assigns
        /\ db'.transfers =
             [db.transfers EXCEPT ![i] = [db.transfers[i] EXCEPT !.status = "handled"]]
    BY <1>0, <1>6 DEF Handle, MarkHandled, TypeOK, Tables
  <2>2. Len(db'.transfers) = Len(db.transfers)
    BY <1>0, <2>1, Basics, ExceptSeq
  <2>3. ASSUME NEW j \in DOMAIN db.transfers
        PROVE  Same(db'.transfers[j], db.transfers[j])
    <3>1. db.transfers[j] \in Transfer(Traces)
      BY <1>0, Basics
    <3>2. db'.transfers[j] = IF i = j
                               THEN [db.transfers[j] EXCEPT !.status = "handled"]
                               ELSE db.transfers[j]
      BY <2>1
    <3> QED
      BY <3>1, <3>2 DEF Transfer, Same
  <2> QED
    BY <1>0, <1>6, <2>1, <2>2, <2>3, Basics DEF Handle, Grows
<1> QED
  BY <1>1, <1>2, <1>3, <1>4, <1>5, <1>6, Steps

\* The worth of saved outputs does not change.
LEMMA ValueStays ==
  ASSUME Grows, NEW S \in SUBSET saved PROVE Value(S)' = Value(S)
<1>1. [s \in S |-> utxos'[s].amount] = [s \in S |-> utxos[s].amount]
  BY DEF Grows
<1> QED
  BY <1>1 DEF Value

\* A claim stays one while others assign, save and delete.
LEMMA ClaimStays ==
  ASSUME TypeOK, TypeOK', Grows, NEW a \in Accounts, NEW offset \in Nat, NEW S,
         Claim(a, offset, S)
  PROVE  Claim(a, offset, S)'
<1>1. saved' \subseteq Nat /\ S \subseteq saved
  BY LenProperties DEF Claim, TypeOK
<1>2. db.assigns[a] \in Nat /\ db'.assigns[a] \in Nat /\ db.assigns[a] <= db'.assigns[a]
  BY Basics DEF Grows, TypeOK, Tables
<1>3. ASSUME NEW s \in saved', NEW p \in S,
             utxos'[s].account = a, offset < s, s <= p
      PROVE  s \in S \/ s <= db'.assigns[a]
  <2>1. s \in Nat /\ p \in Nat /\ p \in saved
    BY <1>1, Basics DEF Grows
  <2>2. s \in saved
    BY <1>3, <2>1 DEF Grows
  <2>3. s \in S \/ s <= db.assigns[a]
    BY <1>3, <2>2 DEF Claim, Grows
  <2> QED
    BY <1>2, <2>1, <2>3
<1> QED
  BY <1>1, <1>3 DEF Claim, Grows

\* A trace stays in use.
LEMMA TraceStays ==
  ASSUME TypeOK, TypeOK', Grows, NEW t, HasTrace(db, t) PROVE HasTrace(db', t)
<1>1. PICK i \in DOMAIN db.transfers : db.transfers[i].trace = t
  BY DEF HasTrace
<1>2. DOMAIN db.transfers = 1..Len(db.transfers) /\ Len(db.transfers) \in Nat
  BY Basics
<1>3. DOMAIN db'.transfers = 1..Len(db'.transfers) /\ Len(db'.transfers) \in Nat
  BY LenProperties DEF TypeOK, Tables
<1>4. i \in DOMAIN db'.transfers
  BY <1>2, <1>3 DEF Grows
<1> QED
  BY <1>1, <1>4 DEF HasTrace, Grows, Same

-----------------------------------------------------------------------------
(* The parts of the invariant, one by one.                                 *)

\* Only assigned outputs leave the table: every step keeps DbComplete.
LEMMA DbCompleteStep == ASSUME Inv, [Next]_vars PROVE DbComplete'
<1> SUFFICES ASSUME NEW s \in saved'
             PROVE  s \in db'.outputs \/ s <= db'.assigns[utxos'[s].account]
  BY DEF DbComplete
<1>0. TypeOK /\ TypeOK' /\ Grows
  BY TypeStep, StepGrows DEF Inv
<1>1. CASE s \notin saved
  BY <1>0, <1>1 DEF Grows
<1>2. CASE s \in saved
  <2>1. s \in db.outputs \/ s <= db.assigns[utxos[s].account]
    BY <1>2 DEF Inv, DbComplete
  <2>2. /\ utxos'[s] = utxos[s] /\ utxos[s].account \in Accounts /\ s \in Nat
        /\ db.assigns[utxos[s].account] \in Nat
        /\ db'.assigns[utxos[s].account] \in Nat
        /\ db.assigns[utxos[s].account] <= db'.assigns[utxos[s].account]
    BY <1>0, <1>2, Basics DEF Grows, TypeOK, Tables
  <2>3. CASE s <= db.assigns[utxos[s].account]
    BY <2>2, <2>3
  <2>4. CASE s \in db.outputs /\ s \notin db'.outputs
    <3>1. Delete(s)
      <4>1. \/ db'.outputs = db.outputs
            \/ \E S : db'.outputs = db.outputs \cup S
            \/ \E p \in db.outputs : Delete(p) /\ db'.outputs = db.outputs \ {p}
        BY <1>0, Steps
        DEF Granted, Grant, Assign, Arrive, Save, SaveOutputs, Delete, DeleteOutput, Handle,
            MarkHandled, TypeOK, Tables
      <4> QED
        BY <2>4, <4>1
    <3> QED
      BY <2>2, <3>1 DEF Delete
  <2> QED
    BY <2>1, <2>3, <2>4
<1> QED
  BY <1>1, <1>2

\* An earlier state of the primary stays one while the primary moves on.
LEMMA LagsStays ==
  ASSUME TypeOK, TypeOK', Grows, NEW d \in Tables(Traces), Lags(d)
  PROVE  Lags(d)'
<1>1. ASSUME NEW a \in Accounts PROVE d.assigns[a] <= db'.assigns[a]
  BY <1>1 DEF Lags, Grows, TypeOK, Tables
<1>2. ASSUME NEW i \in DOMAIN d.transfers PROVE HasTrace(db', d.transfers[i].trace)
  BY TraceStays DEF Lags
<1>3. ASSUME NEW s \in saved'
      PROVE  \/ s \in d.outputs
             \/ s <= db'.assigns[utxos'[s].account]
             \/ \A p \in d.outputs : p < s
  <2>1. CASE s \notin saved
    BY <2>1 DEF Lags, Grows
  <2>2. CASE s \in saved
    <3>1. /\ utxos'[s] = utxos[s] /\ utxos[s].account \in Accounts /\ s \in Nat
          /\ db.assigns[utxos[s].account] \in Nat
          /\ db'.assigns[utxos[s].account] \in Nat
          /\ db.assigns[utxos[s].account] <= db'.assigns[utxos[s].account]
      BY <2>2, Basics DEF Grows, TypeOK, Tables
    <3> QED
      BY <2>2, <3>1 DEF Lags
  <2> QED
    BY <2>1, <2>2
<1>4. d.outputs \subseteq saved'
  BY DEF Lags, Grows
<1> QED
  BY <1>1, <1>2, <1>3, <1>4 DEF Lags, HasTrace

\* The primary does not lag behind itself.
LEMMA DbLags == ASSUME TypeOK, DbComplete PROVE Lags(db)
  BY Basics DEF Lags, DbComplete, HasTrace

\* Every step keeps the replicas behind the primary.
LEMMA ReplicasLagStep == ASSUME Inv, [Next]_vars PROVE ReplicasLag'
<1>0. TypeOK /\ TypeOK' /\ Grows /\ DbComplete
  BY TypeStep, StepGrows DEF Inv
<1> SUFFICES ASSUME NEW r \in Replicas PROVE Lags(replica[r])'
  BY DEF ReplicasLag
<1>1. \/ replica'[r] = replica[r]
      \/ UNCHANGED <<utxos, db, saved>> /\ replica'[r] = db
  <2>1. CASE UNCHANGED replica
    BY <2>1
  <2>2. ASSUME NEW q \in Replicas, Replicate(q), UNCHANGED saved
        PROVE  \/ replica'[r] = replica[r]
               \/ UNCHANGED <<utxos, db, saved>> /\ replica'[r] = db
    BY <1>0, <2>2 DEF Replicate, TypeOK
  <2> QED
    BY <2>1, <2>2
    DEF Next, vars, RpcNext, Serve, Receive, FindTrace, GetAssignOffset,
        ListOutputs, AssignTransfer, AssignMerge, Abort, Respond, Crash,
        Environment
<1>2. CASE replica'[r] = replica[r]
  <2>1. Lags(replica[r])
    BY DEF Inv, ReplicasLag
  <2>2. \A d \in Tables(Traces) : Lags(d) => Lags(d)'
    BY <1>0, LagsStays
  <2> QED
    BY <1>0, <1>2, <2>1, <2>2 DEF TypeOK, Lags, HasTrace
<1>3. CASE UNCHANGED <<utxos, db, saved>> /\ replica'[r] = db
  BY <1>0, <1>3, DbLags DEF Lags, HasTrace
<1> QED
  BY <1>1, <1>2, <1>3

\* A list that a query returns is a claim.
LEMMA ListedIsClaim ==
  ASSUME TypeOK, NEW d \in Tables(Traces), Lags(d),
         NEW a \in Accounts, NEW offset \in Nat, NEW target,
         NEW S \in Scans(ListTarget(d, a, offset, target, Limit))
  PROVE  Claim(a, offset, S)
<1>1. d.outputs \subseteq saved /\ saved \subseteq 0..Len(utxos) /\ Len(utxos) \in Nat
  BY LenProperties DEF Lags, TypeOK
<1>2. d.outputs \subseteq 0..Len(utxos) /\ d.outputs \subseteq Nat
  <2>1. d.outputs \subseteq 0..Len(utxos)
    BY <1>1
  <2>2. 0..Len(utxos) \subseteq Nat
    BY <1>1
  <2> QED
    BY <2>1, <2>2
<1>3. /\ S \subseteq OutputsAbove(d, a, offset)
      /\ \A p \in S, s \in OutputsAbove(d, a, offset) : s <= p => s \in S
  BY <1>2, ListIsPrefix
<1>4. Cardinality(S) <= Limit
  BY <1>1, <1>2, ListIsLimited, LimitIsPositive
<1>5. S \subseteq saved /\ \A s \in S : utxos[s].account = a /\ offset < s
  BY <1>1, <1>3 DEF OutputsAbove
<1>6. ASSUME NEW s \in saved, NEW p \in S,
             utxos[s].account = a, offset < s, s <= p
      PROVE  s \in S \/ s <= db.assigns[a]
  <2>1. CASE s \in d.outputs
    <3>1. s \in OutputsAbove(d, a, offset)
      BY <1>6, <2>1 DEF OutputsAbove
    <3> QED
      BY <1>3, <1>6, <3>1
  <2>2. CASE s \notin d.outputs
    <3>1. p \in d.outputs /\ p \in Nat /\ s \in Nat
      BY <1>1, <1>3 DEF OutputsAbove
    <3> QED
      BY <1>6, <2>2, <3>1 DEF Lags
  <2> QED
    BY <2>1, <2>2
<1> QED
  BY <1>4, <1>5, <1>6 DEF Claim

\* A list that is worth the target suffices.
LEMMA ListedSuffices ==
  ASSUME TypeOK, NEW d \in Tables(Traces), Lags(d),
         NEW a, NEW offset, NEW target \in Nat \ {0},
         NEW S \in Scans(ListTarget(d, a, offset, target, Limit)),
         Value(S) >= target
  PROVE  Suffices(S, target)
<1>1. d.outputs \subseteq saved /\ saved \subseteq 0..Len(utxos) /\ Len(utxos) \in Nat
  BY LenProperties DEF Lags, TypeOK
<1>2. d.outputs \subseteq 0..Len(utxos)
  BY <1>1
<1>3. Value(S) \in Nat
  BY ValueType
<1> QED
  BY <1>1, <1>2, <1>3, ListIsMinimal DEF Suffices

\* A snapshot that a server reads lags.
LEMMA SnapshotLags ==
  ASSUME TypeOK, DbComplete, ReplicasLag, NEW d \in Snapshots
  PROVE  d \in Tables(Traces) /\ Lags(d)
  BY SnapshotsType, DbLags DEF Snapshots, ReplicasLag

\* What the claims say of one handler.
HandlerClaim(h) ==
  /\ handler[h].pc \in {"assign", "merge"} =>
       Claim(Account(handler[h].req), handler[h].offset, handler[h].outputs)
  /\ handler[h].pc = "assign" =>
       Suffices(handler[h].outputs, handler[h].req.amount)

\* A handler that a step leaves alone, or takes off its list, keeps its claim.
LEMMA HandlerClaimStays ==
  ASSUME TypeOK, TypeOK', Grows, NEW h \in Handlers, HandlerClaim(h),
         handler'[h] = handler[h] \/ handler'[h].pc \notin {"assign", "merge"}
  PROVE  HandlerClaim(h)'
<1>1. CASE handler'[h].pc \notin {"assign", "merge"}
  BY <1>1 DEF HandlerClaim
<1>2. CASE handler'[h] = handler[h] /\ handler[h].pc \in {"assign", "merge"}
  <2>1. handler[h].req \in Requests /\ handler[h].offset \in Nat
    BY <1>2 DEF TypeOK, HandlerType, Handler
  <2>2. Claim(Account(handler[h].req), handler[h].offset, handler[h].outputs)
    BY <1>2 DEF HandlerClaim
  <2>3. \A a \in Accounts, offset \in Nat : \A S :
          Claim(a, offset, S) => Claim(a, offset, S)'
    BY ClaimStays
  <2>4. Claim(Account(handler[h].req), handler[h].offset, handler[h].outputs)'
    BY <1>2, <2>1, <2>2, <2>3, AccountType DEF Claim
  <2>5. \A S \in SUBSET saved : Value(S)' = Value(S)
    BY ValueStays
  <2>6. handler[h].pc = "assign"
          => Suffices(handler[h].outputs, handler[h].req.amount)'
    <3>1. /\ handler[h].outputs \in SUBSET saved
          /\ \A to \in handler[h].outputs : handler[h].outputs \ {to} \in SUBSET saved
      BY <2>2 DEF Claim
    <3>2. Value(handler[h].outputs)' = Value(handler[h].outputs)
      BY <1>2, <2>5, <3>1 DEF Value
    <3>3. \A to \in handler[h].outputs :
            Value(handler[h].outputs \ {to})' = Value(handler[h].outputs \ {to})
      BY <1>2, <2>5, <3>1 DEF Value
    <3> QED
      BY <1>2, <3>2, <3>3 DEF HandlerClaim, Suffices, Value
  <2> QED
    BY <1>2, <2>4, <2>6 DEF HandlerClaim
<1> QED
  BY <1>1, <1>2

\* What a handler lists from any snapshot is a claim, and it stays one until
\* the handler's transaction.
LEMMA HandlerClaimsStep == ASSUME Inv, [Next]_vars PROVE HandlerClaims'
<1>0. TypeOK /\ TypeOK' /\ Grows /\ DbComplete /\ ReplicasLag
  BY TypeStep, StepGrows DEF Inv
<1> SUFFICES ASSUME NEW g \in Handlers PROVE HandlerClaim(g)'
  BY DEF HandlerClaims, HandlerClaim
<1>1. HandlerClaim(g)
  BY DEF Inv, HandlerClaims, HandlerClaim
<1> DEFINE Quiet == handler'[g] = handler[g] \/ handler'[g].pc \notin {"assign", "merge"}
<1>2. ASSUME NEW h \in Handlers, NEW ok \in BOOLEAN, Return(h, ok) PROVE Quiet
  BY <1>2 DEF Return, Idle
<1>3. ASSUME NEW h \in Handlers, ListOutputs(h), UNCHANGED saved,
             handler'[g] # handler[g], handler'[g].pc \in {"assign", "merge"}
      PROVE  HandlerClaim(g)'
  <2> DEFINE r == handler[h].req
             Listed(d) == ListTarget(d, Account(r), handler[h].offset, r.amount, Limit)
             Goes(S) == \/ /\ handler' = [handler EXCEPT ![h].pc = "assign",
                                                        ![h].outputs = S]
                           /\ Value(S) >= r.amount
                        \/ handler' = [handler EXCEPT ![h].pc = "merge",
                                                     ![h].outputs = S]
                        \/ Return(h, FALSE)
  <2>1. PICK d \in Snapshots : \E S \in Scans(Listed(d)) : Goes(S)
    BY <1>3 DEF ListOutputs
  <2>2. PICK S \in Scans(Listed(d)) : Goes(S)
    BY <2>1
  <2>3. r \in Requests /\ handler[h].offset \in Nat /\ handler[h] \in Handler
    BY <1>0, <1>3 DEF ListOutputs, TypeOK, HandlerType, Handler
  <2>4. ~Return(h, FALSE)
    BY <1>2, <1>3
  <2>5. /\ g = h
        /\ handler'[g] \in {[handler[h] EXCEPT !.pc = "assign", !.outputs = S],
                            [handler[h] EXCEPT !.pc = "merge", !.outputs = S]}
        /\ handler'[g].pc = "assign" => Value(S) >= r.amount
    BY <1>0, <1>3, <2>2, <2>3, <2>4 DEF TypeOK, HandlerType, Handler
  <2>6. /\ handler'[g].req = r /\ handler'[g].offset = handler[h].offset
        /\ handler'[g].outputs = S
    BY <2>3, <2>5 DEF Handler
  <2>7. Claim(Account(r), handler[h].offset, S)
    BY <1>0, <2>3, AccountType, SnapshotLags, ListedIsClaim
  <2>8. UNCHANGED <<utxos, db, saved>>
    BY <1>3 DEF ListOutputs
  <2>9. \A a, offset, T : Claim(a, offset, T) => Claim(a, offset, T)'
    BY <2>8 DEF Claim
  <2>10. Claim(Account(handler[g].req), handler[g].offset, handler[g].outputs)'
    <3>1. \A a, offset, T :
            /\ Claim(a, offset, T)'
            /\ a = Account(handler[g].req)'
            /\ offset = handler'[g].offset /\ T = handler'[g].outputs
            => Claim(Account(handler[g].req), handler[g].offset, handler[g].outputs)'
      BY DEF Claim
    <3>2. Account(handler[g].req)' = Account(r)
      BY <2>6 DEF Account
    <3> QED
      BY <2>6, <2>7, <2>9, <3>1, <3>2
  <2>11. r.amount \in Nat \ {0}
    BY <2>3, RequestsAreRequests DEF Request
  <2>12. handler'[g].pc = "assign" => Suffices(S, r.amount)
    BY <1>0, <2>5, <2>11, SnapshotLags, ListedSuffices
  <2>13. Suffices(S, r.amount) => Suffices(handler[g].outputs, handler[g].req.amount)'
    BY <2>6, <2>8 DEF Suffices, Value
  <2> QED
    BY <2>10, <2>12, <2>13 DEF HandlerClaim
<1>4. Quiet \/ \E h \in Handlers : ListOutputs(h) /\ UNCHANGED saved
  <2>1. ASSUME NEW h \in Handlers, Serve(h), UNCHANGED saved
        PROVE  Quiet \/ ListOutputs(h)
    <3>1. CASE \E ok \in BOOLEAN : Return(h, ok)
      BY <1>2, <3>1
    <3>2. CASE handler' = [handler EXCEPT ![h].pc = "offset"]
      BY <1>0, <3>2 DEF TypeOK, HandlerType, Handler
    <3>3. CASE GetAssignOffset(h)
      <4>1. PICK d \in Snapshots :
              handler' = [handler EXCEPT ![h].pc = "list",
                            ![h].offset = d.assigns[Account(handler[h].req)]]
        BY <3>3 DEF GetAssignOffset
      <4> QED
        BY <1>0, <4>1 DEF TypeOK, HandlerType, Handler
    <3>4. CASE Respond(h)
      BY <1>0, <3>4 DEF Respond, TypeOK, HandlerType, Idle
    <3> QED
      BY <2>1, <3>1, <3>2, <3>3, <3>4
      DEF Serve, FindTrace, AssignTransfer, AssignMerge, Abort
  <2>2. ASSUME NEW h \in Handlers, NEW r \in Requests, Receive(h, r) PROVE Quiet
    BY <1>0, <2>2 DEF Receive, TypeOK, HandlerType, Idle
  <2>3. ASSUME NEW server \in Servers, Crash(server) PROVE Quiet
    BY <1>0, <2>3 DEF Crash, Idle
  <2> QED
    BY <2>1, <2>2, <2>3
    DEF Next, vars, RpcNext, Replicate, Environment
<1> QED
  BY <1>0, <1>1, <1>3, <1>4, HandlerClaimStays

\* A merger that a step leaves alone, or takes off its list, keeps its claim.
MergerClaim(c) ==
  merger[c].pc = "assign" =>
    \A b \in merger[c].balance :
      Claim(b.account, merger[c].offset, merger[c].outputs)

\* The claim of a cleaner that does not move stays one.
LEMMA MergerClaimStays ==
  ASSUME TypeOK, TypeOK', Grows, NEW c \in Cleaners, MergerClaim(c),
         merger'[c] = merger[c] \/ merger'[c].pc # "assign"
  PROVE  MergerClaim(c)'
<1>1. CASE merger'[c].pc # "assign"
  BY <1>1 DEF MergerClaim
<1>2. CASE merger'[c] = merger[c] /\ merger[c].pc = "assign"
  <2>1. /\ merger[c].offset \in Nat
        /\ \A b \in merger[c].balance : b.account \in Accounts
    BY DEF TypeOK, MergerType, Merger, Balance
  <2>2. \A a \in Accounts, offset \in Nat : \A S :
          Claim(a, offset, S) => Claim(a, offset, S)'
    BY ClaimStays
  <2>3. ASSUME NEW b \in merger[c].balance
        PROVE  Claim(b.account, merger[c].offset, merger[c].outputs)'
    <3>1. Claim(b.account, merger[c].offset, merger[c].outputs)
      BY <1>2 DEF MergerClaim
    <3> QED
      BY <1>2, <2>1, <2>2, <3>1 DEF Claim
  <2> QED
    BY <1>2, <2>3 DEF MergerClaim
<1> QED
  BY <1>1, <1>2

\* What a cleaner lists is a claim, and it stays one until its transaction.
LEMMA MergerClaimsStep == ASSUME Inv, [Next]_vars PROVE MergerClaims'
<1>0. TypeOK /\ TypeOK' /\ Grows /\ DbComplete
  BY TypeStep, StepGrows DEF Inv
<1> SUFFICES ASSUME NEW c \in Cleaners PROVE MergerClaim(c)'
  BY DEF MergerClaims, MergerClaim
<1>1. MergerClaim(c)
  BY DEF Inv, MergerClaims, MergerClaim
<1> DEFINE Quiet == merger'[c] = merger[c] \/ merger'[c].pc # "assign"
<1>2. ASSUME ListMerge(c), UNCHANGED saved, merger'[c].pc = "assign"
      PROVE  MergerClaim(c)'
  <2>1. PICK b \in merger[c].balance :
          \E S \in Scans(ListTarget(db, b.account, merger[c].offset, b.amount, Limit)) :
            merger' = [merger EXCEPT ![c] =
              IF Cardinality(S) < Limit
                THEN Looping(merger[c].todo)
                ELSE [merger[c] EXCEPT !.pc = "assign", !.outputs = S]]
    BY <1>2 DEF ListMerge
  <2>2. PICK S \in Scans(ListTarget(db, b.account, merger[c].offset, b.amount, Limit)) :
          merger' = [merger EXCEPT ![c] =
            IF Cardinality(S) < Limit
              THEN Looping(merger[c].todo)
              ELSE [merger[c] EXCEPT !.pc = "assign", !.outputs = S]]
    BY <2>1
  <2>3. merger'[c] = [merger[c] EXCEPT !.pc = "assign", !.outputs = S]
    BY <1>0, <1>2, <2>2 DEF TypeOK, MergerType, Looping
  <2>4. UNCHANGED <<utxos, db, saved>>
    BY <1>2 DEF ListMerge
  <2>5. /\ b.account \in Accounts /\ merger[c].offset \in Nat
        /\ merger[c] \in Merger /\ merger[c].balance = {b}
    BY <1>0, <1>2 DEF ListMerge, TypeOK, MergerType, Merger, Balance
  <2>6. Claim(b.account, merger[c].offset, S)
    BY <1>0, <2>5, DbLags, ListedIsClaim DEF TypeOK
  <2>7. /\ merger'[c].balance = {b} /\ merger'[c].offset = merger[c].offset
        /\ merger'[c].outputs = S
    BY <2>3, <2>5 DEF Merger
  <2>8. \A a, offset, T : Claim(a, offset, T) => Claim(a, offset, T)'
    BY <2>4 DEF Claim
  <2>9. ASSUME NEW e \in merger'[c].balance
        PROVE  Claim(e.account, merger[c].offset, merger[c].outputs)'
    <3>1. \A a, offset, T :
            /\ Claim(a, offset, T)' /\ a = e.account
            /\ offset = merger'[c].offset /\ T = merger'[c].outputs
            => Claim(e.account, merger[c].offset, merger[c].outputs)'
      BY DEF Claim
    <3> QED
      BY <2>6, <2>7, <2>8, <3>1
  <2> QED
    BY <2>9 DEF MergerClaim
<1>3. Quiet \/ (ListMerge(c) /\ UNCHANGED saved)
  <2>1. ASSUME NEW e \in Cleaners, MergeStep(e), UNCHANGED saved
        PROVE  Quiet \/ ListMerge(c)
    <3>1. CASE e # c
      BY <1>0, <2>1, <3>1
      DEF MergeStep, SumAll, ReadOffset, ListMerge, AssignAuto, AbortMerge,
          TypeOK, MergerType
    <3>2. CASE e = c /\ ReadOffset(c)
      BY <1>0, <3>2 DEF ReadOffset, TypeOK, MergerType, Looping
    <3>3. CASE e = c /\ ~ReadOffset(c)
      BY <1>0, <2>1, <3>3
      DEF MergeStep, SumAll, AssignAuto, AbortMerge, TypeOK, MergerType, Looping
    <3> QED
      BY <3>1, <3>2, <3>3
  <2> QED
    BY <2>1
    DEF Next, vars, MergeNext, Environment
<1> QED
  BY <1>0, <1>1, <1>2, <1>3, MergerClaimStays

-----------------------------------------------------------------------------
(* The transfers.                                                          *)

\* A step keeps the rows there are and inserts one at most, which it grants.
LEMMA RowsOfStep ==
  ASSUME Inv, [Next]_vars
  PROVE  \/ /\ DOMAIN db'.transfers = DOMAIN db.transfers
            /\ db'.assigns = db.assigns
         \/ \E row \in Transfer(Traces) :
              /\ Granted(row)
              /\ DOMAIN db'.transfers = DOMAIN db.transfers \cup {Len(db.transfers) + 1}
              /\ db'.transfers[Len(db.transfers) + 1] = row
              /\ db'.assigns = [db.assigns EXCEPT ![row.account] = row.to]
<1>0. TypeOK
  BY DEF Inv
<1>1. ASSUME NEW row \in Transfer(Traces), Granted(row)
      PROVE  /\ DOMAIN db'.transfers = DOMAIN db.transfers \cup {Len(db.transfers) + 1}
             /\ db'.transfers[Len(db.transfers) + 1] = row
             /\ db'.assigns = [db.assigns EXCEPT ![row.account] = row.to]
  <2>1. /\ db'.assigns = [db.assigns EXCEPT ![row.account] = row.to]
        /\ db'.transfers = Append(db.transfers, row)
    BY <1>0, <1>1 DEF Granted, Grant, Assign, TypeOK, Tables
  <2>2. /\ DOMAIN db.transfers = 1..Len(db.transfers) /\ Len(db.transfers) \in Nat
        /\ db.transfers \in Seq(Transfer(Traces))
    BY <1>0, Basics
  <2>3. /\ Append(db.transfers, row) \in Seq(Transfer(Traces))
        /\ Len(Append(db.transfers, row)) = Len(db.transfers) + 1
        /\ Append(db.transfers, row)[Len(db.transfers) + 1] = row
    BY <2>2, AppendProperties
  <2>4. DOMAIN db'.transfers = 1..(Len(db.transfers) + 1)
    BY <2>1, <2>3, LenProperties
  <2> QED
    BY <2>1, <2>2, <2>3, <2>4
<1>2. ASSUME NEW S \in SUBSET (1..Len(utxos)), Save(S)
      PROVE  db'.transfers = db.transfers /\ db'.assigns = db.assigns
  BY <1>0, <1>2 DEF Save, SaveOutputs, TypeOK, Tables
<1>3. ASSUME NEW s \in db.outputs, Delete(s)
      PROVE  db'.transfers = db.transfers /\ db'.assigns = db.assigns
  BY <1>0, <1>3 DEF Delete, DeleteOutput, TypeOK, Tables
<1>4. ASSUME NEW i \in DOMAIN db.transfers, Handle(i)
      PROVE  DOMAIN db'.transfers = DOMAIN db.transfers /\ db'.assigns = db.assigns
  BY <1>0, <1>4 DEF Handle, MarkHandled, TypeOK, Tables
<1> QED
  BY <1>1, <1>2, <1>3, <1>4, Steps DEF Arrive

\* The outputs in a range that ends at a saved one stay the same.
LEMMA RangeStays ==
  ASSUME TypeOK, TypeOK', Grows, NEW i \in DOMAIN db.transfers,
         db.transfers[i].to \in saved
  PROVE  RangeOf(db.transfers[i])' = RangeOf(db.transfers[i])
<1> DEFINE row == db.transfers[i]
<1>1. /\ db'.transfers[i].account = row.account /\ db'.transfers[i].from = row.from
      /\ db'.transfers[i].to = row.to
  BY DEF Grows, Same
<1>2. saved \subseteq saved' /\ saved' \subseteq Nat
  BY LenProperties DEF Grows, TypeOK
<1>3. ASSUME NEW s \in saved' \ saved PROVE ~(s <= row.to)
  <2>1. row.to < s
    BY DEF Grows
  <2>2. row.to \in Nat /\ s \in Nat
    BY <1>2
  <2> QED
    BY <2>1, <2>2
<1>4. ASSUME NEW s \in saved PROVE utxos'[s].account = utxos[s].account
  BY <1>4 DEF Grows
<1> QED
  BY <1>1, <1>2, <1>3, <1>4 DEF RangeOf

\* A range that pays for its transfer goes on paying: later outputs have
\* greater sequence numbers.
LEMMA PaysStays ==
  ASSUME TypeOK, TypeOK', Grows, NEW i \in DOMAIN db.transfers,
         db.transfers[i].to \in saved, Pays(db.transfers[i])
  PROVE  Pays(db.transfers[i])'
<1>1. RangeOf(db.transfers[i])' = RangeOf(db.transfers[i])
  BY RangeStays
<1>2. \A S \in SUBSET saved : Value(S)' = Value(S)
  BY ValueStays
<1>3. RangeOf(db.transfers[i]) \in SUBSET saved
  BY DEF RangeOf
<1>4. Value(RangeOf(db.transfers[i]))' = Value(RangeOf(db.transfers[i]))
  BY <1>1, <1>2, <1>3 DEF Value
<1>5. /\ db'.transfers[i].amount = db.transfers[i].amount
      /\ db'.transfers[i].trace = db.transfers[i].trace
      /\ db'.transfers[i].to = db.transfers[i].to
  BY DEF Grows, Same
<1>6. RangeOf(db.transfers[i]) \ {db.transfers[i].to} \in SUBSET saved
  BY <1>3
<1>7. Value(RangeOf(db.transfers[i]) \ {db.transfers[i].to})'
        = Value(RangeOf(db.transfers[i]) \ {db.transfers[i].to})
  BY <1>1, <1>2, <1>5, <1>6 DEF Value
<1> QED
  BY <1>1, <1>4, <1>5, <1>7 DEF Pays, Covers

\* Every step keeps the ends of the ranges saved.
LEMMA RangesSavedStep == ASSUME Inv, [Next]_vars PROVE RangesSaved'
<1>1. RangesSaved /\ Grows
  BY StepGrows DEF Inv
<1>2. ASSUME NEW i \in DOMAIN db.transfers PROVE db'.transfers[i].to \in saved'
  BY <1>1 DEF RangesSaved, Grows, Same
<1>3. ASSUME NEW row \in Transfer(Traces), Granted(row),
             NEW n, db'.transfers[n] = row
      PROVE  db'.transfers[n].to \in saved'
  BY <1>3 DEF Granted, Grant
<1> QED
  BY <1>2, <1>3, RowsOfStep DEF RangesSaved

\* Every step keeps every transfer paid for by its range.
LEMMA RangePaysStep == ASSUME Inv, [Next]_vars PROVE RangePays'
<1>0. TypeOK /\ TypeOK' /\ Grows /\ RangesSaved /\ RangePays
  BY TypeStep, StepGrows DEF Inv
<1>1. ASSUME NEW i \in DOMAIN db.transfers PROVE Pays(db.transfers[i])'
  BY <1>0, <1>1, PaysStays DEF RangesSaved, RangePays
<1>2. ASSUME NEW row \in Transfer(Traces), Granted(row),
             NEW n, db'.transfers[n] = row
      PROVE  Pays(db.transfers[n])'
  <2>1. Pays(row) /\ saved' = saved /\ utxos' = utxos
    BY <1>2 DEF Granted, Grant, Assign
  <2> QED
    BY <1>2, <2>1 DEF Pays, Covers, RangeOf, Value
<1>3. \A i \in DOMAIN db'.transfers : Pays(db.transfers[i])'
  BY <1>1, <1>2, RowsOfStep
<1> QED
  BY <1>3 DEF RangePays

\* Every step keeps one transfer per trace, as it was requested.
LEMMA OnceAsRequestedStep == ASSUME Inv, [Next]_vars PROVE OnceAsRequested'
<1>0. TypeOK /\ TypeOK' /\ Grows /\ OnceAsRequested
  BY TypeStep, StepGrows DEF Inv
<1> DEFINE old == DOMAIN db.transfers
<1>1. ASSUME NEW i \in old
      PROVE  /\ AsRequested(db'.transfers[i])
             /\ \A j \in old : db'.transfers[j].trace = db'.transfers[i].trace => i = j
  BY <1>0, <1>1 DEF OnceAsRequested, AsRequested, Grows, Same
<1>2. CASE DOMAIN db'.transfers = old
  BY <1>1, <1>2 DEF OnceAsRequested, AsRequested
<1>3. ASSUME NEW row \in Transfer(Traces), Granted(row),
             NEW n, DOMAIN db'.transfers = old \cup {n}, db'.transfers[n] = row
      PROVE  OnceAsRequested'
  <2>1. AsRequested(row) /\ \A i \in old : db'.transfers[i].trace # row.trace
    BY <1>0, <1>3 DEF Granted, Grant, Assign, CanAssign, HasTrace, Grows, Same
  <2> QED
    BY <1>1, <1>3, <2>1 DEF OnceAsRequested, AsRequested
<1> QED
  BY <1>2, <1>3, RowsOfStep

-----------------------------------------------------------------------------
(* The theorems.                                                           *)

\* Nothing is saved, assigned or listed in the beginning.
LEMMA InvInit == Init => Inv
<1> SUFFICES ASSUME Init PROVE Inv
  OBVIOUS
<1>1. TypeOK
  BY TypeInit
<1>2. /\ db.transfers = << >> /\ DOMAIN db.transfers = {} /\ saved = {}
      /\ db.outputs = {} /\ \A a \in Accounts : db.assigns[a] = 0
  BY EmptySeq DEF Init, EmptyDb
<1>3. ReplicasLag
  BY <1>2 DEF ReplicasLag, Lags, Init, RpcInit, EmptyDb
<1>4. HandlerClaims /\ MergerClaims
  BY DEF HandlerClaims, MergerClaims, Init, RpcInit, MergeInit, Idle, Looping
<1> QED
  BY <1>1, <1>2, <1>3, <1>4
  DEF Inv, DbComplete, RangesSaved, RangePays,
      OnceAsRequested

\* The parts of the invariant together are preserved by every step.
LEMMA InvStep == Inv /\ [Next]_vars => Inv'
<1> SUFFICES ASSUME Inv, [Next]_vars PROVE Inv'
  OBVIOUS
<1>1. TypeOK'
  BY TypeStep DEF Inv
<1> QED
  BY <1>1, DbCompleteStep, ReplicasLagStep, HandlerClaimsStep, MergerClaimsStep,
     RangesSavedStep, RangePaysStep, OnceAsRequestedStep
  DEF Inv

\* The inductive invariant holds in every reachable state of the servers, the
\* workers and the tables.
THEOREM Invariance == Spec => []Inv
  BY InvInit, InvStep, PTL DEF Spec

\* The range of every transfer pays for it within one transaction.
THEOREM RangesPay == Spec => []RangePays
<1>1. Inv => RangePays
  BY DEF Inv
<1> QED
  BY <1>1, Invariance, PTL

\* A trace has one transfer, which a request of the trace asked for.
THEOREM TracesOnceAsRequested == Spec => []OnceAsRequested
<1>1. Inv => OnceAsRequested
  BY DEF Inv
<1> QED
  BY <1>1, Invariance, PTL

-----------------------------------------------------------------------------
(* The promise to the rest of the wallet.                                  *)

\* A granted transfer is the row that the step inserts.
LEMMA GrantedIsInserted ==
  ASSUME TypeOK, NEW row \in Transfer(Traces), Granted(row)
  PROVE  \E i \in DOMAIN db'.transfers : db'.transfers[i] = row
<1>1. db'.transfers = Append(db.transfers, row)
  BY DEF Granted, Grant, Assign, TypeOK, Tables
<1>2. db.transfers \in Seq(Transfer(Traces)) /\ Len(db.transfers) \in Nat
  BY Basics
<1>3. /\ Append(db.transfers, row) \in Seq(Transfer(Traces))
      /\ Len(Append(db.transfers, row)) = Len(db.transfers) + 1
      /\ Append(db.transfers, row)[Len(db.transfers) + 1] = row
  BY <1>2, AppendProperties
<1>4. Len(db.transfers) + 1 \in DOMAIN db'.transfers
  BY <1>1, <1>2, <1>3, LenProperties
<1> QED
  BY <1>1, <1>3, <1>4

\* Every step is one that Claims allows, or changes nothing that Claims is about.
LEMMA ClaimStep == ASSUME Inv, [Next]_vars PROVE [ClaimNext]_claimVars
<1>0. TypeOK
  BY DEF Inv
<1>1. CASE UNCHANGED <<utxos, db, saved>>
  BY <1>1 DEF claimVars
<1>2. ASSUME NEW row \in Transfer(Traces), Granted(row) PROVE ClaimNext
  <2>1. PICK i \in DOMAIN db'.transfers : db'.transfers[i] = row
    BY <1>0, <1>2, GrantedIsInserted
  <2>2. Grant(db'.transfers[i])
    BY <1>2, <2>1 DEF Granted
  <2> QED
    BY <2>2 DEF ClaimNext
<1>3. ASSUME NEW out \in Arrivals, Arrive(out) PROVE ClaimNext
  <2>1. /\ utxos' \in Seq(Utxo) /\ Len(utxos) <= Len(utxos')
        /\ \A s \in 1..Len(utxos) : utxos'[s] = utxos[s]
    BY <1>0, <1>3, GenesisIsListed, ConcatProperties, Basics DEF Arrive, TypeOK
  <2>2. Extend
    BY <1>0, <1>3, <2>1, Basics DEF Extend, Arrive
  <2> QED
    BY <2>2 DEF ClaimNext
<1> QED
  BY <1>1, <1>2, <1>3, Steps DEF ClaimNext

\* Servers and cleaners keep the promise that the syncers, the cleaners and the
\* cashiers work with: they only ever grant transfers the next outputs of their
\* accounts.
THEOREM ImplementsClaims == Spec => ClaimSpec
<1>1. Init => ClaimInit
  BY GenesisIsListed DEF Init, ClaimInit
<1>2. Inv /\ [Next]_vars => [ClaimNext]_claimVars
  BY ClaimStep
<1> QED
  BY <1>1, <1>2, Invariance, PTL DEF Spec, ClaimSpec

\* No output is ever given to two transfers, by servers and cleaners that share
\* nothing but the optimistic lock of the assign transaction.
THEOREM OutputsAssignedOnce == Spec => []NoDoubleAssign
  BY ImplementsClaims, ClaimsAssignOnce

\* No output that the offset has passed is lost to the wallet.
THEOREM OutputsNeverStranded == Spec => []NothingStranded
  BY ImplementsClaims, ClaimsStrandNothing

-----------------------------------------------------------------------------
(* Answers.                                                                *)

\* A handler that is about to answer without an error has its transfer.
AnswersDurable ==
  /\ AckDurable
  /\ \A h \in Handlers : handler[h].pc = "reply" /\ handler[h].ok
                         => HasTrace(db, handler[h].req.trace)

\* A call that returns without an error has its transfer, for its followers too.
LEMMA ReturnAnswers ==
  ASSUME TypeOK, TypeOK', Grows, AnswersDurable, acked' = acked,
         NEW h \in Handlers, NEW ok \in BOOLEAN, Return(h, ok),
         ok => HasTrace(db', handler[h].req.trace)
  PROVE  AnswersDurable'
<1>1. ASSUME NEW t, HasTrace(db, t) PROVE HasTrace(db', t)
  BY <1>1, TraceStays
<1>2. ASSUME NEW g \in Handlers, handler'[g].pc = "reply", handler'[g].ok
      PROVE  HasTrace(db', handler'[g].req.trace)
  <2>1. CASE g \in {h} \cup Followers(h)
    BY <1>2, <2>1 DEF Return, Followers, Idle
  <2>2. CASE g \notin {h} \cup Followers(h)
    BY <1>1, <1>2, <2>2 DEF Return, AnswersDurable
  <2> QED
    BY <2>1, <2>2
<1> QED
  BY <1>1, <1>2 DEF AnswersDurable, AckDurable, HasTrace

\* A handler says that it succeeded only when its trace has a transfer, and an
\* answer is recorded only then.
LEMMA AnswersDurableStep ==
  ASSUME Inv, AnswersDurable, [Next]_vars PROVE AnswersDurable'
<1>0. TypeOK /\ TypeOK' /\ Grows /\ DbComplete /\ ReplicasLag
  BY TypeStep, StepGrows DEF Inv
<1>1. ASSUME NEW t, HasTrace(db, t) PROVE HasTrace(db', t)
  BY <1>0, <1>1, TraceStays
<1>2. ASSUME acked' = acked,
             \A g \in Handlers : \/ handler'[g] = handler[g]
                                 \/ handler'[g].pc # "reply"
      PROVE  AnswersDurable'
  BY <1>1, <1>2 DEF AnswersDurable, AckDurable, HasTrace
<1>3. ASSUME NEW h \in Handlers, FindTrace(h) PROVE AnswersDurable'
  <2>1. PICK d \in Snapshots :
          IF HasTrace(d, handler[h].req.trace)
            THEN Return(h, TRUE)
            ELSE handler' = [handler EXCEPT ![h].pc = "offset"]
    BY <1>3 DEF FindTrace
  <2>2. acked' = acked /\ db' = db
    BY <1>3 DEF FindTrace
  <2>3. CASE HasTrace(d, handler[h].req.trace)
    <3>1. HasTrace(db, handler[h].req.trace)
      BY <1>0, <2>3, SnapshotLags DEF Lags, HasTrace
    <3> QED
      BY <1>0, <1>1, <2>1, <2>2, <2>3, <3>1, ReturnAnswers
  <2>4. CASE ~HasTrace(d, handler[h].req.trace)
    BY <1>0, <1>2, <2>1, <2>2, <2>4 DEF TypeOK, HandlerType, Handler
  <2> QED
    BY <2>3, <2>4
<1>4. ASSUME NEW h \in Handlers, acked' = acked, Return(h, FALSE)
      PROVE  AnswersDurable'
  BY <1>0, <1>4, ReturnAnswers
<1>5. ASSUME NEW h \in Handlers, AssignTransfer(h), UNCHANGED saved
      PROVE  AnswersDurable'
  <2>1. acked' = acked
    BY <1>5 DEF AssignTransfer
  <2>2. PICK from \in handler[h].outputs, to \in handler[h].outputs :
          \/ /\ Assign(TransferOf(handler[h].req, from, to), handler[h].offset)
             /\ \E ok \in BOOLEAN : Return(h, ok)
          \/ Return(h, FALSE)
    BY <1>5 DEF AssignTransfer
  <2>3. CASE /\ Assign(TransferOf(handler[h].req, from, to), handler[h].offset)
             /\ \E ok \in BOOLEAN : Return(h, ok)
    <3> DEFINE row == TransferOf(handler[h].req, from, to)
    <3>1. db'.transfers = Append(db.transfers, row)
      BY <1>0, <2>3 DEF Assign, TypeOK, Tables
    <3>2. /\ handler[h].req \in Requests /\ from \in Nat /\ to \in Nat
      BY <1>0, <1>5 DEF AssignTransfer, TypeOK, HandlerType, Handler
    <3>3. row \in Transfer(Traces) /\ row.trace = handler[h].req.trace
      BY <3>2, TransferOfType DEF TransferOf
    <3>4. /\ db.transfers \in Seq(Transfer(Traces))
          /\ Len(db.transfers) \in Nat
      BY <1>0, Basics
    <3>5. /\ DOMAIN Append(db.transfers, row) = 1..(Len(db.transfers) + 1)
          /\ Append(db.transfers, row)[Len(db.transfers) + 1] = row
      BY <3>3, <3>4, AppendProperties, LenProperties
    <3>6. HasTrace(db', handler[h].req.trace)
      BY <3>1, <3>3, <3>4, <3>5 DEF HasTrace
    <3> QED
      BY <1>0, <2>1, <2>3, <3>6, ReturnAnswers
  <2> QED
    BY <1>4, <2>1, <2>2, <2>3
<1>6. ASSUME NEW h \in Handlers, NEW r \in Requests, Receive(h, r)
      PROVE  AnswersDurable'
  BY <1>0, <1>2, <1>6 DEF Receive, TypeOK, HandlerType, Idle
<1>7. ASSUME NEW h \in Handlers, GetAssignOffset(h) PROVE AnswersDurable'
  <2>1. PICK d \in Snapshots :
          handler' = [handler EXCEPT ![h].pc = "list",
                        ![h].offset = d.assigns[Account(handler[h].req)]]
    BY <1>7 DEF GetAssignOffset
  <2> QED
    BY <1>0, <1>2, <1>7, <2>1 DEF GetAssignOffset, TypeOK, HandlerType, Handler
<1>8. ASSUME NEW h \in Handlers, ListOutputs(h) PROVE AnswersDurable'
  <2>1. PICK S :
          \/ handler' = [handler EXCEPT ![h].pc = "assign", ![h].outputs = S]
          \/ handler' = [handler EXCEPT ![h].pc = "merge", ![h].outputs = S]
          \/ Return(h, FALSE)
    BY <1>8 DEF ListOutputs
  <2>2. acked' = acked
    BY <1>8 DEF ListOutputs
  <2> QED
    BY <1>0, <1>2, <1>4, <2>1, <2>2 DEF TypeOK, HandlerType, Handler
<1>9. ASSUME NEW h \in Handlers, Respond(h) PROVE AnswersDurable'
  <2>1. /\ handler'[h].pc # "reply"
        /\ \A g \in Handlers \ {h} : handler'[g] = handler[g]
    BY <1>0, <1>9 DEF Respond, TypeOK, HandlerType, Idle
  <2>2. \A t \in acked' : HasTrace(db, t)
    BY <1>9 DEF Respond, AnswersDurable, AckDurable
  <2> QED
    BY <1>1, <2>1, <2>2 DEF AnswersDurable, AckDurable, HasTrace
<1>10. ASSUME NEW server \in Servers, Crash(server) PROVE AnswersDurable'
  BY <1>0, <1>2, <1>10 DEF Crash, Idle
<1>11. ASSUME UNCHANGED <<handler, acked>> PROVE AnswersDurable'
  BY <1>2, <1>11
<1> QED
  BY <1>3, <1>4, <1>5, <1>6, <1>7, <1>8, <1>9, <1>10, <1>11
  DEF Next, vars, RpcNext, Serve, AssignMerge, Abort, Replicate, Environment

\* A request that was answered without an error has its transfer for ever.
THEOREM AnswersLast == Spec => []AckDurable
<1>1. Init => AnswersDurable
  BY DEF Init, RpcInit, AnswersDurable, AckDurable, Idle
<1>2. Inv /\ AnswersDurable /\ [Next]_vars => AnswersDurable'
  BY AnswersDurableStep
<1>3. AnswersDurable => AckDurable
  BY DEF AnswersDurable
<1> QED
  BY <1>1, <1>2, <1>3, Invariance, PTL DEF Spec
=============================================================================
