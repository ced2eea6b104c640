--------------------------- MODULE CreateTransfer ---------------------------
(***************************************************************************)
(* The RPC servers' CreateTransfer: check the request, join the call of    *)
(* the same trace that is already running in this process (singleflight),  *)
(* look the trace up, read the account's assign offset, list outputs above *)
(* it, and assign them to the transfer in one transaction.                 *)
(*                                                                         *)
(* Reads and transactions of concurrent requests interleave.  With         *)
(* replicas configured every query goes to one of them, and a replica is   *)
(* an earlier state of the primary; transactions go to the primary.        *)
(***************************************************************************)
EXTENDS Ledger

CONSTANTS
  Servers,            \* server processes on the one database
  Handlers,           \* requests being served at once
  ServerOf,           \* the process that runs a handler
  Replicas,           \* read replicas of the database, perhaps none
  ClientIds,          \* trace_ids that clients choose
  Requests,           \* what clients send, each any number of times
  NoRequest,          \* an idle handler's request
  NoUser,             \* the empty user_id
  DefaultUser,        \* client_id of the dapp
  ConfiguredBlocked   \* rpc.blocked_assets of config.yaml

\* Traces are uuids.  The first component says who chose one: no client's is
\* the uuid of a merge.
ClientTraces == {"client"} \X ClientIds

Request ==
  [trace : ClientTraces, user : Users \cup {NoUser}, asset : Assets,
   amount : Nat \ {0}, opponent : Opponents]

\* The trace of a merge is a name-based uuid of its range.
MergeTrace(from, to) == <<"merge", from, to>>

ASSUME ServersOfHandlers == ServerOf \in [Handlers -> Servers]
ASSUME RequestsAreRequests ==
  /\ Requests \subseteq Request
  /\ NoRequest \notin Requests
  /\ DefaultUser \in Users

VARIABLES
  handler,   \* the local state of every handler
  replica,   \* the state of the tables every replica has applied
  acked      \* ghost: traces a server has answered without an error

rpcVars == <<handler, replica, acked>>

Running == {"find", "offset", "list", "assign", "merge"}

Handler ==
  [pc : Running \cup {"idle", "wait", "reply"}, req : Requests \cup {NoRequest},
   offset : Nat, outputs : SUBSET Nat, ok : BOOLEAN]

HandlerType ==
  /\ handler \in [Handlers -> Handler]
  /\ \A h \in Handlers : handler[h].pc # "idle" => handler[h].req \in Requests

Idle ==
  [pc |-> "idle", req |-> NoRequest, offset |-> 0, outputs |-> {}, ok |-> FALSE]

\* The blocked assets the server works with: provideRpcConfig asks the global
\* viper, and config.yaml was read into another instance.
BlockedAssets == {}

Account(r) ==
  <<IF r.user = NoUser THEN DefaultUser ELSE r.user, r.asset>>

\* What a query may be answered from.
Snapshots ==
  IF Replicas = {} THEN {db} ELSE {replica[r] : r \in Replicas}

RpcInit ==
  /\ handler = [h \in Handlers |-> Idle]
  /\ replica = [r \in Replicas |-> EmptyDb]
  /\ acked = {}

-----------------------------------------------------------------------------

\* Handlers of the same process that run createTransfer for the trace.
Leaders(h, trace) ==
  {g \in Handlers : /\ ServerOf[g] = ServerOf[h]
                    /\ handler[g].pc \in Running
                    /\ handler[g].req.trace = trace}

\* Those that wait for the handler's call.
Followers(h) ==
  {g \in Handlers : /\ ServerOf[g] = ServerOf[h]
                    /\ handler[g].pc = "wait"
                    /\ handler[g].req.trace = handler[h].req.trace}

\* Mutants of Return: the followers do not see the error ...
ReturnOkToFollowers(h, ok) ==
  handler' = [g \in Handlers |->
                IF g \in {h} \cup Followers(h)
                  THEN [Idle EXCEPT !.pc = "reply", !.req = handler[g].req,
                                    !.ok = ok \/ g # h]
                  ELSE handler[g]]

\* ... the error is lost for everyone ...
ReturnAlwaysOk(h, ok) ==
  handler' = [g \in Handlers |->
                IF g \in {h} \cup Followers(h)
                  THEN [Idle EXCEPT !.pc = "reply", !.req = handler[g].req,
                                    !.ok = TRUE]
                  ELSE handler[g]]

\* ... and the followers are not woken.
ReturnToLeader(h, ok) ==
  handler' = [handler EXCEPT ![h] =
                [Idle EXCEPT !.pc = "reply", !.req = handler[h].req, !.ok = ok]]

\* The call ends: the leader and its followers share the result.
Return(h, ok) ==
  handler' = [g \in Handlers |->
                IF g \in {h} \cup Followers(h)
                  THEN [Idle EXCEPT !.pc = "reply", !.req = handler[g].req,
                                    !.ok = ok]
                  ELSE handler[g]]

\* A request passes the checks and enters singleflight.
Receive(h, r) ==
  /\ handler[h].pc = "idle"
  /\ r.asset \notin BlockedAssets
  /\ handler' = [handler EXCEPT ![h] =
       [Idle EXCEPT !.req = r,
                    !.pc = IF Leaders(h, r.trace) = {} THEN "find" ELSE "wait"]]
  /\ UNCHANGED <<utxos, db, replica, acked>>

\* transfers.FindTrace: a transfer that exists is answered as it is.
FindTrace(h) ==
  /\ handler[h].pc = "find"
  /\ \E d \in Snapshots :
       IF HasTrace(d, handler[h].req.trace)
         THEN Return(h, TRUE)
         ELSE handler' = [handler EXCEPT ![h].pc = "offset"]
  /\ UNCHANGED <<utxos, db, replica, acked>>

\* transfers.GetAssignOffset
GetAssignOffset(h) ==
  /\ handler[h].pc = "offset"
  /\ \E d \in Snapshots :
       handler' = [handler EXCEPT ![h].pc = "list",
                     ![h].offset = d.assigns[Account(handler[h].req)]]
  /\ UNCHANGED <<utxos, db, replica, acked>>

\* outputs.ListTarget: outputs that reach the amount are assigned, a full page
\* of small ones is merged, anything else (nothing at all included) is an error.
ListOutputs(h) ==
  LET r == handler[h].req
      Goto(pc, S) == handler' = [handler EXCEPT ![h].pc = pc, ![h].outputs = S]
  IN
  /\ handler[h].pc = "list"
  /\ \E d \in Snapshots :
     \E S \in Scans(ListTarget(d, Account(r), handler[h].offset, r.amount, Limit)) :
       \/ Value(S) >= r.amount /\ Goto("assign", S)
       \/ Value(S) < r.amount /\ Cardinality(S) = Limit /\ Goto("merge", S)
       \/ Value(S) < r.amount /\ Cardinality(S) # Limit /\ Return(h, FALSE)
  /\ UNCHANGED <<utxos, db, replica, acked>>

\* Mutant of TransferOf: the row is inserted as pending.
TransferPending(r, from, to) ==
  [trace |-> r.trace, account |-> Account(r), amount |-> r.amount,
   opponent |-> r.opponent, from |-> from, to |-> to, status |-> "pending"]

\* The transfer of a request, with the range of the listed outputs.
TransferOf(r, from, to) ==
  [trace |-> r.trace, account |-> Account(r), amount |-> r.amount,
   opponent |-> r.opponent, from |-> from, to |-> to, status |-> "assigned"]

\* transfers.Assign of the request.  The error of a commit may be lost on the
\* way back, so a failed call may have committed.
AssignTransfer(h) ==
  /\ handler[h].pc = "assign"
  /\ \E from, to \in handler[h].outputs :
       LET row == TransferOf(handler[h].req, from, to) IN
       /\ Spans(handler[h].outputs, from, to)
       /\ \/ Assign(row, handler[h].offset) /\ \E ok \in BOOLEAN : Return(h, ok)
          \/ AssignFails(row, handler[h].offset) /\ Return(h, FALSE)
  /\ UNCHANGED <<utxos, replica, acked>>

\* transfers.Assign of a merge; the request fails whatever comes of it.
AssignMerge(h) ==
  /\ handler[h].pc = "merge"
  /\ \E from, to \in handler[h].outputs :
       LET row == MergeOf(MergeTrace(from, to), Account(handler[h].req),
                          handler[h].outputs, from, to) IN
       /\ Spans(handler[h].outputs, from, to)
       /\ \/ Assign(row, handler[h].offset)
          \/ AssignFails(row, handler[h].offset)
  /\ Return(h, FALSE)
  /\ UNCHANGED <<utxos, replica, acked>>

\* A query fails, Begin panics, or the context of the first caller is
\* cancelled: the call ends with an error for everyone who shares it.
Abort(h) ==
  /\ handler[h].pc \in Running
  /\ Return(h, FALSE)
  /\ UNCHANGED <<utxos, db, replica, acked>>

\* The answer leaves the server.
Respond(h) ==
  /\ handler[h].pc = "reply"
  /\ handler' = [handler EXCEPT ![h] = Idle]
  /\ acked' = IF handler[h].ok THEN acked \cup {handler[h].req.trace} ELSE acked
  /\ UNCHANGED <<utxos, db, replica>>

\* A server stops: Shutdown is given the context that is already cancelled, so
\* requests in flight are cut off as in a crash.
Crash(server) ==
  /\ \E h \in Handlers : ServerOf[h] = server /\ handler[h].pc # "idle"
  /\ handler' = [h \in Handlers |->
                   IF ServerOf[h] = server THEN Idle ELSE handler[h]]
  /\ UNCHANGED <<utxos, db, replica, acked>>

\* A replica catches up with the primary.
Replicate(r) ==
  /\ replica[r] # db
  /\ replica' = [replica EXCEPT ![r] = db]
  /\ UNCHANGED <<utxos, db, handler, acked>>

Serve(h) ==
  \/ FindTrace(h)
  \/ GetAssignOffset(h)
  \/ ListOutputs(h)
  \/ AssignTransfer(h)
  \/ AssignMerge(h)
  \/ Abort(h)
  \/ Respond(h)

RpcNext ==
  \/ \E h \in Handlers, r \in Requests : Receive(h, r)
  \/ \E h \in Handlers : Serve(h)
  \/ \E server \in Servers : Crash(server)
  \/ \E r \in Replicas : Replicate(r)
=============================================================================
