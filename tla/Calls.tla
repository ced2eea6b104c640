-------------------------------- MODULE Calls --------------------------------
(***************************************************************************)
(* Calls of the service: the command line tool and other generated clients *)
(* call it by Twirp, and HTTP clients through a front end that makes Twirp *)
(* calls of their requests. Requests, responses and servers get lost;      *)
(* proxies answer by themselves; clients give up while the server goes on, *)
(* and call again.                                                         *)
(*                                                                         *)
(* What CreateTransfer does is the promise that Assignment keeps: a trace  *)
(* is assigned at most once, and an answer without an error means that it  *)
(* was. A transfer or wallet carries the call that made it.                *)
(***************************************************************************)
EXTENDS Twirp

CONSTANTS
  Callers,   \* users, each of whom wants to pay once, or to have wallets
  Via,       \* how a caller calls: by a generated client, "twirp", or by "http"
  Named,     \* callers that name the trace of their transfer
  Wants,     \* what callers may want of the service: which methods each uses
  MaxCalls   \* bound: calls of a caller

Methods == {"CreateTransfer", "FindTransfer", "CreateWallet", "FindWallet"}

ASSUME CallsAssumption ==
  /\ Via \in [Callers -> {"twirp", "http"}]
  /\ Named \subseteq Callers
  /\ Wants \subseteq [Callers -> SUBSET Methods]
  /\ MaxCalls \in Nat \ {0}

VARIABLES
  calls,      \* the n-th call of each caller
  transfers,  \* the transfers that were assigned
  wallets,    \* the wallets that were inserted
  wants       \* the methods that each caller uses

vars == <<calls, transfers, wallets, wants>>

Ids == Callers \X (1 .. MaxCalls)

-----------------------------------------------------------------------------
(* Messages. "payment" stands for asset, amount, opponents and threshold.  *)

CreateTransferRequest == {"trace_id", "payment", "memo"}
FindTransferRequest == {"trace_id"}
CreateWalletRequest == {"label"}
FindWalletRequest == {"user_id"}

FieldsOf(method) ==
  CASE method = "CreateTransfer" -> CreateTransferRequest
    [] method = "FindTransfer" -> FindTransferRequest
    [] method = "CreateWallet" -> CreateWalletRequest
    [] method = "FindWallet" -> FindWalletRequest

Required == {"trace_id", "payment"}

\* Mutant of TraceOf: the trace is always generated.
TraceOfEveryCall(i) == i

\* transferCmd: a call without a trace gets a new one.
TraceOf(i) == IF i[1] \in Named THEN <<i[1], 0>> ELSE i

Traces == Ids \cup {<<c, 0>> : c \in Named}

Transfer == [trace : Traces, call : Ids, fields : SUBSET CreateTransferRequest]
WalletOf == [call : Ids, fields : SUBSET CreateWalletRequest]

\* The server gets all of the body or not; of a request that is cut off, query
\* is what an HTTP client put in the path and query, the rest being in the body.
Call ==
  [pc : {"none", "sent", "serving", "did", "reply", "gone"}, method : Methods,
   query : SUBSET UNION {FieldsOf(m) : m \in Methods}, whole : BOOLEAN,
   reply : Response, heard : Codes \cup {"ok", "waiting"}]

NoCall == [pc |-> "none", method |-> "FindWallet", query |-> {}, whole |-> TRUE,
           reply |-> Plain(404), heard |-> "waiting"]

\* HTTP clients of the front end put any fields in the query, those of a lookup
\* in the path; Twirp calls have a body only.
Queries(c, method) ==
  IF Via[c] # "http" THEN {{}}
  ELSE IF method \in {"FindTransfer", "FindWallet"} THEN {FieldsOf(method)}
  ELSE SUBSET FieldsOf(method)

\* Mutant of Decodes: the server drops the error as well.
DecodesWhatIsLeft(i) == calls[i].whole \/ "payment" \notin calls[i].query

\* The front end drops the error of a body that it cannot decode, and sends what
\* it has: the wildcard of the route that it is mounted on, which no message has a
\* field for, with path and query. So the service gets a request even if these
\* are empty. Opponents of a query are one string, which it does not take for a
\* list. A body that comes from a generated client has to be whole.
Decodes(i) ==
  \/ calls[i].whole
  \/ Via[i[1]] = "http" /\ "payment" \notin calls[i].query

\* reversetwirp: path, then query, then body.
Got(i) == IF calls[i].whole THEN FieldsOf(calls[i].method) ELSE calls[i].query

-----------------------------------------------------------------------------
(* Clients.                                                                *)

Fresh(i) == i \in Ids /\ calls[i].pc = "none"
               /\ (i[2] > 1 => calls[<<i[1], i[2] - 1>>].pc # "none"
                              /\ calls[<<i[1], i[2] - 1>>].heard # "waiting")

\* A caller that names its trace pays again whenever it likes; one that does
\* not only after it was told that nothing was done.
MayPay(c) ==
  \/ c \in Named
  \/ \A n \in 1 .. MaxCalls :
       calls[<<c, n>>].pc # "none" /\ calls[<<c, n>>].method = "CreateTransfer"
         => calls[<<c, n>>].heard \in Refusals

Send(c) ==
  \E n \in 1 .. MaxCalls, m \in wants[c] :
    /\ Fresh(<<c, n>>)
    /\ m = "CreateTransfer" => MayPay(c)
    /\ \/ calls' = [calls EXCEPT ![<<c, n>>] = [NoCall EXCEPT !.pc = "sent", !.method = m]]
       \/ \E query \in Queries(c, m) : calls' = [calls EXCEPT ![<<c, n>>] =
            [NoCall EXCEPT !.pc = "sent", !.method = m, !.whole = FALSE, !.query = query]]
    /\ UNCHANGED <<transfers, wallets, wants>>

Waiting(i) == calls[i].pc # "none" /\ calls[i].heard = "waiting"

Hear(i, code) == calls' = [calls EXCEPT ![i].heard = code]

\* The call is over; its client has heard the code, or had given up before.
Over(i, code) ==
  calls' = [calls EXCEPT ![i] = [NoCall EXCEPT
    !.pc = "gone", !.method = calls[i].method,
    !.heard = IF Waiting(i) THEN code ELSE calls[i].heard]]

\* The response arrives; one that is cut off, or does not parse, is an error.
Receive(i) ==
  /\ Waiting(i) /\ calls[i].pc = "reply"
  /\ \/ Over(i, Learned(Via[i[1]], calls[i].reply))
     \/ Over(i, "internal")
  /\ UNCHANGED <<transfers, wallets, wants>>

\* The context is done or the connection breaks: the server may never get the
\* request, or still be serving it.
GiveUp(i) ==
  /\ Waiting(i)
  /\ \/ calls[i].pc # "reply" /\ Hear(i, "internal")
     \/ calls[i].pc = "sent" /\ Over(i, "internal")
  /\ UNCHANGED <<transfers, wallets, wants>>

\* A proxy refuses a request that it does not forward, or gives up on the server.
Intermediary(i) ==
  /\ Waiting(i)
  /\ \/ /\ calls[i].pc = "sent"
        /\ \E status \in Statuses \ {200} :
             Over(i, Learned(Via[i[1]], Plain(status)))
     \/ /\ calls[i].pc # "reply"
        /\ \E status \in {502, 503, 504} :
             Hear(i, Learned(Via[i[1]], Plain(status)))
  /\ UNCHANGED <<transfers, wallets, wants>>

-----------------------------------------------------------------------------
(* Servers.                                                                *)

\* A response that nobody waits for is written to a closed connection.
Reply(i, response) ==
  IF Waiting(i) THEN calls' = [calls EXCEPT ![i].pc = "reply", ![i].reply = response]
                ELSE Over(i, "internal")

\* Another verb, path, prefix, method or content type than the service has; the
\* router answers some of them itself.
BadRoute(i) ==
  /\ calls[i].pc = "sent"
  /\ \E response \in {writeError("bad_route"), Plain(404), Plain(405)} : Reply(i, response)
  /\ UNCHANGED <<transfers, wallets, wants>>

handleRequestBodyError(i) ==
  /\ calls[i].pc = "sent" /\ ~ Decodes(i)
  /\ \E code \in {"canceled", "deadline_exceeded", "malformed"} : Reply(i, writeError(code))
  /\ UNCHANGED <<transfers, wallets, wants>>

ServeHTTP(i) ==
  /\ calls[i].pc = "sent" /\ Decodes(i)
  /\ calls' = [calls EXCEPT ![i].pc = "serving"]
  /\ UNCHANGED <<transfers, wallets, wants>>

Serving(i, method) == calls[i].pc = "serving" /\ calls[i].method = method

\* Mutant of HandlerFails: the error is logged only.
HandlerFailsSilently(i) ==
  /\ calls[i].pc \in {"serving", "did"}
  /\ Reply(i, Ok)
  /\ UNCHANGED <<transfers, wallets, wants>>

\* A handler panics, or ends with an error of the database or the network.
HandlerFails(i) ==
  /\ calls[i].pc \in {"serving", "did"}
  /\ Reply(i, writeError(NoCode)) \/ Reply(i, ensurePanicResponses)
  /\ UNCHANGED <<transfers, wallets, wants>>

Assigned(trace) == \E t \in transfers : t.trace = trace

\* CreateTransfer: refused by its checks, or for want of outputs ...
RefuseTransfer(i) ==
  /\ Serving(i, "CreateTransfer")
  /\ \/ Reply(i, writeError("aborted"))
     \/ Reply(i, writeError("invalid_argument"))
  /\ UNCHANGED <<transfers, wallets, wants>>

\* ... or assigned, or found to be assigned already ...
AssignTransfer(i) ==
  /\ Serving(i, "CreateTransfer") /\ Required \subseteq Got(i)
  /\ transfers' = IF Assigned(TraceOf(i)) THEN transfers
       ELSE transfers \cup {[trace |-> TraceOf(i), call |-> i, fields |-> Got(i)]}
  /\ calls' = [calls EXCEPT ![i].pc = "did"]
  /\ UNCHANGED <<wallets, wants>>

\* ... and answered.
serveCreateTransfer(i) ==
  /\ calls[i].pc = "did" /\ calls[i].method = "CreateTransfer"
  /\ Reply(i, Ok)
  /\ UNCHANGED <<transfers, wallets, wants>>

\* The transfer of a trace, if the database that is asked has it already.
FindTransfer(i) ==
  IF Assigned(TraceOf(i)) THEN {Ok, writeError("not_found")} ELSE {writeError("not_found")}

serveFindTransfer(i) ==
  /\ Serving(i, "FindTransfer")
  /\ \E response \in FindTransfer(i) : Reply(i, response)
  /\ UNCHANGED <<transfers, wallets, wants>>

\* A label is not required.
CreateWallet(i) ==
  /\ Serving(i, "CreateWallet")
  /\ wallets' = wallets \cup {[call |-> i, fields |-> Got(i)]}
  /\ calls' = [calls EXCEPT ![i].pc = "did"]
  /\ UNCHANGED <<transfers, wants>>

serveCreateWallet(i) ==
  /\ calls[i].pc = "did" /\ calls[i].method = "CreateWallet"
  /\ Reply(i, Ok)
  /\ UNCHANGED <<transfers, wallets, wants>>

serveFindWallet(i) ==
  /\ Serving(i, "FindWallet")
  /\ Reply(i, Ok)
  /\ UNCHANGED <<transfers, wallets, wants>>

\* The process stops, or cannot write the response.
Stop(i) ==
  /\ calls[i].pc \in {"sent", "serving", "did"}
  /\ Over(i, "internal")
  /\ UNCHANGED <<transfers, wallets, wants>>

-----------------------------------------------------------------------------

Init ==
  /\ calls = [i \in Ids |-> NoCall]
  /\ transfers = {}
  /\ wallets = {}
  /\ wants \in Wants

Next ==
  \/ \E c \in Callers : Send(c)
  \/ \E i \in Ids :
       \/ Receive(i) \/ GiveUp(i) \/ Intermediary(i)
       \/ BadRoute(i) \/ handleRequestBodyError(i) \/ ServeHTTP(i) \/ HandlerFails(i) \/ Stop(i)
       \/ RefuseTransfer(i) \/ AssignTransfer(i) \/ serveCreateTransfer(i)
       \/ serveFindTransfer(i) \/ CreateWallet(i) \/ serveCreateWallet(i) \/ serveFindWallet(i)

Spec == Init /\ [][Next]_vars

-----------------------------------------------------------------------------
(* Properties.                                                             *)

TypeOK ==
  /\ calls \in [Ids -> Call]
  /\ transfers \subseteq Transfer
  /\ wallets \subseteq WalletOf
  /\ wants \in Wants

Paid(c) == {t \in transfers : t.call[1] = c}

\* A caller is charged once, however many calls it took: one that names its
\* trace and retries at will, and one that leaves the trace to the tool and
\* retries only errors that say that nothing was done.
PaidOnce == \A c \in Callers : \A t, u \in Paid(c) : t = u

\* A call that was refused, by a server, the router or a proxy, made nothing and
\* will not make it after its client has turned to something else.
RefusedIsNothing ==
  \A i \in Ids : calls[i].heard \in Refusals =>
    /\ \A t \in transfers : t.call # i
    /\ \A w \in wallets : w.call # i

\* What a client is told to be done is done: the transfer of its trace is
\* assigned, or its wallet inserted, whichever error or proxy came between.
OkIsDone ==
  \A i \in Ids : calls[i].heard = "ok" =>
    /\ calls[i].method \in {"CreateTransfer", "FindTransfer"} => Assigned(TraceOf(i))
    /\ calls[i].method = "CreateWallet" => \E w \in wallets : w.call = i

\* Nothing is made of less than its caller sent: a body that is cut off never
\* becomes a transfer of what was left of it or of what path and query say,
\* through the front end neither, nor a wallet of a generated client. A wallet
\* that is made through the front end may lack its label, since the front end
\* drops the error and the service asks for none.
MadeIsWhole ==
  /\ \A t \in transfers : t.fields = CreateTransferRequest
  /\ \A w \in wallets :
       w.fields = CreateWalletRequest \/ Via[w.call[1]] = "http"
=============================================================================
