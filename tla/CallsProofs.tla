----------------------------- MODULE CallsProofs -----------------------------
(***************************************************************************)
(* What callers are told and charged, for any number of callers and calls. *)
(***************************************************************************)
EXTENDS Calls, TLAPS

\* The call made a transfer or a wallet.
Made(i) == (\E t \in transfers : t.call = i) \/ (\E w \in wallets : w.call = i)

\* What the call asked for is there.
Done(i) ==
  /\ calls[i].method \in {"CreateTransfer", "FindTransfer"} => Assigned(TraceOf(i))
  /\ calls[i].method = "CreateWallet" => \E w \in wallets : w.call = i

\* A response says Ok when all is done, is an internal error, which promises
\* nothing, or the refusal of a call that made nothing.
RightReply(i, response) ==
  \/ response = Ok /\ Done(i)
  \/ response = writeError("internal")
  \/ response \in {Plain(404), Plain(405)} \cup {writeError(c) : c \in Codes} /\ ~Made(i)

CallOk(i) ==
  /\ Made(i) => calls[i].pc \in {"did", "reply", "gone"}
  /\ calls[i].query \subseteq FieldsOf(calls[i].method)
  /\ calls[i].pc = "serving" => Decodes(i)
  /\ calls[i].pc = "did" => Done(i)
  /\ calls[i].pc = "reply" => RightReply(i, calls[i].reply)
  /\ calls[i].heard = "ok" => Done(i)
  /\ calls[i].heard \in Refusals => calls[i].pc = "gone" /\ ~Made(i)

\* A transfer was asked for as it is, by a call with its trace, and no other
\* transfer has that trace.
TransfersOk ==
  /\ \A t \in transfers :
       /\ t.trace = TraceOf(t.call)
       /\ t.fields = CreateTransferRequest
       /\ calls[t.call].method = "CreateTransfer"
  /\ \A t, u \in transfers : t.trace = u.trace => t = u

\* A wallet of a generated client has all that was sent.
WalletsOk ==
  \A w \in wallets : w.fields = CreateWalletRequest \/ Via[w.call[1]] = "http"

\* A call that may pay, or may have paid.
Trying(i) ==
  /\ calls[i].pc # "none"
  /\ calls[i].method = "CreateTransfer"
  /\ calls[i].heard \notin Refusals

\* A caller that leaves the trace to the tool has one such call at most.
OneTry ==
  \A i, j \in Ids :
    i[1] = j[1] /\ i[1] \notin Named /\ Trying(i) /\ Trying(j) => i = j

IInv ==
  /\ TypeOK
  /\ \A i \in Ids : CallOk(i)
  /\ TransfersOk
  /\ WalletsOk
  /\ OneTry

-----------------------------------------------------------------------------
(* Responses.                                                              *)

\* An error has a status other than 200, and its own code.
LEMMA ErrorType ==
  ASSUME NEW c \in Codes
  PROVE  /\ writeError(c) \in Response
         /\ writeError(c).status # 200
         /\ writeError(c).status \notin 300 .. 399
         /\ writeError(c).code = c
<1>1. writeError(c) = [status |-> StatusOf(c), code |-> c]
  BY DEF writeError, Codes, NoCode
<1>2. StatusOf(c) \in {400, 401, 403, 404, 408, 409, 429, 500, 503}
  BY DEF StatusOf
<1> QED
  BY <1>1, <1>2 DEF Response, Statuses

\* What a client makes of an error is a code.
LEMMA LearnedOfError ==
  ASSUME NEW c \in Codes, NEW via
  PROVE  Learned(via, writeError(c)) \in Codes
<1>1. CASE via = "http"
  BY <1>1, ErrorType DEF Learned, ByStatus, Codes
<1>2. CASE via # "http"
  BY <1>2, ErrorType DEF Learned, doProtobufRequest, errorFromResponse, Codes, NoCode
<1> QED
  BY <1>1, <1>2

\* So is what it makes of an answer of a proxy or of the router.
LEMMA LearnedOfPlain ==
  ASSUME NEW status \in Statuses \ {200}, NEW via
  PROVE  Plain(status) \in Response /\ Learned(via, Plain(status)) \in Codes
<1>1. Plain(status) = [status |-> status, code |-> NoCode]
  BY DEF Plain
<1>2. CASE via = "http"
  BY <1>1, <1>2 DEF Response, Learned, ByStatus, Codes
<1>3. CASE via # "http"
  BY <1>1, <1>3
  DEF Response, Learned, doProtobufRequest, errorFromResponse,
      twirpErrorFromIntermediary, Codes
<1> QED
  BY <1>2, <1>3

\* Errors of a proxy that gave up, and internal ones, refuse nothing.
LEMMA LearnedOfOutage ==
  ASSUME NEW via
  PROVE  /\ \A status \in {502, 503, 504} : Learned(via, Plain(status)) \notin Refusals
         /\ Learned(via, writeError("internal")) \notin Refusals
         /\ Learned(via, Ok) = "ok"
<1>1. writeError("internal") = [status |-> 500, code |-> "internal"]
  BY DEF writeError, StatusOf, NoCode
<1>2. CASE via = "http"
  BY <1>1, <1>2 DEF Learned, ByStatus, Refusals, Plain, Ok
<1>3. CASE via # "http"
  BY <1>1, <1>3
  DEF Learned, doProtobufRequest, errorFromResponse, twirpErrorFromIntermediary,
      Refusals, Plain, Ok, NoCode
<1> QED
  BY <1>2, <1>3

\* Right replies are responses, and clients conclude from them what is right.
LEMMA RightReplyLearned ==
  ASSUME NEW i \in Ids, NEW response, RightReply(i, response), NEW via
  PROVE  /\ response \in Response
         /\ Learned(via, response) \in Codes \cup {"ok"}
         /\ Learned(via, response) = "ok" => Done(i)
         /\ Learned(via, response) \in Refusals => ~Made(i)
<1> USE DEF RightReply
<1>0. "ok" \notin Refusals /\ "ok" \notin Codes
  BY DEF Refusals, Codes
<1>1. CASE response = Ok /\ Done(i)
  <2>1. Ok \in Response
    BY DEF Ok, Response, Statuses
  <2> QED
    BY <1>0, <1>1, <2>1, LearnedOfOutage
<1>2. CASE response = writeError("internal")
  <2>1. "internal" \in Codes
    BY DEF Codes
  <2> QED
    BY <1>0, <1>2, <2>1, ErrorType, LearnedOfError, LearnedOfOutage
<1>3. CASE response \in {Plain(404), Plain(405)} /\ ~Made(i)
  <2>1. 404 \in Statuses \ {200} /\ 405 \in Statuses \ {200}
    BY DEF Statuses
  <2> QED
    BY <1>0, <1>3, <2>1, LearnedOfPlain
<1>4. CASE response \in {writeError(c) : c \in Codes} /\ ~Made(i)
  BY <1>0, <1>4, ErrorType, LearnedOfError
<1> QED
  BY <1>1, <1>2, <1>3, <1>4

-----------------------------------------------------------------------------
(* Steps of one call that make nothing.                                    *)

\* Nothing but the call changes, and not its method, nor what its client heard.
Moves(i) ==
  /\ calls' \in [Ids -> Call]
  /\ \A j \in Ids : j # i => calls'[j] = calls[j]
  /\ calls[i].pc # "none" /\ calls'[i].pc # "none"
  /\ calls'[i].method = calls[i].method
  /\ calls[i].heard # "waiting" => calls'[i].heard = calls[i].heard

\* Such a step keeps the invariant if the call itself stays right.
LEMMA MovesIInv ==
  ASSUME IInv, NEW i \in Ids, Moves(i), CallOk(i)',
         UNCHANGED <<transfers, wallets, wants>>
  PROVE  IInv'
<1>1. TypeOK'
  BY DEF IInv, TypeOK, Moves
<1>2. ASSUME NEW j \in Ids PROVE CallOk(j)'
  <2>1. CASE j = i
    BY <2>1
  <2>2. CASE j # i
    BY <2>2
    DEF IInv, Moves, CallOk, Made, Done, RightReply, Assigned, TraceOf, Decodes
  <2> QED
    BY <2>1, <2>2
<1>3. TransfersOk'
  BY DEF IInv, TypeOK, TransfersOk, Transfer, Moves, TraceOf
<1>4. OneTry'
  <2>1. \A j \in Ids : Trying(j)' => Trying(j)
    BY DEF Moves, Trying, Refusals
  <2> QED
    BY <2>1 DEF IInv, OneTry
<1>5. WalletsOk'
  BY DEF IInv, WalletsOk
<1> QED
  BY <1>1, <1>2, <1>3, <1>4, <1>5 DEF IInv

\* Its state changes, but nothing else does.
LEMMA CallType ==
  ASSUME TypeOK, NEW i \in Ids
  PROVE  /\ calls \in [Ids -> Call] /\ calls[i] \in Call
         /\ calls[i].pc \in {"none", "sent", "serving", "did", "reply", "gone"}
         /\ calls[i].method \in Methods /\ calls[i].reply \in Response
         /\ calls[i].heard \in Codes \cup {"ok", "waiting"}
  BY DEF TypeOK, Call

\* What a call is before it is sent.
LEMMA NoCallType == NoCall \in Call /\ NoCall.query = {} /\ NoCall.heard = "waiting"
<1>1. Plain(404) \in Response
  BY DEF Plain, Response, Statuses
<1> QED
  BY <1>1 DEF NoCall, Call, Methods

\* The call ends with a code that is right.
LEMMA OverIInv ==
  ASSUME IInv, NEW i \in Ids, NEW code \in Codes \cup {"ok"}, Over(i, code),
         calls[i].pc # "none",
         code = "ok" => Done(i), code \in Refusals => ~Made(i),
         UNCHANGED <<transfers, wallets, wants>>
  PROVE  IInv'
<1> DEFINE after == [NoCall EXCEPT
      !.pc = "gone", !.method = calls[i].method,
      !.heard = IF Waiting(i) THEN code ELSE calls[i].heard]
<1>1. calls' = [calls EXCEPT ![i] = after]
  BY DEF Over
<1>2. TypeOK /\ CallOk(i)
  BY DEF IInv
<1>3. /\ after \in Call /\ after.pc = "gone" /\ after.method = calls[i].method
      /\ after.heard = IF Waiting(i) THEN code ELSE calls[i].heard
      /\ after.query = {}
  <2> DEFINE heard == IF Waiting(i) THEN code ELSE calls[i].heard
  <2>1. heard \in Codes \cup {"ok", "waiting"}
    BY <1>2, CallType
  <2> HIDE DEF heard
  <2>2. after = [NoCall EXCEPT !.pc = "gone", !.method = calls[i].method, !.heard = heard]
    BY DEF heard
  <2> HIDE DEF after
  <2>3. after \in Call /\ after.pc = "gone" /\ after.method = calls[i].method
          /\ after.heard = heard /\ after.query = {}
    BY <1>2, <2>1, <2>2, NoCallType, CallType DEF Call
  <2> QED
    BY <2>3 DEF heard
<1> HIDE DEF after
<1>4. calls'[i] = after
  BY <1>1, <1>2, CallType
<1>5. Moves(i)
  BY <1>1, <1>2, <1>3, <1>4, CallType DEF Moves, Waiting
<1>6. CallOk(i)'
  BY <1>2, <1>3, <1>4, CallType
  DEF CallOk, Made, Done, Assigned, TraceOf, Waiting, Refusals
<1> QED
  BY <1>5, <1>6, MovesIInv

\* The client hears of an error before the call has ended.
LEMMA HearIInv ==
  ASSUME IInv, NEW i \in Ids, NEW code \in Codes \ Refusals, Hear(i, code), Waiting(i),
         calls[i].pc # "reply", UNCHANGED <<transfers, wallets, wants>>
  PROVE  IInv'
<1>1. TypeOK /\ CallOk(i)
  BY DEF IInv
<1>2. /\ calls' \in [Ids -> Call]
      /\ calls'[i] = [calls[i] EXCEPT !.heard = code]
      /\ \A j \in Ids : j # i => calls'[j] = calls[j]
  BY <1>1, CallType DEF Hear, Call
<1>3. /\ calls'[i].pc = calls[i].pc /\ calls'[i].method = calls[i].method
      /\ calls'[i].whole = calls[i].whole /\ calls'[i].query = calls[i].query
      /\ calls'[i].heard = code
  BY <1>1, <1>2, CallType DEF Call
<1>4. Moves(i)
  BY <1>2, <1>3 DEF Moves, Waiting
<1>5. code # "ok"
  BY DEF Codes
<1>6. CallOk(i)'
  BY <1>1, <1>3, <1>5
  DEF CallOk, Made, Done, Assigned, TraceOf, Decodes, Waiting
<1> QED
  BY <1>4, <1>6, MovesIInv

\* A right reply is written.
LEMMA ReplyIInv ==
  ASSUME IInv, NEW i \in Ids, NEW response, RightReply(i, response),
         calls[i].pc # "none", Reply(i, response),
         UNCHANGED <<transfers, wallets, wants>>
  PROVE  IInv'
<1>1. TypeOK /\ CallOk(i)
  BY DEF IInv
<1>2. response \in Response
  BY RightReplyLearned
<1>3. CASE Waiting(i)
  <2>1. calls' = [calls EXCEPT ![i].pc = "reply", ![i].reply = response]
    BY <1>3 DEF Reply
  <2>2. /\ calls' \in [Ids -> Call]
        /\ calls'[i] = [calls[i] EXCEPT !.pc = "reply", !.reply = response]
        /\ \A j \in Ids : j # i => calls'[j] = calls[j]
    BY <1>1, <1>2, <2>1, CallType DEF Call
  <2>3. /\ calls'[i].pc = "reply" /\ calls'[i].reply = response
        /\ calls'[i].method = calls[i].method /\ calls'[i].heard = calls[i].heard
        /\ calls'[i].query = calls[i].query
    BY <1>1, <2>2, CallType DEF Call
  <2>4. Moves(i)
    BY <2>2, <2>3 DEF Moves
  <2>5. CallOk(i)'
    BY <1>1, <1>3, <2>3
    DEF CallOk, RightReply, Made, Done, Assigned, TraceOf, Waiting, Refusals
  <2> QED
    BY <2>4, <2>5, MovesIInv
<1>4. CASE ~Waiting(i)
  <2>1. "internal" \in Codes /\ "internal" \notin Refusals
    BY DEF Codes, Refusals
  <2> QED
    BY <1>4, <2>1, OverIInv DEF Reply
<1> QED
  BY <1>3, <1>4

\* Nothing has been made before a handler is done.
LEMMA NotMade ==
  ASSUME IInv, NEW i \in Ids, calls[i].pc \in {"none", "sent", "serving"}
  PROVE  ~Made(i)
  BY DEF IInv, CallOk

\* A call is sent.
LEMMA SendIInv ==
  ASSUME IInv, NEW c \in Callers, Send(c)
  PROVE  IInv'
<1>1. PICK n \in 1 .. MaxCalls, m \in wants[c] :
        /\ Fresh(<<c, n>>)
        /\ m = "CreateTransfer" => MayPay(c)
        /\ \/ calls' = [calls EXCEPT ![<<c, n>>] = [NoCall EXCEPT !.pc = "sent", !.method = m]]
           \/ \E query \in Queries(c, m) : calls' = [calls EXCEPT ![<<c, n>>] =
                [NoCall EXCEPT !.pc = "sent", !.method = m, !.whole = FALSE, !.query = query]]
        /\ UNCHANGED <<transfers, wallets, wants>>
  BY DEF Send
<1> DEFINE i == <<c, n>>
<1>2. i \in Ids /\ calls[i].pc = "none"
  BY <1>1 DEF Ids, Fresh
<1>3. TypeOK /\ CallOk(i)
  BY <1>2 DEF IInv
<1>4. m \in Methods
  BY <1>3, CallsAssumption DEF TypeOK
<1>5. \A q \in Queries(c, m) : q \subseteq FieldsOf(m)
  BY DEF Queries
<1>6. PICK after \in Call :
        /\ calls' = [calls EXCEPT ![i] = after]
        /\ after.pc = "sent" /\ after.method = m /\ after.heard = "waiting"
        /\ after.query \subseteq FieldsOf(m)
  <2>1. CASE calls' = [calls EXCEPT ![i] = [NoCall EXCEPT !.pc = "sent", !.method = m]]
    <3> DEFINE sent == [NoCall EXCEPT !.pc = "sent", !.method = m]
    <3>1. /\ sent \in Call /\ sent.pc = "sent" /\ sent.method = m
          /\ sent.heard = "waiting" /\ sent.query = {}
      BY <1>4, NoCallType DEF Call
    <3> QED
      BY <2>1, <3>1
  <2>2. ASSUME NEW query \in Queries(c, m),
               calls' = [calls EXCEPT ![i] =
                 [NoCall EXCEPT !.pc = "sent", !.method = m, !.whole = FALSE, !.query = query]]
        PROVE  \E after \in Call :
                 /\ calls' = [calls EXCEPT ![i] = after]
                 /\ after.pc = "sent" /\ after.method = m /\ after.heard = "waiting"
                 /\ after.query \subseteq FieldsOf(m)
    <3> DEFINE sent ==
          [NoCall EXCEPT !.pc = "sent", !.method = m, !.whole = FALSE, !.query = query]
    <3>1. query \subseteq FieldsOf(m)
      BY <1>5
    <3>2. query \in SUBSET UNION {FieldsOf(f) : f \in Methods}
      BY <1>4, <3>1
    <3>3. /\ sent \in Call /\ sent.pc = "sent" /\ sent.method = m
          /\ sent.heard = "waiting" /\ sent.query = query
      BY <1>4, <3>2, NoCallType DEF Call
    <3> HIDE DEF sent
    <3>4. calls' = [calls EXCEPT ![i] = sent]
      BY <2>2 DEF sent
    <3> QED
      BY <3>1, <3>3, <3>4
  <2> QED
    BY <1>1, <2>1, <2>2
<1>7. /\ calls' \in [Ids -> Call] /\ calls'[i] = after
      /\ \A j \in Ids : j # i => calls'[j] = calls[j]
  BY <1>2, <1>3, <1>6, CallType
<1>8. ~Made(i)
  BY <1>2, NotMade
<1> HIDE DEF i
<1>9. TypeOK'
  BY <1>1, <1>3, <1>7 DEF TypeOK
<1>10. ASSUME NEW j \in Ids PROVE CallOk(j)'
  <2>1. CASE j = i
    BY <1>1, <1>6, <1>7, <1>8, <2>1 DEF CallOk, Made, Refusals
  <2>2. CASE j # i
    <3>1. CallOk(j) /\ calls'[j] = calls[j]
      BY <1>7, <2>2 DEF IInv
    <3>2. transfers' = transfers /\ wallets' = wallets
      BY <1>1
    <3> QED
      BY <3>1, <3>2 DEF CallOk, Made, Done, RightReply, Assigned, TraceOf, Decodes
  <2> QED
    BY <2>1, <2>2
<1>11. TransfersOk'
  BY <1>1, <1>2, <1>3, <1>7, <1>8 DEF IInv, TypeOK, TransfersOk, Transfer, TraceOf, Made
<1>12. OneTry'
  <2> SUFFICES ASSUME NEW j \in Ids, NEW k \in Ids, j[1] = k[1], j[1] \notin Named,
                      Trying(j)', Trying(k)'
               PROVE  j = k
    BY DEF OneTry
  <2>1. CASE j # i /\ k # i
    BY <1>7, <2>1 DEF IInv, OneTry, Trying
  <2>2. ASSUME NEW l \in Ids, l # i, l[1] = c, c \notin Named, Trying(i)', Trying(l)'
        PROVE  FALSE
    <3>1. Trying(l)
      BY <1>7, <2>2 DEF Trying
    <3>2. MayPay(c)
      BY <1>1, <1>6, <1>7, <2>2 DEF Trying
    <3>3. l = <<c, l[2]>> /\ l[2] \in 1 .. MaxCalls
      BY <2>2 DEF Ids
    <3> QED
      BY <2>2, <3>1, <3>2, <3>3 DEF MayPay, Trying
  <2>3. i[1] = c
    BY DEF i
  <2> QED
    BY <2>1, <2>2, <2>3
<1>13. WalletsOk'
  BY <1>1 DEF IInv, WalletsOk
<1> QED
  BY <1>9, <1>10, <1>11, <1>12, <1>13 DEF IInv

-----------------------------------------------------------------------------
(* Steps that make a transfer or a wallet.                                 *)

\* The handler is done.
LEMMA DidType ==
  ASSUME TypeOK, NEW i \in Ids, calls' = [calls EXCEPT ![i].pc = "did"]
  PROVE  /\ calls' \in [Ids -> Call]
         /\ calls'[i].pc = "did" /\ calls'[i].method = calls[i].method
         /\ calls'[i].heard = calls[i].heard /\ calls'[i].query = calls[i].query
         /\ \A j \in Ids : j # i => calls'[j] = calls[j]
  BY CallType DEF Call

\* What a call makes is its own: others made what they had made, and what they
\* asked for stays.
LEMMA MakesIInv ==
  ASSUME IInv, NEW i \in Ids, calls[i].pc = "serving",
         calls' = [calls EXCEPT ![i].pc = "did"], UNCHANGED wants,
         transfers \subseteq transfers', wallets \subseteq wallets',
         \A t \in transfers' \ transfers : t.call = i,
         \A w \in wallets' \ wallets :
           w.call = i /\ (w.fields = CreateWalletRequest \/ Via[i[1]] = "http"),
         transfers' \subseteq Transfer, wallets' \subseteq WalletOf,
         Done(i)', TransfersOk'
  PROVE  IInv'
<1>1. /\ TypeOK /\ CallOk(i)
      /\ calls' \in [Ids -> Call]
      /\ calls'[i].pc = "did" /\ calls'[i].method = calls[i].method
      /\ calls'[i].heard = calls[i].heard /\ calls'[i].query = calls[i].query
      /\ \A j \in Ids : j # i => calls'[j] = calls[j]
  BY DidType DEF IInv
<1>2. TypeOK'
  BY <1>1 DEF TypeOK
<1>3. ASSUME NEW j \in Ids PROVE CallOk(j)'
  <2>1. CASE j = i
    BY <1>1, <2>1 DEF CallOk
  <2>2. CASE j # i
    <3>1. Made(j)' <=> Made(j)
      BY <2>2 DEF Made
    <3>2. Done(j) => Done(j)'
      BY <1>1, <2>2 DEF Done, Assigned, TraceOf
    <3>3. CallOk(j) /\ calls'[j] = calls[j]
      BY <1>1, <2>2 DEF IInv
    <3> QED
      BY <3>1, <3>2, <3>3 DEF CallOk, RightReply, Decodes
  <2> QED
    BY <2>1, <2>2
<1>4. OneTry'
  <2>1. \A j \in Ids : Trying(j)' => Trying(j)
    BY <1>1 DEF Trying
  <2> QED
    BY <2>1 DEF IInv, OneTry
<1>5. WalletsOk'
  BY DEF IInv, WalletsOk
<1> QED
  BY <1>2, <1>3, <1>4, <1>5 DEF IInv

\* A request that has what it must was sent whole.
LEMMA GotAll ==
  ASSUME NEW i \in Ids, Decodes(i), Required \subseteq Got(i),
         calls[i].method = "CreateTransfer"
  PROVE  Got(i) = CreateTransferRequest
  BY DEF Decodes, Got, Required, FieldsOf

\* So was one that a generated client sent, if it was decoded.
LEMMA DecodedIsWhole ==
  ASSUME NEW i \in Ids, Decodes(i), calls[i].method = "CreateWallet"
  PROVE  Got(i) = CreateWalletRequest \/ Via[i[1]] = "http"
  BY DEF Decodes, Got, FieldsOf

\* A transfer is assigned, once for its trace.
LEMMA AssignTransferIInv ==
  ASSUME IInv, NEW i \in Ids, AssignTransfer(i)
  PROVE  IInv'
<1>1. /\ calls[i].pc = "serving" /\ calls[i].method = "CreateTransfer"
      /\ Required \subseteq Got(i)
      /\ calls' = [calls EXCEPT ![i].pc = "did"]
      /\ UNCHANGED <<wallets, wants>>
  BY DEF AssignTransfer, Serving
<1>2. TypeOK /\ CallOk(i)
  BY DEF IInv
<1>3. Got(i) = CreateTransferRequest
  BY <1>1, <1>2, GotAll DEF CallOk
<1> DEFINE new == [trace |-> TraceOf(i), call |-> i, fields |-> CreateTransferRequest]
<1>4. /\ new \in Transfer
      /\ new.trace = TraceOf(i) /\ new.call = i /\ new.fields = CreateTransferRequest
  BY DEF Transfer, TraceOf, Traces, Ids
<1> HIDE DEF new
<1>5. transfers' = IF Assigned(TraceOf(i)) THEN transfers ELSE transfers \cup {new}
  BY <1>3 DEF AssignTransfer, new
<1>6. /\ calls'[i].method = "CreateTransfer"
      /\ \A j \in Ids : calls'[j].method = calls[j].method
  BY <1>1, <1>2, DidType
<1>7. transfers' \subseteq Transfer /\ transfers \subseteq transfers'
  BY <1>2, <1>4, <1>5 DEF TypeOK
<1>8. Done(i)'
  BY <1>4, <1>5, <1>6 DEF Done, Assigned, TraceOf
<1>9. TransfersOk'
  <2>1. \A t \in transfers : t.call \in Ids
    BY <1>2 DEF TypeOK, Transfer
  <2>2. CASE Assigned(TraceOf(i))
    BY <1>5, <1>6, <2>1, <2>2 DEF IInv, TransfersOk, TraceOf
  <2>3. CASE ~Assigned(TraceOf(i))
    BY <1>4, <1>5, <1>6, <2>1, <2>3 DEF IInv, TransfersOk, TraceOf, Assigned
  <2> QED
    BY <2>2, <2>3
<1>10. \A t \in transfers' \ transfers : t.call = i
  BY <1>4, <1>5
<1> QED
  BY <1>1, <1>2, <1>7, <1>8, <1>9, <1>10, MakesIInv DEF TypeOK

\* A wallet is created.
LEMMA CreateWalletIInv ==
  ASSUME IInv, NEW i \in Ids, CreateWallet(i)
  PROVE  IInv'
<1>1. /\ calls[i].pc = "serving" /\ calls[i].method = "CreateWallet"
      /\ calls' = [calls EXCEPT ![i].pc = "did"]
      /\ UNCHANGED <<transfers, wants>>
  BY DEF CreateWallet, Serving
<1>2. TypeOK /\ CallOk(i)
  BY DEF IInv
<1> DEFINE new == [call |-> i, fields |-> Got(i)]
<1>3. new.fields = CreateWalletRequest \/ Via[i[1]] = "http"
  BY <1>1, <1>2, DecodedIsWhole DEF CallOk
<1>4. new \in WalletOf /\ new.call = i
  <2>1. FieldsOf(calls[i].method) = CreateWalletRequest
    BY <1>1 DEF FieldsOf
  <2>2. Got(i) \subseteq CreateWalletRequest
    BY <1>2, <2>1 DEF Got, CallOk
  <2> QED
    BY <2>2 DEF WalletOf, CreateWalletRequest, CreateTransferRequest
<1> HIDE DEF new
<1>5. wallets' = wallets \cup {new}
  BY DEF CreateWallet, new
<1>6. /\ calls'[i].method = "CreateWallet"
      /\ \A j \in Ids : calls'[j].method = calls[j].method
  BY <1>1, <1>2, DidType
<1>7. Done(i)'
  BY <1>4, <1>5, <1>6 DEF Done
<1>8. TransfersOk'
  BY <1>1, <1>2, <1>6 DEF IInv, TypeOK, Transfer, TransfersOk, TraceOf
<1>9. wallets' \subseteq WalletOf
  BY <1>2, <1>4, <1>5 DEF TypeOK
<1>10. \A w \in wallets' \ wallets :
        w.call = i /\ (w.fields = CreateWalletRequest \/ Via[i[1]] = "http")
  BY <1>4, <1>5, <1>3
<1> QED
  BY <1>1, <1>2, <1>5, <1>7, <1>8, <1>9, <1>10, MakesIInv DEF TypeOK

-----------------------------------------------------------------------------
(* The remaining steps.                                                    *)

\* What a client hears, and gives up on.
LEMMA ClientIInv ==
  ASSUME IInv, NEW i \in Ids, Receive(i) \/ GiveUp(i) \/ Intermediary(i)
  PROVE  IInv'
<1>1. "internal" \in Codes \ Refusals
  BY DEF Codes, Refusals
<1>2. CallOk(i) /\ TypeOK
  BY DEF IInv
<1>3. Waiting(i) /\ calls[i].pc # "none" /\ UNCHANGED <<transfers, wallets, wants>>
  BY DEF Receive, GiveUp, Intermediary, Waiting
<1>4. CASE Receive(i)
  <2>1. RightReply(i, calls[i].reply)
    BY <1>2, <1>4 DEF Receive, CallOk
  <2>2. PICK code \in {"internal", Learned(Via[i[1]], calls[i].reply)} : Over(i, code)
    BY <1>4 DEF Receive
  <2>3. /\ code \in Codes \cup {"ok"}
        /\ code = "ok" => Done(i)
        /\ code \in Refusals => ~Made(i)
    <3>1. "internal" # "ok"
      OBVIOUS
    <3> QED
      BY <1>1, <2>1, <2>2, <3>1, RightReplyLearned
  <2> QED
    BY <1>3, <2>2, <2>3, OverIInv
<1>5. CASE GiveUp(i)
  <2>1. CASE calls[i].pc # "reply" /\ Hear(i, "internal")
    BY <1>1, <1>3, <2>1, HearIInv
  <2>2. CASE calls[i].pc = "sent" /\ Over(i, "internal")
    BY <1>1, <1>3, <2>2, OverIInv
  <2> QED
    BY <1>5, <2>1, <2>2 DEF GiveUp
<1>6. CASE Intermediary(i)
  <2>1. ASSUME NEW status \in Statuses \ {200}, calls[i].pc = "sent",
               Over(i, Learned(Via[i[1]], Plain(status)))
        PROVE  IInv'
    <3>1. Learned(Via[i[1]], Plain(status)) \in Codes
      BY LearnedOfPlain
    <3>2. ~Made(i)
      BY <2>1, NotMade
    <3>3. "ok" \notin Codes
      BY DEF Codes
    <3> QED
      BY <1>3, <2>1, <3>1, <3>2, <3>3, OverIInv
  <2>2. ASSUME NEW status \in {502, 503, 504}, calls[i].pc # "reply",
               Hear(i, Learned(Via[i[1]], Plain(status)))
        PROVE  IInv'
    <3>1. status \in Statuses \ {200}
      BY DEF Statuses
    <3>2. Learned(Via[i[1]], Plain(status)) \in Codes \ Refusals
      BY <3>1, LearnedOfPlain, LearnedOfOutage
    <3> QED
      BY <1>3, <2>2, <3>2, HearIInv
  <2> QED
    BY <1>6, <2>1, <2>2 DEF Intermediary
<1> QED
  BY <1>4, <1>5, <1>6

\* Replies that promise nothing, or refuse what made nothing.
LEMMA ErrorIInv ==
  ASSUME IInv, NEW i \in Ids,
         \/ BadRoute(i) \/ handleRequestBodyError(i) \/ HandlerFails(i)
         \/ RefuseTransfer(i) \/ serveFindTransfer(i)
  PROVE  IInv'
<1>1. calls[i].pc # "none" /\ UNCHANGED <<transfers, wallets, wants>>
  BY DEF BadRoute, handleRequestBodyError, HandlerFails, RefuseTransfer,
         serveFindTransfer, Serving
<1>2. \A response : RightReply(i, response) /\ Reply(i, response) => IInv'
  BY <1>1, ReplyIInv
<1>3. {"bad_route", "canceled", "deadline_exceeded", "malformed", "aborted",
       "invalid_argument", "not_found"} \subseteq Codes
  BY DEF Codes
<1>4. CASE HandlerFails(i)
  <2>1. writeError(NoCode) = writeError("internal") /\ ensurePanicResponses = writeError("internal")
    BY DEF writeError, NoCode, ensurePanicResponses
  <2> QED
    BY <1>2, <1>4, <2>1 DEF HandlerFails, RightReply
<1>5. CASE BadRoute(i)
  <2>1. ~Made(i)
    BY <1>5, NotMade DEF BadRoute
  <2> QED
    BY <1>2, <1>3, <1>5, <2>1 DEF BadRoute, RightReply
<1>6. CASE handleRequestBodyError(i)
  <2>1. ~Made(i)
    BY <1>6, NotMade DEF handleRequestBodyError
  <2> QED
    BY <1>2, <1>3, <1>6, <2>1 DEF handleRequestBodyError, RightReply
<1>7. CASE RefuseTransfer(i)
  <2>1. ~Made(i)
    BY <1>7, NotMade DEF RefuseTransfer, Serving
  <2> QED
    BY <1>2, <1>3, <1>7, <2>1 DEF RefuseTransfer, RightReply
<1>8. CASE serveFindTransfer(i)
  <2>1. ~Made(i) /\ calls[i].method = "FindTransfer"
    BY <1>8, NotMade DEF serveFindTransfer, Serving
  <2>2. PICK response \in FindTransfer(i) : Reply(i, response)
    BY <1>8 DEF serveFindTransfer
  <2>3. RightReply(i, response)
    BY <1>3, <2>1, <2>2 DEF FindTransfer, RightReply, Done
  <2> QED
    BY <1>2, <2>2, <2>3
<1> QED
  BY <1>4, <1>5, <1>6, <1>7, <1>8

\* A handler that is done answers Ok.
LEMMA OkIInv ==
  ASSUME IInv, NEW i \in Ids,
         serveCreateTransfer(i) \/ serveCreateWallet(i) \/ serveFindWallet(i)
  PROVE  IInv'
<1>1. /\ calls[i].pc # "none" /\ Reply(i, Ok)
      /\ UNCHANGED <<transfers, wallets, wants>>
  BY DEF serveCreateTransfer, serveCreateWallet, serveFindWallet, Serving
<1>2. Done(i)
  BY DEF IInv, CallOk, serveCreateTransfer, serveCreateWallet, serveFindWallet, Serving,
         Done
<1> QED
  BY <1>1, <1>2, ReplyIInv DEF RightReply

\* A request is decoded.
LEMMA ServeIInv ==
  ASSUME IInv, NEW i \in Ids, ServeHTTP(i)
  PROVE  IInv'
<1>1. TypeOK /\ CallOk(i)
  BY DEF IInv
<1>2. /\ calls' = [calls EXCEPT ![i].pc = "serving"]
      /\ calls[i].pc = "sent" /\ Decodes(i)
      /\ UNCHANGED <<transfers, wallets, wants>>
  BY DEF ServeHTTP
<1>3. /\ calls' \in [Ids -> Call]
      /\ calls'[i] = [calls[i] EXCEPT !.pc = "serving"]
      /\ \A j \in Ids : j # i => calls'[j] = calls[j]
  BY <1>1, <1>2, CallType DEF Call
<1>4. /\ calls'[i].pc = "serving" /\ calls'[i].method = calls[i].method
      /\ calls'[i].whole = calls[i].whole /\ calls'[i].query = calls[i].query
      /\ calls'[i].heard = calls[i].heard
  BY <1>1, <1>3, CallType DEF Call
<1>5. Moves(i)
  BY <1>2, <1>3, <1>4 DEF Moves
<1>6. ~Made(i)
  BY <1>2, NotMade
<1>7. CallOk(i)'
  BY <1>1, <1>2, <1>4, <1>6
  DEF CallOk, Made, Done, Assigned, TraceOf, Decodes
<1> QED
  BY <1>2, <1>5, <1>7, MovesIInv

\* The process stops.
LEMMA StopIInv ==
  ASSUME IInv, NEW i \in Ids, Stop(i)
  PROVE  IInv'
<1>1. "internal" \in Codes \ Refusals /\ "internal" # "ok"
  BY DEF Codes, Refusals
<1> QED
  BY <1>1, OverIInv DEF Stop

-----------------------------------------------------------------------------

\* The invariant is inductive.
THEOREM Invariance == Spec => []IInv
<1>1. Init => IInv
  <2> SUFFICES ASSUME Init PROVE IInv
    OBVIOUS
  <2>1. TypeOK
    BY NoCallType DEF Init, TypeOK
  <2>2. \A i \in Ids : calls[i] = NoCall
    BY DEF Init
  <2>3. \A i \in Ids : CallOk(i)
    <3>1. NoCall.pc = "none" /\ "waiting" \notin Refusals
      BY DEF NoCall, Refusals
    <3> QED
      BY <2>2, <3>1, NoCallType DEF Init, CallOk, Made
  <2>4. TransfersOk
    BY DEF Init, TransfersOk
  <2>5. OneTry
    BY <2>2 DEF OneTry, Trying, NoCall
  <2>6. WalletsOk
    BY DEF Init, WalletsOk
  <2> QED
    BY <2>1, <2>3, <2>4, <2>5, <2>6 DEF IInv
<1>2. IInv /\ [Next]_vars => IInv'
  <2> SUFFICES ASSUME IInv, [Next]_vars PROVE IInv'
    OBVIOUS
  <2>1. CASE UNCHANGED vars
    BY <2>1
    DEF vars, IInv, TypeOK, CallOk, Made, Done, RightReply, Assigned, TraceOf, Decodes,
        TransfersOk, WalletsOk, OneTry, Trying
  <2>2. ASSUME NEW c \in Callers, Send(c) PROVE IInv'
    BY <2>2, SendIInv
  <2>3. ASSUME NEW i \in Ids,
               \/ Receive(i) \/ GiveUp(i) \/ Intermediary(i)
               \/ BadRoute(i) \/ handleRequestBodyError(i) \/ ServeHTTP(i)
               \/ HandlerFails(i) \/ Stop(i)
               \/ RefuseTransfer(i) \/ AssignTransfer(i) \/ serveCreateTransfer(i)
               \/ serveFindTransfer(i) \/ CreateWallet(i) \/ serveCreateWallet(i)
               \/ serveFindWallet(i)
        PROVE  IInv'
    BY <2>3, ClientIInv, ErrorIInv, OkIInv, ServeIInv, StopIInv, AssignTransferIInv,
       CreateWalletIInv
  <2> QED
    BY <2>1, <2>2, <2>3 DEF Next
<1> QED
  BY <1>1, <1>2, PTL DEF Spec

\* Every variable keeps its type.
THEOREM TypeCorrect == Spec => []TypeOK
<1>1. IInv => TypeOK
  BY DEF IInv
<1> QED
  BY <1>1, Invariance, PTL

\* A caller is charged once.
THEOREM ChargedOnce == Spec => []PaidOnce
<1>1. IInv => PaidOnce
  <2> SUFFICES ASSUME IInv, NEW c \in Callers, NEW t \in Paid(c), NEW w \in Paid(c)
               PROVE  t = w
    BY DEF PaidOnce
  <2>1. /\ t \in transfers /\ t.call \in Ids /\ t.call[1] = c /\ t.trace = TraceOf(t.call)
        /\ w \in transfers /\ w.call \in Ids /\ w.call[1] = c /\ w.trace = TraceOf(w.call)
    BY DEF Paid, IInv, TypeOK, Transfer, TransfersOk
  <2>2. CASE c \in Named
    BY <2>1, <2>2 DEF IInv, TransfersOk, TraceOf
  <2>3. CASE c \notin Named
    <3>1. Trying(t.call) /\ Trying(w.call)
      BY <2>1 DEF IInv, CallOk, Made, Trying, TransfersOk
    <3>2. t.call = w.call
      BY <2>1, <2>3, <3>1 DEF IInv, OneTry
    <3> QED
      BY <2>1, <3>2 DEF IInv, TransfersOk
  <2> QED
    BY <2>2, <2>3
<1> QED
  BY <1>1, Invariance, PTL

\* A call that was refused made nothing.
THEOREM RefusalsAreTrue == Spec => []RefusedIsNothing
<1>1. IInv => RefusedIsNothing
  BY DEF IInv, CallOk, Made, RefusedIsNothing
<1> QED
  BY <1>1, Invariance, PTL

\* What a client is told to be done is done.
THEOREM AnswersAreTrue == Spec => []OkIsDone
<1>1. IInv => OkIsDone
  BY DEF IInv, CallOk, Done, OkIsDone
<1> QED
  BY <1>1, Invariance, PTL

\* A body that is cut off never becomes a transfer, whichever way it came, nor a
\* wallet, if it came from a generated client.
THEOREM WhatIsMadeIsWhole == Spec => []MadeIsWhole
<1>1. IInv => MadeIsWhole
  BY DEF IInv, TransfersOk, WalletsOk, MadeIsWhole
<1> QED
  BY <1>1, Invariance, PTL
=============================================================================
