------------------------------- MODULE Columns -------------------------------
(***************************************************************************)
(* What a payment goes through between the request and the transaction:    *)
(* the fields of the message, the transfer of the handler, the columns of  *)
(* MySQL and the transfer that FindTrace and ListStatus scan. Every one of *)
(* these has a width of its own.                                           *)
(*                                                                         *)
(* Opponents are counted, not named; an amount is in tenths of 10^-8, the  *)
(* smallest amount that the column has; a memo is its length in bytes,     *)
(* each of which is a character.                                           *)
(***************************************************************************)
EXTENDS Integers

CONSTANTS
  Thresholds,   \* thresholds of requests, uint32
  Opponents,    \* numbers of opponents of requests
  Amounts,      \* amounts of requests
  Memos         \* lengths of memos of requests

ASSUME ColumnsAssumption ==
  /\ Thresholds \subseteq Nat /\ Opponents \subseteq Nat /\ Memos \subseteq Nat
  /\ Amounts \subseteq Int

VARIABLES
  request,   \* of CreateTransfer, with well formed ids and opponents
  answer,    \* the transfer that was answered, or nothing
  row,       \* the row of the trace, if there is one
  scanned    \* what a later read of the row gives

columnVars == <<request, answer, row, scanned>>

-----------------------------------------------------------------------------

Request ==
  [amount : Amounts, memo : Memos, opponents : Opponents, threshold : Thresholds]

\* uint8(n)
Byte(n) == n % 256

\* mixin.NewMixAddress: a threshold that the members can reach.
IsMixAddress(opponents, threshold) == threshold \in 1 .. opponents /\ opponents <= 255

AtLeastOne(n) == IF n < 1 THEN 1 ELSE n

Nothing == [amount |-> 0, memo |-> 0, opponents |-> 0, threshold |-> 0]
Panic == [Nothing EXCEPT !.amount = -1]

Transfer(req) ==
  [amount |-> req.amount, memo |-> req.memo, opponents |-> req.opponents,
   threshold |-> Byte(AtLeastOne(req.threshold))]

\* Mutant of IsValid: digits after the eighth are not looked at.
IsValidAnyDigits(transfer) ==
  /\ transfer.amount > 0
  /\ transfer.memo <= 200
  /\ IsMixAddress(transfer.opponents, transfer.threshold)

\* The checks of CreateTransfer, of which the last is whether there is an address.
IsValid(transfer) ==
  /\ transfer.amount > 0 /\ transfer.amount % 10 = 0
  /\ transfer.memo <= 200
  /\ IsMixAddress(transfer.opponents, transfer.threshold)

-----------------------------------------------------------------------------
(* Columns: decimal(64, 8), varchar(255), varchar(256) and a signed tinyint. *)

Rounded(amount) == IF amount % 10 >= 5 THEN (amount \div 10 + 1) * 10 ELSE (amount \div 10) * 10

\* An array of n user ids is {"...","..."}.
ArrayLength(n) == IF n = 0 THEN 2 ELSE 39 * n + 1

Fits(transfer) ==
  /\ transfer.memo <= 255
  /\ ArrayLength(transfer.opponents) <= 256
  /\ transfer.threshold <= 127

InColumns(transfer) == [transfer EXCEPT !.amount = Rounded(@)]

\* Mutant of insert: INSERT IGNORE, as for outputs, cuts and clamps the values.
insertIgnore(transfer) ==
  row' = [InColumns(transfer) EXCEPT
            !.opponents = IF ArrayLength(@) <= 256 THEN @ ELSE 0,
            !.threshold = IF @ > 127 THEN 127 ELSE @]

\* INSERT of a transfer, an error if a value does not fit: then the answer is
\* an error too, and the transaction is rolled back.
insert(transfer) == Fits(transfer) /\ row' = InColumns(transfer)

CreateTransfer ==
  /\ answer = Nothing /\ row = Nothing
  /\ LET transfer == Transfer(request) IN
       /\ IsValid(transfer)
       /\ insert(transfer)
       /\ answer' = transfer
  /\ UNCHANGED <<request, scanned>>

\* RequireNewMixAddress panics when the columns are no address.
scanTransfer ==
  /\ row # Nothing
  /\ scanned' = IF IsMixAddress(row.opponents, Byte(row.threshold)) THEN row ELSE Panic
  /\ UNCHANGED <<request, answer, row>>

-----------------------------------------------------------------------------

ColumnInit ==
  /\ request \in Request
  /\ answer = Nothing /\ row = Nothing /\ scanned = Nothing

ColumnNext == CreateTransfer \/ scanTransfer

ColumnSpec == ColumnInit /\ [][ColumnNext]_columnVars

-----------------------------------------------------------------------------
(* Properties.                                                             *)

\* The transfer that is found and paid later is the one that was answered by the
\* call that inserted it (one that repeats a trace is answered with its own
\* contents): no column rounds, cuts or clamps what the checks let through, and
\* no row makes the scan panic, which would stop every worker, again after every
\* restart.
ScannedAsAnswered == scanned # Nothing => scanned = answer

\* "invalid opponents & threshold": what is accepted has a threshold that its
\* opponents can reach, namely the one that was asked for.
ThresholdIsReachable ==
  answer # Nothing => IsMixAddress(request.opponents, AtLeastOne(request.threshold))
=============================================================================
