------------------------------- MODULE Cleaner -------------------------------
(***************************************************************************)
(* The cleaner's run in every worker: go through the saved outputs in      *)
(* sequence order, page by page, ask the network about each and delete the *)
(* rows of those that are not unspent; the first unspent output of an      *)
(* account ends the search in that account.  mergeOutputs, which follows,  *)
(* is in MergeOutputs.                                                     *)
(***************************************************************************)
EXTENDS Network

CONSTANTS
  Cleaners,     \* worker processes that run a cleaner
  CleanLimit    \* rows of a page: 500

ASSUME CleanLimitIsPositive == CleanLimit \in Nat \ {0}

VARIABLE cleaner   \* the local state of every cleaner

\* offset: where the next page starts; todo: rows of this page to be looked at;
\* skip: `assets`, accounts that are done; doomed: the row to be deleted now.
CleanerState ==
  [offset : Nat, todo : SUBSET Nat, skip : SUBSET Accounts, doomed : SUBSET Nat]

CleanStart == [offset |-> 0, todo |-> {}, skip |-> {}, doomed |-> {}]

CleanInit == cleaner = [w \in Cleaners |-> CleanStart]

Restart(w) == cleaner' = [cleaner EXCEPT ![w] = CleanStart]

OfOthers(S, accounts) == {s \in S : utxos[s].account \notin accounts}

-----------------------------------------------------------------------------

\* outputs.List: the first rows at or behind the offset, of all accounts.
Rows(c) == Page(db.outputs, c.offset, CleanLimit)

\* An empty page ends the run.
ReadRows(w, S) ==
  LET c == cleaner[w] IN
  /\ c.todo = {} /\ c.doomed = {}
  /\ IF S = {}
       THEN Restart(w)
       ELSE cleaner' = [cleaner EXCEPT ![w].offset = Max(S) + 1,
                                       ![w].todo = OfOthers(S, c.skip)]
  /\ UNCHANGED <<claimVars, payments>>

ListRows(w) == ReadRows(w, Rows(cleaner[w]))

\* Mutant of IsUnspent: an empty answer is taken for an unspent output, and the
\* other way round.
IsUnspentInverted(s) == Pulled(Page(Listed, s, 1)) = {}

\* outputz.Pull of one utxo returns the output itself.
IsUnspent(s) == s \in Pulled(Page(Listed, s, 1))

\* The next row is spent and will be deleted, or its account is done.
CheckRow(w) ==
  LET c == cleaner[w]
      s == Min(c.todo)
      skip == c.skip \cup {utxos[s].account}
  IN
  /\ c.todo # {} /\ c.doomed = {}
  /\ cleaner' = [cleaner EXCEPT ![w] =
       IF IsUnspent(s)
         THEN [c EXCEPT !.todo = OfOthers(@, skip), !.skip = skip]
         ELSE [c EXCEPT !.todo = @ \ {s}, !.doomed = {s}]]
  /\ UNCHANGED <<claimVars, payments>>

\* outputs.Delete
DeleteRow(w) ==
  /\ \E s \in cleaner[w].doomed : DeleteOutput(s)
  /\ cleaner' = [cleaner EXCEPT ![w].doomed = {}]
  /\ UNCHANGED <<utxos, saved, payments>>

\* A scan stops early.
ListRowsShort(w) == \E S \in Scans(Rows(cleaner[w])) : ReadRows(w, S)

\* A call fails, or its answer is lost; the worker stops or crashes.
AbortClean(w) ==
  /\ cleaner[w] # CleanStart
  /\ Restart(w)
  /\ \/ UNCHANGED db
     \/ \E s \in cleaner[w].doomed : DeleteOutput(s)
  /\ UNCHANGED <<utxos, saved, payments>>

Clean(w) ==
  \/ ListRows(w)
  \/ CheckRow(w)
  \/ DeleteRow(w)

CleanFault(w) == ListRowsShort(w) \/ AbortClean(w)
=============================================================================
