------------------------------- MODULE Syncer -------------------------------
(***************************************************************************)
(* The syncer of every worker: read the offset in `properties`, pull a     *)
(* page of utxos from the network, save the unspent ones, move the offset  *)
(* behind the page.  Each is a call of its own, and nothing keeps two      *)
(* workers from doing it at once.                                          *)
(***************************************************************************)
EXTENDS Network

CONSTANTS
  Syncers,     \* worker processes that run a syncer
  PageLimit    \* utxos of a page: 500

ASSUME PageLimitIsPositive == PageLimit \in Nat \ {0}

VARIABLES
  syncOffset,   \* `sync_offset` in properties, 0 without a row
  syncer        \* the local state of every syncer

\* outputs: the unspent ones of the page; next: the offset behind it.
SyncerState ==
  [pc : {"get", "pull", "save", "set", "insert"}, offset : Nat,
   outputs : SUBSET Nat, next : Nat]

SyncStart == [pc |-> "get", offset |-> 0, outputs |-> {}, next |-> 0]

SyncInit == syncOffset = 0 /\ syncer = [w \in Syncers |-> SyncStart]

Rerun(w) == syncer' = [syncer EXCEPT ![w] = SyncStart]

\* properties.Get
GetOffset(w) ==
  /\ syncer[w].pc = "get"
  /\ syncer' = [syncer EXCEPT ![w].pc = "pull", ![w].offset = syncOffset]
  /\ UNCHANGED <<claimVars, payments, syncOffset>>

\* outputz.Pull: nothing is saved of a page without unspent ones, and no offset
\* is set when no utxo was listed.
Pull(w) ==
  LET page == Page(Listed, syncer[w].offset, PageLimit)
      next == NextOffset(page, syncer[w].offset)
  IN
  /\ syncer[w].pc = "pull"
  /\ \/ /\ Pulled(page) # {}
        /\ syncer' = [syncer EXCEPT ![w].pc = "save", ![w].next = next,
                                    ![w].outputs = Pulled(page)]
     \/ /\ Pulled(page) = {} /\ next > syncer[w].offset
        /\ syncer' = [syncer EXCEPT ![w].pc = "set", ![w].next = next]
     \/ /\ Pulled(page) = {} /\ next <= syncer[w].offset
        /\ Rerun(w)
  /\ UNCHANGED <<claimVars, payments, syncOffset>>

\* outputs.Save
SavePage(w) ==
  /\ syncer[w].pc = "save"
  /\ SaveOutputs(syncer[w].outputs)
  /\ saved' = saved \cup syncer[w].outputs
  /\ syncer' = [syncer EXCEPT ![w].pc = "set"]
  /\ UNCHANGED <<utxos, payments, syncOffset>>

\* properties.Set: UPDATE, and INSERT if there was no row to update; a row that
\* was inserted in between is not inserted again.
SetOffset(w) ==
  /\ syncer[w].pc = "set"
  /\ IF syncOffset # 0
       THEN syncOffset' = syncer[w].next /\ Rerun(w)
       ELSE syncer' = [syncer EXCEPT ![w].pc = "insert"] /\ UNCHANGED syncOffset
  /\ UNCHANGED <<claimVars, payments>>

InsertOffset(w) ==
  /\ syncer[w].pc = "insert"
  /\ syncOffset' = IF syncOffset = 0 THEN syncer[w].next ELSE syncOffset
  /\ Rerun(w)
  /\ UNCHANGED <<claimVars, payments>>

\* Mutant of SaveFails: the error is ignored.
SaveFailsSilently(w) ==
  /\ syncer[w].pc = "save"
  /\ syncer' = [syncer EXCEPT ![w].pc = "set"]
  /\ UNCHANGED <<claimVars, payments, syncOffset>>

\* Save returns an error: rolled back, or the answer of the commit is lost.
SaveFails(w) ==
  /\ syncer[w].pc = "save"
  /\ \/ UNCHANGED <<db, saved>>
     \/ /\ SaveOutputs(syncer[w].outputs)
        /\ saved' = saved \cup syncer[w].outputs
  /\ Rerun(w)
  /\ UNCHANGED <<utxos, payments, syncOffset>>

\* Another call fails, or the worker stops or crashes.
AbortSync(w) ==
  /\ syncer[w] # SyncStart
  /\ Rerun(w)
  /\ UNCHANGED <<claimVars, payments, syncOffset>>

Sync(w) ==
  \/ GetOffset(w)
  \/ Pull(w)
  \/ SavePage(w)
  \/ SetOffset(w)
  \/ InsertOffset(w)

SyncFault(w) == SaveFails(w) \/ AbortSync(w)
=============================================================================
