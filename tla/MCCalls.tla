------------------------------- MODULE MCCalls -------------------------------
(***************************************************************************)
(* Small instances of Calls.                                               *)
(***************************************************************************)
EXTENDS Calls

CONSTANTS cli, web

MCVia == [c \in Callers |-> IF c = cli THEN "twirp" ELSE "http"]

\* Both pay, or one of them uses all methods.
MCWants == {w \in [Callers -> {{}, {"CreateTransfer"}, Methods}] :
  \/ \A c \in Callers : w[c] = {"CreateTransfer"}
  \/ {w[c] : c \in Callers} = {{}, Methods}}
=============================================================================
