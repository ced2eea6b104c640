------------------------------ MODULE Migration ------------------------------
(***************************************************************************)
(* What every server and worker does before anything else: bring the       *)
(* schema up to date, statement by statement, under a lock of the          *)
(* database. An upgrade of a database that an older release has used gives *)
(* its rows to the dapp's own user.                                        *)
(*                                                                         *)
(* MySQL commits every statement that changes a schema by itself, so that  *)
(* a crash leaves a migration half done; golang-migrate notes in the       *)
(* database which migration it has begun (version, dirty).                 *)
(***************************************************************************)
EXTENDS Naturals, Sequences

CONSTANTS
  Processes,   \* servers and workers
  Dapp,        \* dapp.client_id of config.yaml
  MaxStarts    \* bound: starts of a process

Nobody == "nobody"

ASSUME MigrationAssumption == MaxStarts \in Nat \ {0} /\ Nobody \notin Processes

VARIABLES
  db,       \* the master database
  lock,     \* the process that holds the migration lock, if one does
  proc,     \* where each process is
  starts    \* how often each was started

vars == <<db, lock, proc, starts>>

-----------------------------------------------------------------------------
(* Schemas.                                                                *)

Tables == {"outputs", "transfers", "assigns", "wallets", "properties"}
UserTables == {"outputs", "transfers", "assigns"}
Empty == "empty"
NoUser == "none"

\* users: what the column user_id has in the rows that an older release made: there
\* is no such column yet (Empty), it has its default '' (NoUser), or the dapp.
Db ==
  [version : 0 .. 5, dirty : BOOLEAN, tables : SUBSET Tables,
   users : [UserTables -> {Empty, NoUser, Dapp}],
   keys : SUBSET {"idx_outputs_asset", "idx_outputs_user_asset"}]

Create(table) == [op |-> "create", table |-> table]
AddUser(table) == [op |-> "add", table |-> table]
SetUser(table) == [op |-> "update", table |-> table]
DropIndex == [op |-> "drop_index", table |-> "outputs"]
AddIndex == [op |-> "add_index", table |-> "outputs"]

\* Mutant of Schema: rows are given a user before there is a column.
SchemaSetsFirst ==
  << <<Create("outputs")>>,
     <<Create("transfers"), Create("assigns")>>,
     <<SetUser("outputs"), AddUser("outputs"), DropIndex, AddIndex, AddUser("transfers"),
       SetUser("transfers"), AddUser("assigns"), SetUser("assigns")>>,
     <<Create("wallets")>>,
     <<Create("properties")>> >>

\* schema/*.up.sql, in the order of their numbers.
Schema ==
  << <<Create("outputs")>>,
     <<Create("transfers"), Create("assigns")>>,
     <<AddUser("outputs"), SetUser("outputs"), DropIndex, AddIndex, AddUser("transfers"),
       SetUser("transfers"), AddUser("assigns"), SetUser("assigns")>>,
     <<Create("wallets")>>,
     <<Create("properties")>> >>

\* What a statement refuses: a column or an index that is there already, or is
\* not there.
Executable(st) ==
  CASE st.op = "create" -> TRUE
    [] st.op = "add" -> st.table \in db.tables /\ db.users[st.table] = Empty
    [] st.op = "update" -> st.table \in db.tables /\ db.users[st.table] # Empty
    [] st.op = "drop_index" -> "idx_outputs_asset" \in db.keys
    [] st.op = "add_index" -> "idx_outputs_user_asset" \notin db.keys

\* {{ .UserID }} of a file is the dapp's user; WHERE user_id = '' keeps others.
Execute(st) ==
  CASE st.op = "create" ->
         [db EXCEPT !.tables = @ \cup {st.table},
                    !.keys = @ \cup IF st.table = "outputs" THEN {"idx_outputs_asset"} ELSE {}]
    [] st.op = "add" -> [db EXCEPT !.users[st.table] = NoUser]
    [] st.op = "update" -> [db EXCEPT !.users[st.table] = Dapp]
    [] st.op = "drop_index" -> [db EXCEPT !.keys = @ \ {"idx_outputs_asset"}]
    [] st.op = "add_index" -> [db EXCEPT !.keys = @ \cup {"idx_outputs_user_asset"}]

-----------------------------------------------------------------------------
(* Processes.                                                              *)

\* version: the one that the process has read, or brought the database to.
Process ==
  [pc : {"down", "lock", "check", "next", "migrate", "serving"}, version : 0 .. 5,
   line : 1 .. 9, ran : BOOLEAN]

Down == [pc |-> "down", version |-> 0, line |-> 1, ran |-> FALSE]

Goto(p, pc) == proc' = [proc EXCEPT ![p].pc = pc]

\* provideDB opens the database.
Start(p) ==
  /\ proc[p].pc = "down" /\ starts[p] < MaxStarts
  /\ starts' = [starts EXCEPT ![p] = @ + 1]
  /\ Goto(p, "lock")
  /\ UNCHANGED <<db, lock>>

Lock(p) ==
  /\ proc[p].pc = "lock" /\ lock = Nobody
  /\ lock' = p /\ Goto(p, "check")
  /\ UNCHANGED <<db, starts>>

\* The end of a process closes its connection and so frees the lock.
Exit(p) ==
  /\ proc' = [proc EXCEPT ![p] = Down]
  /\ lock' = IF lock = p THEN Nobody ELSE lock
  /\ UNCHANGED <<db, starts>>

\* The lock is not freed in time, a call of the database fails, or the process
\* crashes, between any two statements; the last start of each is spared.
Crash(p) == proc[p].pc # "down" /\ starts[p] < MaxStarts /\ Exit(p)

\* Mutant of Refuse: the error of Up is not returned.
RefuseNothing(p) ==
  /\ proc[p].pc = "check" /\ db.dirty
  /\ Goto(p, "serving")
  /\ lock' = Nobody
  /\ UNCHANGED <<db, starts>>

\* A dirty database is an error, which ends the process.
Refuse(p) == proc[p].pc = "check" /\ db.dirty /\ Exit(p)

\* m.Up: the version is read once ...
ReadVersion(p) ==
  /\ proc[p].pc = "check" /\ ~ db.dirty
  /\ proc' = [proc EXCEPT ![p].pc = "next", ![p].version = db.version]
  /\ UNCHANGED <<db, lock, starts>>

\* Mutant of Begin: one migration too many.
BeginPastEnd(p) ==
  /\ proc[p].pc = "next" /\ proc[p].version <= Len(Schema)
  /\ db' = [db EXCEPT !.version = proc[p].version + 1, !.dirty = TRUE]
  /\ proc' = [proc EXCEPT ![p].pc = "migrate", ![p].line = 1]
  /\ UNCHANGED <<lock, starts>>

\* ... each later migration is begun ...
Begin(p) ==
  /\ proc[p].pc = "next" /\ proc[p].version < Len(Schema)
  /\ db' = [db EXCEPT !.version = proc[p].version + 1, !.dirty = TRUE]
  /\ proc' = [proc EXCEPT ![p].pc = "migrate", ![p].line = 1]
  /\ UNCHANGED <<lock, starts>>

File(p) == Schema[proc[p].version + 1]

\* ... run ...
Run(p) ==
  /\ proc[p].pc = "migrate" /\ proc[p].line <= Len(File(p))
  /\ Executable(File(p)[proc[p].line])
  /\ db' = Execute(File(p)[proc[p].line])
  /\ proc' = [proc EXCEPT ![p].line = @ + 1]
  /\ UNCHANGED <<lock, starts>>

\* ... and noted to be done.
Done(p) ==
  /\ proc[p].pc = "migrate" /\ proc[p].line > Len(File(p))
  /\ db' = [db EXCEPT !.version = proc[p].version + 1, !.dirty = FALSE]
  /\ proc' = [proc EXCEPT ![p].pc = "next", ![p].version = @ + 1, ![p].ran = TRUE]
  /\ UNCHANGED <<lock, starts>>

\* Mutant of Migrate: ErrNoChange is an error as well.
MigrateNoChange(p) ==
  /\ proc[p].pc = "next" /\ proc[p].version = Len(Schema)
  /\ Goto(p, IF proc[p].ran THEN "serving" ELSE "down")
  /\ lock' = Nobody
  /\ UNCHANGED <<db, starts>>

\* Up has nothing more to do, or had nothing to do (ErrNoChange): the process
\* goes on to serve.
Migrate(p) ==
  /\ proc[p].pc = "next" /\ proc[p].version = Len(Schema)
  /\ Goto(p, "serving")
  /\ lock' = Nobody
  /\ UNCHANGED <<db, starts>>

-----------------------------------------------------------------------------

\* A new database, or one that this or an older release left behind.
Init ==
  /\ \E version \in 0 .. 5 :
       db = [version |-> version, dirty |-> FALSE,
             tables |-> {t \in Tables : \E v \in 1 .. version :
               \E n \in 1 .. Len(Schema[v]) : Schema[v][n] = Create(t)},
             users |-> [t \in UserTables |-> IF version < 3 THEN Empty ELSE Dapp],
             keys |-> IF version = 0 THEN {}
                      ELSE IF version < 3 THEN {"idx_outputs_asset"}
                      ELSE {"idx_outputs_user_asset"}]
  /\ lock = Nobody
  /\ proc = [p \in Processes |-> Down]
  /\ starts = [p \in Processes |-> 0]

Next ==
  \E p \in Processes :
    \/ Start(p) \/ Lock(p) \/ Refuse(p) \/ ReadVersion(p) \/ Begin(p) \/ Run(p) \/ Done(p)
    \/ Migrate(p) \/ Crash(p)

Spec == Init /\ [][Next]_vars

\* What a process does by itself; nothing obliges it to crash or to be started.
FairSpec ==
  /\ Spec
  /\ \A p \in Processes :
       WF_vars(Lock(p) \/ Refuse(p) \/ ReadVersion(p) \/ Begin(p) \/ Run(p) \/ Done(p) \/ Migrate(p))

-----------------------------------------------------------------------------
(* Properties.                                                             *)

TypeOK ==
  /\ db \in Db
  /\ lock \in Processes \cup {Nobody}
  /\ proc \in [Processes -> Process]
  /\ starts \in [Processes -> 0 .. MaxStarts]

\* No process serves before every table and key is there and every row of an
\* older release belongs to the dapp's account, whoever migrated and wherever
\* a migration was cut off.
ServesCurrent ==
  \A p \in Processes : proc[p].pc = "serving" =>
    /\ db.version = 5 /\ ~ db.dirty
    /\ db.tables = Tables /\ db.keys = {"idx_outputs_user_asset"}
    /\ \A t \in UserTables : db.users[t] = Dapp

\* A statement is never refused for what was done before, by this process or
\* by another one that was cut off: no migration is begun twice.
NeverRefused ==
  \A p \in Processes :
    proc[p].pc = "migrate" /\ proc[p].line <= Len(File(p))
      => Executable(File(p)[proc[p].line])

\* A process whose start goes well gets to serve, also when another one did all
\* of the work, crashed while it held the lock, or was served before; unless a
\* migration was cut off, which no process repairs.
StartsServe ==
  \A p \in Processes :
    proc[p].pc = "lock" /\ starts[p] = MaxStarts ~> proc[p].pc = "serving" \/ db.dirty
=============================================================================
