---------------------------- MODULE SchemaProofs ----------------------------
(***************************************************************************)
(* The database schema.  Migrating: no process serves a schema that is not *)
(* complete, and no statement is refused, for any number of processes,     *)
(* starts and crashes.  Its columns: what is scanned is what was answered, *)
(* for requests of any size.                                               *)
(***************************************************************************)
EXTENDS Migration, Columns, TLAPS

-----------------------------------------------------------------------------
(* The inductive invariant.                                                *)

\* Statements of the files up to the v-th, and in the v-th file.
Before(v) ==
  IF v = 0 THEN 0 ELSE IF v = 1 THEN 1 ELSE IF v = 2 THEN 3 ELSE IF v = 3 THEN 11
  ELSE IF v = 4 THEN 12 ELSE 13
Lines(v) == IF v = 2 THEN 2 ELSE IF v = 3 THEN 8 ELSE 1

\* Rows of an older release, before and after the two statements that give them
\* to the dapp: the n-th and the next.
UserAt(k, n) == IF k > n THEN Dapp ELSE IF k = n THEN NoUser ELSE Empty

\* What the database is after k statements.
At(k) ==
  /\ db.tables = {t \in Tables :
       \/ t = "outputs" /\ k >= 1
       \/ t = "transfers" /\ k >= 2
       \/ t = "assigns" /\ k >= 3
       \/ t = "wallets" /\ k >= 12
       \/ t = "properties" /\ k >= 13}
  /\ db.users["outputs"] = UserAt(k, 4)
  /\ db.users["transfers"] = UserAt(k, 8)
  /\ db.users["assigns"] = UserAt(k, 10)
  /\ "idx_outputs_asset" \in db.keys <=> k \in 1 .. 5
  /\ "idx_outputs_user_asset" \in db.keys <=> k >= 7

Holds(p) == proc[p].pc \in {"check", "next", "migrate"}

\* Where a process is and how far the database has come.
ProcOk(p) ==
  LET v == proc[p].version IN
  /\ proc[p].pc = "next" => ~db.dirty /\ db.version = v
  /\ proc[p].pc = "migrate" =>
       /\ db.dirty /\ v \in 0 .. 4 /\ db.version = v + 1
       /\ proc[p].line \in 1 .. Lines(v + 1) + 1
       /\ At(Before(v) + proc[p].line - 1)
  /\ proc[p].pc = "serving" => ~db.dirty /\ db.version = 5

\* One process works at a time, on the database as far as it has come.
IInv ==
  /\ TypeOK
  /\ \A p \in Processes : Holds(p) => lock = p
  /\ \A p \in Processes : ProcOk(p)
  /\ ~db.dirty => At(Before(db.version))

-----------------------------------------------------------------------------
(* Files.                                                                  *)

\* The k-th statement of all.
Statement(k) ==
  IF k = 1 THEN Create("outputs")
  ELSE IF k = 2 THEN Create("transfers") ELSE IF k = 3 THEN Create("assigns")
  ELSE IF k = 4 THEN AddUser("outputs") ELSE IF k = 5 THEN SetUser("outputs")
  ELSE IF k = 6 THEN DropIndex ELSE IF k = 7 THEN AddIndex
  ELSE IF k = 8 THEN AddUser("transfers") ELSE IF k = 9 THEN SetUser("transfers")
  ELSE IF k = 10 THEN AddUser("assigns") ELSE IF k = 11 THEN SetUser("assigns")
  ELSE IF k = 12 THEN Create("wallets") ELSE Create("properties")

\* The statements of each file.
LEMMA Files ==
  /\ Len(Schema) = 5
  /\ \A v \in 1 .. 5 : Len(Schema[v]) = Lines(v)
  /\ Schema[1][1] = Create("outputs")
  /\ Schema[2][1] = Create("transfers") /\ Schema[2][2] = Create("assigns")
  /\ Schema[3][1] = AddUser("outputs") /\ Schema[3][2] = SetUser("outputs")
  /\ Schema[3][3] = DropIndex /\ Schema[3][4] = AddIndex
  /\ Schema[3][5] = AddUser("transfers") /\ Schema[3][6] = SetUser("transfers")
  /\ Schema[3][7] = AddUser("assigns") /\ Schema[3][8] = SetUser("assigns")
  /\ Schema[4][1] = Create("wallets") /\ Schema[5][1] = Create("properties")
<1>1. /\ Len(Schema) = 5
      /\ Schema[1] = <<Create("outputs")>>
      /\ Schema[2] = <<Create("transfers"), Create("assigns")>>
      /\ Schema[3] = <<AddUser("outputs"), SetUser("outputs"), DropIndex, AddIndex,
                       AddUser("transfers"), SetUser("transfers"), AddUser("assigns"),
                       SetUser("assigns")>>
      /\ Schema[4] = <<Create("wallets")>>
      /\ Schema[5] = <<Create("properties")>>
  BY DEF Schema
<1>2. /\ Len(Schema[1]) = 1 /\ Len(Schema[2]) = 2 /\ Len(Schema[3]) = 8
      /\ Len(Schema[4]) = 1 /\ Len(Schema[5]) = 1
  BY <1>1
<1>3. \A v \in 1 .. 5 : v = 1 \/ v = 2 \/ v = 3 \/ v = 4 \/ v = 5
  OBVIOUS
<1>4. \A v \in 1 .. 5 : Len(Schema[v]) = Lines(v)
  BY <1>2, <1>3 DEF Lines
<1> QED
  BY <1>1, <1>4

\* Where a statement stands.
LEMMA StatementIs ==
  ASSUME NEW v \in 0 .. 4, NEW n \in 1 .. Lines(v + 1)
  PROVE  /\ Schema[v + 1][n] = Statement(Before(v) + n)
         /\ Before(v) + n \in 1 .. 13
<1>1. v = 0 \/ v = 1 \/ v = 2 \/ v = 3 \/ v = 4
  OBVIOUS
<1>2. CASE v = 0
  BY <1>2, Files DEF Lines, Statement, Before
<1>3. CASE v = 1
  BY <1>3, Files DEF Lines, Statement, Before
<1>4. CASE v = 2
  BY <1>4, Files DEF Lines, Statement, Before
<1>5. CASE v = 3
  BY <1>5, Files DEF Lines, Statement, Before
<1>6. CASE v = 4
  BY <1>6, Files DEF Lines, Statement, Before
<1> QED
  BY <1>1, <1>2, <1>3, <1>4, <1>5, <1>6

\* A file ends where the next one begins.
LEMMA NextFile ==
  ASSUME NEW v \in 0 .. 4
  PROVE  Before(v) + Lines(v + 1) = Before(v + 1)
<1>1. v = 0 \/ v = 1 \/ v = 2 \/ v = 3 \/ v = 4
  OBVIOUS
<1> QED
  BY <1>1 DEF Before, Lines

\* Which table a statement is about.
MadeBy(k) ==
  IF k = 1 THEN "outputs" ELSE IF k = 2 THEN "transfers" ELSE IF k = 3 THEN "assigns"
  ELSE IF k = 12 THEN "wallets" ELSE "properties"
GivenBy(k) ==
  IF k \in {4, 5} THEN "outputs" ELSE IF k \in {8, 9} THEN "transfers" ELSE "assigns"

LEMMA Kinds ==
  ASSUME NEW k \in 1 .. 13
  PROVE  \/ k \in {1, 2, 3, 12, 13} /\ Statement(k) = Create(MadeBy(k)) /\ MadeBy(k) \in Tables
         \/ k \in {4, 8, 10} /\ Statement(k) = AddUser(GivenBy(k)) /\ GivenBy(k) \in UserTables
         \/ k \in {5, 9, 11} /\ Statement(k) = SetUser(GivenBy(k)) /\ GivenBy(k) \in UserTables
         \/ k = 6 /\ Statement(k) = DropIndex
         \/ k = 7 /\ Statement(k) = AddIndex
<1>1. k \in {1, 2, 3, 12, 13} \/ k \in {4, 8, 10} \/ k \in {5, 9, 11} \/ k = 6 \/ k = 7
  OBVIOUS
<1> QED
  BY <1>1 DEF Statement, MadeBy, GivenBy, Tables, UserTables

\* What each kind of statement does to the database.
LEMMA CreateRuns ==
  ASSUME db \in Db, NEW t \in Tables, db' = Execute(Create(t))
  PROVE  /\ db' \in Db /\ db'.version = db.version /\ db'.dirty = db.dirty
         /\ db'.tables = db.tables \cup {t} /\ db'.users = db.users
         /\ db'.keys = db.keys \cup IF t = "outputs" THEN {"idx_outputs_asset"} ELSE {}
<1>1. db' = [db EXCEPT !.tables = @ \cup {t},
                       !.keys = @ \cup IF t = "outputs" THEN {"idx_outputs_asset"} ELSE {}]
  BY DEF Execute, Create
<1>2. db.tables \cup {t} \in SUBSET Tables
  BY DEF Db
<1>3. (IF t = "outputs" THEN {"idx_outputs_asset"} ELSE {})
        \in SUBSET {"idx_outputs_asset", "idx_outputs_user_asset"}
  OBVIOUS
<1> QED
  BY <1>1, <1>2, <1>3 DEF Db

LEMMA AddRuns ==
  ASSUME db \in Db, NEW t \in UserTables, db' = Execute(AddUser(t))
  PROVE  /\ db' \in Db /\ db'.version = db.version /\ db'.dirty = db.dirty
         /\ db'.tables = db.tables /\ db'.users = [db.users EXCEPT ![t] = NoUser]
         /\ db'.keys = db.keys
<1>1. db' = [db EXCEPT !.users[t] = NoUser]
  BY DEF Execute, AddUser
<1> QED
  BY <1>1 DEF Db

LEMMA SetRuns ==
  ASSUME db \in Db, NEW t \in UserTables, db' = Execute(SetUser(t))
  PROVE  /\ db' \in Db /\ db'.version = db.version /\ db'.dirty = db.dirty
         /\ db'.tables = db.tables /\ db'.users = [db.users EXCEPT ![t] = Dapp]
         /\ db'.keys = db.keys
<1>1. db' = [db EXCEPT !.users[t] = Dapp]
  BY DEF Execute, SetUser
<1> QED
  BY <1>1 DEF Db

LEMMA DropRuns ==
  ASSUME db \in Db, db' = Execute(DropIndex)
  PROVE  /\ db' \in Db /\ db'.version = db.version /\ db'.dirty = db.dirty
         /\ db'.tables = db.tables /\ db'.users = db.users
         /\ db'.keys = db.keys \ {"idx_outputs_asset"}
<1>1. db' = [db EXCEPT !.keys = @ \ {"idx_outputs_asset"}]
  BY DEF Execute, DropIndex
<1> QED
  BY <1>1 DEF Db

LEMMA IndexRuns ==
  ASSUME db \in Db, db' = Execute(AddIndex)
  PROVE  /\ db' \in Db /\ db'.version = db.version /\ db'.dirty = db.dirty
         /\ db'.tables = db.tables /\ db'.users = db.users
         /\ db'.keys = db.keys \cup {"idx_outputs_user_asset"}
<1>1. db' = [db EXCEPT !.keys = @ \cup {"idx_outputs_user_asset"}]
  BY DEF Execute, AddIndex
<1> QED
  BY <1>1 DEF Db

\* Every statement can be run where it stands.
LEMMA StatementCan ==
  ASSUME db \in Db, NEW k \in 1 .. 13, At(k - 1)
  PROVE  Executable(Statement(k))
<1>1. CASE k \in {1, 2, 3, 12, 13} /\ Statement(k) = Create(MadeBy(k))
  BY <1>1 DEF Create, Executable
<1>2. CASE k \in {4, 8, 10} /\ Statement(k) = AddUser(GivenBy(k))
  <2>1. GivenBy(k) \in db.tables /\ db.users[GivenBy(k)] = Empty
    BY <1>2 DEF At, UserAt, Tables, GivenBy
  <2> QED
    BY <1>2, <2>1 DEF AddUser, Executable
<1>3. CASE k \in {5, 9, 11} /\ Statement(k) = SetUser(GivenBy(k))
  <2>1. GivenBy(k) \in db.tables /\ db.users[GivenBy(k)] # Empty
    BY <1>3 DEF At, UserAt, Tables, GivenBy, NoUser, Empty
  <2> QED
    BY <1>3, <2>1 DEF SetUser, Executable
<1>4. CASE k = 6 /\ Statement(k) = DropIndex
  <2>1. "idx_outputs_asset" \in db.keys
    BY <1>4 DEF At
  <2>2. DropIndex.op = "drop_index"
    BY DEF DropIndex
  <2> QED
    BY <1>4, <2>1, <2>2 DEF Executable
<1>5. CASE k = 7 /\ Statement(k) = AddIndex
  <2>1. "idx_outputs_user_asset" \notin db.keys
    BY <1>5 DEF At
  <2>2. AddIndex.op = "add_index"
    BY DEF AddIndex
  <2> QED
    BY <1>5, <2>1, <2>2 DEF Executable
<1> QED
  BY <1>1, <1>2, <1>3, <1>4, <1>5, Kinds

\* A statement takes the database from its line to the next.
LEMMA StatementRuns ==
  ASSUME db \in Db, NEW k \in 1 .. 13, At(k - 1), db' = Execute(Statement(k))
  PROVE  At(k)' /\ db' \in Db /\ db'.dirty = db.dirty /\ db'.version = db.version
<1>1. CASE /\ k \in {1, 2, 3, 12, 13} /\ Statement(k) = Create(MadeBy(k))
           /\ MadeBy(k) \in Tables
  <2>1. /\ db' \in Db /\ db'.version = db.version /\ db'.dirty = db.dirty
        /\ db'.tables = db.tables \cup {MadeBy(k)} /\ db'.users = db.users
        /\ db'.keys = db.keys \cup IF MadeBy(k) = "outputs" THEN {"idx_outputs_asset"} ELSE {}
    BY <1>1, CreateRuns
  <2> QED
    BY <1>1, <2>1 DEF At, UserAt, Tables, MadeBy
<1>2. CASE /\ k \in {4, 8, 10} /\ Statement(k) = AddUser(GivenBy(k))
           /\ GivenBy(k) \in UserTables
  <2>1. /\ db' \in Db /\ db'.version = db.version /\ db'.dirty = db.dirty
        /\ db'.tables = db.tables /\ db'.users = [db.users EXCEPT ![GivenBy(k)] = NoUser]
        /\ db'.keys = db.keys
    BY <1>2, AddRuns
  <2> QED
    BY <1>2, <2>1 DEF At, UserAt, Tables, UserTables, GivenBy, Db
<1>3. CASE /\ k \in {5, 9, 11} /\ Statement(k) = SetUser(GivenBy(k))
           /\ GivenBy(k) \in UserTables
  <2>1. /\ db' \in Db /\ db'.version = db.version /\ db'.dirty = db.dirty
        /\ db'.tables = db.tables /\ db'.users = [db.users EXCEPT ![GivenBy(k)] = Dapp]
        /\ db'.keys = db.keys
    BY <1>3, SetRuns
  <2> QED
    BY <1>3, <2>1 DEF At, UserAt, Tables, UserTables, GivenBy, Db
<1>4. CASE k = 6 /\ Statement(k) = DropIndex
  <2>1. /\ db' \in Db /\ db'.version = db.version /\ db'.dirty = db.dirty
        /\ db'.tables = db.tables /\ db'.users = db.users
        /\ db'.keys = db.keys \ {"idx_outputs_asset"}
    BY <1>4, DropRuns
  <2> QED
    BY <1>4, <2>1 DEF At, UserAt, Tables
<1>5. CASE k = 7 /\ Statement(k) = AddIndex
  <2>1. /\ db' \in Db /\ db'.version = db.version /\ db'.dirty = db.dirty
        /\ db'.tables = db.tables /\ db'.users = db.users
        /\ db'.keys = db.keys \cup {"idx_outputs_user_asset"}
    BY <1>5, IndexRuns
  <2> QED
    BY <1>5, <2>1 DEF At, UserAt, Tables
<1> QED
  BY <1>1, <1>2, <1>3, <1>4, <1>5, Kinds

-----------------------------------------------------------------------------
(* The invariant.                                                          *)

\* Which tables a file makes.
LEMMA FileMakes ==
  ASSUME NEW v \in 1 .. 5, NEW t \in Tables
  PROVE  (\E n \in 1 .. Len(Schema[v]) : Schema[v][n] = Create(t))
           <=> \/ v = 1 /\ t = "outputs"
               \/ v = 2 /\ t \in {"transfers", "assigns"}
               \/ v = 4 /\ t = "wallets"
               \/ v = 5 /\ t = "properties"
<1>1. \A u, w : Create(u) = Create(w) => u = w
  BY DEF Create
<1>2. \A n \in 1 .. 8 : n = 1 \/ n = 2 \/ n = 3 \/ n = 4 \/ n = 5 \/ n = 6 \/ n = 7 \/ n = 8
  OBVIOUS
<1>3. \A u : /\ AddUser(u).op # Create(t).op /\ SetUser(u).op # Create(t).op
             /\ DropIndex.op # Create(t).op /\ AddIndex.op # Create(t).op
  BY DEF Create, AddUser, SetUser, DropIndex, AddIndex
<1>4. v = 1 \/ v = 2 \/ v = 3 \/ v = 4 \/ v = 5
  OBVIOUS
<1>5. CASE v = 1
  BY <1>1, <1>5, Files DEF Lines
<1>6. CASE v = 2
  BY <1>1, <1>6, Files DEF Lines
<1>7. CASE v = 3
  <2>1. \A n \in 1 .. 8 : Schema[3][n] # Create(t)
    BY <1>2, <1>3, Files
  <2> QED
    BY <1>7, <2>1, Files DEF Lines
<1>8. CASE v = 4
  BY <1>1, <1>8, Files DEF Lines
<1>9. CASE v = 5
  BY <1>1, <1>9, Files DEF Lines
<1> QED
  BY <1>4, <1>5, <1>6, <1>7, <1>8, <1>9

\* At speaks of nothing but the schema and the rows.
LEMMA AtStays ==
  ASSUME NEW k, db'.tables = db.tables, db'.users = db.users, db'.keys = db.keys
  PROVE  At(k)' <=> At(k)
BY DEF At, UserAt

LEMMA InitInv == Init => IInv
<1> SUFFICES ASSUME Init
             PROVE  IInv
  OBVIOUS
<1>1. PICK version \in 0 .. 5 :
        db = [version |-> version, dirty |-> FALSE,
              tables |-> {t \in Tables : \E v \in 1 .. version :
                \E n \in 1 .. Len(Schema[v]) : Schema[v][n] = Create(t)},
              users |-> [t \in UserTables |-> IF version < 3 THEN Empty ELSE Dapp],
              keys |-> IF version = 0 THEN {}
                       ELSE IF version < 3 THEN {"idx_outputs_asset"}
                       ELSE {"idx_outputs_user_asset"}]
  BY DEF Init
<1>2. db.tables = {t \in Tables :
        \/ t = "outputs" /\ version >= 1
        \/ t \in {"transfers", "assigns"} /\ version >= 2
        \/ t = "wallets" /\ version >= 4
        \/ t = "properties" /\ version >= 5}
  <2>1. db.tables = {t \in Tables : \E v \in 1 .. version :
          \E n \in 1 .. Len(Schema[v]) : Schema[v][n] = Create(t)}
    BY <1>1
  <2>2. ASSUME NEW t \in Tables
        PROVE  (\E v \in 1 .. version : \E n \in 1 .. Len(Schema[v]) : Schema[v][n] = Create(t))
                 <=> \/ t = "outputs" /\ version >= 1
                     \/ t \in {"transfers", "assigns"} /\ version >= 2
                     \/ t = "wallets" /\ version >= 4
                     \/ t = "properties" /\ version >= 5
    <3>1. \A v \in 1 .. version : v \in 1 .. 5
      OBVIOUS
    <3>2. (\E v \in 1 .. version : \E n \in 1 .. Len(Schema[v]) : Schema[v][n] = Create(t))
            <=> \E v \in 1 .. version :
                  \/ v = 1 /\ t = "outputs"
                  \/ v = 2 /\ t \in {"transfers", "assigns"}
                  \/ v = 4 /\ t = "wallets"
                  \/ v = 5 /\ t = "properties"
      BY <3>1, FileMakes
    <3>3. /\ 1 \in 1 .. version <=> version >= 1
          /\ 2 \in 1 .. version <=> version >= 2
          /\ 4 \in 1 .. version <=> version >= 4
          /\ 5 \in 1 .. version <=> version >= 5
      OBVIOUS
    <3> QED
      BY <3>2, <3>3
  <2> QED
    BY <2>1, <2>2
<1>3. /\ db.version = version /\ ~db.dirty /\ db.dirty \in BOOLEAN
      /\ db.users = [t \in UserTables |-> IF version < 3 THEN Empty ELSE Dapp]
      /\ db.keys = IF version = 0 THEN {} ELSE IF version < 3 THEN {"idx_outputs_asset"}
                   ELSE {"idx_outputs_user_asset"}
  BY <1>1
<1>4. At(Before(version))
  <2>0. version = 0 \/ version = 1 \/ version = 2 \/ version = 3 \/ version = 4 \/ version = 5
    OBVIOUS
  <2>1. \/ version = 0 /\ Before(version) = 0
        \/ version = 1 /\ Before(version) = 1
        \/ version = 2 /\ Before(version) = 3
        \/ version = 3 /\ Before(version) = 11
        \/ version = 4 /\ Before(version) = 12
        \/ version = 5 /\ Before(version) = 13
    <3>1. /\ Before(0) = 0 /\ Before(1) = 1 /\ Before(2) = 3
          /\ Before(3) = 11 /\ Before(4) = 12 /\ Before(5) = 13
      BY DEF Before
    <3> QED
      BY <2>0, <3>1
  <2>2. db.tables = {t \in Tables :
          \/ t = "outputs" /\ Before(version) >= 1
          \/ t = "transfers" /\ Before(version) >= 2
          \/ t = "assigns" /\ Before(version) >= 3
          \/ t = "wallets" /\ Before(version) >= 12
          \/ t = "properties" /\ Before(version) >= 13}
    BY <1>2, <2>1
  <2>3. /\ db.users["outputs"] = UserAt(Before(version), 4)
        /\ db.users["transfers"] = UserAt(Before(version), 8)
        /\ db.users["assigns"] = UserAt(Before(version), 10)
    BY <1>3, <2>1 DEF UserAt, UserTables
  <2>4. /\ "idx_outputs_asset" \in db.keys <=> Before(version) \in 1 .. 5
        /\ "idx_outputs_user_asset" \in db.keys <=> Before(version) >= 7
    BY <1>3, <2>1
  <2> QED
    BY <2>2, <2>3, <2>4 DEF At
<1>5. TypeOK
  <2>1. db.tables \in SUBSET Tables
    BY <1>2
  <2>2. /\ db.users \in [UserTables -> {Empty, NoUser, Dapp}]
        /\ db.keys \in SUBSET {"idx_outputs_asset", "idx_outputs_user_asset"}
    BY <1>3
  <2>3. db \in Db
    BY <1>1, <1>3, <2>1, <2>2 DEF Db
  <2>4. Down \in Process
    BY DEF Down, Process
  <2> QED
    BY <2>3, <2>4, MigrationAssumption DEF TypeOK, Init
<1>6. \A p \in Processes : proc[p].pc = "down"
  BY DEF Init, Down
<1> QED
  BY <1>3, <1>4, <1>5, <1>6 DEF IInv, Holds, ProcOk

\* The start of a process, the lock and the end: the database stays.
LEMMA StartInv ==
  ASSUME IInv, NEW p \in Processes, Start(p)
  PROVE  IInv'
<1>1. /\ db' = db /\ lock' = lock /\ proc' = [proc EXCEPT ![p].pc = "lock"]
      /\ starts' = [starts EXCEPT ![p] = @ + 1] /\ starts[p] < MaxStarts
  BY DEF Start, Goto
<1>2. TypeOK'
  BY <1>1, MigrationAssumption DEF IInv, TypeOK, Process
<1>3. \A q \in Processes : Holds(q)' => lock' = q
  BY <1>1 DEF IInv, TypeOK, Process, Holds
<1>4. \A q \in Processes : ProcOk(q)'
  BY <1>1 DEF IInv, TypeOK, Process, ProcOk, At, UserAt
<1>5. ~db'.dirty => At(Before(db.version))'
  BY <1>1 DEF IInv, At, UserAt
<1> QED
  BY <1>1, <1>2, <1>3, <1>4, <1>5 DEF IInv

LEMMA LockInv ==
  ASSUME IInv, NEW p \in Processes, Lock(p)
  PROVE  IInv'
<1>1. /\ db' = db /\ lock = Nobody /\ lock' = p /\ proc' = [proc EXCEPT ![p].pc = "check"]
      /\ starts' = starts
  BY DEF Lock, Goto
<1>2. TypeOK'
  BY <1>1 DEF IInv, TypeOK, Process
<1>3. \A q \in Processes : Holds(q)' => lock' = q
  BY <1>1, MigrationAssumption DEF IInv, TypeOK, Process, Holds
<1>4. \A q \in Processes : ProcOk(q)'
  BY <1>1 DEF IInv, TypeOK, Process, ProcOk, At, UserAt
<1>5. ~db'.dirty => At(Before(db.version))'
  BY <1>1 DEF IInv, At, UserAt
<1> QED
  BY <1>1, <1>2, <1>3, <1>4, <1>5 DEF IInv

LEMMA ExitInv ==
  ASSUME IInv, NEW p \in Processes, Exit(p)
  PROVE  IInv'
<1>1. /\ db' = db /\ lock' = IF lock = p THEN Nobody ELSE lock
      /\ proc' = [proc EXCEPT ![p] = Down] /\ starts' = starts
  BY DEF Exit
<1>2. Down \in Process /\ Down.pc = "down"
  BY DEF Down, Process
<1>3. TypeOK'
  BY <1>1, <1>2 DEF IInv, TypeOK
<1>4. \A q \in Processes : Holds(q)' => lock' = q
  BY <1>1, <1>2 DEF IInv, TypeOK, Holds
<1>5. \A q \in Processes : ProcOk(q)'
  BY <1>1, <1>2 DEF IInv, TypeOK, ProcOk, At, UserAt
<1>6. ~db'.dirty => At(Before(db.version))'
  BY <1>1 DEF IInv, At, UserAt
<1> QED
  BY <1>1, <1>3, <1>4, <1>5, <1>6 DEF IInv

LEMMA ReadVersionInv ==
  ASSUME IInv, NEW p \in Processes, ReadVersion(p)
  PROVE  IInv'
<1>1. /\ db' = db /\ lock' = lock /\ proc[p].pc = "check" /\ ~db.dirty /\ starts' = starts
      /\ proc' = [proc EXCEPT ![p].pc = "next", ![p].version = db.version]
  BY DEF ReadVersion
<1>2. TypeOK'
  BY <1>1 DEF IInv, TypeOK, Process, Db
<1>3. \A q \in Processes : Holds(q)' => lock' = q
  BY <1>1 DEF IInv, TypeOK, Process, Holds
<1>4. \A q \in Processes : ProcOk(q)'
  BY <1>1 DEF IInv, TypeOK, Process, ProcOk, At, UserAt
<1>5. ~db'.dirty => At(Before(db.version))'
  BY <1>1 DEF IInv, At, UserAt
<1> QED
  BY <1>1, <1>2, <1>3, <1>4, <1>5 DEF IInv

LEMMA MigrateInv ==
  ASSUME IInv, NEW p \in Processes, Migrate(p)
  PROVE  IInv'
<1>1. /\ db' = db /\ lock' = Nobody /\ proc[p].pc = "next" /\ proc[p].version = 5
      /\ proc' = [proc EXCEPT ![p].pc = "serving"] /\ starts' = starts
  BY Files DEF Migrate, Goto
<1>2. TypeOK'
  BY <1>1 DEF IInv, TypeOK, Process
<1>3. \A q \in Processes : Holds(q)' => lock' = q
  BY <1>1 DEF IInv, TypeOK, Process, Holds
<1>4. \A q \in Processes : ProcOk(q)'
  BY <1>1 DEF IInv, TypeOK, Process, ProcOk, At, UserAt
<1>5. ~db'.dirty => At(Before(db.version))'
  BY <1>1 DEF IInv, At, UserAt
<1> QED
  BY <1>1, <1>2, <1>3, <1>4, <1>5 DEF IInv

\* While a process works on the schema no other one holds the lock or serves.
LEMMA Alone ==
  ASSUME IInv, NEW p \in Processes, NEW q \in Processes, q # p,
         \/ proc[p].pc = "next" /\ proc[p].version < 5
         \/ proc[p].pc = "migrate"
  PROVE  ~Holds(q) /\ proc[q].pc # "serving"
<1>1. Holds(p)
  BY DEF Holds
<1>2. ~Holds(q)
  BY <1>1 DEF IInv
<1>3. \/ db.dirty
      \/ db.version < 5
  BY DEF IInv, ProcOk
<1> QED
  BY <1>2, <1>3 DEF IInv, ProcOk

\* The statements of a migration, its beginning and its end.
LEMMA BeginInv ==
  ASSUME IInv, NEW p \in Processes, Begin(p)
  PROVE  IInv'
<1>0. PICK v \in 0 .. 5 : v = proc[p].version
  BY DEF IInv, TypeOK, Process
<1>1. /\ lock' = lock /\ proc[p].pc = "next" /\ v < 5 /\ starts' = starts
      /\ db' = [db EXCEPT !.version = v + 1, !.dirty = TRUE]
      /\ proc' = [proc EXCEPT ![p].pc = "migrate", ![p].line = 1]
  BY <1>0, Files DEF Begin
<1>2. /\ v \in 0 .. 4 /\ db \in Db /\ ~db.dirty /\ db.version = v /\ At(Before(v))
      /\ proc \in [Processes -> Process]
  BY <1>0, <1>1 DEF IInv, TypeOK, ProcOk, Process
<1>3. /\ db' \in Db /\ db'.version = v + 1 /\ db'.dirty
      /\ db'.tables = db.tables /\ db'.users = db.users /\ db'.keys = db.keys
  <2>1. v + 1 \in 0 .. 5
    BY <1>2
  <2> QED
    BY <1>1, <1>2, <2>1 DEF Db
<1>4. TypeOK'
  <2>1. [proc[p] EXCEPT !.pc = "migrate", !.line = 1] \in Process
    <3>1. proc[p] \in Process /\ 1 \in 1 .. 9
      BY <1>2
    <3>2. [proc[p] EXCEPT !.pc = "migrate"] \in Process
      BY <3>1 DEF Process
    <3> QED
      BY <3>1, <3>2 DEF Process
  <2>2. proc' \in [Processes -> Process]
    BY <1>1, <1>2, <2>1
  <2> QED
    BY <1>1, <1>3, <2>2 DEF IInv, TypeOK
<1>5. /\ proc'[p].pc = "migrate" /\ proc'[p].line = 1 /\ proc'[p].version = v
      /\ \A q \in Processes : q # p => proc'[q] = proc[q]
  BY <1>0, <1>1, <1>2 DEF Process
<1>6. \A q \in Processes : Holds(q)' => lock' = q
  BY <1>1, <1>5 DEF IInv, Holds
<1>7. ProcOk(p)'
  <2>1. Before(v) \in Nat /\ Lines(v + 1) \in Nat /\ Before(v) + 1 - 1 = Before(v)
    BY <1>2 DEF Before, Lines
  <2>2. At(Before(v))'
    BY <1>2, <1>3, AtStays
  <2> QED
    BY <1>2, <1>3, <1>5, <2>1, <2>2 DEF ProcOk
<1>8. ASSUME NEW q \in Processes, q # p
      PROVE  ProcOk(q)'
  <2>1. ~Holds(q) /\ proc[q].pc # "serving"
    BY <1>0, <1>1, <1>2, <1>8, Alone
  <2> QED
    BY <1>5, <1>8, <2>1 DEF ProcOk, Holds
<1> QED
  BY <1>3, <1>4, <1>6, <1>7, <1>8 DEF IInv

LEMMA RunInv ==
  ASSUME IInv, NEW p \in Processes, Run(p)
  PROVE  IInv'
<1>0. PICK v \in 0 .. 5, n \in 1 .. 9 : v = proc[p].version /\ n = proc[p].line
  BY DEF IInv, TypeOK, Process
<1>1. /\ lock' = lock /\ proc[p].pc = "migrate" /\ n <= Len(Schema[v + 1])
      /\ db' = Execute(Schema[v + 1][n]) /\ starts' = starts
      /\ proc' = [proc EXCEPT ![p].line = @ + 1]
  BY <1>0 DEF Run, File
<1>2. /\ v \in 0 .. 4 /\ db \in Db /\ db.dirty /\ db.version = v + 1
      /\ n \in 1 .. Lines(v + 1) + 1 /\ At(Before(v) + n - 1)
      /\ proc \in [Processes -> Process]
  BY <1>0, <1>1 DEF IInv, TypeOK, ProcOk
<1>3. n \in 1 .. Lines(v + 1) /\ Lines(v + 1) \in 1 .. 8
  BY <1>1, <1>2, Files DEF Lines
<1>4. /\ Before(v) + n \in 1 .. 13
      /\ db' = Execute(Statement(Before(v) + n))
  BY <1>1, <1>2, <1>3, StatementIs
<1>5. /\ At(Before(v) + n)'
      /\ db' \in Db /\ db'.dirty = db.dirty /\ db'.version = db.version
  <2>1. PICK k \in 1 .. 13 : k = Before(v) + n
    BY <1>4
  <2>2. At(k - 1) /\ db' = Execute(Statement(k))
    <3>1. Before(v) \in Nat
      BY <1>2 DEF Before
    <3>2. k - 1 = Before(v) + n - 1
      BY <2>1, <3>1
    <3> QED
      BY <1>2, <1>4, <2>1, <3>2
  <2>3. At(k)' /\ db' \in Db /\ db'.dirty = db.dirty /\ db'.version = db.version
    BY <1>2, <2>2, StatementRuns
  <2> QED
    BY <2>1, <2>3
<1>6. TypeOK'
  <2>1. n + 1 \in 1 .. 9
    BY <1>3
  <2> QED
    BY <1>0, <1>1, <1>2, <1>5, <2>1 DEF IInv, TypeOK, Process
<1>7. /\ proc'[p].pc = "migrate" /\ proc'[p].line = n + 1 /\ proc'[p].version = v
      /\ \A q \in Processes : q # p => proc'[q] = proc[q]
  BY <1>0, <1>1, <1>2 DEF Process
<1>8. \A q \in Processes : Holds(q)' => lock' = q
  BY <1>1, <1>7 DEF IInv, Holds
<1>9. ProcOk(p)'
  <2>1. Before(v) \in Nat
    BY <1>2 DEF Before
  <2>2. Before(v) + (n + 1) - 1 = Before(v) + n
    BY <1>3, <2>1
  <2>3. At(Before(v) + (n + 1) - 1)'
    BY <1>5, <2>2
  <2>4. n + 1 \in 1 .. Lines(v + 1) + 1
    BY <1>3
  <2> QED
    BY <1>2, <1>5, <1>7, <2>3, <2>4 DEF ProcOk
<1>10. ASSUME NEW q \in Processes, q # p
       PROVE  ProcOk(q)'
  <2>1. ~Holds(q) /\ proc[q].pc # "serving"
    BY <1>1, <1>10, Alone
  <2> QED
    BY <1>7, <1>10, <2>1 DEF ProcOk, Holds
<1> QED
  BY <1>2, <1>5, <1>6, <1>8, <1>9, <1>10 DEF IInv

LEMMA DoneInv ==
  ASSUME IInv, NEW p \in Processes, Done(p)
  PROVE  IInv'
<1>0. PICK v \in 0 .. 5, n \in 1 .. 9 : v = proc[p].version /\ n = proc[p].line
  BY DEF IInv, TypeOK, Process
<1>1. /\ lock' = lock /\ proc[p].pc = "migrate" /\ n > Len(Schema[v + 1]) /\ starts' = starts
      /\ db' = [db EXCEPT !.version = v + 1, !.dirty = FALSE]
      /\ proc' = [proc EXCEPT ![p].pc = "next", ![p].version = @ + 1, ![p].ran = TRUE]
  BY <1>0 DEF Done, File
<1>2. /\ v \in 0 .. 4 /\ db \in Db /\ db.version = v + 1
      /\ n \in 1 .. Lines(v + 1) + 1 /\ At(Before(v) + n - 1)
      /\ proc \in [Processes -> Process]
  BY <1>0, <1>1 DEF IInv, TypeOK, ProcOk
<1>3. At(Before(v + 1))
  <2>1. Before(v) \in Nat /\ Lines(v + 1) \in Nat /\ Len(Schema[v + 1]) = Lines(v + 1)
    <3>1. v + 1 \in 1 .. 5
      BY <1>2
    <3> QED
      BY <1>2, <3>1, Files DEF Before, Lines
  <2>2. n = Lines(v + 1) + 1
    BY <1>1, <1>2, <2>1
  <2>3. Before(v) + n - 1 = Before(v + 1)
    BY <1>2, <2>1, <2>2, NextFile
  <2> QED
    BY <1>2, <2>3
<1>4. /\ db' \in Db /\ db'.version = v + 1 /\ ~db'.dirty
      /\ db'.tables = db.tables /\ db'.users = db.users /\ db'.keys = db.keys
  <2>1. v + 1 \in 0 .. 5
    BY <1>2
  <2> QED
    BY <1>1, <1>2, <2>1 DEF Db
<1>5. TypeOK'
  BY <1>0, <1>1, <1>2, <1>4 DEF IInv, TypeOK, Process
<1>6. /\ proc'[p].pc = "next" /\ proc'[p].version = v + 1
      /\ \A q \in Processes : q # p => proc'[q] = proc[q]
  BY <1>0, <1>1, <1>2 DEF Process
<1>7. \A q \in Processes : Holds(q)' => lock' = q
  BY <1>1, <1>6 DEF IInv, Holds
<1>8. ProcOk(p)'
  BY <1>4, <1>6 DEF ProcOk
<1>9. ASSUME NEW q \in Processes, q # p
      PROVE  ProcOk(q)'
  <2>1. ~Holds(q) /\ proc[q].pc # "serving"
    BY <1>1, <1>9, Alone
  <2> QED
    BY <1>6, <1>9, <2>1 DEF ProcOk, Holds
<1>10. At(Before(v + 1))'
  BY <1>3, <1>4, AtStays
<1> QED
  BY <1>4, <1>5, <1>7, <1>8, <1>9, <1>10 DEF IInv

-----------------------------------------------------------------------------
(* Theorems.                                                               *)

\* Whoever migrates and wherever a migration is cut off, the database is as far
\* as the version it notes and the line of the one process at work.
THEOREM Invariance == Spec => []IInv
<1>1. IInv /\ [Next]_vars => IInv'
  <2> SUFFICES ASSUME IInv, [Next]_vars
               PROVE  IInv'
    OBVIOUS
  <2>1. CASE Next
    <3>1. PICK p \in Processes :
            \/ Start(p) \/ Lock(p) \/ Refuse(p) \/ ReadVersion(p) \/ Begin(p) \/ Run(p)
            \/ Done(p) \/ Migrate(p) \/ Crash(p)
      BY <2>1 DEF Next
    <3>2. CASE Refuse(p) \/ Crash(p)
      BY <3>2, ExitInv DEF Refuse, Crash
    <3> QED
      BY <3>1, <3>2, StartInv, LockInv, ReadVersionInv, BeginInv, RunInv, DoneInv, MigrateInv
  <2>2. CASE UNCHANGED vars
    BY <2>2 DEF vars, IInv, TypeOK, Holds, ProcOk, At, UserAt
  <2> QED
    BY <2>1, <2>2
<1> QED
  BY <1>1, InitInv, PTL DEF Spec

\* The database, the lock and the processes keep their shapes.
THEOREM TypeCorrect == Spec => []TypeOK
<1>1. IInv => TypeOK
  BY DEF IInv
<1> QED
  BY <1>1, Invariance, PTL

\* No process serves a schema that is not complete or rows without a user.
THEOREM CurrentIsServed == Spec => []ServesCurrent
<1>1. IInv => ServesCurrent
  <2> SUFFICES ASSUME IInv, NEW p \in Processes, proc[p].pc = "serving"
               PROVE  /\ db.version = 5 /\ ~ db.dirty
                      /\ db.tables = Tables /\ db.keys = {"idx_outputs_user_asset"}
                      /\ \A t \in UserTables : db.users[t] = Dapp
    BY DEF ServesCurrent
  <2>1. db.version = 5 /\ ~db.dirty /\ At(13) /\ db \in Db
    BY DEF IInv, ProcOk, TypeOK, Before
  <2>2. db.tables = Tables
    BY <2>1 DEF At, Tables
  <2>3. db.keys = {"idx_outputs_user_asset"}
    BY <2>1 DEF At, Db
  <2>4. \A t \in UserTables : db.users[t] = Dapp
    BY <2>1 DEF At, UserAt, UserTables
  <2> QED
    BY <2>1, <2>2, <2>3, <2>4
<1> QED
  BY <1>1, Invariance, PTL

\* No statement is refused for what was done before.
THEOREM NothingRefused == Spec => []NeverRefused
<1>1. IInv => NeverRefused
  <2> SUFFICES ASSUME IInv, NEW p \in Processes, proc[p].pc = "migrate",
                      proc[p].line <= Len(Schema[proc[p].version + 1])
               PROVE  Executable(Schema[proc[p].version + 1][proc[p].line])
    BY DEF NeverRefused, File
  <2>0. PICK v \in 0 .. 5, n \in 1 .. 9 : v = proc[p].version /\ n = proc[p].line
    BY DEF IInv, TypeOK, Process
  <2>1. /\ v \in 0 .. 4 /\ n \in 1 .. Lines(v + 1) + 1 /\ At(Before(v) + n - 1) /\ db \in Db
    BY <2>0 DEF IInv, ProcOk, TypeOK
  <2>2. n \in 1 .. Lines(v + 1)
    <3>1. v + 1 \in 1 .. 5 /\ n <= Len(Schema[v + 1])
      BY <2>0, <2>1
    <3>2. Len(Schema[v + 1]) = Lines(v + 1) /\ Lines(v + 1) \in Nat
      BY <3>1, Files DEF Lines
    <3> QED
      BY <2>1, <3>1, <3>2
  <2>3. /\ Before(v) + n \in 1 .. 13
        /\ Schema[v + 1][n] = Statement(Before(v) + n)
    BY <2>1, <2>2, StatementIs
  <2>4. Executable(Statement(Before(v) + n))
    <3>1. PICK k \in 1 .. 13 : k = Before(v) + n
      BY <2>3
    <3>2. Before(v) \in Nat
      BY <2>1 DEF Before
    <3>3. k - 1 = Before(v) + n - 1
      BY <3>1, <3>2
    <3>4. At(k - 1)
      BY <2>1, <3>3
    <3> QED
      BY <2>1, <3>1, <3>4, StatementCan
  <2> QED
    BY <2>0, <2>3, <2>4
<1> QED
  BY <1>1, Invariance, PTL

-----------------------------------------------------------------------------
(* The columns.                                                            *)

\* A row is the transfer that was answered, and an address.
ColumnInv ==
  /\ request \in Request
  /\ row = answer
  /\ row # Nothing => IsMixAddress(row.opponents, Byte(row.threshold))
  /\ scanned \in {Nothing, row}

\* A transfer is a record of the request's fields and a byte.
LEMMA TransferType ==
  ASSUME NEW req \in Request
  PROVE  Transfer(req) \in [amount : Int, memo : Nat, opponents : Nat, threshold : 0 .. 255]
<1>1. /\ req.amount \in Int /\ req.memo \in Nat /\ req.opponents \in Nat
      /\ req.threshold \in Nat
  BY ColumnsAssumption DEF Request
<1>2. AtLeastOne(req.threshold) \in Nat
  BY <1>1 DEF AtLeastOne
<1>3. \A n \in Nat : Byte(n) \in 0 .. 255
  BY DEF Byte
<1> QED
  BY <1>1, <1>2, <1>3 DEF Transfer

\* The columns keep a transfer that the checks let through and that fits.
LEMMA ColumnsKeep ==
  ASSUME NEW transfer \in [amount : Int, memo : Nat, opponents : Nat, threshold : 0 .. 255],
         IsValid(transfer)
  PROVE  InColumns(transfer) = transfer
<1>1. Rounded(transfer.amount) = transfer.amount
  BY DEF IsValid, Rounded
<1> QED
  BY <1>1 DEF InColumns

\* Its threshold is the byte that it was before.
LEMMA AddressIsKept ==
  ASSUME NEW transfer \in [amount : Int, memo : Nat, opponents : Nat, threshold : 0 .. 255],
         IsValid(transfer)
  PROVE  IsMixAddress(transfer.opponents, Byte(transfer.threshold))
<1>1. Byte(transfer.threshold) = transfer.threshold
  BY DEF Byte
<1> QED
  BY <1>1 DEF IsValid

\* The invariant is inductive.
THEOREM ColumnsInvariance == ColumnSpec => []ColumnInv
<1>1. ColumnInit => ColumnInv
  BY DEF ColumnInit, ColumnInv
<1>2. ColumnInv /\ [ColumnNext]_columnVars => ColumnInv'
  <2> SUFFICES ASSUME ColumnInv, [ColumnNext]_columnVars PROVE ColumnInv'
    OBVIOUS
  <2>1. CASE CreateTransfer
    <3> DEFINE transfer == Transfer(request)
    <3>1. transfer \in [amount : Int, memo : Nat, opponents : Nat, threshold : 0 .. 255]
      BY TransferType DEF ColumnInv
    <3>2. IsValid(transfer) /\ row' = InColumns(transfer) /\ answer' = transfer
      BY <2>1 DEF CreateTransfer, insert
    <3> HIDE DEF transfer
    <3>3. row' = transfer /\ IsMixAddress(transfer.opponents, Byte(transfer.threshold))
      BY <3>1, <3>2, ColumnsKeep, AddressIsKept
    <3>4. request' = request /\ scanned' = Nothing
      BY <2>1 DEF CreateTransfer, ColumnInv
    <3> QED
      BY <3>2, <3>3, <3>4 DEF ColumnInv
  <2>2. CASE scanTransfer
    BY <2>2 DEF ColumnInv, scanTransfer
  <2>3. CASE UNCHANGED columnVars
    BY <2>3 DEF ColumnInv, columnVars
  <2> QED
    BY <2>1, <2>2, <2>3 DEF ColumnNext
<1> QED
  BY <1>1, <1>2, PTL DEF ColumnSpec

\* The transfer that is found and paid later is the one that was answered.
THEOREM ScansAreAnswers == ColumnSpec => []ScannedAsAnswered
<1>1. ColumnInv => ScannedAsAnswered
  BY DEF ColumnInv, ScannedAsAnswered
<1> QED
  BY <1>1, ColumnsInvariance, PTL
=============================================================================
