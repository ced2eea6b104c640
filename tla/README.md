# A formal model of safe-wallet

safe-wallet keeps the money of a dapp, and of sub wallets that the dapp
creates, on the Mixin Safe network.  Clients ask an RPC server for transfers;
the server only writes to a MySQL database which outputs (utxos) a transfer
will spend.  A worker process that holds the keys finds the outputs, spends
them and cleans up.  Nothing but the database connects the two, several
processes of each kind may run on it, and there is no lock: the correctness of
the wallet rests on one conditional `UPDATE` inside one transaction, on a unique
key, and on the order of sequence numbers.

This directory holds a TLA+ model of that design, TLC runs of small instances
and proofs, checked by TLAPS, for all instances.

## 1. Inventory

| component | code | state | operations |
|---|---|---|---|
| tables and stores | `store/output`, `store/transfer`, `store/property`, `store/db/schema` | `outputs`, `assigns` (user, asset -> offset), `transfers` (unique trace), `properties` | save, list (by offset, target, range), delete, sum; find, list, assign, update status; get, set |
| RPC server | `handler/rpc` | singleflight group | `CreateTransfer`, `FindTransfer`, `CreateWallet`, `FindWallet` |
| cleaner | `worker/cleaner` | none of its own | delete outputs that are not unspent any more; `mergeOutputs` |
| syncer | `worker/syncer` | `sync_offset` in `properties` | pull a page of utxos, save the unspent ones, move the offset |
| cashier | `worker/cashier` | none of its own | list assigned transfers, find the outputs of the range, spend, mark handled |
| output service | `service/output` | none | `Pull`, `ListRange` on the network |
| transfer service | `service/transfer` | asset cache | `Spend`: build, create, sign, submit; split the change |
| wallets | `service/wallet`, `service/loader`, `store/wallet` | `wallets`, LRU cache | create a sub wallet, encrypt, find and decrypt its keys, export |
| processes | `cmd/server`, `cmd/worker` | configuration | start, stop; which database a query goes to |
| migrations | `store/db/migrate.go`, `store/db/schema` | schema version, lock of golang-migrate | bring the schema up to date when a process starts |
| front end | `handler/api`, `handler/api/reversetwirp`, `handler/hc` | none | make Twirp calls of HTTP requests; answer the health check |
| generated code | `handler/rpc/safewallet` | none | Twirp server and clients: routes, bodies, errors, panics |
| tools | `cmd/safewallet-cli`, `cmd/worker/cmds` | none | command lines: pay, create and find wallets, export keys |

### How they interact

* Client -> server: RPC (or HTTP, rewritten into the same RPC), perhaps through
  proxies.  A client names the `trace_id` of a transfer, or has the command line
  tool make one up, and sends the request again when it gets an error or no
  answer.
* Server -> database: every query goes to a read replica when some are
  configured (`nap`), each query to the next one; transactions go to the
  primary (`Begin`).
* Worker -> database: syncer, cashier and cleaner are three goroutines of one
  process and share only the tables; the worker opens the primary alone.
* Worker -> Mixin network: list utxos, create, sign and submit transactions.
  The request id of a transaction is the trace of the transfer.

### What makes it hard, and what correct means

* *Assignment.*  A request reads an offset, then lists outputs behind it, then
  starts a transaction.  Between any two of these the offset moves, outputs are
  saved and deleted, other requests and cleaners list the same outputs, the
  process stops; replicas answer with the past.  An output must never belong to
  two transfers, must not be lost behind the offset, the range that a transfer
  stores must still pay for it when the cashier reads it, and a trace must have
  one transfer however often it is sent.
* *Settlement.*  The cashier spends a range that the cleaner may be deleting, in
  two steps (submit, mark handled) that a crash may separate.  A transfer must
  be paid exactly once and every transfer in the end.
* *Synchronisation.*  The page and the offset are saved by separate statements.
  No output may be missed, and none may appear behind the assign offset.
* *Numbers.*  Decimal division, rounding, halves of the smallest unit and a
  conversion to 64 bits decide the change of a transaction.  It must add up.
  Columns of a transfer are narrower than the fields of its request; what is
  read back must be what was answered.
* *Wallets.*  A sub wallet exists on the network, by three calls, before it
  exists in the table, and its row is sealed under a key that another
  configuration does not have.  Nobody may be told of a wallet whose keys are
  lost, and no key may be taken for another.
* *Calls.*  Requests and answers get lost, servers go on when their clients have
  given up, proxies answer by themselves, bodies are cut off.  A client must be
  able to conclude what was done from what it hears, and must not pay twice.
* *Migrations.*  Several processes start over one database and may crash between
  two statements that MySQL commits one by one.

`PROJECT.json` lists every hazard at its line, with the properties that cover
it, or the reason why none does.

## 2. Modules

| module | what it is |
|---|---|
| `Ledger` | the tables, the queries on a snapshot of them, the transactions on the primary |
| `Claims` | what the parts promise each other about the tables, as a specification: `ClaimSpec` |
| `CreateTransfer` | the handlers of the RPC servers, replicas, crashes (extends `Ledger`) |
| `MergeOutputs` | the cleaners' `mergeOutputs` (extends `Ledger`) |
| `Assignment` | servers and merges together; the rest is an environment that does what `Claims` allows |
| `Network` | the Mixin network (external) and `service/output` on it (extends `Claims`, `Change`) |
| `Syncer`, `Cleaner`, `Cashier` | the three loops of a worker (extend `Network`) |
| `Settlement` | all three, in several workers; assignment is an environment that does what `Claims` allows |
| `SafeWallet` | the whole wallet: the actions of `Assignment` and `Settlement` over the same variables, with no environment but clients, deposits and failures |
| `Change` | how `Spend` computes the change, as operators |
| `SplitChange` | the change of one transaction, from `sum` and `amount` to its parts |
| `Payments` | what clients are promised: a bank with accounts and orders, `PaymentSpec` |
| `Wallets` | creation, encryption, loading and export of sub wallets |
| `Twirp` | error codes, statuses and what a client makes of a response, as operators |
| `Calls` | calls of all four methods, by Twirp or through the front end (extends `Twirp`) |
| `Migration` | the schema migrations that every process runs when it starts |
| `Columns` | the widths that a payment passes through: message, handler, columns, scan |
| `MCAssignment`, `MCSettlement`, `MCSafeWallet`, `MCWallets`, `MCCalls` | values of the constants for TLC |
| `ClaimsProofs` | lemmas about lists, sums and numbers; the theorems about `Claims` |
| `AssignmentProofs` | the theorems about `Assignment` |
| `SettlementProofs` | the theorems about `Settlement` |
| `SafeWalletProofs` | the theorems about the whole: the two halves compose |
| `SplitChangeProofs`, `WalletProofs`, `CallsProofs` | the theorems about `SplitChange`, `Wallets`, `Calls` |
| `SchemaProofs` | the theorems about `Migration` and `Columns` |

The system is cut in two where the tables cut it.  `Assignment` shows who
decides which outputs a transfer gets, `Settlement` what becomes of it, and
`Claims` is the interface: a server or a merge may `Grant` a transfer the next
outputs of its account, no more than it needs and no more than `Limit`; a syncer
may `Save` known outputs again and new ones behind all of them; a cleaner may
`Delete` assigned outputs; a cashier may `Handle` a transfer; the network may
`Extend` its list.  Each half has the other as an environment that takes the
steps of `Claims` in any order, and each half implements `ClaimSpec` (by proof
and by TLC).  `SafeWallet` puts the halves together again, each in the place of
the other's environment, and is proved to be an instance of both.

`Settlement` implements `Payments` as well: the refinement mapping makes the
balance of an account of its unspent utxos and of what transactions owe it that
are not listed yet, and the book of orders of the rows of `transfers` and the
transactions of the network.

Around this core stand modules that meet it at one place each.  `Calls` has in
`CreateTransfer` the promise that `Assignment` keeps (`OnceAsRequested`,
`AckDurable`).  `Wallets` decides whose keys the loader finds, the constant
`Wallets` of `Cashier`.  `Migration` ends where all others begin, with tables
that have all columns and keys.  `Columns` shows that the transfer which
`Ledger` keeps unchanged in a row is not changed by the row's columns.

### State and code

* An output is its sequence number.  Rows of `outputs` copy account and amount
  from the network and are never updated, so a set of numbers is the table.
  A utxo is its position in `utxos`, what the network lists.
* `db.assigns[a]` is the `offset` column, 0 without a row: `updateAssign`
  inserts when the caller read 0 and updates with `offset = ?` otherwise, and
  both succeed exactly when the offset is the one that was read.
* A position in `db.transfers` is the order of commits; the `AUTO_INCREMENT` id
  may order concurrent ones differently, which no property here depends on.
* Amounts are whole numbers of 10^-8; `CreateTransfer` refuses finer ones.
* A trace is a uuid.  Those of clients, of a request's merge (derived from the
  range) and of the cleaner (random) are distinct by construction; a random
  uuid is one that no transfer has.
* `Assign` and `AssignFails` are one transaction: the commit, or a rollback at
  any statement, for a lost race, a taken trace or a database error.
* `Scans` are the results of a `rows.Next` loop whose `rows.Err` is never
  asked: any prefix of the list.
* Every query and every transaction is an action of its own.  Steps between
  them touch only local variables and belong to the action before.
* A handler is `idle`, in one of the steps of `createTransfer`, waiting for the
  call of another handler of its process (`wait`, singleflight) or done
  (`reply`).  A panic of `Begin` (`generic.Must`) surfaces in every sharer of
  the call and is an error; in a worker it ends the process, like `AbortMerge`
  followed by a new start.
* A request whose trace exists is answered with its own contents and status
  `PENDING`, whatever the table says; the answer's contents are not modelled,
  only that it is not an error.
* `Crash` stops a server: `Shutdown` gets the context that has just been
  cancelled, so it waits for nobody.
* A replica is a past state of the primary and catches up at any moment.  One
  replica per run is no restriction for one that lags; with several (the proofs
  allow any set) each query picks any of them.
* Not reachable, and left out: `Store.Create`, transfers with an id in
  `assign`, rows with status pending.

* `payments` are the transactions the network accepted, by request id.  `Spend`
  is one action, the submission: what it reads before (asset, keys) does not
  change.  It may be answered with an error after it took effect
  (`SpendFails`).
* A worker's loop is a state per process.  `cashier[w]` holds the batch of
  `ListStatus` and the goroutines of `errgroup` that run (`InFlight` of them),
  each with its own step, so the transfers of one batch interleave.  `Cleaner`
  holds the page, the accounts that are done and the row to be deleted;
  `Syncer` the offset, the page and the two statements of `properties.Set`.
* Failures are actions of their own (`SyncFault`, `CleanFault`, `CashFault`): a
  call that fails, also after it took effect, a scan that ends early, a process
  that stops between any two calls.  A failure of one transfer ends its task;
  the others of the batch go on.
* The loader finds the keys of `Wallets`: the dapp's own and the rows of
  `wallets`.

`Wallets`:

* `create[s]` is where a handler of `CreateWallet` is between its calls of the
  network (`CreateUser`, `ModifyPin`, `SafeMigrate`) and the insert.  Each call
  fails before or after it takes effect (`CallFails`, `InsertFails`), and the
  random keys of the try are forgotten with it.
* The key that seals a row is a hash of the session and of the first private key
  that the `dapp` section sets; a process starts with one of `Configs`, and
  starts again with another one.  `gcm.Open` fails under any other key.
* A worker finds a wallet in its cache or in the table, and puts it in the cache
  (`AddToCache`) some time after it was read; the LRU evicts any other, since
  the order of use depends on calls that no property here is about.
* `List` does not ask `rows.Err`, so an export is any subset of the rows.

`Calls`:

* A call is `sent`, `serving`, `did` (it has taken effect and is not answered),
  `reply` (the response is on its way) or `gone`; `heard` is what its client
  takes it for, which it may decide before the server gets the request.
* Fields of messages are present or not.  A request is cut off or whole.  The
  front end ignores a body that does not decode and sends what path and query
  say (`Decodes`, `Got`), even if that is nothing: the wildcard of the route
  that it is mounted on (`inject_server.go:42`) is among the path parameters, so
  its map is never empty.  The service refuses such a transfer and makes such a
  wallet.  The Twirp server answers `malformed` to a generated client, and to
  the string that the front end makes of opponents in the query.
* `Learned` is what a client concludes: a generated one from the code of the
  body or, of a response of a proxy, from its status; an HTTP client from the
  status alone.  `Refusals` are the codes that say that nothing was done.

`Migration`: a migration file is its statements, in order; `db.version` and
`db.dirty` are golang-migrate's table, which with its lock is external.  The
column `user_id` of the rows that older releases made is absent, empty or the
dapp's.

`Columns`: opponents and memos are their numbers and lengths, amounts are tenths
of 10^-8, so that the rounding of `decimal(64, 8)` shows.

### What is assumed of the network

`Network` is external; `service/output` and `service/transfer` rely on this:

* utxos are listed in ascending sequence, new ones behind all listed before, and
  from any offset on without gaps;
* an input is not unspent any more from the moment its transaction is submitted;
* a request id has one transaction.  A second one under the same id changes
  nothing; it is answered with success if its inputs are the same, and with
  success or an error if they differ;
* a transaction whose inputs are spent or not worth its amount is refused.

## 3. Properties and runs

| property | says |
|---|---|
| `TypeOK` | types |
| `NoDoubleAssign` | ranges of two transfers share no output |
| `NothingStranded` | an output that the offset has passed is in the range of a transfer |
| `RangePays` | what is found in a transfer's range, now and later, is worth its amount, exactly for a merge, and is no more than one transaction takes |
| `OnceAsRequested` | a trace has one transfer, with account, amount and opponent of a request of that trace; a merge pays the user that it takes from |
| `AckDurable` | an answer without an error means the transfer is there |
| `EveryRequestEnds` | every request is answered or cut off, followers of a call too |
| `ClaimSpec` | every step is one that `Claims` allows |
| `PaidAsAssigned` | a transaction spends exactly the range of its transfer, with its amount and opponent |
| `HandledIsPaid` | a handled transfer was submitted |
| `NothingMissed` | what the sync offset has passed is in the table, or spent |
| `FreeIsUnspent` | rows that are not assigned yet can be spent |
| `AssignedIsCovered` | an account is worth all of its transfers together that are not paid yet |
| `PaymentSpec` | seen from outside, an order is accepted only if its account can pay it, is paid once to the last unit, and reported after that |
| `PaidAsRequested` | what the network was told to pay was asked for by a request, to whom and as much as it asked, or is a merge and stays with its user |
| `EveryTransferHandled` | an assigned transfer with known keys, and fewer than a batch of unpayable ones before it, is handled in the end |
| `EveryUtxoSaved` | a listed utxo is saved in the end, or was spent |
| `Conserves` | amount and change are worth the inputs |
| `Spread` | no part of the change is less than a quarter of it, up to truncation |
| `RowsHaveKeys` | a row has the very keys that the network knows of its user |
| `ToldCanBeLoaded` | a wallet that a client was told of has a row, which one configuration opens to the keys of the network |
| `LoadedIsRight` | what the store returns, from table, cache or export, are the keys of that user |
| `PaidOnce` | a caller is charged once, whether it names its trace and retries at will, or leaves it to the tool and retries refusals only |
| `RefusedIsNothing` | a call that was refused made nothing and will not |
| `OkIsDone` | what a client was told to be done is done |
| `MadeIsWhole` | a body that is cut off makes no transfer of what is left, and no wallet of a generated client; a wallet made through the front end may lack its label |
| `ServesCurrent` | no process serves before the schema is complete and all old rows are the dapp's |
| `NeverRefused` | no statement of a migration is refused for what was done before |
| `StartsServe` | a start that goes well ends in serving, unless a migration was cut off |
| `ScannedAsAnswered` | the transfer that is scanned later is the one that was answered by the call that inserted it, and the scan does not panic |
| `BlockedAssetsStay`, `ThresholdIsReachable` | section 6 |

| run | instance | why it is enough |
|---|---|---|
| `replicas` | 2 servers with one handler each, 1 lagging replica, 3 coins, page of 2, two traces: payments of 1 coin and of all 3 under the one, of all 3 under the other | two optimistic writers and a stale reader are the smallest race; a payment of all 3 must merge a full page first and one of 1 coin makes its list stale; the two servers may get different contents of one trace, each while its reads show no transfer of it |
| `flights` | 1 server with 2 handlers, 1 cleaner with 2 merges, one trace with two contents (of 1 coin by the user, of 3 coins by nobody), 2 coins and a third that arrives late, with fairness | leader and follower of one call, two calls of one trace, the same account under both names, and a merge between their reads and their commits |
| `wallet` | 1 server with a handler, 1 worker with its three loops and merges, 2 users, 3 coins of which the first was spent before, a payment between the users that needs both others, pages and batches of 2, merges from 2 outputs on, up to 5 utxos | every loop against every other and against the server: a merge and a request race for the same coins, ranges are partly deleted, tried again, found on the network, their change is listed while pages are read; payer and receiver both have accounts of the bank; a payment out of a merged output is submitted and marked, but its own outputs would exceed the bound and are not listed |
| `workers` | 2 workers with a syncer and a cashier, a third with a cleaner, 2 coins in pages of 2 and a deposit, one payment with a range of 2 | two tries of one transfer while its rows go one by one; the offset goes back and forth and rows come back |
| `handled` | 1 worker, 2 users of which one has no keys, 4 coins, pages of 1, one transfer at a time, with fairness | an unservable transfer first in the batch; a page with nothing to save |
| `change` | all inputs and amounts up to 40 units, quotients rounded to 1/8, 16-valued integers | every count, rounding both ways, wrapped counts, halves of one unit |
| `wallets` | 2 servers, 1 worker, 2 users, a label that fits and one that does not, 3 configurations of which two derive the same key, a cache of 1 | every call of two creations fails or succeeds unheard; the two wallets evict each other; rows of two keys meet a process of a third start |
| `calls` | the command line tool and an HTTP client that names its trace, 2 calls each; both pay, or one uses all four methods | a second try meets every stage of the first |
| `migration` | 2 processes, 2 starts each, from each of the 6 versions of the schema | one migrates, crashes between two statements or serves while the other waits for the lock, is refused, or goes on |
| `columns` | thresholds, numbers of opponents, amounts and memos at and around every limit: 0, 6/7 opponents (the column), 127/128 and 255/256/257, half of 10^-8, 200/255 bytes | each width and each check is passed and hit |
| `blocked`, `threshold` | violations | section 6 |

Every handler starts over after it has answered, and every loop after each
round, so the runs of `Assignment`, `Settlement` and `SafeWallet` do not bound
requests or rounds; they bound utxos (`MaxOutputs`), distinct requests or orders, processes
and, in `AutoIds`, the merges of cleaners.  `Calls` bounds the calls of a caller
(`MaxCalls`), `Migration` the starts of a process (`MaxStarts`).
`CHECK_DEADLOCK` is off where coins run out, everything is paid, all calls are
over or all processes serve, and the system rightly has nothing left to do.
`replicas` uses the symmetry of the two servers, swapped with their handlers,
`workers` that of the two workers that run the same loops, `wallets` that of
servers and of users.  Every property of every run is broken
by a mutant of the code: no comparison of the offset, no unique trace, the
offset moved outside the transaction, a page one output too long, an error that
followers do not see, followers that are not woken, a range without its upper
bound, change that goes to the opponent, a failed `Spend` that is marked, a page that is not saved and passed, a
call of the network whose error is ignored, a tag that is not checked, a trace
made up for every call, `ErrNoChange` as an error, an insert that clamps, and
so on.

Fairness.  `flights` assumes weak fairness of every handler's next step.  Go
schedules its goroutines, and each step is a query or a transaction that ends
with a result or an error.  Nothing is assumed of clients, replicas, crashes or
the environment, nor that a step succeeds.

`handled` assumes weak fairness of each loop (`Run` starts `run` again after a
pause, whatever it returned) and that from some moment on database and network
answer and workers stay up (`<>[][Regular]_vars`): without that every call could
fail for ever, and no program could promise anything.  What failed before is
arbitrary.  Nothing is assumed of deposits, of new orders, or of the
confirmation of transactions.

`migration` assumes weak fairness of what a process does by itself, statement
after statement.  Nobody has to start a process, and it may crash at any of its
starts but the last, which is the one that `StartsServe` is about.

A limit of `handled`: the utxo that was spent before the database existed lies
outside the ranges.  If the network lists one between the outputs of a range,
the range pays and its rows are deleted, and the transfer is tried again because
its status was not updated, then `outputz.ListRange` returns that utxo as well,
and `Spend` builds a second transaction under the request id.  Whether the
network answers it as the first one is not in the sources; if it does not, TLC
finds the transfer assigned for ever, though it is paid once.

## 4. Proofs

All theorems hold for every value of the constants that the declared
assumptions allow: users are opponents, limits and pages are positive, requests
and orders are well formed, the listed utxos have positive amounts, and those
that were spent before are listed at the start.

### The interface

`ClaimsProofs` proves of `Claims` alone, whoever takes its steps, that no output
is assigned twice and that none is stranded behind an offset
(`ClaimsAssignOnce`, `ClaimsStrandNothing`), so both hold of everything that
implements it.  `ClaimInv` adds that offsets lie within what was saved and that
the ranges of an account follow each other up to its offset (`RangesFollow`): a
new range begins behind all others, and outputs that are saved later have
greater numbers than any range.

### Assignment

`AssignmentProofs` proves `TypeOK`, `ClaimSpec`, `NoDoubleAssign`,
`NothingStranded`, `RangePays`, `OnceAsRequested` and `AckDurable` for all sets
of users, assets, servers, handlers, replicas, cleaners, requests and outputs
and every `Limit`.

The heart of it is `ImplementsClaims`: whatever servers and merges read before,
they change the tables only as `Claims` allows.  That is not inductive, for it
depends on what lists that were read long ago still say.  The argument has these
parts.

1. *A list stays a claim.*  `Claim(a, offset, S)`: every saved output of the
   account behind the offset and up to an element of `S` is in `S`, or was
   assigned since.  A list from any snapshot is one (`DbComplete`: what is not
   in the table is assigned; `ReplicasLag`: what a replica misses is assigned or
   newer than all it has), and so is every prefix of one, which covers
   truncated scans.  It stays one while others save behind and delete what is
   assigned (`ClaimStays`).
2. *A commit is a grant.*  When the transaction finds the offset that was read,
   "assigned since" is empty: the range of the new row is exactly the list
   (`ClaimIsRange`).  `Grant(row)` says so: the row gets every saved output
   behind the account's offset up to its own end.  Each of the three assign
   transactions is a grant or changes nothing (`GrantTransfer`, `GrantMerge`,
   `GrantAuto`), and `Steps` reduces `Next` to grants (`Granted`) and the
   environment.  That a grant takes no more than it needs is in the list: the
   scan would have stopped before its last row (`ListIsMinimal`).
3. *Grants are what `Claims` allows* (`ImplementsClaims`): the steps of the
   servers and the merges are grants, those of the environment are `Claims`'
   own.  Single assignment and that nothing is stranded follow from the
   theorems about `Claims`.
4. *Grants keep the rest.*  A range stays what it was worth, since later outputs
   lie behind it (`RangesSaved`, `Grows`); a trace that has a transfer gets no
   second one, and what it has was asked for (`AsRequested`).

`Inv` is the conjunction of these parts.

### Settlement

`SettlementProofs` proves `TypeOK`, `PaidAsAssigned`, `HandledIsPaid`,
`NothingMissed`, `FreeIsUnspent`, `AssignedIsCovered`, `Spec => ClaimSpec` and
`Spec => PaymentSpec` for any number of syncers, cleaners and cashiers, any
orders and utxos, every size of pages and batches, with every failure and crash.
What makes it hard is again that every worker acts on what it read before the
others went on; `Inv` says what is left of that.

* `SyncersKnow`: the offset has passed what is saved or was spent before
  (`Passed`), and the page that a syncer holds closes the gap up to its next
  offset.  A page is a prefix of the list behind its offset (`PageIsPrefix`),
  and what a page does not return of its rows is spent (`PullKnows`).
* `SavedIsKept`: whatever can still be spent and was saved is in the table, and
  saved outputs have no gap but for utxos spent before.  Hence new rows appear
  behind all others (`SavedBehind`).
* `CleanersKnow`: the row that a cleaner will delete is spent, and what is spent
  is assigned (`SpentIsAssigned`), so no free row is ever deleted, although rows
  of deleted outputs come back when a slow syncer saves its page.
* `RowsOrdered`: ranges lie in what was saved, one behind the other, and cover
  their transfers without an output to spare.
* `CashiersKnow`: the outputs that a cashier holds are a beginning of its range
  (`Begins`), or the transfer is paid, or one of them is spent.  The first holds
  of an early end of a scan too (`TableBegins`); the fallback to the network
  returns a beginning of the range unless it returns something spent
  (`NetworkBegins`).

The network accepts only inputs that are unspent and worth the amount, and a
beginning of the range that is worth the amount is the whole range
(`SpendsRange`): all but the last output do not do, or the transfer takes all
that they are worth.  So a transaction is either right or refused.

That argument needs sums.  `ClaimsProofs` shows of the sum of any finite family
of numbers (`SumOver`) that it is one of them and the sum of the rest
(`SumRemove`), and that it may be split in two (`SumUnion`); for amounts, that a
proper part is worth less (`ValueGrows`).  The sum is a fold, defined by
recursion, which the provers know nothing about.  That the recursion has a
solution is shown by the well-foundedness of the numbers (`SumExists`), that the
fold is that solution by unfolding it (`TotalIsSum`), and the rest by the
smallest set that a wrong sum would be wrong of (`SmallestSet`).

Each step reduces to one of seven kinds (`Steps`: nothing but reading, the
network lists, an order is granted, a page is saved, a row deleted, a
transaction paid, a transfer marked), all of which let the shared state only
grow (`Grows`); the invariant of a worker that does not move needs no more than
that.

`ImplementsPayments` is the refinement of the bank.  The accounts' balances are
sums over utxos and transactions at once (`BalanceIsSum`), the orders are the
transfers by trace (`Book`, `BookAt`), and every kind of step is shown to be one
of the bank's or to leave both alone (`StepIsPayment`).

* *Nothing is made or lost.*  What leaves an account's utxos with a payment is
  due to it and to the opponent at once (`PayMoves`), what is due stays so until
  it is listed (`DuesStay`), and what is listed then is what was due, for the
  parts of the change are worth the change (`ReceiptsAreDue`, with
  `SplitConserves` of the module about the change).  So a payment moves exactly
  its amount, a transaction that becomes final moves nothing (`SettleMoves`) and
  a deposit only adds (`DepositAdds`).
* *An accepted order can be paid.*  The ranges of the transfers that are not
  paid are unspent (`UnpaidIsUnspent`) and disjoint, and each is worth its
  amount, so that the account's utxos are worth all of them together
  (`DisjointCover`, `OwedIsCovered`); `TransfersAreCovered` says so of every
  moment.  `Payments` demands it when an order is accepted (`OwedAfter`,
  `OrderAccepts`).
* *Once, and in order.*  Traces are unique, a payment is made only for a trace
  that has none, and a task that marks knows of the payment (`PaysIsPay`,
  `HandlesIsReport`).

### The whole wallet

`Assignment` is proved for an environment that keeps `Claims`, and so is
`Settlement`; each half keeps `Claims` because its environment does.  That this
is no circle is what `SafeWalletProofs` shows: the invariants of both halves
hold at the start, and when both hold before a step then it is a step of either
half, of one by its own doing and of the other as one of its environment
(`HalvesFit`), so that both hold after it (`WalletInvariance`).

* A grant of a server or a merge is an order of `Settlement`'s environment:
  what is granted is one of `Orders`, of a saved range and with an amount that is
  not zero (`GrantedIsOrder`, `GrantIsEnvironment`).
* What a syncer saves, a cleaner deletes and a cashier marks is what
  `Assignment`'s environment may do (`WorkIsEnvironment`), since the saved rows
  lie behind all others, the deleted one is assigned and the marked one paid:
  `SavesIsClaimed`, `DeletesIsClaimed` and `HandlesIsClaimed` of
  `SettlementProofs`.

So `WalletSpec` implies the specifications of both halves at once
(`HalvesCompose`), and every safety theorem about either one holds of the whole
(`WalletKeepsPromises`, `WalletFreeIsUnspent`, `WalletCoversAssigned`), as does the bank
(`WalletImplementsPayments`).  Neither half alone can say what matters most,
that money leaves only as a client asked: the servers do not pay, and the
workers do not know requests.  `WalletPaysAsRequested` puts together that a
transfer is as requested and that a payment is as its transfer says.

The constant `Orders` of `Settlement` becomes all transfers that a request or a
merge may ever have, `Arrivals` of `Assignment` all lists of utxos; the
assumptions about them are proved (`AssigningFits`, `SettlingFits`), not
assumed.

### Change, wallets, calls, migrations and columns

`SplitChangeProofs` proves `Conserves`, `Spread` and `TypeOK` for all inputs,
amounts, precisions of the quotient and integer widths: halving keeps the sum
(`Halves`), so parts and rest are worth the change, and each is nothing or a
quarter of it, however many parts the quotient asks for, a negative number
included (`SplitConserves`); inputs that do not pay for the amount ask for no
part (`NoPartsWithoutChange`).

`WalletProofs` proves the properties of `Wallets` for any number of servers,
workers, users and configurations.  `IInv` adds that a server knows which calls
of its creation took effect (`CreateOk`), that keys are set once and only by
the try that made the user (`UsersOk`), that a row is sealed under one of the
configurations (`RowsOk`), and that whatever left the store, in a cache or on
its way there, was right then (`ReadOk`), and stays so since keys never change.

`CallsProofs` proves the properties of `Calls` for any number of callers and
calls.  `IInv` says of every call what its pending response may claim
(`RightReply`), that a refusal is heard only of a call that is over and made
nothing, that a caller who does not name a trace has at most one call that may
pay (`OneTry`), and what transfers and wallets are made of (`TransfersOk`,
`WalletsOk`).  What the server decodes of a body that was cut
off lacks the payment, so no transfer is made of it; of a generated client it
decodes whole bodies only (`DecodedIsWhole`).

`SchemaProofs` proves `TypeOK`, `ServesCurrent` and `NeverRefused` for any
number of processes, starts and crashes.  The statements of all files are
numbered from 1 to 13; `At(k)` is the database after the first `k` of them.
`IInv` says that only the holder of the lock is between `check` and `serving`,
that a clean database is at the end of the file whose version it notes, and that
one under migration is at the line where that process is.  `StatementCan` shows
that every statement can be run where it stands and `StatementRuns` that it
leads from `At(k - 1)` to `At(k)`.  While a process migrates, none serves
(`Alone`).

It also proves `ScannedAsAnswered` for requests of any size: what fits the
columns and is valid is neither rounded nor cut.

### Only model-checked

`EveryRequestEnds`, `EveryTransferHandled`, `EveryUtxoSaved` and `StartsServe`,
since liveness under fairness is beyond the prover.  They are checked of the
half that they are about, not of the whole: a leads-to property of both halves
together would need the fairness of both at once, and the product of their
states.

## 5. Not modelled

* Contents that decide nothing here: created_at, logs, metrics, the order in
  which the cache evicts, the layout of messages and of printed tables.
* The asset's hash and the signature in `Spend`; which replica `nap` picks.
* A label that is lost: a body that is cut off on its way through the front end
  makes a wallet without its label, which is answered without an error.  Labels
  are optional and nothing in the sources promises otherwise, so `MadeIsWhole`
  allows it and excludes everything else.
* `transfers.Create`, transfers with an id in `assign` and rows with status
  pending, which nothing reaches; the files that migrate down.
* The JSON client of Twirp, which nothing uses, hooks and interceptors, which
  are not set, reflection of protobuf messages, and wiring.
* The health check, which keeps no state.
* In `Settlement` the rows are served by the primary alone, as the worker opens
  it.
* The `index` column: `INSERT IGNORE` clamps an index above 127.  Whether the
  network ever gives such an index is not in the sources.
* Spelling of ids: the loader compares the dapp's user exactly, the tables
  without regard to case.  An id is a model value here.

## 6. Where the code and its words differ

* `blocked`: `config.yaml` is read into a viper of its own (`main.go:92`) but
  `provideRpcConfig` asks the package-level one (`inject_server.go:31`), so
  `rpc.blocked_assets` never reaches the server and blocked assets are
  transferred.
* `threshold`: `uint8(max(req.Threshold, 1))` keeps the low byte before the
  check of opponents and threshold (`rpc.go:101`, `rpc.go:125`), so a threshold
  of 257 for one opponent is accepted as 1.
* The number of change parts, "0 - 3" by its comment (`transfer.go:75`), is
  negative when the quotient does not fit 64 bits.  The change is then one part;
  `Conserves` and `Spread` hold nevertheless, and `change` covers the case.

## 7. Plan

Done: assignment and settlement with their interface, the whole wallet that they
compose to, their proofs and the bank that they implement; the change; wallets,
calls, columns and migrations.  Every safety property has a theorem.

Left:

1. Liveness of requests, for TLC: a client that repeats its request, with enough
   money arriving, is served when strong fairness rules out that every try
   fails.
2. What a client knows at the end of it all: `Calls` over `SafeWallet` instead
   of over the promise that the server keeps.
