------------------------------- MODULE Wallets -------------------------------
(***************************************************************************)
(* Sub wallets: a server creates a user on the Mixin network, gives it a   *)
(* pin and a spend key, encrypts both and inserts them in `wallets`; the   *)
(* workers find the row again, decrypt it and keep it in a cache, and a    *)
(* command exports all of them.                                            *)
(*                                                                         *)
(* A wallet exists on the network before it exists in the table, by three  *)
(* calls that may fail or succeed unheard; the key that encrypts it is     *)
(* derived from the configuration of a process, which another process, or  *)
(* the same one after a restart, need not share.                           *)
(*                                                                         *)
(* The random keys of a try are named after the user that it created.      *)
(* Session, private key and pin token come with the user from the network  *)
(* and are stored as they are: the user stands for them.                   *)
(***************************************************************************)
EXTENDS FiniteSets, Naturals

CONSTANTS
  Dapp,         \* the dapp's own user
  SubUsers,     \* user ids that the network may give
  Labels,       \* labels of requests
  LongLabels,   \* those that do not fit the column
  Servers,      \* handlers of CreateWallet, in any number of processes
  Workers,      \* processes that load wallets
  Configs,      \* dapp sections of config.yaml that a process may start with
  CacheSize     \* 256

ASSUME WalletAssumption ==
  /\ Dapp \notin SubUsers
  /\ LongLabels \subseteq Labels
  /\ CacheSize \in Nat \ {0}

ASSUME ConfigsAreSections ==
  \A c \in Configs : DOMAIN c = {"session_id", "private_key", "session_private_key"}

VARIABLES
  users,    \* the users of the network with their keys
  wallets,  \* the table: a row for each of its users
  create,   \* what each server is doing
  told,     \* users that a client has been told of
  config,   \* the configuration of every process
  cache,    \* walletStore.cache of every worker
  found,    \* wallets that were read and not yet cached
  loaded    \* what the last call of the store returned to each worker

vars == <<users, wallets, create, told, config, cache, found, loaded>>

-----------------------------------------------------------------------------
(* Keys.                                                                   *)

NoKey == <<"none", Dapp>>
Pin(u) == <<"pin", u>>
SpendKey(u) == <<"spend", u>>

Secrets == {NoKey} \cup {Pin(u) : u \in SubUsers}
             \cup {SpendKey(u) : u \in SubUsers \cup {Dapp}}

\* The key is a hash of the session and of the first private key that is set.
EncryptKey(c) ==
  <<c.session_id,
    IF c.private_key # "" THEN c.private_key ELSE c.session_private_key>>

Cipher == [key : {EncryptKey(c) : c \in Configs}, text : Secrets]

Encrypt(key, text) == [key |-> key, text |-> text]

\* Mutant of Opens: the tag is not checked, any key opens a cipher.
OpensUnchecked(key, row) == TRUE

\* gcm.Open refuses what was sealed under another key.
Opens(key, row) == row.pin.key = key /\ row.spendKey.key = key

Decrypt(key, cipher) == IF cipher.key = key THEN cipher.text ELSE NoKey

Wallet == [user : SubUsers \cup {Dapp}, pin : Secrets, spendKey : Secrets]

\* decodeWallet
Decode(key, u, row) ==
  [user |-> u, pin |-> Decrypt(key, row.pin), spendKey |-> Decrypt(key, row.spendKey)]

Row == [label : Labels \ LongLabels, pin : Cipher, spendKey : Cipher]

-----------------------------------------------------------------------------
(* Creation.                                                               *)

Creation ==
  [pc : {"idle", "pin", "migrate", "insert"}, user : SubUsers \cup {Dapp}, label : Labels]

Idle(s) == create[s].pc = "idle"

Goto(s, pc) == create' = [create EXCEPT ![s].pc = pc]

\* CreateUser: the network makes a new user.
NewUser(u) ==
  /\ u \notin DOMAIN users
  /\ users' = [v \in DOMAIN users \cup {u} |->
       IF v = u THEN [pin |-> NoKey, spendKey |-> NoKey] ELSE users[v]]

CreateUser(s) ==
  /\ Idle(s)
  /\ \E u \in SubUsers, l \in Labels :
       NewUser(u) /\ create' = [create EXCEPT ![s] = [pc |-> "pin", user |-> u, label |-> l]]
  /\ UNCHANGED <<wallets, told, config, cache, found, loaded>>

\* ModifyPin, from no pin to the first one.
SetPin(u) == users[u].pin = NoKey /\ users' = [users EXCEPT ![u].pin = Pin(u)]

\* SafeMigrate, which the pin has to allow.
Migrate(u) == users[u].pin = Pin(u) /\ users' = [users EXCEPT ![u].spendKey = SpendKey(u)]

\* The call that the creation has come to, as it takes effect on the network.
NetworkCall(s) ==
  \/ create[s].pc = "pin" /\ SetPin(create[s].user)
  \/ create[s].pc = "migrate" /\ Migrate(create[s].user)

ModifyPin(s) ==
  /\ create[s].pc = "pin" /\ NetworkCall(s) /\ Goto(s, "migrate")
  /\ UNCHANGED <<wallets, told, config, cache, found, loaded>>

SafeMigrate(s) ==
  /\ create[s].pc = "migrate" /\ NetworkCall(s) /\ Goto(s, "insert")
  /\ UNCHANGED <<wallets, told, config, cache, found, loaded>>

RowOf(s) ==
  LET key == EncryptKey(config[s]) IN
  [label |-> create[s].label,
   pin |-> Encrypt(key, Pin(create[s].user)),
   spendKey |-> Encrypt(key, SpendKey(create[s].user))]

\* Mutant of Insert: a label that is too long is inserted as well.
InsertAnyLabel(s) ==
  /\ create[s].user \notin DOMAIN wallets
  /\ wallets' = [u \in DOMAIN wallets \cup {create[s].user} |->
       IF u = create[s].user THEN RowOf(s) ELSE wallets[u]]

\* INSERT, which a label that is too long makes fail.
Insert(s) ==
  /\ create[s].label \notin LongLabels
  /\ create[s].user \notin DOMAIN wallets
  /\ wallets' = [u \in DOMAIN wallets \cup {create[s].user} |->
       IF u = create[s].user THEN RowOf(s) ELSE wallets[u]]

\* wallets.Create, and the answer, which the client may miss.
InsertWallet(s) ==
  /\ create[s].pc = "insert"
  /\ Insert(s)
  /\ Goto(s, "idle")
  /\ told' \in {told, told \cup {create[s].user}}
  /\ UNCHANGED <<users, config, cache, found, loaded>>

\* Mutant of InsertFails: the error is logged only.
InsertFailsSilently(s) ==
  /\ create[s].pc = "insert"
  /\ Goto(s, "idle")
  /\ told' = told \cup {create[s].user}
  /\ UNCHANGED <<users, wallets, config, cache, found, loaded>>

\* The row is not inserted, or it is and the server hears an error.
InsertFails(s) ==
  /\ create[s].pc = "insert"
  /\ Insert(s) \/ UNCHANGED wallets
  /\ Goto(s, "idle")
  /\ UNCHANGED <<users, told, config, cache, found, loaded>>

\* Mutant of CallFails: the error of a call is ignored.
CallFailsSilently(s) ==
  /\ create[s].pc \in {"pin", "migrate"}
  /\ Goto(s, "insert")
  /\ UNCHANGED <<users, wallets, told, config, cache, found, loaded>>

\* A call of the network fails, or its answer is lost: its keys are forgotten.
CallFails(s) ==
  /\ \/ Idle(s) /\ \E u \in SubUsers : NewUser(u)
     \/ create[s].pc \in {"pin", "migrate"} /\ (NetworkCall(s) \/ UNCHANGED users)
  /\ Goto(s, "idle")
  /\ UNCHANGED <<wallets, told, config, cache, found, loaded>>

-----------------------------------------------------------------------------
(* Use.                                                                    *)

\* The dapp's own keys come from the configuration.
DappWallet == [user |-> Dapp, pin |-> NoKey, spendKey |-> SpendKey(Dapp)]

LoadDapp(w) ==
  /\ loaded' = [loaded EXCEPT ![w] = {DappWallet}]
  /\ UNCHANGED <<users, wallets, create, told, config, cache, found>>

\* Find: the cache has it ...
LoadCached(w) ==
  /\ \E x \in cache[w] : loaded' = [loaded EXCEPT ![w] = {x}]
  /\ UNCHANGED <<users, wallets, create, told, config, cache, found>>

\* ... or it is read and decrypted, if it is there and can be ...
FindWallet(w) ==
  /\ \E u \in DOMAIN wallets \ {x.user : x \in cache[w]} :
       /\ Opens(EncryptKey(config[w]), wallets[u])
       /\ found' = [found EXCEPT ![w] =
            @ \cup {Decode(EncryptKey(config[w]), u, wallets[u])}]
  /\ UNCHANGED <<users, wallets, create, told, config, cache, loaded>>

\* ... and cached in place of another one when the cache is full.
AddToCache(w) ==
  /\ \E x \in found[w] :
       LET others == {y \in cache[w] : y.user # x.user} IN
       /\ found' = [found EXCEPT ![w] = @ \ {x}]
       /\ loaded' = [loaded EXCEPT ![w] = {x}]
       /\ \/ Cardinality(others) < CacheSize /\ cache' = [cache EXCEPT ![w] = others \cup {x}]
          \/ /\ Cardinality(others) >= CacheSize
             /\ \E y \in others : cache' = [cache EXCEPT ![w] = (others \ {y}) \cup {x}]
  /\ UNCHANGED <<users, wallets, create, told, config>>

\* List: all rows or, if the scan ends early, some of them; one that cannot be
\* decrypted makes it fail.
List(w, U) ==
  LET key == EncryptKey(config[w]) IN
  /\ \A u \in U : Opens(key, wallets[u])
  /\ loaded' = [loaded EXCEPT ![w] = {Decode(key, u, wallets[u]) : u \in U}]

\* export-wallets prints what List returned.
ExportWallets(w) ==
  \E U \in SUBSET DOMAIN wallets :
    /\ List(w, U)
    /\ UNCHANGED <<users, wallets, create, told, config, cache, found>>

\* A process stops, or crashes, and starts with the configuration of the day.
RestartServer(s) ==
  /\ \E c \in Configs : config' = [config EXCEPT ![s] = c]
  /\ Goto(s, "idle")
  /\ UNCHANGED <<users, wallets, told, cache, found, loaded>>

RestartWorker(w) ==
  /\ \E c \in Configs : config' = [config EXCEPT ![w] = c]
  /\ cache' = [cache EXCEPT ![w] = {}]
  /\ found' = [found EXCEPT ![w] = {}]
  /\ loaded' = [loaded EXCEPT ![w] = {}]
  /\ UNCHANGED <<users, wallets, create, told>>

-----------------------------------------------------------------------------

Init ==
  /\ users = [u \in {} |-> [pin |-> NoKey, spendKey |-> NoKey]]
  /\ wallets = [u \in {} |-> NoKey]
  /\ \E l \in Labels :
       create = [s \in Servers |-> [pc |-> "idle", user |-> Dapp, label |-> l]]
  /\ told = {}
  /\ config \in [Servers \cup Workers -> Configs]
  /\ cache = [w \in Workers |-> {}]
  /\ found = [w \in Workers |-> {}]
  /\ loaded = [w \in Workers |-> {}]

Next ==
  \/ \E s \in Servers :
       \/ CreateUser(s) \/ ModifyPin(s) \/ SafeMigrate(s) \/ InsertWallet(s)
       \/ CallFails(s) \/ InsertFails(s) \/ RestartServer(s)
  \/ \E w \in Workers :
       \/ LoadDapp(w) \/ LoadCached(w) \/ FindWallet(w) \/ AddToCache(w)
       \/ ExportWallets(w) \/ RestartWorker(w)

Spec == Init /\ [][Next]_vars

-----------------------------------------------------------------------------
(* Properties.                                                             *)

TypeOK ==
  /\ DOMAIN users \subseteq SubUsers
  /\ \A u \in DOMAIN users : users[u] \in [pin : Secrets, spendKey : Secrets]
  /\ DOMAIN wallets \subseteq DOMAIN users
  /\ \A u \in DOMAIN wallets : wallets[u] \in Row
  /\ create \in [Servers -> Creation]
  /\ told \subseteq SubUsers
  /\ config \in [Servers \cup Workers -> Configs]
  /\ cache \in [Workers -> SUBSET Wallet]
  /\ found \in [Workers -> SUBSET Wallet]
  /\ loaded \in [Workers -> SUBSET Wallet]

\* Whatever failed, and after whichever call, a user that is in the table has on
\* the network the very keys that its row holds.
RowsHaveKeys ==
  \A u \in DOMAIN wallets :
    /\ users[u].pin = wallets[u].pin.text /\ users[u].pin # NoKey
    /\ users[u].spendKey = wallets[u].spendKey.text /\ users[u].spendKey # NoKey

\* A wallet that a client was told of, and may be paid to, stays in the table
\* under one configuration of the dapp, with which a worker gets the very keys
\* that the network knows.
ToldCanBeLoaded ==
  \A u \in told :
    /\ u \in DOMAIN wallets
    /\ \E c \in Configs :
         /\ Opens(EncryptKey(c), wallets[u])
         /\ Decode(EncryptKey(c), u, wallets[u]) =
              [user |-> u, pin |-> users[u].pin, spendKey |-> users[u].spendKey]

\* What the store returns, from the table, a cache that was filled long ago or
\* an export, are the keys that the network knows of that user: a key of
\* another configuration opens nothing rather than something else.
LoadedIsRight ==
  \A w \in Workers : \A x \in loaded[w] :
    \/ x = DappWallet
    \/ /\ x.user \in DOMAIN users
       /\ x.pin = users[x.user].pin /\ x.spendKey = users[x.user].spendKey
=============================================================================
