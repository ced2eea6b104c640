---------------------------- MODULE WalletProofs ----------------------------
(***************************************************************************)
(* Wallets are created, stored and loaded with the keys that the network   *)
(* knows, for any number of servers, workers, users and configurations.    *)
(***************************************************************************)
EXTENDS Wallets, TLAPS

\* What the network has of a user whose creation went through.
Complete(u) ==
  u \in DOMAIN users /\ users[u].pin = Pin(u) /\ users[u].spendKey = SpendKey(u)

\* Keys are set once, and only to those of the try that created the user.
UsersOk ==
  \A u \in DOMAIN users :
    /\ users[u].pin \in {NoKey, Pin(u)}
    /\ users[u].spendKey \in {NoKey, SpendKey(u)}

\* A server knows which calls of its creation took effect.
CreateOk ==
  \A s \in Servers :
    /\ create[s].pc # "idle" =>
         create[s].user \in SubUsers /\ create[s].user \in DOMAIN users
    /\ create[s].pc \in {"migrate", "insert"} =>
         users[create[s].user].pin = Pin(create[s].user)
    /\ create[s].pc = "insert" =>
         users[create[s].user].spendKey = SpendKey(create[s].user)

\* A row was sealed under one configuration, and holds the user's own keys.
RowOk(u) ==
  /\ Complete(u)
  /\ wallets[u].pin.text = Pin(u) /\ wallets[u].spendKey.text = SpendKey(u)
  /\ \E c \in Configs : Opens(EncryptKey(c), wallets[u])

RowsOk == \A u \in DOMAIN wallets : RowOk(u)

\* A wallet that left the store.
Right(x) ==
  /\ x.user \in SubUsers /\ Complete(x.user)
  /\ x.pin = Pin(x.user) /\ x.spendKey = SpendKey(x.user)

ReadOk ==
  \A w \in Workers :
    /\ \A x \in cache[w] : Right(x)
    /\ \A x \in found[w] : Right(x)
    /\ \A x \in loaded[w] : x = DappWallet \/ Right(x)

IInv ==
  /\ TypeOK
  /\ UsersOk
  /\ CreateOk
  /\ RowsOk
  /\ told \subseteq DOMAIN wallets
  /\ ReadOk

-----------------------------------------------------------------------------

\* The keys of users are secrets, and are keys.
LEMMA KeysAreSecrets ==
  /\ NoKey \in Secrets
  /\ \A u \in SubUsers : /\ Pin(u) \in Secrets /\ Pin(u) # NoKey
                         /\ SpendKey(u) \in Secrets /\ SpendKey(u) # NoKey
  /\ SpendKey(Dapp) \in Secrets
  BY DEF NoKey, Pin, SpendKey, Secrets

\* What a server would insert is a row with its keys.
LEMMA RowOfType ==
  ASSUME NEW s \in Servers, TypeOK, create[s].user \in SubUsers,
         create[s].label \notin LongLabels
  PROVE  /\ RowOf(s) \in Row
         /\ RowOf(s).pin.text = Pin(create[s].user)
         /\ RowOf(s).spendKey.text = SpendKey(create[s].user)
         /\ \E c \in Configs : Opens(EncryptKey(c), RowOf(s))
<1>1. config[s] \in Configs
  BY DEF TypeOK
<1>2. create[s].label \in Labels \ LongLabels
  BY DEF TypeOK, Creation
<1>3. RowOf(s) \in Row
  BY <1>1, <1>2, KeysAreSecrets DEF RowOf, Row, Cipher, Encrypt
<1> QED
  BY <1>1, <1>3 DEF RowOf, Encrypt, Opens

\* A row that opens is read as a wallet with the keys of its user.
LEMMA DecodeIsRight ==
  ASSUME NEW u, NEW key, u \in DOMAIN wallets, TypeOK, RowsOk, Opens(key, wallets[u])
  PROVE  /\ Decode(key, u, wallets[u]) \in Wallet
         /\ Right(Decode(key, u, wallets[u]))
         /\ Decode(key, u, wallets[u]) =
              [user |-> u, pin |-> Pin(u), spendKey |-> SpendKey(u)]
<1>1. u \in SubUsers /\ RowOk(u)
  BY DEF TypeOK, RowsOk
<1>2. Decode(key, u, wallets[u]) =
        [user |-> u, pin |-> Pin(u), spendKey |-> SpendKey(u)]
  BY <1>1 DEF RowOk, Opens, Decode, Decrypt
<1> QED
  BY <1>1, <1>2, KeysAreSecrets DEF RowOk, Wallet, Right

\* Nothing has happened.
LEMMA InitIInv == Init => IInv
<1> SUFFICES ASSUME Init PROVE IInv
  OBVIOUS
<1>1. TypeOK
  BY DEF Init, TypeOK, Creation
<1>2. DOMAIN users = {} /\ DOMAIN wallets = {} /\ told = {}
  BY DEF Init
<1>3. UsersOk /\ RowsOk /\ told \subseteq DOMAIN wallets
  BY <1>2 DEF UsersOk, RowsOk
<1>4. CreateOk
  BY DEF Init, CreateOk
<1>5. ReadOk
  BY DEF Init, ReadOk
<1> QED
  BY <1>1, <1>3, <1>4, <1>5 DEF IInv

-----------------------------------------------------------------------------
(* Calls of the network.                                                   *)

\* Users stay, and keys that are set stay.
Grown ==
  \A u \in DOMAIN users :
    /\ u \in DOMAIN users'
    /\ users[u].pin # NoKey => users'[u].pin = users[u].pin
    /\ users[u].spendKey # NoKey => users'[u].spendKey = users[u].spendKey

UsersType ==
  /\ DOMAIN users \subseteq SubUsers
  /\ \A u \in DOMAIN users : users[u] \in [pin : Secrets, spendKey : Secrets]

\* A new user has no keys.
LEMMA NewUserGrows ==
  ASSUME NEW u \in SubUsers, UsersType, UsersOk, NewUser(u)
  PROVE  Grown /\ UsersType' /\ UsersOk' /\ u \in DOMAIN users'
<1>1. /\ DOMAIN users' = DOMAIN users \cup {u}
      /\ users'[u] = [pin |-> NoKey, spendKey |-> NoKey]
      /\ \A v \in DOMAIN users : users'[v] = users[v]
  BY DEF NewUser
<1>2. Grown /\ UsersOk'
  BY <1>1 DEF Grown, UsersOk
<1>3. UsersType'
  BY <1>1, KeysAreSecrets DEF UsersType
<1> QED
  BY <1>1, <1>2, <1>3

\* The first pin of a user is the one of its creation.
LEMMA SetPinGrows ==
  ASSUME NEW u \in DOMAIN users, UsersType, UsersOk, SetPin(u)
  PROVE  Grown /\ UsersType' /\ UsersOk' /\ users'[u].pin = Pin(u)
<1>1. users[u] \in [pin : Secrets, spendKey : Secrets] /\ u \in SubUsers
  BY DEF UsersType
<1>2. /\ users[u].pin = NoKey
      /\ DOMAIN users' = DOMAIN users
      /\ users'[u] = [users[u] EXCEPT !.pin = Pin(u)]
      /\ \A v \in DOMAIN users : v # u => users'[v] = users[v]
  BY DEF SetPin
<1>3. users'[u].pin = Pin(u) /\ users'[u].spendKey = users[u].spendKey
  BY <1>1, <1>2
<1>4. Grown
  BY <1>2, <1>3 DEF Grown
<1>5. UsersOk'
  BY <1>2, <1>3 DEF UsersOk
<1>6. UsersType'
  <2>1. users'[u] \in [pin : Secrets, spendKey : Secrets]
    BY <1>1, <1>2, KeysAreSecrets
  <2> QED
    BY <1>2, <2>1 DEF UsersType
<1> QED
  BY <1>3, <1>4, <1>5, <1>6

\* A user is migrated to the spend key of its creation, again or for the first
\* time.
LEMMA MigrateGrows ==
  ASSUME NEW u \in DOMAIN users, UsersType, UsersOk, Migrate(u)
  PROVE  /\ Grown /\ UsersType' /\ UsersOk'
         /\ users'[u].pin = Pin(u) /\ users'[u].spendKey = SpendKey(u)
<1>1. users[u] \in [pin : Secrets, spendKey : Secrets] /\ u \in SubUsers
  BY DEF UsersType
<1>2. /\ users[u].pin = Pin(u)
      /\ DOMAIN users' = DOMAIN users
      /\ users'[u] = [users[u] EXCEPT !.spendKey = SpendKey(u)]
      /\ \A v \in DOMAIN users : v # u => users'[v] = users[v]
  BY DEF Migrate
<1>3. users'[u].pin = Pin(u) /\ users'[u].spendKey = SpendKey(u)
  BY <1>1, <1>2
<1>4. Grown
  BY <1>2, <1>3 DEF Grown, UsersOk
<1>5. UsersOk'
  BY <1>2, <1>3 DEF UsersOk
<1>6. UsersType'
  <2>1. users'[u] \in [pin : Secrets, spendKey : Secrets]
    BY <1>1, <1>2, KeysAreSecrets
  <2> QED
    BY <1>2, <2>1 DEF UsersType
<1> QED
  BY <1>3, <1>4, <1>5, <1>6

\* A user that is complete stays so.
LEMMA GrownComplete ==
  ASSUME NEW u, u \in SubUsers, Complete(u), Grown
  PROVE  Complete(u)'
  BY KeysAreSecrets DEF Complete, Grown

\* A call takes effect as the server believes.
LEMMA NetworkCallGrows ==
  ASSUME NEW s \in Servers, IInv, NetworkCall(s)
  PROVE  /\ Grown /\ UsersType' /\ UsersOk'
         /\ users'[create[s].user].pin = Pin(create[s].user)
         /\ create[s].pc = "migrate" =>
              users'[create[s].user].spendKey = SpendKey(create[s].user)
<1>1. create[s].user \in DOMAIN users /\ UsersType /\ UsersOk
  BY DEF IInv, NetworkCall, CreateOk, TypeOK, UsersType
<1> SUFFICES ASSUME NEW u \in DOMAIN users, u = create[s].user
             PROVE  /\ Grown /\ UsersType' /\ UsersOk'
                    /\ users'[u].pin = Pin(u)
                    /\ create[s].pc = "migrate" => users'[u].spendKey = SpendKey(u)
  BY <1>1
<1>2. CASE create[s].pc = "pin" /\ SetPin(u)
  BY <1>1, <1>2, SetPinGrows
<1>3. CASE create[s].pc = "migrate" /\ Migrate(u)
  BY <1>1, <1>3, MigrateGrows
<1> QED
  BY <1>2, <1>3 DEF NetworkCall

\* What was stored or read stays right when the network's users grow.
LEMMA GrownKeeps ==
  ASSUME IInv, Grown, UsersType',
         UNCHANGED <<wallets, told, config, cache, found, loaded>>,
         create' \in [Servers -> Creation]
  PROVE  TypeOK' /\ RowsOk' /\ told' \subseteq DOMAIN wallets' /\ ReadOk'
<1>1. TypeOK'
  BY DEF IInv, TypeOK, UsersType, Grown
<1>2. RowsOk'
  <2> SUFFICES ASSUME NEW u \in DOMAIN wallets PROVE RowOk(u)'
    BY DEF RowsOk
  <2>1. u \in SubUsers /\ RowOk(u)
    BY DEF IInv, TypeOK, RowsOk
  <2>2. Complete(u)'
    BY <2>1, GrownComplete DEF RowOk
  <2> QED
    BY <2>1, <2>2 DEF RowOk, Opens
<1>3. \A x : Right(x) => Right(x)'
  BY GrownComplete DEF Right
<1>4. ReadOk'
  BY <1>3 DEF IInv, ReadOk, DappWallet
<1> QED
  BY <1>1, <1>2, <1>4 DEF IInv

\* Servers whose state does not change know as much as before.
LEMMA GrownCreates ==
  ASSUME IInv, Grown, NEW t \in Servers, create'[t] = create[t]
  PROVE  /\ create'[t].pc # "idle" =>
              create'[t].user \in SubUsers /\ create'[t].user \in DOMAIN users'
         /\ create'[t].pc \in {"migrate", "insert"} =>
              users'[create'[t].user].pin = Pin(create'[t].user)
         /\ create'[t].pc = "insert" =>
              users'[create'[t].user].spendKey = SpendKey(create'[t].user)
  BY KeysAreSecrets DEF IInv, CreateOk, Grown

-----------------------------------------------------------------------------
(* Creation.                                                               *)

\* A server goes on, and nobody else does.
LEMMA GotoType ==
  ASSUME NEW s \in Servers, NEW pc \in {"idle", "pin", "migrate", "insert"},
         create \in [Servers -> Creation], Goto(s, pc)
  PROVE  /\ create' \in [Servers -> Creation]
         /\ create'[s] = [create[s] EXCEPT !.pc = pc]
         /\ create'[s].pc = pc /\ create'[s].user = create[s].user
         /\ \A t \in Servers : t # s => create'[t] = create[t]
<1>1. create[s] \in Creation
  OBVIOUS
<1>2. create' = [create EXCEPT ![s] = [create[s] EXCEPT !.pc = pc]]
  BY DEF Goto
<1>3. [create[s] EXCEPT !.pc = pc] \in Creation
  BY <1>1 DEF Creation
<1> QED
  BY <1>1, <1>2, <1>3 DEF Creation

\* A user is created.
LEMMA CreateUserIInv ==
  ASSUME IInv, NEW s \in Servers, CreateUser(s)
  PROVE  IInv'
<1>1. PICK u \in SubUsers, l \in Labels :
        /\ NewUser(u)
        /\ create' = [create EXCEPT ![s] = [pc |-> "pin", user |-> u, label |-> l]]
  BY DEF CreateUser
<1>2. Grown /\ UsersType' /\ UsersOk' /\ u \in DOMAIN users'
  BY <1>1, NewUserGrows DEF IInv, TypeOK, UsersType
<1>3. /\ create' \in [Servers -> Creation]
      /\ create'[s] = [pc |-> "pin", user |-> u, label |-> l]
      /\ \A t \in Servers : t # s => create'[t] = create[t]
  BY <1>1 DEF IInv, TypeOK, Creation
<1>4. TypeOK' /\ RowsOk' /\ told' \subseteq DOMAIN wallets' /\ ReadOk'
  BY <1>2, <1>3, GrownKeeps DEF CreateUser
<1>5. CreateOk'
  BY <1>2, <1>3, GrownCreates DEF CreateOk
<1> QED
  BY <1>2, <1>4, <1>5 DEF IInv

\* The next call of a creation succeeds.
LEMMA CallSucceedsIInv ==
  ASSUME IInv, NEW s \in Servers, ModifyPin(s) \/ SafeMigrate(s)
  PROVE  IInv'
<1> DEFINE next == IF create[s].pc = "pin" THEN "migrate" ELSE "insert"
<1>1. /\ NetworkCall(s) /\ Goto(s, next) /\ create[s].pc \in {"pin", "migrate"}
      /\ UNCHANGED <<wallets, told, config, cache, found, loaded>>
  BY DEF ModifyPin, SafeMigrate
<1>2. /\ Grown /\ UsersType' /\ UsersOk'
      /\ users'[create[s].user].pin = Pin(create[s].user)
      /\ create[s].pc = "migrate" =>
           users'[create[s].user].spendKey = SpendKey(create[s].user)
  BY <1>1, NetworkCallGrows
<1>3. /\ create' \in [Servers -> Creation]
      /\ create'[s].pc = next /\ create'[s].user = create[s].user
      /\ \A t \in Servers : t # s => create'[t] = create[t]
  BY <1>1, GotoType DEF IInv, TypeOK
<1>4. TypeOK' /\ RowsOk' /\ told' \subseteq DOMAIN wallets' /\ ReadOk'
  BY <1>1, <1>2, <1>3, GrownKeeps
<1>5. create[s].user \in SubUsers /\ create[s].user \in DOMAIN users'
  BY <1>1, <1>2 DEF IInv, CreateOk, Grown
<1>6. CreateOk'
  BY <1>1, <1>2, <1>3, <1>5, GrownCreates DEF CreateOk
<1> QED
  BY <1>2, <1>4, <1>6 DEF IInv

\* A call fails, after it took effect or not.
LEMMA CallFailsIInv ==
  ASSUME IInv, NEW s \in Servers, CallFails(s)
  PROVE  IInv'
<1>1. UsersType /\ UsersOk
  BY DEF IInv, TypeOK, UsersType
<1>2. Grown /\ UsersType' /\ UsersOk'
  <2>1. CASE UNCHANGED users
    BY <1>1, <2>1 DEF Grown, UsersType, UsersOk
  <2>2. CASE NetworkCall(s)
    BY <2>2, NetworkCallGrows
  <2>3. CASE \E u \in SubUsers : NewUser(u)
    BY <1>1, <2>3, NewUserGrows
  <2> QED
    BY <2>1, <2>2, <2>3 DEF CallFails
<1>3. /\ create' \in [Servers -> Creation]
      /\ create'[s].pc = "idle"
      /\ \A t \in Servers : t # s => create'[t] = create[t]
  BY GotoType DEF IInv, TypeOK, CallFails
<1>4. TypeOK' /\ RowsOk' /\ told' \subseteq DOMAIN wallets' /\ ReadOk'
  BY <1>2, <1>3, GrownKeeps DEF CallFails
<1>5. CreateOk'
  BY <1>2, <1>3, GrownCreates DEF CreateOk
<1> QED
  BY <1>2, <1>4, <1>5 DEF IInv

\* A row is inserted or not, and told only when it is.
LEMMA InsertIInv ==
  ASSUME IInv, NEW s \in Servers, InsertWallet(s) \/ InsertFails(s)
  PROVE  IInv'
<1> SUFFICES ASSUME NEW u, u = create[s].user PROVE IInv'
  OBVIOUS
<1>1. /\ create[s].pc = "insert" /\ Goto(s, "idle")
      /\ Insert(s) \/ (UNCHANGED wallets /\ told' = told)
      /\ told' \in {told, told \cup {u}}
      /\ UNCHANGED <<users, config, cache, found, loaded>>
  BY DEF InsertWallet, InsertFails
<1>2. u \in SubUsers /\ Complete(u)
  BY <1>1 DEF IInv, CreateOk, Complete
<1>3. /\ create' \in [Servers -> Creation]
      /\ create'[s].pc = "idle"
      /\ \A t \in Servers : t # s => create'[t] = create[t]
  BY <1>1, GotoType DEF IInv, TypeOK
<1>4. CreateOk'
  BY <1>1, <1>3 DEF IInv, CreateOk
<1>5. UsersOk' /\ ReadOk'
  BY <1>1 DEF IInv, UsersOk, ReadOk, Right, Complete, DappWallet
<1>6. CASE UNCHANGED wallets /\ told' = told
  <2>1. TypeOK'
    BY <1>1, <1>3, <1>6 DEF IInv, TypeOK
  <2>2. RowsOk' /\ told' \subseteq DOMAIN wallets'
    BY <1>1, <1>6 DEF IInv, RowsOk, RowOk, Complete, Opens
  <2> QED
    BY <1>4, <1>5, <2>1, <2>2 DEF IInv
<1>7. CASE Insert(s)
  <2>1. /\ DOMAIN wallets' = DOMAIN wallets \cup {u}
        /\ wallets'[u] = RowOf(s)
        /\ \A v \in DOMAIN wallets : v # u => wallets'[v] = wallets[v]
        /\ create[s].label \notin LongLabels
        /\ u \notin DOMAIN wallets
    BY <1>7 DEF Insert
  <2>2. /\ RowOf(s) \in Row
        /\ RowOf(s).pin.text = Pin(u)
        /\ RowOf(s).spendKey.text = SpendKey(u)
        /\ \E c \in Configs : Opens(EncryptKey(c), RowOf(s))
    BY <1>2, <2>1, RowOfType DEF IInv
  <2>3. \A v \in DOMAIN wallets' : wallets'[v] \in Row
    BY <2>1, <2>2 DEF IInv, TypeOK
  <2>4. TypeOK'
    BY <1>1, <1>2, <1>3, <2>1, <2>3 DEF IInv, TypeOK, Complete
  <2>5. RowOk(u)'
    BY <1>1, <1>2, <2>1, <2>2 DEF RowOk, Complete, Opens
  <2>6. \A v \in DOMAIN wallets : v # u => RowOk(v)'
    BY <1>1, <2>1 DEF IInv, RowsOk, RowOk, Complete, Opens
  <2>7. RowsOk'
    BY <2>1, <2>5, <2>6 DEF RowsOk
  <2>8. told' \subseteq DOMAIN wallets'
    BY <1>1, <2>1 DEF IInv
  <2> QED
    BY <1>4, <1>5, <2>4, <2>7, <2>8 DEF IInv
<1> QED
  BY <1>1, <1>6, <1>7

\* A server restarts.
LEMMA RestartServerIInv ==
  ASSUME IInv, NEW s \in Servers, RestartServer(s)
  PROVE  IInv'
<1>1. /\ create' \in [Servers -> Creation]
      /\ create'[s].pc = "idle"
      /\ \A t \in Servers : t # s => create'[t] = create[t]
  BY GotoType DEF IInv, TypeOK, RestartServer
<1>2. config' \in [Servers \cup Workers -> Configs]
  BY DEF IInv, TypeOK, RestartServer
<1>3. UNCHANGED <<users, wallets, told, cache, found, loaded>>
  BY DEF RestartServer
<1>4. TypeOK'
  BY <1>1, <1>2, <1>3 DEF IInv, TypeOK
<1>5. CreateOk'
  BY <1>1, <1>3 DEF IInv, CreateOk
<1> QED
  BY <1>3, <1>4, <1>5
  DEF IInv, UsersOk, RowsOk, RowOk, Complete, Opens, ReadOk, Right, DappWallet

-----------------------------------------------------------------------------
(* Use.                                                                    *)

\* What a worker does changes what was read only: it stays right if what is new
\* in cache, found and loaded is.
LEMMA ReadIInv ==
  ASSUME IInv, NEW w \in Workers,
         UNCHANGED <<users, wallets, create, told>>,
         config' \in [Servers \cup Workers -> Configs],
         cache' \in [Workers -> SUBSET Wallet],
         found' \in [Workers -> SUBSET Wallet],
         loaded' \in [Workers -> SUBSET Wallet],
         \A v \in Workers : v # w =>
           cache'[v] = cache[v] /\ found'[v] = found[v] /\ loaded'[v] = loaded[v],
         \A x \in cache'[w] \cup found'[w] : Right(x),
         \A x \in loaded'[w] : x = DappWallet \/ Right(x)
  PROVE  IInv'
<1>1. TypeOK'
  BY DEF IInv, TypeOK
<1>2. \A x : Right(x) <=> Right(x)'
  BY DEF Right, Complete
<1>3. ReadOk'
  BY <1>2 DEF IInv, TypeOK, ReadOk, DappWallet
<1> QED
  BY <1>1, <1>3 DEF IInv, UsersOk, CreateOk, RowsOk, RowOk, Complete, Opens

\* What a worker has is right.
LEMMA WorkerType ==
  ASSUME IInv, NEW w \in Workers
  PROVE  /\ cache[w] \subseteq Wallet /\ \A x \in cache[w] : Right(x)
         /\ found[w] \subseteq Wallet /\ \A x \in found[w] : Right(x)
         /\ loaded[w] \subseteq Wallet
         /\ \A x \in loaded[w] : x = DappWallet \/ Right(x)
         /\ cache \in [Workers -> SUBSET Wallet]
         /\ found \in [Workers -> SUBSET Wallet]
         /\ loaded \in [Workers -> SUBSET Wallet]
         /\ config \in [Servers \cup Workers -> Configs]
         /\ TypeOK /\ RowsOk
  BY DEF IInv, TypeOK, ReadOk

\* Every step of a worker.
LEMMA WorkerIInv ==
  ASSUME IInv, NEW w \in Workers,
         \/ LoadDapp(w) \/ LoadCached(w) \/ FindWallet(w) \/ AddToCache(w)
         \/ ExportWallets(w) \/ RestartWorker(w)
  PROVE  IInv'
<1> USE WorkerType
<1>1. CASE LoadDapp(w)
  <2>1. DappWallet \in Wallet
    BY KeysAreSecrets DEF DappWallet, Wallet
  <2> QED
    BY <1>1, <2>1, ReadIInv DEF LoadDapp
<1>2. CASE LoadCached(w)
  <2>1. PICK x \in cache[w] : loaded' = [loaded EXCEPT ![w] = {x}]
    BY <1>2 DEF LoadCached
  <2>2. {x} \subseteq Wallet /\ \A y \in {x} : y = DappWallet \/ Right(y)
    BY <2>1
  <2> QED
    BY <1>2, <2>1, <2>2, ReadIInv DEF LoadCached
<1>3. CASE FindWallet(w)
  <2>1. PICK u \in DOMAIN wallets :
          /\ Opens(EncryptKey(config[w]), wallets[u])
          /\ found' = [found EXCEPT ![w] =
               @ \cup {Decode(EncryptKey(config[w]), u, wallets[u])}]
    BY <1>3 DEF FindWallet
  <2> DEFINE x == Decode(EncryptKey(config[w]), u, wallets[u])
  <2>2. x \in Wallet /\ Right(x)
    BY <2>1, DecodeIsRight
  <2> HIDE DEF x
  <2>3. found' = [found EXCEPT ![w] = found[w] \cup {x}]
    BY <2>1 DEF x
  <2>4. /\ found[w] \cup {x} \subseteq Wallet
        /\ \A y \in found[w] \cup {x} : Right(y)
    BY <2>2
  <2> QED
    BY <1>3, <2>3, <2>4, ReadIInv DEF FindWallet
<1>4. CASE AddToCache(w)
  <2>1. PICK x \in found[w] :
          LET others == {y \in cache[w] : y.user # x.user} IN
          /\ found' = [found EXCEPT ![w] = @ \ {x}]
          /\ loaded' = [loaded EXCEPT ![w] = {x}]
          /\ \/ cache' = [cache EXCEPT ![w] = others \cup {x}]
             \/ \E y \in others :
                  cache' = [cache EXCEPT ![w] = (others \ {y}) \cup {x}]
    BY <1>4 DEF AddToCache
  <2>2. /\ cache' \in [Workers -> SUBSET Wallet]
        /\ \A v \in Workers : v # w => cache'[v] = cache[v]
        /\ \A y \in cache'[w] : y = x \/ y \in cache[w]
    BY <2>1
  <2>3. /\ found' \in [Workers -> SUBSET Wallet]
        /\ \A v \in Workers : v # w => found'[v] = found[v]
        /\ found'[w] \subseteq found[w]
    BY <2>1
  <2>4. /\ loaded' \in [Workers -> SUBSET Wallet]
        /\ \A v \in Workers : v # w => loaded'[v] = loaded[v]
        /\ loaded'[w] = {x}
    BY <2>1
  <2>5. UNCHANGED <<users, wallets, create, told, config>>
    BY <1>4 DEF AddToCache
  <2>6. /\ \A y \in cache'[w] \cup found'[w] : Right(y)
        /\ \A y \in loaded'[w] : y = DappWallet \/ Right(y)
    BY <2>1, <2>2, <2>3, <2>4
  <2>7. config' \in [Servers \cup Workers -> Configs]
    BY <2>5
  <2> QED
    BY <2>2, <2>3, <2>4, <2>5, <2>6, <2>7, ReadIInv
<1>5. CASE ExportWallets(w)
  <2>1. PICK U \in SUBSET DOMAIN wallets : List(w, U)
    BY <1>5 DEF ExportWallets
  <2> DEFINE L == {Decode(EncryptKey(config[w]), u, wallets[u]) : u \in U}
  <2>2. \A u \in U : Opens(EncryptKey(config[w]), wallets[u])
    BY <2>1 DEF List
  <2>3. loaded' = [loaded EXCEPT ![w] = L]
    BY <2>1 DEF List
  <2>4. L \subseteq Wallet /\ \A x \in L : Right(x)
    BY <2>2, DecodeIsRight
  <2> HIDE DEF L
  <2> QED
    BY <1>5, <2>3, <2>4, ReadIInv DEF ExportWallets
<1>6. CASE RestartWorker(w)
  <2>1. config' \in [Servers \cup Workers -> Configs]
    BY <1>6 DEF RestartWorker
  <2> QED
    BY <1>6, <2>1, ReadIInv DEF RestartWorker
<1> QED
  BY <1>1, <1>2, <1>3, <1>4, <1>5, <1>6

-----------------------------------------------------------------------------

\* The invariant is inductive.
THEOREM Invariance == Spec => []IInv
<1>1. Init => IInv
  BY InitIInv
<1>2. IInv /\ [Next]_vars => IInv'
  <2> SUFFICES ASSUME IInv, [Next]_vars PROVE IInv'
    OBVIOUS
  <2>1. CASE UNCHANGED vars
    BY <2>1
    DEF vars, IInv, TypeOK, UsersOk, CreateOk, RowsOk, RowOk, Complete, Opens, ReadOk,
        Right, DappWallet
  <2>2. ASSUME NEW s \in Servers,
               \/ CreateUser(s) \/ ModifyPin(s) \/ SafeMigrate(s) \/ InsertWallet(s)
               \/ CallFails(s) \/ InsertFails(s) \/ RestartServer(s)
        PROVE  IInv'
    BY <2>2, CreateUserIInv, CallSucceedsIInv, InsertIInv, CallFailsIInv,
       RestartServerIInv
  <2>3. ASSUME NEW w \in Workers,
               \/ LoadDapp(w) \/ LoadCached(w) \/ FindWallet(w) \/ AddToCache(w)
               \/ ExportWallets(w) \/ RestartWorker(w)
        PROVE  IInv'
    BY <2>3, WorkerIInv
  <2> QED
    BY <2>1, <2>2, <2>3 DEF Next
<1> QED
  BY <1>1, <1>2, PTL DEF Spec

\* Every variable keeps its type.
THEOREM TypeCorrect == Spec => []TypeOK
<1>1. IInv => TypeOK
  BY DEF IInv
<1> QED
  BY <1>1, Invariance, PTL

\* A row holds the keys that the network knows of its user.
THEOREM StoredKeysAreKnown == Spec => []RowsHaveKeys
<1>1. IInv => RowsHaveKeys
  BY KeysAreSecrets DEF IInv, TypeOK, RowsOk, RowOk, Complete, RowsHaveKeys
<1> QED
  BY <1>1, Invariance, PTL

\* A wallet that a client was told of can be loaded with its keys.
THEOREM ToldAreUsable == Spec => []ToldCanBeLoaded
<1>1. IInv => ToldCanBeLoaded
  <2> SUFFICES ASSUME IInv, NEW u \in told
               PROVE  /\ u \in DOMAIN wallets
                      /\ \E c \in Configs :
                           /\ Opens(EncryptKey(c), wallets[u])
                           /\ Decode(EncryptKey(c), u, wallets[u]) =
                                [user |-> u, pin |-> users[u].pin,
                                 spendKey |-> users[u].spendKey]
    BY DEF ToldCanBeLoaded
  <2>1. u \in DOMAIN wallets /\ RowOk(u) /\ TypeOK /\ RowsOk
    BY DEF IInv, RowsOk
  <2>2. PICK c \in Configs : Opens(EncryptKey(c), wallets[u])
    BY <2>1 DEF RowOk
  <2>3. Decode(EncryptKey(c), u, wallets[u]) =
          [user |-> u, pin |-> Pin(u), spendKey |-> SpendKey(u)]
    BY <2>1, <2>2, DecodeIsRight
  <2> QED
    BY <2>1, <2>2, <2>3 DEF RowOk, Complete
<1> QED
  BY <1>1, Invariance, PTL

\* What the store returns are the keys of that user.
THEOREM LoadedKeysAreRight == Spec => []LoadedIsRight
<1>1. IInv => LoadedIsRight
  BY DEF IInv, ReadOk, Right, Complete, LoadedIsRight
<1> QED
  BY <1>1, Invariance, PTL
=============================================================================
