SPECIFICATION WalletSpec
CONSTANTS
  u1 = u1  u2 = u2  btc = btc  other = other  t1 = t1  a1 = a1
  w1 = w1  h1 = h1  s1 = s1
  Users = {u1, u2}
  Assets = {btc}
  Opponents = {u1, u2, other}
  Limit = 2
  Servers = {s1}
  Handlers = {h1}
  ServerOf <- MCOneServer
  Replicas = {}
  ClientIds = {t1}
  Requests <- MCPayments
  NoRequest = NoRequest
  NoUser = NoUser
  DefaultUser = u1
  ConfiguredBlocked = {}
  Precision = 8
  Modulus = 16
  Syncers = {w1}
  Cleaners = {w1}
  Cashiers = {w1}
  Capacity = 1
  AutoIds = {a1}
  SpentBefore = {1}
  Arrivals = {}
  MaxOutputs = 5
  PageLimit = 2
  CleanLimit = 2
  Wallets = {u1}
  Batch = 2
  InFlight = 2
  RangeLimit = 3
  Genesis <- MCOldCoins
PROPERTY PaymentSpec
INVARIANTS
  PaidAsRequested
  FreeIsUnspent
  AssignedIsCovered
CHECK_DEADLOCK FALSE
