SPECIFICATION Spec
CONSTANTS
  u = u  btc = btc  eth = eth  x = x  t1 = t1  t2 = t2
  h1 = h1  h2 = h2  s1 = s1  s2 = s2
  Users = {u}
  Assets = {btc}
  Opponents = {u, x}
  Limit = 2
  Servers = {s1, s2}
  Handlers = {h1, h2}
  ServerOf <- MCTwoServers
  Replicas = {r1}
  ClientIds = {t1, t2}
  Requests <- MCPayments
  NoRequest = NoRequest
  NoUser = NoUser
  DefaultUser = u
  ConfiguredBlocked = {}
  Cleaners = {}
  Capacity = 1
  AutoIds = {}
  Genesis <- MCCoins
  Arrivals = {}
  MaxOutputs = 3
SYMMETRY MCTwins
PROPERTY ClaimSpec
INVARIANTS
  TypeOK
  NoDoubleAssign
  NothingStranded
  RangePays
  OnceAsRequested
  AckDurable
CHECK_DEADLOCK FALSE
