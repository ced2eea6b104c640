SPECIFICATION Spec
CONSTANTS
  u = u  btc = btc  eth = eth  x = x  t1 = t1  t2 = t2
  h1 = h1  h2 = h2  s1 = s1  s2 = s2
  Users = {u}
  Assets = {btc}
  Opponents = {u, x}
  Limit = 2
  Servers = {s1}
  Handlers = {h1, h2}
  ServerOf <- MCOneServer
  Replicas = {}
  ClientIds = {t1, t2}
  Requests <- MCPayments
  NoRequest = NoRequest
  NoUser = NoUser
  DefaultUser = u
  ConfiguredBlocked = {btc}
  Cleaners = {}
  Capacity = 1
  AutoIds = {}
  Genesis <- MCCoins
  Arrivals = {}
  MaxOutputs = 3
INVARIANT BlockedAssetsStay
CHECK_DEADLOCK FALSE
