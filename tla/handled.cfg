SPECIFICATION FairSpec
CONSTANTS
  u = u  v = v  btc = btc  x = x  t1 = t1  t2 = t2  w1 = w1  w2 = w2  w3 = w3
  Users = {u, v}
  Assets = {btc}
  Opponents = {u, v, x}
  Limit = 2
  Precision = 8
  Modulus = 16
  Syncers = {w1}
  Cleaners = {w1}
  Cashiers = {w1}
  SpentBefore = {1}
  Arrivals = {}
  MaxOutputs = 4
  PageLimit = 1
  CleanLimit = 2
  Wallets = {u}
  Batch = 2
  InFlight = 1
  RangeLimit = 2
  Genesis <- MCMixedCoins
  Orders <- MCMixedOrders
PROPERTIES
  EveryTransferHandled
  EveryUtxoSaved
CHECK_DEADLOCK FALSE
