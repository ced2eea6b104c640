SPECIFICATION Spec
CONSTANTS
  u = u  v = v  btc = btc  x = x  t1 = t1  t2 = t2  w1 = w1  w2 = w2  w3 = w3
  Users = {u}
  Assets = {btc}
  Opponents = {u, x}
  Limit = 2
  Precision = 8
  Modulus = 16
  Syncers = {w1, w2}
  Cleaners = {w3}
  Cashiers = {w1, w2}
  SpentBefore = {}
  Arrivals <- MCDeposits
  MaxOutputs = 3
  PageLimit = 2
  CleanLimit = 2
  Wallets = {u}
  Batch = 2
  InFlight = 1
  RangeLimit = 3
  Genesis <- MCCoins
  Orders <- MCOnePayment
INVARIANTS
  TypeOK
  PaidAsAssigned
  HandledIsPaid
  NothingMissed
PROPERTIES
  ClaimSpec
SYMMETRY MCWorkerSymmetry
CHECK_DEADLOCK FALSE
