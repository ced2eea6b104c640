SPECIFICATION FairSpec
CONSTANTS
  Processes = {p1, p2}
  Dapp = "dapp"
  MaxStarts = 2
INVARIANTS
  TypeOK
  ServesCurrent
  NeverRefused
PROPERTIES
  StartsServe
CHECK_DEADLOCK FALSE
