SPECIFICATION Spec
CONSTANTS
  cli = cli  web = web
  Callers = {cli, web}
  Named = {web}
  Via <- MCVia
  Wants <- MCWants
  MaxCalls = 2
INVARIANTS
  TypeOK
  PaidOnce
  RefusedIsNothing
  OkIsDone
  MadeIsWhole
CHECK_DEADLOCK FALSE
