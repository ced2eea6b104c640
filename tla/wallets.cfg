SPECIFICATION Spec
CONSTANTS
  s1 = s1  s2 = s2  u1 = u1  u2 = u2  short = short  long = long
  Dapp = dapp
  SubUsers = {u1, u2}
  Labels = {short, long}
  LongLabels = {long}
  Servers = {s1, s2}
  Workers = {w1}
  Configs <- MCRotated
  CacheSize = 1
INVARIANTS
  TypeOK
  RowsHaveKeys
  ToldCanBeLoaded
  LoadedIsRight
SYMMETRY MCSymmetry
