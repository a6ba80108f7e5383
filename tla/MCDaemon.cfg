CONSTANTS
  Daemons = {d1, d2}
  Profiles = {1, 2}
  Tokens = {t1, t2}
  Clients = {c1}
  NoOne = NoOne
  Broken = Broken
SPECIFICATION FairSpec
INVARIANTS
  DaemonTypeOK
  OneStore
PROPERTIES
  TokensKept
  ReloadTakesEffect
  StopEnds
