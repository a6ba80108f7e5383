CONSTANTS
  Nodes = {a, b}
  Contents = {c1, c2}
  NoContent = NoContent
  MaxUlid = 2
SPECIFICATION FairSpec
INVARIANTS
  NodeTypeOK
  NodeHistoryIntact
  UlidNamesContent
PROPERTIES
  ImplementsVersionLog
  FullExportsConverge
