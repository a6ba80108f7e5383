CONSTANTS
  Names = {n1, n2}
  Contents = {c1}
  NoContent = NoContent
  ProposalIds = {}
  PostStatuses = {"promoted"}
  Txns = {t1, t2}
  MaxClock = 3
  Syncers = {a1}
  PageSize = 1
  HandAuthored = HandAuthored
SPECIFICATION TurnsSpec
INVARIANTS
  UpToCursor
