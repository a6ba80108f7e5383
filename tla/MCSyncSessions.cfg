CONSTANTS
  Names = {n1}
  Contents = {c1, c2}
  NoContent = NoContent
  ProposalIds = {}
  PostStatuses = {"promoted"}
  Txns = {t1}
  MaxClock = 3
  Syncers = {a1, a2}
  PageSize = 1
  HandAuthored = HandAuthored
SPECIFICATION TurnsSpec
INVARIANTS
  UpToCursorAtRest
