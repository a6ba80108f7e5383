CONSTANTS
  Names = {n1}
  Contents = {c1, c2}
  NoContent = NoContent
  ProposalIds = {p1, p2}
  PostStatuses = {"promoted"}
  Txns = {t1, t2}
  MaxClock = 3
SPECIFICATION FairSpec
INVARIANTS
  TypeOK
  HistoryIntact
  RegisteredHasVersion
  ApprovalApplied
  Isolation
PROPERTIES
  SerialSpec
  TransactionsEnd
  DecisionsFinal
  HistoryAppendOnly
  PromotionGate
\* Callers may stop calling: every transaction has ended and the bounds are used up.
CHECK_DEADLOCK FALSE
