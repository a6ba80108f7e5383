CONSTANTS
  Skills = {s1, s2, s3}
  CandidateKinds = {"edit", "promote"}
  Jobs = {j1, j2, j3}
  MaxConcurrent = 2
  Cooldown = 1
  MaxTime = 1
  MaxFaults = 1
SPECIFICATION Spec
SYMMETRY Interchangeable
INVARIANTS
  RatchetTypeOK
  LedgerGuarded
  LedgerComplete
\* Every job is used up and the bounds are reached.
CHECK_DEADLOCK FALSE
