CONSTANTS
  Skills = {s1, s2}
  CandidateKinds = {"edit", "promote"}
  Jobs = {j1, j2, j3}
  MaxConcurrent = 2
  Cooldown = 1
  MaxTime = 2
  MaxFaults = 1
SPECIFICATION Spec
INVARIANT
  OneActivePerSkill
CHECK_DEADLOCK FALSE
