SPECIFICATION FairSpec
CONSTANTS
  Calls = {c1, c2}
  Ports = {p1, p2}
  Redises = {r1, r2, r3}
  Sidecars = {s1, s2, s3}
  MaxAttempts = 2
  Workloads <- PoolWork
  None = None
PROPERTY CallsReturn
INVARIANT NothingStray
PROPERTY AnswersHold
