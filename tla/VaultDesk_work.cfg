SPECIFICATION Spec
CONSTANTS
  Accounts = {a1, a2}
  Callers = {c1}
  Workloads <- DeskWork
  MaxJobs = 3
  MaxMinted = 4
SYMMETRY Symmetry
CHECK_DEADLOCK FALSE
INVARIANT NoDeadEnd
INVARIANT TokenUsable
INVARIANT SuccessSignsIn
 
PROPERTY NothingReturns
