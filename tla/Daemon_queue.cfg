SPECIFICATION Spec
CONSTANTS
  Callers = {c1, c2}
  MaxJobs = 2
  MaxBatches = 2
  Budgets <- QueueBudgets
SYMMETRY CallerSymmetry
INVARIANT CompletedIsComplete
INVARIANT OneSlot
INVARIANT StartedOnce
INVARIANT Tracking
PROPERTY StartsByRule
