SPECIFICATION Spec
CONSTANTS
  Callers = {c1}
  MaxJobs = 1
  MaxBatches = 1
  Budgets <- OneRequest
INVARIANT CancelledNeverRuns
