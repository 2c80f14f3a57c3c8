SPECIFICATION Spec
CONSTANTS
  Callers = {c1, c2}
  MaxJobs = 2
  MaxBatches = 2
  Budgets <- SoundBudgets
PROPERTY QueueDrains
PROPERTY CancelEndsJob
