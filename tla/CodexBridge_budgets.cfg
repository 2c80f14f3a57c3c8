SPECIFICATION Spec
CONSTANTS
  p = p
  Profiles = {p}
  Requests = {r1, r2}
  Budgets <- BridgeBudgets
  MaxPairings = 3
  MaxOps = 2
SYMMETRY Symmetry
CHECK_DEADLOCK FALSE
PROPERTY ConsumedStays
INVARIANT ExportSound
INVARIANT SignInsApart
