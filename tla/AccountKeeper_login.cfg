SPECIFICATION Spec
CONSTANTS
  NumAccounts = 2
  Operation = "login"
  Secrets = {1}
  AssignProxy = FALSE
  MaxChallenges = 1
  MaxControls = 2
  MaxFaults = 1
  MaxResumes = 1
CHECK_DEADLOCK FALSE
INVARIANT VerdictMatchesVault
