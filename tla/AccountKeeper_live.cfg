SPECIFICATION Spec
CONSTANTS
  NumAccounts = 1
  Operation = "change_password"
  Secrets = {1}
  AssignProxy = FALSE
  MaxChallenges = 2
  MaxControls = 1
  MaxFaults = 1
  MaxResumes = 1
CHECK_DEADLOCK FALSE
PROPERTY BatchSettles
PROPERTY CancelEndsBatch
