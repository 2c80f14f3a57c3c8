SPECIFICATION Spec
CONSTANTS
  NumAccounts = 2
  Operation = "change_password"
  Secrets = {1}
  AssignProxy = TRUE
  MaxChallenges = 1
  MaxControls = 1
  MaxFaults = 1
  MaxResumes = 1
CHECK_DEADLOCK FALSE
INVARIANT TypeOK
INVARIANT PasswordNeverLost
INVARIANT AuthorizedIsDurable
INVARIANT VerdictMatchesVault
 
INVARIANT NobodyForgotten
 
PROPERTY CriticalStopsBatch
PROPERTY ImplementsRotation
