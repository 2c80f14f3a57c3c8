SPECIFICATION FairSpec
CONSTANTS
  Proxies = {x}
  Workloads <- ProfileWork
  MaxCallers = 2
  MaxPids = 3
CHECK_DEADLOCK FALSE
 
PROPERTY KillWorks
PROPERTY PrepareAnswers
INVARIANT BrowserKept
 
