SPECIFICATION Spec
CONSTANTS
  Launches = {l1}
  MaxVersion = 3
  Workloads <- InstallWork
CHECK_DEADLOCK FALSE
PROPERTY LaunchWhole
INVARIANT InstalledWhole
PROPERTY LibraryKept
