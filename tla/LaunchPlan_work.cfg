SPECIFICATION PlanSpec
CONSTANTS
    Ids = {i1, i2}
    Hosts = {h1}
    Kinds = {"socks5", "http"}
    x1 = x1
    x2 = x2
    Exits = {x1, x2}
    NoZone = {x2}
    NoLocale = {x2}
    NoExit = NoExit
    NoProxy = NoProxy
    Inline = Inline
    Host = Host
    Default = Default
    Failed = Failed
    Answers = {x1, x2, Failed}
    Commands = {c1, c2}
    MaxSnaps = 2
    Workloads <- PlanWork
CHECK_DEADLOCK FALSE
SYMMETRY Symmetry
INVARIANT FilesKept
INVARIANT LaunchSound
