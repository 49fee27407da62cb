\* Two processes that may share one port, and another program.
SPECIFICATION FairSpec
CONSTANTS
    Servers = {s1, s2}
    Ports = {p1}
    Nobody = nobody
    Other = other
    Timeout = 2
INVARIANTS
    StartupInv
    ServesOnlyStarted
    ConflictLeavesOne
PROPERTY StartupEnds
