\* Two processes, three callers, two lock files and one death.
SPECIFICATION FairSpec
CONSTANTS
    p1 = p1
    p2 = p2
    Procs = {p1, p2}
    Callers <- MCCallers
    None = None
    MaxOpens = 2
    MaxDeaths = 1
INVARIANTS TypeOK Exclusive HeldIsOnDisk
PROPERTY DeadLocksAreReclaimed
\* Every process may have died, and lock files and deaths are bounded.
CHECK_DEADLOCK FALSE
