\* Two clients and five numbers.
SPECIFICATION FairSpec
CONSTANTS
    None = None
    Sockets = {c1, c2}
    MaxSeq = 5
INVARIANTS TypeOK LossIsDetected
PROPERTY ShutdownFinishes
\* The gateway may be closed, and upstream's numbers are bounded.
CHECK_DEADLOCK FALSE
