\* Three messages for a queue of two, one failed run and one clear.
SPECIFICATION MCSpec
CONSTANTS
    None = None
    Direct = Direct
    MaxMessages = 3
    Cap = 2
    Channels = {c1, c2}
    Senders = {u1, u2}
    MaxDirects = 2
    MaxFailures = 1
    MaxClears = 1
INVARIANTS TypeOK NoSilentLoss NoMessageRunsTwice
PROPERTY EveryMessageIsAnswered
\* Messages are bounded.
CHECK_DEADLOCK FALSE
