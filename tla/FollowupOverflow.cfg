\* Three messages for a queue of two; nothing fails and nothing is cleared.
SPECIFICATION Spec
CONSTANTS
    None = None
    Direct = Direct
    MaxMessages = 3
    Cap = 2
    Channels = {c1}
    Senders = {u1}
    MaxDirects = 1
    MaxFailures = 0
    MaxClears = 0
INVARIANT DroppedAreSummarised
\* Messages are bounded.
CHECK_DEADLOCK FALSE
