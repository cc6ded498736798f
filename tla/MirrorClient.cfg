\* Four sockets, two approvals, close() at any time.
SPECIFICATION FairSpec
CONSTANTS
    MaxAttempts = 4
    MaxApprovals = 2
    MaxCount = 3
INVARIANTS TypeOK OneSocket MirrorNeverStranded ReturnedIsQuiet
PROPERTIES CloseReturns FollowsEvents
\* close() ends the client, and its sockets are bounded.
CHECK_DEADLOCK FALSE
