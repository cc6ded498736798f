\* Two client requests and three connection attempts, with fair request timers.
SPECIFICATION FairSpec
CONSTANTS
    MaxSockets = 3
    Requests = {q1, q2}
INVARIANTS TypeOK NeverStranded CallsOnlyAfterHandshake
PROPERTY SentRequestsSettle
\* A dead process takes no step, and attempts are bounded.
CHECK_DEADLOCK FALSE
