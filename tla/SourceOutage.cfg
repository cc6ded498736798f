SPECIFICATION Spec
CONSTANTS
    MaxSockets = 3
    Requests = {q1}
INVARIANT SurvivesUpstreamOutage
CHECK_DEADLOCK FALSE
