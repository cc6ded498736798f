\* Three runs in two sessions, two at a time in main, and two signals.
SPECIFICATION FairSpec
CONSTANTS
    None = None
    MaxRuns = 3
    Sessions = {s1, s2}
    MaxConcurrent = 2
    MaxRequests = 2
INVARIANTS TypeOK OneRunPerSession DrainedIsQuiet RefusesOnlyForRestart
PROPERTY RunsSettle
\* The process may exit, and the runs and signals are bounded.
CHECK_DEADLOCK FALSE
