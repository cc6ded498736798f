\* One runtime run, one runtime session, three operations.
SPECIFICATION Spec
CONSTANTS
    RuntimeRuns = {rr1}
    RuntimeSessions = {rs1}
    OpenClawRuntime = OpenClawRuntime
    None = None
    SettingFields = {"defaultModel"}
    MaxOps = 3
INVARIANTS TypeOK IdsUnique SummariesMatchDetails AckedSurvive AckedAreAudited RunsHaveTheirWorkflow FileIsPrefixOfMemory
PROPERTY LastRunBacked
\* A torn file stops the system for good: readState cannot parse it.
CHECK_DEADLOCK FALSE
