\* The page moves from one session to another.
SPECIFICATION Spec
CONSTANTS
    None = None
    Sessions = {s1, s2}
    DemoSession = DemoSession
    ApprovalIds = {}
    MaxClients = 3
    MaxEvents = 3
    Inputs = {"route", "message"}
INVARIANT PageShowsItsSession
\* The page may be left, and clients and events are bounded.
CHECK_DEADLOCK FALSE
