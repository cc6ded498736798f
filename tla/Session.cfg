\* Two sessions, three clients, any two events, user actions or route changes.
SPECIFICATION Spec
CONSTANTS
    None = None
    Sessions = {s1, s2}
    DemoSession = DemoSession
    ApprovalIds = {"a1"}
    MaxClients = 3
    MaxEvents = 2
    Inputs = {"route", "submit", "stop", "sync", "delta", "tool", "report", "end", "message", "approval", "gap"}
SYMMETRY Symmetry
INVARIANTS TypeOK OneClient PageNeverStranded UnmountedIsQuiet RequestsCannotHang
PROPERTY RunTextOnlyGrows
\* The page may be left, and clients and events are bounded.
CHECK_DEADLOCK FALSE
