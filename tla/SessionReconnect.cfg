\* A message arrives while the page reconnects.
SPECIFICATION Spec
CONSTANTS
    None = None
    Sessions = {s1}
    DemoSession = DemoSession
    ApprovalIds = {}
    MaxClients = 2
    MaxEvents = 1
    Inputs = {"message"}
INVARIANT ReconnectCatchesUp
\* The page may be left, and clients and events are bounded.
CHECK_DEADLOCK FALSE
