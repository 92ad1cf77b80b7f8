SPECIFICATION Spec
CONSTANTS
    Session = {s1}
    Request = {q1, q2}
    None = None
    AlwaysOnline = TRUE
    UnoAlwaysOnline = {}
    InitialStore = {"absent", "paired"}
    MaxEpoch = 1
    MaxPending = 1
    MaxCrashes = 0
INVARIANT
    DisconnectEndsSession
CHECK_DEADLOCK FALSE
