SPECIFICATION Spec
CONSTANTS
    Session = {s1}
    Request = {q1, q2}
    None = None
    AlwaysOnline = TRUE
    UnoAlwaysOnline = {}
    InitialStore = {"absent", "paired"}
    MaxEpoch = 2
    MaxPending = 2
    MaxCrashes = 0
INVARIANT
    QRIsCurrent
CHECK_DEADLOCK FALSE
