SPECIFICATION CallFairSpec
CONSTANTS
    Session = {s1}
    Request = {q1}
    None = None
    AlwaysOnline = FALSE
    UnoAlwaysOnline = {}
    InitialStore = {"absent", "paired"}
    MaxEpoch = 2
    MaxPending = 1
    MaxCrashes = 1
    Call = {k1}
INVARIANTS
    CallTypeOK
    ConnectingEnds
PROPERTIES
    OperationsReturn
    SavedSessionsDialled
    RingingEnds
    PairingKept
    OwnClientRings
CHECK_DEADLOCK FALSE
