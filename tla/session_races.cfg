SPECIFICATION LifeSpec
CONSTANTS
    Session = {s1}
    Request = {q1, q2}
    None = None
    AlwaysOnline = TRUE
    UnoAlwaysOnline = {FALSE}
    InitialStore = {"absent", "paired"}
    MaxEpoch = 1
    MaxPending = 2
    MaxCrashes = 0
SYMMETRY RequestSymmetry
INVARIANTS
    TypeOK
    NoClientLost
    OnlyEarlyEscapes
    ReloadReplaces
    RefreshersOwned
    QRRemoved
    ConnectingEnds
PROPERTIES
    ImplementsRegistry
    ReloadRenews
CHECK_DEADLOCK FALSE
