SPECIFICATION Spec
CONSTANTS
    Delivery = {d1, d2}
    Main = main
    Conn = {i1, i2}
    None = None
PROPERTY
    EnsureMaintains
CHECK_DEADLOCK FALSE
