SPECIFICATION FairSpec
CONSTANTS
    Delivery = {d1, d2}
    Main = main
    Conn = {i1, i2, i3}
    None = None
INVARIANTS
    TypeOK
    OneConnection
    SenderHasChannel
    InFlightKept
PROPERTIES
    DeliveriesReturn
    ImplementsWebhooks
CHECK_DEADLOCK FALSE
