SPECIFICATION Spec
CONSTANTS
    k1 = k1
    k2 = k2
    Callbacks = {k1, k2}
    Attempts = 3
    MaxBytes = 2
INVARIANTS
    OutboundFindsItsTransport
CHECK_DEADLOCK FALSE
