SPECIFICATION Spec
CONSTANTS
    a = a
    b = b
    c = c
    NoReq = NoReq
    Req = {a, b}
    Sync = {b}
    Nested = {}
    Timeout <- OneTick
    Poll = 1
    Kinds = {"result", "error", "call", "other"}
    MaxWire = 1
INVARIANTS
    TypeOK OneSettler TimeoutNotEarly StopSettlesAll
PROPERTIES
    NotAbandoned ImplementsCalls
CHECK_DEADLOCK FALSE
