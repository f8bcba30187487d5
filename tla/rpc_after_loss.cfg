SPECIFICATION FairSpec
CONSTANTS
    a = a
    b = b
    c = c
    NoReq = NoReq
    Req = {a}
    Sync = {}
    Nested = {}
    Timeout <- OneTick
    Poll = 1
    Kinds = {}
    MaxWire = 1
PROPERTY TimeoutHonoured
CHECK_DEADLOCK FALSE
