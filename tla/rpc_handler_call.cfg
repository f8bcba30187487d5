SPECIFICATION FairSpec
CONSTANTS
    a = a
    b = b
    c = c
    NoReq = NoReq
    Req = {c}
    Sync = {}
    Nested = {c}
    Timeout <- OneTick
    Poll = 1
    Kinds = {"call", "result"}
    MaxWire = 1
PROPERTY StopReturns
CHECK_DEADLOCK FALSE
