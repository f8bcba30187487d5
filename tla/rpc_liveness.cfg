SPECIFICATION FairSpec
CONSTANTS
    a = a
    b = b
    c = c
    NoReq = NoReq
    Req = {a, b}
    Sync = {}
    Nested = {}
    Timeout <- SomeUntimed
    Poll = 1
    Kinds = {"result"}
    MaxWire = 1
PROPERTIES RequestEnds LossReleasesAll StopReturns
CHECK_DEADLOCK FALSE
