SPECIFICATION Spec
CONSTANTS
    a = a
    b = b
    c = c
    NoReq = NoReq
    Req = {a, b}
    Sync = {}
    Nested = {}
    Timeout <- TwoDeadlines
    Poll = 1
    Kinds = {}
    MaxWire = 1
INVARIANT NoSleepPastDeadline
CHECK_DEADLOCK FALSE
