SPECIFICATION FairSpec
CONSTANTS
    c1 = c1
    c2 = c2
    s1 = s1
    s2 = s2
    None = None
    Starts = {c1, c2}
    Stops = {}
    Forced = {}
    Modes = {"uri"}
    RetryFailed = TRUE
    Events = TRUE
    CliObeys = TRUE
PROPERTY StartReturns
CHECK_DEADLOCK FALSE
