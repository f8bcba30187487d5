SPECIFICATION FairSpec
CONSTANTS
    c1 = c1
    c2 = c2
    s1 = s1
    s2 = s2
    None = None
    Starts = {c1, c2}
    Stops = {s1, s2}
    Forced = {s2}
    Modes = {"stdio", "tcp", "uri", "inproc"}
    RetryFailed = FALSE
    Events = TRUE
    CliObeys = TRUE
INVARIANT PipesOutliveTransport
PROPERTIES StartReturns StopReturns
CHECK_DEADLOCK FALSE
