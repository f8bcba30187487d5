SPECIFICATION FairSpec
CONSTANTS
    c1 = c1
    c2 = c2
    s1 = s1
    s2 = s2
    None = None
    Starts = {c1}
    Stops = {s1}
    Forced = {}
    Modes = {"parent"}
    RetryFailed = FALSE
    Events = FALSE
    CliObeys = TRUE
PROPERTY StopReturns
CHECK_DEADLOCK FALSE
