SPECIFICATION Spec
CONSTANTS
    c1 = c1
    c2 = c2
    s1 = s1
    s2 = s2
    None = None
    Starts = {c1, c2}
    Stops = {s1}
    Forced = {}
    Modes = {"tcp"}
    RetryFailed = FALSE
    Events = FALSE
    CliObeys = TRUE
INVARIANT ConnectsToItsServer
CHECK_DEADLOCK FALSE
