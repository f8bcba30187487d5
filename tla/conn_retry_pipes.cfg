SPECIFICATION Spec
CONSTANTS
    c1 = c1
    c2 = c2
    s1 = s1
    s2 = s2
    None = None
    Starts = {c1, c2}
    Stops = {}
    Forced = {}
    Modes = {"stdio"}
    RetryFailed = TRUE
    Events = FALSE
    CliObeys = TRUE
INVARIANT PipesOutliveTransport
CHECK_DEADLOCK FALSE
