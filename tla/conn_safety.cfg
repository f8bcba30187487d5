SPECIFICATION Spec
CONSTANTS
    c1 = c1
    c2 = c2
    s1 = s1
    s2 = s2
    None = None
    Starts = {c1, c2}
    Stops = {s1, s2}
    Forced = {s2}
    Modes = {"stdio", "tcp", "uri", "inproc", "parent"}
    RetryFailed = TRUE
    Events = TRUE
    CliObeys = FALSE
INVARIANTS
    TypeOK ConnectedIsVerified NoLeakedServer ReaderHasItsClient
PROPERTIES
    ImplementsPromise
CHECK_DEADLOCK FALSE
