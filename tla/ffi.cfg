SPECIFICATION FairSpec
CONSTANTS
    k1 = k1
    k2 = k2
    Callbacks = {k1, k2}
    Attempts = 3
    MaxBytes = 2
INVARIANTS
    TypeOK CallbacksRunInLoadedCode UnloadedIsReleased
PROPERTIES
    StopReturns
CHECK_DEADLOCK FALSE
