SPECIFICATION FairSpec
CONSTANTS
    e1 = e1
    w1 = w1
    NoOne = NoOne
    Http = {e1}
    WebSocket = {w1}
    MaxParts = 2
INVARIANTS
    TypeOK ResponsesAreInOrder ThreadsHaveTheirBridge
PROPERTIES
    CompleteIsAnswered NothingStaysPending ImplementsPromise
CHECK_DEADLOCK FALSE
