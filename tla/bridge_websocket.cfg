SPECIFICATION FairSpec
CONSTANTS
    e1 = e1
    w1 = w1
    NoOne = NoOne
    Http = {}
    WebSocket = {w1}
    MaxParts = 2
PROPERTIES
    WebSocketOpens
CHECK_DEADLOCK FALSE
