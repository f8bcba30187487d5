SPECIFICATION Spec
CONSTANTS
    a = a
    b = b
    c = c
    Subscriptions = {a, b, c}
PROPERTIES
    EventsGoToSubscribers
CHECK_DEADLOCK FALSE
