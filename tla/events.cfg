SPECIFICATION Spec
CONSTANTS
    w1 = w1
    w2 = w2
    p1 = p1
    Nothing = Nothing
    Waits = {w1, w2}
    Plain = {p1}
INVARIANTS
    TypeOK OwnEndIsHeard UndisturbedGetsItsAnswer
SYMMETRY Symmetry
CHECK_DEADLOCK FALSE
