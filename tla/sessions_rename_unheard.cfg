SPECIFICATION Spec
CONSTANTS
    c1 = c1
    r1 = r1
    d1 = d1
    s1 = s1
    s2 = s2
    t1 = t1
    t2 = t2
    i1 = i1
    i2 = i2
    NoOne = NoOne
    User = User
    Creates = {c1}
    Resumes = {}
    Deletes = {}
    Asked <- AskedIds
    Offered <- OfferedIds
    Interested = {}
    Stops = {s1}
    Tasks = {t1}
    Kind <- OneTool
    MaxConn = 1
INVARIANT RenamedIsFound
CHECK_DEADLOCK FALSE
