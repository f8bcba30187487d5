SPECIFICATION FairSpec
CONSTANTS
    c1 = c1
    r1 = r1
    d1 = d1
    s1 = s1
    s2 = s2
    t1 = t1
    t2 = t2
    i1 = i1
    i2 = i2
    NoOne = NoOne
    User = User
    Creates = {}
    Resumes = {r1}
    Deletes = {}
    Asked <- AskedIds
    Offered <- OfferedIds
    Interested = {r1}
    Stops = {s1, s2}
    Tasks = {t1}
    Kind <- OnePermission
    MaxConn = 2
INVARIANTS
    RequestsHaveAnEnd
PROPERTIES
    CallsReturn
CHECK_DEADLOCK FALSE
