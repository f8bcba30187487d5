SPECIFICATION Spec
CONSTANTS
    c1 = c1
    r1 = r1
    d1 = d1
    s1 = s1
    s2 = s2
    t1 = t1
    t2 = t2
    i1 = i1
    i2 = i2
    NoOne = NoOne
    User = User
    Creates = {c1}
    Resumes = {r1}
    Deletes = {d1}
    Asked <- RenamedAsked
    Offered <- RenamedOffered
    Interested = {}
    Stops = {s1}
    Tasks = {t1}
    Kind <- OnePermission
    MaxConn = 1
INVARIANT NoCircle
CHECK_DEADLOCK FALSE
