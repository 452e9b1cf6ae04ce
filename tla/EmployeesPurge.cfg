CONSTANTS
    p1 = p1
    p2 = p2
    h1 = h1
    h2 = h2
    d1 = d1
    r1 = r1
    r2 = r2
    Scheduler = Scheduler
    Nobody = Nobody
    NoId = NoId
    Phone = {p1, p2}
    Person = {h1, h2}
    Device = {d1}
    Request = {r1}
    Limit = 1
    MaxBulk = 2
    MaxRequests = 3
    MaxRestarts = 1
SPECIFICATION Spec
INVARIANTS TypeOK ReferencesExist OneRowPerPerson RecordsOfOne
PROPERTIES NumbersNotPurged DueIsPurged
CHECK_DEADLOCK FALSE
