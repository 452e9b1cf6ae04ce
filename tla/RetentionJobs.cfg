CONSTANTS
    l1 = l1
    l2 = l2
    d1 = d1
    Row = {l1, l2, d1}
    Order <- MCOrder
    TableOf <- MCTableOf
    BatchSize = 1
    MaxNow = 2
SPECIFICATION Spec
INVARIANTS TypeOK CleanedIsArchived
PROPERTIES  JobsEnd
CHECK_DEADLOCK FALSE
