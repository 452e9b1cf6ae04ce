CONSTANTS
    e1 = e1
    r1 = r1
    l1 = l1
    l2 = l2
    Entity = {e1}
    Request = {r1}
    Loop = {l1, l2}
    MaxVersion = 2
    MaxCrashes = 1
SPECIFICATION Spec
INVARIANTS TypeOK CompletedIsStored
PROPERTIES NoRegress JobsFinish
CHECK_DEADLOCK FALSE
