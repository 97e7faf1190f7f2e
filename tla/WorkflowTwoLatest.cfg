\* Two status changes of one project at a time.
SPECIFICATION Spec
CONSTANTS
    p1 = p1
    p2 = p2
    b1 = b1
    b2 = b2
    t1 = t1
    t2 = t2
    NoPlan = NoPlan
    Project = {p1}
    Plan = {b1}
    Request = {t1, t2}
    Kinds <- NoRollback
    Batches <- OneEach
    MaxStamp = 4
INVARIANT SingleLatest
