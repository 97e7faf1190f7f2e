\* Requests one after the other, two plans: resubmission, cancel, restore.
SPECIFICATION Spec
CONSTANTS
    p1 = p1
    p2 = p2
    b1 = b1
    b2 = b2
    t1 = t1
    t2 = t2
    NoPlan = NoPlan
    Project = {p1}
    Plan = {b1, b2}
    Request = {t1}
    Kinds <- EveryKind
    Batches <- OneEach
    MaxStamp = 7
INVARIANTS TypeOK HistoryIsPath
