\* Two requests at a time on one project, no rollback.
SPECIFICATION Spec
CONSTANTS
    p1 = p1
    p2 = p2
    b1 = b1
    b2 = b2
    t1 = t1
    t2 = t2
    NoPlan = NoPlan
    Project = {p1}
    Plan = {b1}
    Request = {t1, t2}
    Kinds <- NoRollback
    Batches <- OneEach
    MaxStamp = 6
SYMMETRY Symmetric
INVARIANTS NoStageSkipped NeverWithoutStatus
