\* Two projects of one plan, bulk changes, the book closed and corrected.
SPECIFICATION Spec
CONSTANTS
    p1 = p1
    p2 = p2
    b1 = b1
    b2 = b2
    t1 = t1
    t2 = t2
    NoPlan = NoPlan
    Project = {p1, p2}
    Plan = {b1}
    Request = {t1}
    Kinds <- NoCancel
    Batches <- Mixed
    MaxStamp = 7
SYMMETRY Projects
INVARIANT BookedPlanSettled
PROPERTY BookedNeverReverted
