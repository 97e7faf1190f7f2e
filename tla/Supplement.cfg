\* Two overlapping requests, two draft rows, two versions.
SPECIFICATION Spec
CONSTANTS
    p1 = p1
    p2 = p2
    d1 = d1
    d2 = d2
    r1 = r1
    r2 = r2
    NoRow = NoRow
    Project <- OneProject
    Forkable <- OneProject
    DraftRow <- TwoRows
    Request <- TwoRequests
    FrontPart <- OneFront
    MaxVersion = 2
SYMMETRY Interchangeable
CHECK_DEADLOCK FALSE
INVARIANTS LocksHold TypeOK OfficialIsNewest OfficialIsBooked LeafIsOfficial
PROPERTIES ForkedSourceKept IsPublishedBook
