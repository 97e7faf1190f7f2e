\* Two requests in flight on one project, two versions.
SPECIFICATION Spec
CONSTANTS
    p1 = p1
    p2 = p2
    d1 = d1
    d2 = d2
    r1 = r1
    r2 = r2
    NoRow = NoRow
    Project <- OneProject
    Forkable <- OneProject
    DraftRow <- TwoRows
    Request <- TwoRequests
    FrontPart <- NoFront
    MaxVersion = 2
SYMMETRY RowsAndRequests
CHECK_DEADLOCK FALSE
INVARIANTS OfficialIsNewest Inductive
PROPERTIES ForkedSourceKept IsPublishedBook
