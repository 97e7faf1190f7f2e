\* One request at a time beside the transactions, two projects, two versions.
SPECIFICATION Spec
CONSTANTS
    p1 = p1
    p2 = p2
    d1 = d1
    d2 = d2
    r1 = r1
    r2 = r2
    NoRow = NoRow
    Project <- TwoProjects
    Forkable <- NoProject
    DraftRow <- OneRow
    Request <- OneRequest
    FrontPart <- OneFront
    MaxVersion = 2
SYMMETRY RowsAndProjects
CHECK_DEADLOCK FALSE
INVARIANTS TypeOK OfficialSnapshotBooked LeafIsOfficial
