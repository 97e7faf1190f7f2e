\* Part 1 is corrected, the draft is made ready again, and merge is called.
SPECIFICATION Spec
CONSTANTS
    p1 = p1
    p2 = p2
    d1 = d1
    d2 = d2
    r1 = r1
    r2 = r2
    NoRow = NoRow
    Project <- OneProject
    Forkable <- OneProject
    DraftRow <- OneRow
    Request <- OneRequest
    FrontPart <- OneFront
    MaxVersion = 2
CHECK_DEADLOCK FALSE
INVARIANTS ReadyDraftMerges
