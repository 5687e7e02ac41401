SPECIFICATION FairSpec
CONSTANTS
    Gone = Gone
    NoRow = NoRow
    People = {p1, p2}
    Contents = {v1, v2}
    Requests = {r1, r2}
    BatchSize = 1
INVARIANTS NobodyMailedTwice RecordedIsWhatWentOut
PROPERTY EverySendEnds
CHECK_DEADLOCK FALSE
