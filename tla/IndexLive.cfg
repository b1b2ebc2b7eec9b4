\* Two rows, batches of one, every kind of text, one update between the jobs' reads and writes.
SPECIFICATION FairSpec
CONSTANTS
    c1 = c1  x1 = x1  x2 = x2  x3 = x3  x4 = x4
    NoText = NoText
    Rows = {1, 2}
    Clients = {c1}
    Contents = {x1, x2, x3, x4}
    Hash <- DistinctHash
    Blank = {x4}
    Long = {x1, x3}
    Oversize = {x3}
    Invalid = {x1}
    BatchSize = 1
    MaxAttempts = 2
    MaxUpdates = 1
INVARIANTS ChunksMatchContent
PROPERTIES WrittenIsFound
CHECK_DEADLOCK FALSE
