CONSTANTS
    Browsers = {b1, b2}
    QueueMax = 2
    BufferMax = 3
    FirstLines = 2
    MaxEvents = 4
SPECIFICATION Spec
CHECK_DEADLOCK FALSE
INVARIANTS TypeOK NeitherNorBoth QueueIsWindow BufferIsNewest
PROPERTY FeedSpec
