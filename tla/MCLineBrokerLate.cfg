CONSTANTS
    Browsers = {b1}
    QueueMax = 2
    BufferMax = 3
    FirstLines = 2
    MaxEvents = 4
SPECIFICATION Spec
CHECK_DEADLOCK FALSE
INVARIANT BufferInLogOrder
