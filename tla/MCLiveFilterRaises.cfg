CONSTANTS
    Filters = {f1, f2}
    Raising = {f2}
    None = None
    MaxLines = 1
    Backlog = 1
SPECIFICATION FairSpec
CHECK_DEADLOCK FALSE
PROPERTIES FilterReported
