CONSTANTS
    Filters = {f1, f2, f3}
    Raising = {f3}
    None = None
    MaxLines = 2
    Backlog = 1
SPECIFICATION FairSpec
CHECK_DEADLOCK FALSE
INVARIANTS TypeOK FilterCatchesUp PlainHasNoGap
PROPERTIES FilterAnswered
