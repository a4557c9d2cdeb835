CONSTANTS
    Filters = {f1, f2}
    Raising = {}
    None = None
    MaxLines = 1
    Backlog = 1
SPECIFICATION Spec
CHECK_DEADLOCK FALSE
INVARIANTS PlainIsRestored
