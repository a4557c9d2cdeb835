CONSTANTS
    Inodes = {i1, i2, i3}
    Nowhere = Nowhere
    Begin = 4
    MaxBytes = 4
    MaxFaults = 2
    BackfillLines = 1
    BlockSize = 2
    ChunkSize = 2
    Regrows = FALSE
    Requests = {r1}
    Root = "d0"
    Dirs = {"d0", "d1"}
    Files = {"f1", "f2", "f3"}
    Parent <- Tree
    Matching = {"f1", "f3"}
    MaxFiles = 1
    MaxEntries = 3
    NoRequest = NoRequest
SPECIFICATION HostSpec
CHECK_DEADLOCK FALSE
INVARIANTS HostTypeOK ShownIsWritten FindsAllThatStayed
PROPERTIES CaughtUpOrTold
