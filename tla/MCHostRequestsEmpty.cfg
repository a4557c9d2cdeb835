CONSTANTS
    Requests = {r1}
    Root = "d0"
    Dirs = {"d0"}
    Files = {"f1", "f2"}
    Parent <- Tree
    Matching = {"f1", "f2"}
    MaxFiles = 2
    MaxEntries = 2
    NoRequest = NoRequest
SPECIFICATION RequestSpec
CHECK_DEADLOCK FALSE
INVARIANTS FailureIsReported
