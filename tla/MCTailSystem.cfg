CONSTANTS
    Browsers = {b1, b2}
    Sessions = {s1, s2}
    Conns = {c1, c2}
    Tasks = {t1, t2}
    None = None
    Faults = {"drop", "refuse", "end", "batch", "overlap"}
SPECIFICATION Spec
SYMMETRY Symmetry
INVARIANTS TypeOK OnlyWatchedIsFollowed OneFollower
PROPERTIES ManagerSpec
