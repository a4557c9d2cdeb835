CONSTANTS
    Browsers = {b1}
    Sessions = {s1, s2}
    Conns = {c1, c2}
    Tasks = {t1, t2}
    None = None
    Faults = {"overtake"}
SPECIFICATION Spec
INVARIANTS OneFollower
