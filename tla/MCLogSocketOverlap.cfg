CONSTANTS
    Panels = {p1, p2}
    Subs = {s1, s2}
    Filters = {f1}
    None = None
    Backlog = 2
    Faults = {}
    Sockets = {w1, w2, w3}
SPECIFICATION TabSpec
CHECK_DEADLOCK FALSE
INVARIANTS OneConnection
