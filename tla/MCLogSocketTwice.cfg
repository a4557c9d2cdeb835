CONSTANTS
    Panels = {p1}
    Subs = {s1, s2}
    Filters = {f1}
    None = None
    Backlog = 3
    Faults = {}
    Sockets = {w1, w2, w3}
SPECIFICATION TabSpec
CHECK_DEADLOCK FALSE
INVARIANTS SubscribedOnce
