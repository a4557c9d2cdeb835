CONSTANTS
    Panels = {p1}
    Subs = {s1, s2}
    Filters = {f1}
    None = None
    Backlog = 2
    Faults = {"drop", "expire"}
    Sockets = {w1, w2, w3}
SPECIFICATION TabFairSpec

PROPERTIES ReconnectsAlways
