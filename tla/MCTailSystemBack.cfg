CONSTANTS
    Browsers = {b1}
    Sessions = {s1, s2}
    Conns = {c1, c2}
    Tasks = {t1}
    None = None
    Faults = {"drop", "refuse", "end", "overlap"}
SPECIFICATION FairSpec
PROPERTIES FollowedOrTold
