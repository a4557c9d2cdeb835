CONSTANTS
    Browsers = {b1, b2}
    Sessions = {s1, s2, s3}
    Conns = {c1, c2, c3}
    None = None
SPECIFICATION FairSpec
INVARIANTS TypeOK CountsViewers EndIsSeen
PROPERTY CallsReturn
