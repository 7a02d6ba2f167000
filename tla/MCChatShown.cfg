CONSTANTS
    c1 = c1  p1 = p1  s1 = s1  s2 = s2
    Customers = {c1}
    Providers = {p1}
    Screens = {s2}
    UserOf <- OneOnly
    Messages = {m1, m2}
    None = None
SPECIFICATION FairSpec
PROPERTY EveryMessageShown
CHECK_DEADLOCK FALSE
