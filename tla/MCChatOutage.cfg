CONSTANTS
    c1 = c1  p1 = p1  s1 = s1  s2 = s2
    Customers = {c1}
    Providers = {p1}
    Screens = {s1, s2}
    UserOf <- OneEach
    Messages = {m1}
    None = None
SPECIFICATION Spec
INVARIANT OutageIsRetried
CHECK_DEADLOCK FALSE
