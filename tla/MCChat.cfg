CONSTANTS
    c1 = c1  p1 = p1  s1 = s1  s2 = s2
    Customers = {c1}
    Providers = {p1}
    Screens = {s1, s2}
    UserOf <- OneEach
    Messages = {m1, m2}
    None = None
SYMMETRY Perms
CONSTRAINT OneRequest
SPECIFICATION Spec
INVARIANTS TypeOK ListedOnce ShownIsSaved HeardWhileEntitled
CHECK_DEADLOCK FALSE
