CONSTANTS
    Job = job
    Providers = {p1}
    Amounts = {1}
    Keys = {k1, k2}
    Sessions = {s1, s2}
    None = None
SYMMETRY Perms
SPECIFICATION Spec
INVARIANTS OneChargeIdentity
CHECK_DEADLOCK FALSE
