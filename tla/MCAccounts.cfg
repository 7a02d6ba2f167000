CONSTANTS
    Calls = {r1, r2, r3}
    Blank = blank
    Profiles = {blank, handy}
    None = None
SYMMETRY Perms
SPECIFICATION Spec
INVARIANTS TypeOK CopiesAgree VerdictStands NoDeadlock
PROPERTIES ImplementsAccount
CHECK_DEADLOCK FALSE
