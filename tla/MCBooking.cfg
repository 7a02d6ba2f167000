CONSTANTS
    Job = j1
    Customer = c1
    Providers = {p1}
    Bids = {b1}
    Amounts = {1, 2}
    Keys = {k1, k2}
    Sessions = {s1, s2}
    None = None
SYMMETRY Perms
SPECIFICATION Spec
INVARIANTS PaidAsAgreed
PROPERTIES ImplementsEscrow PaymentIsSafe PaidIsFinal
CHECK_DEADLOCK FALSE
