CONSTANTS
    Calls = {r1, r2}
    Week = 2
    Horizon = 5
    Deposits = {250, 300}
    MaxFunds = 800
    None = None
SYMMETRY Perms
SPECIFICATION Spec
INVARIANTS TypeOK WalletBalanced PaidOncePerWeek BenefitIsPaid
CHECK_DEADLOCK FALSE
