CONSTANTS
    Job = job
    Providers = {p1}
    Amounts = {1}
    Keys = {k1}
    Sessions = {s1, s2}
    None = None
SPECIFICATION FairSpec
INVARIANTS TypeOK OneLiveCharge LedgerTruth
PROPERTIES RowNeverGoesBack KeepsPromise CancelledMoneyReturned
CHECK_DEADLOCK FALSE
