CONSTANTS
    Jobs = {j1, j2}
    Callers = {c1, c2}
    Reconciler = worker
    Limit = 1
    None = None
SPECIFICATION FairSpec
INVARIANTS TypeOK ServedOnceBetween
PROPERTY TurnComes
