CONSTANTS
    Details = {d1, d2}
    MaxAttempts = 4
    MaxDrafts = 3
    None = None
SYMMETRY Perms
SPECIFICATION Spec
INVARIANTS TypeOK ShownIsStored OneJobPerDraft
CHECK_DEADLOCK FALSE
