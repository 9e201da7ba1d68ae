SPECIFICATION Spec
CONSTANTS
    PageSize = 2
    MaximumPages = 6
    MaximumReconciliations = 3
    Mine <- MCMine
    Spends <- MCSpends
    MaxSize = 5
    MaxTip = 4
    Glitches = 1
CHECK_DEADLOCK FALSE
INVARIANTS
    LedgerIsPrefix
    StopsForACause
PROPERTIES
    ImplementsSnapshot
