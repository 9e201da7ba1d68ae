SPECIFICATION StartupFairSpec
CONSTANT MaxErrors = 2
CHECK_DEADLOCK FALSE
INVARIANTS
    HeardFatalIsFinal
    StartMeansConnected
PROPERTIES
    StartupIsDecided
