SPECIFICATION LimiterFairSpec
CONSTANTS
    c1 = c1
    c2 = c2
    c3 = c3
    c4 = c4
    c5 = c5
    s1 = s1
    s2 = s2
    NoSignal = NoSignal
    Calls <- MCCalls
    Signals <- MCSignals
    SignalOf <- MCSignalOf
    Limit = 2
CHECK_DEADLOCK FALSE
INVARIANTS
    SlotAccounting
    EveryWaiterQueued
PROPERTIES
    ImplementsGate
    EveryCallSettles
