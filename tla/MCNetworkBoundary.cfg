SPECIFICATION FairSpec
CONSTANTS
    balance = balance
    history = history
    malformed = malformed
    ping = ping
    run1 = run1
    run2 = run2
    Nobody = Nobody
    Calls = {balance, history, malformed, ping}
    Invalid = {malformed}
    Signals = {run1, run2}
    SignalOf <- MCSignalOf
CHECK_DEADLOCK FALSE
INVARIANTS
    WaitingCallIsHeldOnce
    CancelFollowsRequest
PROPERTIES
    ImplementsRemoteCalls
    EveryCallSettles
