SPECIFICATION FairSpec
CONSTANTS
    derive = derive
    search = search
    selfTest = selfTest
    multisig = multisig
    Nobody = Nobody
    Requests = {derive, search, selfTest}
    Carries <- MCCarries
    Derivations = {derive}
    Waiters = {caller}
CHECK_DEADLOCK FALSE
INVARIANTS
    SecretsHaveOwners
PROPERTIES
    PostedToLiveWorker
    ImplementsRemoteCalls
    EveryRequestSettles
