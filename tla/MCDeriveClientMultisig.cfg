SPECIFICATION Spec
CONSTANTS
    derive = derive
    search = search
    selfTest = selfTest
    multisig = multisig
    Nobody = Nobody
    Requests = {derive, multisig}
    Carries <- MCCarriesMany
    Derivations = {derive, multisig}
    Waiters = {caller}
CHECK_DEADLOCK FALSE
INVARIANT
    SecretsHaveOwners
