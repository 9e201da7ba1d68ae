\* Batches of three over two lanes, so that a lane takes a second address,
\* also after its lookup was refused.
SPECIFICATION FairSpec

CONSTANTS
    Branches = 2
    AddressOf <- MCAddressOf
    Initial <- MCInitial
    Maximum = 5
    Gap = 1
    BatchSize = 3
    Providers = 2
    Lanes = 2
    Attempts = 3

INVARIANTS
    SectionIsTrue
    FailureIsThorough

PROPERTY
    EverySearchEnds

\* One scan, and it ends.
CHECK_DEADLOCK FALSE
