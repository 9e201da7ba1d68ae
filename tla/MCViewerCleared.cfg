\* What a batch that was cleared still writes: one batch of Core addresses is
\* enough.
SPECIFICATION FairSpec

CONSTANTS
    k1 = k1
    k2 = k2
    Public <- MCPublic
    Keys <- MCKeys
    Dapi <- MCDapi
    Concurrency = 2
    Pages = 2
    MaxRefused = 0
    MaxQueries = 1
    MaxExports = 1

PROPERTY
    ClearedStaysClear
