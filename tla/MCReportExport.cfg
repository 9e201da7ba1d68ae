\* Three reports, so that answers of two requests can overtake a third, and
\* three generations: a run, one that replaces it and one page cleared.
SPECIFICATION FairSpec

CONSTANTS
    MaxRuns = 3
    MaxExports = 3

INVARIANT
    NoticeIsTrue

PROPERTIES
    ImplementsRemoteCalls
    EveryExportSettles

\* The scans of a session are bounded, so it may stop.
CHECK_DEADLOCK FALSE
