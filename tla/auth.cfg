\* Three requests at once, a limit of three wrong tokens in three steps of time.
SPECIFICATION FairSpec
CONSTANTS
    Requests = {q1, q2, q3}
    MaxFailures = 3
    Window = 3
    NoEntry = NoEntry
INVARIANT RefusedForCause
INVARIANT TriesAreLimited
PROPERTY RefusalEnds
