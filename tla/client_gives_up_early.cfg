\* The loss of a connection counts as its first failed reconnection.
SPECIFICATION Spec
CONSTANTS
    MaxReconnect = 3
    Workers = {w1}
    NoWorker = NoWorker
    Eager = FALSE
INVARIANT GivesUpAtLimit
CHECK_DEADLOCK FALSE
