\* Does a bot end only by a cancel on the phone?
SPECIFICATION Spec
CONSTANTS
    Users = {u1, u2}
    NoOne = NoOne
    MaxPolls = 5
    MaxReplay = 5
INVARIANT OnlyCancelEnds
CHECK_DEADLOCK FALSE
