\* Does a late viewer get the code in either mode?
SPECIFICATION Spec
CONSTANTS
    Users = {u1, u2}
    NoOne = NoOne
    MaxPolls = 5
    MaxReplay = 5
INVARIANT CodeIsReplayed
CHECK_DEADLOCK FALSE
