\* Two rows and one bot, nothing fails.
SPECIFICATION Spec
CONSTANTS
    Ids = {a1, a2}
    Wxids = {x1}
    NoWxid = NoWxid
    Bots = {b1}
    Faults = FALSE
PROPERTY NoRunningRowDeleted
CHECK_DEADLOCK FALSE
