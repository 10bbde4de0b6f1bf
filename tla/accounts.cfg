\* Starts, deletions, edits and logins in any order the API accepts, with reads
\* and writes of the file that fail.
SPECIFICATION Spec
CONSTANTS
    Ids = {a1, a2, a3}
    Wxids = {x1, x2}
    NoWxid = NoWxid
    Bots = {b1, b2}
    Faults = TRUE
SYMMETRY Symmetry
INVARIANT TypeOK
PROPERTY KeptUnlessMovedOrOverwritten
CHECK_DEADLOCK FALSE
