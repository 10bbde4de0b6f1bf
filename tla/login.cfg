\* Both modes, two phones, four polls of a code, a buffer that fills up.
SPECIFICATION Spec
CONSTANTS
    Users = {u1, u2}
    NoOne = NoOne
    MaxPolls = 4
    MaxReplay = 2
INVARIANT TypeOK
INVARIANT CodeKeepsItsSession
INVARIANT OnlineAsScanner
INVARIANT EndsByCancel
PROPERTY NicknameOfScanner
PROPERTY LoginKeepsPromise
CHECK_DEADLOCK FALSE
