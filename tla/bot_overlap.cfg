\* Two rows that log in as one wxid, two starts; stop and start of a row may
\* overlap, and the list of plugins may be unreadable.
SPECIFICATION MeetSpec
CONSTANTS
    r1 = r1
    r2 = r2
    wx1 = wx1
    Slots = {r1, r2}
    Wxids = {wx1}
    WxidOf <- TwoRowsOneWxid
    Tasks = {t1, t2}
    NoTask = NoTask
    NoClient = NoClient
    Overlap = TRUE
    HookFault = TRUE
SYMMETRY Symmetry
INVARIANT NoLostBot
INVARIANT PendingMeansLoggingIn
INVARIANT ClientTasksEndFirst
INVARIANT RegisteredUnlessMet
