\* One row with an old and a new bot, two plugins, from the start to the exit.
SPECIFICATION FairAppSpec
CONSTANTS
    r1 = r1
    wx1 = wx1
    p1 = p1
    p2 = p2
    Slots = {r1}
    Wxids = {wx1}
    WxidOf <- OneRowWxid
    Tasks = {t1, t2}
    NoTask = NoTask
    NoClient = NoClient
    Overlap = FALSE
    HookFault = FALSE
    Plugins = {p1, p2}
    HooksOf <- MCHooksOf
    Lists <- MCLists
INVARIANT AppTypeOK
INVARIANT OnlineIsRegistered
INVARIANT HelloHasGoodbye
INVARIANT ClosedOnlyIfCut
PROPERTY StopCompletes
PROPERTY ExhaustedBotStops
PROPERTY ExitCompletes
CHECK_DEADLOCK FALSE
