\* Two peers, two messages in one batch or two, and histories of no, one or two exchanges.
SPECIFICATION Spec
CONSTANTS
    Peers = {p1, p2}
    Self = Self
    AI = AI
    Other = Other
    Owners = {AI, Other}
    Keys = {k1}
    NoKey = NoKey
    Mask = Mask
    MaxMessages = 2
    Turns = {0, 1, 2}
    Lists <- MCLists
    Default <- MCDefault
    Messages <- MCMessages
SYMMETRY Symmetry
INVARIANT TypeOK
INVARIANT CachesAgree
INVARIANT CountsAddUp
INVARIANT HistoryIsExchanges
PROPERTY SavesKeepTheRest
