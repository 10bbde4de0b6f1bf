\* Two viewers and the bot of the row, a buffer that overflows and is read after.
SPECIFICATION Spec
CONSTANTS
    Sockets = {w1, w2}
    Emitters = {b1}
    MaxReplay = 2
    MaxEvents = 3
INVARIANT TypeOK
PROPERTY EachStreamInOrder
PROPERTY FeedImplemented
PROPERTY NothingStaysOwed
PROPERTY BrokenIsUnregistered
