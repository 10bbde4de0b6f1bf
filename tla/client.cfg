\* The event loop runs a new worker before the next call, as under BotService.
SPECIFICATION Spec
CONSTANTS
    MaxReconnect = 3
    Workers = {w1, w2}
    NoWorker = NoWorker
    Eager = FALSE
INVARIANT OneRefresher
INVARIANT TransportClosesLast
PROPERTY NoDispatchAfterStop
PROPERTY ReconnectsOrEnds
PROPERTY JoinReturns
PROPERTY AcloseReturns
PROPERTY ListenerKeepsPromise
CHECK_DEADLOCK FALSE
