\* One waiter, two reconnects, three failures of the stream.
SPECIFICATION ConnectionSpec
CONSTANTS
    Waiter = {w1}
    Reconnector = {r1, r2}
    MaxFailures = 3
CHECK_DEADLOCK FALSE
INVARIANTS
    SessionsAreClosed
    ReconnectSawSnapshot
PROPERTIES
    ChainMovesOn
    StreamComesBack
