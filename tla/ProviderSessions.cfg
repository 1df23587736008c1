\* Two turns, two processes, one other command, one fault.  The system may be
\* quiet for ever.
SPECIFICATION FairSpec
CONSTANTS
    InitiallyAsking = TRUE
    MaxTurns = 2
    MaxAgents = 2
    MaxOthers = 1
    MaxFaults = 1
    MaxLag = 2
CHECK_DEADLOCK FALSE
INVARIANTS
    SessionIsTrue
    AgentsAreReachable
    WaitingIsShown
PROPERTIES
    ConversationIsKept
    EveryTurnIsSettled
