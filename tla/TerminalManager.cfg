\* The shell may be idle for ever.
SPECIFICATION FairSpec
CONSTANTS
    HistoryLimit = 2
    MaxSessions = 3
    MaxProcesses = 3
    MaxCalls = 4
    MaxLines = 3
    MaxFaults = 1
CHECK_DEADLOCK FALSE
INVARIANTS
    TranscriptIsSaved
    
    ProcessesAreOwned
PROPERTIES
    EverythingEnds
