\* Two turns and a revert.  The system may be quiet for ever.
SPECIFICATION FairSpec
CONSTANTS
    MaxTurns = 2
    MaxEdits = 1
    MaxReverts = 1
CHECK_DEADLOCK FALSE
INVARIANTS
    FilesAreThere
    ProjectionsAgree
    ConversationInStep
PROPERTIES
    CheckpointsAreKept
    EveryTurnIsCheckpointed
