\* One turn that edits twice.
SPECIFICATION Spec
CONSTANTS
    MaxTurns = 1
    MaxEdits = 2
    MaxReverts = 0
CHECK_DEADLOCK FALSE
INVARIANT
    CheckpointIsPostTurn
