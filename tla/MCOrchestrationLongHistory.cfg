\* As MCOrchestrationEngine, with more events than one read returns.
SPECIFICATION Spec
CONSTANTS
    t1 = t1
    t2 = t2
    threads = threads
    turns = turns
    create = create
    recreate = recreate
    archive = archive
    turn = turn
    NoCommand = NoCommand
    CommandId <- MCCommandId
    Thread <- MCThread
    CommandOf <- MCCommandOf
    LegacyLog <- MCLegacyLog
    ProjectorOrder <- MCProjectorOrder
    ThreadsProjector = threads
    RequiredProjectors <- MCRequired
    NewProjectors = {turns}
    ReplayLimit = 2
    Faults = {"rollback", "reconcileRead"}
    MaxQueue = 1
INVARIANT
    BootstrapCatchesUp
