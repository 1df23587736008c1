\* A release with a new projector on an old database, under every fault.
SPECIFICATION FairSpec
CONSTANTS
    t1 = t1
    t2 = t2
    threads = threads
    turns = turns
    create = create
    recreate = recreate
    archive = archive
    turn = turn
    NoCommand = NoCommand
    CommandId <- MCCommandId
    Thread <- MCThread
    CommandOf <- MCCommandOf
    LegacyLog <- MCLegacyLog
    ProjectorOrder <- MCProjectorOrder
    ThreadsProjector = threads
    RequiredProjectors <- MCRequired
    NewProjectors = {turns}
    ReplayLimit = 3
    Faults = {"rollback", "lostCommit", "receiptRead", "receiptWrite", "reconcileRead"}
    MaxQueue = 1
ACTION_CONSTRAINT NothingMissed
INVARIANTS
    StoredExactlyOnce
    AnswersAreDurable
    ReadModelIsFresh
    HistoryIsLegal
    PublicationIsSound
    BootstrapCatchesUp
PROPERTIES
    ImplementsJournal
    EveryCommandIsAnswered
