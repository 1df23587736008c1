----------------------- MODULE MCOrchestrationEngine -----------------------
(***************************************************************************)
(* Small instances of OrchestrationEngine for TLC.                         *)
(***************************************************************************)
EXTENDS OrchestrationEngine, TLC

CONSTANTS t1, t2,                     \* the threads
          threads, turns,             \* two of the projectors
          create, recreate, archive, turn   \* command ids

MCCommandId == {create, recreate, archive, turn}

\* Two commands create the same thread; one archives it, one starts a turn.
MCCommandOf ==
    (create   :> [type |-> "thread.create",     thread |-> t1]) @@
    (recreate :> [type |-> "thread.create",     thread |-> t1]) @@
    (archive  :> [type |-> "thread.archive",    thread |-> t1]) @@
    (turn     :> [type |-> "thread.turn.start", thread |-> t1])

MCThread == {t1, t2}
MCProjectorOrder == <<turns, threads>>
MCRequired == {threads}

Legacy(type) == [commandId |-> NoCommand, thread |-> t2, type |-> type]
\* A database from before the receipts, with three events of another thread.
MCLegacyLog ==
    <<Legacy("thread.created"), Legacy("thread.message-sent"),
      Legacy("thread.turn-start-requested")>>

\* The event store cannot be read only while the read model has missed
\* nothing; otherwise nothing in the code repairs it before the next failure.
NothingMissed == ReconcileFails => Len(eventLog) = readModel.snapshotSequence
============================================================================
