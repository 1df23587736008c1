------------------------ MODULE OrchestrationEngine ------------------------
(***************************************************************************)
(* The orchestration engine: one worker takes commands from a queue,       *)
(* answers a known command id from its receipt, decides the others on the  *)
(* in-memory read model, and in one database transaction appends their     *)
(* events, runs every projector on them and writes the receipt.  After the *)
(* commit it replaces the read model, publishes the events and answers.    *)
(* After a failure it reconciles the read model with the event store.      *)
(*                                                                         *)
(* The database (eventLog, receipts, tables, cursor) survives a crash; the *)
(* rest is the memory of one server process.                               *)
(*                                                                         *)
(* projectEvent, in memory and in SQL, is a function of the events applied *)
(* so far, so a table and each slice of the read model is represented by   *)
(* the sequence of events applied to it: two slices that differ in that    *)
(* sequence may differ in content.                                         *)
(***************************************************************************)
EXTENDS OrchestrationCommands

CONSTANTS
    ProjectorOrder,      \* the projectors, in the order the pipeline runs them
    ThreadsProjector,    \* the one whose rows the decider's look-ups read
    RequiredProjectors,  \* REQUIRED_SNAPSHOT_PROJECTORS
    NewProjectors,       \* projectors with no cursor row yet (a new release)
    ReplayLimit,         \* DEFAULT_READ_FROM_SEQUENCE_LIMIT
    Faults,              \* which storage failures the environment produces
    MaxQueue             \* bound: commands waiting in the queue

Projector == {ProjectorOrder[i] : i \in 1..Len(ProjectorOrder)}

(* rollback        the transaction fails and is rolled back                *)
(* lostCommit      the transaction commits but its caller sees a failure   *)
(* receiptRead     the receipt look-up fails                               *)
(* receiptWrite    the rejected receipt cannot be written                  *)
(* reconcileRead   the event store cannot be read while reconciling        *)
Fault == {"rollback", "lostCommit", "receiptRead", "receiptWrite",
          "reconcileRead"}

ASSUME EngineAssumption ==
    /\ ProjectorOrder \in Seq(Projector)
    /\ RequiredProjectors \subseteq Projector /\ RequiredProjectors # {}
    /\ NewProjectors \subseteq Projector
    /\ ThreadsProjector \in Projector
    /\ ReplayLimit \in Nat \ {0}
    /\ Faults \subseteq Fault
    /\ MaxQueue \in Nat

VARIABLES
    \* the database
    eventLog,        \* orchestration_events; the sequence is the position
    receipts,        \* orchestration_command_receipts
    tables,          \* tables[p]: the events projector p applied to its tables
    cursor,          \* projection_state.last_applied_sequence, 0 if no row
    \* the server process
    phase,           \* where the worker is
    bootAt,          \* while booting: which projector is being bootstrapped
    bootCount,       \* while booting: how many events it has replayed
    readModel,       \* [rows, snapshotSequence]
    queue,           \* commandQueue
    current,         \* the envelope's command id, NoCommand when idle
    startSequence,   \* dispatchStartSequence
    outcome,         \* how the envelope's Deferred will be completed
    outbox,          \* sequences the worker has yet to publish
    \* history
    bootSequence,    \* length of the log when the engine started serving
    published,       \* sequences published since, in order
    answers          \* every verdict a client was ever told of

database == <<eventLog, receipts, tables, cursor>>
boot == <<bootAt, bootCount>>
vars == <<database, phase, boot, readModel, queue, current, startSequence,
          outcome, outbox, bootSequence, published, answers>>

Phase == {"booting", "idle", "transaction", "committed", "failed",
          "publishing", "republishing", "answering"}

NoOutcome == [result |-> "none", sequence |-> 0]
Success(seq) == [result |-> "accepted", sequence |-> seq]
InvariantError == [result |-> "invariantError", sequence |-> 0]
PreviouslyRejectedError == [result |-> "previouslyRejected", sequence |-> 0]
StorageError == [result |-> "storageError", sequence |-> 0]
Result == {"none", "accepted", "invariantError", "previouslyRejected",
           "storageError"}

(* The results that tell a client a command's fate; the other two only say *)
(* that this attempt failed.                                               *)
Verdict == {"accepted", "previouslyRejected"}

EmptyReadModel == [rows |-> [p \in Projector |-> <<>>], snapshotSequence |-> 0]

(* The positions first+1 .. last, in order.                                *)
Positions(first, last) == [k \in 1..(last - first) |-> first + k]

(* readFromSequence: the events after a sequence, at most ReplayLimit.     *)
ReadTo(seq) == IF seq + ReplayLimit < Len(eventLog)
               THEN seq + ReplayLimit ELSE Len(eventLog)
ReadFromSequence(seq) == SubSeq(eventLog, seq + 1, ReadTo(seq))

(* computeSnapshotSequence: the least cursor of the required projectors.   *)
IsSnapshotSequence(n) == \A p \in RequiredProjectors : n <= cursor[p]

(* The events the decider's look-ups have seen.                            *)
DeciderView == readModel.rows[ThreadsProjector]

Init ==
    /\ eventLog = LegacyLog
    /\ receipts = [c \in CommandId |-> NoReceipt]
    /\ tables = [p \in Projector |->
                    IF p \in NewProjectors THEN <<>> ELSE LegacyLog]
    /\ cursor = [p \in Projector |->
                    IF p \in NewProjectors THEN 0 ELSE Len(LegacyLog)]
    /\ phase = "booting"
    /\ bootAt = 1
    /\ bootCount = 0
    /\ readModel = EmptyReadModel
    /\ queue = <<>>
    /\ current = NoCommand
    /\ startSequence = 0
    /\ outcome = NoOutcome
    /\ outbox = <<>>
    /\ bootSequence = 0
    /\ published = <<>>
    /\ answers = {}

-----------------------------------------------------------------------------
(* Startup.                                                                *)

(* MUTANT: the cursor moves to the end of the log at the first event.      *)
ReplayEvent_CursorJumps ==
    LET p == ProjectorOrder[bootAt] IN
    /\ phase = "booting"
    /\ bootAt <= Len(ProjectorOrder)
    /\ cursor[p] < Len(eventLog)
    /\ bootCount < ReplayLimit
    /\ tables' = [tables EXCEPT ![p] = Append(@, eventLog[cursor[p] + 1])]
    /\ cursor' = [cursor EXCEPT ![p] = Len(eventLog)]
    /\ bootCount' = bootCount + 1
    /\ UNCHANGED <<eventLog, receipts, phase, bootAt, readModel, queue, current,
                   startSequence, outcome, outbox, bootSequence, published,
                   answers>>

(* One iteration of bootstrapProjector's stream: the projector applies the *)
(* next stored event and moves its cursor, in a transaction of its own.    *)
ReplayEvent ==
    LET p == ProjectorOrder[bootAt] IN
    /\ phase = "booting"
    /\ bootAt <= Len(ProjectorOrder)
    /\ cursor[p] < Len(eventLog)
    /\ bootCount < ReplayLimit
    /\ tables' = [tables EXCEPT ![p] = Append(@, eventLog[cursor[p] + 1])]
    /\ cursor' = [cursor EXCEPT ![p] = @ + 1]
    /\ bootCount' = bootCount + 1
    /\ UNCHANGED <<eventLog, receipts, phase, bootAt, readModel, queue, current,
                   startSequence, outcome, outbox, bootSequence, published,
                   answers>>

(* Its stream has ended: no more events, or the page limit is spent.       *)
NextProjector ==
    LET p == ProjectorOrder[bootAt] IN
    /\ phase = "booting"
    /\ bootAt <= Len(ProjectorOrder)
    /\ cursor[p] = Len(eventLog) \/ bootCount = ReplayLimit
    /\ bootAt' = bootAt + 1
    /\ bootCount' = 0
    /\ UNCHANGED <<database, phase, readModel, queue, current, startSequence,
                   outcome, outbox, bootSequence, published, answers>>

(* readModel = getSnapshot(), then the worker is forked.                   *)
LoadReadModel ==
    /\ phase = "booting"
    /\ bootAt > Len(ProjectorOrder)
    /\ \E p \in RequiredProjectors :
          /\ IsSnapshotSequence(cursor[p])
          /\ readModel' = [rows |-> tables, snapshotSequence |-> cursor[p]]
    /\ bootSequence' = Len(eventLog)
    /\ phase' = "idle"
    /\ UNCHANGED <<database, boot, queue, current, startSequence, outcome,
                   outbox, published, answers>>

-----------------------------------------------------------------------------
(* Clients.                                                                *)

(* A client, or a reactor of the server, sends a command; it may send one  *)
(* it has sent before, answered or not.                                    *)
Dispatch(c) ==
    /\ phase # "booting"
    /\ Len(queue) < MaxQueue
    /\ queue' = Append(queue, c)
    /\ UNCHANGED <<database, phase, boot, readModel, current, startSequence,
                   outcome, outbox, bootSequence, published, answers>>

-----------------------------------------------------------------------------
(* The worker: processEnvelope.                                            *)

(* The worker takes the next envelope and ends up in phase next with       *)
(* outcome result.                                                         *)
Take(next, result) ==
    /\ phase = "idle"
    /\ queue # <<>>
    /\ current' = Head(queue)
    /\ queue' = Tail(queue)
    /\ startSequence' = readModel.snapshotSequence
    /\ phase' = next
    /\ outcome' = result
    /\ UNCHANGED <<database, boot, readModel, outbox, bootSequence, published,
                   answers>>

AnswerFromReceipt ==
    /\ queue # <<>> /\ receipts[Head(queue)].status = "accepted"
    /\ Take("answering", Success(receipts[Head(queue)].resultSequence))

RefuseFromReceipt ==
    /\ queue # <<>> /\ receipts[Head(queue)].status = "rejected"
    /\ Take("answering", PreviouslyRejectedError)

(* MUTANT: the look-up is outside the effect whose failure is caught; the  *)
(* envelope is lost with its Deferred.                                     *)
ReceiptLookupFails_Uncaught ==
    /\ "receiptRead" \in Faults
    /\ phase = "idle"
    /\ queue # <<>>
    /\ queue' = Tail(queue)
    /\ UNCHANGED <<database, phase, boot, readModel, current, startSequence,
                   outcome, outbox, bootSequence, published, answers>>

ReceiptLookupFails ==
    /\ "receiptRead" \in Faults
    /\ Take("failed", StorageError)

RejectByInvariant ==
    /\ queue # <<>> /\ receipts[Head(queue)].status = "none"
    /\ ~ Admissible(Head(queue), DeciderView)
    /\ Take("failed", InvariantError)

(* MUTANT: a command is decided without looking for its receipt.           *)
BeginTransaction_NoReceipt ==
    /\ queue # <<>>
    /\ Admissible(Head(queue), DeciderView)
    /\ Take("transaction", NoOutcome)

BeginTransaction ==
    /\ queue # <<>> /\ receipts[Head(queue)].status = "none"
    /\ Admissible(Head(queue), DeciderView)
    /\ Take("transaction", NoOutcome)

(* The effect of the transaction on the database: each event is appended   *)
(* and projected by every projector, whose cursor becomes its sequence;    *)
(* the receipt carries the last sequence.                                  *)
WriteTransaction ==
    LET last == Len(eventLog) + Len(EventsOf(current)) IN
    /\ eventLog' = eventLog \o EventsOf(current)
    /\ tables' = [p \in Projector |-> tables[p] \o EventsOf(current)]
    /\ cursor' = [p \in Projector |-> last]
    /\ receipts' = [receipts EXCEPT ![current] = Accepted(last)]

Commit ==
    /\ phase = "transaction"
    /\ WriteTransaction
    /\ phase' = "committed"
    /\ UNCHANGED <<boot, readModel, queue, current, startSequence, outcome,
                   outbox, bootSequence, published, answers>>

TransactionRollsBack ==
    /\ phase = "transaction"
    /\ "rollback" \in Faults
    /\ phase' = "failed"
    /\ outcome' = StorageError
    /\ UNCHANGED <<database, boot, readModel, queue, current, startSequence,
                   outbox, bootSequence, published, answers>>

CommitReportedAsFailure ==
    /\ phase = "transaction"
    /\ "lostCommit" \in Faults
    /\ WriteTransaction
    /\ phase' = "failed"
    /\ outcome' = StorageError
    /\ UNCHANGED <<boot, readModel, queue, current, startSequence, outbox,
                   bootSequence, published, answers>>

(* MUTANT: the answer carries the sequence of the command's first event.   *)
ReplaceReadModel_FirstSequence ==
    LET last == receipts[current].resultSequence IN
    /\ phase = "committed"
    /\ readModel' = [rows |-> [p \in Projector |->
                                  readModel.rows[p] \o EventsOf(current)],
                     snapshotSequence |-> last]
    /\ outbox' = Positions(last - Len(EventsOf(current)), last)
    /\ outcome' = Success(last - Len(EventsOf(current)) + 1)
    /\ phase' = "publishing"
    /\ UNCHANGED <<database, boot, queue, current, startSequence, bootSequence,
                   published, answers>>

(* readModel = committedCommand.nextReadModel.                             *)
ReplaceReadModel ==
    LET last == receipts[current].resultSequence IN
    /\ phase = "committed"
    /\ readModel' = [rows |-> [p \in Projector |->
                                  readModel.rows[p] \o EventsOf(current)],
                     snapshotSequence |-> last]
    /\ outbox' = Positions(last - Len(EventsOf(current)), last)
    /\ outcome' = Success(last)
    /\ phase' = "publishing"
    /\ UNCHANGED <<database, boot, queue, current, startSequence, bootSequence,
                   published, answers>>

Publish ==
    /\ phase \in {"publishing", "republishing"}
    /\ outbox # <<>>
    /\ published' = Append(published, Head(outbox))
    /\ outbox' = Tail(outbox)
    /\ UNCHANGED <<database, phase, boot, readModel, queue, current,
                   startSequence, outcome, bootSequence, answers>>

FinishPublishing ==
    /\ phase = "publishing"
    /\ outbox = <<>>
    /\ phase' = "answering"
    /\ UNCHANGED <<database, boot, readModel, queue, current, startSequence,
                   outcome, outbox, bootSequence, published, answers>>

(* MUTANT: what was stored is published, the read model is left behind.    *)
Reconcile_NoFold ==
    /\ phase = "failed"
    /\ outbox' = Positions(startSequence, ReadTo(startSequence))
    /\ phase' = "republishing"
    /\ UNCHANGED <<database, boot, readModel, queue, current, startSequence,
                   outcome, bootSequence, published, answers>>

(* MUTANT: the read model is reconciled, nothing is published.             *)
Reconcile_NoPublish ==
    LET persisted == ReadFromSequence(startSequence) IN
    /\ phase = "failed"
    /\ readModel' =
          IF persisted = <<>> THEN readModel
          ELSE [rows |-> [p \in Projector |-> readModel.rows[p] \o persisted],
                snapshotSequence |-> ReadTo(startSequence)]
    /\ phase' = "republishing"
    /\ UNCHANGED <<database, boot, queue, current, startSequence, outcome,
                   outbox, bootSequence, published, answers>>

(* reconcileReadModelAfterDispatchFailure: fold the events stored since    *)
(* the dispatch began onto the read model, then publish them.              *)
Reconcile ==
    LET persisted == ReadFromSequence(startSequence) IN
    /\ phase = "failed"
    /\ readModel' =
          IF persisted = <<>> THEN readModel
          ELSE [rows |-> [p \in Projector |-> readModel.rows[p] \o persisted],
                snapshotSequence |-> ReadTo(startSequence)]
    /\ outbox' = Positions(startSequence, ReadTo(startSequence))
    /\ phase' = "republishing"
    /\ UNCHANGED <<database, boot, queue, current, startSequence, outcome,
                   bootSequence, published, answers>>

(* The event store cannot be read: a warning is logged, nothing changes.   *)
ReconcileFails ==
    /\ phase = "failed"
    /\ "reconcileRead" \in Faults
    /\ phase' = "republishing"
    /\ UNCHANGED <<database, boot, readModel, queue, current, startSequence,
                   outcome, outbox, bootSequence, published, answers>>

(* MUTANT: any failure gets a rejected receipt.                            *)
RecordRejection_AnyFailure ==
    /\ phase = "republishing"
    /\ outbox = <<>>
    /\ receipts' = [receipts EXCEPT ![current] =
                        Rejected(readModel.snapshotSequence)]
    /\ phase' = "answering"
    /\ UNCHANGED <<eventLog, tables, cursor, boot, readModel, queue, current,
                   startSequence, outcome, outbox, bootSequence, published,
                   answers>>

(* A command its invariants refuse gets a rejected receipt.                *)
RecordRejection ==
    /\ phase = "republishing"
    /\ outbox = <<>>
    /\ outcome = InvariantError
    /\ receipts' = [receipts EXCEPT ![current] =
                        Rejected(readModel.snapshotSequence)]
    /\ phase' = "answering"
    /\ UNCHANGED <<eventLog, tables, cursor, boot, readModel, queue, current,
                   startSequence, outcome, outbox, bootSequence, published,
                   answers>>

(* No receipt: the failure was of storage, or the receipt's write failed   *)
(* and its error was swallowed.                                            *)
SkipRejection ==
    /\ phase = "republishing"
    /\ outbox = <<>>
    /\ outcome = StorageError \/ "receiptWrite" \in Faults
    /\ phase' = "answering"
    /\ UNCHANGED <<database, boot, readModel, queue, current, startSequence,
                   outcome, outbox, bootSequence, published, answers>>

(* Deferred.succeed or Deferred.fail; the worker takes the next envelope.  *)
Answer ==
    /\ phase = "answering"
    /\ answers' = IF outcome.result \in Verdict
                  THEN answers \cup {[command  |-> current,
                                      result   |-> outcome.result,
                                      sequence |-> outcome.sequence]}
                  ELSE answers
    /\ phase' = "idle"
    /\ current' = NoCommand
    /\ outcome' = NoOutcome
    /\ startSequence' = 0
    /\ UNCHANGED <<database, boot, readModel, queue, outbox, bootSequence,
                   published>>

-----------------------------------------------------------------------------
(* The process dies and is started again: an open transaction is rolled    *)
(* back, the queue and what it held unpublished or unanswered are lost.    *)
Crash ==
    /\ phase' = "booting"
    /\ bootAt' = 1
    /\ bootCount' = 0
    /\ readModel' = EmptyReadModel
    /\ queue' = <<>>
    /\ current' = NoCommand
    /\ startSequence' = 0
    /\ outcome' = NoOutcome
    /\ outbox' = <<>>
    /\ bootSequence' = 0
    /\ published' = <<>>
    /\ UNCHANGED <<database, answers>>

Boot == ReplayEvent \/ NextProjector \/ LoadReadModel

Worker ==
    \/ AnswerFromReceipt \/ RefuseFromReceipt \/ ReceiptLookupFails
    \/ RejectByInvariant \/ BeginTransaction
    \/ Commit \/ TransactionRollsBack \/ CommitReportedAsFailure
    \/ ReplaceReadModel \/ Publish \/ FinishPublishing
    \/ Reconcile \/ ReconcileFails \/ RecordRejection \/ SkipRejection
    \/ Answer

Next ==
    \/ Boot
    \/ \E c \in CommandId : Dispatch(c)
    \/ Worker
    \/ Crash

Spec == Init /\ [][Next]_vars

(* The runtime resumes a fiber whose effect completed, and a database call *)
(* completes or fails: the startup fiber and the worker do not stall.      *)
FairSpec == Spec /\ WF_vars(Boot) /\ WF_vars(Worker)

-----------------------------------------------------------------------------
(* Properties.                                                             *)

(* Every variable has its type (all of the engine's state).                *)
TypeOK ==
    /\ eventLog \in Seq(Event)
    /\ receipts \in [CommandId -> Receipt]
    /\ tables \in [Projector -> Seq(Event)]
    /\ cursor \in [Projector -> Nat]
    /\ phase \in Phase
    /\ bootAt \in 1..(Len(ProjectorOrder) + 1)
    /\ bootCount \in 0..ReplayLimit
    /\ readModel \in [rows : [Projector -> Seq(Event)], snapshotSequence : Nat]
    /\ queue \in Seq(CommandId)
    /\ current \in CommandId \cup {NoCommand}
    /\ startSequence \in Nat
    /\ outcome \in [result : Result, sequence : Nat]
    /\ outbox \in Seq(Nat)
    /\ bootSequence \in Nat
    /\ published \in Seq(Nat)
    /\ answers \subseteq [command : CommandId, result : Verdict, sequence : Nat]

(* The events of command c are the log's entries last-n+1 .. last, whole   *)
(* and in order, and no other entry is c's.                                *)
StoredOnceAt(log, c, last) ==
    LET n == Len(EventsOf(c)) IN
    /\ n <= last /\ last <= Len(log)
    /\ \A k \in 1..n : log[last - n + k] = EventsOf(c)[k]
    /\ \A i \in 1..Len(log) :
          log[i].commandId = c => last - n < i /\ i <= last

(* All or nothing, and once: however often a command id is sent, whatever  *)
(* fails or crashes, the log holds all its events exactly once when its    *)
(* receipt says accepted (processEnvelope's transaction and receipt        *)
(* look-up), and none of them otherwise.                                   *)
StoredExactlyOnce ==
    \A c \in CommandId :
        IF receipts[c].status = "accepted"
        THEN StoredOnceAt(eventLog, c, receipts[c].resultSequence)
        ELSE \A i \in 1..Len(eventLog) : eventLog[i].commandId # c

(* A client is never told two things about a command: an accepted answer   *)
(* carries the sequence its receipt will always carry, also when a retry   *)
(* is answered by another server process, and an id reported as rejected   *)
(* before has, and keeps, a rejected receipt.                              *)
AnswersAreDurable ==
    \A a \in answers :
        /\ a.result = "accepted" => receipts[a.command] = Accepted(a.sequence)
        /\ a.result = "previouslyRejected" =>
              receipts[a.command].status = "rejected"

(* Between two commands the in-memory read model, every projector's tables *)
(* and the cursors have all seen exactly the stored events, once each and  *)
(* in order, also after failures and crashes.                              *)
ReadModelIsFresh ==
    phase = "idle" =>
        /\ readModel.snapshotSequence = Len(eventLog)
        /\ \A p \in Projector :
              /\ tables[p] = eventLog
              /\ cursor[p] = Len(eventLog)
              /\ readModel.rows[p] = eventLog

(* Commands are decided one after the other on everything stored before:   *)
(* no event was ever stored that the events before it do not allow (a      *)
(* second thread.created for a thread, an archive of an archived thread).  *)
HistoryIsLegal == LogLegal(eventLog)

(* The event stream misses nothing: what was published since startup is    *)
(* the stored events since startup without gap, repetition or reordering,  *)
(* and when the worker is idle none of them is left out.                   *)
PublishedWithoutGap ==
    /\ published = Positions(bootSequence, bootSequence + Len(published))
    /\ phase = "idle" => bootSequence + Len(published) = Len(eventLog)

(* A subscriber that reacts to an event and reads the engine's read model, *)
(* the projections or the event store finds the event there.               *)
PublishedIsVisible ==
    \A i \in 1..Len(published) :
        /\ published[i] <= readModel.snapshotSequence
        /\ published[i] <= Len(eventLog)
        /\ \A p \in Projector : published[i] <= cursor[p]

(* Subscribers miss nothing, and find what they are told of.               *)
PublicationIsSound == PublishedWithoutGap /\ PublishedIsVisible

(* The engine implements the journal of commands: its log and receipts     *)
(* only change as Accept and Reject allow.                                 *)
Journal == INSTANCE CommandJournal
             WITH journal <- eventLog, verdicts <- receipts
ImplementsJournal == Journal!Spec

(* The worker never dies or stalls: a queued command is taken and brought  *)
(* to its answer, unless the process crashes first.                        *)
EveryCommandIsAnswered ==
    \A c \in CommandId :
        (\E i \in 1..Len(queue) : queue[i] = c)
            ~> \/ phase = "answering" /\ current = c
               \/ phase = "booting"

(* Bootstrapping brings every projector up to the last stored event before *)
(* the engine serves: "Bootstrap projections by replaying persisted        *)
(* events. Resumes each projector from its stored projection-state cursor."*)
BootstrapCatchesUp ==
    phase # "booting" =>
        \A p \in Projector : Len(tables[p]) = Len(eventLog)

-----------------------------------------------------------------------------
(* The inductive invariants behind these properties (OrchestrationEngine-  *)
(* Proofs).  DurableInv needs nothing of the environment; the others hold  *)
(* when it is Reliable.                                                    *)

(* What the worker holds agrees with the receipts.                         *)
DurableInv ==
    /\ StoredExactlyOnce
    /\ AnswersAreDurable
    /\ phase = "transaction" => receipts[current].status = "none"
    /\ phase = "committed" => receipts[current].status = "accepted"
    /\ phase \in {"failed", "republishing"} =>
          /\ outcome \in {StorageError, InvariantError}
          /\ outcome = InvariantError => receipts[current].status = "none"
    /\ phase \in {"publishing", "answering"} =>
          /\ outcome.result = "accepted" =>
                receipts[current] = Accepted(outcome.sequence)
          /\ outcome.result = "previouslyRejected" =>
                receipts[current].status = "rejected"

(* No commit is both reported as a failure and followed by a failed read   *)
(* of the event store, and no start has to replay more than ReplayLimit    *)
(* events.                                                                 *)
Reliable ==
    /\ "lostCommit" \notin Faults \/ "reconcileRead" \notin Faults
    /\ Len(LegacyLog) <= ReplayLimit
    /\ 2 <= ReplayLimit

(* Every projector's tables are a prefix of the log as long as its cursor. *)
(* A start leaves none behind: each has at most ReplayLimit events to      *)
(* catch up, less those already replayed, and the ones before bootAt have. *)
ProjectorInv ==
    /\ \A p \in Projector :
          /\ cursor[p] <= Len(eventLog)
          /\ Len(eventLog) <= cursor[p] + ReplayLimit
          /\ tables[p] = SubSeq(eventLog, 1, cursor[p])
          /\ phase # "booting" => cursor[p] = Len(eventLog)
    /\ phase = "booting" =>
          /\ \A i \in 1..Len(ProjectorOrder) :
                i < bootAt => cursor[ProjectorOrder[i]] = Len(eventLog)
          /\ bootAt <= Len(ProjectorOrder) =>
                Len(eventLog) + bootCount
                    <= cursor[ProjectorOrder[bootAt]] + ReplayLimit

(* How many stored events the read model has folded in.                    *)
Folded ==
    IF phase = "committed" THEN Len(eventLog) - Len(EventsOf(current))
    ELSE IF phase = "failed" THEN startSequence
    ELSE Len(eventLog)

(* The read model is the fold of a prefix of the log: all of it, except    *)
(* between a commit and the replacement or reconciliation that follows.    *)
ReadModelInv ==
    phase # "booting" =>
        /\ Folded \in Nat /\ Folded <= Len(eventLog)
        /\ Len(eventLog) <= Folded + 2
        /\ readModel.snapshotSequence = Folded
        /\ \A p \in Projector :
              readModel.rows[p] = SubSeq(eventLog, 1, Folded)
        /\ phase = "transaction" => startSequence = Len(eventLog)
        /\ phase = "committed" =>
              /\ receipts[current].resultSequence = Len(eventLog)
              /\ \A p \in Projector :
                    readModel.rows[p] \o EventsOf(current) = eventLog
        /\ phase = "failed" /\ "reconcileRead" \in Faults =>
              startSequence = Len(eventLog)

(* Publishing has reached what the read model shows, but for the outbox.   *)
PublishInv ==
    /\ phase = "booting" => published = <<>> /\ bootSequence = 0
    /\ phase \notin {"publishing", "republishing"} => outbox = <<>>
    /\ LET done == bootSequence + Len(published) IN
          /\ published = Positions(bootSequence, done)
          /\ phase \in {"publishing", "republishing"} =>
                done <= Len(eventLog) /\ outbox = Positions(done, Len(eventLog))
          /\ phase \notin {"booting", "publishing", "republishing"} =>
                done = Folded

(* The decision the worker acts on is right for the whole log.             *)
DecisionInv ==
    /\ LogLegal(eventLog)
    /\ phase = "transaction" => Admissible(current, eventLog)
    /\ phase \in {"failed", "republishing"} /\ outcome = InvariantError =>
          ~ Admissible(current, eventLog)
============================================================================
