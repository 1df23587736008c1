--------------------- MODULE OrchestrationEngineProofs ---------------------
(***************************************************************************)
(* Theorems about OrchestrationEngine, for every set of commands, order of *)
(* projectors, legacy log and replay limit.                                *)
(***************************************************************************)
EXTENDS OrchestrationEngine, SequenceTheorems, TLAPS

-----------------------------------------------------------------------------
(* The operators the model is built from.                                  *)

(* A command yields one or two events, all of them its own.                *)
LEMMA EventsOfType ==
    ASSUME NEW c \in CommandId
    PROVE  /\ EventsOf(c) \in Seq(Event)
           /\ Len(EventsOf(c)) \in 1..2
           /\ \A k \in 1..Len(EventsOf(c)) :
                 /\ EventsOf(c)[k].commandId = c
                 /\ EventsOf(c)[k].thread = CommandOf[c].thread
                 /\ EventsOf(c)[k].type = EventTypes(CommandOf[c].type)[k]
<1> DEFINE type == CommandOf[c].type
           n == Len(EventTypes(type))
<1>1. type \in CommandType /\ CommandOf[c].thread \in Thread
  BY CommandsAssumption DEF Command
<1>2. /\ n \in 1..2
      /\ \A k \in 1..n : EventTypes(type)[k] \in EventType
  <2>1. CASE type = "thread.create"
    BY <2>1 DEF EventTypes, EventType
  <2>2. CASE type = "thread.archive"
    BY <2>2 DEF EventTypes, EventType
  <2>3. CASE type = "thread.unarchive"
    BY <2>3 DEF EventTypes, EventType
  <2>4. CASE type = "thread.delete"
    BY <2>4 DEF EventTypes, EventType
  <2>5. CASE type = "thread.turn.start"
    BY <2>5 DEF EventTypes, EventType
  <2> QED
    BY <1>1, <2>1, <2>2, <2>3, <2>4, <2>5 DEF CommandType
<1>3. \A k \in 1..n : [commandId |-> c, thread |-> CommandOf[c].thread,
                       type |-> EventTypes(type)[k]] \in Event
  BY <1>1, <1>2 DEF Event
<1>4. EventsOf(c) \in [1..n -> Event]
  BY <1>3 DEF EventsOf
<1>5. EventsOf(c) \in Seq(Event) /\ Len(EventsOf(c)) = n
  BY <1>2, <1>4, SeqDef, LenProperties
<1> QED
  BY <1>2, <1>5 DEF EventsOf

(* The positions first+1 .. last are last - first numbers, in order.       *)
LEMMA PositionsProperties ==
    ASSUME NEW first \in Nat, NEW last \in Nat, first <= last
    PROVE  /\ Positions(first, last) \in Seq(Nat)
           /\ Len(Positions(first, last)) = last - first
           /\ \A k \in 1..(last - first) : Positions(first, last)[k] = first + k
<1>1. Positions(first, last) \in [1..(last - first) -> Nat]
  BY DEF Positions
<1>2. last - first \in Nat
  OBVIOUS
<1>3. Positions(first, last) \in Seq(Nat)
  BY <1>1, <1>2, SeqDef
<1>4. Len(Positions(first, last)) = last - first
  BY <1>1, <1>2, <1>3, LenProperties
<1> QED
  BY <1>3, <1>4 DEF Positions

LEMMA PositionsType ==
    ASSUME NEW first \in Nat, NEW last \in Nat
    PROVE  Positions(first, last) \in Seq(Nat)
<1>1. CASE first <= last
  BY <1>1, PositionsProperties
<1>2. CASE ~ (first <= last)
  <2>1. 1..(last - first) = 1..0
    BY <1>2
  <2>2. Positions(first, last) \in [1..0 -> Nat]
    BY <2>1 DEF Positions
  <2> QED
    BY <2>2, SeqDef
<1> QED
  BY <1>1, <1>2

(* Publishing the head of the outbox extends what was published by one     *)
(* position and leaves the rest of the outbox.                             *)
LEMMA PositionsShift ==
    ASSUME NEW first \in Nat, NEW mid \in Nat, NEW last \in Nat,
           first <= mid, mid < last
    PROVE  /\ Append(Positions(first, mid), Head(Positions(mid, last)))
                = Positions(first, mid + 1)
           /\ Tail(Positions(mid, last)) = Positions(mid + 1, last)
<1> DEFINE a == Positions(first, mid)
           b == Positions(mid, last)
           a1 == Positions(first, mid + 1)
           b1 == Positions(mid + 1, last)
<1>1. /\ a \in Seq(Nat) /\ Len(a) = mid - first
      /\ \A k \in 1..(mid - first) : a[k] = first + k
  BY PositionsProperties
<1>2. /\ b \in Seq(Nat) /\ Len(b) = last - mid
      /\ \A k \in 1..(last - mid) : b[k] = mid + k
  BY PositionsProperties
<1>3. /\ a1 \in Seq(Nat) /\ Len(a1) = mid + 1 - first
      /\ \A k \in 1..(mid + 1 - first) : a1[k] = first + k
  BY PositionsProperties
<1>4. /\ b1 \in Seq(Nat) /\ Len(b1) = last - (mid + 1)
      /\ \A k \in 1..(last - (mid + 1)) : b1[k] = mid + 1 + k
  BY PositionsProperties
<1> HIDE DEF a, b, a1, b1
<1>5. b # <<>> /\ Head(b) = mid + 1
  BY <1>2
<1>6. Append(a, mid + 1) = a1
  <2>1. /\ Append(a, mid + 1) \in Seq(Nat)
        /\ Len(Append(a, mid + 1)) = Len(a) + 1
        /\ \A i \in 1..Len(a) : Append(a, mid + 1)[i] = a[i]
        /\ Append(a, mid + 1)[Len(a) + 1] = mid + 1
    BY <1>1, AppendProperties, mid + 1 \in Nat
  <2>2. \A i \in 1..(Len(a) + 1) : Append(a, mid + 1)[i] = a1[i]
    BY <2>1, <1>1, <1>3
  <2> QED
    BY SMTT(30), <2>1, <2>2, <1>1, <1>3, SeqEqual
<1>7. Tail(b) = b1
  <2>1. /\ Tail(b) \in Seq(Nat) /\ Len(Tail(b)) = Len(b) - 1
        /\ \A i \in 1..Len(Tail(b)) : Tail(b)[i] = b[i + 1]
    BY <1>2, <1>5, HeadTailProperties
  <2>2. \A i \in 1..Len(Tail(b)) : Tail(b)[i] = b1[i]
    BY <2>1, <1>2, <1>4
  <2>3. Len(Tail(b)) = Len(b1)
    BY <2>1, <1>2, <1>4
  <2> QED
    BY <2>1, <2>2, <2>3, <1>4, SeqEqual
<1> QED
  BY <1>5, <1>6, <1>7 DEF a, b, a1, b1

-----------------------------------------------------------------------------
(* Type correctness.                                                       *)

LEMMA ProjectorOrderType ==
    /\ Len(ProjectorOrder) \in Nat
    /\ \A i \in 1..Len(ProjectorOrder) : ProjectorOrder[i] \in Projector
BY EngineAssumption, LenProperties, ElementOfSeq

(* Reading the event store returns stored events.                          *)
LEMMA ReadFromSequenceType ==
    ASSUME eventLog \in Seq(Event), NEW seq \in Nat
    PROVE  /\ ReadTo(seq) \in Nat /\ ReadTo(seq) <= Len(eventLog)
           /\ ReadFromSequence(seq) \in Seq(Event)
<1>1. ReadTo(seq) \in Nat /\ ReadTo(seq) <= Len(eventLog)
  BY EngineAssumption, LenProperties DEF ReadTo
<1>2. \A i \in (seq + 1)..ReadTo(seq) : eventLog[i] \in Event
  BY <1>1, ElementOfSeq, LenProperties
<1> QED
  BY <1>1, <1>2, SubSeqProperties DEF ReadFromSequence

LEMMA InitType == Init => TypeOK
<1> SUFFICES ASSUME Init PROVE TypeOK
  OBVIOUS
<1>1. Len(LegacyLog) \in Nat /\ <<>> \in Seq(Event) /\ LegacyLog \in Seq(Event)
  BY CommandsAssumption, LenProperties, EmptySeq
<1>2. NoReceipt \in Receipt
  BY DEF NoReceipt, Receipt
<1>3. readModel \in [rows : [Projector -> Seq(Event)], snapshotSequence : Nat]
  BY <1>1 DEF Init, EmptyReadModel
<1>4. outcome \in [result : Result, sequence : Nat]
  BY DEF Init, NoOutcome, Result
<1>5. tables \in [Projector -> Seq(Event)] /\ cursor \in [Projector -> Nat]
  BY <1>1 DEF Init
<1>6. queue \in Seq(CommandId) /\ outbox \in Seq(Nat) /\ published \in Seq(Nat)
  BY EmptySeq DEF Init
<1> QED
  BY <1>1, <1>2, <1>3, <1>4, <1>5, <1>6, ProjectorOrderType, EngineAssumption
  DEF Init, TypeOK, Phase

(* The transaction writes well-typed events, cursors and receipts.         *)
LEMMA WriteTransactionType ==
    ASSUME TypeOK, current \in CommandId, WriteTransaction
    PROVE  /\ eventLog' \in Seq(Event)
           /\ receipts' \in [CommandId -> Receipt]
           /\ tables' \in [Projector -> Seq(Event)]
           /\ cursor' \in [Projector -> Nat]
           /\ Len(eventLog') = Len(eventLog) + Len(EventsOf(current))
<1>1. /\ EventsOf(current) \in Seq(Event) /\ Len(EventsOf(current)) \in 1..2
      /\ eventLog \in Seq(Event) /\ Len(eventLog) \in Nat
  BY EventsOfType, LenProperties DEF TypeOK
<1>2. eventLog' \in Seq(Event)
      /\ Len(eventLog') = Len(eventLog) + Len(EventsOf(current))
  BY <1>1, ConcatProperties DEF WriteTransaction
<1>3. \A p \in Projector : tables[p] \o EventsOf(current) \in Seq(Event)
  BY <1>1, ConcatProperties DEF TypeOK
<1>4. Accepted(Len(eventLog) + Len(EventsOf(current))) \in Receipt
  BY <1>1 DEF Accepted, Receipt
<1> QED
  BY <1>1, <1>2, <1>3, <1>4 DEF WriteTransaction, TypeOK

(* The worker holds a command except when it is idle or not running, and   *)
(* after a commit the receipt's sequence counts that command's events.     *)
WorkerOK ==
    /\ phase \notin {"booting", "idle"} => current \in CommandId
    /\ phase = "committed" =>
          Len(EventsOf(current)) <= receipts[current].resultSequence

LEMMA TakeType ==
    ASSUME TypeOK, NEW next \in {"transaction", "failed", "answering"},
           NEW result \in [result : Result, sequence : Nat],
           Take(next, result)
    PROVE  TypeOK' /\ WorkerOK'
<1>1. Head(queue) \in CommandId /\ Tail(queue) \in Seq(CommandId)
  BY HeadTailProperties DEF TypeOK, Take
<1>2. readModel.snapshotSequence \in Nat
  BY DEF TypeOK
<1> QED
  BY <1>1, <1>2 DEF TypeOK, WorkerOK, Take, Phase, database, boot

LEMMA OutcomeType ==
    /\ NoOutcome \in [result : Result, sequence : Nat]
    /\ InvariantError \in [result : Result, sequence : Nat]
    /\ PreviouslyRejectedError \in [result : Result, sequence : Nat]
    /\ StorageError \in [result : Result, sequence : Nat]
    /\ \A n \in Nat : Success(n) \in [result : Result, sequence : Nat]
BY DEF NoOutcome, InvariantError, PreviouslyRejectedError, StorageError,
       Success, Result

LEMMA StepType == TypeOK /\ WorkerOK /\ [Next]_vars => TypeOK' /\ WorkerOK'
<1> SUFFICES ASSUME TypeOK, WorkerOK, [Next]_vars
             PROVE  TypeOK' /\ WorkerOK'
  OBVIOUS
<1>1. CASE ReplayEvent
  <2> DEFINE p == ProjectorOrder[bootAt]
  <2>1. bootAt \in 1..Len(ProjectorOrder) /\ p \in Projector
    BY <1>1, ProjectorOrderType DEF ReplayEvent, TypeOK
  <2>2. /\ eventLog \in Seq(Event) /\ Len(eventLog) \in Nat
        /\ cursor[p] \in Nat /\ cursor[p] < Len(eventLog)
        /\ bootCount \in Nat /\ bootCount < ReplayLimit /\ ReplayLimit \in Nat
    <3>1. cursor[p] < Len(eventLog) /\ bootCount < ReplayLimit
      BY <1>1 DEF ReplayEvent
    <3>2. eventLog \in Seq(Event) /\ cursor[p] \in Nat /\ bootCount \in Nat
      BY <2>1, EngineAssumption DEF TypeOK
    <3> QED
      <4>1. Len(eventLog) \in Nat
        BY <3>2, LenProperties
      <4>2. ReplayLimit \in Nat
        BY EngineAssumption
      <4> QED
        BY <3>1, <3>2, <4>1, <4>2
  <2>3. eventLog[cursor[p] + 1] \in Event
    <3>1. cursor[p] + 1 \in 1..Len(eventLog)
      BY <2>2
    <3> QED
      BY <2>2, <3>1, ElementOfSeq
  <2>4. tables' \in [Projector -> Seq(Event)]
    BY <1>1, <2>1, <2>3, AppendProperties DEF ReplayEvent, TypeOK
  <2>5. cursor' \in [Projector -> Nat] /\ bootCount' \in 0..ReplayLimit
    <3>1. cursor' = [cursor EXCEPT ![p] = cursor[p] + 1]
          /\ bootCount' = bootCount + 1
      BY <1>1 DEF ReplayEvent
    <3>2. cursor[p] + 1 \in Nat /\ bootCount + 1 \in 0..ReplayLimit
      BY <2>2
    <3>3. cursor \in [Projector -> Nat]
      BY DEF TypeOK
    <3> HIDE DEF p
    <3> QED
      BY <3>1, <3>2, <3>3, <2>1
  <2> QED
    BY <1>1, <2>4, <2>5 DEF ReplayEvent, TypeOK, WorkerOK
<1>2. CASE NextProjector
  <2>1. bootAt' \in 1..(Len(ProjectorOrder) + 1)
    BY <1>2, ProjectorOrderType DEF NextProjector, TypeOK
  <2>2. bootCount' \in 0..ReplayLimit
    BY <1>2, EngineAssumption DEF NextProjector
  <2> QED
    BY <1>2, <2>1, <2>2 DEF NextProjector, TypeOK, WorkerOK, database
<1>3. CASE LoadReadModel
  <2>1. readModel' \in [rows : [Projector -> Seq(Event)], snapshotSequence : Nat]
    BY <1>3, EngineAssumption DEF LoadReadModel, TypeOK
  <2>2. bootSequence' \in Nat
    BY <1>3, LenProperties DEF LoadReadModel, TypeOK
  <2> QED
    BY <1>3, <2>1, <2>2 DEF LoadReadModel, TypeOK, WorkerOK, Phase, database, boot
<1>4. ASSUME NEW c \in CommandId, Dispatch(c) PROVE TypeOK' /\ WorkerOK'
  BY <1>4, AppendProperties DEF Dispatch, TypeOK, WorkerOK, database, boot
<1>5. CASE AnswerFromReceipt
  <2>1. Success(receipts[Head(queue)].resultSequence)
          \in [result : Result, sequence : Nat]
    BY <1>5, HeadTailProperties, OutcomeType DEF AnswerFromReceipt, TypeOK, Receipt
  <2> QED
    BY <1>5, <2>1, TakeType, OutcomeType DEF AnswerFromReceipt, Phase
<1>6. CASE RefuseFromReceipt
  BY <1>6, TakeType, OutcomeType DEF RefuseFromReceipt, Phase
<1>7. CASE ReceiptLookupFails
  BY <1>7, TakeType, OutcomeType DEF ReceiptLookupFails, Phase
<1>8. CASE RejectByInvariant
  BY <1>8, TakeType, OutcomeType DEF RejectByInvariant, Phase
<1>9. CASE BeginTransaction
  BY <1>9, TakeType, OutcomeType DEF BeginTransaction, Phase
<1>10. CASE Commit
  <2>1. current \in CommandId /\ WriteTransaction
    BY <1>10 DEF Commit, WorkerOK
  <2>2. TypeOK'
    BY <1>10, <2>1, WriteTransactionType DEF Commit, TypeOK, Phase, boot
  <2>3. Len(EventsOf(current)) <= receipts'[current].resultSequence
    <3>1. Len(eventLog) \in Nat /\ Len(EventsOf(current)) \in Nat
      BY <2>1, EventsOfType, LenProperties DEF TypeOK
    <3> QED
      BY <2>1, <3>1 DEF WriteTransaction, Accepted, TypeOK
  <2> QED
    BY <1>10, <2>1, <2>2, <2>3 DEF Commit, WorkerOK
<1>11. CASE TransactionRollsBack
  BY <1>11, OutcomeType DEF TransactionRollsBack, TypeOK, WorkerOK, Phase, database, boot
<1>12. CASE CommitReportedAsFailure
  <2>1. current \in CommandId /\ WriteTransaction
    BY <1>12 DEF CommitReportedAsFailure, WorkerOK
  <2> QED
    BY <1>12, <2>1, WriteTransactionType, OutcomeType
    DEF CommitReportedAsFailure, TypeOK, WorkerOK, Phase, boot
<1>13. CASE ReplaceReadModel
  <2> DEFINE last == receipts[current].resultSequence
             n == Len(EventsOf(current))
  <2>1. /\ current \in CommandId /\ last \in Nat /\ EventsOf(current) \in Seq(Event)
    BY <1>13, EventsOfType DEF ReplaceReadModel, WorkerOK, TypeOK, Receipt
  <2>2. readModel' \in [rows : [Projector -> Seq(Event)], snapshotSequence : Nat]
    <3>1. \A p \in Projector : readModel.rows[p] \o EventsOf(current) \in Seq(Event)
      BY <2>1, ConcatProperties DEF TypeOK
    <3> QED
      BY <1>13, <2>1, <3>1 DEF ReplaceReadModel
  <2>3. outbox' \in Seq(Nat)
    <3>1. n \in Nat /\ last - n \in Nat
      <4>1. n \in Nat
        BY <2>1, EventsOfType
      <4>2. n <= last
        <5>1. phase = "committed"
          BY <1>13 DEF ReplaceReadModel
        <5> QED
          BY <5>1 DEF WorkerOK
      <4> QED
        BY <4>1, <4>2, <2>1
    <3> QED
      BY <1>13, <2>1, <3>1, PositionsType DEF ReplaceReadModel
  <2> QED
    BY <1>13, <2>1, <2>2, <2>3, OutcomeType
    DEF ReplaceReadModel, TypeOK, WorkerOK, Phase, database, boot
<1>14. CASE Publish
  BY <1>14, HeadTailProperties, AppendProperties
  DEF Publish, TypeOK, WorkerOK, database, boot
<1>15. CASE FinishPublishing
  BY <1>15 DEF FinishPublishing, TypeOK, WorkerOK, Phase, database, boot
<1>16. CASE Reconcile
  <2>1. /\ ReadTo(startSequence) \in Nat
        /\ ReadFromSequence(startSequence) \in Seq(Event)
    BY ReadFromSequenceType DEF TypeOK
  <2>2. readModel' \in [rows : [Projector -> Seq(Event)], snapshotSequence : Nat]
    <3>1. \A p \in Projector :
             readModel.rows[p] \o ReadFromSequence(startSequence) \in Seq(Event)
      BY <2>1, ConcatProperties DEF TypeOK
    <3> QED
      BY <1>16, <2>1, <3>1 DEF Reconcile, TypeOK
  <2>3. outbox' \in Seq(Nat)
    BY <1>16, <2>1, PositionsType DEF Reconcile, TypeOK
  <2> QED
    BY <1>16, <2>2, <2>3 DEF Reconcile, TypeOK, WorkerOK, Phase, database, boot
<1>17. CASE ReconcileFails
  BY <1>17 DEF ReconcileFails, TypeOK, WorkerOK, Phase, database, boot
<1>18. CASE RecordRejection
  BY <1>18
  DEF RecordRejection, TypeOK, WorkerOK, Phase, boot, Rejected, Receipt
<1>19. CASE SkipRejection
  BY <1>19 DEF SkipRejection, TypeOK, WorkerOK, Phase, database, boot
<1>20. CASE Answer
  <2>1. answers' \subseteq [command : CommandId, result : Verdict, sequence : Nat]
    <3> DEFINE a == [command  |-> current, result |-> outcome.result,
                     sequence |-> outcome.sequence]
    <3>1. current \in CommandId /\ outcome.sequence \in Nat
      BY <1>20 DEF Answer, TypeOK, WorkerOK
    <3>2. outcome.result \in Verdict
            => a \in [command : CommandId, result : Verdict, sequence : Nat]
      BY <3>1
    <3>3. answers \subseteq [command : CommandId, result : Verdict, sequence : Nat]
      BY DEF TypeOK
    <3>4. answers' = IF outcome.result \in Verdict
                     THEN answers \cup {a} ELSE answers
      BY <1>20 DEF Answer
    <3> HIDE DEF a
    <3> QED
      BY <3>2, <3>3, <3>4
  <2> QED
    BY <1>20, <2>1, OutcomeType DEF Answer, TypeOK, WorkerOK, Phase, database, boot
<1>21. CASE Crash
  <2>1. EmptyReadModel \in [rows : [Projector -> Seq(Event)], snapshotSequence : Nat]
    BY EmptySeq DEF EmptyReadModel
  <2>2. <<>> \in Seq(CommandId) /\ <<>> \in Seq(Nat)
    BY EmptySeq
  <2>3. 1 \in 1..(Len(ProjectorOrder) + 1) /\ 0 \in 0..ReplayLimit
    BY ProjectorOrderType, EngineAssumption
  <2> QED
    BY <1>21, <2>1, <2>2, <2>3, OutcomeType
    DEF Crash, TypeOK, WorkerOK, Phase, database
<1>22. CASE UNCHANGED vars
  BY <1>22 DEF TypeOK, WorkerOK, vars, database, boot
<1> QED
  BY <1>1, <1>2, <1>3, <1>4, <1>5, <1>6, <1>7, <1>8, <1>9, <1>10, <1>11, <1>12,
     <1>13, <1>14, <1>15, <1>16, <1>17, <1>18, <1>19, <1>20, <1>21, <1>22
  DEF Next, Boot, Worker

(* Every variable keeps its type in every reachable state.                 *)
THEOREM TypeCorrect == Spec => []TypeOK
<1>1. Init => TypeOK /\ WorkerOK
  BY InitType DEF Init, WorkerOK
<1> QED
  BY <1>1, StepType, PTL DEF Spec

-----------------------------------------------------------------------------
(* All or nothing, once, and durable answers: whatever fails or crashes.   *)

(* Only the transaction and a recorded rejection change the log or a       *)
(* receipt.                                                                *)
LEMMA DatabaseStep ==
    ASSUME [Next]_vars
    PROVE  \/ UNCHANGED <<eventLog, receipts>>
           \/ phase = "transaction" /\ WriteTransaction
           \/ RecordRejection
BY DEF Next, Boot, Worker, vars, database, ReplayEvent, NextProjector,
       LoadReadModel, Dispatch, Take, AnswerFromReceipt, RefuseFromReceipt,
       ReceiptLookupFails, RejectByInvariant, BeginTransaction, Commit,
       TransactionRollsBack, CommitReportedAsFailure, ReplaceReadModel,
       Publish, FinishPublishing, Reconcile, ReconcileFails, SkipRejection,
       Answer, Crash

(* Appending a command's events, none of which the log holds, stores them  *)
(* once at its end and leaves every other command's where they were.       *)
LEMMA StoreEvents ==
    ASSUME TypeOK, current \in CommandId, StoredExactlyOnce,
           receipts[current].status = "none", WriteTransaction
    PROVE  StoredExactlyOnce'
<1> DEFINE ev == EventsOf(current)
           n == Len(ev)
           len == Len(eventLog)
<1>1. /\ ev \in Seq(Event) /\ n \in 1..2 /\ \A k \in 1..n : ev[k].commandId = current
      /\ eventLog \in Seq(Event) /\ len \in Nat
  BY EventsOfType, LenProperties DEF TypeOK
<1>2. /\ eventLog' = eventLog \o ev
      /\ receipts' = [receipts EXCEPT ![current] = Accepted(len + n)]
  BY DEF WriteTransaction
<1>3. /\ Len(eventLog') = len + n
      /\ \A i \in 1..(len + n) :
            eventLog'[i] = IF i <= len THEN eventLog[i] ELSE ev[i - len]
  BY <1>1, <1>2, ConcatProperties
<1>4. \A i \in 1..len : eventLog[i].commandId # current
  BY DEF StoredExactlyOnce
<1>5. receipts'[current] = Accepted(len + n)
  BY <1>2 DEF TypeOK
<1> HIDE DEF ev, len
<1> SUFFICES ASSUME NEW c \in CommandId
             PROVE  IF receipts'[c].status = "accepted"
                    THEN StoredOnceAt(eventLog', c, receipts'[c].resultSequence)
                    ELSE \A i \in 1..Len(eventLog') : eventLog'[i].commandId # c
  BY DEF StoredExactlyOnce
<1>6. CASE c = current
  <2>1. StoredOnceAt(eventLog', current, len + n)
    <3>1. \A k \in 1..n : eventLog'[len + n - n + k] = ev[k]
      BY <1>1, <1>3
    <3>2. \A i \in 1..(len + n) :
             eventLog'[i].commandId = current => len + n - n < i /\ i <= len + n
      BY <1>1, <1>3, <1>4
    <3> QED
      BY <1>1, <1>3, <3>1, <3>2 DEF StoredOnceAt, ev
  <2> QED
    BY <1>5, <1>6, <2>1 DEF Accepted
<1>7. CASE c # current
  <2>1. receipts'[c] = receipts[c]
    BY <1>2, <1>7 DEF TypeOK
  <2>2. \A i \in 1..(len + n) : eventLog'[i].commandId = c => i <= len
    BY <1>1, <1>3, <1>7
  <2>3. CASE receipts[c].status = "accepted"
    <3> DEFINE last == receipts[c].resultSequence
               m == Len(EventsOf(c))
    <3>1. /\ m \in 1..2 /\ last \in Nat /\ m <= last /\ last <= len
          /\ \A k \in 1..m : eventLog[last - m + k] = EventsOf(c)[k]
          /\ \A i \in 1..len :
                eventLog[i].commandId = c => last - m < i /\ i <= last
      BY <2>3, EventsOfType DEF StoredExactlyOnce, StoredOnceAt, TypeOK, Receipt, len
    <3> HIDE DEF last, m
    <3>2. \A k \in 1..m : eventLog'[last - m + k] = EventsOf(c)[k]
      BY <1>1, <1>3, <3>1
    <3>3. \A i \in 1..(len + n) :
             eventLog'[i].commandId = c => last - m < i /\ i <= last
      BY <1>1, <1>3, <2>2, <3>1
    <3>4. StoredOnceAt(eventLog', c, last)
      BY <1>1, <1>3, <3>1, <3>2, <3>3 DEF StoredOnceAt, m
    <3> QED
      BY <2>1, <2>3, <3>4 DEF last
  <2>4. CASE receipts[c].status # "accepted"
    <3>1. \A i \in 1..len : eventLog[i].commandId # c
      BY <2>4 DEF StoredExactlyOnce, len
    <3> QED
      BY <1>1, <1>3, <2>1, <2>2, <2>4, <3>1
  <2> QED
    BY <2>3, <2>4
<1> QED
  BY <1>6, <1>7

(* A receipt, once written, is never changed: only a command without one   *)
(* reaches the two actions that write receipts.                            *)
LEMMA ReceiptsAreFinal ==
    ASSUME TypeOK, WorkerOK, DurableInv, [Next]_vars
    PROVE  \A c \in CommandId :
              receipts[c].status # "none" => receipts'[c] = receipts[c]
<1>1. CASE UNCHANGED <<eventLog, receipts>>
  BY <1>1
<1>2. CASE phase = "transaction" /\ WriteTransaction
  <2>1. receipts[current].status = "none"
    BY <1>2 DEF DurableInv
  <2> QED
    BY <1>2, <2>1 DEF WriteTransaction, TypeOK
<1>3. CASE RecordRejection
  <2>1. receipts[current].status = "none"
    BY <1>3 DEF DurableInv, RecordRejection
  <2> QED
    BY <1>3, <2>1 DEF RecordRejection, TypeOK
<1> QED
  BY <1>1, <1>2, <1>3, DatabaseStep

LEMMA StoredExactlyOnceStep ==
    ASSUME TypeOK, WorkerOK, DurableInv, [Next]_vars
    PROVE  StoredExactlyOnce'
<1>1. CASE UNCHANGED <<eventLog, receipts>>
  BY <1>1 DEF DurableInv, StoredExactlyOnce
<1>2. CASE phase = "transaction" /\ WriteTransaction
  BY <1>2, StoreEvents DEF DurableInv, WorkerOK
<1>3. CASE RecordRejection
  <2>1. /\ current \in CommandId /\ receipts[current].status = "none"
        /\ eventLog' = eventLog
        /\ receipts' = [receipts EXCEPT ![current] =
                           Rejected(readModel.snapshotSequence)]
    BY <1>3 DEF DurableInv, RecordRejection, WorkerOK
  <2>2. receipts'[current].status = "rejected"
    BY <2>1 DEF TypeOK, Rejected
  <2>3. \A c \in CommandId \ {current} : receipts'[c] = receipts[c]
    BY <2>1 DEF TypeOK
  <2> QED
    BY <2>1, <2>2, <2>3 DEF DurableInv, StoredExactlyOnce
<1> QED
  BY <1>1, <1>2, <1>3, DatabaseStep

(* Answers only repeat what a receipt says, and receipts are final.        *)
LEMMA AnswersAreDurableStep ==
    ASSUME TypeOK, WorkerOK, DurableInv, [Next]_vars
    PROVE  AnswersAreDurable'
<1>1. \A a \in answers :
          /\ a.command \in CommandId
          /\ a.result = "accepted" => receipts'[a.command] = Accepted(a.sequence)
          /\ a.result = "previouslyRejected" =>
                receipts'[a.command].status = "rejected"
  <2> SUFFICES ASSUME NEW a \in answers
               PROVE  /\ a.command \in CommandId
                      /\ a.result = "accepted" =>
                            receipts'[a.command] = Accepted(a.sequence)
                      /\ a.result = "previouslyRejected" =>
                            receipts'[a.command].status = "rejected"
    OBVIOUS
  <2>1. a.command \in CommandId
    BY DEF TypeOK
  <2>2. receipts[a.command].status # "none"
          => receipts'[a.command] = receipts[a.command]
    BY <2>1, ReceiptsAreFinal
  <2>3. Accepted(a.sequence).status = "accepted"
    BY DEF Accepted
  <2> QED
    BY <2>1, <2>2, <2>3 DEF DurableInv, AnswersAreDurable
<1>2. CASE answers' = answers
  BY <1>1, <1>2 DEF AnswersAreDurable
<1>3. CASE Answer
  <2> DEFINE a == [command  |-> current, result |-> outcome.result,
                   sequence |-> outcome.sequence]
  <2>1. answers' \subseteq answers \cup {a} /\ receipts' = receipts
    BY <1>3 DEF Answer, database
  <2>2. /\ a.result = "accepted" => receipts[a.command] = Accepted(a.sequence)
        /\ a.result = "previouslyRejected" =>
              receipts[a.command].status = "rejected"
    BY <1>3 DEF DurableInv, Answer
  <2> HIDE DEF a
  <2> QED
    BY <1>1, <2>1, <2>2 DEF AnswersAreDurable
<1>4. Answer \/ answers' = answers
  BY DEF Next, Boot, Worker, vars, ReplayEvent, NextProjector, LoadReadModel,
         Dispatch, Take, AnswerFromReceipt, RefuseFromReceipt,
         ReceiptLookupFails, RejectByInvariant, BeginTransaction, Commit,
         TransactionRollsBack, CommitReportedAsFailure, ReplaceReadModel,
         Publish, FinishPublishing, Reconcile, ReconcileFails,
         RecordRejection, SkipRejection, Crash
<1> QED
  BY <1>2, <1>3, <1>4

LEMMA DurableInit == Init => DurableInv
<1> SUFFICES ASSUME Init PROVE DurableInv
  OBVIOUS
<1>1. StoredExactlyOnce
  BY CommandsAssumption DEF Init, StoredExactlyOnce, NoReceipt
<1>2. AnswersAreDurable
  BY DEF Init, AnswersAreDurable
<1> QED
  BY <1>1, <1>2 DEF Init, DurableInv

LEMMA DurableStep ==
    TypeOK /\ WorkerOK /\ DurableInv /\ [Next]_vars => DurableInv'
<1> SUFFICES ASSUME TypeOK, WorkerOK, DurableInv, [Next]_vars
             PROVE  DurableInv'
  OBVIOUS
<1> DEFINE Held ==
      /\ phase = "transaction" => receipts[current].status = "none"
      /\ phase = "committed" => receipts[current].status = "accepted"
      /\ phase \in {"failed", "republishing"} =>
            /\ outcome \in {StorageError, InvariantError}
            /\ outcome = InvariantError => receipts[current].status = "none"
      /\ phase \in {"publishing", "answering"} =>
            /\ outcome.result = "accepted" =>
                  receipts[current] = Accepted(outcome.sequence)
            /\ outcome.result = "previouslyRejected" =>
                  receipts[current].status = "rejected"
<1>1. SUFFICES Held'
  BY <1>1, StoredExactlyOnceStep, AnswersAreDurableStep DEF DurableInv
<1>2. CASE Boot
  BY <1>2 DEF Boot, ReplayEvent, NextProjector, LoadReadModel
<1>3. ASSUME NEW c \in CommandId, Dispatch(c) PROVE Held'
  BY <1>3 DEF Dispatch, DurableInv, database
<1>4. CASE AnswerFromReceipt
  <2>1. Head(queue) \in CommandId
    BY <1>4, HeadTailProperties DEF AnswerFromReceipt, TypeOK
  <2> QED
    BY <1>4, <2>1 DEF AnswerFromReceipt, Take, database, Success, Accepted,
                      TypeOK, Receipt
<1>5. CASE RefuseFromReceipt
  BY <1>5 DEF RefuseFromReceipt, Take, database, PreviouslyRejectedError
<1>6. CASE ReceiptLookupFails
  BY <1>6 DEF ReceiptLookupFails, Take, StorageError, InvariantError
<1>7. CASE RejectByInvariant
  BY <1>7 DEF RejectByInvariant, Take, database
<1>8. CASE BeginTransaction
  BY <1>8 DEF BeginTransaction, Take, database
<1>9. CASE Commit
  BY <1>9 DEF Commit, WriteTransaction, TypeOK, WorkerOK, Accepted
<1>10. CASE TransactionRollsBack
  BY <1>10 DEF TransactionRollsBack, StorageError, InvariantError
<1>11. CASE CommitReportedAsFailure
  BY <1>11 DEF CommitReportedAsFailure, StorageError, InvariantError
<1>12. CASE ReplaceReadModel
  <2>1. /\ current \in CommandId /\ receipts[current].status = "accepted"
        /\ receipts[current] \in Receipt
    BY <1>12 DEF ReplaceReadModel, DurableInv, WorkerOK, TypeOK
  <2> QED
    BY <1>12, <2>1 DEF ReplaceReadModel, database, Success, Accepted, Receipt
<1>13. CASE Publish
  BY <1>13 DEF Publish, DurableInv, database
<1>14. CASE FinishPublishing
  BY <1>14 DEF FinishPublishing, DurableInv, database
<1>15. CASE Reconcile
  BY <1>15 DEF Reconcile, DurableInv, database
<1>16. CASE ReconcileFails
  BY <1>16 DEF ReconcileFails, DurableInv, database
<1>17. CASE RecordRejection
  BY <1>17 DEF RecordRejection, InvariantError
<1>18. CASE SkipRejection
  BY <1>18 DEF SkipRejection, DurableInv, StorageError, InvariantError
<1>19. CASE Answer
  BY <1>19 DEF Answer
<1>20. CASE Crash
  BY <1>20 DEF Crash
<1>21. CASE UNCHANGED vars
  BY <1>21 DEF vars, database, DurableInv
<1> QED
  BY <1>2, <1>3, <1>4, <1>5, <1>6, <1>7, <1>8, <1>9, <1>10, <1>11, <1>12,
     <1>13, <1>14, <1>15, <1>16, <1>17, <1>18, <1>19, <1>20, <1>21
  DEF Next, Worker

(* Whatever fails or crashes, a command is stored all or not at all, and   *)
(* at most once (processEnvelope's transaction and receipt look-up).       *)
THEOREM ExactlyOnce == Spec => []StoredExactlyOnce
<1>1. Init => TypeOK /\ WorkerOK /\ DurableInv
  BY InitType, DurableInit DEF Init, WorkerOK
<1>2. TypeOK /\ WorkerOK /\ DurableInv /\ [Next]_vars
        => (TypeOK /\ WorkerOK /\ DurableInv)'
  BY StepType, DurableStep
<1>3. DurableInv => StoredExactlyOnce
  BY DEF DurableInv
<1> QED
  BY <1>1, <1>2, <1>3, PTL DEF Spec

(* Whatever fails or crashes, clients are never told two different things  *)
(* about a command.                                                        *)
THEOREM DurableAnswers == Spec => []AnswersAreDurable
<1>1. Init => TypeOK /\ WorkerOK /\ DurableInv
  BY InitType, DurableInit DEF Init, WorkerOK
<1>2. TypeOK /\ WorkerOK /\ DurableInv /\ [Next]_vars
        => (TypeOK /\ WorkerOK /\ DurableInv)'
  BY StepType, DurableStep
<1>3. DurableInv => AnswersAreDurable
  BY DEF DurableInv
<1> QED
  BY <1>1, <1>2, <1>3, PTL DEF Spec

-----------------------------------------------------------------------------
(* Prefixes of the log.                                                    *)

LEMMA PrefixType ==
    ASSUME NEW s \in Seq(Event), NEW k \in Nat, k <= Len(s)
    PROVE  /\ SubSeq(s, 1, k) \in Seq(Event)
           /\ Len(SubSeq(s, 1, k)) = k
           /\ \A i \in 1..k : SubSeq(s, 1, k)[i] = s[i]
<1>1. \A i \in 1..k : s[i] \in Event
  BY ElementOfSeq, LenProperties
<1> QED
  BY <1>1, SubSeqProperties

(* The log extended by a command's events begins with the log.             *)
LEMMA PrefixOfConcat ==
    ASSUME NEW s \in Seq(Event), NEW t \in Seq(Event)
    PROVE  /\ Len(s \o t) = Len(s) + Len(t)
           /\ SubSeq(s \o t, 1, Len(s)) = s
<1>1. /\ s \o t \in Seq(Event) /\ Len(s \o t) = Len(s) + Len(t)
      /\ \A i \in 1..Len(s) : (s \o t)[i] = s[i]
      /\ Len(s) \in Nat /\ Len(t) \in Nat
  BY ConcatProperties, LenProperties
<1>2. /\ SubSeq(s \o t, 1, Len(s)) \in Seq(Event)
      /\ Len(SubSeq(s \o t, 1, Len(s))) = Len(s)
      /\ \A i \in 1..Len(s) : SubSeq(s \o t, 1, Len(s))[i] = (s \o t)[i]
  BY <1>1, PrefixType
<1> QED
  BY <1>1, <1>2, SeqEqual

(* A prefix and the next stored event are the prefix longer by one.        *)
LEMMA AppendToPrefix ==
    ASSUME NEW s \in Seq(Event), NEW k \in Nat, k < Len(s)
    PROVE  Append(SubSeq(s, 1, k), s[k + 1]) = SubSeq(s, 1, k + 1)
<1> DEFINE a == SubSeq(s, 1, k)
           b == SubSeq(s, 1, k + 1)
<1>1. Len(s) \in Nat /\ s[k + 1] \in Event
  <2>1. Len(s) \in Nat
    BY LenProperties
  <2>2. k + 1 \in 1..Len(s)
    BY <2>1
  <2> QED
    BY <2>1, <2>2, ElementOfSeq
<1>2. a \in Seq(Event) /\ Len(a) = k /\ \A i \in 1..k : a[i] = s[i]
  BY PrefixType
<1>3. b \in Seq(Event) /\ Len(b) = k + 1 /\ \A i \in 1..(k + 1) : b[i] = s[i]
  BY PrefixType, <1>1
<1> HIDE DEF a, b
<1>4. /\ Append(a, s[k + 1]) \in Seq(Event)
      /\ Len(Append(a, s[k + 1])) = k + 1
      /\ \A i \in 1..k : Append(a, s[k + 1])[i] = a[i]
      /\ Append(a, s[k + 1])[k + 1] = s[k + 1]
  BY <1>1, <1>2, AppendProperties
<1>5. \A i \in 1..(k + 1) : Append(a, s[k + 1])[i] = b[i]
  BY <1>2, <1>3, <1>4
<1>6. Append(a, s[k + 1]) = b
  <2> DEFINE c == Append(a, s[k + 1])
  <2>1. c \in Seq(Event) /\ Len(c) = Len(b)
    BY <1>3, <1>4
  <2>2. \A i \in 1..Len(c) : c[i] = b[i]
    BY <1>3, <1>5, <2>1
  <2> HIDE DEF c
  <2>3. c = b
    BY <1>3, <2>1, <2>2, SeqEqual
  <2> QED
    BY <2>3 DEF c
<1> QED
  BY <1>6 DEF a, b

(* A prefix and all the events after it are the log.                       *)
LEMMA PrefixAndRest ==
    ASSUME NEW s \in Seq(Event), NEW k \in Nat, k <= Len(s)
    PROVE  SubSeq(s, 1, k) \o SubSeq(s, k + 1, Len(s)) = s
<1> DEFINE a == SubSeq(s, 1, k)
           b == SubSeq(s, k + 1, Len(s))
<1>1. Len(s) \in Nat /\ \A i \in 1..Len(s) : s[i] \in Event
  BY LenProperties, ElementOfSeq
<1>2. a \in Seq(Event) /\ Len(a) = k /\ \A i \in 1..k : a[i] = s[i]
  BY PrefixType
<1>3. /\ b \in Seq(Event) /\ Len(b) = Len(s) - k
      /\ \A i \in 1..(Len(s) - k) : b[i] = s[k + i]
  <2>1. \A i \in (k + 1)..Len(s) : s[i] \in Event
    BY <1>1
  <2>2. /\ b \in Seq(Event)
        /\ Len(b) = IF k + 1 <= Len(s) THEN Len(s) - (k + 1) + 1 ELSE 0
        /\ \A i \in 1..(Len(s) - (k + 1) + 1) : b[i] = s[k + 1 + i - 1]
    BY <1>1, <2>1, SubSeqProperties
  <2> HIDE DEF b
  <2> QED
    BY <1>1, <2>2
<1> HIDE DEF a, b
<1>4. /\ a \o b \in Seq(Event) /\ Len(a \o b) = Len(a) + Len(b)
      /\ \A i \in 1..(Len(a) + Len(b)) :
            (a \o b)[i] = IF i <= Len(a) THEN a[i] ELSE b[i - Len(a)]
  BY <1>2, <1>3, ConcatProperties
<1>5. \A i \in 1..Len(s) : (a \o b)[i] = s[i]
  BY <1>1, <1>2, <1>3, <1>4
<1>6. a \o b = s
  <2> DEFINE c == a \o b
  <2>1. c \in Seq(Event) /\ Len(c) = Len(s)
    BY <1>1, <1>2, <1>3, <1>4
  <2>2. \A i \in 1..Len(c) : c[i] = s[i]
    BY <1>5, <2>1
  <2> HIDE DEF c
  <2>3. c = s
    BY <2>1, <2>2, SeqEqual
  <2> QED
    BY <2>3 DEF c
<1> QED
  BY <1>6 DEF a, b

-----------------------------------------------------------------------------
(* The projections: every start catches up, every transaction keeps up.    *)

LEMMA ProjectorInit == ASSUME Reliable PROVE Init => ProjectorInv
<1> SUFFICES ASSUME Init PROVE ProjectorInv
  OBVIOUS
<1>1. /\ LegacyLog \in Seq(Event) /\ Len(LegacyLog) \in Nat
      /\ SubSeq(LegacyLog, 1, Len(LegacyLog)) = LegacyLog
      /\ SubSeq(LegacyLog, 1, 0) = <<>>
  BY CommandsAssumption, LenProperties, SubSeqFull, SubSeqEmpty
<1>2. ReplayLimit \in Nat /\ Len(LegacyLog) <= ReplayLimit
  BY EngineAssumption DEF Reliable
<1>3. \A p \in Projector :
         /\ cursor[p] \in {0, Len(LegacyLog)}
         /\ tables[p] = SubSeq(LegacyLog, 1, cursor[p])
  BY <1>1 DEF Init
<1>4. Len(ProjectorOrder) \in Nat /\
      (1 <= Len(ProjectorOrder) => ProjectorOrder[1] \in Projector)
  BY ProjectorOrderType
<1>5. /\ eventLog = LegacyLog /\ phase = "booting" /\ bootAt = 1
      /\ bootCount = 0
  BY DEF Init
<1>6. \A p \in Projector : /\ cursor[p] <= Len(eventLog)
                          /\ Len(eventLog) <= cursor[p] + ReplayLimit
  BY <1>1, <1>2, <1>3, <1>5
<1>7. /\ \A i \in 1..Len(ProjectorOrder) : ~ (i < bootAt)
      /\ bootAt <= Len(ProjectorOrder) =>
            Len(eventLog) + bootCount <= cursor[ProjectorOrder[bootAt]] + ReplayLimit
  BY <1>1, <1>4, <1>5, <1>6
<1> QED
  BY <1>3, <1>5, <1>6, <1>7 DEF ProjectorInv

(* A transaction brings every projector to the new end of the log.         *)
LEMMA ProjectorWrite ==
    ASSUME TypeOK, ProjectorInv, phase = "transaction", current \in CommandId,
           WriteTransaction
    PROVE  \A p \in Projector :
              /\ cursor'[p] = Len(eventLog')
              /\ tables'[p] = eventLog'
<1>1. /\ EventsOf(current) \in Seq(Event) /\ eventLog \in Seq(Event)
      /\ Len(eventLog) \in Nat
  BY EventsOfType, LenProperties DEF TypeOK
<1>2. Len(eventLog') = Len(eventLog) + Len(EventsOf(current))
  BY <1>1, ConcatProperties DEF WriteTransaction
<1>3. \A p \in Projector : tables[p] = eventLog
  BY <1>1, SubSeqFull DEF ProjectorInv
<1> QED
  BY <1>2, <1>3 DEF WriteTransaction

LEMMA ProjectorStep ==
    TypeOK /\ WorkerOK /\ ProjectorInv /\ [Next]_vars => ProjectorInv'
<1> SUFFICES ASSUME TypeOK, WorkerOK, ProjectorInv, [Next]_vars
             PROVE  ProjectorInv'
  OBVIOUS
<1> DEFINE len == Len(eventLog)
<1>1. /\ eventLog \in Seq(Event) /\ len \in Nat /\ ReplayLimit \in Nat
      /\ \A p \in Projector : cursor[p] \in Nat
      /\ bootCount \in Nat /\ bootAt \in Nat
  BY LenProperties, EngineAssumption DEF TypeOK
<1>2. CASE ReplayEvent
  <2> DEFINE q == ProjectorOrder[bootAt]
  <2>1. /\ phase = "booting" /\ bootAt \in 1..Len(ProjectorOrder)
        /\ q \in Projector /\ cursor[q] < len
    BY <1>2, ProjectorOrderType DEF ReplayEvent, TypeOK
  <2>2. /\ phase' = "booting" /\ bootAt' = bootAt
        /\ bootCount' = bootCount + 1 /\ eventLog' = eventLog
        /\ cursor' = [cursor EXCEPT ![q] = cursor[q] + 1]
        /\ tables' = [tables EXCEPT ![q] = Append(tables[q], eventLog[cursor[q] + 1])]
    BY <1>2, <2>1 DEF ReplayEvent
  <2> HIDE DEF q
  <2>3. tables'[q] = SubSeq(eventLog, 1, cursor[q] + 1) /\ cursor'[q] = cursor[q] + 1
    BY <1>1, <2>1, <2>2, AppendToPrefix DEF ProjectorInv, TypeOK
  <2>4. \A p \in Projector \ {q} : tables'[p] = tables[p] /\ cursor'[p] = cursor[p]
    BY <2>2 DEF TypeOK
  <2>5. \A p \in Projector :
           /\ cursor'[p] <= Len(eventLog') /\ Len(eventLog') <= cursor'[p] + ReplayLimit
           /\ tables'[p] = SubSeq(eventLog', 1, cursor'[p])
    <3> SUFFICES ASSUME NEW p \in Projector
                 PROVE  /\ cursor'[p] <= len /\ len <= cursor'[p] + ReplayLimit
                        /\ tables'[p] = SubSeq(eventLog, 1, cursor'[p])
      BY <2>2
    <3>1. /\ cursor[p] <= len /\ len <= cursor[p] + ReplayLimit
          /\ tables[p] = SubSeq(eventLog, 1, cursor[p]) /\ cursor[p] \in Nat
      BY <1>1 DEF ProjectorInv
    <3>2. CASE p = q
      BY <1>1, <2>1, <2>3, <3>1, <3>2
    <3>3. CASE p # q
      <4>1. tables'[p] = tables[p] /\ cursor'[p] = cursor[p]
        BY <2>4, <3>3
      <4> QED
        BY <3>1, <4>1
    <3> QED
      BY <3>2, <3>3
  <2>6. \A i \in 1..Len(ProjectorOrder) :
           i < bootAt' => cursor'[ProjectorOrder[i]] = Len(eventLog')
    BY <1>1, <2>1, <2>2, <2>4, ProjectorOrderType DEF ProjectorInv
  <2>7. Len(eventLog') + bootCount' <= cursor'[q] + ReplayLimit
    BY <1>1, <2>1, <2>2, <2>3 DEF ProjectorInv, q
  <2> QED
    BY <2>2, <2>5, <2>6, <2>7 DEF ProjectorInv, q
<1>3. CASE NextProjector
  <2> DEFINE q == ProjectorOrder[bootAt]
  <2>1. /\ phase = "booting" /\ bootAt \in 1..Len(ProjectorOrder)
        /\ q \in Projector
        /\ cursor[q] = len \/ bootCount = ReplayLimit
        /\ phase' = "booting" /\ bootAt' = bootAt + 1 /\ bootCount' = 0
        /\ UNCHANGED <<eventLog, tables, cursor>>
    BY <1>3, ProjectorOrderType DEF NextProjector, TypeOK, database
  <2>2. cursor[q] = len
    BY <1>1, <2>1 DEF ProjectorInv
  <2>3. \A i \in 1..Len(ProjectorOrder) :
           i < bootAt' => cursor'[ProjectorOrder[i]] = Len(eventLog')
    BY <1>1, <2>1, <2>2, ProjectorOrderType DEF ProjectorInv
  <2>4. bootAt' <= Len(ProjectorOrder) =>
           Len(eventLog') + bootCount' <= cursor'[ProjectorOrder[bootAt']] + ReplayLimit
    BY <1>1, <2>1, ProjectorOrderType DEF ProjectorInv
  <2> HIDE DEF q
  <2> QED
    BY <2>1, <2>3, <2>4 DEF ProjectorInv
<1>4. CASE LoadReadModel
  <2>1. \A p \in Projector : cursor[p] = len
    <3>1. phase = "booting" /\ bootAt > Len(ProjectorOrder)
      BY <1>4 DEF LoadReadModel
    <3>2. \A i \in 1..Len(ProjectorOrder) : i < bootAt
      BY <1>1, <3>1, ProjectorOrderType
    <3>3. \A i \in 1..Len(ProjectorOrder) : cursor[ProjectorOrder[i]] = len
      BY <3>1, <3>2 DEF ProjectorInv
    <3> QED
      BY <3>3 DEF Projector
  <2> QED
    BY <1>4, <2>1 DEF LoadReadModel, ProjectorInv, database
<1>5. CASE Commit \/ CommitReportedAsFailure
  <2>1. /\ phase = "transaction" /\ current \in CommandId /\ WriteTransaction
        /\ phase' # "booting"
    BY <1>5 DEF Commit, CommitReportedAsFailure, WorkerOK
  <2>2. eventLog' \in Seq(Event) /\ Len(eventLog') \in Nat
    BY <2>1, WriteTransactionType, LenProperties
  <2>3. \A p \in Projector : cursor'[p] = Len(eventLog') /\ tables'[p] = eventLog'
    BY <2>1, ProjectorWrite
  <2> QED
    BY <1>1, <2>1, <2>2, <2>3, SubSeqFull DEF ProjectorInv
<1>6. CASE Crash
  <2>1. /\ phase' = "booting" /\ bootAt' = 1 /\ bootCount' = 0
        /\ UNCHANGED <<eventLog, tables, cursor>>
    BY <1>6 DEF Crash, database
  <2> QED
    BY <1>1, <2>1, ProjectorOrderType DEF ProjectorInv
<1>7. CASE /\ UNCHANGED <<eventLog, tables, cursor, boot>>
           /\ phase' = "booting" <=> phase = "booting"
  BY <1>7 DEF ProjectorInv, boot
<1> QED
  <2>1. ASSUME NEW c \in CommandId, Dispatch(c)
        PROVE  /\ UNCHANGED <<eventLog, tables, cursor, boot>>
               /\ phase' = "booting" <=> phase = "booting"
    BY <2>1 DEF Dispatch, database
  <2>2. CASE \/ AnswerFromReceipt \/ RefuseFromReceipt \/ ReceiptLookupFails
             \/ RejectByInvariant \/ BeginTransaction
    BY <1>7, <2>2 DEF AnswerFromReceipt, RefuseFromReceipt, ReceiptLookupFails,
       RejectByInvariant, BeginTransaction, Take, database
  <2>3. CASE \/ TransactionRollsBack \/ ReplaceReadModel \/ Publish
             \/ FinishPublishing \/ Reconcile \/ ReconcileFails
             \/ RecordRejection \/ SkipRejection \/ Answer
    BY <1>7, <2>3 DEF TransactionRollsBack, ReplaceReadModel, Publish,
       FinishPublishing, Reconcile, ReconcileFails, RecordRejection,
       SkipRejection, Answer, database
  <2>4. CASE UNCHANGED vars
    BY <1>7, <2>4 DEF vars, database
  <2> QED
    BY <1>2, <1>3, <1>4, <1>5, <1>6, <1>7, <2>1, <2>2, <2>3, <2>4
    DEF Next, Boot, Worker

-----------------------------------------------------------------------------
(* The read model: replaced after a commit, reconciled after a failure.    *)

(* Reading the event store while reconciling returns all that is missing.  *)
LEMMA ReadToEnd ==
    ASSUME NEW seq \in Nat, seq <= Len(eventLog), Len(eventLog) <= seq + 2,
           eventLog \in Seq(Event), Reliable
    PROVE  ReadTo(seq) = Len(eventLog)
<1>1. Len(eventLog) \in Nat /\ ReplayLimit \in Nat /\ 2 <= ReplayLimit
  BY LenProperties, EngineAssumption DEF Reliable
<1> QED
  BY <1>1 DEF ReadTo

LEMMA ReadModelStep ==
    ASSUME Reliable
    PROVE  TypeOK /\ WorkerOK /\ DurableInv /\ ProjectorInv /\ ProjectorInv'
               /\ ReadModelInv /\ [Next]_vars => ReadModelInv'
<1> SUFFICES ASSUME TypeOK, WorkerOK, DurableInv, ProjectorInv, ProjectorInv',
                    ReadModelInv, [Next]_vars
             PROVE  ReadModelInv'
  OBVIOUS
<1> DEFINE len == Len(eventLog)
<1>1. /\ eventLog \in Seq(Event) /\ len \in Nat /\ startSequence \in Nat
      /\ SubSeq(eventLog, 1, len) = eventLog
      /\ readModel \in [rows : [Projector -> Seq(Event)], snapshotSequence : Nat]
  BY LenProperties, SubSeqFull DEF TypeOK
<1>2. ASSUME phase \in {"idle", "transaction", "publishing", "republishing",
                        "answering"}
      PROVE  /\ readModel.snapshotSequence = len
             /\ \A p \in Projector : readModel.rows[p] = eventLog
             /\ phase = "transaction" => startSequence = len
  BY <1>1, <1>2 DEF ReadModelInv, Folded
<1>3. ASSUME phase' \in {"idle", "transaction", "publishing", "republishing",
                         "answering"},
             eventLog' = eventLog,
             readModel'.snapshotSequence = len,
             \A p \in Projector : readModel'.rows[p] = eventLog,
             phase' = "transaction" => startSequence' = len
      PROVE  ReadModelInv'
  <2>1. Folded' = len /\ Len(eventLog') = len
    BY <1>3 DEF Folded
  <2>2. SubSeq(eventLog', 1, Folded') = eventLog
    BY <1>1, <1>3, <2>1
  <2> HIDE DEF len
  <2>3. /\ Folded' \in Nat /\ Folded' <= Len(eventLog')
        /\ Len(eventLog') <= Folded' + 2
    BY <1>1, <2>1
  <2> QED
    BY <1>3, <2>1, <2>2, <2>3 DEF ReadModelInv
<1>4. ASSUME phase' = "failed", eventLog' = eventLog, readModel' = readModel,
             startSequence' = len, readModel.snapshotSequence = len,
             \A p \in Projector : readModel.rows[p] = eventLog
      PROVE  ReadModelInv'
  <2>1. Folded' = len /\ Len(eventLog') = len
    BY <1>4 DEF Folded
  <2>2. SubSeq(eventLog', 1, Folded') = eventLog
    BY <1>1, <1>4, <2>1
  <2> HIDE DEF len
  <2>3. /\ Folded' \in Nat /\ Folded' <= Len(eventLog')
        /\ Len(eventLog') <= Folded' + 2
    BY <1>1, <2>1
  <2> QED
    BY <1>4, <2>1, <2>2, <2>3 DEF ReadModelInv
<1>5. CASE ReplayEvent \/ NextProjector \/ Crash
  BY <1>5 DEF ReplayEvent, NextProjector, Crash, ReadModelInv
<1>6. CASE LoadReadModel
  <2>1. /\ phase' = "idle" /\ UNCHANGED database
        /\ readModel'.rows = tables
        /\ \E p \in Projector : readModel'.snapshotSequence = cursor[p]
    BY <1>6, EngineAssumption DEF LoadReadModel
  <2>2. \A p \in Projector : cursor[p] = len /\ tables[p] = eventLog
    BY <1>1, <2>1 DEF ProjectorInv, database
  <2> QED
    BY <1>3, <2>1, <2>2 DEF database
<1>7. ASSUME NEW next \in {"transaction", "failed", "answering"},
             NEW result, Take(next, result)
      PROVE  ReadModelInv'
  <2>1. /\ phase = "idle" /\ phase' = next
        /\ eventLog' = eventLog /\ readModel' = readModel
        /\ startSequence' = readModel.snapshotSequence
    BY <1>7 DEF Take, database
  <2> QED
    BY <1>2, <1>3, <1>4, <2>1
<1>8. CASE \/ AnswerFromReceipt \/ RefuseFromReceipt \/ ReceiptLookupFails
           \/ RejectByInvariant \/ BeginTransaction
  BY <1>7, <1>8 DEF AnswerFromReceipt, RefuseFromReceipt, ReceiptLookupFails,
                    RejectByInvariant, BeginTransaction
<1>9. CASE Commit \/ CommitReportedAsFailure
  <2> DEFINE events == EventsOf(current)
  <2>1. /\ phase = "transaction" /\ current \in CommandId /\ WriteTransaction
        /\ readModel' = readModel /\ current' = current
        /\ startSequence' = startSequence
    BY <1>9 DEF Commit, CommitReportedAsFailure, WorkerOK
  <2>2. events \in Seq(Event) /\ Len(events) \in 1..2
    BY <2>1, EventsOfType
  <2>3. /\ eventLog' = eventLog \o events /\ Len(eventLog') = len + Len(events)
        /\ SubSeq(eventLog', 1, len) = eventLog
        /\ receipts' = [receipts EXCEPT ![current] = Accepted(len + Len(events))]
    BY <1>1, <2>1, <2>2, PrefixOfConcat DEF WriteTransaction
  <2>4. receipts'[current].resultSequence = Len(eventLog')
    BY <2>1, <2>3 DEF TypeOK, Accepted
  <2>5. /\ readModel.snapshotSequence = len /\ startSequence = len
        /\ \A p \in Projector : readModel.rows[p] = eventLog
    BY <1>2, <2>1
  <2>6. CASE Commit
    <3>1. phase' = "committed"
      BY <2>6 DEF Commit
    <3>2. Folded' = len
      BY <1>1, <2>1, <2>2, <2>3, <3>1 DEF Folded
    <3> HIDE DEF events, len
    <3>3. /\ Folded' <= Len(eventLog') /\ Len(eventLog') <= Folded' + 2
          /\ Folded' \in Nat
      <4>1. len \in Nat /\ \E n \in 1..2 : Len(eventLog') = len + n
        BY <1>1, <2>2, <2>3
      <4> QED
        BY <3>2, <4>1
    <3>4. \A p \in Projector : /\ readModel'.rows[p] = SubSeq(eventLog', 1, Folded')
                              /\ readModel'.rows[p] \o events = eventLog'
      BY <2>1, <2>3, <2>5, <3>2
    <3> QED
      BY <2>1, <2>4, <2>5, <3>1, <3>2, <3>3, <3>4 DEF ReadModelInv, events
  <2>7. CASE CommitReportedAsFailure
    <3>1. phase' = "failed" /\ "reconcileRead" \notin Faults
      BY <2>7 DEF CommitReportedAsFailure, Reliable
    <3>2. Folded' = len
      BY <2>1, <2>5, <3>1 DEF Folded
    <3> HIDE DEF events, len
    <3>3. /\ Folded' <= Len(eventLog') /\ Len(eventLog') <= Folded' + 2
          /\ Folded' \in Nat
      <4>1. len \in Nat /\ \E n \in 1..2 : Len(eventLog') = len + n
        BY <1>1, <2>2, <2>3
      <4> QED
        BY <3>2, <4>1
    <3>4. \A p \in Projector : readModel'.rows[p] = SubSeq(eventLog', 1, Folded')
      BY <2>1, <2>3, <2>5, <3>2
    <3> QED
      BY <2>1, <2>5, <3>1, <3>2, <3>3, <3>4 DEF ReadModelInv
  <2> QED
    BY <1>9, <2>6, <2>7
<1>10. CASE TransactionRollsBack
  <2>1. /\ phase = "transaction" /\ phase' = "failed"
        /\ UNCHANGED <<eventLog, readModel, startSequence>>
    BY <1>10 DEF TransactionRollsBack, database
  <2> QED
    BY <1>2, <1>4, <2>1
<1>11. CASE ReplaceReadModel
  <2>1. /\ phase = "committed" /\ phase' = "publishing" /\ eventLog' = eventLog
        /\ readModel' = [rows |-> [p \in Projector |->
                                      readModel.rows[p] \o EventsOf(current)],
                         snapshotSequence |-> receipts[current].resultSequence]
    BY <1>11 DEF ReplaceReadModel, database
  <2>2. /\ receipts[current].resultSequence = len
        /\ \A p \in Projector : readModel.rows[p] \o EventsOf(current) = eventLog
    BY <2>1 DEF ReadModelInv
  <2>3. /\ readModel'.snapshotSequence = len
        /\ \A p \in Projector : readModel'.rows[p] = eventLog
    BY <2>1, <2>2
  <2> QED
    BY <1>3, <2>1, <2>3
<1>12. CASE Reconcile
  <2> DEFINE persisted == SubSeq(eventLog, startSequence + 1, len)
  <2>1. phase = "failed" /\ phase' = "republishing" /\ eventLog' = eventLog
    BY <1>12 DEF Reconcile, database
  <2>2. /\ startSequence <= len /\ len <= startSequence + 2
        /\ readModel.snapshotSequence = startSequence
        /\ \A p \in Projector :
              readModel.rows[p] = SubSeq(eventLog, 1, startSequence)
    BY <2>1 DEF ReadModelInv, Folded
  <2>3. ReadTo(startSequence) = len
    BY <1>1, <2>2, ReadToEnd
  <2>4. readModel' =
          IF persisted = <<>> THEN readModel
          ELSE [rows |-> [p \in Projector |-> readModel.rows[p] \o persisted],
                snapshotSequence |-> len]
    BY <1>12, <2>3 DEF Reconcile, ReadFromSequence
  <2>5. SubSeq(eventLog, 1, startSequence) \o persisted = eventLog
    BY <1>1, <2>2, PrefixAndRest
  <2>6. CASE persisted = <<>>
    <3>1. startSequence = len
      <4>1. \A i \in (startSequence + 1)..len : eventLog[i] \in Event
        BY <1>1, ElementOfSeq
      <4>2. Len(persisted) =
               IF startSequence + 1 <= len THEN len - (startSequence + 1) + 1 ELSE 0
        BY <1>1, <4>1, SubSeqProperties
      <4> HIDE DEF persisted
      <4>3. Len(persisted) = 0
        BY <2>6
      <4> HIDE DEF len
      <4> QED
        BY <1>1, <2>2, <4>2, <4>3
    <3>2. readModel' = readModel
      BY <2>4, <2>6
    <3> QED
      BY <1>1, <1>3, <2>1, <2>2, <3>1, <3>2
  <2>7. CASE persisted # <<>>
    <3> HIDE DEF persisted
    <3>1. /\ readModel'.snapshotSequence = len
          /\ \A p \in Projector : readModel'.rows[p] = eventLog
      BY <2>2, <2>4, <2>5, <2>7
    <3> QED
      BY <1>3, <2>1, <3>1
  <2> QED
    BY <2>6, <2>7
<1>13. CASE ReconcileFails
  <2>1. /\ phase = "failed" /\ phase' = "republishing"
        /\ "reconcileRead" \in Faults
        /\ UNCHANGED <<eventLog, readModel>>
    BY <1>13 DEF ReconcileFails, database
  <2>2. startSequence = len
    BY <2>1 DEF ReadModelInv
  <2>3. /\ readModel.snapshotSequence = len
        /\ \A p \in Projector : readModel.rows[p] = eventLog
    BY <1>1, <2>1, <2>2 DEF ReadModelInv, Folded
  <2> QED
    BY <1>3, <2>1, <2>3
<1>14. CASE \/ Publish \/ FinishPublishing \/ RecordRejection
            \/ SkipRejection \/ Answer
  <2>1. /\ phase \in {"publishing", "republishing", "answering"}
        /\ phase' \in {"publishing", "republishing", "answering", "idle"}
        /\ UNCHANGED <<eventLog, readModel>>
    BY <1>14 DEF Publish, FinishPublishing, RecordRejection, SkipRejection,
                 Answer, database
  <2> QED
    BY <1>2, <1>3, <2>1
<1>15. ASSUME UNCHANGED <<eventLog, receipts, phase, readModel, current,
                          startSequence>>
       PROVE  ReadModelInv'
  BY <1>15 DEF ReadModelInv, Folded
<1>16. ASSUME NEW c \in CommandId, Dispatch(c) PROVE ReadModelInv'
  BY <1>15, <1>16 DEF Dispatch, database
<1>17. CASE UNCHANGED vars
  BY <1>15, <1>17 DEF vars, database
<1> QED
  BY <1>5, <1>6, <1>8, <1>9, <1>10, <1>11, <1>12, <1>13, <1>14, <1>16, <1>17
  DEF Next, Boot, Worker

-----------------------------------------------------------------------------
(* The event stream.                                                       *)

LEMMA PositionsEmpty ==
    ASSUME NEW first \in Nat, NEW last \in Nat, first <= last
    PROVE  Positions(first, last) = <<>> <=> first = last
<1>1. /\ Positions(first, last) \in Seq(Nat)
      /\ Len(Positions(first, last)) = last - first
  BY PositionsProperties
<1> DEFINE s == Positions(first, last)
<1>2. CASE first = last
  <2>1. Len(s) = 0
    BY <1>1, <1>2
  <2> HIDE DEF s
  <2>2. s \in Seq(Nat)
    BY <1>1 DEF s
  <2>3. s = <<>>
    BY <2>1, <2>2, EmptySeq
  <2> QED
    BY <1>2, <2>3 DEF s
<1>3. CASE first # last
  <2>1. Len(s) # 0
    BY <1>1, <1>3
  <2> HIDE DEF s
  <2>2. s # <<>>
    BY <2>1
  <2> QED
    BY <1>3, <2>2 DEF s
<1> QED
  BY <1>2, <1>3

LEMMA PublishInit == Init => PublishInv
<1> SUFFICES ASSUME Init PROVE PublishInv
  OBVIOUS
<1>1. /\ phase = "booting" /\ published = <<>> /\ bootSequence = 0
      /\ outbox = <<>>
  BY DEF Init
<1>2. Positions(0, 0) = <<>>
  BY PositionsEmpty
<1> QED
  BY <1>1, <1>2 DEF PublishInv

LEMMA PublishStep ==
    ASSUME Reliable
    PROVE  TypeOK /\ TypeOK' /\ WorkerOK /\ ReadModelInv /\ ReadModelInv'
               /\ PublishInv /\ [Next]_vars => PublishInv'
<1> SUFFICES ASSUME TypeOK, TypeOK', WorkerOK, ReadModelInv, ReadModelInv',
                    PublishInv, [Next]_vars
             PROVE  PublishInv'
  OBVIOUS
<1> DEFINE len == Len(eventLog)
           done == bootSequence + Len(published)
           shown == readModel.snapshotSequence
<1>1. /\ len \in Nat /\ bootSequence \in Nat /\ Len(published) \in Nat
      /\ done \in Nat /\ startSequence \in Nat /\ eventLog \in Seq(Event)
  BY LenProperties DEF TypeOK
<1>2. published = Positions(bootSequence, done)
  BY DEF PublishInv
<1>3. phase # "booting" => Folded = shown
  BY DEF ReadModelInv
<1>4. phase' # "booting" => Folded' = shown'
  BY DEF ReadModelInv
<1>5. ASSUME phase \notin {"booting", "publishing", "republishing"}
      PROVE  done = shown /\ outbox = <<>>
  BY <1>3, <1>5 DEF PublishInv
<1>6. ASSUME phase' \notin {"booting", "publishing", "republishing"},
             UNCHANGED <<published, bootSequence>>,
             outbox' = <<>>, done = shown'
      PROVE  PublishInv'
  BY <1>2, <1>4, <1>6 DEF PublishInv
<1>7. ASSUME phase' \in {"publishing", "republishing"},
             UNCHANGED <<published, bootSequence, eventLog>>,
             done <= len, outbox' = Positions(done, len)
      PROVE  PublishInv'
  BY <1>2, <1>7 DEF PublishInv
<1>8. CASE ReplayEvent \/ NextProjector
  BY <1>2, <1>8 DEF ReplayEvent, NextProjector, PublishInv
<1>9. CASE Crash
  <2>1. /\ phase' = "booting" /\ published' = <<>> /\ bootSequence' = 0
        /\ outbox' = <<>>
    BY <1>9 DEF Crash
  <2>2. Positions(0, 0) = <<>>
    BY PositionsEmpty
  <2> QED
    BY <2>1, <2>2 DEF PublishInv
<1>10. CASE LoadReadModel
  <2>1. /\ phase = "booting" /\ phase' = "idle" /\ eventLog' = eventLog
        /\ bootSequence' = len /\ published' = published /\ outbox' = outbox
    BY <1>10 DEF LoadReadModel, database
  <2>2. published = <<>> /\ outbox = <<>>
    BY <2>1 DEF PublishInv
  <2>3. Folded' = len
    BY <2>1 DEF Folded
  <2>4. Positions(len, len) = <<>> /\ bootSequence' + Len(published') = len
    BY <1>1, <2>1, <2>2, PositionsEmpty
  <2> QED
    BY <2>1, <2>2, <2>3, <2>4 DEF PublishInv
<1>11. CASE \/ AnswerFromReceipt \/ RefuseFromReceipt \/ ReceiptLookupFails
            \/ RejectByInvariant \/ BeginTransaction
            \/ Commit \/ CommitReportedAsFailure \/ TransactionRollsBack \/ Answer
  <2>1. /\ phase \notin {"booting", "publishing", "republishing"}
        /\ phase' \notin {"booting", "publishing", "republishing"}
        /\ UNCHANGED <<published, bootSequence, outbox, readModel>>
    BY <1>11 DEF AnswerFromReceipt, RefuseFromReceipt, ReceiptLookupFails,
       RejectByInvariant, BeginTransaction, Take, Commit,
       CommitReportedAsFailure, TransactionRollsBack, Answer
  <2> QED
    BY <1>5, <1>6, <2>1
<1>12. CASE ReplaceReadModel
  <2> DEFINE n == Len(EventsOf(current))
  <2>1. /\ phase = "committed" /\ phase' = "publishing"
        /\ UNCHANGED <<published, bootSequence, eventLog>>
        /\ outbox' = Positions(receipts[current].resultSequence - n,
                               receipts[current].resultSequence)
    BY <1>12 DEF ReplaceReadModel, database
  <2>2. receipts[current].resultSequence = len /\ Folded = len - n
    BY <2>1 DEF ReadModelInv, Folded
  <2>3. done = len - n
    BY <1>3, <1>5, <2>1, <2>2
  <2>4. n \in Nat
    BY <2>1, EventsOfType DEF WorkerOK
  <2>5. done <= len
    <3> HIDE DEF n, len, done
    <3> QED
      BY <1>1, <2>3, <2>4
  <2> QED
    BY <1>7, <2>1, <2>2, <2>3, <2>5
<1>13. CASE Publish
  <2>1. /\ phase \in {"publishing", "republishing"} /\ phase' = phase
        /\ eventLog' = eventLog /\ bootSequence' = bootSequence
        /\ outbox # <<>> /\ outbox' = Tail(outbox)
        /\ published' = Append(published, Head(outbox))
    BY <1>13 DEF Publish, database
  <2>2. done <= len /\ outbox = Positions(done, len)
    BY <2>1 DEF PublishInv
  <2>3. done < len /\ bootSequence <= done
    BY <1>1, <2>1, <2>2, PositionsEmpty
  <2> HIDE DEF done, len
  <2>4. /\ published' = Positions(bootSequence, done + 1)
        /\ outbox' = Positions(done + 1, len)
    BY ZenonT(40), <1>1, <1>2, <2>1, <2>2, <2>3, PositionsShift
  <2>5. Len(published') = (done + 1) - bootSequence
    <3>1. done + 1 \in Nat /\ bootSequence \in Nat /\ bootSequence <= done + 1
      BY <1>1, <2>3
    <3>2. Len(Positions(bootSequence, done + 1)) = (done + 1) - bootSequence
      BY <3>1, PositionsProperties
    <3> QED
      BY <2>4, <3>2
  <2>6. bootSequence' + Len(published') = done + 1 /\ done + 1 <= len
    BY <1>1, <2>1, <2>3, <2>5
  <2> QED
    BY <2>1, <2>4, <2>6 DEF PublishInv, len
<1>14. CASE FinishPublishing \/ RecordRejection \/ SkipRejection
  <2>1. /\ phase \in {"publishing", "republishing"} /\ phase' = "answering"
        /\ outbox = <<>>
        /\ UNCHANGED <<published, bootSequence, outbox, readModel>>
    BY <1>14 DEF FinishPublishing, RecordRejection, SkipRejection
  <2>2. done <= len /\ outbox = Positions(done, len)
    BY <2>1 DEF PublishInv
  <2>3. done = len
    BY <1>1, <2>1, <2>2, PositionsEmpty
  <2>4. shown = len
    BY <1>3, <2>1 DEF Folded
  <2> QED
    BY <1>6, <2>1, <2>3, <2>4
<1>15. CASE Reconcile
  <2>1. /\ phase = "failed" /\ phase' = "republishing"
        /\ UNCHANGED <<published, bootSequence, eventLog>>
        /\ outbox' = Positions(startSequence, ReadTo(startSequence))
    BY <1>15 DEF Reconcile, database
  <2>2. Folded = startSequence
    BY <2>1 DEF Folded
  <2>3. startSequence <= len /\ len <= startSequence + 2 /\ done = startSequence
    BY <1>3, <1>5, <2>1, <2>2 DEF ReadModelInv
  <2>4. ReadTo(startSequence) = len
    BY <1>1, <2>3, ReadToEnd
  <2> QED
    BY <1>7, <2>1, <2>3, <2>4
<1>16. CASE ReconcileFails
  <2>1. /\ phase = "failed" /\ phase' = "republishing"
        /\ "reconcileRead" \in Faults
        /\ UNCHANGED <<published, bootSequence, eventLog, outbox>>
    BY <1>16 DEF ReconcileFails, database
  <2>2. startSequence = len /\ Folded = startSequence
    BY <2>1 DEF ReadModelInv, Folded
  <2>3. done = len /\ outbox = <<>>
    BY <1>3, <1>5, <2>1, <2>2
  <2>4. outbox' = Positions(done, len) /\ done <= len
    BY <1>1, <2>1, <2>3, PositionsEmpty
  <2> QED
    BY <1>7, <2>1, <2>4
<1>17. ASSUME UNCHANGED <<eventLog, receipts, phase, readModel, current,
                          startSequence, outbox, published, bootSequence>>
       PROVE  PublishInv'
  BY <1>17 DEF PublishInv, Folded
<1>18. ASSUME NEW c \in CommandId, Dispatch(c) PROVE PublishInv'
  BY <1>17, <1>18 DEF Dispatch, database
<1>19. CASE UNCHANGED vars
  BY <1>17, <1>19 DEF vars, database
<1> QED
  BY <1>8, <1>9, <1>10, <1>11, <1>12, <1>13, <1>14, <1>15, <1>16, <1>18, <1>19
  DEF Next, Boot, Worker

-----------------------------------------------------------------------------
(* The decisions: every command is decided on the whole log.               *)

(* What a view knows after n events depends on those n events alone.       *)
LEMMA SamePrefix ==
    ASSUME NEW v, NEW w, NEW n \in Int, NEW t,
           \A i \in 1..n : v[i] = w[i]
    PROVE  /\ Exists(v, n, t) <=> Exists(w, n, t)
           /\ Archived(v, n, t) <=> Archived(w, n, t)
<1>1. Exists(v, n, t) <=> Exists(w, n, t)
  BY DEF Exists
<1>2. \A i \in 1..n : \A j \in (i + 1)..n : v[j] = w[j]
  OBVIOUS
<1>3. Archived(v, n, t) <=> Archived(w, n, t)
  BY <1>2 DEF Archived
<1> QED
  BY <1>1, <1>3

LEMMA LegalInPrefix ==
    ASSUME NEW v, NEW w, NEW i \in Nat \ {0}, \A j \in 1..i : v[j] = w[j],
           EventLegal(v, i)
    PROVE  EventLegal(w, i)
<1>1. i \in 1..i /\ \A j \in 1..(i - 1) : v[j] = w[j]
  OBVIOUS
<1>2. v[i] = w[i]
  BY <1>1
<1>3. i - 1 \in Int
  OBVIOUS
<1>4. /\ Exists(v, i - 1, v[i].thread) <=> Exists(w, i - 1, v[i].thread)
      /\ Archived(v, i - 1, v[i].thread) <=> Archived(w, i - 1, v[i].thread)
  BY <1>1, <1>3, SamePrefix
<1> QED
  BY <1>2, <1>4 DEF EventLegal

(* The events of a command admissible after a legal log are legal after it.*)
LEMMA ExtendLegal ==
    ASSUME NEW c \in CommandId, NEW log \in Seq(Event), LogLegal(log),
           Admissible(c, log)
    PROVE  LogLegal(log \o EventsOf(c))
<1> DEFINE n == Len(log)
           es == EventsOf(c)
           log2 == log \o es
           t == CommandOf[c].thread
           type == CommandOf[c].type
<1>1. /\ es \in Seq(Event) /\ Len(es) \in 1..2 /\ n \in Nat
      /\ \A k \in 1..Len(es) : /\ es[k].thread = t
                               /\ es[k].type = EventTypes(type)[k]
      /\ Len(es) = Len(EventTypes(type))
  <2>1. Len(EventTypes(type)) \in 1..2
    BY CommandsAssumption DEF Command, CommandType, EventTypes
  <2>2. Len(es) = Len(EventTypes(type))
    BY <2>1, EventsOfType, SeqDef, LenProperties DEF EventsOf
  <2> QED
    BY <2>2, EventsOfType, LenProperties
<1>2. Admissible(c, log) /\ type \in CommandType
  BY CommandsAssumption DEF Command
<1>3. /\ Len(log2) = n + Len(es)
      /\ \A i \in 1..n : log2[i] = log[i]
      /\ \A k \in 1..Len(es) : log2[n + k] = es[k]
  <2>1. /\ Len(log2) = n + Len(es)
        /\ \A i \in 1..(n + Len(es)) :
              log2[i] = IF i <= n THEN log[i] ELSE es[i - n]
    <3>1. log \in Seq(Event) /\ es \in Seq(Event)
      BY <1>1
    <3> HIDE DEF es
    <3> QED
      BY <3>1, ConcatProperties
  <2> HIDE DEF log2, es, n
  <2> QED
    BY <1>1, <2>1
<1>4. ASSUME NEW i \in 1..n PROVE EventLegal(log2, i)
  <2>1. EventLegal(log, i) /\ i \in Nat \ {0}
    BY <1>1 DEF LogLegal
  <2> HIDE DEF log2, n
  <2>2. \A j \in 1..i : log[j] = log2[j]
    BY <1>1, <1>3
  <2> QED
    BY <2>1, <2>2, LegalInPrefix
<1>5. /\ Exists(log2, n, t) <=> Exists(log, n, t)
      /\ Archived(log2, n, t) <=> Archived(log, n, t)
  <2> HIDE DEF log2, n
  <2> QED
    BY <1>1, <1>3, SamePrefix
<1>6. EventLegal(log2, n + 1)
  <2>1. /\ log2[n + 1].thread = t
        /\ log2[n + 1].type = EventTypes(type)[1]
        /\ (n + 1) - 1 = n
    <3> HIDE DEF log2, n, t, type, es
    <3> QED
      BY <1>1, <1>3
  <2>2. \/ type = "thread.create" /\ ~ Exists(log2, n, t)
        \/ type = "thread.archive" /\ Exists(log2, n, t) /\ ~ Archived(log2, n, t)
        \/ type = "thread.unarchive" /\ Exists(log2, n, t) /\ Archived(log2, n, t)
        \/ type \in {"thread.delete", "thread.turn.start"} /\ Exists(log2, n, t)
    BY <1>2, <1>5 DEF Admissible
  <2> HIDE DEF log2, n, t, type
  <2> QED
    BY <2>1, <2>2 DEF EventLegal, EventTypes
<1>7. ASSUME Len(es) = 2 PROVE EventLegal(log2, n + 2)
  <2>1. type = "thread.turn.start"
    <3> HIDE DEF es, type
    <3>1. Len(EventTypes(type)) = 2
      BY <1>1, <1>7
    <3>2. type \in CommandType \ {"thread.turn.start"}
             => Len(EventTypes(type)) = 1
      BY DEF CommandType, EventTypes
    <3> QED
      BY <1>2, <3>1, <3>2
  <2>2. Exists(log2, n, t)
    BY <1>2, <1>5, <2>1 DEF Admissible
  <2>3. /\ log2[n + 2].thread = t
        /\ log2[n + 2].type = EventTypes(type)[2]
        /\ (n + 2) - 1 = n + 1
    <3> HIDE DEF log2, n, t, type, es
    <3> QED
      BY <1>1, <1>3, <1>7
  <2>4. Exists(log2, n + 1, t)
    <3> HIDE DEF log2, n, t
    <3>1. 1..n \subseteq 1..(n + 1)
      BY <1>1
    <3> QED
      BY <2>2, <3>1 DEF Exists
  <2> HIDE DEF log2, n, t, type
  <2> QED
    BY <2>1, <2>3, <2>4 DEF EventLegal, EventTypes
<1>8. \A i \in 1..Len(log2) : EventLegal(log2, i)
  <2> HIDE DEF log2, n, es
  <2>1. \A i \in 1..Len(log2) :
           \/ i \in 1..n
           \/ i = n + 1
           \/ Len(es) = 2 /\ i = n + 2
    BY SMTT(30), <1>1, <1>3
  <2> QED
    BY <1>4, <1>6, <1>7, <2>1
<1> QED
  BY <1>8 DEF LogLegal

LEMMA DecisionStep ==
    ASSUME Reliable
    PROVE  TypeOK /\ WorkerOK /\ ReadModelInv /\ DecisionInv /\ [Next]_vars
               => DecisionInv'
<1> SUFFICES ASSUME TypeOK, WorkerOK, ReadModelInv, DecisionInv, [Next]_vars
             PROVE  DecisionInv'
  OBVIOUS
<1>1. ASSUME phase = "idle" PROVE DeciderView = eventLog
  <2>1. readModel.rows[ThreadsProjector] = SubSeq(eventLog, 1, Len(eventLog))
    BY <1>1, EngineAssumption DEF ReadModelInv, Folded
  <2> QED
    BY <2>1, SubSeqFull DEF DeciderView, TypeOK
<1>2. ASSUME eventLog' = eventLog, phase' \notin {"transaction", "failed", "republishing"}
      PROVE  DecisionInv'
  BY <1>2 DEF DecisionInv
<1>3. CASE \/ Boot \/ AnswerFromReceipt \/ RefuseFromReceipt
           \/ ReplaceReadModel \/ FinishPublishing \/ RecordRejection
           \/ SkipRejection \/ Answer \/ Crash
  <2>1. /\ eventLog' = eventLog
        /\ phase' \notin {"transaction", "failed", "republishing"}
    BY <1>3 DEF Boot, ReplayEvent, NextProjector, LoadReadModel,
       AnswerFromReceipt, RefuseFromReceipt, Take, ReplaceReadModel,
       FinishPublishing, RecordRejection, SkipRejection, Answer, Crash, database
  <2> QED
    BY <1>2, <2>1
<1>4. CASE ReceiptLookupFails
  BY <1>4 DEF ReceiptLookupFails, Take, database, DecisionInv, StorageError,
              InvariantError
<1>5. CASE RejectByInvariant \/ BeginTransaction
  <2>1. phase = "idle" /\ eventLog' = eventLog /\ current' = Head(queue)
    BY <1>5 DEF RejectByInvariant, BeginTransaction, Take, database
  <2>2. DeciderView = eventLog
    BY <1>1, <2>1
  <2>3. CASE RejectByInvariant
    BY <2>1, <2>2, <2>3 DEF RejectByInvariant, Take, DecisionInv
  <2>4. CASE BeginTransaction
    BY <2>1, <2>2, <2>4 DEF BeginTransaction, Take, DecisionInv
  <2> QED
    BY <1>5, <2>3, <2>4
<1>6. CASE Commit \/ CommitReportedAsFailure
  <2>1. /\ phase = "transaction" /\ current \in CommandId
        /\ eventLog' = eventLog \o EventsOf(current)
        /\ phase' \in {"committed", "failed"}
        /\ phase' = "failed" => outcome' = StorageError
    BY <1>6 DEF Commit, CommitReportedAsFailure, WriteTransaction, WorkerOK
  <2>2. LogLegal(eventLog')
    BY <2>1, ExtendLegal DEF DecisionInv, TypeOK
  <2> QED
    BY <2>1, <2>2 DEF DecisionInv, StorageError, InvariantError
<1>7. CASE TransactionRollsBack
  BY <1>7 DEF TransactionRollsBack, database, DecisionInv, StorageError,
              InvariantError
<1>8. CASE Publish \/ Reconcile \/ ReconcileFails
  <2>1. /\ UNCHANGED <<eventLog, current, outcome>>
        /\ phase \in {"publishing", "failed", "republishing"}
        /\ phase' \in {"publishing", "republishing"}
        /\ phase' = "republishing" => phase \in {"failed", "republishing"}
    BY <1>8 DEF Publish, Reconcile, ReconcileFails, database
  <2> QED
    BY <2>1 DEF DecisionInv
<1>9. ASSUME UNCHANGED <<eventLog, phase, current, outcome>> PROVE DecisionInv'
  BY <1>9 DEF DecisionInv
<1>10. ASSUME NEW c \in CommandId, Dispatch(c) PROVE DecisionInv'
  BY <1>9, <1>10 DEF Dispatch, database
<1>11. CASE UNCHANGED vars
  BY <1>9, <1>11 DEF vars, database
<1> QED
  BY <1>3, <1>4, <1>5, <1>6, <1>7, <1>8, <1>10, <1>11 DEF Next, Worker

-----------------------------------------------------------------------------
(* Together, and what they imply if the environment is Reliable.           *)

EngineInv == /\ TypeOK /\ WorkerOK /\ DurableInv /\ ProjectorInv
             /\ ReadModelInv /\ PublishInv /\ DecisionInv

LEMMA EngineInvariant == ASSUME Reliable PROVE Spec => []EngineInv
<1>1. Init => EngineInv
  BY InitType, DurableInit, ProjectorInit, PublishInit, CommandsAssumption
  DEF Init, WorkerOK, ReadModelInv, DecisionInv, EngineInv
<1>2. EngineInv /\ [Next]_vars => EngineInv'
  BY StepType, DurableStep, ProjectorStep, ReadModelStep, PublishStep,
     DecisionStep
  DEF EngineInv
<1> QED
  BY <1>1, <1>2, PTL DEF Spec

(* Between two commands the read model, the tables and the cursors have    *)
(* seen exactly the stored events, whatever the order of failures and      *)
(* crashes (reconcileReadModelAfterDispatchFailure, bootstrap).            *)
THEOREM ReadModelFresh == ASSUME Reliable PROVE Spec => []ReadModelIsFresh
<1>1. EngineInv => ReadModelIsFresh
  BY SubSeqFull DEF EngineInv, TypeOK, ProjectorInv, ReadModelInv,
                    ReadModelIsFresh, Folded
<1> QED
  BY <1>1, EngineInvariant, PTL

(* A start brings every projector up to the last stored event before the   *)
(* engine serves (bootstrapProjector).                                     *)
THEOREM BootstrapComplete == ASSUME Reliable PROVE Spec => []BootstrapCatchesUp
<1>1. EngineInv => BootstrapCatchesUp
  BY SubSeqFull DEF EngineInv, TypeOK, ProjectorInv, BootstrapCatchesUp
<1> QED
  BY <1>1, EngineInvariant, PTL

(* The event stream has no gap, repetition or reordering, and an idle      *)
(* worker has published everything stored (PubSub.publish in               *)
(* processEnvelope and in the reconciliation).                             *)
THEOREM StreamWithoutGap == ASSUME Reliable PROVE Spec => []PublishedWithoutGap
<1>1. EngineInv => PublishedWithoutGap
  BY DEF EngineInv, PublishInv, PublishedWithoutGap, Folded
<1> QED
  BY <1>1, EngineInvariant, PTL

(* Whoever is told of an event finds it in the read model, in the event    *)
(* store and behind every projector's cursor.                              *)
THEOREM PublishedVisible == ASSUME Reliable PROVE Spec => []PublishedIsVisible
<1>1. ASSUME EngineInv, NEW i \in 1..Len(published)
      PROVE  /\ published[i] <= readModel.snapshotSequence
             /\ published[i] <= Len(eventLog)
             /\ \A p \in Projector : published[i] <= cursor[p]
  <2> DEFINE len == Len(eventLog)
             done == bootSequence + Len(published)
  <2>1. /\ len \in Nat /\ bootSequence \in Nat /\ Len(published) \in Nat
        /\ done \in Nat
    BY <1>1, LenProperties DEF EngineInv, TypeOK
  <2>2. phase # "booting"
    <3>1. Len(published) # 0
      BY <2>1
    <3>2. published # <<>>
      BY <3>1
    <3> QED
      BY <1>1, <3>2 DEF EngineInv, PublishInv
  <2>3. /\ published = Positions(bootSequence, done)
        /\ phase \in {"publishing", "republishing"} => done <= len
        /\ phase \notin {"publishing", "republishing"} => done = Folded
    BY <1>1, <2>2 DEF EngineInv, PublishInv
  <2>4. published[i] = bootSequence + i /\ bootSequence + i <= done
    <3>1. bootSequence <= done /\ done - bootSequence = Len(published)
      BY <2>1
    <3>2. \A k \in 1..(done - bootSequence) :
             Positions(bootSequence, done)[k] = bootSequence + k
      <4> HIDE DEF done
      <4> QED
        BY <2>1, <3>1, PositionsProperties
    <3>3. Positions(bootSequence, done)[i] = bootSequence + i
      BY <3>1, <3>2
    <3> HIDE DEF done
    <3>4. published[i] = bootSequence + i
      BY <2>3, <3>3
    <3> QED
      BY <2>1, <3>4 DEF done
  <2>5. /\ Folded <= len /\ readModel.snapshotSequence = Folded
        /\ phase \in {"publishing", "republishing"} => Folded = len
        /\ Folded \in Nat
        /\ \A p \in Projector : cursor[p] = len
    BY <1>1, <2>2 DEF EngineInv, ReadModelInv, ProjectorInv, Folded
  <2> HIDE DEF len, done
  <2>6. done <= Folded
    BY <2>1, <2>3, <2>5
  <2>7. published[i] <= Folded /\ published[i] <= len
    BY <2>1, <2>4, <2>5, <2>6
  <2> QED
    BY <2>5, <2>7 DEF len
<1>2. EngineInv => PublishedIsVisible
  BY <1>1 DEF PublishedIsVisible
<1> QED
  BY <1>2, EngineInvariant, PTL

(* Subscribers miss nothing of what is stored, and find what they are told *)
(* of in the read model, the store and the projections.                    *)
THEOREM SoundPublication == ASSUME Reliable PROVE Spec => []PublicationIsSound
<1>1. PublishedWithoutGap /\ PublishedIsVisible => PublicationIsSound
  BY DEF PublicationIsSound
<1> QED
  BY <1>1, StreamWithoutGap, PublishedVisible, PTL

(* No event is ever stored that the events before it do not allow: every   *)
(* command is decided on the whole log (decideOrchestrationCommand).       *)
THEOREM LegalHistory == ASSUME Reliable PROVE Spec => []HistoryIsLegal
<1>1. EngineInv => HistoryIsLegal
  BY DEF EngineInv, DecisionInv, HistoryIsLegal
<1> QED
  BY <1>1, EngineInvariant, PTL

-----------------------------------------------------------------------------
(* The engine implements the journal of commands.                          *)

(* The journal's decision on a command is the engine's.                    *)
LEMMA SameDecision ==
    /\ Journal!NoReceipt = NoReceipt
    /\ \A c, log : Journal!Admissible(c, log) <=> Admissible(c, log)
    /\ \A c : Journal!EventsOf(c) = EventsOf(c)
    /\ \A n : Journal!Accepted(n) = Accepted(n) /\ Journal!Rejected(n) = Rejected(n)
<1>1. \A log, n, t : /\ Journal!Exists(log, n, t) <=> Exists(log, n, t)
                     /\ Journal!Archived(log, n, t) <=> Archived(log, n, t)
  BY DEF Journal!Exists, Exists, Journal!Archived, Archived
<1>2. \A c, log : Journal!Admissible(c, log) <=> Admissible(c, log)
  BY <1>1 DEF Journal!Admissible, Admissible
<1>3. \A type : Journal!EventTypes(type) = EventTypes(type)
  BY DEF Journal!EventTypes, EventTypes
<1>4. \A c : Journal!EventsOf(c) = EventsOf(c)
  BY <1>3 DEF Journal!EventsOf, EventsOf
<1> QED
  BY <1>2, <1>4 DEF Journal!NoReceipt, NoReceipt, Journal!Accepted, Accepted,
                    Journal!Rejected, Rejected

LEMMA JournalStep ==
    ASSUME Reliable
    PROVE  EngineInv /\ EngineInv' /\ [Next]_vars => [Journal!Next]_(Journal!vars)
<1> SUFFICES ASSUME EngineInv, EngineInv', [Next]_vars
             PROVE  [Journal!Next]_(Journal!vars)
  OBVIOUS
<1>1. CASE Commit \/ CommitReportedAsFailure
  <2>1. /\ phase = "transaction" /\ current \in CommandId
        /\ eventLog' = eventLog \o EventsOf(current)
        /\ receipts' = [receipts EXCEPT ![current] =
              Accepted(Len(eventLog) + Len(EventsOf(current)))]
    BY <1>1 DEF Commit, CommitReportedAsFailure, WriteTransaction, WorkerOK,
                EngineInv
  <2>2. receipts[current].status = "none" /\ Admissible(current, eventLog)
    BY <2>1 DEF EngineInv, DurableInv, DecisionInv
  <2>3. Journal!Accept(current)
    BY <2>1, <2>2, SameDecision DEF Journal!Accept
  <2> QED
    BY <2>1, <2>3 DEF Journal!Next
<1>2. CASE RecordRejection
  <2>1. /\ phase = "republishing" /\ outcome = InvariantError
        /\ current \in CommandId /\ eventLog' = eventLog
        /\ receipts' = [receipts EXCEPT ![current] =
                            Rejected(readModel.snapshotSequence)]
    BY <1>2 DEF RecordRejection, EngineInv, WorkerOK
  <2>2. receipts[current].status = "none" /\ ~ Admissible(current, eventLog)
    BY <2>1 DEF EngineInv, DurableInv, DecisionInv
  <2>3. readModel.snapshotSequence = Len(eventLog)
    BY <2>1 DEF EngineInv, ReadModelInv, Folded
  <2>4. Journal!Reject(current)
    BY <2>1, <2>2, <2>3, SameDecision DEF Journal!Reject
  <2> QED
    BY <2>1, <2>4 DEF Journal!Next
<1>3. UNCHANGED <<eventLog, receipts>> \/ Commit \/ CommitReportedAsFailure
          \/ RecordRejection
  BY DEF Next, Boot, Worker, vars, database, ReplayEvent, NextProjector,
         LoadReadModel, Dispatch, Take, AnswerFromReceipt, RefuseFromReceipt,
         ReceiptLookupFails, RejectByInvariant, BeginTransaction,
         TransactionRollsBack, ReplaceReadModel, Publish, FinishPublishing,
         Reconcile, ReconcileFails, SkipRejection, Answer, Crash
<1> QED
  BY <1>1, <1>2, <1>3 DEF Journal!vars

(* The engine's log and receipts change only as the journal of commands    *)
(* allows: commands are accepted and rejected one at a time, each judged   *)
(* on all the events before it.                                            *)
THEOREM EngineImplementsJournal ==
    ASSUME Reliable PROVE Spec => ImplementsJournal
<1>1. Init => Journal!Init
  BY SameDecision DEF Init, Journal!Init
<1>2. EngineInv /\ EngineInv' /\ [Next]_vars => [Journal!Next]_(Journal!vars)
  BY JournalStep
<1> QED
  BY <1>1, <1>2, EngineInvariant, PTL DEF Spec, Journal!Spec, ImplementsJournal

=============================================================================
