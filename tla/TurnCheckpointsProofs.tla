----------------------- MODULE TurnCheckpointsProofs -----------------------
(***************************************************************************)
(* Theorems of TurnCheckpoints, for any number of turns, edits and         *)
(* reverts.                                                                *)
(***************************************************************************)
EXTENDS TurnCheckpoints, SequenceTheorems, FiniteSetTheorems, WellFoundedInduction,
        TLAPS

-----------------------------------------------------------------------------
(* Types.                                                                  *)

RuntimeEvent ==
    [type : {"started", "diff"}, turn : Turn]
    \cup [type : {"completed"}, turn : Turn, status : Status]
DomainEvent ==
    {[type |-> "start"]}
    \cup [type : {"revert"}, count : Int]
    \cup [type : {"diff"}, checkpoint : Checkpoint]

Placeholder ==
    [at : {"placeholder"}, view : SUBSET Checkpoint, checkpoint : Checkpoint]
Baseline == [at : {"baseline"}, count : Nat]
Capturing ==
    [at : {"capture", "captured"}, view : SUBSET Checkpoint, checkpoint : Checkpoint]
Reverting ==
    [at : {"rollback", "delete", "finish"}, count : Int, turns : Nat,
     stale : SUBSET Nat]

(* There is a largest count.                                               *)
Bounded(cs) == \E b \in Nat : \A c \in cs : c.count <= b

AgentTyped ==
    /\ tree \in Tree /\ edits \in Tree
    /\ running \in Turn \cup {None}
    /\ started \in Nat /\ requests \in Nat /\ started + requests <= MaxTurns
    /\ conversation \in Seq(Turn)
    /\ endTree \in [Turn -> Tree \cup {None}]
ThreadTyped ==
    /\ active \in Turn \cup {None}
    /\ checkpoints \subseteq Checkpoint /\ rows \subseteq Checkpoint
    /\ Bounded(checkpoints)
RefsTyped == DOMAIN refs \subseteq Nat /\ \A n \in DOMAIN refs : refs[n] \in Tree
StreamsTyped ==
    /\ toIngestion \in Seq(RuntimeEvent)
    /\ runtime \in Seq(RuntimeEvent)
    /\ domain \in Seq(DomainEvent)
WorkersTyped ==
    /\ ingesting \in {Idle} \cup Placeholder
    /\ job \in {Idle} \cup Baseline \cup Capturing \cup Reverting
    /\ mishaps \subseteq Mishap

Typed == AgentTyped /\ ThreadTyped /\ RefsTyped /\ StreamsTyped /\ WorkersTyped

-----------------------------------------------------------------------------
(* The invariants.                                                         *)

(* A placeholder is not real and claims no files; what is real claims      *)
(* some, and a capture has seen all that is real.                          *)
RealOnes ==
    /\ ingesting \in Placeholder =>
          ~ IsReal(ingesting.checkpoint) /\ ~ ingesting.checkpoint.git
    /\ \A c \in checkpoints : IsReal(c) => c.git
    /\ job \in Capturing =>
          /\ job.checkpoint.git
          /\ \A c \in checkpoints : IsReal(c) => c \in job.view

(* The files that a checkpoint claims are there, but for those that a      *)
(* revert has deleted together with them.                                  *)
Claimed(c) ==
    c.git => \/ c.count \in DOMAIN refs
             \/ job.at = "finish" /\ c.count > job.count
RefsOfJob ==
    /\ job.at = "baseline" => job.count \notin DOMAIN refs
    /\ job.at = "captured" => job.checkpoint.count \in DOMAIN refs
    /\ job.at \in {"rollback", "delete"} => \A k \in job.stale : k > job.count
FilesInv ==
    /\ "failed" \in mishaps \/ \A c \in checkpoints \cup rows : Claimed(c)
    /\ RefsOfJob

(* Unless a count was given twice: a turn and a count belong to one        *)
(* checkpoint, and so do those about to be dispatched, if the view they    *)
(* were made from still holds.                                             *)
Undisturbed == mishaps \cap {"raced", "revived"} = {}
Fits(c, view) ==
    \A d \in view : /\ d.count = c.count <=> d.turn = c.turn
                    /\ d.turn = c.turn => ~ IsReal(d)
AgreeInv ==
    Undisturbed =>
        /\ rows = checkpoints
        /\ \A c, d \in checkpoints : c.turn = d.turn <=> c.count = d.count
        /\ ingesting \in Placeholder => Fits(ingesting.checkpoint, ingesting.view)
        /\ job \in Capturing => Fits(job.checkpoint, job.view)

-----------------------------------------------------------------------------
(* Counts.                                                                 *)

LEMMA SmallestOf ==
    ASSUME NEW T \in SUBSET Nat, T # {}
    PROVE  \E x \in T : \A y \in T : x <= y
<1> DEFINE R == OpToRel(<, Nat)
<1>1. \E x \in T : \A y \in T : ~ (<<y, x>> \in R)
  <2>1. IsWellFoundedOn(R, Nat)
    BY NatLessThanWellFounded
  <2> HIDE DEF R
  <2> QED
    BY <2>1, WFMin
<1>2. \A x, y \in Nat : ~ (<<y, x>> \in R) => x <= y
  BY DEF OpToRel
<1> QED
  BY <1>1, <1>2

(* The largest count is the largest: it is not enough to be a CHOOSE.      *)
LEMMA LargestCount ==
    ASSUME NEW cs \in SUBSET Checkpoint, Bounded(cs)
    PROVE  /\ CurrentCount(cs) \in Nat
           /\ \A c \in cs : c.count <= CurrentCount(cs)
           /\ CurrentCount(cs) = 0 \/ \E c \in cs : c.count = CurrentCount(cs)
<1> DEFINE S == {0} \cup {c.count : c \in cs}
<1>1. /\ S \subseteq Nat /\ 0 \in S /\ \A c \in cs : c.count \in S
      /\ \A x \in S : x = 0 \/ \E c \in cs : c.count = x
  BY DEF Checkpoint
<1>2. PICK b \in Nat : \A x \in S : x <= b
  BY DEF Bounded
<1> HIDE DEF S
<1> DEFINE T == {b - x : x \in S}
<1>3. T \in SUBSET Nat /\ T # {}
  BY <1>1, <1>2
<1>4. PICK y \in T : \A z \in T : y <= z
  BY <1>3, SmallestOf
<1>5. PICK m \in S : y = b - m
  BY <1>4
<1>6. \A x \in S : m >= x
  <2> SUFFICES ASSUME NEW x \in S PROVE m >= x
    OBVIOUS
  <2>1. b - x \in T
    OBVIOUS
  <2>2. b - m <= b - x
    BY <2>1, <1>4, <1>5
  <2> QED
    BY <2>2, <1>1
<1>7. Max(S) \in S /\ \A x \in S : Max(S) >= x
  BY <1>6 DEF Max
<1>8. CurrentCount(cs) = Max(S)
  BY DEF CurrentCount, S
<1>9. \A c \in cs : c.count <= CurrentCount(cs)
  BY <1>1, <1>7, <1>8
<1> QED
  BY <1>1, <1>7, <1>8, <1>9

LEMMA NextCount ==
    ASSUME NEW cs \in SUBSET Checkpoint, Bounded(cs)
    PROVE  /\ CurrentCount(cs) + 1 \in Nat
           /\ \A c \in cs : c.count # CurrentCount(cs) + 1
<1>1. /\ CurrentCount(cs) \in Nat
      /\ \A c \in cs : c.count <= CurrentCount(cs)
  BY LargestCount
<1>2. \A c \in cs : c.count \in Nat
  BY DEF Checkpoint
<1> QED
  BY <1>1, <1>2

LEMMA TheCountFor ==
    ASSUME ThreadTyped, NEW t \in Turn
    PROVE  /\ CountFor(t) \in Nat
           /\ \/ \E c \in Of(t, checkpoints) : CountFor(t) = c.count
              \/ /\ Of(t, checkpoints) = {}
                 /\ \A c \in checkpoints : c.count # CountFor(t)
<1>1. CASE Of(t, checkpoints) = {}
  <2>1. CountFor(t) = CurrentCount(checkpoints) + 1
    BY <1>1 DEF CountFor
  <2> QED
    BY <1>1, <2>1, NextCount DEF ThreadTyped
<1>2. CASE Of(t, checkpoints) # {}
  <2>1. PICK c \in Of(t, checkpoints) : CountFor(t) = c.count
    BY <1>2 DEF CountFor
  <2>2. c.count \in Nat
    BY DEF Of, ThreadTyped, Checkpoint
  <2> QED
    BY <2>1, <2>2
<1> QED
  BY <1>1, <1>2

-----------------------------------------------------------------------------
(* The two projections.                                                    *)

LEMMA Projecting ==
    ASSUME NEW cs \in SUBSET Checkpoint, NEW c \in Checkpoint
    PROVE  /\ InMemory(cs, c) \subseteq cs \cup {c}
           /\ InTable(cs, c) \subseteq cs \cup {c}
           /\ Bounded(cs) => Bounded(InMemory(cs, c))
<1>1. /\ InMemory(cs, c) \subseteq cs \cup {c}
      /\ InTable(cs, c) \subseteq cs \cup {c}
  BY DEF InMemory, InTable, Of
<1>2. ASSUME Bounded(cs) PROVE Bounded(InMemory(cs, c))
  <2>1. PICK b \in Nat : \A d \in cs : d.count <= b
    BY <1>2 DEF Bounded
  <2>2. c.count \in Nat /\ \A d \in cs : d.count \in Nat
    BY DEF Checkpoint
  <2>3. \A d \in InMemory(cs, c) : d.count <= b + c.count
    BY <1>1, <2>1, <2>2
  <2>4. b + c.count \in Nat
    BY <2>2
  <2> QED
    BY <2>3, <2>4 DEF Bounded
<1> QED
  BY <1>1, <1>2

(* They agree on a checkpoint that fits.                                   *)
LEMMA ProjectedAlike ==
    ASSUME NEW cs \in SUBSET Checkpoint, NEW c \in Checkpoint, Fits(c, cs),
           \A a, b \in cs : a.turn = b.turn <=> a.count = b.count
    PROVE  /\ InMemory(cs, c) = InTable(cs, c)
           /\ \A a, b \in InMemory(cs, c) : a.turn = b.turn <=> a.count = b.count
<1>1. InMemory(cs, c) = (cs \ Of(c.turn, cs)) \cup {c}
  BY DEF InMemory, Fits, Of
<1>2. InTable(cs, c) = (cs \ Of(c.turn, cs)) \cup {c}
  BY DEF InTable, Fits, Of
<1>3. \A a \in cs \ Of(c.turn, cs) : a.turn # c.turn /\ a.count # c.count
  BY DEF Fits, Of
<1>4. \A a, b \in InMemory(cs, c) : a.turn = b.turn <=> a.count = b.count
  BY <1>1, <1>3
<1> QED
  BY <1>1, <1>2, <1>4

-----------------------------------------------------------------------------
(* The kinds of job.                                                       *)

LEMMA Kinds ==
    ASSUME WorkersTyped
    PROVE  /\ job.at \in {"capture", "captured"} <=> job \in Capturing
           /\ job.at = "baseline" <=> job \in Baseline
           /\ job.at \in {"rollback", "delete", "finish"} <=> job \in Reverting
           /\ ingesting.at = "placeholder" <=> ingesting \in Placeholder
  BY DEF WorkersTyped, Idle, Placeholder, Baseline, Capturing, Reverting

LEMMA IdleKind ==
    /\ Idle.at = "idle"
    /\ Idle \notin Placeholder /\ Idle \notin Capturing
  BY DEF Idle, Placeholder, Capturing

(* What leaves checkpoints, refs and jobs alone keeps the invariants.      *)
Invariants == RealOnes /\ FilesInv /\ AgreeInv
LEMMA SameBooks ==
    ASSUME Invariants, UNCHANGED <<checkpoints, rows, refs, ingesting, job>>,
           mishaps \subseteq mishaps'
    PROVE  Invariants'
  BY DEF Invariants, RealOnes, FilesInv, RefsOfJob, Claimed, AgreeInv, Undisturbed,
         Fits, IsReal

(* The events of the queues.                                               *)
LEMMA NextEvents ==
    ASSUME StreamsTyped
    PROVE  /\ toIngestion # <<>> => /\ Head(toIngestion) \in RuntimeEvent
                                    /\ Tail(toIngestion) \in Seq(RuntimeEvent)
           /\ runtime # <<>> => /\ Head(runtime) \in RuntimeEvent
                                /\ Tail(runtime) \in Seq(RuntimeEvent)
           /\ domain # <<>> => /\ Head(domain) \in DomainEvent
                               /\ Tail(domain) \in Seq(DomainEvent)
<1>1. ASSUME NEW S, NEW s \in Seq(S), s # <<>>
      PROVE  Head(s) \in S /\ Tail(s) \in Seq(S)
  BY <1>1, HeadTailProperties
<1> HIDE DEF RuntimeEvent, DomainEvent
<1> QED
  BY <1>1 DEF StreamsTyped

-----------------------------------------------------------------------------
(* The steps of user, agent and the session's state: no checkpoint, no ref *)
(* and no job changes.                                                     *)

CheckpointInv == Typed /\ Invariants

LEMMA CheckpointInit == Init => CheckpointInv
<1> SUFFICES ASSUME Init PROVE CheckpointInv
  OBVIOUS
<1>1. AgentTyped
  BY CheckpointAssumption DEF Init, AgentTyped, Tree, None, Turn
<1>2. ThreadTyped
  BY DEF Init, ThreadTyped, Bounded
<1>3. DOMAIN refs = {}
  BY DEF Init
<1>4. RefsTyped
  BY <1>3 DEF RefsTyped
<1>5. StreamsTyped /\ WorkersTyped
  BY DEF Init, StreamsTyped, WorkersTyped
<1>6. Invariants
  BY IdleKind
     DEF Init, Invariants, RealOnes, FilesInv, RefsOfJob, Claimed, AgreeInv, Idle
<1> QED
  BY <1>1, <1>2, <1>4, <1>5, <1>6 DEF CheckpointInv, Typed

LEMMA UserStep ==
    ASSUME CheckpointInv, Send \/ \E c \in checkpoints : AskRevert(c)
    PROVE  CheckpointInv'
<1>1. Typed /\ AgentTyped /\ StreamsTyped /\ Invariants
  BY DEF CheckpointInv, Typed
<1>2. UNCHANGED <<checkpoints, rows, refs, ingesting, job, mishaps>>
  BY DEF Send, AskRevert, thread, workers, history
<1>3. Invariants'
  BY <1>1, <1>2, SameBooks
<1>4. /\ UNCHANGED <<tree, edits, running, started, conversation, endTree,
                     active, toIngestion, runtime>>
      /\ requests' = requests \/ (requests' = requests + 1
                                  /\ started + requests < MaxTurns)
  BY DEF Send, AskRevert, thread, agent, history
<1>5. AgentTyped' /\ ThreadTyped' /\ RefsTyped' /\ WorkersTyped'
  BY <1>1, <1>2, <1>4, CheckpointAssumption
     DEF AgentTyped, Typed, ThreadTyped, RefsTyped, WorkersTyped, Bounded
<1>6. PICK e \in DomainEvent : domain' = Append(domain, e)
  <2>1. [type |-> "start"] \in DomainEvent
    BY DEF DomainEvent
  <2>2. \A c \in checkpoints :
           [type |-> "revert", count |-> c.count - 1] \in DomainEvent
    BY <1>1 DEF Typed, ThreadTyped, Checkpoint, DomainEvent
  <2> QED
    BY <2>1, <2>2 DEF Send, AskRevert
<1>7. StreamsTyped'
  BY <1>1, <1>4, <1>6, AppendProperties DEF StreamsTyped
<1> QED
  BY <1>3, <1>5, <1>7 DEF CheckpointInv, Typed

LEMMA AgentStep ==
    ASSUME CheckpointInv,
           \/ StartTurn \/ Edit
           \/ \E i \in BOOLEAN : EndTurn(i) \/ EndTurnUnheard(i)
    PROVE  CheckpointInv'
<1>1. Typed /\ AgentTyped /\ StreamsTyped /\ WorkersTyped /\ Invariants
  BY DEF CheckpointInv, Typed
<1>2. UNCHANGED <<checkpoints, rows, active, refs, ingesting, job, domain>>
  BY DEF StartTurn, Edit, EndTurn, EndTurnUnheard, Finished, Emit, thread, workers
<1>3. mishaps \subseteq mishaps' /\ mishaps' \subseteq mishaps \cup Mishap
  BY DEF StartTurn, Edit, EndTurn, EndTurnUnheard, Note, history, Mishap
<1>4. Invariants'
  BY <1>1, <1>2, <1>3, SameBooks
<1>5. ThreadTyped' /\ RefsTyped' /\ WorkersTyped'
  BY <1>1, <1>2, <1>3 DEF Typed, ThreadTyped, RefsTyped, WorkersTyped, Bounded
<1>6. ASSUME NEW e \in RuntimeEvent, Emit(e) PROVE StreamsTyped'
  BY <1>1, <1>6, AppendProperties DEF StreamsTyped, Emit
<1>7. CASE StartTurn
  <2>1. /\ UNCHANGED <<tree, edits, endTree>>
        /\ requests > 0 /\ requests' = requests - 1
        /\ started' = started + 1 /\ running' = started + 1
        /\ conversation' = Append(conversation, started + 1)
        /\ Emit([type |-> "started", turn |-> started + 1])
    BY <1>7 DEF StartTurn
  <2>2. started + 1 \in Turn
    BY <1>1, <2>1, CheckpointAssumption DEF AgentTyped, Turn
  <2>3. AgentTyped'
    BY <1>1, <2>1, <2>2, CheckpointAssumption, AppendProperties DEF AgentTyped
  <2>4. [type |-> "started", turn |-> started + 1] \in RuntimeEvent
    BY <2>2 DEF RuntimeEvent
  <2> QED
    BY <1>4, <1>5, <1>6, <2>1, <2>3, <2>4 DEF CheckpointInv, Typed
<1>8. CASE Edit
  <2>1. /\ running # None /\ edits < MaxEdits
        /\ edits' = edits + 1 /\ tree' = edits + 1
        /\ UNCHANGED <<running, started, requests, conversation, runtime, endTree>>
        /\ \/ UNCHANGED toIngestion
           \/ toIngestion' = Append(toIngestion, [type |-> "diff", turn |-> running])
    BY <1>8 DEF Edit, history
  <2>2. AgentTyped'
    BY <1>1, <2>1, CheckpointAssumption DEF AgentTyped, Tree
  <2>3. [type |-> "diff", turn |-> running] \in RuntimeEvent
    BY <1>1, <2>1 DEF RuntimeEvent, AgentTyped
  <2>4. StreamsTyped'
    BY <1>1, <1>2, <2>1, <2>3, AppendProperties DEF StreamsTyped
  <2> QED
    BY <1>4, <1>5, <2>2, <2>4 DEF CheckpointInv, Typed
<1>9. ASSUME NEW i \in BOOLEAN, EndTurn(i) \/ EndTurnUnheard(i) PROVE CheckpointInv'
  <2>1. /\ running # None /\ running' = None
        /\ endTree' = [endTree EXCEPT ![running] = tree]
        /\ UNCHANGED <<tree, edits, started, requests, conversation>>
    BY <1>9 DEF EndTurn, EndTurnUnheard, Finished
  <2>2. AgentTyped'
    BY <1>1, <2>1 DEF AgentTyped
  <2>3. Completed(i) \in RuntimeEvent
    BY <1>1, <2>1 DEF RuntimeEvent, AgentTyped, Status, Completed
  <2>4. \/ Emit(Completed(i))
        \/ /\ toIngestion' = Append(toIngestion, Completed(i))
           /\ UNCHANGED <<runtime, domain>>
    BY <1>9 DEF EndTurn, EndTurnUnheard
  <2>5. StreamsTyped'
    BY <1>1, <1>6, <2>3, <2>4, AppendProperties DEF StreamsTyped
  <2> QED
    BY <1>4, <1>5, <2>2, <2>5 DEF CheckpointInv, Typed
<1> QED
  BY <1>7, <1>8, <1>9

LEMMA SessionStep ==
    ASSUME CheckpointInv, IngestStarted \/ IngestCompleted
    PROVE  CheckpointInv'
<1>1. Typed /\ StreamsTyped /\ Invariants
  BY DEF CheckpointInv, Typed
<1>2. /\ UNCHANGED <<checkpoints, rows, refs, ingesting, job, mishaps, runtime, domain>>
      /\ UNCHANGED <<tree, edits, running, started, requests, conversation, endTree>>
  BY DEF IngestStarted, IngestCompleted, agent, workers, history
<1>3. Invariants'
  BY <1>1, <1>2, SameBooks
<1>4. /\ toIngestion # <<>> /\ toIngestion' = Tail(toIngestion)
      /\ active' \in {active, None, Head(toIngestion).turn}
  BY DEF IngestStarted, IngestCompleted, Ingest
<1>5. Head(toIngestion).turn \in Turn /\ StreamsTyped'
  <2>1. /\ Head(toIngestion) \in RuntimeEvent
        /\ Tail(toIngestion) \in Seq(RuntimeEvent)
    BY <1>1, <1>4, NextEvents
  <2> QED
    BY <1>1, <1>2, <1>4, <2>1 DEF StreamsTyped, RuntimeEvent
<1>6. AgentTyped' /\ ThreadTyped' /\ RefsTyped' /\ WorkersTyped'
  BY <1>1, <1>2, <1>4, <1>5
     DEF Typed, AgentTyped, ThreadTyped, RefsTyped, WorkersTyped, Bounded
<1> QED
  BY <1>3, <1>5, <1>6 DEF CheckpointInv, Typed

-----------------------------------------------------------------------------
(* Placeholders.                                                           *)

LEMMA IngestDiffStep ==
    ASSUME CheckpointInv, IngestDiff
    PROVE  CheckpointInv'
<1> DEFINE t == Head(toIngestion).turn
           n == CurrentCount(checkpoints) + 1
<1>1. Typed /\ StreamsTyped /\ ThreadTyped /\ WorkersTyped /\ Invariants
  BY DEF CheckpointInv, Typed
<1>2. /\ UNCHANGED <<tree, edits, running, started, requests, conversation, endTree>>
      /\ UNCHANGED <<checkpoints, rows, active, refs, runtime, domain, job, mishaps>>
  BY DEF IngestDiff, agent, thread, history
<1>3. /\ toIngestion # <<>> /\ toIngestion' = Tail(toIngestion)
      /\ \/ ingesting' = Idle
         \/ /\ Of(t, checkpoints) = {}
            /\ ingesting' =
                  [at |-> "placeholder", view |-> checkpoints,
                   checkpoint |-> [turn |-> t, count |-> n, status |-> "missing",
                                   git |-> FALSE]]
  BY DEF IngestDiff, Ingest
<1>4. t \in Turn /\ StreamsTyped'
  <2>1. /\ Head(toIngestion) \in RuntimeEvent
        /\ Tail(toIngestion) \in Seq(RuntimeEvent)
    BY <1>1, <1>3, NextEvents
  <2> QED
    BY <1>1, <1>2, <1>3, <2>1 DEF StreamsTyped, RuntimeEvent
<1>5. n \in Nat /\ \A c \in checkpoints : c.count # n
  BY <1>1, NextCount DEF ThreadTyped
<1> HIDE DEF t, n
<1>6. ingesting' \in {Idle} \cup Placeholder
  <2> DEFINE c == [turn |-> t, count |-> n, status |-> "missing", git |-> FALSE]
  <2>1. c \in Checkpoint
    BY <1>4, <1>5 DEF Checkpoint, Status
  <2>3. \/ ingesting' = Idle
        \/ ingesting' = [at |-> "placeholder", view |-> checkpoints, checkpoint |-> c]
    BY <1>3
  <2> HIDE DEF c
  <2>2. checkpoints \in SUBSET Checkpoint
    BY <1>1 DEF ThreadTyped
  <2> QED
    BY <2>1, <2>2, <2>3 DEF Placeholder
<1>7. AgentTyped' /\ ThreadTyped' /\ RefsTyped' /\ WorkersTyped'
  BY <1>1, <1>2, <1>6
     DEF Typed, AgentTyped, ThreadTyped, RefsTyped, WorkersTyped, Bounded
<1>8. ASSUME ingesting' \in Placeholder
      PROVE  /\ ~ IsReal(ingesting'.checkpoint) /\ ~ ingesting'.checkpoint.git
             /\ Fits(ingesting'.checkpoint, ingesting'.view)
  <2>1. /\ Of(t, checkpoints) = {}
        /\ ingesting'.checkpoint.turn = t /\ ingesting'.checkpoint.count = n
        /\ ingesting'.view = checkpoints
        /\ ~ IsReal(ingesting'.checkpoint) /\ ~ ingesting'.checkpoint.git
    BY <1>3, <1>8, IdleKind DEF IsReal
  <2> QED
    BY <1>5, <2>1 DEF Fits, Of
<1>9. Invariants'
  BY <1>1, <1>2, <1>8
     DEF Invariants, RealOnes, FilesInv, RefsOfJob, Claimed, AgreeInv, Undisturbed,
         Fits, IsReal
<1> QED
  BY <1>4, <1>7, <1>9 DEF CheckpointInv, Typed

LEMMA DispatchPlaceholderStep ==
    ASSUME CheckpointInv, DispatchPlaceholder
    PROVE  CheckpointInv'
<1> DEFINE c == ingesting.checkpoint
<1>1. Typed /\ StreamsTyped /\ ThreadTyped /\ WorkersTyped /\ Invariants
  BY DEF CheckpointInv, Typed
<1>2. /\ UNCHANGED <<tree, edits, running, started, requests, conversation, endTree>>
      /\ UNCHANGED <<active, refs, toIngestion, runtime, job>>
      /\ ingesting' = Idle
  BY DEF DispatchPlaceholder, Complete, agent
<1>3. /\ checkpoints' = InMemory(checkpoints, c)
      /\ rows' = InTable(rows, c)
      /\ domain' = Append(domain, [type |-> "diff", checkpoint |-> c])
  BY DEF DispatchPlaceholder, Complete
<1>4. /\ mishaps \subseteq mishaps' /\ mishaps' \subseteq Mishap
      /\ "failed" \in mishaps' => "failed" \in mishaps
      /\ ingesting.view # checkpoints => "raced" \in mishaps'
  BY <1>1 DEF DispatchPlaceholder, WorkersTyped, Mishap
<1>5. ingesting \in Placeholder
  BY <1>1, Kinds DEF DispatchPlaceholder
<1>6. c \in Checkpoint /\ ~ IsReal(c) /\ ~ c.git
  BY <1>1, <1>5 DEF Placeholder, Invariants, RealOnes
<1> HIDE DEF c
<1>7. /\ checkpoints' \subseteq checkpoints \cup {c}
      /\ rows' \subseteq rows \cup {c}
      /\ Bounded(checkpoints')
  BY <1>1, <1>3, <1>6, Projecting DEF ThreadTyped
<1>8. AgentTyped' /\ ThreadTyped' /\ RefsTyped' /\ WorkersTyped'
  BY <1>1, <1>2, <1>4, <1>6, <1>7
     DEF Typed, AgentTyped, ThreadTyped, RefsTyped, WorkersTyped, Bounded
<1>9. StreamsTyped'
  <2>1. [type |-> "diff", checkpoint |-> c] \in DomainEvent
    BY <1>6 DEF DomainEvent
  <2> QED
    BY <1>1, <1>2, <1>3, <2>1, AppendProperties DEF StreamsTyped
<1>10. RealOnes'
  BY <1>1, <1>2, <1>6, <1>7, IdleKind DEF Invariants, RealOnes, IsReal
<1>11. FilesInv'
  BY <1>1, <1>2, <1>4, <1>6, <1>7 DEF Invariants, FilesInv, RefsOfJob, Claimed
<1>12. AgreeInv'
  <2> SUFFICES ASSUME Undisturbed'
               PROVE  /\ rows' = checkpoints'
                      /\ \A a, b \in checkpoints' :
                            a.turn = b.turn <=> a.count = b.count
                      /\ job \in Capturing => Fits(job.checkpoint, job.view)
    BY <1>2, IdleKind DEF AgreeInv, Fits, IsReal
  <2>1. Undisturbed /\ ingesting.view = checkpoints
    BY <1>4 DEF Undisturbed
  <2>2. /\ rows = checkpoints
        /\ \A a, b \in checkpoints : a.turn = b.turn <=> a.count = b.count
        /\ Fits(c, checkpoints)
        /\ job \in Capturing => Fits(job.checkpoint, job.view)
    BY <1>1, <1>5, <2>1 DEF Invariants, AgreeInv, c
  <2>3. /\ InMemory(checkpoints, c) = InTable(checkpoints, c)
        /\ \A a, b \in InMemory(checkpoints, c) :
              a.turn = b.turn <=> a.count = b.count
    BY <1>1, <1>6, <2>2, ProjectedAlike DEF ThreadTyped
  <2> QED
    BY <1>3, <2>2, <2>3
<1> QED
  BY <1>8, <1>9, <1>10, <1>11, <1>12 DEF CheckpointInv, Typed, Invariants

-----------------------------------------------------------------------------
(* The reactor takes an event.                                             *)

LEMMA TakenTyped ==
    ASSUME Typed,
           \/ \E type \in {"start", "diff", "revert"} : TakeDomain(type)
           \/ \E type \in {"started", "completed"} : TakeRuntime(type)
    PROVE  StreamsTyped' /\ job = Idle
<1>1. StreamsTyped /\ job = Idle
  BY DEF Typed, TakeDomain, TakeRuntime
<1>2. CASE \E type : TakeDomain(type)
  <2>1. domain # <<>> /\ domain' = Tail(domain) /\ UNCHANGED <<toIngestion, runtime>>
    BY <1>2 DEF TakeDomain
  <2> QED
    BY <1>1, <2>1, NextEvents DEF StreamsTyped
<1>3. CASE \E type : TakeRuntime(type)
  <2>1. runtime # <<>> /\ runtime' = Tail(runtime) /\ UNCHANGED <<toIngestion, domain>>
    BY <1>3 DEF TakeRuntime
  <2> QED
    BY <1>1, <2>1, NextEvents DEF StreamsTyped
<1> QED
  BY <1>1, <1>2, <1>3

(* A new job for an idle worker.                                           *)
LEMMA NewJob ==
    ASSUME Typed, Invariants, job = Idle,
           UNCHANGED <<checkpoints, rows, refs, ingesting>>,
           mishaps \subseteq mishaps', mishaps' \subseteq Mishap,
           job' \in {Idle} \cup Baseline \cup Capturing \cup Reverting,
           job' \in Baseline => job'.count \notin DOMAIN refs,
           job' \in Capturing =>
               /\ job'.at = "capture" /\ job'.view = checkpoints
               /\ job'.checkpoint.git
               /\ Undisturbed' => Fits(job'.checkpoint, checkpoints),
           job' \in Reverting =>
               job'.at = "rollback" /\ \A k \in job'.stale : k > job'.count
    PROVE  Invariants' /\ WorkersTyped'
<1>1. WorkersTyped'
  BY DEF Typed, WorkersTyped
<1>2. /\ job'.at \in {"capture", "captured"} <=> job' \in Capturing
      /\ job'.at = "baseline" <=> job' \in Baseline
      /\ job'.at \in {"rollback", "delete", "finish"} <=> job' \in Reverting
  BY <1>1, Kinds DEF WorkersTyped, Idle, Placeholder, Baseline, Capturing, Reverting
<1>3. RealOnes'
  BY DEF Invariants, RealOnes, IsReal
<1>4. FilesInv'
  BY <1>2, IdleKind DEF Invariants, FilesInv, RefsOfJob, Claimed
<1>5. AgreeInv'
  BY DEF Invariants, AgreeInv, Undisturbed, Fits, IsReal
<1> QED
  BY <1>1, <1>3, <1>4, <1>5 DEF Invariants

LEMMA TakeStartStep ==
    ASSUME CheckpointInv, TakeStart
    PROVE  CheckpointInv'
<1> DEFINE n == CurrentCount(checkpoints)
<1>1. Typed /\ ThreadTyped /\ Invariants /\ mishaps \subseteq Mishap
  BY DEF CheckpointInv, Typed, WorkersTyped
<1>2. StreamsTyped' /\ job = Idle
  BY <1>1, TakenTyped DEF TakeStart
<1>3. /\ UNCHANGED <<tree, edits, running, started, requests, conversation, endTree>>
      /\ UNCHANGED <<checkpoints, rows, active, refs, ingesting, mishaps>>
      /\ \/ n \notin DOMAIN refs /\ job' = [at |-> "baseline", count |-> n]
         \/ job' = Idle
  BY DEF TakeStart, agent, thread, history
<1>4. n \in Nat
  BY <1>1, LargestCount DEF ThreadTyped
<1> HIDE DEF n
<1>5. /\ job' \in {Idle} \cup Baseline
      /\ job' \in Baseline => job'.count \notin DOMAIN refs
      /\ job' \notin Capturing /\ job' \notin Reverting
  BY <1>3, <1>4 DEF Idle, Baseline, Capturing, Reverting
<1>6. Invariants' /\ WorkersTyped'
  BY <1>1, <1>2, <1>3, <1>5, NewJob
<1>7. AgentTyped' /\ ThreadTyped' /\ RefsTyped'
  BY <1>1, <1>3 DEF Typed, AgentTyped, ThreadTyped, RefsTyped, Bounded
<1> QED
  BY <1>2, <1>6, <1>7 DEF CheckpointInv, Typed

LEMMA Captures ==
    ASSUME ThreadTyped, NEW t \in Turn, NEW n \in Nat, NEW s \in Status
    PROVE  LET j == Capture(t, n, s) IN
           /\ j \in Capturing /\ j \notin Baseline /\ j \notin Reverting
           /\ j.at = "capture" /\ j.view = checkpoints
           /\ j.checkpoint.git
           /\ j.checkpoint.turn = t /\ j.checkpoint.count = n
<1>1. [turn |-> t, count |-> n, status |-> s, git |-> TRUE] \in Checkpoint
  BY DEF Checkpoint
<1>2. checkpoints \in SUBSET Checkpoint
  BY DEF ThreadTyped
<1> QED
  BY <1>1, <1>2 DEF Capture, Capturing, Baseline, Reverting

LEMMA IdleIsNoJob ==
    Idle \notin Baseline /\ Idle \notin Capturing /\ Idle \notin Reverting
  BY DEF Idle, Baseline, Capturing, Reverting

LEMMA TakeCompletedStep ==
    ASSUME CheckpointInv, TakeCompleted
    PROVE  CheckpointInv'
<1> DEFINE e == Head(runtime)
           j == Capture(e.turn, CountFor(e.turn), e.status)
<1>1. Typed /\ ThreadTyped /\ StreamsTyped /\ Invariants /\ mishaps \subseteq Mishap
  BY DEF CheckpointInv, Typed, WorkersTyped
<1>2. StreamsTyped' /\ job = Idle
  BY <1>1, TakenTyped DEF TakeCompleted
<1>3. /\ UNCHANGED <<tree, edits, running, started, requests, conversation, endTree>>
      /\ UNCHANGED <<checkpoints, rows, active, refs, ingesting>>
      /\ job' = Idle \/ (job' = j /\ ~ HasReal(e.turn))
      /\ mishaps \subseteq mishaps' /\ mishaps' \subseteq mishaps \cup {"overtaken"}
  BY DEF TakeCompleted, agent, thread, Note
<1>4. e.turn \in Turn /\ e.status \in Status
  <2>1. runtime # <<>> /\ e.type = "completed"
    BY DEF TakeCompleted, TakeRuntime
  <2>2. e \in RuntimeEvent
    BY <1>1, <2>1, NextEvents
  <2> QED
    BY <2>1, <2>2 DEF RuntimeEvent
<1> HIDE DEF e
<1>5. /\ CountFor(e.turn) \in Nat
      /\ \/ \E c \in Of(e.turn, checkpoints) : CountFor(e.turn) = c.count
         \/ /\ Of(e.turn, checkpoints) = {}
            /\ \A c \in checkpoints : c.count # CountFor(e.turn)
  BY <1>1, <1>4, TheCountFor
<1>6. /\ j \in Capturing /\ j \notin Baseline /\ j \notin Reverting
      /\ j.at = "capture" /\ j.view = checkpoints
      /\ j.checkpoint.git
      /\ j.checkpoint.turn = e.turn /\ j.checkpoint.count = CountFor(e.turn)
  BY <1>1, <1>4, <1>5, Captures
<1> HIDE DEF j
<1>7. ASSUME Undisturbed, ~ HasReal(e.turn) PROVE Fits(j.checkpoint, checkpoints)
  <2>1. \A c, d \in checkpoints : c.turn = d.turn <=> c.count = d.count
    BY <1>1, <1>7 DEF Invariants, AgreeInv
  <2>2. \A d \in checkpoints : d.turn = e.turn => ~ IsReal(d)
    BY <1>7 DEF HasReal, Of
  <2>3. \A d \in checkpoints : d.count = CountFor(e.turn) <=> d.turn = e.turn
    BY <1>5, <2>1 DEF Of
  <2> QED
    BY <1>6, <2>2, <2>3 DEF Fits
<1>8. Undisturbed' => Undisturbed
  BY <1>3 DEF Undisturbed
<1>9. /\ job' \in {Idle} \cup Capturing
      /\ job' \notin Baseline /\ job' \notin Reverting
      /\ job' \in Capturing =>
            /\ job'.at = "capture" /\ job'.view = checkpoints
            /\ job'.checkpoint.git
            /\ Undisturbed' => Fits(job'.checkpoint, checkpoints)
  BY <1>3, <1>6, <1>7, <1>8, IdleIsNoJob
<1>10. mishaps' \subseteq Mishap
  BY <1>1, <1>3 DEF Mishap
<1>11. Invariants' /\ WorkersTyped'
  BY <1>1, <1>2, <1>3, <1>9, <1>10, NewJob
<1>12. AgentTyped' /\ ThreadTyped' /\ RefsTyped'
  BY <1>1, <1>3 DEF Typed, AgentTyped, ThreadTyped, RefsTyped, Bounded
<1> QED
  BY <1>2, <1>11, <1>12 DEF CheckpointInv, Typed

LEMMA TakeDiffStep ==
    ASSUME CheckpointInv, TakeDiff
    PROVE  CheckpointInv'
<1> DEFINE c == Head(domain).checkpoint
           j == Capture(c.turn, c.count, "ready")
<1>1. Typed /\ ThreadTyped /\ StreamsTyped /\ Invariants /\ mishaps \subseteq Mishap
  BY DEF CheckpointInv, Typed, WorkersTyped
<1>2. StreamsTyped' /\ job = Idle
  BY <1>1, TakenTyped DEF TakeDiff
<1>3. /\ UNCHANGED <<tree, edits, running, started, requests, conversation, endTree>>
      /\ UNCHANGED <<checkpoints, rows, active, refs, ingesting>>
      /\ \/ job' = Idle
         \/ /\ job' = j /\ ~ HasReal(c.turn)
            /\ c \notin checkpoints => "revived" \in mishaps'
      /\ mishaps \subseteq mishaps' /\ mishaps' \subseteq mishaps \cup {"revived"}
  BY DEF TakeDiff, agent, thread, Note
<1>4. c \in Checkpoint
  <2>1. domain # <<>> /\ Head(domain).type = "diff"
    BY DEF TakeDiff, TakeDomain
  <2>2. Head(domain) \in DomainEvent
    BY <1>1, <2>1, NextEvents
  <2> QED
    BY <2>1, <2>2 DEF DomainEvent
<1>5. c.turn \in Turn /\ c.count \in Nat /\ "ready" \in Status
  BY <1>4 DEF Checkpoint, Status
<1> HIDE DEF c
<1>6. /\ j \in Capturing /\ j \notin Baseline /\ j \notin Reverting
      /\ j.at = "capture" /\ j.view = checkpoints
      /\ j.checkpoint.git
      /\ j.checkpoint.turn = c.turn /\ j.checkpoint.count = c.count
  BY <1>1, <1>5, Captures
<1> HIDE DEF j
<1>7. ASSUME Undisturbed, ~ HasReal(c.turn), c \in checkpoints
      PROVE  Fits(j.checkpoint, checkpoints)
  <2>1. \A a, b \in checkpoints : a.turn = b.turn <=> a.count = b.count
    BY <1>1, <1>7 DEF Invariants, AgreeInv
  <2>2. \A d \in checkpoints : d.turn = c.turn => ~ IsReal(d)
    BY <1>7 DEF HasReal, Of
  <2>3. \A d \in checkpoints : d.count = c.count <=> d.turn = c.turn
    BY <1>7, <2>1
  <2> QED
    BY <1>6, <2>2, <2>3 DEF Fits
<1>8. Undisturbed' => Undisturbed /\ "revived" \notin mishaps'
  BY <1>3 DEF Undisturbed
<1>9. /\ job' \in {Idle} \cup Capturing
      /\ job' \notin Baseline /\ job' \notin Reverting
      /\ job' \in Capturing =>
            /\ job'.at = "capture" /\ job'.view = checkpoints
            /\ job'.checkpoint.git
            /\ Undisturbed' => Fits(job'.checkpoint, checkpoints)
  BY <1>3, <1>6, <1>7, <1>8, IdleIsNoJob
<1>10. mishaps' \subseteq Mishap
  BY <1>1, <1>3 DEF Mishap
<1>11. Invariants' /\ WorkersTyped'
  BY <1>1, <1>2, <1>3, <1>9, <1>10, NewJob
<1>12. AgentTyped' /\ ThreadTyped' /\ RefsTyped'
  BY <1>1, <1>3 DEF Typed, AgentTyped, ThreadTyped, RefsTyped, Bounded
<1> QED
  BY <1>2, <1>11, <1>12 DEF CheckpointInv, Typed

LEMMA TakeRevertStep ==
    ASSUME CheckpointInv, TakeRevert
    PROVE  CheckpointInv'
<1> DEFINE n == Head(domain).count
           current == CurrentCount(checkpoints)
           j == [at |-> "rollback", count |-> n, turns |-> current - n,
                 stale |-> Stale(n)]
<1>1. Typed /\ AgentTyped /\ ThreadTyped /\ StreamsTyped /\ RefsTyped /\ Invariants
      /\ mishaps \subseteq Mishap
  BY DEF CheckpointInv, Typed, WorkersTyped
<1>2. StreamsTyped' /\ job = Idle
  BY <1>1, TakenTyped DEF TakeRevert
<1>3. /\ UNCHANGED <<edits, running, started, requests, conversation, endTree>>
      /\ UNCHANGED <<checkpoints, rows, active, refs, ingesting>>
      /\ job' = Idle \/ (job' = j /\ (n = 0 \/ n <= current))
      /\ tree' \in {tree, 0} \/ (n \in DOMAIN refs /\ tree' = refs[n])
      /\ mishaps \subseteq mishaps' /\ mishaps' \subseteq mishaps \cup {"overlapped"}
  BY DEF TakeRevert, thread, Note
<1>4. n \in Int
  <2>1. domain # <<>> /\ Head(domain).type = "revert"
    BY DEF TakeRevert, TakeDomain
  <2>2. Head(domain) \in DomainEvent
    BY <1>1, <2>1, NextEvents
  <2> QED
    BY <2>1, <2>2 DEF DomainEvent
<1>5. current \in Nat
  BY <1>1, LargestCount DEF ThreadTyped
<1>6. Stale(n) \in SUBSET Nat /\ \A k \in Stale(n) : k > n
  BY <1>1 DEF Stale, ThreadTyped, Checkpoint
<1> HIDE DEF n, current
<1>7. n = 0 \/ n <= current => j \in Reverting
  BY <1>4, <1>5, <1>6 DEF Reverting
<1>8. j \notin Baseline /\ j \notin Capturing
  BY DEF Baseline, Capturing
<1>9. j.at = "rollback" /\ j.stale = Stale(n) /\ j.count = n
  OBVIOUS
<1> HIDE DEF j
<1>10. /\ job' \in {Idle} \cup Reverting
       /\ job' \notin Baseline /\ job' \notin Capturing
       /\ job' \in Reverting =>
             job'.at = "rollback" /\ \A k \in job'.stale : k > job'.count
  BY <1>3, <1>6, <1>7, <1>8, <1>9, IdleIsNoJob
<1>11. mishaps' \subseteq Mishap
  BY <1>1, <1>3 DEF Mishap
<1>12. Invariants' /\ WorkersTyped'
  BY <1>1, <1>2, <1>3, <1>10, <1>11, NewJob
<1>13. AgentTyped'
  <2>1. 0 \in Tree /\ tree' \in Tree
    BY <1>1, <1>3, CheckpointAssumption DEF RefsTyped, AgentTyped, Tree
  <2> QED
    BY <1>1, <1>3, <2>1 DEF AgentTyped
<1>14. ThreadTyped' /\ RefsTyped'
  BY <1>1, <1>3 DEF ThreadTyped, RefsTyped, Bounded
<1> QED
  BY <1>2, <1>12, <1>13, <1>14 DEF CheckpointInv, Typed

-----------------------------------------------------------------------------
(* The reactor goes on with a job.                                         *)

(* A ref more, under the count of the job.                                 *)
LEMMA Stored ==
    ASSUME RefsTyped, NEW n \in Nat, tree \in Tree, Store(n, tree)
    PROVE  RefsTyped' /\ DOMAIN refs' = DOMAIN refs \cup {n}
           /\ \A k \in DOMAIN refs : k # n => refs'[k] = refs[k]
  BY DEF RefsTyped, Store

LEMMA SaveBaselineStep ==
    ASSUME CheckpointInv, SaveBaseline
    PROVE  CheckpointInv'
<1>1. Typed /\ AgentTyped /\ RefsTyped /\ WorkersTyped /\ Invariants
  BY DEF CheckpointInv, Typed
<1>2. /\ UNCHANGED <<tree, edits, running, started, requests, conversation, endTree>>
      /\ UNCHANGED <<checkpoints, rows, active, ingesting, mishaps, toIngestion,
                     runtime, domain>>
      /\ job' = Idle /\ Store(job.count, tree) /\ job.at = "baseline"
  BY DEF SaveBaseline, agent, thread, streams, history
<1>3. job.count \in Nat
  BY <1>1, <1>2, Kinds DEF Baseline
<1>4. RefsTyped' /\ DOMAIN refs \subseteq DOMAIN refs'
  BY <1>1, <1>2, <1>3, Stored DEF AgentTyped
<1>5. AgentTyped' /\ ThreadTyped' /\ StreamsTyped' /\ WorkersTyped'
  BY <1>1, <1>2
     DEF Typed, AgentTyped, ThreadTyped, StreamsTyped, WorkersTyped, Bounded
<1>6. FilesInv'
  BY <1>1, <1>2, <1>4, IdleKind DEF Invariants, FilesInv, RefsOfJob, Claimed
<1>7. RealOnes' /\ AgreeInv'
  BY <1>1, <1>2, IdleKind DEF Invariants, RealOnes, AgreeInv, Undisturbed, Fits, IsReal
<1> QED
  BY <1>4, <1>5, <1>6, <1>7 DEF CheckpointInv, Typed, Invariants

LEMMA SaveStep ==
    ASSUME CheckpointInv, Save
    PROVE  CheckpointInv'
<1>1. Typed /\ AgentTyped /\ RefsTyped /\ WorkersTyped /\ Invariants
  BY DEF CheckpointInv, Typed
<1>2. /\ UNCHANGED <<tree, edits, running, started, requests, conversation, endTree>>
      /\ UNCHANGED <<checkpoints, rows, active, ingesting, mishaps, toIngestion,
                     runtime, domain>>
      /\ job' = [job EXCEPT !.at = "captured"]
      /\ Store(job.checkpoint.count, tree) /\ job.at = "capture"
  BY DEF Save, agent, thread, streams, history
<1>3. job \in Capturing
  BY <1>1, <1>2, Kinds
<1>4. /\ job' \in Capturing /\ job'.at = "captured"
      /\ job'.view = job.view /\ job'.checkpoint = job.checkpoint
  BY <1>2, <1>3 DEF Capturing
<1>5. job.checkpoint.count \in Nat
  BY <1>3 DEF Capturing, Checkpoint
<1>6. RefsTyped' /\ DOMAIN refs' = DOMAIN refs \cup {job.checkpoint.count}
  BY <1>1, <1>2, <1>5, Stored DEF AgentTyped
<1>7. AgentTyped' /\ ThreadTyped' /\ StreamsTyped' /\ WorkersTyped'
  BY <1>1, <1>2, <1>4
     DEF Typed, AgentTyped, ThreadTyped, StreamsTyped, WorkersTyped, Bounded
<1>8. FilesInv'
  BY <1>1, <1>2, <1>4, <1>6 DEF Invariants, FilesInv, RefsOfJob, Claimed
<1>9. RealOnes'
  BY <1>1, <1>2, <1>3, <1>4 DEF Invariants, RealOnes, IsReal
<1>10. AgreeInv'
  BY <1>1, <1>2, <1>3, <1>4 DEF Invariants, AgreeInv, Undisturbed, Fits, IsReal
<1> QED
  BY <1>6, <1>7, <1>8, <1>9, <1>10 DEF CheckpointInv, Typed, Invariants

LEMMA DispatchCaptureStep ==
    ASSUME CheckpointInv, DispatchCapture
    PROVE  CheckpointInv'
<1> DEFINE c == job.checkpoint
<1>1. Typed /\ StreamsTyped /\ ThreadTyped /\ WorkersTyped /\ Invariants
  BY DEF CheckpointInv, Typed
<1>2. /\ UNCHANGED <<tree, edits, running, started, requests, conversation, endTree>>
      /\ UNCHANGED <<active, refs, toIngestion, runtime, ingesting>>
      /\ job' = Idle /\ job.at = "captured"
  BY DEF DispatchCapture, Complete, agent
<1>3. /\ checkpoints' = InMemory(checkpoints, c)
      /\ rows' = InTable(rows, c)
      /\ domain' = Append(domain, [type |-> "diff", checkpoint |-> c])
  BY DEF DispatchCapture, Complete
<1>4. /\ mishaps \subseteq mishaps' /\ mishaps' \subseteq Mishap
      /\ "failed" \in mishaps' => "failed" \in mishaps
      /\ job.view # checkpoints => "raced" \in mishaps'
  BY <1>1 DEF DispatchCapture, WorkersTyped, Mishap, Note
<1>5. job \in Capturing
  BY <1>1, <1>2, Kinds
<1>6. c \in Checkpoint /\ c.git /\ c.count \in DOMAIN refs
  BY <1>1, <1>2, <1>5 DEF Capturing, Invariants, RealOnes, FilesInv, RefsOfJob
<1> HIDE DEF c
<1>7. /\ checkpoints' \subseteq checkpoints \cup {c}
      /\ rows' \subseteq rows \cup {c}
      /\ Bounded(checkpoints')
  BY <1>1, <1>3, <1>6, Projecting DEF ThreadTyped
<1>8. AgentTyped' /\ ThreadTyped' /\ RefsTyped' /\ WorkersTyped'
  BY <1>1, <1>2, <1>4, <1>6, <1>7
     DEF Typed, AgentTyped, ThreadTyped, RefsTyped, WorkersTyped, Bounded
<1>9. StreamsTyped'
  <2>1. [type |-> "diff", checkpoint |-> c] \in DomainEvent
    BY <1>6 DEF DomainEvent
  <2> QED
    BY <1>1, <1>2, <1>3, <2>1, AppendProperties DEF StreamsTyped
<1>10. RealOnes'
  BY <1>1, <1>2, <1>6, <1>7, IdleKind DEF Invariants, RealOnes, IsReal
<1>11. FilesInv'
  <2>1. job.at # "finish"
    BY <1>2
  <2> QED
    BY <1>1, <1>2, <1>4, <1>6, <1>7, <2>1, IdleKind
       DEF Invariants, FilesInv, RefsOfJob, Claimed
<1>12. AgreeInv'
  <2> SUFFICES ASSUME Undisturbed'
               PROVE  /\ rows' = checkpoints'
                      /\ \A a, b \in checkpoints' :
                            a.turn = b.turn <=> a.count = b.count
                      /\ ingesting \in Placeholder =>
                            Fits(ingesting.checkpoint, ingesting.view)
    BY <1>2, IdleKind DEF AgreeInv, Fits, IsReal
  <2>1. Undisturbed /\ job.view = checkpoints
    BY <1>4 DEF Undisturbed
  <2>2. /\ rows = checkpoints
        /\ \A a, b \in checkpoints : a.turn = b.turn <=> a.count = b.count
        /\ Fits(c, checkpoints)
        /\ ingesting \in Placeholder => Fits(ingesting.checkpoint, ingesting.view)
    BY <1>1, <1>5, <2>1 DEF Invariants, AgreeInv, c
  <2>3. /\ InMemory(checkpoints, c) = InTable(checkpoints, c)
        /\ \A a, b \in InMemory(checkpoints, c) :
              a.turn = b.turn <=> a.count = b.count
    BY <1>1, <1>6, <2>2, ProjectedAlike DEF ThreadTyped
  <2> QED
    BY <1>3, <2>2, <2>3
<1> QED
  BY <1>8, <1>9, <1>10, <1>11, <1>12 DEF CheckpointInv, Typed, Invariants

(* A revert.                                                               *)
LEMMA RevertStep ==
    ASSUME CheckpointInv, Rollback \/ DeleteRefs
    PROVE  CheckpointInv'
<1>1. Typed /\ AgentTyped /\ RefsTyped /\ WorkersTyped /\ Invariants
  BY DEF CheckpointInv, Typed
<1>2. /\ UNCHANGED <<tree, edits, running, started, requests, endTree>>
      /\ UNCHANGED <<checkpoints, rows, active, ingesting, mishaps, toIngestion,
                     runtime, domain>>
  BY DEF Rollback, DeleteRefs, agent, thread, streams, history
<1>3. job.at \in {"rollback", "delete"} /\ job \in Reverting
  BY <1>1, Kinds DEF Rollback, DeleteRefs
<1>4. /\ job' \in Reverting /\ job'.at # "rollback"
      /\ job'.count = job.count /\ job'.stale = job.stale
      /\ job'.at = IF Rollback THEN "delete" ELSE "finish"
  BY <1>3 DEF Rollback, DeleteRefs, Reverting
<1>5. conversation' \in Seq(Turn)
  <2>1. CASE Rollback
    <3> DEFINE kept == Len(conversation) - job.turns
    <3>1. conversation \in Seq(Turn) /\ Len(conversation) \in Nat /\ kept \in Int
          /\ kept <= Len(conversation)
      BY <1>1, <1>3, LenProperties DEF AgentTyped, Reverting
    <3>2. \A i \in 1..kept : conversation[i] \in Turn
      BY <3>1, ElementOfSeq
    <3>3. SubSeq(conversation, 1, kept) \in Seq(Turn)
      BY <3>1, <3>2, SubSeqProperties
    <3> QED
      BY <2>1, <3>3 DEF Rollback
  <2>2. CASE DeleteRefs
    BY <1>1, <2>2 DEF DeleteRefs, agent, AgentTyped
  <2> QED
    BY <2>1, <2>2
<1>6. \/ Rollback /\ refs' = refs
      \/ /\ ~ Rollback /\ job.at = "delete" /\ job'.at = "finish"
         /\ refs' = [n \in DOMAIN refs \ job.stale |-> refs[n]]
  BY <1>4 DEF Rollback, DeleteRefs
<1>7. RefsTyped'
  BY <1>1, <1>6 DEF RefsTyped
<1>8. AgentTyped' /\ ThreadTyped' /\ StreamsTyped' /\ WorkersTyped'
  BY <1>1, <1>2, <1>4, <1>5
     DEF Typed, AgentTyped, ThreadTyped, StreamsTyped, WorkersTyped, Bounded
<1>9. job \notin Capturing /\ job' \notin Capturing
  BY <1>3, <1>4 DEF Capturing, Reverting
<1>10. FilesInv'
  <2>1. RefsOfJob' /\ \A k \in job.stale : k > job.count
    BY <1>1, <1>3, <1>4 DEF Invariants, FilesInv, RefsOfJob, Reverting
  <2>2. ASSUME "failed" \notin mishaps, NEW c \in checkpoints \cup rows, c.git
        PROVE  \/ c.count \in DOMAIN refs'
               \/ job'.at = "finish" /\ c.count > job'.count
    <3>1. c.count \in DOMAIN refs
      BY <1>1, <1>3, <2>2 DEF Invariants, FilesInv, Claimed
    <3> QED
      BY <1>4, <1>6, <2>1, <3>1
  <2> QED
    BY <1>2, <2>1, <2>2 DEF FilesInv, Claimed
<1>11. RealOnes' /\ AgreeInv'
  BY <1>1, <1>2, <1>9 DEF Invariants, RealOnes, AgreeInv, Undisturbed, Fits, IsReal
<1> QED
  BY <1>7, <1>8, <1>10, <1>11 DEF CheckpointInv, Typed, Invariants

LEMMA FinishRevertStep ==
    ASSUME CheckpointInv, FinishRevert
    PROVE  CheckpointInv'
<1>1. Typed /\ WorkersTyped /\ ThreadTyped /\ Invariants
  BY DEF CheckpointInv, Typed
<1>2. /\ UNCHANGED <<tree, edits, running, started, requests, conversation, endTree>>
      /\ UNCHANGED <<active, refs, ingesting, mishaps, toIngestion, runtime, domain>>
      /\ job' = Idle /\ job.at = "finish"
      /\ checkpoints' = UpTo(job.count, checkpoints)
      /\ rows' = UpTo(job.count, rows)
  BY DEF FinishRevert, agent, streams, history
<1>3. job \in Reverting
  BY <1>1, <1>2, Kinds
<1>4. /\ checkpoints' \subseteq checkpoints /\ rows' \subseteq rows
      /\ \A c \in checkpoints' \cup rows' : c.count <= job.count
      /\ rows = checkpoints => rows' = checkpoints'
  BY <1>2 DEF UpTo
<1>5. Typed'
  BY <1>1, <1>2, <1>4
     DEF Typed, AgentTyped, ThreadTyped, RefsTyped, StreamsTyped, WorkersTyped, Bounded
<1>6. FilesInv'
  <2>1. \A c \in checkpoints \cup rows : c.count \in Nat
    BY <1>1 DEF ThreadTyped, Checkpoint
  <2>2. job.count \in Int
    BY <1>3 DEF Reverting
  <2>3. \A c \in checkpoints' \cup rows' : ~ (c.count > job.count)
    BY <1>4, <2>1, <2>2
  <2> QED
    BY <1>1, <1>2, <1>4, <2>3, IdleKind DEF Invariants, FilesInv, RefsOfJob, Claimed
<1>7. RealOnes' /\ AgreeInv'
  BY <1>1, <1>2, <1>4, IdleKind
     DEF Invariants, RealOnes, AgreeInv, Undisturbed, Fits, IsReal
<1> QED
  BY <1>5, <1>6, <1>7 DEF CheckpointInv, Invariants

LEMMA FailStep ==
    ASSUME CheckpointInv, Fail
    PROVE  CheckpointInv'
<1>1. Typed /\ WorkersTyped /\ Invariants
  BY DEF CheckpointInv, Typed
<1>2. /\ UNCHANGED <<tree, edits, running, started, requests, conversation, endTree>>
      /\ UNCHANGED <<checkpoints, rows, active, refs, ingesting, toIngestion, runtime,
                     domain>>
      /\ job' = Idle /\ mishaps' = mishaps \cup {"failed"}
  BY DEF Fail, agent, thread, streams
<1>3. Typed'
  BY <1>1, <1>2
     DEF Typed, AgentTyped, ThreadTyped, RefsTyped, StreamsTyped, WorkersTyped, Bounded,
         Mishap
<1>4. FilesInv'
  BY <1>2, IdleKind DEF FilesInv, RefsOfJob
<1>5. RealOnes' /\ AgreeInv'
  BY <1>1, <1>2, IdleKind
     DEF Invariants, RealOnes, AgreeInv, Undisturbed, Fits, IsReal
<1> QED
  BY <1>3, <1>4, <1>5 DEF CheckpointInv, Invariants

LEMMA CheckpointStep == CheckpointInv /\ [Next]_vars => CheckpointInv'
<1> SUFFICES ASSUME CheckpointInv, [Next]_vars PROVE CheckpointInv'
  OBVIOUS
<1>1. CASE UNCHANGED vars
  <2>1. /\ UNCHANGED <<tree, edits, running, started, requests, conversation, endTree>>
        /\ UNCHANGED <<checkpoints, rows, active, refs, ingesting, job, mishaps>>
        /\ UNCHANGED <<toIngestion, runtime, domain>>
    BY <1>1 DEF vars, agent, thread, streams, workers, history
  <2>2. Typed'
    BY <2>1 DEF CheckpointInv, Typed, AgentTyped, ThreadTyped, RefsTyped,
                StreamsTyped, WorkersTyped, Bounded
  <2>3. Invariants'
    BY <2>1, SameBooks DEF CheckpointInv
  <2> QED
    BY <2>2, <2>3 DEF CheckpointInv
<1>2. CASE Next
  <2>1. CASE Reactor
    BY <2>1, TakeStartStep, SaveBaselineStep, TakeCompletedStep, TakeDiffStep, SaveStep,
       DispatchCaptureStep, TakeRevertStep, RevertStep, FinishRevertStep DEF Reactor
  <2>2. CASE Ingestion
    BY <2>2, SessionStep, IngestDiffStep, DispatchPlaceholderStep DEF Ingestion
  <2> QED
    BY <1>2, <2>1, <2>2, UserStep, AgentStep, FailStep DEF Next
<1> QED
  BY <1>1, <1>2

LEMMA CheckpointInvariant == Spec => []CheckpointInv
  BY CheckpointInit, CheckpointStep, PTL DEF Spec

(* A ref that a real checkpoint claims is written by no step but the       *)
(* deletion of a revert.                                                   *)
RefsAreKept ==
    \A c \in checkpoints \cap checkpoints' :
          IsReal(c) /\ mishaps' \cap {"raced", "revived", "failed"} = {}
            => \/ Saved(c.count)' = Saved(c.count)
               \/ job.at = "delete" /\ c.count > job.count

LEMMA KeptStep == CheckpointInv /\ [Next]_vars => [RefsAreKept]_vars
<1> SUFFICES ASSUME CheckpointInv, Next PROVE RefsAreKept
  OBVIOUS
<1>1. Typed /\ AgentTyped /\ RefsTyped /\ WorkersTyped /\ Invariants
  BY DEF CheckpointInv, Typed
<1>2. CASE UNCHANGED refs
  BY <1>2 DEF RefsAreKept, Saved
<1>3. ASSUME NEW n \in Nat, Store(n, tree), UNCHANGED <<checkpoints, mishaps>>,
             \A c \in checkpoints : IsReal(c) /\ Undisturbed /\ "failed" \notin mishaps
                                       => c.count # n
      PROVE  RefsAreKept
  <2>1. /\ DOMAIN refs' = DOMAIN refs \cup {n}
        /\ \A k \in DOMAIN refs : k # n => refs'[k] = refs[k]
    BY <1>1, <1>3, Stored DEF AgentTyped
  <2> QED
    BY <1>3, <2>1 DEF RefsAreKept, Saved, Undisturbed
<1>4. CASE SaveBaseline
  <2>1. /\ job.at = "baseline" /\ Store(job.count, tree)
        /\ UNCHANGED <<checkpoints, mishaps>>
    BY <1>4 DEF SaveBaseline, thread, history
  <2>2. job.count \in Nat /\ job.count \notin DOMAIN refs
    BY <1>1, <2>1, Kinds DEF Baseline, Invariants, FilesInv, RefsOfJob
  <2>3. \A c \in checkpoints :
           IsReal(c) /\ "failed" \notin mishaps => c.count \in DOMAIN refs
    BY <1>1, <2>1 DEF Invariants, RealOnes, FilesInv, Claimed
  <2> QED
    BY <1>3, <2>1, <2>2, <2>3
<1>5. CASE Save
  <2>1. /\ job.at = "capture" /\ Store(job.checkpoint.count, tree)
        /\ UNCHANGED <<checkpoints, mishaps>>
    BY <1>5 DEF Save, thread, history
  <2>2. job \in Capturing /\ job.checkpoint.count \in Nat
    BY <1>1, <2>1, Kinds DEF Capturing, Checkpoint
  <2>3. \A c \in checkpoints :
           IsReal(c) /\ Undisturbed => c.count # job.checkpoint.count
    BY <1>1, <2>2 DEF Invariants, RealOnes, AgreeInv, Fits
  <2> QED
    BY <1>3, <2>1, <2>2, <2>3
<1>6. CASE DeleteRefs
  <2>1. /\ job.at = "delete" /\ \A k \in job.stale : k > job.count
        /\ refs' = [n \in DOMAIN refs \ job.stale |-> refs[n]]
    BY <1>1, <1>6 DEF DeleteRefs, Invariants, FilesInv, RefsOfJob
  <2> QED
    BY <2>1 DEF RefsAreKept, Saved
<1>7. UNCHANGED refs \/ SaveBaseline \/ Save \/ DeleteRefs
  BY DEF Next, Ingestion, Reactor, Send, AskRevert, StartTurn, Edit, EndTurn,
         EndTurnUnheard, Finished, IngestStarted, IngestCompleted, IngestDiff, DispatchPlaceholder, TakeStart,
         TakeCompleted, TakeDiff, DispatchCapture, TakeRevert, Rollback, FinishRevert,
         Fail
<1> QED
  BY <1>2, <1>4, <1>5, <1>6, <1>7

-----------------------------------------------------------------------------
(* The agent's conversation and the counts.                                *)

(* The turns whose end waits in a queue.                                   *)
IsEnd(e) == e.type = "completed"
Ended(q) == {q[i].turn : i \in {k \in DOMAIN q : IsEnd(q[k])}}
InOrder(q) ==
    \A i, j \in DOMAIN q : i < j /\ IsEnd(q[i]) /\ IsEnd(q[j]) => q[i].turn < q[j].turn

(* The agent's turns, in order, and the turns that are spoken of.          *)
Remembered(t) == \E i \in DOMAIN conversation : conversation[i] = t
AgentInv ==
    /\ \A i \in DOMAIN conversation : conversation[i] <= started
    /\ \A i, j \in DOMAIN conversation : i < j => conversation[i] < conversation[j]
    /\ running # None => running = started /\ Remembered(running)
    /\ \A t \in Ended(runtime) \cup Ended(toIngestion) : t # running /\ Remembered(t)
    /\ InOrder(runtime)

(* A placeholder that is being made is of a turn whose end the ingestion   *)
(* has not heard, so no revert can take the turn away unnoticed.           *)
Followed(i) ==
    LET t == toIngestion[i].turn
    IN  \/ t = running
        \/ \E j \in DOMAIN toIngestion :
               j > i /\ IsEnd(toIngestion[j]) /\ toIngestion[j].turn = t
PlaceholderInv ==
    /\ \A i \in DOMAIN toIngestion : toIngestion[i].type = "diff" => Followed(i)
    /\ ingesting \in Placeholder =>
          LET c == ingesting.checkpoint
          IN  /\ c.turn = running \/ c.turn \in Ended(toIngestion)
              /\ Of(c.turn, ingesting.view) = {}
              /\ c.count = CurrentCount(ingesting.view) + 1

(* The counts are 1, 2, 3... and the n-th is that of the n-th turn, but    *)
(* for the checkpoints of turns that a revert has taken from the agent.    *)
Listed(n) == \E c \in checkpoints : c.count = n
Counted(c) ==
    /\ c.count \in DOMAIN conversation
    /\ conversation[c.count] = c.turn
    /\ \A n \in 1..c.count - 1 : Listed(n)
Leftover(c) == job.at \in {"delete", "finish"} /\ c.count > job.count
NumbersInv ==
    /\ \A c \in checkpoints :
          /\ Counted(c) \/ Leftover(c)
          /\ c.count > 0 /\ \A n \in 1..c.count - 1 : Listed(n)
    /\ \A c, d \in checkpoints : c.turn = d.turn => c = d
    /\ job \in Capturing => Counted(job.checkpoint)

(* A turn without a checkpoint is in progress, or its end waits for the    *)
(* reactor, or the reactor is at it; one without files waits for them.     *)
IsCaptured(t) == job \in Capturing /\ job.checkpoint.turn = t
Awaited(t) == t = running \/ t \in Ended(runtime) \/ IsCaptured(t)
Announced(c) == \E i \in DOMAIN domain : domain[i] = [type |-> "diff", checkpoint |-> c]
WorkInv ==
    /\ \A n \in DOMAIN conversation : Listed(n) \/ Awaited(conversation[n])
    /\ \A c \in checkpoints :
          \/ IsReal(c) \/ Announced(c)
          \/ IsCaptured(c.turn) /\ IsReal(job.checkpoint)

(* While the reactor reverts, agent and ingestion are at rest.             *)
AtRest == running = None /\ toIngestion = <<>> /\ runtime = <<>> /\ ingesting = Idle
RevertInv ==
    job \in Reverting =>
        /\ AtRest /\ job.count >= 0
        /\ Len(conversation) = IF job.at = "rollback" THEN job.count + job.turns
                               ELSE job.count

Steps == AgentInv /\ PlaceholderInv /\ NumbersInv /\ WorkInv /\ RevertInv
StepInv == mishaps = {} => Steps
-----------------------------------------------------------------------------
(* Queues of events.                                                       *)

LEMMA EndedAppend ==
    ASSUME NEW q \in Seq(RuntimeEvent), NEW e \in RuntimeEvent
    PROVE  /\ IsEnd(e) => Ended(Append(q, e)) = Ended(q) \cup {e.turn}
           /\ ~ IsEnd(e) => Ended(Append(q, e)) = Ended(q)
           /\ InOrder(q) /\ (\A u \in Ended(q) : u < e.turn) => InOrder(Append(q, e))
<1> DEFINE r == Append(q, e)
<1>1. /\ Len(q) \in Nat /\ DOMAIN q = 1..Len(q) /\ DOMAIN r = 1..Len(q) + 1
      /\ \A i \in DOMAIN q : r[i] = q[i]
      /\ r[Len(q) + 1] = e
  BY AppendProperties, LenProperties
<1> HIDE DEF r
<1>2. \A i \in DOMAIN r : i \in DOMAIN q \/ i = Len(q) + 1
  BY <1>1
<1>3. \A i \in DOMAIN q : i \in DOMAIN r /\ i < Len(q) + 1
  BY <1>1
<1>4. Len(q) + 1 \in DOMAIN r
  BY <1>1
<1>5. /\ IsEnd(e) => Ended(r) = Ended(q) \cup {e.turn}
      /\ ~ IsEnd(e) => Ended(r) = Ended(q)
  BY <1>1, <1>2, <1>3, <1>4 DEF Ended
<1>6. ASSUME InOrder(q), \A u \in Ended(q) : u < e.turn PROVE InOrder(r)
  <2> SUFFICES ASSUME NEW i \in DOMAIN r, NEW j \in DOMAIN r,
                      i < j, IsEnd(r[i]), IsEnd(r[j])
               PROVE  r[i].turn < r[j].turn
    BY DEF InOrder
  <2>1. i \in DOMAIN q
    BY <1>1
  <2>2. r[i] = q[i] /\ q[i].turn \in Ended(q)
    BY <1>1, <2>1 DEF Ended
  <2>3. CASE j \in DOMAIN q
    BY <1>1, <1>6, <2>1, <2>3 DEF InOrder
  <2>4. CASE j = Len(q) + 1
    BY <1>1, <1>6, <2>2, <2>4
  <2> QED
    BY <1>2, <2>3, <2>4
<1> QED
  BY <1>5, <1>6 DEF r

LEMMA EndedTail ==
    ASSUME NEW q \in Seq(RuntimeEvent), q # <<>>
    PROVE  LET h == Head(q) IN
           /\ IsEnd(h) => Ended(q) = Ended(Tail(q)) \cup {h.turn}
           /\ ~ IsEnd(h) => Ended(q) = Ended(Tail(q))
           /\ InOrder(q) => /\ InOrder(Tail(q))
                            /\ IsEnd(h) => \A u \in Ended(Tail(q)) : h.turn < u
<1> DEFINE r == Tail(q)
           h == Head(q)
<1>1. /\ Len(q) \in Nat \ {0} /\ DOMAIN q = 1..Len(q) /\ DOMAIN r = 1..Len(q) - 1
      /\ \A i \in 1..Len(q) - 1 : r[i] = q[i + 1]
      /\ h = q[1]
  BY HeadTailProperties, LenProperties, EmptySeq
<1> HIDE DEF r, h
<1>2. \A i \in DOMAIN q : i = 1 \/ (i - 1 \in DOMAIN r /\ r[i - 1] = q[i])
  BY <1>1
<1>3. \A i \in DOMAIN r : i + 1 \in DOMAIN q /\ r[i] = q[i + 1] /\ 1 < i + 1
  BY <1>1
<1>4. 1 \in DOMAIN q
  BY <1>1
<1>5. /\ IsEnd(h) => Ended(q) = Ended(r) \cup {h.turn}
      /\ ~ IsEnd(h) => Ended(q) = Ended(r)
  <2>1. Ended(r) \subseteq Ended(q) /\ (IsEnd(h) => h.turn \in Ended(q))
    BY <1>1, <1>3, <1>4 DEF Ended
  <2>2. \A u \in Ended(q) : u \in Ended(r) \/ (IsEnd(h) /\ u = h.turn)
    BY <1>1, <1>2 DEF Ended
  <2> QED
    BY <2>1, <2>2
<1>6. ASSUME InOrder(q)
      PROVE  InOrder(r) /\ (IsEnd(h) => \A u \in Ended(r) : h.turn < u)
  <2>1. \A i, j \in DOMAIN r : i < j => i + 1 < j + 1
    BY <1>1
  <2>2. InOrder(r)
    BY <1>3, <1>6, <2>1 DEF InOrder
  <2>3. IsEnd(h) => \A u \in Ended(r) : h.turn < u
    BY <1>1, <1>3, <1>4, <1>6 DEF InOrder, Ended
  <2> QED
    BY <2>2, <2>3
<1> QED
  BY <1>5, <1>6 DEF r, h

LEMMA NothingEnded == Ended(<<>>) = {} /\ InOrder(<<>>)
  BY EmptySeq DEF Ended, InOrder

(* What was announced and is not taken is announced.                       *)
LEMMA AnnouncedAppend ==
    ASSUME StreamsTyped, NEW e, domain' = Append(domain, e)
    PROVE  /\ \A c : Announced(c) => Announced(c)'
           /\ \A c : e = [type |-> "diff", checkpoint |-> c] => Announced(c)'
<1>0. domain \in Seq(DomainEvent)
  BY DEF StreamsTyped
<1> DEFINE S == DomainEvent \cup {e}
<1>1. domain \in Seq(S) /\ e \in S
  <2> HIDE DEF DomainEvent
  <2>1. Len(domain) \in Nat /\ domain \in [1..Len(domain) -> S]
    BY <1>0, LenProperties
  <2> QED
    BY <2>1, SeqDef
<1> HIDE DEF S
<1>2. /\ Len(domain) \in Nat /\ DOMAIN domain = 1..Len(domain)
      /\ DOMAIN domain' = 1..Len(domain) + 1
      /\ \A i \in DOMAIN domain : domain'[i] = domain[i]
      /\ domain'[Len(domain) + 1] = e
  BY <1>1, AppendProperties, LenProperties
<1>3. Len(domain) + 1 \in DOMAIN domain' /\ DOMAIN domain \subseteq DOMAIN domain'
  BY <1>2
<1> QED
  BY <1>2, <1>3 DEF Announced

LEMMA AnnouncedTail ==
    ASSUME StreamsTyped, domain # <<>>, domain' = Tail(domain)
    PROVE  \A c : Announced(c) => \/ Announced(c)'
                                  \/ Head(domain) = [type |-> "diff", checkpoint |-> c]
<1>1. /\ Len(domain) \in Nat \ {0} /\ DOMAIN domain = 1..Len(domain)
      /\ DOMAIN domain' = 1..Len(domain) - 1
      /\ \A i \in 1..Len(domain) - 1 : domain'[i] = domain[i + 1]
      /\ Head(domain) = domain[1]
  BY HeadTailProperties, LenProperties, EmptySeq DEF StreamsTyped
<1>2. \A i \in DOMAIN domain :
         i = 1 \/ (i - 1 \in DOMAIN domain' /\ domain'[i - 1] = domain[i])
  BY <1>1
<1> QED
  BY <1>1, <1>2 DEF Announced

-----------------------------------------------------------------------------
(* The counts that are listed are those up to the current one.             *)
LEMMA ListedCounts ==
    ASSUME ThreadTyped,
           \A c \in checkpoints : c.count > 0 /\ \A n \in 1..c.count - 1 : Listed(n)
    PROVE  /\ CurrentCount(checkpoints) \in Nat
           /\ \A n \in Nat : Listed(n) <=> 0 < n /\ n <= CurrentCount(checkpoints)
<1> DEFINE k == CurrentCount(checkpoints)
<1>1. /\ k \in Nat /\ \A c \in checkpoints : c.count <= k
      /\ k = 0 \/ \E c \in checkpoints : c.count = k
  BY LargestCount DEF ThreadTyped
<1>2. \A c \in checkpoints : c.count \in Nat
  BY DEF ThreadTyped, Checkpoint
<1> HIDE DEF k
<1>3. ASSUME NEW n \in Nat, 0 < n, n <= k PROVE Listed(n)
  <2>1. PICK c \in checkpoints : c.count = k
    BY <1>1, <1>3
  <2>2. n = k \/ n \in 1..c.count - 1
    BY <1>1, <1>3, <2>1
  <2> QED
    BY <2>1, <2>2 DEF Listed
<1>4. ASSUME NEW n \in Nat, Listed(n) PROVE 0 < n /\ n <= k
  BY <1>1, <1>2, <1>4 DEF Listed
<1> QED
  BY <1>1, <1>3, <1>4 DEF k
-----------------------------------------------------------------------------
(* What the invariants say of a step without a mishap.                     *)

LEMMA TurnsAreTurns ==
    ASSUME Typed
    PROVE  /\ None \notin Turn
           /\ DOMAIN conversation = 1..Len(conversation) /\ Len(conversation) \in Nat
           /\ \A i \in DOMAIN conversation : conversation[i] \in Turn
           /\ \A c \in checkpoints : c.turn \in Turn /\ c.count \in Nat
           /\ started \in Nat /\ Turn \subseteq Nat
           /\ Ended(toIngestion) \subseteq Turn /\ Ended(runtime) \subseteq Turn
<1>1. /\ conversation \in Seq(Turn)
      /\ toIngestion \in Seq(RuntimeEvent) /\ runtime \in Seq(RuntimeEvent)
  BY DEF Typed, AgentTyped, StreamsTyped
<1>2. ASSUME NEW q \in Seq(RuntimeEvent) PROVE Ended(q) \subseteq Turn
  <2>1. \A i \in DOMAIN q : q[i] \in RuntimeEvent
    BY ElementOfSeq, LenProperties
  <2> QED
    BY <2>1 DEF Ended, RuntimeEvent
<1>3. \A i \in DOMAIN conversation : conversation[i] \in Turn
  BY <1>1, ElementOfSeq, LenProperties
<1>4. DOMAIN conversation = 1..Len(conversation) /\ Len(conversation) \in Nat
  BY <1>1, LenProperties
<1>5. \A c \in checkpoints : c.turn \in Turn /\ c.count \in Nat
  BY DEF Typed, ThreadTyped, Checkpoint
<1>6. None \notin Turn /\ Turn \subseteq Nat /\ started \in Nat
  BY CheckpointAssumption DEF None, Turn, Typed, AgentTyped
<1> QED
  BY <1>1, <1>2, <1>3, <1>4, <1>5, <1>6

LEMMA SameTurn ==
    ASSUME Typed, AgentInv, NEW i \in DOMAIN conversation,
           NEW j \in DOMAIN conversation, conversation[i] = conversation[j]
    PROVE  i = j
<1>1. i \in Nat /\ j \in Nat /\ conversation[i] \in Nat /\ conversation[j] \in Nat
  BY TurnsAreTurns
<1>2. (i < j => conversation[i] < conversation[j])
      /\ (j < i => conversation[j] < conversation[i])
  BY DEF AgentInv
<1> QED
  BY <1>1, <1>2

(* The oldest turn without a checkpoint is the next to be counted.         *)
LEMMA NextTurn ==
    ASSUME Typed, AgentInv, NumbersInv, job \notin Reverting,
           NEW t \in Turn, Remembered(t), Of(t, checkpoints) = {},
           \A n \in DOMAIN conversation : conversation[n] < t => Listed(n)
    PROVE  LET k == CurrentCount(checkpoints) IN
           /\ k + 1 \in DOMAIN conversation /\ conversation[k + 1] = t
           /\ \A n \in 1..k : Listed(n)
<1> DEFINE k == CurrentCount(checkpoints)
<1>1. k \in Nat /\ \A n \in Nat : Listed(n) <=> 0 < n /\ n <= k
  BY ListedCounts DEF NumbersInv, Typed
<1> HIDE DEF k
<1>2. PICK p \in DOMAIN conversation : conversation[p] = t
  BY DEF Remembered
<1>3. /\ DOMAIN conversation = 1..Len(conversation) /\ Len(conversation) \in Nat
      /\ \A i \in DOMAIN conversation : conversation[i] \in Nat
  BY TurnsAreTurns
<1>4. ~ Listed(p)
  <2> SUFFICES ASSUME NEW c \in checkpoints, c.count = p PROVE FALSE
    BY DEF Listed
  <2>1. ~ Leftover(c)
    BY Kinds DEF Leftover, Typed
  <2>2. c.turn = t
    BY <1>2, <2>1 DEF NumbersInv, Counted
  <2> QED
    BY <2>2 DEF Of
<1>5. p >= k + 1
  BY <1>1, <1>3, <1>4
<1>6. k + 1 \in DOMAIN conversation /\ ~ Listed(k + 1)
  BY <1>1, <1>3, <1>5
<1>7. ~ (k + 1 < p)
  <2> SUFFICES ASSUME k + 1 < p PROVE FALSE
    OBVIOUS
  <2>1. conversation[k + 1] < t
    BY <1>2, <1>6 DEF AgentInv
  <2> QED
    BY <1>6, <2>1
<1>8. p = k + 1
  BY <1>1, <1>3, <1>5, <1>7
<1>9. \A n \in 1..k : Listed(n)
  BY <1>1
<1> QED
  BY <1>2, <1>6, <1>8, <1>9 DEF k

(* A checkpoint that continues the counts, or replaces one of its turn.    *)
LEMMA OneMore ==
    ASSUME Typed, NumbersInv, job \notin Reverting,
           NEW c \in Checkpoint, Counted(c),
           \A d \in checkpoints : d.turn = c.turn <=> d.count = c.count,
           checkpoints' = (checkpoints \ Of(c.turn, checkpoints)) \cup {c},
           UNCHANGED conversation
    PROVE  /\ \A n : Listed(n) => Listed(n)'
           /\ Listed(c.count)'
           /\ \A d \in checkpoints' :
                 /\ Counted(d)' /\ d.count > 0
                 /\ \A n \in 1..d.count - 1 : Listed(n)'
           /\ \A d, e \in checkpoints' : d.turn = e.turn => d = e
           /\ \A d : Counted(d) => Counted(d)'
<1>1. \A n : Listed(n) => Listed(n)'
  BY DEF Listed, Of
<1>2. Listed(c.count)'
  BY DEF Listed
<1>3. \A d : Counted(d) => Counted(d)'
  BY <1>1 DEF Counted
<1>4. \A d \in checkpoints : Counted(d)
  BY Kinds DEF NumbersInv, Leftover, Typed
<1>5. \A d : Counted(d) => d.count > 0
  BY TurnsAreTurns DEF Counted
<1>6. \A d \in checkpoints' : Counted(d)' /\ d.count > 0
  BY <1>3, <1>4, <1>5
<1>7. \A d \in checkpoints' : \A n \in 1..d.count - 1 : Listed(n)'
  BY <1>6 DEF Counted
<1>8. \A d, e \in checkpoints' : d.turn = e.turn => d = e
  BY DEF NumbersInv, Of
<1> QED
  BY <1>1, <1>2, <1>3, <1>6, <1>7, <1>8

-----------------------------------------------------------------------------
(* Parts that a step leaves alone.                                         *)

LEMMA SameAgent ==
    ASSUME AgentInv, UNCHANGED <<running, started, conversation>>,
           Ended(runtime') \subseteq Ended(runtime),
           Ended(toIngestion') \subseteq Ended(toIngestion),
           InOrder(runtime')
    PROVE  AgentInv'
<1>1. \A t : Remembered(t) => Remembered(t)'
  BY DEF Remembered
<1>2. \A t \in Ended(runtime') \cup Ended(toIngestion') :
         t \in Ended(runtime) \cup Ended(toIngestion)
  OBVIOUS
<1>3. \A t \in Ended(runtime') \cup Ended(toIngestion') : t # running' /\ Remembered(t)'
  BY <1>1, <1>2 DEF AgentInv
<1> QED
  BY <1>1, <1>3 DEF AgentInv

LEMMA SamePlaceholder ==
    ASSUME PlaceholderInv, UNCHANGED <<running, toIngestion>>,
           UNCHANGED ingesting \/ ingesting' = Idle
    PROVE  PlaceholderInv'
  BY IdleKind DEF PlaceholderInv, Followed, Ended, IsEnd

LEMMA SameNumbers ==
    ASSUME NumbersInv, UNCHANGED <<conversation, checkpoints>>,
           \/ UNCHANGED job
           \/ job' \notin Capturing /\ job.at \notin {"delete", "finish"}
    PROVE  NumbersInv'
  BY DEF NumbersInv, Counted, Leftover, Listed

LEMMA SameRevert ==
    ASSUME RevertInv,
           UNCHANGED <<job, conversation, running, toIngestion, runtime, ingesting>>
    PROVE  RevertInv'
  BY DEF RevertInv, AtRest

(* As long as nothing that is awaited is forgotten.                        *)
LEMMA SameWork ==
    ASSUME WorkInv, UNCHANGED <<conversation, checkpoints>>,
           UNCHANGED job \/ (job \notin Capturing /\ job' \notin Capturing),
           \A t : t = running \/ t \in Ended(runtime)
                     => t = running' \/ t \in Ended(runtime'),
           \A c \in checkpoints : ~ IsReal(c) /\ Announced(c) => Announced(c)'
    PROVE  WorkInv'
<1>1. \A t : IsCaptured(t) => IsCaptured(t)' /\ UNCHANGED job
  BY DEF IsCaptured
<1>2. \A t : Awaited(t) => Awaited(t)'
  BY <1>1 DEF Awaited
<1>3. \A n : Listed(n) => Listed(n)'
  BY DEF Listed
<1> QED
  BY <1>1, <1>2, <1>3 DEF WorkInv
-----------------------------------------------------------------------------
(* The user and the agent.                                                 *)

LEMMA UserSteps ==
    ASSUME CheckpointInv, Steps, Send \/ \E c \in checkpoints : AskRevert(c)
    PROVE  Steps'
<1>1. StreamsTyped
  BY DEF CheckpointInv, Typed
<1>2. /\ UNCHANGED <<running, started, conversation, checkpoints, job, ingesting>>
      /\ UNCHANGED <<toIngestion, runtime>>
      /\ \E e : domain' = Append(domain, e)
  BY DEF Send, AskRevert, agent, thread, workers
<1>3. \A c : Announced(c) => Announced(c)'
  BY <1>1, <1>2, AnnouncedAppend
<1>4. AgentInv' /\ PlaceholderInv' /\ NumbersInv' /\ RevertInv'
  BY <1>2, SameAgent, SamePlaceholder, SameNumbers, SameRevert DEF Steps, AgentInv
<1>5. WorkInv'
  BY <1>2, <1>3, SameWork DEF Steps
<1> QED
  BY <1>4, <1>5 DEF Steps

LEMMA StartTurnSteps ==
    ASSUME CheckpointInv, Steps, StartTurn, mishaps' = {}
    PROVE  Steps'
<1> DEFINE e == [type |-> "started", turn |-> started + 1]
<1>1. /\ Typed /\ StreamsTyped /\ AgentTyped /\ WorkersTyped
      /\ AgentInv /\ PlaceholderInv /\ NumbersInv /\ WorkInv /\ RevertInv
  BY DEF CheckpointInv, Typed, Steps
<1>2. /\ running = None /\ requests > 0
      /\ started' = started + 1 /\ running' = started + 1
      /\ conversation' = Append(conversation, started + 1)
      /\ toIngestion' = Append(toIngestion, e) /\ runtime' = Append(runtime, e)
      /\ UNCHANGED <<checkpoints, job, ingesting, domain>>
      /\ job.at \notin {"rollback", "delete", "finish"}
  BY DEF StartTurn, Emit, thread, workers, Note
<1>3. /\ started + 1 \in Turn /\ started \in Nat
      /\ e \in RuntimeEvent /\ ~ IsEnd(e) /\ e.type = "started"
  BY <1>1, <1>2, CheckpointAssumption DEF AgentTyped, Turn, RuntimeEvent, IsEnd
<1>4. job \notin Reverting
  BY <1>1, <1>2, Kinds
<1> HIDE DEF e
<1>5. /\ Ended(runtime') = Ended(runtime) /\ Ended(toIngestion') = Ended(toIngestion)
      /\ InOrder(runtime) /\ (\A u \in Ended(runtime) : u < e.turn) => InOrder(runtime')
  <2>1. toIngestion \in Seq(RuntimeEvent) /\ runtime \in Seq(RuntimeEvent)
    BY <1>1 DEF StreamsTyped
  <2>2. /\ Ended(Append(runtime, e)) = Ended(runtime)
        /\ Ended(Append(toIngestion, e)) = Ended(toIngestion)
    BY <1>3, <2>1, EndedAppend
  <2>3. InOrder(runtime) /\ (\A u \in Ended(runtime) : u < e.turn)
           => InOrder(Append(runtime, e))
    BY <1>3, <2>1, EndedAppend
  <2> QED
    BY <1>2, <2>2, <2>3
<1>6. /\ Len(conversation) \in Nat /\ DOMAIN conversation = 1..Len(conversation)
      /\ DOMAIN conversation' = 1..Len(conversation) + 1
      /\ \A i \in DOMAIN conversation : conversation'[i] = conversation[i]
      /\ conversation'[Len(conversation) + 1] = started + 1
  <2>1. conversation \in Seq(Turn) /\ started + 1 \in Turn
    BY <1>1, <1>3 DEF AgentTyped
  <2> QED
    BY <1>2, <2>1, AppendProperties, LenProperties
<1>7. /\ \A i \in DOMAIN conversation' :
            i \in DOMAIN conversation \/ i = Len(conversation) + 1
      /\ DOMAIN conversation \subseteq DOMAIN conversation'
      /\ Len(conversation) + 1 \in DOMAIN conversation'
  BY <1>6
<1>8. /\ \A i \in DOMAIN conversation : conversation[i] \in Nat
      /\ \A u \in Ended(runtime) : u \in Nat
      /\ None \notin Turn /\ Ended(runtime) \subseteq Turn
  BY <1>1, TurnsAreTurns
<1>9. \A t : Remembered(t) => Remembered(t)' /\ t <= started
  BY <1>1, <1>6, <1>7 DEF Remembered, AgentInv
<1>10. Remembered(running)'
  BY <1>2, <1>6, <1>7 DEF Remembered
<1>11. AgentInv'
  <2>1. \A i \in DOMAIN conversation' : conversation'[i] <= started'
    BY <1>1, <1>2, <1>3, <1>6, <1>7, <1>8 DEF AgentInv
  <2>2. ASSUME NEW i \in DOMAIN conversation', NEW j \in DOMAIN conversation', i < j
        PROVE  conversation'[i] < conversation'[j]
    <3>1. i \in DOMAIN conversation /\ conversation[i] <= started
      BY <1>1, <1>6, <2>2 DEF AgentInv
    <3>2. CASE j \in DOMAIN conversation
      BY <1>1, <1>6, <2>2, <3>1, <3>2 DEF AgentInv
    <3>3. CASE j = Len(conversation) + 1
      BY <1>3, <1>6, <1>8, <3>1, <3>3
    <3> QED
      BY <1>7, <3>2, <3>3
  <2>3. \A t \in Ended(runtime') \cup Ended(toIngestion') :
           t # running' /\ Remembered(t)'
    <3> SUFFICES ASSUME NEW t \in Ended(runtime) \cup Ended(toIngestion)
                 PROVE  t # started + 1 /\ Remembered(t)'
      BY <1>2, <1>5
    <3>1. Remembered(t)
      BY <1>1 DEF AgentInv
    <3>2. Remembered(t)' /\ t <= started
      BY <1>9, <3>1
    <3> QED
      BY <1>3, <3>2
  <2>4. InOrder(runtime')
    <3>1. e.turn = started + 1
      BY DEF e
    <3>2. \A u \in Ended(runtime) : u <= started
      BY <1>1, <1>9 DEF AgentInv
    <3>3. \A u \in Ended(runtime) : u < e.turn
      BY <1>3, <1>8, <3>1, <3>2
    <3> QED
      BY <1>1, <1>5, <3>3 DEF AgentInv
  <2> QED
    BY <1>2, <1>10, <2>1, <2>2, <2>3, <2>4 DEF AgentInv
<1>12. PlaceholderInv'
  <2>1. /\ Len(toIngestion) \in Nat /\ DOMAIN toIngestion = 1..Len(toIngestion)
        /\ DOMAIN toIngestion' = 1..Len(toIngestion) + 1
        /\ \A i \in DOMAIN toIngestion :
              toIngestion'[i] = toIngestion[i] /\ toIngestion[i].turn \in Turn
        /\ toIngestion'[Len(toIngestion) + 1] = e
    <3>1. toIngestion \in Seq(RuntimeEvent)
      BY <1>1 DEF StreamsTyped
    <3>2. \A i \in DOMAIN toIngestion : toIngestion[i] \in RuntimeEvent
      BY <3>1, ElementOfSeq, LenProperties
    <3>3. \A i \in DOMAIN toIngestion : toIngestion[i].turn \in Turn
      BY <3>2 DEF RuntimeEvent
    <3> QED
      BY <1>2, <1>3, <3>1, <3>3, AppendProperties, LenProperties
  <2>2. ASSUME NEW i \in DOMAIN toIngestion', toIngestion'[i].type = "diff"
        PROVE  Followed(i)'
    <3>1. i \in DOMAIN toIngestion
      BY <1>3, <2>1, <2>2
    <3>2. Followed(i) /\ toIngestion[i].turn # running
      BY <1>1, <1>2, <1>8, <2>1, <2>2, <3>1 DEF PlaceholderInv
    <3>3. DOMAIN toIngestion \subseteq DOMAIN toIngestion'
      BY <2>1
    <3> QED
      BY <2>1, <3>1, <3>2, <3>3 DEF Followed
  <2>3. ingesting \in Placeholder => ingesting.checkpoint.turn # running
    BY <1>2, <1>8 DEF Placeholder, Checkpoint
  <2> QED
    BY <1>1, <1>2, <1>5, <2>2, <2>3 DEF PlaceholderInv
<1>13. \A n : Listed(n) => Listed(n)'
  BY <1>2 DEF Listed
<1>14. NumbersInv'
  <2>1. \A c : Counted(c) => Counted(c)'
    BY <1>6, <1>7, <1>13 DEF Counted
  <2> QED
    BY <1>1, <1>2, <1>13, <2>1 DEF NumbersInv, Leftover
<1>15. WorkInv'
  <2>1. ASSUME NEW n \in DOMAIN conversation' PROVE Listed(n)' \/ Awaited(conversation[n])'
    <3>1. CASE n \in DOMAIN conversation
      <4>1. conversation[n] # running /\ conversation'[n] = conversation[n]
        BY <1>1, <1>2, <1>6, <1>8, <3>1, TurnsAreTurns
      <4> QED
        BY <1>1, <1>2, <1>5, <1>13, <3>1, <4>1 DEF WorkInv, Awaited, IsCaptured
    <3>2. CASE n = Len(conversation) + 1
      BY <1>2, <1>6, <3>2 DEF Awaited
    <3> QED
      BY <1>7, <3>1, <3>2
  <2>2. \A c \in checkpoints' :
           IsReal(c) \/ Announced(c)' \/ (IsCaptured(c.turn) /\ IsReal(job.checkpoint))'
    BY <1>1, <1>2 DEF WorkInv, Announced, IsCaptured, IsReal
  <2> QED
    BY <2>1, <2>2 DEF WorkInv, IsReal
<1>16. RevertInv'
  BY <1>2, <1>4 DEF RevertInv
<1> QED
  BY <1>11, <1>12, <1>14, <1>15, <1>16 DEF Steps

LEMMA EditSteps ==
    ASSUME CheckpointInv, Steps, Edit
    PROVE  Steps'
<1> DEFINE e == [type |-> "diff", turn |-> running]
<1>1. /\ Typed /\ StreamsTyped /\ AgentTyped /\ WorkersTyped
      /\ AgentInv /\ PlaceholderInv /\ NumbersInv /\ WorkInv /\ RevertInv
  BY DEF CheckpointInv, Typed, Steps
<1>2. /\ running # None
      /\ UNCHANGED <<running, started, conversation, checkpoints, job, ingesting>>
      /\ UNCHANGED <<runtime, domain>>
      /\ UNCHANGED toIngestion \/ toIngestion' = Append(toIngestion, e)
  BY DEF Edit, thread, workers
<1>3. e \in RuntimeEvent /\ ~ IsEnd(e)
  BY <1>1, <1>2 DEF AgentTyped, RuntimeEvent, IsEnd
<1>4. toIngestion \in Seq(RuntimeEvent)
  BY <1>1 DEF StreamsTyped
<1>5. Ended(toIngestion') = Ended(toIngestion)
  <2> HIDE DEF e
  <2> QED
    BY <1>2, <1>3, <1>4, EndedAppend
<1>6. AgentInv' /\ NumbersInv'
  BY <1>1, <1>2, <1>5, SameAgent, SameNumbers DEF AgentInv
<1>7. WorkInv'
  BY <1>1, <1>2, SameWork DEF Announced
<1>8. RevertInv'
  BY <1>1, <1>2 DEF RevertInv, AtRest
<1>9. PlaceholderInv'
  <2>1. CASE UNCHANGED toIngestion
    BY <1>1, <1>2, <2>1, SamePlaceholder
  <2>2. CASE toIngestion' = Append(toIngestion, e)
    <3>1. /\ Len(toIngestion) \in Nat /\ DOMAIN toIngestion = 1..Len(toIngestion)
          /\ DOMAIN toIngestion' = 1..Len(toIngestion) + 1
          /\ \A i \in DOMAIN toIngestion : toIngestion'[i] = toIngestion[i]
          /\ toIngestion'[Len(toIngestion) + 1] = e
      <4> HIDE DEF e
      <4> QED
        BY <1>3, <1>4, <2>2, AppendProperties, LenProperties
    <3>2. ASSUME NEW i \in DOMAIN toIngestion', toIngestion'[i].type = "diff"
          PROVE  Followed(i)'
      <4>1. i \in DOMAIN toIngestion \/ i = Len(toIngestion) + 1
        BY <3>1
      <4>2. DOMAIN toIngestion \subseteq DOMAIN toIngestion'
        BY <3>1
      <4>3. i = Len(toIngestion) + 1 => toIngestion'[i].turn = running'
        BY <1>2, <3>1
      <4>4. i \in DOMAIN toIngestion => Followed(i)
        BY <1>1, <3>1, <3>2 DEF PlaceholderInv
      <4> QED
        BY <1>2, <3>1, <4>1, <4>2, <4>3, <4>4 DEF Followed
    <3> QED
      BY <1>1, <1>2, <1>5, <3>2 DEF PlaceholderInv
  <2> QED
    BY <1>2, <2>1, <2>2
<1> QED
  BY <1>6, <1>7, <1>8, <1>9 DEF Steps

LEMMA EndTurnSteps ==
    ASSUME CheckpointInv, Steps, NEW interrupted \in BOOLEAN, EndTurn(interrupted)
    PROVE  Steps'
<1> DEFINE e == Completed(interrupted)
<1>1. /\ Typed /\ StreamsTyped /\ AgentTyped /\ WorkersTyped
      /\ AgentInv /\ PlaceholderInv /\ NumbersInv /\ WorkInv /\ RevertInv
  BY DEF CheckpointInv, Typed, Steps
<1>2. /\ running # None /\ running' = None
      /\ toIngestion' = Append(toIngestion, e) /\ runtime' = Append(runtime, e)
      /\ UNCHANGED <<started, conversation, checkpoints, job, ingesting, domain>>
  BY DEF EndTurn, Finished, Emit, thread, workers
<1>3. e \in RuntimeEvent /\ IsEnd(e) /\ e.turn = running /\ e.type # "diff"
  BY <1>1, <1>2 DEF AgentTyped, RuntimeEvent, IsEnd, Status, Completed
<1>4. /\ toIngestion \in Seq(RuntimeEvent) /\ runtime \in Seq(RuntimeEvent)
      /\ running \in Turn
  BY <1>1, <1>2 DEF StreamsTyped, AgentTyped
<1> HIDE DEF e
<1>5. /\ Ended(runtime') = Ended(runtime) \cup {running}
      /\ Ended(toIngestion') = Ended(toIngestion) \cup {running}
      /\ InOrder(runtime) /\ (\A u \in Ended(runtime) : u < running) => InOrder(runtime')
  <2>1. /\ Ended(Append(runtime, e)) = Ended(runtime) \cup {running}
        /\ Ended(Append(toIngestion, e)) = Ended(toIngestion) \cup {running}
    BY <1>3, <1>4, EndedAppend
  <2>2. InOrder(runtime) /\ (\A u \in Ended(runtime) : u < running)
           => InOrder(Append(runtime, e))
    BY <1>3, <1>4, EndedAppend
  <2> QED
    BY <1>2, <2>1, <2>2
<1>6. /\ Ended(runtime) \subseteq Nat /\ running \in Nat /\ started \in Nat
      /\ None \notin Turn /\ Ended(runtime) \subseteq Turn
      /\ Ended(toIngestion) \subseteq Turn
      /\ \A i \in DOMAIN conversation : conversation[i] \in Nat
  BY <1>1, <1>4, TurnsAreTurns
<1>7. \A t : Remembered(t) => Remembered(t)'
  BY <1>2 DEF Remembered
<1>8. AgentInv'
  <2>1. \A u \in Ended(runtime) : u < running
    <3> SUFFICES ASSUME NEW u \in Ended(runtime) PROVE u < running
      OBVIOUS
    <3>1. u # running /\ running = started /\ Remembered(u)
      BY <1>1, <1>2 DEF AgentInv
    <3>2. u <= started
      BY <1>1, <3>1 DEF Remembered, AgentInv
    <3> QED
      BY <1>6, <3>1, <3>2
  <2>2. \A t \in Ended(runtime') \cup Ended(toIngestion') :
           t # running' /\ Remembered(t)'
    <3> SUFFICES ASSUME NEW t \in Ended(runtime) \cup Ended(toIngestion) \cup {running}
                 PROVE  t # None /\ Remembered(t)'
      BY <1>2, <1>5
    <3>1. Remembered(t)
      BY <1>1, <1>2 DEF AgentInv
    <3> QED
      BY <1>2, <1>6, <1>7, <3>1
  <2>3. InOrder(runtime')
    BY <1>1, <1>5, <2>1 DEF AgentInv
  <2> QED
    BY <1>1, <1>2, <2>2, <2>3 DEF AgentInv
<1>9. PlaceholderInv'
  <2>1. /\ Len(toIngestion) \in Nat /\ DOMAIN toIngestion = 1..Len(toIngestion)
        /\ DOMAIN toIngestion' = 1..Len(toIngestion) + 1
        /\ \A i \in DOMAIN toIngestion : toIngestion'[i] = toIngestion[i]
        /\ toIngestion'[Len(toIngestion) + 1] = e
    BY <1>2, <1>3, <1>4, AppendProperties, LenProperties
  <2>2. ASSUME NEW i \in DOMAIN toIngestion', toIngestion'[i].type = "diff"
        PROVE  Followed(i)'
    <3>1. i \in DOMAIN toIngestion
      BY <1>3, <2>1, <2>2
    <3>2. Followed(i)
      BY <1>1, <2>1, <2>2, <3>1 DEF PlaceholderInv
    <3>3. /\ DOMAIN toIngestion \subseteq DOMAIN toIngestion'
          /\ Len(toIngestion) + 1 \in DOMAIN toIngestion' /\ Len(toIngestion) + 1 > i
      BY <2>1, <3>1
    <3> QED
      BY <1>3, <2>1, <3>1, <3>2, <3>3 DEF Followed
  <2> QED
    BY <1>1, <1>2, <1>5, <2>2 DEF PlaceholderInv
<1>10. NumbersInv' /\ WorkInv'
  BY <1>1, <1>2, <1>5, SameNumbers, SameWork DEF Announced
<1>11. RevertInv'
  BY <1>1, <1>2 DEF RevertInv, AtRest
<1> QED
  BY <1>8, <1>9, <1>10, <1>11 DEF Steps
-----------------------------------------------------------------------------
(* Ingestion.                                                              *)

(* The ingestion takes an event: what it leaves is followed as before.     *)
LEMMA Ingested ==
    ASSUME CheckpointInv, Steps, NEW type \in {"started", "completed", "diff"},
           Ingest(type),
           UNCHANGED <<running, started, conversation, runtime>>
    PROVE  /\ Ended(toIngestion') \subseteq Ended(toIngestion)
           /\ AgentInv'
           /\ \A i \in DOMAIN toIngestion' :
                 toIngestion'[i].type = "diff" => Followed(i)'
           /\ type = "diff" => LET t == Head(toIngestion).turn
                               IN  t = running \/ t \in Ended(toIngestion')
           /\ job \notin Reverting
<1> DEFINE q == toIngestion
           r == Tail(toIngestion)
<1>1. /\ toIngestion \in Seq(RuntimeEvent) /\ toIngestion # <<>>
      /\ AgentInv /\ PlaceholderInv /\ RevertInv
      /\ ingesting = Idle /\ Head(toIngestion).type = type
      /\ toIngestion' = Tail(toIngestion)
  BY DEF CheckpointInv, Typed, StreamsTyped, Steps, Ingest
<1>2. Ended(toIngestion') \subseteq Ended(toIngestion)
  BY <1>1, EndedTail
<1>3. AgentInv'
  BY <1>1, <1>2, SameAgent DEF AgentInv
<1>4. /\ Len(q) \in Nat \ {0} /\ DOMAIN q = 1..Len(q) /\ DOMAIN r = 1..Len(q) - 1
      /\ \A i \in 1..Len(q) - 1 : r[i] = q[i + 1]
      /\ Head(q) = q[1]
  BY <1>1, HeadTailProperties, LenProperties, EmptySeq
<1>5. toIngestion' = r /\ toIngestion = q
  BY <1>1
<1> HIDE DEF q, r
<1>6. \A i \in DOMAIN q : i = 1 \/ (i - 1 \in DOMAIN r /\ r[i - 1] = q[i])
  BY <1>4
<1>7. ASSUME NEW i \in DOMAIN r, r[i].type = "diff" PROVE Followed(i)'
  <2>1. i + 1 \in DOMAIN q /\ q[i + 1] = r[i]
    BY <1>4
  <2>2. Followed(i + 1)
    BY <1>1, <1>5, <1>7, <2>1 DEF PlaceholderInv
  <2>3. CASE r[i].turn = running
    BY <1>5, <2>3 DEF Followed
  <2>4. CASE r[i].turn # running
    <3>1. PICK j \in DOMAIN q : j > i + 1 /\ IsEnd(q[j]) /\ q[j].turn = r[i].turn
      BY <1>5, <2>1, <2>2, <2>4 DEF Followed
    <3>2. j - 1 \in DOMAIN r /\ r[j - 1] = q[j] /\ j - 1 > i
      BY <1>4, <1>6, <3>1
    <3> QED
      BY <1>5, <3>1, <3>2 DEF Followed
  <2> QED
    BY <2>3, <2>4
<1>8. ASSUME type = "diff", Head(toIngestion).turn # running
      PROVE  Head(toIngestion).turn \in Ended(toIngestion')
  <2>1. 1 \in DOMAIN q /\ q[1] = Head(toIngestion)
    BY <1>4, <1>5
  <2>2. Followed(1)
    BY <1>1, <1>5, <1>8, <2>1 DEF PlaceholderInv
  <2>3. PICK j \in DOMAIN q : j > 1 /\ IsEnd(q[j]) /\ q[j].turn = Head(toIngestion).turn
    BY <1>5, <1>8, <2>1, <2>2 DEF Followed
  <2>4. j - 1 \in DOMAIN r /\ r[j - 1] = q[j]
    BY <1>4, <1>6, <2>3
  <2> QED
    BY <1>5, <2>3, <2>4 DEF Ended
<1>9. job \notin Reverting
  BY <1>1 DEF RevertInv, AtRest
<1> QED
  BY <1>2, <1>3, <1>5, <1>7, <1>8, <1>9

LEMMA SessionSteps ==
    ASSUME CheckpointInv, Steps, IngestStarted \/ IngestCompleted
    PROVE  Steps'
<1>1. /\ AgentInv /\ PlaceholderInv /\ NumbersInv /\ WorkInv /\ RevertInv
  BY DEF Steps
<1>2. /\ UNCHANGED <<running, started, conversation, checkpoints, job, ingesting>>
      /\ UNCHANGED <<runtime, domain>>
      /\ Ingest("started") \/ Ingest("completed")
      /\ ingesting = Idle
  BY DEF IngestStarted, IngestCompleted, Ingest, agent, workers
<1>3. /\ AgentInv' /\ job \notin Reverting
      /\ \A i \in DOMAIN toIngestion' : toIngestion'[i].type = "diff" => Followed(i)'
  BY <1>2, Ingested
<1>4. PlaceholderInv'
  BY <1>2, <1>3, IdleKind DEF PlaceholderInv
<1>5. NumbersInv' /\ WorkInv'
  BY <1>1, <1>2, SameNumbers, SameWork DEF Announced
<1>6. RevertInv'
  BY <1>2, <1>3 DEF RevertInv
<1> QED
  BY <1>3, <1>4, <1>5, <1>6 DEF Steps

LEMMA IngestDiffSteps ==
    ASSUME CheckpointInv, Steps, IngestDiff
    PROVE  Steps'
<1> DEFINE t == Head(toIngestion).turn
<1>1. AgentInv /\ PlaceholderInv /\ NumbersInv /\ WorkInv /\ RevertInv
  BY DEF Steps
<1>2. /\ UNCHANGED <<running, started, conversation, checkpoints, job>>
      /\ UNCHANGED <<runtime, domain>>
      /\ Ingest("diff")
      /\ \/ ingesting' = Idle
         \/ /\ Of(t, checkpoints) = {}
            /\ ingesting' =
                  [at |-> "placeholder", view |-> checkpoints,
                   checkpoint |-> [turn |-> t, count |-> CurrentCount(checkpoints) + 1,
                                   status |-> "missing", git |-> FALSE]]
  BY DEF IngestDiff, agent, thread
<1>3. /\ AgentInv' /\ job \notin Reverting
      /\ \A i \in DOMAIN toIngestion' : toIngestion'[i].type = "diff" => Followed(i)'
  BY <1>2, Ingested
<1>4. t = running \/ t \in Ended(toIngestion')
  BY <1>2, Ingested
<1> HIDE DEF t
<1>5. PlaceholderInv'
  <2>1. ASSUME ingesting' \in Placeholder
        PROVE  /\ ingesting'.checkpoint.turn = t /\ ingesting'.view = checkpoints
               /\ ingesting'.checkpoint.count = CurrentCount(checkpoints) + 1
               /\ Of(t, checkpoints) = {}
    BY <1>2, <2>1, IdleKind
  <2> QED
    BY <1>2, <1>3, <1>4, <2>1 DEF PlaceholderInv
<1>6. NumbersInv' /\ WorkInv'
  BY <1>1, <1>2, SameNumbers, SameWork DEF Announced
<1>7. RevertInv'
  BY <1>2, <1>3 DEF RevertInv
<1> QED
  BY <1>3, <1>5, <1>6, <1>7 DEF Steps

(* The first diff of a turn comes in time: the turn is the next to be      *)
(* counted.                                                                *)
LEMMA DispatchPlaceholderSteps ==
    ASSUME CheckpointInv, Steps, DispatchPlaceholder, mishaps' = {}
    PROVE  Steps'
<1> DEFINE c == ingesting.checkpoint
           k == CurrentCount(checkpoints)
<1>1. /\ Typed /\ StreamsTyped /\ ThreadTyped /\ WorkersTyped /\ RealOnes
      /\ AgentInv /\ PlaceholderInv /\ NumbersInv /\ WorkInv /\ RevertInv
  BY DEF CheckpointInv, Typed, Invariants, Steps
<1>2. /\ UNCHANGED <<running, started, conversation, job, toIngestion, runtime>>
      /\ ingesting' = Idle /\ ingesting.at = "placeholder"
      /\ checkpoints' = InMemory(checkpoints, c)
      /\ domain' = Append(domain, [type |-> "diff", checkpoint |-> c])
      /\ ingesting.view = checkpoints
      /\ \A u \in ToSet(conversation) : u < c.turn => Of(u, checkpoints) # {}
  BY DEF DispatchPlaceholder, Complete, agent
<1>3. /\ ingesting \in Placeholder /\ c \in Checkpoint /\ c.turn \in Turn
      /\ ingesting # Idle
  BY <1>1, <1>2, Kinds, IdleKind DEF Placeholder, Checkpoint
<1>4. /\ c.turn = running \/ c.turn \in Ended(toIngestion)
      /\ Of(c.turn, checkpoints) = {}
      /\ c.count = k + 1
  BY <1>1, <1>2, <1>3 DEF PlaceholderInv
<1>5. job \notin Reverting
  BY <1>1, <1>3 DEF RevertInv, AtRest
<1> HIDE DEF c
<1>6. Remembered(c.turn)
  BY <1>1, <1>3, <1>4, TurnsAreTurns DEF AgentInv
<1>7. ASSUME NEW n \in DOMAIN conversation, conversation[n] < c.turn PROVE Listed(n)
  <2>1. conversation[n] \in ToSet(conversation)
    BY DEF ToSet
  <2>2. PICK d \in checkpoints : d.turn = conversation[n]
    BY <1>2, <1>7, <2>1 DEF Of
  <2>3. ~ Leftover(d)
    BY <1>1, <1>5, Kinds DEF Leftover
  <2>4. d.count \in DOMAIN conversation /\ conversation[d.count] = conversation[n]
    BY <1>1, <2>2, <2>3 DEF NumbersInv, Counted
  <2>5. d.count = n
    BY <1>1, <2>4, SameTurn
  <2> QED
    BY <2>5 DEF Listed
<1>8. /\ k + 1 \in DOMAIN conversation /\ conversation[k + 1] = c.turn
      /\ \A n \in 1..k : Listed(n) /\ k \in Nat
      /\ \A d \in checkpoints : d.count # k + 1
  BY <1>1, <1>3, <1>4, <1>5, <1>6, <1>7, NextTurn, NextCount, LargestCount
     DEF ThreadTyped
<1>9. Counted(c)
  <2>1. k \in Nat
    BY <1>1, LargestCount DEF ThreadTyped
  <2> QED
    BY <1>4, <1>8, <2>1 DEF Counted
<1>10. \A d \in checkpoints : d.turn = c.turn <=> d.count = c.count
  BY <1>4, <1>8 DEF Of
<1>11. checkpoints' = (checkpoints \ Of(c.turn, checkpoints)) \cup {c}
  BY <1>2, <1>4 DEF InMemory
<1>12. /\ \A n : Listed(n) => Listed(n)'
       /\ \A d \in checkpoints' :
             /\ Counted(d)' /\ d.count > 0
             /\ \A n \in 1..d.count - 1 : Listed(n)'
       /\ \A d, e \in checkpoints' : d.turn = e.turn => d = e
       /\ \A d : Counted(d) => Counted(d)'
  BY <1>1, <1>2, <1>3, <1>5, <1>9, <1>10, <1>11, OneMore
<1>13. NumbersInv'
  BY <1>1, <1>2, <1>12 DEF NumbersInv
<1>14. WorkInv'
  <2>1. \A d : Announced(d) \/ d = c => Announced(d)'
    BY <1>1, <1>2, AnnouncedAppend
  <2>2. \A t : Awaited(t) => Awaited(t)'
    BY <1>2 DEF Awaited, IsCaptured
  <2>3. \A d \in checkpoints' :
           IsReal(d) \/ Announced(d)' \/ (IsCaptured(d.turn) /\ IsReal(job.checkpoint))'
    BY <1>1, <1>2, <1>11, <2>1 DEF WorkInv, IsCaptured, IsReal
  <2>4. \A n \in DOMAIN conversation' : Listed(n)' \/ Awaited(conversation[n])'
    BY <1>1, <1>2, <1>12, <2>2 DEF WorkInv
  <2> QED
    BY <2>3, <2>4 DEF WorkInv, IsReal
<1>15. AgentInv' /\ PlaceholderInv'
  BY <1>1, <1>2, SameAgent, SamePlaceholder DEF AgentInv
<1>16. RevertInv'
  BY <1>2, <1>5 DEF RevertInv
<1> QED
  BY <1>13, <1>14, <1>15, <1>16 DEF Steps
-----------------------------------------------------------------------------
(* The reactor.                                                            *)

LEMMA BaselineSteps ==
    ASSUME CheckpointInv, Steps, TakeStart \/ SaveBaseline
    PROVE  Steps'
<1>1. /\ Typed /\ StreamsTyped /\ WorkersTyped
      /\ AgentInv /\ PlaceholderInv /\ NumbersInv /\ WorkInv /\ RevertInv
  BY DEF CheckpointInv, Typed, Steps
<1>2. /\ UNCHANGED <<running, started, conversation, checkpoints, ingesting, toIngestion>>
      /\ job.at \in {"idle", "baseline"} /\ job'.at \in {"idle", "baseline"}
      /\ job' \in {Idle} \cup Baseline
  <2>1. CASE TakeStart
    <3>1. CurrentCount(checkpoints) \in Nat
      BY <1>1, LargestCount DEF Typed, ThreadTyped
    <3> QED
      BY <2>1, <3>1, IdleKind
         DEF TakeStart, TakeDomain, TakeRuntime, agent, thread, Baseline, Idle
  <2>2. CASE SaveBaseline
    BY <2>2, IdleKind DEF SaveBaseline, agent, thread, streams
  <2> QED
    BY <2>1, <2>2
<1>3. /\ job \notin Capturing /\ job \notin Reverting
      /\ job' \notin Capturing /\ job' \notin Reverting
  BY <1>2, IdleIsNoJob DEF Baseline, Capturing, Reverting
<1>4. \/ UNCHANGED <<runtime, domain>>
      \/ /\ runtime # <<>> /\ runtime' = Tail(runtime) /\ UNCHANGED domain
         /\ Head(runtime).type = "started"
      \/ /\ domain # <<>> /\ domain' = Tail(domain) /\ UNCHANGED runtime
         /\ Head(domain).type = "start"
  BY DEF TakeStart, SaveBaseline, TakeDomain, TakeRuntime, streams
<1>5. Ended(runtime') = Ended(runtime) /\ InOrder(runtime')
  BY <1>1, <1>4, EndedTail DEF StreamsTyped, IsEnd, AgentInv
<1>6. \A c : Announced(c) => Announced(c)'
  <2>1. CASE UNCHANGED domain
    BY <2>1 DEF Announced
  <2>2. CASE domain # <<>> /\ domain' = Tail(domain) /\ Head(domain).type = "start"
    BY <1>1, <2>2, AnnouncedTail
  <2> QED
    BY <1>4, <2>1, <2>2
<1>7. AgentInv' /\ PlaceholderInv'
  BY <1>1, <1>2, <1>5, SameAgent, SamePlaceholder
<1>8. NumbersInv' /\ WorkInv'
  BY <1>1, <1>2, <1>3, <1>5, <1>6, SameNumbers, SameWork
<1>9. RevertInv'
  BY <1>3 DEF RevertInv
<1> QED
  BY <1>7, <1>8, <1>9 DEF Steps

(* The turn that ended is the next to be counted, or is counted.           *)
LEMMA TakeCompletedSteps ==
    ASSUME CheckpointInv, Steps, TakeCompleted, mishaps' = {}
    PROVE  Steps'
<1> DEFINE e == Head(runtime)
           t == e.turn
           j == Capture(t, CountFor(t), e.status)
<1>1. /\ Typed /\ ThreadTyped /\ StreamsTyped /\ WorkersTyped
      /\ AgentInv /\ PlaceholderInv /\ NumbersInv /\ WorkInv /\ RevertInv
  BY DEF CheckpointInv, Typed, Steps
<1>2. /\ UNCHANGED <<running, started, conversation, checkpoints, ingesting>>
      /\ UNCHANGED <<toIngestion, domain>>
      /\ job = Idle /\ runtime # <<>> /\ runtime' = Tail(runtime) /\ IsEnd(e)
      /\ (job' = Idle /\ HasReal(t)) \/ (job' = j /\ ~ HasReal(t))
  BY DEF TakeCompleted, TakeRuntime, agent, thread, IsEnd, Note
<1>3. t \in Turn /\ e.status \in Status
  <2>1. e \in RuntimeEvent
    BY <1>1, <1>2, NextEvents
  <2> QED
    BY <1>2, <2>1 DEF RuntimeEvent, IsEnd
<1>4. /\ Ended(runtime) = Ended(runtime') \cup {t}
      /\ InOrder(runtime') /\ \A u \in Ended(runtime') : t < u
  BY <1>1, <1>2, EndedTail DEF StreamsTyped, AgentInv
<1> HIDE DEF e, t
<1>5. /\ CountFor(t) \in Nat
      /\ \/ \E c \in Of(t, checkpoints) : CountFor(t) = c.count
         \/ Of(t, checkpoints) = {}
  BY <1>1, <1>3, TheCountFor
<1>6. /\ j \in Capturing /\ j \notin Reverting
      /\ j.checkpoint.turn = t /\ j.checkpoint.count = CountFor(t)
  BY <1>1, <1>3, <1>5, Captures
<1> HIDE DEF j
<1>7. /\ job \notin Reverting /\ job \notin Capturing /\ job.at = "idle"
      /\ job' \notin Reverting
      /\ \A c \in checkpoints : Counted(c)
  BY <1>1, <1>2, <1>6, IdleIsNoJob, IdleKind DEF NumbersInv, Leftover
<1>8. Remembered(t) /\ t # running
  BY <1>1, <1>4 DEF AgentInv
<1>9. \A c : Counted(c) => Counted(c)'
  BY <1>2 DEF Counted, Listed
<1>10. ASSUME NEW c, c.turn = t, c.count = CountFor(t) PROVE Counted(c)
  <2>1. CASE Of(t, checkpoints) # {}
    <3>1. PICK d \in checkpoints : d.turn = t /\ d.count = c.count
      BY <1>5, <1>10, <2>1 DEF Of
    <3> QED
      BY <1>7, <1>10, <3>1 DEF Counted
  <2>2. CASE Of(t, checkpoints) = {}
    <3> DEFINE k == CurrentCount(checkpoints)
    <3>1. ASSUME NEW n \in DOMAIN conversation, conversation[n] < t PROVE Listed(n)
      <4>1. conversation[n] # running
        <5>1. running # None => running = started
          BY <1>1 DEF AgentInv
        <5>2. t <= started
          BY <1>1, <1>8 DEF Remembered, AgentInv
        <5> QED
          BY <1>1, <1>3, <3>1, <5>1, <5>2, TurnsAreTurns
      <4>2. conversation[n] \notin Ended(runtime)
        BY <1>1, <1>3, <1>4, <3>1, TurnsAreTurns
      <4> QED
        BY <1>1, <1>7, <4>1, <4>2 DEF WorkInv, Awaited, IsCaptured
    <3>2. /\ k + 1 \in DOMAIN conversation /\ conversation[k + 1] = t
          /\ \A n \in 1..k : Listed(n)
      BY <1>1, <1>3, <1>7, <1>8, <2>2, <3>1, NextTurn
    <3>3. c.count = k + 1 /\ k \in Nat
      BY <1>1, <1>10, <2>2, LargestCount DEF CountFor, ThreadTyped
    <3> HIDE DEF k
    <3> QED
      BY <1>10, <3>2, <3>3 DEF Counted
  <2> QED
    BY <2>1, <2>2
<1>11. NumbersInv'
  <2>1. job' \in Capturing => Counted(job'.checkpoint)
    BY <1>2, <1>6, <1>10, IdleIsNoJob
  <2>2. \A c : c = job'.checkpoint /\ Counted(c) => Counted(c)'
    BY <1>9
  <2>3. job' \in Capturing => Counted(job.checkpoint)'
    BY <1>2, <2>1, <2>2 DEF Counted, Listed
  <2> QED
    BY <1>1, <1>2, <1>7, <1>9, <2>3 DEF NumbersInv, Listed
<1>12. WorkInv'
  <2>1. ASSUME NEW n \in DOMAIN conversation
        PROVE  Listed(n)' \/ Awaited(conversation[n])'
    <3>1. CASE Listed(n)
      BY <1>2, <3>1 DEF Listed
    <3>2. CASE conversation[n] = running \/ conversation[n] \in Ended(runtime')
      BY <1>2, <3>2 DEF Awaited
    <3>3. CASE conversation[n] = t /\ HasReal(t)
      <4>1. PICK c \in checkpoints : c.turn = t
        BY <3>3 DEF HasReal, Of
      <4>2. c.count = n
        BY <1>1, <1>7, <3>3, <4>1, SameTurn DEF Counted
      <4> QED
        BY <1>2, <4>2 DEF Listed
    <3>4. CASE conversation[n] = t /\ ~ HasReal(t)
      BY <1>2, <1>6, <3>4 DEF Awaited, IsCaptured
    <3> QED
      BY <1>1, <1>4, <1>7, <3>1, <3>2, <3>3, <3>4 DEF WorkInv, Awaited, IsCaptured
  <2>2. \A c \in checkpoints : IsReal(c) \/ Announced(c)'
    BY <1>1, <1>2, <1>7 DEF WorkInv, IsCaptured, Announced
  <2> QED
    BY <1>2, <2>1, <2>2 DEF WorkInv, IsReal
<1>13. AgentInv' /\ PlaceholderInv'
  BY <1>1, <1>2, <1>4, SameAgent, SamePlaceholder
<1>14. RevertInv'
  BY <1>7 DEF RevertInv
<1> QED
  BY <1>11, <1>12, <1>13, <1>14 DEF Steps

LEMMA TakeDiffSteps ==
    ASSUME CheckpointInv, Steps, TakeDiff, mishaps' = {}
    PROVE  Steps'
<1> DEFINE c == Head(domain).checkpoint
           j == Capture(c.turn, c.count, "ready")
<1>1. /\ Typed /\ ThreadTyped /\ StreamsTyped /\ WorkersTyped
      /\ AgentInv /\ PlaceholderInv /\ NumbersInv /\ WorkInv /\ RevertInv
  BY DEF CheckpointInv, Typed, Steps
<1>2. /\ UNCHANGED <<running, started, conversation, checkpoints, ingesting>>
      /\ UNCHANGED <<toIngestion, runtime>>
      /\ job = Idle /\ domain # <<>> /\ domain' = Tail(domain)
      /\ Head(domain).type = "diff"
      /\ \/ job' = Idle /\ (IsReal(c) \/ HasReal(c.turn))
         \/ job' = j /\ c \in checkpoints
  BY DEF TakeDiff, TakeDomain, agent, thread, Note
<1>3. /\ c.turn \in Turn /\ c.count \in Nat /\ "ready" \in Status
      /\ \A d : Head(domain) = [type |-> "diff", checkpoint |-> d] => d = c
  <2>1. Head(domain) \in DomainEvent
    BY <1>1, <1>2, NextEvents
  <2>2. c \in Checkpoint
    BY <1>2, <2>1 DEF DomainEvent
  <2> QED
    BY <2>2 DEF Checkpoint, Status
<1> HIDE DEF c
<1>4. /\ j \in Capturing /\ j \notin Reverting
      /\ j.checkpoint.turn = c.turn /\ j.checkpoint.count = c.count
      /\ j.checkpoint.status = "ready"
  BY <1>1, <1>3, Captures DEF Capture
<1> HIDE DEF j
<1>5. /\ job \notin Reverting /\ job \notin Capturing /\ job.at = "idle"
      /\ job' \notin Reverting
      /\ \A d \in checkpoints : Counted(d)
  BY <1>1, <1>2, <1>4, IdleIsNoJob, IdleKind DEF NumbersInv, Leftover
<1>6. \A d : Counted(d) => Counted(d)'
  BY <1>2 DEF Counted, Listed
<1>7. NumbersInv'
  <2>1. job' \in Capturing => Counted(c) /\ job' = j
    BY <1>2, <1>5, IdleIsNoJob
  <2>2. job' \in Capturing => Counted(job.checkpoint)'
    BY <1>2, <1>4, <2>1 DEF Counted, Listed
  <2> QED
    BY <1>1, <1>2, <1>5, <1>6, <2>2 DEF NumbersInv, Listed
<1>8. WorkInv'
  <2>1. ASSUME NEW d \in checkpoints, ~ IsReal(d)
        PROVE  Announced(d)' \/ (IsCaptured(d.turn) /\ IsReal(job.checkpoint))'
    <3>1. Announced(d)
      BY <1>1, <1>5, <2>1 DEF WorkInv, IsCaptured
    <3>2. CASE Announced(d)'
      BY <3>2
    <3>3. CASE d = c
      <4>1. ~ HasReal(c.turn)
        BY <1>1, <2>1, <3>3 DEF HasReal, Of, NumbersInv
      <4>2. job' = j
        BY <1>2, <2>1, <3>3, <4>1
      <4> QED
        BY <1>4, <3>3, <4>2 DEF IsCaptured, IsReal
    <3> QED
      BY <1>1, <1>2, <1>3, <3>1, <3>2, <3>3, AnnouncedTail
  <2>2. \A n \in DOMAIN conversation : Listed(n)' \/ Awaited(conversation[n])'
    BY <1>1, <1>2, <1>5 DEF WorkInv, Awaited, IsCaptured, Listed
  <2> QED
    BY <1>2, <2>1, <2>2 DEF WorkInv, IsReal
<1>9. AgentInv' /\ PlaceholderInv'
  BY <1>1, <1>2, SameAgent, SamePlaceholder DEF AgentInv
<1>10. RevertInv'
  BY <1>5 DEF RevertInv
<1> QED
  BY <1>7, <1>8, <1>9, <1>10 DEF Steps

LEMMA SaveSteps ==
    ASSUME CheckpointInv, Steps, Save
    PROVE  Steps'
<1>1. /\ Typed /\ StreamsTyped /\ WorkersTyped
      /\ AgentInv /\ PlaceholderInv /\ NumbersInv /\ WorkInv /\ RevertInv
  BY DEF CheckpointInv, Typed, Steps
<1>2. /\ UNCHANGED <<running, started, conversation, checkpoints, ingesting>>
      /\ UNCHANGED <<toIngestion, runtime, domain>>
      /\ job.at = "capture" /\ job' = [job EXCEPT !.at = "captured"]
  BY DEF Save, agent, thread, streams
<1>3. job \in Capturing
  BY <1>1, <1>2, Kinds
<1>4. /\ job' \in Capturing /\ job'.at = "captured" /\ job' \notin Reverting
      /\ job'.checkpoint = job.checkpoint
  BY <1>2, <1>3 DEF Capturing, Reverting
<1>5. AgentInv' /\ PlaceholderInv'
  BY <1>1, <1>2, SameAgent, SamePlaceholder DEF AgentInv
<1>6. NumbersInv'
  BY <1>1, <1>2, <1>3, <1>4 DEF NumbersInv, Counted, Leftover, Listed
<1>7. WorkInv'
  BY <1>1, <1>2, <1>3, <1>4
     DEF WorkInv, Awaited, IsCaptured, Listed, Announced, IsReal
<1>8. RevertInv'
  BY <1>4 DEF RevertInv
<1> QED
  BY <1>5, <1>6, <1>7, <1>8 DEF Steps

LEMMA DispatchCaptureSteps ==
    ASSUME CheckpointInv, Steps, DispatchCapture, mishaps = {}, mishaps' = {}
    PROVE  Steps'
<1> DEFINE c == job.checkpoint
<1>1. /\ Typed /\ ThreadTyped /\ StreamsTyped /\ WorkersTyped /\ AgreeInv
      /\ AgentInv /\ PlaceholderInv /\ NumbersInv /\ WorkInv /\ RevertInv
  BY DEF CheckpointInv, Typed, Invariants, Steps
<1>2. /\ UNCHANGED <<running, started, conversation, ingesting, toIngestion, runtime>>
      /\ job' = Idle /\ job.at = "captured"
      /\ checkpoints' = InMemory(checkpoints, c)
      /\ domain' = Append(domain, [type |-> "diff", checkpoint |-> c])
      /\ job.view = checkpoints
  BY DEF DispatchCapture, Complete, agent, Note
<1>3. /\ job \in Capturing /\ job \notin Reverting /\ c \in Checkpoint
      /\ job' \notin Capturing /\ job' \notin Reverting /\ job'.at = "idle"
  BY <1>1, <1>2, Kinds, IdleIsNoJob, IdleKind DEF Capturing
<1>4. Fits(c, checkpoints)
  BY <1>1, <1>2, <1>3 DEF AgreeInv, Undisturbed
<1>5. Counted(c)
  BY <1>1, <1>3 DEF NumbersInv
<1>6. \A t : IsCaptured(t) => t = c.turn
  BY DEF IsCaptured
<1> HIDE DEF c
<1>7. checkpoints' = (checkpoints \ Of(c.turn, checkpoints)) \cup {c}
  BY <1>2, <1>4 DEF InMemory, Fits, Of
<1>8. \A d \in checkpoints : d.turn = c.turn <=> d.count = c.count
  BY <1>4 DEF Fits
<1>9. /\ \A n : Listed(n) => Listed(n)'
      /\ \A n : n = c.count => Listed(n)'
      /\ \A d \in checkpoints' :
            /\ Counted(d)' /\ d.count > 0
            /\ \A n \in 1..d.count - 1 : Listed(n)'
      /\ \A d, e \in checkpoints' : d.turn = e.turn => d = e
  BY <1>1, <1>2, <1>3, <1>5, <1>7, <1>8, OneMore
<1>10. NumbersInv'
  BY <1>3, <1>9 DEF NumbersInv
<1>11. WorkInv'
  <2>1. \A d : Announced(d) \/ d = c => Announced(d)'
    BY <1>1, <1>2, AnnouncedAppend
  <2>2. \A d \in checkpoints' : IsReal(d) \/ Announced(d)'
    <3> SUFFICES ASSUME NEW d \in checkpoints, d.turn # c.turn
                 PROVE  IsReal(d) \/ Announced(d)'
      BY <1>7, <2>1 DEF Of
    <3>1. ~ IsCaptured(d.turn)
      BY <1>6
    <3> QED
      BY <1>1, <2>1, <3>1 DEF WorkInv
  <2>3. ASSUME NEW n \in DOMAIN conversation
        PROVE  Listed(n)' \/ Awaited(conversation[n])'
    <3>1. CASE Listed(n)
      BY <1>9, <3>1
    <3>2. CASE conversation[n] = running \/ conversation[n] \in Ended(runtime)
      BY <1>2, <3>2 DEF Awaited
    <3>3. CASE conversation[n] = c.turn
      <4>1. n = c.count
        BY <1>1, <1>5, <3>3, SameTurn DEF Counted
      <4> QED
        BY <1>9, <4>1
    <3> QED
      BY <1>1, <1>6, <3>1, <3>2, <3>3 DEF WorkInv, Awaited
  <2> QED
    BY <1>2, <2>2, <2>3 DEF WorkInv, IsReal
<1>12. AgentInv' /\ PlaceholderInv'
  BY <1>1, <1>2, SameAgent, SamePlaceholder DEF AgentInv
<1>13. RevertInv'
  BY <1>3 DEF RevertInv
<1> QED
  BY <1>10, <1>11, <1>12, <1>13 DEF Steps
-----------------------------------------------------------------------------
(* Reverts.                                                                *)

(* No turn is in progress, so every turn has its checkpoint and the counts *)
(* say how many turns to take from the agent.                              *)
LEMMA TakeRevertSteps ==
    ASSUME CheckpointInv, Steps, TakeRevert, mishaps' = {}
    PROVE  Steps'
<1> DEFINE n == Head(domain).count
           k == CurrentCount(checkpoints)
           j == [at |-> "rollback", count |-> n, turns |-> k - n, stale |-> Stale(n)]
           possible == n = 0 \/ (n <= k /\ \E c \in checkpoints : c.count = n)
<1>1. /\ Typed /\ ThreadTyped /\ StreamsTyped /\ WorkersTyped
      /\ AgentInv /\ PlaceholderInv /\ NumbersInv /\ WorkInv /\ RevertInv
  BY DEF CheckpointInv, Typed, Steps
<1>2. /\ UNCHANGED <<running, started, conversation, checkpoints, ingesting>>
      /\ UNCHANGED <<toIngestion, runtime>>
      /\ job = Idle /\ domain # <<>> /\ domain' = Tail(domain)
      /\ Head(domain).type = "revert"
      /\ \/ job' = Idle
         \/ job' = j /\ possible /\ ~ TurnInProgress
  BY DEF TakeRevert, TakeDomain, thread, Note
<1>3. n \in Int
  BY <1>1, <1>2, NextEvents DEF DomainEvent
<1>4. k \in Nat /\ \A i \in Nat : Listed(i) <=> 0 < i /\ i <= k
  BY <1>1, ListedCounts DEF NumbersInv
<1>5. possible => n >= 0 /\ n <= k
  BY <1>1, <1>3, <1>4, TurnsAreTurns DEF NumbersInv
<1> HIDE DEF n, k, possible
<1>6. j.at = "rollback" /\ j.count = n /\ j.turns = k - n
  OBVIOUS
<1>7. j \notin Capturing
  BY DEF Capturing
<1> HIDE DEF j
<1>8. /\ job \notin Reverting /\ job \notin Capturing /\ job.at = "idle"
      /\ job' \notin Capturing
      /\ \A c \in checkpoints : Counted(c)
  BY <1>1, <1>2, <1>7, IdleIsNoJob, IdleKind DEF NumbersInv, Leftover
<1>9. ASSUME ~ TurnInProgress
      PROVE  AtRest /\ Len(conversation) = k
  <2>1. running = None /\ toIngestion = <<>> /\ runtime = <<>>
    BY <1>9 DEF TurnInProgress
  <2>2. ingesting \notin Placeholder
    <3> SUFFICES ASSUME ingesting \in Placeholder PROVE FALSE
      OBVIOUS
    <3>1. ingesting.checkpoint.turn = None
      BY <1>1, <2>1, NothingEnded DEF PlaceholderInv
    <3>2. ingesting.checkpoint.turn \in Turn
      BY DEF Placeholder, Checkpoint
    <3> QED
      BY <1>1, <3>1, <3>2, TurnsAreTurns
  <2>3. AtRest
    BY <1>1, <2>1, <2>2 DEF AtRest, WorkersTyped
  <2>4. /\ Len(conversation) \in Nat /\ DOMAIN conversation = 1..Len(conversation)
        /\ \A i \in DOMAIN conversation : conversation[i] # None
    BY <1>1, TurnsAreTurns
  <2>5. \A i \in DOMAIN conversation : Listed(i)
    BY <1>1, <1>8, <2>1, <2>4, NothingEnded DEF WorkInv, Awaited, IsCaptured
  <2>6. Len(conversation) <= k
    <3>1. Len(conversation) = 0 \/ Len(conversation) \in DOMAIN conversation
      BY <2>4
    <3> QED
      BY <1>4, <2>4, <2>5, <3>1
  <2>7. k <= Len(conversation)
    <3>1. k = 0 \/ Listed(k)
      BY <1>4
    <3>2. k = 0 \/ k \in DOMAIN conversation
      BY <1>8, <3>1 DEF Listed, Counted
    <3> QED
      BY <1>4, <2>4, <3>2
  <2>8. k \in Nat /\ Len(conversation) \in Nat
    BY <1>4, <2>4
  <2>9. Len(conversation) = k
    BY <2>6, <2>7, <2>8
  <2> QED
    BY <2>3, <2>9
<1>10. NumbersInv'
  BY <1>1, <1>2, <1>8, SameNumbers
<1>11. WorkInv'
  <2>1. \A c : Announced(c) => Announced(c)'
    BY <1>1, <1>2, AnnouncedTail
  <2> QED
    BY <1>1, <1>2, <1>8, <2>1, SameWork
<1>12. AgentInv' /\ PlaceholderInv'
  BY <1>1, <1>2, SameAgent, SamePlaceholder DEF AgentInv
<1>13. RevertInv'
  <2>1. CASE job' = Idle
    BY <2>1, IdleIsNoJob DEF RevertInv
  <2>2. CASE job' = j /\ possible /\ ~ TurnInProgress
    <3>1. AtRest' /\ Len(conversation') = k
      BY <1>2, <1>9, <2>2 DEF AtRest
    <3>2. n >= 0 /\ k = n + (k - n)
      BY <1>3, <1>4, <1>5, <2>2
    <3> QED
      BY <1>6, <2>2, <3>1, <3>2 DEF RevertInv
  <2> QED
    BY <1>2, <2>1, <2>2
<1> QED
  BY <1>10, <1>11, <1>12, <1>13 DEF Steps

LEMMA RollbackSteps ==
    ASSUME CheckpointInv, Steps, Rollback
    PROVE  Steps'
<1>1. /\ Typed /\ AgentTyped /\ WorkersTyped
      /\ AgentInv /\ PlaceholderInv /\ NumbersInv /\ WorkInv /\ RevertInv
  BY DEF CheckpointInv, Typed, Steps
<1>2. /\ UNCHANGED <<running, started, checkpoints, ingesting>>
      /\ UNCHANGED <<toIngestion, runtime, domain>>
      /\ job.at = "rollback" /\ job' = [job EXCEPT !.at = "delete"]
      /\ conversation' = SubSeq(conversation, 1, Len(conversation) - job.turns)
  BY DEF Rollback, thread, streams
<1>3. job \in Reverting
  BY <1>1, <1>2, Kinds
<1>4. /\ job' \in Reverting /\ job'.at = "delete" /\ job'.count = job.count
      /\ job.count \in Int /\ job.turns \in Nat
      /\ job \notin Capturing /\ job' \notin Capturing
  BY <1>2, <1>3 DEF Reverting, Capturing
<1>5. /\ running = None /\ toIngestion = <<>> /\ runtime = <<>> /\ ingesting = Idle
      /\ job.count >= 0 /\ Len(conversation) = job.count + job.turns
  BY <1>1, <1>2, <1>3 DEF RevertInv, AtRest
<1>6. /\ DOMAIN conversation = 1..Len(conversation) /\ Len(conversation) \in Nat
      /\ \A i \in DOMAIN conversation : conversation[i] \in Turn
      /\ None \notin Turn
      /\ \A c \in checkpoints : c.count \in Nat
  BY <1>1, TurnsAreTurns
<1>7. /\ Len(conversation') = job.count /\ DOMAIN conversation' = 1..job.count
      /\ \A i \in DOMAIN conversation' :
            i \in DOMAIN conversation /\ conversation'[i] = conversation[i]
  <2>1. conversation \in Seq(Turn)
    BY <1>1 DEF AgentTyped
  <2>2. job.count <= Len(conversation)
        /\ Len(conversation) - job.turns = job.count
    BY <1>4, <1>5, <1>6
  <2>3. \A i \in 1..job.count : conversation[i] \in Turn
    BY <1>4, <1>6, <2>2
  <2>4. conversation' = SubSeq(conversation, 1, job.count)
    BY <1>2, <2>2
  <2>5. /\ Len(conversation') = job.count
        /\ \A i \in 1..job.count : conversation'[i] = conversation[i]
        /\ conversation' \in Seq(Turn)
    BY <1>4, <1>5, <2>3, <2>4, SubSeqProperties
  <2> QED
    BY <1>4, <1>6, <2>2, <2>5, LenProperties
<1>8. AgentInv'
  BY <1>1, <1>2, <1>5, <1>7, NothingEnded DEF AgentInv
<1>9. PlaceholderInv'
  BY <1>1, <1>2, SamePlaceholder
<1>10. \A n : Listed(n) => Listed(n)'
  BY <1>2 DEF Listed
<1>11. NumbersInv'
  <2>1. ASSUME NEW c \in checkpoints PROVE Counted(c)' \/ Leftover(c)'
    <3>1. Counted(c)
      BY <1>1, <1>2, <2>1 DEF NumbersInv, Leftover
    <3>2. CASE c.count <= job.count
      <4>1. c.count \in DOMAIN conversation'
        BY <1>4, <1>6, <1>7, <3>1, <3>2 DEF Counted
      <4> QED
        BY <1>7, <1>10, <3>1, <4>1 DEF Counted
    <3>3. CASE c.count > job.count
      BY <1>4, <3>3 DEF Leftover
    <3> QED
      BY <1>4, <1>6, <3>2, <3>3
  <2> QED
    BY <1>1, <1>2, <1>4, <1>10, <2>1 DEF NumbersInv
<1>12. WorkInv'
  <2>1. \A i \in DOMAIN conversation : Listed(i)
    BY <1>1, <1>4, <1>5, <1>6, NothingEnded DEF WorkInv, Awaited, IsCaptured
  <2>2. \A c \in checkpoints : IsReal(c) \/ Announced(c)'
    BY <1>1, <1>2, <1>4 DEF WorkInv, IsCaptured, Announced
  <2> QED
    BY <1>2, <1>7, <1>10, <2>1, <2>2 DEF WorkInv, IsReal
<1>13. RevertInv'
  BY <1>2, <1>4, <1>5, <1>7 DEF RevertInv, AtRest
<1> QED
  BY <1>8, <1>9, <1>11, <1>12, <1>13 DEF Steps

LEMMA DeleteRefsSteps ==
    ASSUME CheckpointInv, Steps, DeleteRefs
    PROVE  Steps'
<1>1. /\ Typed /\ WorkersTyped
      /\ AgentInv /\ PlaceholderInv /\ NumbersInv /\ WorkInv /\ RevertInv
  BY DEF CheckpointInv, Typed, Steps
<1>2. /\ UNCHANGED <<running, started, conversation, checkpoints, ingesting>>
      /\ UNCHANGED <<toIngestion, runtime, domain>>
      /\ job.at = "delete" /\ job' = [job EXCEPT !.at = "finish"]
  BY DEF DeleteRefs, agent, thread, streams
<1>3. job \in Reverting
  BY <1>1, <1>2, Kinds
<1>4. /\ job' \in Reverting /\ job'.at = "finish" /\ job'.count = job.count
      /\ job \notin Capturing /\ job' \notin Capturing
  BY <1>2, <1>3 DEF Reverting, Capturing
<1>5. AgentInv' /\ PlaceholderInv'
  BY <1>1, <1>2, SameAgent, SamePlaceholder DEF AgentInv
<1>6. NumbersInv'
  BY <1>1, <1>2, <1>4 DEF NumbersInv, Counted, Leftover, Listed
<1>7. WorkInv'
  BY <1>1, <1>2, <1>4, SameWork DEF Announced
<1>8. RevertInv'
  BY <1>1, <1>2, <1>3, <1>4 DEF RevertInv, AtRest
<1> QED
  BY <1>5, <1>6, <1>7, <1>8 DEF Steps

LEMMA FinishRevertSteps ==
    ASSUME CheckpointInv, Steps, FinishRevert
    PROVE  Steps'
<1>1. /\ Typed /\ WorkersTyped
      /\ AgentInv /\ PlaceholderInv /\ NumbersInv /\ WorkInv /\ RevertInv
  BY DEF CheckpointInv, Typed, Steps
<1>2. /\ UNCHANGED <<running, started, conversation, ingesting>>
      /\ UNCHANGED <<toIngestion, runtime, domain>>
      /\ job.at = "finish" /\ job' = Idle
      /\ checkpoints' = {c \in checkpoints : c.count <= job.count}
  BY DEF FinishRevert, UpTo, agent, streams
<1>3. job \in Reverting
  BY <1>1, <1>2, Kinds
<1>4. /\ job.count \in Int /\ job \notin Capturing
      /\ job' \notin Capturing /\ job' \notin Reverting
  BY <1>2, <1>3, IdleIsNoJob DEF Reverting, Capturing
<1>5. /\ AtRest /\ Len(conversation) = job.count
      /\ DOMAIN conversation = 1..Len(conversation) /\ Len(conversation) \in Nat
      /\ \A i \in DOMAIN conversation : conversation[i] # None
      /\ \A c \in checkpoints : c.count \in Nat
  BY <1>1, <1>2, <1>3, TurnsAreTurns DEF RevertInv
<1>6. \A n \in 1..job.count : Listed(n) => Listed(n)'
  BY <1>2 DEF Listed
<1>7. NumbersInv'
  <2>1. ASSUME NEW c \in checkpoints' PROVE Counted(c)' /\ c.count > 0
    <3>1. c \in checkpoints /\ c.count <= job.count /\ c.count \in Nat
      BY <1>2, <1>5
    <3>2. Counted(c) /\ c.count > 0
      BY <1>1, <1>4, <3>1 DEF NumbersInv, Leftover
    <3>3. \A n \in 1..c.count - 1 : n \in 1..job.count
      BY <1>4, <3>1
    <3> QED
      BY <1>2, <1>6, <3>2, <3>3 DEF Counted
  <2>2. \A c, d \in checkpoints' : c.turn = d.turn => c = d
    BY <1>1, <1>2 DEF NumbersInv
  <2>3. \A c \in checkpoints' : \A n \in 1..c.count - 1 : Listed(n)'
    BY <2>1 DEF Counted
  <2> QED
    BY <1>4, <2>1, <2>2, <2>3 DEF NumbersInv
<1>8. WorkInv'
  <2>1. \A i \in DOMAIN conversation : Listed(i)
    BY <1>1, <1>4, <1>5, NothingEnded DEF WorkInv, Awaited, IsCaptured, AtRest
  <2>2. \A c \in checkpoints' : IsReal(c) \/ Announced(c)'
    BY <1>1, <1>2, <1>4 DEF WorkInv, IsCaptured, Announced
  <2> QED
    BY <1>2, <1>5, <1>6, <2>1, <2>2 DEF WorkInv, IsReal
<1>9. AgentInv' /\ PlaceholderInv'
  BY <1>1, <1>2, SameAgent, SamePlaceholder DEF AgentInv
<1>10. RevertInv'
  BY <1>4 DEF RevertInv
<1> QED
  BY <1>7, <1>8, <1>9, <1>10 DEF Steps

-----------------------------------------------------------------------------
(* All steps.                                                              *)

LEMMA StepsInit == Init => StepInv
<1> SUFFICES ASSUME Init PROVE Steps
  BY DEF StepInv
<1>1. /\ conversation = <<>> /\ checkpoints = {} /\ running = None
      /\ toIngestion = <<>> /\ runtime = <<>> /\ ingesting = Idle /\ job = Idle
  BY DEF Init
<1>2. AgentInv
  BY <1>1, NothingEnded, EmptySeq DEF AgentInv
<1>3. PlaceholderInv /\ NumbersInv /\ WorkInv /\ RevertInv
  BY <1>1, IdleIsNoJob, IdleKind, EmptySeq
     DEF PlaceholderInv, NumbersInv, WorkInv, RevertInv
<1> QED
  BY <1>2, <1>3 DEF Steps

(* A mishap is never forgotten.                                            *)
LEMMA MishapsStay == CheckpointInv /\ [Next]_vars => mishaps \subseteq mishaps'
<1> SUFFICES ASSUME CheckpointInv, Next PROVE mishaps \subseteq mishaps'
  BY DEF vars, history
<1>1. CASE Reactor
  BY <1>1 DEF Reactor, TakeStart, SaveBaseline, TakeCompleted, TakeDiff, Save,
              DispatchCapture, TakeRevert, Rollback, DeleteRefs, FinishRevert, Note,
              history
<1>2. CASE Ingestion
  BY <1>2 DEF Ingestion, IngestStarted, IngestCompleted, IngestDiff,
              DispatchPlaceholder, history
<1>3. CASE Send \/ \E c \in checkpoints : AskRevert(c)
  BY <1>3 DEF Send, AskRevert, history
<1>4. CASE \/ StartTurn \/ Edit \/ Fail
           \/ \E i \in BOOLEAN : EndTurn(i) \/ EndTurnUnheard(i)
  BY <1>4 DEF StartTurn, Edit, EndTurn, EndTurnUnheard, Fail, Note, history
<1> QED
  BY <1>1, <1>2, <1>3, <1>4 DEF Next

LEMMA StepsStep == CheckpointInv /\ StepInv /\ [Next]_vars => StepInv'
<1> SUFFICES ASSUME CheckpointInv, StepInv, [Next]_vars, mishaps' = {} PROVE Steps'
  BY DEF StepInv
<1>1. mishaps = {} /\ Steps
  BY MishapsStay DEF StepInv
<1>2. CASE UNCHANGED vars
  <2>1. /\ UNCHANGED <<running, started, conversation, checkpoints, job, ingesting>>
        /\ UNCHANGED <<toIngestion, runtime, domain>>
    BY <1>2 DEF vars, agent, thread, streams, workers
  <2> QED
    BY <1>1, <2>1, SameAgent, SamePlaceholder, SameNumbers, SameWork, SameRevert
       DEF Steps, AgentInv, Announced
<1>3. CASE Next
  <2>1. CASE Reactor
    BY <1>1, <2>1, BaselineSteps, TakeCompletedSteps, TakeDiffSteps, SaveSteps,
       DispatchCaptureSteps, TakeRevertSteps, RollbackSteps, DeleteRefsSteps,
       FinishRevertSteps DEF Reactor
  <2>2. CASE Ingestion
    BY <1>1, <2>2, SessionSteps, IngestDiffSteps, DispatchPlaceholderSteps
       DEF Ingestion
  <2>3. ~ Fail /\ \A i \in BOOLEAN : ~ EndTurnUnheard(i)
    BY DEF Fail, EndTurnUnheard
  <2> QED
    BY <1>1, <1>3, <2>1, <2>2, <2>3, UserSteps, StartTurnSteps, EditSteps, EndTurnSteps
       DEF Next
<1> QED
  BY <1>2, <1>3

(* When all is quiet, nothing is awaited any more.                         *)
LEMMA QuietInStep == CheckpointInv /\ StepInv => ConversationInStep
<1> SUFFICES ASSUME CheckpointInv, StepInv, Quiet, mishaps = {}
             PROVE  /\ Len(conversation) = Cardinality(checkpoints)
                    /\ \A n \in DOMAIN conversation : \E c \in checkpoints :
                          /\ c.count = n /\ c.turn = conversation[n]
                          /\ IsReal(c) /\ c.git
  BY DEF ConversationInStep
<1>1. Typed /\ RealOnes /\ AgentInv /\ NumbersInv /\ WorkInv
  BY DEF CheckpointInv, Invariants, StepInv, Steps
<1>2. /\ running = None /\ runtime = <<>> /\ domain = <<>> /\ job = Idle
      /\ job \notin Capturing /\ job.at = "idle"
  BY IdleKind DEF Quiet
<1>3. /\ DOMAIN conversation = 1..Len(conversation) /\ Len(conversation) \in Nat
      /\ \A n \in DOMAIN conversation : conversation[n] # None
  BY <1>1, TurnsAreTurns
<1>4. \A n \in DOMAIN conversation : Listed(n)
  BY <1>1, <1>2, <1>3, NothingEnded DEF WorkInv, Awaited, IsCaptured
<1>5. \A c \in checkpoints : IsReal(c) /\ c.git
  <2>1. \A c : ~ Announced(c)
    BY <1>2, EmptySeq DEF Announced
  <2> QED
    BY <1>1, <1>2, <2>1 DEF WorkInv, IsCaptured, RealOnes
<1>6. \A c \in checkpoints :
         c.count \in DOMAIN conversation /\ conversation[c.count] = c.turn
  BY <1>1, <1>2 DEF NumbersInv, Counted, Leftover
<1>7. \A n \in DOMAIN conversation : \E c \in checkpoints :
         c.count = n /\ c.turn = conversation[n] /\ IsReal(c) /\ c.git
  BY <1>4, <1>5, <1>6 DEF Listed
<1>8. Len(conversation) = Cardinality(checkpoints)
  <2> DEFINE S == 1..Len(conversation)
             f == [n \in S |-> CHOOSE c \in checkpoints : c.count = n]
  <2>1. \A n \in S : f[n] \in checkpoints /\ f[n].count = n
    BY <1>3, <1>4 DEF Listed
  <2>2. \A c \in checkpoints : c.count \in S
    BY <1>3, <1>6
  <2>3. \A c, d \in checkpoints : c.count = d.count => c = d
    BY <1>1, <1>6 DEF NumbersInv
  <2>4. f \in [S -> checkpoints]
    BY <2>1
  <2> HIDE DEF f
  <2>5. f \in Bijection(S, checkpoints)
    BY <2>1, <2>2, <2>3, <2>4 DEF Bijection, Injection, IsInjective, Surjection
  <2>6. IsFiniteSet(S) /\ Cardinality(S) = Len(conversation)
    BY <1>3, FS_Interval
  <2> QED
    BY <2>5, <2>6, FS_Bijection DEF ExistsBijection
<1> QED
  BY <1>7, <1>8

-----------------------------------------------------------------------------
(* Every variable has its type in every reachable state.                   *)
THEOREM TypeCorrect == Spec => []TypeOK
<1>1. CheckpointInv => TypeOK
  BY DEF CheckpointInv, Typed, AgentTyped, ThreadTyped, RefsTyped, WorkersTyped, TypeOK
<1> QED
  BY <1>1, CheckpointInvariant, PTL

(* Unless a step of the reactor failed, the files that a checkpoint claims *)
(* to have under a git ref are there, in both projections.                 *)
THEOREM ClaimsAreKept == Spec => []FilesAreThere
<1>1. CheckpointInv => FilesAreThere
  BY DEF CheckpointInv, Invariants, FilesInv, Claimed, FilesAreThere
<1> QED
  BY <1>1, CheckpointInvariant, PTL

(* Unless a count was given twice, the read model and the tables list the  *)
(* same checkpoints.                                                       *)
THEOREM ProjectionsStayEqual == Spec => []ProjectionsAgree
<1>1. CheckpointInv => ProjectionsAgree
  BY DEF CheckpointInv, Invariants, AgreeInv, Undisturbed, ProjectionsAgree
<1> QED
  BY <1>1, CheckpointInvariant, PTL

(* Unless a count was given twice or a job failed: what a ready checkpoint *)
(* restores never changes while it is listed.                              *)
THEOREM FilesStayTheSame == Spec => CheckpointsAreKept
  BY KeptStep, CheckpointInvariant, PTL DEF Spec, CheckpointsAreKept, RefsAreKept

(* When all is quiet and nothing went wrong, the n-th turn the agent       *)
(* remembers has the n-th checkpoint, with its files: a revert that counts *)
(* checkpoints takes the right turns from the agent.                       *)
THEOREM TurnsAreCounted == Spec => []ConversationInStep
<1>1. Init => CheckpointInv /\ StepInv
  BY CheckpointInit, StepsInit
<1>2. CheckpointInv /\ StepInv /\ [Next]_vars => (CheckpointInv /\ StepInv)'
  BY CheckpointStep, StepsStep
<1>3. CheckpointInv /\ StepInv => ConversationInStep
  BY QuietInStep
<1> QED
  BY <1>1, <1>2, <1>3, PTL DEF Spec
=============================================================================
