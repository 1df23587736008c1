-------------------------- MODULE TurnCheckpoints --------------------------
(***************************************************************************)
(* The checkpoints of one thread in a git workspace: an agent edits files  *)
(* in turns, runtime ingestion notes the turns, the checkpoint reactor     *)
(* saves the files under git refs and reverts to them, and the thread's    *)
(* checkpoints are projected twice, into the read model and into the       *)
(* tables.  A dispatch is one step (the engine is OrchestrationEngine).    *)
(***************************************************************************)
EXTENDS Integers, SequencesExt

CONSTANTS
    MaxTurns,    \* bound: turns the agent starts
    MaxEdits,    \* bound: edits of files
    MaxReverts   \* bound: reverts that are asked for

ASSUME CheckpointAssumption ==
    MaxTurns \in Nat /\ MaxEdits \in Nat /\ MaxReverts \in Nat

Turn == 1..MaxTurns
Tree == 0..MaxEdits
None == -1

VARIABLES
    \* The agent and its workspace.
    tree,         \* the files, as the number of the edit that made them
    edits,        \* how many edits there have been
    running,      \* the turn in progress
    started,      \* how many turns have started
    requests,     \* turns asked for and not started
    conversation, \* the turns the agent remembers, in order
    \* The server.
    checkpoints,  \* the thread's checkpoints in the read model
    rows,         \* the checkpoints in the table projection_turns
    active,       \* the session's active turn
    refs,         \* refs[n]: the files saved under the git ref of count n, if any
    toIngestion,  \* runtime events for the ingestion's worker
    runtime,      \* runtime events for the reactor's worker
    domain,       \* domain events for the reactor's worker
    ingesting,    \* the placeholder the ingestion is about to dispatch
    job,          \* what the reactor's worker is doing
    reverts,      \* how many reverts were asked for
    \* History.
    endTree,      \* endTree[t]: the files when turn t ended
    mishaps       \* what went wrong so far

agent == <<tree, edits, running, started, requests, conversation>>
thread == <<checkpoints, rows, active>>
streams == <<toIngestion, runtime, domain>>
workers == <<ingesting, job>>
history == <<endTree, mishaps>>
vars == <<agent, thread, refs, streams, workers, reverts, history>>

(* raced      a checkpoint was dispatched on a view that had changed       *)
(* overtaken  the next turn was active, or had its placeholder, before a   *)
(*            turn had its checkpoint                                      *)
(* revived    a placeholder that a revert had removed was captured         *)
(* overlapped a revert was handled while a turn was in progress            *)
(* failed     git, the agent or the dispatch of a capture or revert failed *)
(* unheard    the reactor did not hear of the end of a turn                *)
(* covered    nor of this one, but a diff of the turn had been reported    *)
Mishap ==
    {"raced", "overtaken", "revived", "overlapped", "failed", "unheard", "covered"}
Note(mishap, happened) ==
    mishaps' = IF happened THEN mishaps \cup {mishap} ELSE mishaps

(* missing is a placeholder or an interrupted turn; a failed turn's        *)
(* status, error, is treated as ready throughout.                          *)
Status == {"ready", "missing"}

Checkpoint == [turn : Turn, count : Nat, status : Status, git : BOOLEAN]

Idle == [at |-> "idle"]

Init ==
    /\ tree = 0 /\ edits = 0 /\ running = None /\ started = 0 /\ requests = 0
    /\ conversation = <<>>
    /\ checkpoints = {} /\ rows = {} /\ active = None
    /\ refs = <<>>
    /\ toIngestion = <<>> /\ runtime = <<>> /\ domain = <<>>
    /\ ingesting = Idle /\ job = Idle
    /\ reverts = 0
    /\ endTree = [t \in Turn |-> None] /\ mishaps = {}

-----------------------------------------------------------------------------
(* The two projections of thread.turn-diff-completed and thread.reverted.  *)

Of(t, cs) == {c \in cs : c.turn = t}
IsReal(c) == c.status # "missing"

\* The git refs: what is saved under that of count n, and saving files there.
Saved(n) == IF n \in DOMAIN refs THEN refs[n] ELSE None
Store(n, files) ==
    refs' = [k \in DOMAIN refs \cup {n} |-> IF k = n THEN files ELSE refs[k]]

\* currentTurnCount of the thread whose checkpoints are cs.
CurrentCount(cs) == Max({0} \cup {c.count : c \in cs})

\* MUTANT: in memory a turn's placeholder stays beside its checkpoint.
InMemory_KeepsBoth(cs, c) ==
    IF \E d \in Of(c.turn, cs) : IsReal(d) /\ ~ IsReal(c) THEN cs ELSE cs \cup {c}

\* In memory a placeholder does not replace a real checkpoint.
InMemory(cs, c) ==
    IF \E d \in Of(c.turn, cs) : IsReal(d) /\ ~ IsReal(c)
    THEN cs
    ELSE (cs \ Of(c.turn, cs)) \cup {c}

\* In the table a count belongs to one turn.
InTable(cs, c) == {d \in cs : d.turn # c.turn /\ d.count # c.count} \cup {c}

UpTo(n, cs) == {c \in cs : c.count <= n}

(* thread.turn.diff.complete: decided, projected twice and published.      *)
Complete(c) ==
    /\ checkpoints' = InMemory(checkpoints, c)
    /\ rows' = InTable(rows, c)
    /\ domain' = Append(domain, [type |-> "diff", checkpoint |-> c])
    /\ UNCHANGED active

-----------------------------------------------------------------------------
(* The user.  The two events of a turn request, which the reactor handles  *)
(* alike, are one.  The client refuses a revert while it sees a turn       *)
(* running.                                                                *)

Send ==
    /\ started + requests < MaxTurns
    /\ requests' = requests + 1
    /\ domain' = Append(domain, [type |-> "start"])
    /\ UNCHANGED <<tree, edits, running, started, conversation, thread, refs,
                   toIngestion, runtime, workers, reverts, history>>

AskRevert(c) ==
    /\ reverts < MaxReverts
    /\ active = None
    /\ reverts' = reverts + 1
    /\ domain' = Append(domain, [type |-> "revert", count |-> c.count - 1])
    /\ UNCHANGED <<agent, thread, refs, toIngestion, runtime, workers, history>>

-----------------------------------------------------------------------------
(* The agent.                                                              *)

\* Each reader of the runtime events has a subscription of its own.
Emit(e) ==
    /\ toIngestion' = Append(toIngestion, e)
    /\ runtime' = Append(runtime, e)
    /\ UNCHANGED domain

StartTurn ==
    /\ running = None /\ requests > 0
    /\ requests' = requests - 1
    /\ started' = started + 1
    /\ running' = started + 1
    /\ conversation' = Append(conversation, started + 1)
    /\ Emit([type |-> "started", turn |-> started + 1])
    /\ Note("overlapped", job.at \in {"rollback", "delete", "finish"})
    /\ UNCHANGED <<tree, edits, thread, refs, workers, reverts, endTree>>

(* Some agents report the diff of the turn so far after an edit.           *)
Edit ==
    /\ running # None /\ edits < MaxEdits
    /\ edits' = edits + 1
    /\ tree' = edits + 1
    /\ \/ UNCHANGED toIngestion
       \/ toIngestion' =
              Append(toIngestion, [type |-> "diff", turn |-> running])
    /\ UNCHANGED <<running, started, requests, conversation, thread, refs,
                   runtime, domain, workers, reverts, history>>

Completed(interrupted) ==
    [type |-> "completed", turn |-> running,
     status |-> IF interrupted THEN "missing" ELSE "ready"]

Finished ==
    /\ running # None
    /\ running' = None
    /\ endTree' = [endTree EXCEPT ![running] = tree]
    /\ UNCHANGED <<tree, edits, started, requests, conversation, thread, refs,
                   workers, reverts>>

EndTurn(interrupted) ==
    /\ Finished
    /\ Emit(Completed(interrupted))
    /\ UNCHANGED mishaps

\* A diff of turn t was reported, and is on its way or has its placeholder.
Reported(t) ==
    \/ [type |-> "diff", turn |-> t] \in ToSet(toIngestion)
    \/ ingesting # Idle /\ ingesting.checkpoint.turn = t
    \/ Of(t, checkpoints) # {}

(* The reactor does not hear of the end.  Emit has no such loss; a comment *)
(* in the reactor says that there is one, and that placeholders make up    *)
(* for it, so the model has both.                                          *)
OneLoss == mishaps \cap {"unheard", "covered"} = {}   \* bound: losses
EndTurnUnheard(interrupted) ==
    /\ OneLoss
    /\ Finished
    /\ toIngestion' = Append(toIngestion, Completed(interrupted))
    /\ mishaps' =
          mishaps \cup {IF Reported(running) THEN "covered" ELSE "unheard"}
    /\ UNCHANGED <<runtime, domain>>

-----------------------------------------------------------------------------
(* Runtime ingestion: the session's active turn, and a placeholder for a   *)
(* turn's first diff, made from a view of the thread read before.          *)

Ingest(type) ==
    /\ ingesting = Idle
    /\ toIngestion # <<>> /\ Head(toIngestion).type = type
    /\ toIngestion' = Tail(toIngestion)

IngestStarted ==
    /\ Ingest("started")
    /\ active' = IF active = None THEN Head(toIngestion).turn ELSE active
    /\ UNCHANGED <<agent, checkpoints, rows, refs, runtime, domain, workers,
                   reverts, history>>

IngestCompleted ==
    /\ Ingest("completed")
    /\ active' = IF active = Head(toIngestion).turn THEN None ELSE active
    /\ UNCHANGED <<agent, checkpoints, rows, refs, runtime, domain, workers,
                   reverts, history>>

IngestDiff ==
    /\ Ingest("diff")
    /\ LET t == Head(toIngestion).turn
       IN  ingesting' =
             IF Of(t, checkpoints) # {} THEN Idle
             ELSE [at |-> "placeholder", view |-> checkpoints,
                   checkpoint |->
                     [turn |-> t, count |-> CurrentCount(checkpoints) + 1,
                      status |-> "missing", git |-> FALSE]]
    /\ UNCHANGED <<agent, thread, refs, runtime, domain, job, reverts, history>>

DispatchPlaceholder ==
    /\ ingesting.at = "placeholder"
    /\ Complete(ingesting.checkpoint)
    /\ LET t == ingesting.checkpoint.turn
           unfinished == {u \in ToSet(conversation) :
                            u < t /\ Of(u, checkpoints) = {}}
       IN  mishaps' = mishaps
              \cup (IF ingesting.view # checkpoints THEN {"raced"} ELSE {})
              \cup (IF unfinished # {} THEN {"overtaken"} ELSE {})
    /\ ingesting' = Idle
    /\ UNCHANGED <<agent, refs, toIngestion, runtime, job, reverts, endTree>>

-----------------------------------------------------------------------------
(* The checkpoint reactor: one worker over two event streams.              *)

TakeDomain(type) ==
    /\ job = Idle
    /\ domain # <<>> /\ Head(domain).type = type
    /\ domain' = Tail(domain)
    /\ UNCHANGED <<toIngestion, runtime>>

TakeRuntime(type) ==
    /\ job = Idle
    /\ runtime # <<>> /\ Head(runtime).type = type
    /\ runtime' = Tail(runtime)
    /\ UNCHANGED <<toIngestion, domain>>

(* MUTANT: the baseline is saved whether or not there is one.              *)
TakeStart_NoCheck ==
    /\ TakeDomain("start") \/ TakeRuntime("started")
    /\ job' = [at |-> "baseline", count |-> CurrentCount(checkpoints)]
    /\ UNCHANGED <<agent, thread, refs, ingesting, reverts, history>>

(* A turn was asked for, or it started: the files before it are saved, if  *)
(* they are not (only this worker touches the refs).                       *)
TakeStart ==
    /\ TakeDomain("start") \/ TakeRuntime("started")
    /\ LET n == CurrentCount(checkpoints)
       IN  job' = IF n \notin DOMAIN refs THEN [at |-> "baseline", count |-> n] ELSE Idle
    /\ UNCHANGED <<agent, thread, refs, ingesting, reverts, history>>

SaveBaseline ==
    /\ job.at = "baseline"
    /\ Store(job.count, tree)
    /\ job' = Idle
    /\ UNCHANGED <<agent, thread, streams, ingesting, reverts, history>>

Capture(t, n, status) ==
    [at |-> "capture", view |-> checkpoints,
     checkpoint |-> [turn |-> t, count |-> n, status |-> status, git |-> TRUE]]

\* MUTANT: a placeholder counts as a real checkpoint.
HasReal_Any(t) == Of(t, checkpoints) # {}

HasReal(t) == \E c \in Of(t, checkpoints) : IsReal(c)

\* MUTANT: the end of a turn counts past its placeholder.
CountFor_Next(t) == CurrentCount(checkpoints) + 1

\* A placeholder's count is used again.
CountFor(t) ==
    IF Of(t, checkpoints) # {} THEN (CHOOSE c \in Of(t, checkpoints) : TRUE).count
    ELSE CurrentCount(checkpoints) + 1

TakeCompleted ==
    /\ TakeRuntime("completed")
    /\ LET e == Head(runtime)
           overtaken == active # None /\ active # e.turn
       IN  /\ job' = IF overtaken \/ HasReal(e.turn) THEN Idle
                     ELSE Capture(e.turn, CountFor(e.turn), e.status)
           /\ Note("overtaken", overtaken)
    /\ UNCHANGED <<agent, thread, refs, ingesting, reverts, endTree>>

(* A checkpoint appeared.  A placeholder is replaced by a real one.        *)
TakeDiff ==
    /\ TakeDomain("diff")
    /\ LET c == Head(domain).checkpoint
           skipped == IsReal(c) \/ HasReal(c.turn)
       IN  /\ job' = IF skipped THEN Idle ELSE Capture(c.turn, c.count, "ready")
           /\ Note("revived", ~ skipped /\ c \notin checkpoints)
    /\ UNCHANGED <<agent, thread, refs, ingesting, reverts, endTree>>

Save ==
    /\ job.at = "capture"
    /\ Store(job.checkpoint.count, tree)
    /\ job' = [job EXCEPT !.at = "captured"]
    /\ UNCHANGED <<agent, thread, streams, ingesting, reverts, history>>

DispatchCapture ==
    /\ job.at = "captured"
    /\ Complete(job.checkpoint)
    /\ Note("raced", job.view # checkpoints)
    /\ job' = Idle
    /\ UNCHANGED <<agent, refs, toIngestion, runtime, ingesting, reverts, endTree>>

(* A revert: restore the files, roll the agent back, delete the refs, and  *)
(* then the thread itself.  Without the target's files it ends at once.    *)
\* MUTANT: the target's own ref is deleted too.
Stale_WithTarget(n) == {c.count : c \in {d \in checkpoints : d.count >= n /\ d.git}}

Stale(n) == {c.count : c \in {d \in checkpoints : d.count > n /\ d.git}}

TurnInProgress == running # None \/ toIngestion # <<>> \/ runtime # <<>>

TakeRevert ==
    /\ TakeDomain("revert")
    /\ LET n == Head(domain).count
           current == CurrentCount(checkpoints)
           possible == \/ n = 0
                       \/ /\ n <= current
                          /\ \E c \in checkpoints : c.count = n /\ c.git
                          /\ n \in DOMAIN refs
       IN  /\ job' = IF possible
                     THEN [at |-> "rollback", count |-> n, turns |-> current - n,
                           stale |-> Stale(n)]
                     ELSE Idle
           /\ tree' = IF ~ possible THEN tree
                      ELSE IF n \in DOMAIN refs THEN refs[n] ELSE 0
           /\ Note("overlapped", possible /\ TurnInProgress)
    /\ UNCHANGED <<edits, running, started, requests, conversation, thread,
                   refs, ingesting, reverts, endTree>>

Rollback ==
    /\ job.at = "rollback"
    /\ LET kept == Len(conversation) - job.turns
       IN  conversation' = SubSeq(conversation, 1, kept)
    /\ job' = [job EXCEPT !.at = "delete"]
    /\ UNCHANGED <<tree, edits, running, started, requests, thread, refs,
                   streams, ingesting, reverts, history>>

DeleteRefs ==
    /\ job.at = "delete"
    /\ refs' = [n \in DOMAIN refs \ job.stale |-> refs[n]]
    /\ job' = [job EXCEPT !.at = "finish"]
    /\ UNCHANGED <<agent, thread, streams, ingesting, reverts, history>>

FinishRevert ==
    /\ job.at = "finish"
    /\ checkpoints' = UpTo(job.count, checkpoints)
    /\ rows' = UpTo(job.count, rows)
    /\ job' = Idle
    /\ UNCHANGED <<agent, active, refs, streams, ingesting, reverts, history>>

(* git, the agent or a dispatch fails; the job ends with an activity for   *)
(* the user.                                                               *)
OneFailure == "failed" \notin mishaps   \* bound: failures
Fail ==
    /\ OneFailure
    /\ job.at \in {"baseline", "capture", "captured", "rollback", "delete", "finish"}
    /\ job' = Idle
    /\ mishaps' = mishaps \cup {"failed"}
    /\ UNCHANGED <<agent, thread, refs, streams, ingesting, reverts, endTree>>

Ingestion == IngestStarted \/ IngestCompleted \/ IngestDiff \/ DispatchPlaceholder
Reactor ==
    \/ TakeStart \/ SaveBaseline
    \/ TakeCompleted \/ TakeDiff \/ Save \/ DispatchCapture
    \/ TakeRevert \/ Rollback \/ DeleteRefs \/ FinishRevert

Next ==
    \/ Send \/ \E c \in checkpoints : AskRevert(c)
    \/ StartTurn \/ Edit
    \/ \E i \in BOOLEAN : EndTurn(i) \/ EndTurnUnheard(i)
    \/ Ingestion
    \/ Reactor \/ Fail

Spec == Init /\ [][Next]_vars
FairSpec == Spec /\ WF_vars(Ingestion) /\ WF_vars(Reactor)

-----------------------------------------------------------------------------
\* Everything that was said has been heard.
Quiet ==
    /\ running = None /\ requests = 0
    /\ toIngestion = <<>> /\ runtime = <<>> /\ domain = <<>>
    /\ ingesting = Idle /\ job = Idle

(* Every variable has its type (agent, thread, refs and history).          *)
TypeOK ==
    /\ tree \in Tree /\ edits \in Tree
    /\ {running, active} \subseteq Turn \cup {None}
    /\ conversation \in Seq(Turn)
    /\ checkpoints \cup rows \subseteq Checkpoint
    /\ DOMAIN refs \subseteq Nat /\ \A n \in DOMAIN refs : refs[n] \in Tree
    /\ endTree \in [Turn -> Tree \cup {None}]
    /\ mishaps \subseteq Mishap

(* A checkpoint that claims a git ref has one, in both projections, so a   *)
(* revert that is offered can restore the files: the reactor saves before  *)
(* it dispatches, and a revert deletes only what it is about to remove.    *)
FilesAreThere ==
    "failed" \in mishaps
    \/ \A c \in checkpoints \cup rows :
          c.git => \/ c.count \in DOMAIN refs
                   \/ job.at = "finish" /\ c.count > job.count

(* What a ready checkpoint restores never changes while it is listed: no   *)
(* baseline, later capture or earlier revert writes over its git ref, as   *)
(* long as counts are not given twice and no revert stops half-way.        *)
CheckpointsAreKept ==
    [][ \A c \in checkpoints \cap checkpoints' :
          IsReal(c) /\ mishaps' \cap {"raced", "revived", "failed"} = {}
            => \/ Saved(c.count)' = Saved(c.count)
               \/ job.at = "delete" /\ c.count > job.count ]_vars

(* The read model and the tables list the same checkpoints although they   *)
(* apply different rules, unless a count was given twice.                  *)
ProjectionsAgree ==
    mishaps \cap {"raced", "revived"} = {} => rows = checkpoints

(* When all is quiet the n-th turn that the agent remembers has the n-th   *)
(* checkpoint, with its files, reverted or not: this is what lets a revert *)
(* roll the agent back by counting checkpoints.                            *)
ConversationInStep ==
    Quiet /\ mishaps = {} =>
      /\ Len(conversation) = Cardinality(checkpoints)
      /\ \A n \in DOMAIN conversation : \E c \in checkpoints :
            c.count = n /\ c.turn = conversation[n] /\ IsReal(c) /\ c.git

(* Every turn that ends gets a real checkpoint in the end, also one that   *)
(* was interrupted or had a placeholder, unless a mishap or a revert       *)
(* took it away.  A turn whose end the reactor does not hear of has its    *)
(* placeholder captured, if a diff of it was reported.                     *)
EveryTurnIsCheckpointed ==
    \A t \in Turn :
        endTree[t] # None
          ~> \/ \E c \in checkpoints : c.turn = t /\ IsReal(c) /\ c.git
             \/ mishaps \ {"covered"} # {} \/ reverts > 0

(* Violated.  A checkpoint is the workspace after its turn: when all is    *)
(* quiet and nothing went wrong it holds the files as the turn left them.  *)
CheckpointIsPostTurn ==
    Quiet /\ mishaps = {} =>
      \A c \in checkpoints : Saved(c.count) = endTree[c.turn]
=============================================================================
