# Verification of the CAQLI agent server

The repository is an event-sourced agent dashboard. A server process
(`src/apps/server`) keeps projects and threads, runs coding agents on them and
streams what happens to browsers (`src/apps/web`). TypeScript, with Effect for
concurrency: one process, one SQLite connection, many fibers. This directory
holds TLA+ models of its core, the TLC runs that check them on small instances
and proofs that TLAPS checks for every instance.

## The system

Every change is a *command* sent to the orchestration engine. The engine decides
it on its in-memory read model, stores the resulting *events*, projects them into
SQL tables, publishes them, and answers. Reactors inside the server subscribe to
the events, do the outside work (agent sessions, git checkpoints) and send new
commands. Browsers subscribe over a WebSocket and fold the events into a store.

```
browser --rpc--> CommandGate --> OrchestrationEngine --events--> reactors
   ^                                |  one transaction            |  drainable workers
   |                                v                             v
   +---- snapshot + live events   SQLite                 providers, git, terminals
```

| component (under `src/apps/server/src` unless said) | state | operations | what makes it correct | hard part |
|---|---|---|---|---|
| Orchestration engine `orchestration/Layers/OrchestrationEngine.ts` | `commandQueue`, `readModel`, `eventPubSub`; tables `orchestration_events`, `..._command_receipts` | dispatch, processEnvelope, reconcile, bootstrap | each command id takes effect at most once and whole; its answer never changes; read model = stored events; stream without gap | commit whose result is lost, retries, crash |
| Decider, invariants, projector `orchestration/{decider,commandInvariants,projector}.ts` | pure | 21 command types to events; events to read model | an event fits the state its predecessors leave | many cases; two projections of the same events |
| Projection pipeline `orchestration/Layers/Projection*.ts` | nine projections, `projection_state` cursors, attachment files | projectEvent, bootstrap, getSnapshot | tables = stored events up to the cursor | bootstrap after crash or upgrade |
| Provider runtime ingestion `orchestration/Layers/ProviderRuntimeIngestion.ts` | buffered text, turn and message caches | runtime event to commands | the session status follows the provider's turn; no text lost | snapshot read before commands that are awaited |
| Provider command reactor `.../ProviderCommandReactor.ts` | dedupe cache, thread session options | turn start, interrupt, approval, stop | one provider turn per request | get-then-set dedupe, restart of sessions |
| Checkpoint reactor `.../CheckpointReactor.ts` | git refs | capture, baseline, revert | checkpoint n is the tree after turn n | revert is several steps that can fail one by one |
| Worker library `packages/shared/src/{KeyedCoalescingWorker,DrainableWorker}.ts` | queue, counters | enqueue, drain | nothing lost, one at a time per key, drain waits for all | merge of work that arrives while its key is active |
| Startup gate `serverRuntimeStartup.ts` | gate state, queue | enqueueCommand, open, fail | commands run after startup, in order | queue drained while new commands arrive |
| WebSocket server `ws.ts`, transport `apps/web/src/rpc/wsTransport.ts`, `packages/client-runtime` | subscriptions, session | snapshot + live stream, reconnect | a client's copy converges to the server's | events between snapshot and subscription, reconnect |
| Thread-detail subscription cache `apps/web/src/environments/runtime/service.ts` | cache of entries with reference counts and timers | retain, release, attach, evict, register and remove connections | a consumer's thread is subscribed while connected; active threads are not evicted | order of connect, disconnect, retain, release, timers |
| Sequence recovery `apps/web/src/orchestrationRecovery.ts` | pending snapshot flags | classify an event, begin and end recovery | every event applied once and in order | replay racing live events |
| Provider service, adapters `provider/` | sessions, directory, event streams of Codex, Claude, OpenCode, Cursor | start, send, interrupt, stop, recover | a thread has at most one live session | process death, resume cursors |
| Checkpoint store, git `checkpointing/`, `git/` | refs, status cache and pollers | capture, diff, restore; stacked actions | a stream shows what is cached; the remote status is eventually current | poller reference counts |
| Terminals `terminal/` | PTY sessions, history files | open, write, resize, restart, close | output history kept up to its limit | exit racing restart |
| Auth `auth/`, hosted plane `hosted/` | pairing links, sessions, tokens, leases | issue, consume, revoke; claim | a credential is consumed once | concurrent consumption |
| Desktop shell `apps/desktop`, web UI components, telemetry, observability, scripts | - | - | - | outside the models |

How they interact: clients and reactors *call* `dispatch` and wait on a Deferred;
the engine *publishes* to an unbounded PubSub; each reactor filters the stream
into its own drainable worker; the engine, its store and the projections *share*
the database through one connection; `getReadModel` *shares* the engine's read
model with everyone, including code that awaits between reading and acting.

## Orchestration engine

| module | what it is |
|---|---|
| `OrchestrationCommands` | commands, the events they yield, the guards of the decider, receipts |
| `CommandJournal` | the abstract specification: a durable log that commands extend one at a time and a verdict per command id, right for the whole log and final |
| `OrchestrationEngine` | the engine: database, worker, read model, event stream, faults, crash |
| `MCOrchestrationEngine` | instances for TLC |
| `OrchestrationEngineProofs` | theorems |

**Correspondence.** `eventLog`, `receipts`, `tables` and `cursor` are the
database; they survive `Crash`, everything else is process memory. `phase` is
where `processEnvelope` is suspended. Its steps are actions cut at the awaits:
the receipt look-up and the decision are one action (`AnswerFromReceipt`,
`RefuseFromReceipt`, `ReceiptLookupFails`, `RejectByInvariant`,
`BeginTransaction`), since only this worker writes receipts and the read model;
the transaction is one action because SQLite makes it so, with three outcomes
(`Commit`, `TransactionRollsBack`, and `CommitReportedAsFailure`: the commit is
durable and the caller sees an error, the case the reconciliation in the code is
written for); then `ReplaceReadModel`, one `Publish` per event, `Answer`. A failed
envelope goes through `Reconcile` or `ReconcileFails`, and then
`RecordRejection` or `SkipRejection`. Start-up replays one event of one
projector per step (`ReplayEvent`), so a crash can separate any two.

A table, and each slice of the read model, is represented by the sequence of
events applied to it. Every projection is a function of that sequence, so
"tables equal" in the model means the same content in the code; a missed, doubled or
reordered event shows. One exception is in the code and not in the model: on
`thread.reverted` the message, plan and activity projectors read the turns table
(`ProjectionPipeline.ts:797-930`), which live processing keeps at the same event (the
turns projector comes later in the order) and a bootstrap that replays one projector
at a time does not.

**Runs.**

| run | instance | shows |
|---|---|---|
| `engine_faults` | four commands on one thread (two create it, one archives it, one starts a turn, which yields two events) on a database that already holds three events and has no cursor row of one of the two projectors (a release that adds one); all five faults; one waiting command plus the one in work; crash at any point, resends without limit; fairness | `StoredExactlyOnce`, `AnswersAreDurable`, `ReadModelIsFresh`, `HistoryIsLegal`, `PublicationIsSound` (what is published is the log without a gap, and already in the read model), `BootstrapCatchesUp`, `EveryCommandIsAnswered`, and the refinement `ImplementsJournal` |
| `engine_long_history` | the same with `ReplayLimit` 2 | `BootstrapCatchesUp` is **violated** (finding) |

`engine_faults` has one constraint on steps, `NothingMissed`: no step leaves the
read model behind the log for good (a commit that is reported as failed *and*
whose reconciliation cannot read the store, which the code does not repair before
the next start). It is the assumption that the proofs call `Reliable`, in a form that lets all
faults occur in one run.

Two creates of one thread make a rejection depend on the order; the turn makes
partial storage visible; one thread suffices because events of different threads
only share the sequence, which two commands already contend for. The log is
bounded by the commands (each is stored at most once), so no state constraint is
used. `MaxQueue` bounds only how many resends wait.

**Fairness.** `FairSpec` has weak fairness of `Boot` and `Worker`: the Effect runtime
resumes a fiber whose effect is complete and a SQLite call completes or fails.
Nothing is assumed of clients, crashes or which outcome a call has.

**Finding.** `bootstrapProjector` calls `readFromSequence` without a limit, so
the default of 1000 applies, once. A projector further behind (a new one in a
release, on a database with more than 1000 events) is served as if caught up, and the first
command afterwards moves its cursor past the events it skipped.
`engine_long_history` shows it with a limit of 2 and a log of 3.

**Proofs** (`OrchestrationEngineProofs`). The inductive invariant is `EngineInv`:

- `TypeOK` and `WorkerOK`: types, and which phases hold a command;
- `DurableInv`: receipts agree with what the worker holds (in a transaction the command has
  no receipt; in `failed` an invariant error has none; in `answering` the
  outcome is the receipt's). Without it `StoredExactlyOnce` is not inductive: a
  second `Commit` of a command could not be excluded;
- `ProjectorInv`: each table is the prefix of the log its cursor names, and during
  start-up how far behind a projector can still be;
- `ReadModelInv`: the read model is the fold of the prefix `Folded`, which differs from the log
  only between a commit and what repairs it;
- `PublishInv`: published + outbox = positions since start;
- `DecisionInv`: the decision in flight is right for the whole log.

Types and `DurableInv` are proved with no assumption on the environment:
`TypeCorrect`, `ExactlyOnce`, `DurableAnswers`. The rest assumes `Reliable`, each conjunct of
which is needed: a commit reported as failed *and* an unreadable store leave the read model
behind; a start that must replay more than `ReplayLimit` events leaves a
projector behind (the finding). Under it: `BootstrapComplete`,
`ReadModelFresh`, `StreamWithoutGap` and `PublishedVisible` (together `SoundPublication`), `LegalHistory`, and
`EngineImplementsJournal` (each step maps to `Accept`, `Reject` or a
stutter). The constants are arbitrary: any commands, threads, projectors,
limits, faults and initial log satisfying the named assumptions.

## Worker library

| module | what it is |
|---|---|
| `WorkLedger` | the abstract specification of both workers: what is submitted is handled in order per key and once, and a drain vouches only for what is handled |
| `KeyedCoalescingWorker` | `packages/shared/src/KeyedCoalescingWorker.ts`; the terminal manager persists history with it |
| `DrainableWorker` | `packages/shared/src/DrainableWorker.ts`; the three reactors run on it |
| `MCWorkers` | a small instance of both, side by side: they share nothing |
| `WorkersProofs` | theorems |

**Correspondence.** In the keyed worker `state` is `latestByKey`, `queuedKeys` and `activeKeys`,
changed in one transaction per step in the code and one action here. A value is the sequence of requests
merged into it, so a merge that drops or reorders one shows. `Take`, `Claim`,
`Succeed`, `Fail`, `Requeue` are the fiber, which is suspended between them;
`Enqueue` and `DrainKey` are the callers'. Claiming a key and starting it are
separate from taking it off the queue, because in the code they are two
transactions and `drainKey` may run between. The drainable worker has the
queue, the count and the fiber; `Fail` ends the fiber, as an error of `process`
does in the code, and the count still goes down.

**Run.** `workers`: two keys and three requests (two of one key can be merged,
claimed and followed by a third), and two items of the drainable worker.
`ImplementsLedger` and the first half of `DrainsAreHonestAndReturn`: both workers keep the
ledger's promise whatever fails; `EveryRequestIsHandled`; the second half,
`DrainReturns`, is about the runs in which `process` does not fail. That nothing is lost and that a drain is honest is what the
ledger says; the modules' own forms of it (`NothingLost`, `DrainIsHonest`, `CountIsExact`,
`PendingIsScheduled`) are the invariants of the proofs.

**Fairness.** Weak fairness of the fiber. `EveryRequestIsHandled` is about
finitely many requests; in the code a key that receives values without end
keeps the fiber and the other keys wait.

**Proofs.** For any keys and requests. The invariant `WorkerInv` of the keyed
worker is `TypeOK`, `NothingLost` (accepted = handled, in hand, pending, per
key and in order), `PendingIsScheduled` (a pending key is in exactly one place from which it
will be looked at; without it `DrainIsHonest` is not inductive, since a key could have pending
work and look idle) and `DrainIsHonest`. Both workers are proved to implement
`WorkLedger`, the drainable one with a single key.

## Startup gate

`CommandGate` is `makeCommandGate`. `readiness` is the Ref and `latch` the
Deferred, set one after the other (`Decide`, `Release`); a call reads the Ref
and then runs its effect (`Enter`, `Finish`) or queues it (`Offer`); the worker
takes a command before it waits for the Deferred (`Take`, `Run`, `Done`, `Fail`).
`Leave` is a client that goes away; the queued command stays.

The run `gate_and_git_status` checks, for three calls and both ends of start-up, that answers
are true (refused: never ran; answered: ran once) and that everyone is served, queued
commands in the order of the queue. Fairness: start-up ends, the
worker and the callers go on, and a command ends, which for dispatched commands
is `EveryCommandIsAnswered` of the engine. A direct call may overtake queued ones;
nothing in the code promises otherwise.

**Proofs** (`GateAndGitStatusProofs`), for any number of callers: `GateTypeCorrect`, and
`AnswersTrue` from the invariant `GateInv`: no command is in the queue twice, and for
every place of a caller, `CallInv` says whether its command is queued, taken, executed
or none of these, and how often it was started. A queued command, for one, was never
started, and its caller waits or has left. The place alone would not be inductive:
`Done` answers the taken command, which must not be in the queue as well.

## Git status

`GitStatusBroadcaster` follows one working directory from the repository to what
browsers show. `cached` is the entry of `cacheRef`, `subscribers` the count in
`pollersRef`, `running` the lookups that the git manager's two caches share, and
`at`, `source`, `read` are where each fiber waits. A stream subscribes, loads the local
status if there is none, and retains the poller (`Open`, `Loaded`, `Start`); `Close`
releases it and the last one interrupts it. `Refresh` and `Refreshed` are
`refreshLocalStatus` and `refreshStatus`; `Wake`, `Refreshed` and `Fail` are a round of
the poller. `Update` publishes only what changes the cache, so a stream that misses one
event is wrong until the next change. `Deliver` is the browser's
`applyGitStatusStreamEvent`.

Several fibers look up at once and finish in any order, so that a later answer may be an
older one. `gate_and_git_status` (two browsers, a refresh, one change, one
failure; the gate and the broadcaster share nothing and a behaviour is of one of the two)
checks `StreamsFollowTheCache`: each open stream
shows what is cached or is about to; and `RemoteStatusConverges`: a
browser that stays shows, in the end, the remote status the repository has. The local part has an
exception, the history variable `silent`: a first load that returns after a refresh
puts its older status over the newer one without publishing it
(`loadLocalStatus`, line 145), until the next refresh; without the excuse TLC finds
this in a few steps. Nothing polls the local part, so no convergence is claimed for it.

Fairness: git commands end, the sleep ends, events are delivered (`Turn`, per fiber).
Assumptions: Effect's `Cache` joins concurrent lookups of a key, and a
failed or interrupted lookup fails those who joined; its result kept for a second is never
used, since whoever looks up without invalidating does so only with no cached status.
Left out: `getStatus`, which only tests call; other working directories, which share
nothing but the hub; statuses are interchangeable, so the run fixes the first.

**Proofs** (`GateAndGitStatusProofs`), for any number of clients, refresh calls, statuses,
changes and failures: `StatusTypeCorrect`, and `StreamsFollow` from `StatusInv`, which adds to
the property what makes it inductive. `InTune`: an event that waits for a client carries what is
cached *now* (one event per part waits, a later one replaces it), and a client that is on the
stream and awaits none shows that already; a client that is not on the stream has no event.
`StreamsAreCounted`: the streams are finitely many and the poller's count is
their number, so a `Close` finds the count at one exactly when it is the last.

## Live streams

`LiveStreams` follows one thread from the engine's commit to the browser's store.
An event is its position in the log and either adds a piece of message text
(streaming `thread.message-sent`) or sets the session (`thread.session-set`). Tables
and copies are represented by the events they were made from: the text as their
sequence, a session as the event that set it.

Engine: `Commit` (a command's transaction), `Publish` (one event, to the streams that listen
now). Handlers in `ws.ts`: `ShellSnapshot` (one transaction), `ReadMessages` and
`DetailSnapshot` (separate queries), `Listen` (the concatenated live part starts),
`ForwardEvent`, `ForwardShell` (reads the tables), `ForwardFails`. Transport and client: `Request`, `End`,
`Receive`, with `ApplyShell`, `ApplyDetail`, `ApplyEvent` for what `store.ts`
writes. Left out: a final message with its full text, which mends what came before it; the
turn and shell fields, which both streams write like the session; attachments;
threads that appear or disappear.

| run | shows |
|---|---|
| `live_streams` | `OneSeam`: the client's text is a beginning and one stretch of the thread's; `LossIsTheGap`: it lacks exactly what was published between query and subscription; `SessionsSettle`: two writers, yet both copies of the session end current unless a stream missed the event; `SidebarNeverGoesBack` |

That *nothing* is lost does not hold: the hub is subscribed after the snapshot is sent
(`ws.ts:649`, `698`), and an event published in between is in neither and never made up
for on the detail stream. `missed` is a history variable: what a stream was not there for. The properties
that hold say the only losses are these, so they would notice a hub
that drops, a handler that reorders and a listener that outlives its
subscription. Three events allow one in the snapshot, one in the gap and
one live, and two faults allow an ended subscription and a failed read. Repetition (an
event in the snapshot that is published after `Listen`) needs the handler to read, send
and subscribe between the engine's commit and its publication; the fibers may
switch there, but rarely would, so it is a hazard and not a finding. `SessionsSettle`
excuses the case that either stream missed the last session event: if the detail
stream did, its late snapshot overwrites the newer session of the shell stream
(`writeThreadState` ignores sequences), although a comment in `store.ts` calls the
shell stream the authoritative source.

**Proofs** (`ConnectionAndStreamsProofs`), for any number of events, batches and faults:
`StreamsTyped` and all four properties of the run, from `Inv`. It rests on one number:
`Applied`, the event up to which the detail stream has brought the client, is what is published less
what waits at the hub and on the wire. `InLine` says that both queues are then the events after it,
without a gap, behind at most one snapshot. So an event that is delivered is always the next,
and `Sewn` follows: the text is seamless (`TextIsSeamless`: what a query reads is the
thread's text up to some event) or its next piece goes on where it ends (`GoesOn`); the one event
that may do neither is the first after a snapshot. `Lost` is the account of the pieces in every place
of the handler: after the first query `missed` are those after what it saw, later those
not in the text. `ShellRises` and `ShellSettles` say that the shell's items never go back
and that the last of them is the newest session, or an event is still to come or was missed;
`DetailSettles` the same of the detail stream, where `SetsIt` allows that the shell stream was the
last to write. `TextAt` is the sorted sequence of a set, and that it exists for every log (`TextExists`)
is proved by the least counterexample.

## Web client: thread-detail subscriptions

`ThreadDetailSubscriptions` is the cache in
`apps/web/src/environments/runtime/service.ts`. Every callback runs to its end, so
it is one action with all it calls: retain (`RetainCached`, `RetainNew`), `Release`,
timers (`Fire`, `FireLost`), the registry (`Register`, `Remove`) and the
items of the streams (`ShellSnapshot`, `ShellUpsert`, `ShellRemove`,
`DetailSnapshot`, `DetailEvent`), each ending in the reconciliation its
handler ends in (`Settle`). Entries are `<<thread, generation>>`: a consumer may hold
the release closure of an entry that was disposed of while a newer one is cached. `timed` are the
entries that hold a timer's handle, `lost` counts timers whose handle was
forgotten. The server's data are open: which threads show work in the sidebar
and in the detail copy is chosen anew with every item.

Abstractions: timers fire in any order (all have the same length, so the code
fires fewer orders); among idle entries any may be evicted (the code takes the oldest);
only the two facts "shows work" are kept of a thread. `Generation` bounds
live entries of a thread and `MaxLost` forgotten timers; with two consumers at most two old
entries are held at a time.

| run | instance | shows |
|---|---|---|
| `subscription_cache` | two threads of one environment, two consumers, room for one entry | `RefCountIsExact`, `NoLeakedSubscription`, `StickyWhileActive` |
| `consumer_waits_for_connection` | as the first | `ActiveIsSubscribed` is **violated** (finding): the listener that should attach a waiting entry is unsubscribed at once |

Room for one entry with two threads puts every retain, release and reconciliation
at the capacity. Nothing tells the threads or the consumers apart, so TLC may permute
both; there is no liveness property. Not claimed: that a released entry stays for its whole idle time.
The eviction callback looks its entry up by key, so the timer of an entry that was disposed of while
a consumer held it, and released later (`FireLost`), can evict the thread's next entry early.

**Proofs** (`ThreadDetailSubscriptionsProofs`), for any threads, environments, consumers, generations
and capacity. `CacheInv` is `TypeOK`, `HoldersAreCounted` (the holders of an entry are
finitely many and its count is their number, so no assumption on the
set of consumers is needed) and `LinksAreCached` (one cached entry per thread, and every stream and listener is of a
cached entry). Each operator that the handlers are composed of (`Attach`, `Watch`, `Emit`, `Unlink`, `ToCapacity`) has a
lemma saying what it preserves; a handler's proof is the chain of its operators' lemmas. `CountsAreExact`, `NothingLeaks`
and the action property `BusyIsSticky` follow.

## Web client: connection

`EnvironmentConnection` is the bootstrap gate and `reconnect` of
`connection.ts` over the session and the subscription loop of `wsTransport.ts`.
`gate` is the promise; callers are in `pc`, and `orphaned` is one that
awaits a promise the gate has replaced. `Reconnect`, `Swap`, `Closed`, `Metadata` are one
call of `reconnect`, suspended between them, and `Swap`, `Closed` and `Metadata` may fail; `Attempt`, `Snapshot`, `Breaks`, `Completes`,
`Refused`, `SessionGone`, `Wake` are the loop. Sessions are numbered.

| run | shows |
|---|---|
| `environment_connection` | `SessionsAreClosed`: no session leaks, whatever order dispose and the queued reconnects come in; `ReconnectSawSnapshot`: no reconnect returns without a snapshot; `ChainMovesOn`: queued reconnects all get through, failed or not; `StreamComesBack`: the shell stream flows again on the current session, unless the server refuses the subscription (`refused`, a history variable) |

A gate that is reset while callers wait leaves them behind (`orphaned`), snapshot or
not; no property claims otherwise. Fairness (`FairSpec`): the loop, a stream of a closed session and each
reconnect go on; a request gets an answer. `MaxFailures` bounds how often a
stream breaks on a session in use; without a bound it might never flow.

**Proofs** (`ConnectionAndStreamsProofs`, last part), for any number of callers and failures:
`SessionsClosed`, inductive as it stands once `session` is a number, since only `Swap` and
`Dispose` make or close sessions; and `ReconnectIsFresh`, from `GateIsFresh`: a gate
that is resolved has seen a snapshot since the call of every reconnect that was
made, because the call resets the gate and only a snapshot resolves it. Both use the
assumption that a caller either waits or reconnects. `MCEnvironmentConnection` renames the
variables, so that one module can hold the proofs of this part and of the next.



## Checkpoints

`TurnCheckpoints` is one thread in a git workspace. The agent (external) starts
turns, edits and ends them; its events go to the runtime ingestion and to the
checkpoint reactor, each with its own queue. Ingestion: `IngestStarted`, `IngestCompleted`
(the session's active turn), `IngestDiff` and `DispatchPlaceholder` (a placeholder for
a turn's first diff, from a read model read before). Reactor, one job at a time:
`TakeStart`, `SaveBaseline`; `TakeCompleted` or `TakeDiff`, `Save`, `DispatchCapture`;
`TakeRevert`, `Rollback`, `DeleteRefs`, `FinishRevert`; `Fail` at any step. A checkpoint
goes into the read model by the projector's rule (`InMemory`, which protects
real checkpoints) and into the tables by the pipeline's (`InTable`, which gives a count to
one turn). Files are the number of the edit that made them, `refs` what is saved under
each git ref. Left out: a restart, status `error` (treated as `ready`), the limit of
500 checkpoints, and what an agent does with a rollback while it works.

| run | instance | shows |
|---|---|---|
| `turn_checkpoints` | two turns, an edit, a revert | `FilesAreThere`: what a revert may ask for is saved; `CheckpointsAreKept`: what is saved for a checkpoint does not change; `ProjectionsAgree`: read model and tables; `ConversationInStep`: the n-th turn the agent remembers has the n-th checkpoint, which a revert relies on to roll it back; `EveryTurnIsCheckpointed`: also a turn whose end the reactor does not hear of, if a diff of it was reported |
| `checkpoint_mid_turn` | one turn, two edits | `CheckpointIsPostTurn` is **violated** (finding): a turn whose diff is reported while it runs is checkpointed then, and skipped when it ends |

The properties hold *unless* something in `mishaps`, a history variable, has happened, and
each excuses only what it must: `raced` (ingestion and reactor gave out one
count twice), `revived` (the placeholder of a diff event was captured after a revert had removed it),
`overtaken` (the next turn was there first), `overlapped` (a revert met a turn in
progress), `failed`, `unheard` (the reactor did not hear of the end of a turn). Each can happen in the code, nothing repairs what follows, and TLC
finds a violation when an exception is dropped (only for `revived` in
`CheckpointsAreKept` two turns are too few to tell): this is the list of orders
that would need a guard. Two turns, one revert and one failure (`OneFailure`) are enough for every pair of
jobs to meet; TLC also reached, without a mishap, two turns checkpointed, a turn
after a revert, and a conversation of the second turn alone. Fairness: both
workers go on; the agent and the user may stop.

On how events reach the reactor the code contradicts itself. The service gives each
reader a subscription of its own, so that all of them "independently receive all
runtime events" (`ProviderService.ts:743-748`; the hub is unbounded), which is `Emit`. A comment in the
reactor says that `turn.completed` is not reliably delivered to it, and that the
placeholders make up for it (`CheckpointReactor.ts:733-737`). The second is modelled
as well, once in a behaviour (`EndTurnUnheard`), and the checks show what the placeholders
make up for: a turn of which a diff was reported gets its checkpoint (`covered`, which
`EveryTurnIsCheckpointed` does not excuse), although not always in step with the
conversation, since the next turn may be counted first; a turn without one gets none
(`unheard`).

**Proofs** (`TurnCheckpointsProofs`), for any number of turns, edits, reverts and failures.
`CheckpointInv` has, besides types, three parts. `RealOnes`: a placeholder is never real, and a
capture in progress has seen every real checkpoint, since only the reactor makes them, one job at a time. `FilesInv`: what a checkpoint claims is saved, or the revert that
deletes both is about to finish; a revert deletes refs above its count only, and counts are at most the largest, which is
why the largest count must be shown to exist (`SmallestOf`, by well-founded induction on the
naturals). `AgreeInv`, unless a count was given twice or a placeholder revived: tables and read model are equal, turns and counts
are one to one, and the checkpoint that waits in the ingestion or in the reactor still fits
the view it was made from. `ClaimsAreKept`, `ProjectionsStayEqual` and the action property
`FilesStayTheSame` follow.

`TurnsAreCounted` (`ConversationInStep`) needs to know how a quiet state came about. As long as no
mishap has happened, `StepInv` says: the counts that are listed are 1, 2, 3... and the n-th is that
of the n-th turn the agent remembers (`NumbersInv`, but for what a revert is about to remove); a
turn without a checkpoint is running, or its end waits for the reactor, or the reactor is at it
(`WorkInv`), and ends wait in the order of the turns, so the next one taken is the next to be
counted (`NextTurn`); a checkpoint without files has its announcement waiting or is being captured;
a placeholder that is being made is of a turn whose end the ingestion has not heard
(`PlaceholderInv`), so that no revert can take the turn away and leave the view of the placeholder
as it was; and a revert finds agent and ingestion at rest, all turns counted, and takes as many
turns as it takes checkpoints (`RevertInv`). When all is quiet nothing is awaited or announced, and
a bijection gives the equal lengths. TLC checked `StepInv` before the proof, with the run's bounds
and, for millions of states, with four turns and two reverts.

## Agent sessions

`ProviderSessions` is one thread with its agent processes, from the user's
commands to what is shown: `ProviderCommandReactor.ts`, `ProviderService.ts`,
`codexAppServerManager.ts` and `CodexAdapter.ts` for Codex, and the session and
approval part of `ProviderRuntimeIngestion.ts`. An agent is external: it takes turns, asks
for approval, ends its turn, which may fail, reports errors and works on, exits at any time.

**Correspondence.** `intents` and `events` are the queues of the two workers.
`reactor` is the intent the command reactor is at and where its handler is suspended:
`Take` decides on the read model and goes on to a start (`Spawn`, `Opened` or
`OpenFails`, `Record`, `Bind`), a recovery for a call to a session the
manager does not have (`Recover`), a call (`SendTurn`, `InterruptTurn`, `RespondToRequest`), a
stop (`StopSession`, `SetStopped`) or the report of a failure (`Report`). The
ingestion reads the session in `ReadEvent` and dispatches in `Ingest`, so the
session it decides on may be old; `SetError` is its separate branch for `runtime.error`. `FailTurn`,
`RuntimeError` and `ThreadStarted` are what an agent reports besides the course of its turns. The cursor that an announcement sets in the
manager is set in `Opened`, with the answer that carries the same one; only a shutdown between the two could tell. `owner` is the manager's entry of the thread,
`binding` the thread's row of `provider_session_runtime`; `Crash` and `Shutdown` leave
only the database. `prompts` and `rows` are the two places that say whether an approval
is open: the activities that the web client reads, and the projection.
A conversation has the number of the agent that began it.

| run | instance | shows |
|---|---|---|
| `provider_sessions` | two turns, two processes, one interrupt, stop, answer or change of mode, one fault: a crash, a shutdown, a turn that is read after its time-out or that fails, an error of a living agent, an announcement | `SessionIsTrue`, `AgentsAreReachable`, `WaitingIsShown`, `ConversationIsKept`, `EveryTurnIsSettled` |

Two processes are the old and the new one of every restart, recovery and
resume; `MaxLag` is how many intents and how many events wait, enough for the reports of one process to
be read after the start of the next. Fairness (`FairSpec`): the two workers go on, and the reactor's
requests end, with an answer or after their 20 seconds; agents and user may be idle for ever.

The properties name what the code does not repair, and no more than that:
`disturbed` (a start that fails marks a working session as failed; a stop is decided
on a session that is shown as stopped and is not; the exit of one process deletes the entry of
another, or an error of a replaced one overwrites what is shown; the ingestion writes a session it read before a
change; a replaced agent's turn starts, or has its error, late),
`leftovers` (turns active when the server went down; nothing ends them), `replaced`
(processes whose entry `startSession` overwrote: they run on), `erred` (turns in which the agent reported an error and
worked on: `ProviderRuntimeIngestion.ts:1143-1167` writes status `error`, with the turn the error names or with none,
and until the turn ends nothing sets it back to running, unless the agent announces its conversation; `SessionIsTrue` then claims only
that it is shown with that turn or none, and not as running otherwise). With one of these exceptions dropped TLC
finds a behaviour that breaks the property. `Overtaken` is what the second and third leave of an agent:
it was replaced, or a replaced one has exited, which takes the entry of its successor along. The second half is needed
for `WaitingIsShown` too, which takes three processes to see: the answer to an agent that lost its entry goes
to a later one, does not match, and closes the prompt.

**Proofs** (`ProviderSessionsProofs`), for any number of turns, processes, commands and
faults. `TypeCorrect`. `EveryAgentIsReachable`: the invariant is `ReachInv`, `AgentsAreReachable` with
`Born` (the entries are of spawned processes, so a spawn never gives one away
that was replaced). `TurnsKeepTheConversation`: the invariant is `TalkInv`, in four
parts: `Talking` (a ready agent has a conversation), `Starting` (while a start is under way no other agent
has the entry, and what it resumes is the live session's), `Binds` (outside of
a start the row has the live session's conversation) and `Keeps` (the last turn's
conversation is the row's, the session's and that of the start in progress).
`Keeps` alone is not inductive: a step of a start can only be shown to keep the
conversation from what `Starting` says of the cursor it carries. `WhatWaitsIsShown`: an agent that is
not overtaken has the entry, and `WaitInv` is of that one: what it waits for is open or its
request is on its way (`OwnerIsShown`), and nothing that would close it is on its way, because an answer to
a turn leaves it resolved in the table, and no agent asks for such a turn again (`AnsweredOnce`).
`SessionIsShownTrue`: `SessionIsTrue` speaks of quiet states only, so its invariant says where
the session is going. A trace (`Traces`) is what the session shows after each event that is on
its way; `EndsRight` says that every trace ends with what the owner works on, or with a turn that was
left over, except between the start of a process and its `Bind`, which resets the session.
The last event decides when it clears the session (an exit, an error without a turn: `LastClears`); otherwise one more
event moves the end of the trace as the agent moved (`OneMore`), and reading or ingesting takes
a trace to one of the state before (`FirstRead`). `Bind` and `SetStopped` write a session without
a turn while events may still be queued: nothing comes of those, because a turn that started and is not going on is
followed by what ends it (`Followed`, `Calmed`). That rests on who can report at all
(`Undisturbed`), on a process that is being started having nothing to report (`Fresh`), and on a turn being in one place
only (`Apart`), without which the end of a replaced agent's turn could end the owner's.
## Terminals

`TerminalManager` is one terminal of a thread: `terminal/Layers/Manager.ts`, its shells
(external) and a browser that listens to its events (`ThreadTerminalDrawer.tsx:547`).

**Correspondence.** `sessions` are the `TerminalSessionState` objects, `entry` says which of
them is in the manager's table: an object may outlive its entry. `call` is the
call that holds the thread's lock and where it is suspended: `Flushed` and `Read` (open of a terminal
that is not in the table; `ReadFails` leaves nothing behind), `Saved...` (after `persistHistory` or `flushPersist`),
`Spawned` and `SpawnFails` (in `startSession`). `StartAgain` is what `open` of an ended terminal
or for another directory and `restart` share; `open` of a running terminal with the
same settings changes nothing and is left out. `Output` and `Exit` are the callbacks of the shell with
`drainProcessEvents`, which runs to its end in them. The history is written by
the keyed coalescing worker, of which one terminal sees the ledger's promise: one merged request
waits (`request`), one is in work (`writing`). A `Removal` of the file may fail, which is only logged. `Evict` stands for every other terminal
of the server: any of them may end, which makes this one the oldest of too many.
`Down` is the end of the server, orderly or not; what is written before it are steps of the worker.

| run | instance | shows |
|---|---|---|
| `terminal_manager` | four calls, three lines printed, two kept, one eviction or end of the server | `TranscriptIsSaved`: the file and the session have what was printed since the last start or clear, when nothing waits to be written; `EventsTellTheHistory`: a client that only listens shows the history; `ProcessesAreOwned`: every shell can be stopped; `EverythingEnds`: the lock is given back and stopped shells are gone |

Three lines with two kept cut the history once; four calls are enough to close or delete, to
open again and to start again. Three sessions and three shells are more than the
faults can use up. The run was also made with two faults (2.5 million states, no error).

What the code does not repair is named in the properties: `orphans`, terminals
evicted while a call was starting them (the shell runs on with no entry, and a second one
may write the same file); `overtaken`, a line printed while `clear` waited for its
write, which the client loses; `unsaved`, a write that failed. A deletion of a whole thread waits for the
terminals in the table only, so the last output of an evicted one may come back
(`DeleteAll`). TLC finds a violation when one of these exceptions is dropped.

**Fairness.** The calls, the writes and the timers of SIGKILL go on; shells and clients may be idle
for ever. Bounding the printed lines is an assumption of `EverythingEnds`: `persistHistory` waits until
the key has nothing to write, so output that never pauses keeps `clear`, and all calls of the
thread, waiting. Left out: a shell that cannot be signalled, write and resize,
subprocess polling, old history files, a client that joins (it takes the snapshot `open` returns).

**Proofs** (`TerminalManagerProofs`), for any number of sessions, shells, calls, lines and faults. `TypeCorrect`.
`EveryShellIsOwned`: the invariant `OwnInv` adds to `ProcessesAreOwned` that a
session with a shell is shown as running (`KnownShellsRun`, or an eviction could drop a live one)
and what a suspended call relies on: `Opening` (no entry while the file is read), `Starting` (the session being
started has no shell, and is the entry or was evicted) and `Closing`. Without `Starting` a
second shell could take the place of one that lives.
`TranscriptIsKept` and `ListenersAreRight`: the invariant is `PrintInv`, which follows the text on its way from the
shell to the file. `Kept`: the session's history, and the last text that will be written (the one that waits, else
the one in work, else the file), are what was printed, cut to the limit, and nothing is written between the
flush and the read of an `open`. `Shown` says that the client has the session's history or is about to be told that it is gone.
Both hold while an evicted shell can only be the one being started (`Lone`). Cutting to the limit after each line and once at the
end give the same text (`CutFacts`), which makes history, file and copy comparable.

## Limits of the proofs

Every invariant and action property that a passing run checks is stated by a listed
theorem. Liveness, and anything with ENABLED, is only model-checked. What recursive data
definitions compute for every input is not proved (no induction over data); the
models avoid recursion.

## Plan

Order of work, most important first; done items are described above.

1. Orchestration engine, journal, refinement, proofs - done.
2. Worker library, startup gate, live streams, thread-detail subscription cache,
   connection, checkpoints, with proofs - done.
   Next: a module of the saved environments (`service.ts:783-860`).
3. Agent sessions: command reactor, session part of the ingestion, provider
   service and Codex's session manager - done, with proofs. Next: two threads, a change
   of the agent's model or provider, the other adapters.
4. Thread life cycle: in-memory projector against the SQL
   projections for sessions, turns and messages, where the two
   differ in code (`projector.ts` against `ProjectionPipeline.ts:960-1180`;
   checkpoints are in `TurnCheckpoints`).
5. The assistant's text in the ingestion: buffering and completion of messages.
6. Checkpoints of two threads in one workspace, and a restart between two jobs of
   the reactor.
7. Sequence recovery of the web client (used by its tests only) over `LiveStreams`.
8. Terminal manager, git status broadcaster - done. Bootstrap credentials are next.

Theorems next: the life cycle's agreement of both projections on the fields the
UI reads, single consumption of credentials, refinement of the client's copy to
the engine's stream.

## Not modelled

Formatting, SQL text, schema decoding, telemetry, the desktop shell, the web
UI's components and the providers' own protocols: pure I/O, rendering or external
programs. `PROJECT.json` lists each part and why.
