-------------------------- MODULE ProviderSessions --------------------------
(***************************************************************************)
(* The agent sessions of one thread.  The user's commands become intents   *)
(* for the provider command reactor, one worker, which starts, resumes,    *)
(* interrupts, answers and stops agent processes through the provider      *)
(* service and a session manager.  What the agents report goes through a   *)
(* stream to the runtime ingestion, a second worker, which keeps the       *)
(* thread's session in the read model.  A binding in the database lets a   *)
(* later process resume the conversation.  Every dispatch is one step (the *)
(* engine is OrchestrationEngine); an agent is external.                   *)
(***************************************************************************)
EXTENDS Naturals, SequencesExt

CONSTANTS
    InitiallyAsking,  \* the runtime mode the thread was created with
    MaxTurns,    \* bound: turns the user asks for
    MaxAgents,   \* bound: processes that are spawned
    MaxOthers,   \* bound: interrupts, stops, answers and changes of mode
    MaxFaults,   \* bound: crashes, shutdowns, turns read late or failed, and
                 \* errors and announcements of agents that go on
    MaxLag       \* bound: what waits for one of the two workers

ASSUME SessionsAssumption ==
    /\ InitiallyAsking \in BOOLEAN
    /\ MaxTurns \in Nat /\ MaxAgents \in Nat /\ MaxOthers \in Nat
    /\ MaxFaults \in Nat /\ MaxLag \in Nat

Turn == 1..MaxTurns
Agent == 1..MaxAgents
None == 0

VARIABLES
    \* In the database, and in the read model that is loaded from it.
    asking,     \* the thread's runtimeMode: whether the agent asks first
    session,    \* the thread's session
    prompts,    \* prompts[t]: turn t's approval in the thread's activities
    rows,       \* rows[t]: the same in projection_pending_approvals
    binding,    \* the thread's row of provider_session_runtime
    \* In the server's memory.
    intents,    \* events for the reactor's worker
    reactor,    \* the intent it is processing, and how far it is
    owner,      \* the agent of sessions.get(threadId) in the manager
    events,     \* runtime events for the ingestion's worker
    ingesting,  \* the event it is processing, and what it read for it
    \* The processes.
    agents,
    \* Bounds and history.
    others,     \* interrupts, stops, answers and changes of mode so far
    faults,     \* crashes, shutdowns, late and failed turns, errors, ... so far
    asked,      \* how many turns were asked for
    settled,    \* the turns that an agent took, whose start was reported as
                \* failed, or that were erased with the server's memory
    replaced,   \* the agents whose entry in the manager was overwritten
    leftovers,  \* active turns of the session when the server went down
    disturbed,  \* whether something went wrong with the thread's session
    erred,      \* the turns in which an agent reported an error and went on
    lastTalk    \* the conversation that took the last turn and must go on

thread == <<asking, session, prompts, rows>>
pipeline == <<events, ingesting>>
bounds == <<others, faults>>
fates == <<asked, settled>>
history == <<replaced, leftovers, disturbed, erred, lastTalk>>
vars == <<thread, binding, intents, reactor, owner, pipeline, agents, bounds,
          fates, history>>

(* From then on the session may be shown wrong: a start that failed or an  *)
(* error of a replaced agent marks a working session, a stop is decided on *)
(* a session that is shown as stopped and is not, the exit of one agent    *)
(* deletes the entry of another, the ingestion writes a session it read    *)
(* before another change, or the start of a replaced agent's turn or an    *)
(* error in it comes after its replacement.                                *)
Disturbed(happened) == disturbed' = (disturbed \/ happened)

Idle == [at |-> "idle"]
NoSession == [status |-> "none", turn |-> None, asking |-> FALSE]
NoBinding == [cursor |-> None, asking |-> FALSE]
Unborn == [state |-> "unborn", asking |-> FALSE, talk |-> None, turn |-> None,
           inbox |-> <<>>, pending |-> {}]
Dead == [Unborn EXCEPT !.state = "dead"]

TurnIntent == [type : {"turn"}, turn : Turn]
Intent ==
    [type : {"interrupt", "stop", "mode"}] \cup [type : {"answer"}, turn : Turn]
    \cup TurnIntent

\* A runtime.error names a turn or none; a turn that completes may have failed.
Event ==
    [type : {"state"}, state : {"starting", "ready"}]
    \cup [type : {"exited", "error", "announced"}]
    \cup [type : {"started", "completed", "failed", "turnError", "opened",
                  "resolved"},
          agent : Agent, turn : Turn]

Process ==
    [state : {"unborn", "starting", "ready", "dead"}, asking : BOOLEAN,
     talk : Agent \cup {None}, turn : Turn \cup {None}, inbox : Seq(Turn),
     pending : SUBSET Turn]

\* What the reactor is doing: nothing, a step of an intent, or a start.
Step ==
    {Idle}
    \cup [at : {"use", "call", "stop", "stopped"}, intent : Intent]
    \cup [at : {"report"}, intent : TurnIntent]
    \cup [at : {"sent"}, intent : TurnIntent, agent : Agent]
    \cup [at : {"start"}, intent : Intent, agent : {None}, asking : BOOLEAN,
          cursor : Agent \cup {None}, bind : BOOLEAN]
    \cup [at : {"opening", "record", "bind"}, intent : Intent, agent : Agent,
          asking : BOOLEAN, cursor : Agent \cup {None}, bind : BOOLEAN]

TypeOK ==
    /\ asking \in BOOLEAN
    /\ session \in
          [status : {"none", "starting", "ready", "running", "stopped", "error"},
           turn : Turn \cup {None}, asking : BOOLEAN]
    /\ prompts \in [Turn -> {"none", "open", "closed"}]
    /\ rows \in [Turn -> {"none", "pending", "resolved"}]
    /\ binding \in [cursor : Agent \cup {None}, asking : BOOLEAN]
    /\ intents \in Seq(Intent) /\ events \in Seq(Event)
    /\ reactor \in Step
    /\ owner \in Agent \cup {None}
    /\ ingesting \in
          {Idle} \cup [at : {"read"}, event : Event, turn : Turn \cup {None},
                       asking : BOOLEAN]
    /\ agents \in [Agent -> Process]
    /\ others \in 0..MaxOthers /\ faults \in 0..MaxFaults
    /\ asked \in 0..MaxTurns /\ settled \in SUBSET Turn
    /\ replaced \in SUBSET Agent /\ leftovers \in SUBSET Turn
    /\ disturbed \in BOOLEAN /\ erred \in SUBSET Turn
    /\ lastTalk \in Agent \cup {None}

Init ==
    /\ asking = InitiallyAsking /\ session = NoSession
    /\ prompts = [t \in Turn |-> "none"] /\ rows = [t \in Turn |-> "none"]
    /\ binding = NoBinding
    /\ intents = <<>> /\ reactor = Idle /\ owner = None
    /\ events = <<>> /\ ingesting = Idle
    /\ agents = [p \in Agent |-> Unborn]
    /\ others = 0 /\ faults = 0
    /\ asked = 0 /\ settled = {}
    /\ replaced = {} /\ leftovers = {} /\ disturbed = FALSE /\ erred = {}
    /\ lastTalk = None

Alive(p) == agents[p].state \in {"starting", "ready"}
Stopped == session.status \in {"none", "stopped"}

-----------------------------------------------------------------------------
(* What the agents report (mapToRuntimeEvents), in the order it happens.   *)

State(s) == [type |-> "state", state |-> s]
Exited == [type |-> "exited"]
Error == [type |-> "error"]
Announced == [type |-> "announced"]
About(type, p, t) == [type |-> type, agent |-> p, turn |-> t]

Emit(new) ==
    /\ Len(events) + Len(new) <= MaxLag
    /\ events' = events \o new

-----------------------------------------------------------------------------
(* The user's commands.  The event is committed and reaches the reactor.   *)

Ask(intent) == Len(intents) < MaxLag /\ intents' = Append(intents, intent)
Other == others < MaxOthers /\ others' = others + 1 /\ UNCHANGED faults
Fault == faults < MaxFaults /\ faults' = faults + 1 /\ UNCHANGED others

AskTurn ==
    /\ asked < MaxTurns
    /\ asked' = asked + 1
    /\ Ask([type |-> "turn", turn |-> asked'])
    /\ UNCHANGED <<thread, binding, reactor, owner, pipeline, agents, bounds,
                   settled, history>>

AskTo(type) ==
    /\ Other
    /\ Ask([type |-> type])
    /\ UNCHANGED <<session, prompts, rows, binding, reactor, owner, pipeline,
                   agents, fates, history>>

Interrupt == AskTo("interrupt") /\ UNCHANGED asking
Stop == AskTo("stop") /\ UNCHANGED asking
SetRuntimeMode == AskTo("mode") /\ asking' = ~ asking

\* An open prompt is answered; the table has it resolved from now on.
Answer(t) ==
    /\ prompts[t] = "open"
    /\ Other
    /\ rows' = [rows EXCEPT ![t] = "resolved"]
    /\ Ask([type |-> "answer", turn |-> t])
    /\ UNCHANGED <<asking, session, prompts, binding, reactor, owner, pipeline,
                   agents, fates, history>>

-----------------------------------------------------------------------------
(* The reactor's worker.                                                   *)

Done == reactor' = Idle
Goto(at) == reactor' = [at |-> at, intent |-> reactor.intent]

(* MUTANT: the failure of a start is not reported.                         *)
Fail_Silently == Done

(* What follows when a call fails: the start of a turn is reported, an     *)
(* answer too but its prompt stays open, the rest is logged.               *)
Fail == IF reactor.intent.type = "turn" THEN Goto("report") ELSE Done

Start(intent, ask, cursor, bind) ==
    reactor' = [at |-> "start", intent |-> intent, agent |-> None,
                asking |-> ask, cursor |-> cursor, bind |-> bind]

\* ensureSessionForThread: the thread has a session, and it can go on.
Existing == ~ Stopped /\ owner # None
Reusable == Existing /\ asking = session.asking

(* MUTANT: a stopped or recovered thread starts over.                      *)
ResumeCursor_LiveOnly ==
    IF Existing /\ agents[owner].talk # None THEN agents[owner].talk ELSE None

\* What is resumed: the live session's conversation, or the row's.
ResumeCursor ==
    IF Existing /\ agents[owner].talk # None THEN agents[owner].talk
    ELSE binding.cursor

Take ==
    /\ reactor = Idle
    /\ intents # <<>>
    /\ intents' = Tail(intents)
    /\ LET i == Head(intents)
           Begin(at) == reactor' = [at |-> at, intent |-> i]
           Ensure == Start(i, asking, ResumeCursor, TRUE)
       IN /\ \/ i.type = "turn" /\ IF Reusable THEN Begin("use") ELSE Ensure
             \/ i.type = "mode" /\ IF Stopped \/ Reusable THEN Done ELSE Ensure
             \/ /\ i.type \in {"interrupt", "answer"}
                /\ IF Stopped THEN Done ELSE Begin("use")
             \/ i.type = "stop" /\ Begin(IF Stopped THEN "stopped" ELSE "stop")
          /\ Disturbed(i.type = "stop" /\ Stopped /\ owner # None)
    /\ UNCHANGED <<thread, binding, owner, pipeline, agents, bounds, fates,
                   replaced, leftovers, erred, lastTalk>>

\* startSession spawns a process and enters it, whatever entry there was.
Spawn(p) ==
    /\ reactor.at = "start"
    /\ agents[p] = Unborn /\ \A q \in 1..(p - 1) : agents[q] # Unborn
    /\ agents' = [agents EXCEPT ![p] =
                     [Unborn EXCEPT !.state = "starting",
                                    !.asking = reactor.asking]]
    /\ owner' = p
    /\ replaced' = replaced \cup ({owner} \ {None})
    /\ Emit(<<State("starting")>>)
    /\ reactor' = [reactor EXCEPT !.at = "opening", !.agent = p]
    /\ UNCHANGED <<thread, binding, intents, ingesting, bounds, fates,
                   leftovers, disturbed, erred, lastTalk>>

\* Nothing was spawned, and only that is reported.
SpawnFails ==
    /\ reactor.at = "start"
    /\ Emit(<<Error>>)
    /\ Disturbed(owner # None)
    /\ Fail
    /\ UNCHANGED <<thread, binding, intents, owner, ingesting, agents, bounds,
                   fates, replaced, leftovers, erred, lastTalk>>

\* The agent opens the resumed conversation, or a new one: there was none,
\* or the provider no longer has it.
Opened(p) ==
    /\ reactor.at = "opening" /\ reactor.agent = p /\ Alive(p)
    /\ \E talk \in {p, reactor.cursor} \ {None} :
          /\ agents' = [agents EXCEPT ![p].state = "ready", ![p].talk = talk]
          /\ reactor' = [reactor EXCEPT !.at = "record", !.cursor = talk]
          /\ lastTalk' = IF talk = reactor.cursor \/ reactor.cursor = None
                         THEN lastTalk ELSE None
    /\ Emit(<<State("ready")>>)
    /\ UNCHANGED <<thread, binding, intents, owner, ingesting, bounds, fates,
                   replaced, leftovers, disturbed, erred>>

Kill(p) == agents' = [agents EXCEPT ![p] = Dead]

(* The handshake failed, or its 20 seconds are over: the session that the  *)
(* manager now has for the thread is stopped.                              *)
OpenFails ==
    /\ reactor.at = "opening"
    /\ IF owner = None
       THEN Emit(<<Error>>) /\ UNCHANGED agents
       ELSE Emit(<<Error, Exited>>) /\ Kill(owner)
    /\ owner' = None
    /\ Fail
    /\ UNCHANGED <<thread, binding, intents, ingesting, bounds, fates, history>>

\* upsertSessionBinding; then a started session is bound, a recovered used.
Record ==
    /\ reactor.at = "record"
    /\ binding' = [cursor |-> reactor.cursor, asking |-> reactor.asking]
    /\ IF reactor.bind
       THEN reactor' = [reactor EXCEPT !.at = "bind", !.cursor = None]
       ELSE Goto("call")
    /\ UNCHANGED <<thread, intents, owner, pipeline, agents, bounds, fates,
                   history>>

SetSession(status, turn, ask) ==
    session' = [status |-> status, turn |-> turn, asking |-> ask]

\* bindSessionToThread
Bind ==
    /\ reactor.at = "bind"
    /\ SetSession("ready", None, reactor.asking)
    /\ IF reactor.intent.type = "turn" THEN Goto("use") ELSE Done
    /\ UNCHANGED <<asking, prompts, rows, binding, intents, owner, pipeline,
                   agents, bounds, fates, history>>

\* resolveRoutableSession, if the manager has no session for the thread.
Recover ==
    /\ reactor.at = "use" /\ owner = None /\ binding.cursor # None
    /\ Start(reactor.intent, binding.asking, binding.cursor, FALSE)
    /\ UNCHANGED <<thread, binding, intents, owner, pipeline, agents, bounds,
                   fates, history>>

\* There is nothing to resume, or the session that was found is gone.
RouteFails ==
    /\ owner = None
    /\ \/ reactor.at \in {"use", "stop"} /\ binding.cursor = None
       \/ reactor.at = "call"
    /\ Fail
    /\ UNCHANGED <<thread, binding, intents, owner, pipeline, agents, bounds,
                   fates, history>>

Calls(type) ==
    /\ reactor.at \in {"use", "call"} /\ owner # None
    /\ reactor.intent.type = type

\* turn/start is written to the agent.
SendTurn ==
    /\ Calls("turn")
    /\ agents' = [agents EXCEPT ![owner].inbox =
                                    Append(@, reactor.intent.turn)]
    /\ reactor' = [at |-> "sent", intent |-> reactor.intent, agent |-> owner]
    /\ UNCHANGED <<thread, binding, intents, owner, pipeline, bounds, fates,
                   history>>

\* The agent refuses it, or it does not answer for 20 seconds.
SendFails ==
    /\ reactor.at = "sent"
    /\ agents' = [agents EXCEPT ![reactor.agent].inbox = Front(@)]
    /\ Fail
    /\ UNCHANGED <<thread, binding, intents, owner, pipeline, bounds, fates,
                   history>>

\* It does not answer in time, and reads the message later.
SendTimesOut ==
    /\ reactor.at = "sent" /\ Alive(reactor.agent)
    /\ Fault
    /\ Fail
    /\ UNCHANGED <<thread, binding, intents, owner, pipeline, agents, fates,
                   history>>

\* appendProviderFailureActivity
Report ==
    /\ reactor.at = "report"
    /\ settled' = settled \cup {reactor.intent.turn}
    /\ Done
    /\ UNCHANGED <<thread, binding, intents, owner, pipeline, agents, bounds,
                   asked, history>>

\* The turn that the manager knows of is to end; the agent may fail to.
InterruptTurn ==
    /\ Calls("interrupt")
    /\ \/ UNCHANGED <<agents, events>>
       \/ /\ agents[owner].turn # None
          /\ agents' = [agents EXCEPT ![owner].turn = None]
          /\ Emit(<<About("completed", owner, agents[owner].turn)>>)
    /\ Done
    /\ UNCHANGED <<thread, binding, intents, owner, ingesting, bounds, fates,
                   history>>

\* respondToRequest: a request the manager does not know is stale.
RespondToRequest ==
    /\ Calls("answer")
    /\ LET t == reactor.intent.turn IN
       IF t \in agents[owner].pending
       THEN /\ agents' = [agents EXCEPT ![owner].pending = @ \ {t}]
            /\ Emit(<<About("resolved", owner, t)>>)
            /\ UNCHANGED prompts
       ELSE /\ prompts' = [prompts EXCEPT ![t] = "closed"]
            /\ UNCHANGED <<agents, events>>
    /\ Done
    /\ UNCHANGED <<asking, session, rows, binding, intents, owner, ingesting,
                   bounds, fates, history>>

(* MUTANT: the session is forgotten and its process goes on.               *)
StopSession_NoKill ==
    /\ reactor.at = "stop" /\ (owner # None \/ binding.cursor # None)
    /\ IF owner = None THEN UNCHANGED events ELSE Emit(<<Exited>>)
    /\ owner' = None
    /\ binding' = NoBinding
    /\ lastTalk' = None
    /\ Goto("stopped")
    /\ UNCHANGED <<thread, intents, ingesting, agents, bounds, fates, replaced,
                   leftovers, disturbed, erred>>

\* ProviderService.stopSession
StopSession ==
    /\ reactor.at = "stop" /\ (owner # None \/ binding.cursor # None)
    /\ IF owner = None
       THEN UNCHANGED <<agents, events>>
       ELSE Kill(owner) /\ Emit(<<Exited>>)
    /\ owner' = None
    /\ binding' = NoBinding
    /\ lastTalk' = None
    /\ Goto("stopped")
    /\ UNCHANGED <<thread, intents, ingesting, bounds, fates, replaced,
                   leftovers, disturbed, erred>>

SetStopped ==
    /\ reactor.at = "stopped"
    /\ SetSession("stopped", None, session.asking)
    /\ Done
    /\ UNCHANGED <<asking, prompts, rows, binding, intents, owner, pipeline,
                   agents, bounds, fates, history>>

-----------------------------------------------------------------------------
(* The agents, as the manager sees them.                                   *)

\* A new turn, or more input for the one in progress; sendTurn returns.
TakeTurn(p) ==
    /\ agents[p].state = "ready" /\ agents[p].inbox # <<>>
    /\ LET t == Head(agents[p].inbox)
           free == agents[p].turn = None
       IN /\ settled' = settled \cup {t}
          /\ agents' = [agents EXCEPT ![p].inbox = Tail(@),
                                      ![p].turn = IF free THEN t ELSE @]
          /\ Emit(IF free THEN <<About("started", p, t)>> ELSE <<>>)
          /\ IF reactor.at = "sent" /\ reactor.agent = p /\ reactor.intent.turn = t
             THEN Done /\ binding' = [binding EXCEPT !.cursor = agents[p].talk]
             ELSE UNCHANGED <<reactor, binding>>
    /\ lastTalk' = IF p = owner THEN agents[p].talk ELSE lastTalk
    /\ UNCHANGED <<thread, intents, owner, ingesting, bounds, asked,
                   replaced, leftovers, disturbed, erred>>

\* The agent may not go on without the user's approval; once a turn.
RequestApproval(p) ==
    /\ Alive(p) /\ agents[p].asking /\ agents[p].turn # None
    /\ LET t == agents[p].turn IN
       /\ rows[t] = "none" /\ t \notin agents[p].pending
       /\ agents' = [agents EXCEPT ![p].pending = @ \cup {t}]
       /\ Emit(<<About("opened", p, t)>>)
    /\ UNCHANGED <<thread, binding, intents, reactor, owner, ingesting, bounds,
                   fates, history>>

Waits(p) == agents[p].turn \in agents[p].pending

EndTurn(p) ==
    /\ Alive(p) /\ agents[p].turn # None /\ ~ Waits(p)
    /\ agents' = [agents EXCEPT ![p].turn = None]
    /\ Emit(<<About("completed", p, agents[p].turn)>>)
    /\ UNCHANGED <<thread, binding, intents, reactor, owner, ingesting, bounds,
                   fates, history>>

FailTurn(p) ==
    /\ Alive(p) /\ agents[p].turn # None /\ ~ Waits(p)
    /\ Fault
    /\ agents' = [agents EXCEPT ![p].turn = None]
    /\ Emit(<<About("failed", p, agents[p].turn)>>)
    /\ UNCHANGED <<thread, binding, intents, reactor, owner, ingesting, fates,
                   history>>

\* The process exits: the thread's entry is deleted, whosever it is.
Exit(p) ==
    /\ Alive(p)
    /\ Kill(p)
    /\ Emit(<<Exited>>)
    /\ owner' = None
    /\ Disturbed(owner \notin {None, p})
    /\ UNCHANGED <<thread, binding, intents, reactor, ingesting, bounds, fates,
                   replaced, leftovers, erred, lastTalk>>

(* A process that lives reports an error: what it wrote cannot be read, it *)
(* writes a fatal line to stderr, or its turn has an error that it will    *)
(* not retry, which names the turn.  It goes on as before.  The manager    *)
(* itself reports one when a resume is refused, before OpenFails.          *)
RuntimeError(p) ==
    /\ Alive(p)
    /\ Fault
    /\ LET t == agents[p].turn IN
       /\ \/ Emit(<<Error>>) /\ Disturbed(owner \notin {None, p})
          \/ t # None /\ Emit(<<About("turnError", p, t)>>) /\ UNCHANGED disturbed
       /\ erred' = erred \cup ({t} \ {None})
    /\ UNCHANGED <<thread, binding, intents, reactor, owner, ingesting, agents,
                   fates, replaced, leftovers, lastTalk>>

\* It announces its conversation, as a rule while that is opened; the
\* cursor it carries is noted in Opened.
ThreadStarted(p) ==
    /\ Alive(p)
    /\ Fault
    /\ Emit(<<Announced>>)
    /\ UNCHANGED <<thread, binding, intents, reactor, owner, ingesting, agents,
                   fates, history>>

-----------------------------------------------------------------------------
(* The ingestion's worker: it reads the session, decides, and dispatches.  *)

ReadEvent ==
    /\ ingesting = Idle /\ events # <<>>
    /\ events' = Tail(events)
    /\ ingesting' = [at |-> "read", event |-> Head(events),
                     turn |-> session.turn, asking |-> session.asking]
    /\ UNCHANGED <<thread, binding, intents, reactor, owner, agents, bounds,
                   fates, history>>

(* MUTANT: the end of any turn ends the active one.                        *)
ShouldApply_AnyEnd(e) ==
    e.type \in {"started", "turnError"} => ingesting.turn \in {None, e.turn}

\* The guards of what names a turn, on the active turn that was read.
ShouldApply(e) ==
    e.type \in {"started", "completed", "failed", "turnError"} =>
       ingesting.turn \in {None, e.turn}

Lifecycle ==
    {"state", "announced", "started", "completed", "failed", "exited", "error",
     "turnError"}

\* runtime.error, with the turn that it names or without one.
SetError(e) ==
    SetSession("error", IF e.type = "turnError" THEN e.turn ELSE None,
               ingesting.asking)

IngestLifecycle ==
    LET e == ingesting.event
        Set(status, turn) == SetSession(status, turn, ingesting.asking)
    IN
    /\ e.type \in Lifecycle
    /\ ShouldApply(e)
    /\ CASE e.type = "state"     -> Set(e.state, ingesting.turn)
         [] e.type = "announced" -> Set(IF ingesting.turn = None THEN "ready"
                                        ELSE "running", ingesting.turn)
         [] e.type = "started"   -> Set("running", e.turn)
         [] e.type = "completed" -> Set("ready", None)
         [] e.type = "exited"    -> Set("stopped", None)
         [] e.type = "failed"    -> Set("error", None)
         [] e.type \in {"error", "turnError"} -> SetError(e)
    /\ Disturbed(\/ ingesting.turn # session.turn
                 \/ e.type \in {"started", "turnError"} /\ e.agent \in replaced)
    /\ UNCHANGED <<prompts, rows>>

IgnoreLifecycle ==
    /\ ingesting.event.type \in Lifecycle /\ ~ ShouldApply(ingesting.event)
    /\ UNCHANGED <<session, prompts, rows, disturbed>>

(* MUTANT: only the active turn's requests are shown.                      *)
IngestApproval_ActiveOnly ==
    LET e == ingesting.event IN
    /\ e.type \in {"opened", "resolved"}
    /\ prompts' =
          [prompts EXCEPT ![e.turn] =
              IF e.type = "resolved" THEN "closed"
              ELSE IF ingesting.turn = e.turn THEN "open" ELSE @]
    /\ rows' = [rows EXCEPT ![e.turn] =
                   IF e.type = "resolved" THEN "resolved" ELSE "pending"]
    /\ UNCHANGED <<session, disturbed>>

IngestApproval ==
    LET e == ingesting.event IN
    /\ \/ /\ e.type = "opened"
          /\ prompts' = [prompts EXCEPT ![e.turn] = "open"]
          /\ rows' = [rows EXCEPT ![e.turn] =
                         IF @ = "resolved" THEN @ ELSE "pending"]
       \/ /\ e.type = "resolved"
          /\ prompts' = [prompts EXCEPT ![e.turn] = "closed"]
          /\ rows' = [rows EXCEPT ![e.turn] = "resolved"]
    /\ UNCHANGED <<session, disturbed>>

Ingest ==
    /\ ingesting # Idle
    /\ ingesting' = Idle
    /\ IngestLifecycle \/ IgnoreLifecycle \/ IngestApproval
    /\ UNCHANGED <<asking, binding, intents, reactor, owner, events, agents,
                   bounds, fates, replaced, leftovers, erred, lastTalk>>

-----------------------------------------------------------------------------
(* The server goes down; its agents lose their pipes and exit.             *)

Down ==
    /\ Fault
    /\ intents' = <<>> /\ reactor' = Idle /\ owner' = None
    /\ events' = <<>> /\ ingesting' = Idle
    /\ agents' = [p \in Agent |-> IF agents[p] = Unborn THEN Unborn ELSE Dead]
    /\ settled' = 1..asked
    /\ leftovers' = leftovers \cup ({session.turn} \ {None})
    /\ UNCHANGED <<thread, asked, replaced, disturbed, erred, lastTalk>>

Crash == Down /\ UNCHANGED binding

\* runStopAll writes the rows of the live sessions once more.
Shutdown ==
    /\ Down
    /\ binding' =
          IF owner = None THEN binding
          ELSE [asking |-> agents[owner].asking,
                cursor |-> IF agents[owner].talk = None THEN binding.cursor
                           ELSE agents[owner].talk]

-----------------------------------------------------------------------------
Reactor ==
    \/ Take \/ SpawnFails \/ OpenFails \/ Record \/ Bind \/ Recover
    \/ RouteFails \/ SendTurn \/ SendFails \/ SendTimesOut \/ Report
    \/ InterruptTurn \/ RespondToRequest \/ StopSession \/ SetStopped
    \/ \E p \in Agent : Spawn(p) \/ Opened(p)

Next ==
    \/ AskTurn \/ Interrupt \/ Stop \/ SetRuntimeMode
    \/ \E t \in Turn : Answer(t)
    \/ Reactor
    \/ \E p \in Agent :
          \/ TakeTurn(p) \/ RequestApproval(p) \/ EndTurn(p) \/ Exit(p)
          \/ FailTurn(p) \/ RuntimeError(p) \/ ThreadStarted(p)
    \/ ReadEvent \/ Ingest
    \/ Crash \/ Shutdown

Spec == Init /\ [][Next]_vars

(* Both workers' fibers are resumed, and every request to an agent that    *)
(* the reactor waits for ends with its 20 seconds.                         *)
FairSpec ==
    Spec /\ WF_vars(Reactor) /\ WF_vars(ReadEvent) /\ WF_vars(Ingest)

-----------------------------------------------------------------------------
Quiet ==
    /\ intents = <<>> /\ reactor = Idle /\ events = <<>> /\ ingesting = Idle
    /\ \A p \in Agent : agents[p].inbox = <<>>

Working == IF owner = None THEN None ELSE agents[owner].turn

(* Once everything is processed the thread is shown as running exactly if  *)
(* its agent works, and on that turn: whatever exits, restarts and late    *)
(* reports there were.  Three things are excepted: what disturbs the       *)
(* session; a turn that was active when the server went down, which stays  *)
(* the session's and turns away the reports of the next ones; and a turn   *)
(* in which the agent reported an error and went on, which is not shown as *)
(* running, with its turn or without one, until it ends.                   *)
SessionIsTrue ==
    Quiet /\ ~ disturbed /\ session.turn \notin leftovers =>
       \/ /\ session.turn = Working
          /\ session.status = "running" <=> Working # None
       \/ /\ Working \in erred
          /\ session.turn \in {None, Working} /\ session.status # "running"

(* A start overwrites the entry of a process in two cases: a restart for   *)
(* another runtime mode, or past a session that is shown as stopped.  The  *)
(* process before it is left running, and its exit deletes the entry of    *)
(* its successor.                                                          *)
Overtaken(p) == p \in replaced \/ \E q \in replaced : ~ Alive(q)

(* A process that lives can be interrupted and stopped through its thread, *)
(* unless it is overtaken: nothing else in the code loses one.             *)
AgentsAreReachable == \A p \in Agent : Alive(p) => p = owner \/ Overtaken(p)

(* The user can see what an agent waits for, unless it is overtaken: no    *)
(* prompt of a turn is closed, or never opened, while the agent that asked *)
(* will not go on without the answer.                                      *)
WaitingIsShown ==
    Quiet => \A p \in Agent : Alive(p) /\ Waits(p) =>
       prompts[agents[p].turn] = "open" \/ Overtaken(p)

(* A turn goes on with the conversation of the turn before it, over        *)
(* restarts of the agent and of the server, unless the user stopped the    *)
(* session or the provider no longer has the conversation.                 *)
ConversationIsKept ==
    [][\A p \in Agent :
          TakeTurn(p) /\ p = owner /\ lastTalk # None =>
             agents[p].talk = lastTalk]_vars

(* Every turn the user asks for is taken by an agent or reported as        *)
(* failed, unless the server went down before: then nothing comes back to  *)
(* it.                                                                     *)
EveryTurnIsSettled == []<>(settled = 1..asked)
=============================================================================
