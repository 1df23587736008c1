---------------------- MODULE ProviderSessionsProofs ----------------------
(***************************************************************************)
(* Theorems about ProviderSessions, for any number of turns, agents,       *)
(* commands and faults.                                                    *)
(***************************************************************************)
EXTENDS ProviderSessions, SequenceTheorems, WellFoundedInduction, TLAPS

-----------------------------------------------------------------------------
(* Types.                                                                  *)

(* What a step of the reactor's work carries with it.                      *)
LEMMA StepTypes ==
    ASSUME NEW r \in Step
    PROVE  /\ r.at \in {"use", "call", "stop", "stopped"} =>
                 r = [at |-> r.at, intent |-> r.intent] /\ r.intent \in Intent
           /\ r.at = "report" => r.intent \in TurnIntent
           /\ r.at = "sent" => r.intent \in TurnIntent /\ r.agent \in Agent
           /\ r.at \in {"start", "opening", "record", "bind"} =>
                 /\ r.intent \in Intent /\ r.asking \in BOOLEAN
                 /\ r.cursor \in Agent \cup {None} /\ r.bind \in BOOLEAN
           /\ r.at \in {"opening", "record", "bind"} => r.agent \in Agent
           /\ r.at = "idle" <=> r = Idle
  BY DEF Step, Idle

(* Only a turn or an answer is about a turn.                               *)
LEMMA IntentTypes ==
    ASSUME NEW i \in Intent
    PROVE  /\ i.type = "turn" => i \in TurnIntent
           /\ i.type \in {"turn", "answer"} => i.turn \in Turn
  BY DEF Intent, TurnIntent

(* What the agents report is a runtime event.                              *)
LEMMA EventTypes ==
    /\ \A s \in {"starting", "ready"} : State(s) \in Event
    /\ Exited \in Event /\ Error \in Event /\ Announced \in Event
    /\ \A type \in {"started", "completed", "failed", "turnError", "opened",
                     "resolved"} :
          \A p \in Agent, t \in Turn : About(type, p, t) \in Event
  BY DEF State, Exited, Error, Announced, About, Event

(* What is emitted is appended to the stream.                              *)
LEMMA EmitTypes ==
    ASSUME events \in Seq(Event), NEW new \in Seq(Event), Emit(new)
    PROVE  events' \in Seq(Event)
  BY ConcatProperties DEF Emit

(* A process that was not spawned, or is gone, is one.                     *)
LEMMA UnbornTypes == Unborn \in Process /\ Dead \in Process
<1>1. <<>> \in Seq(Turn)
  OBVIOUS
<1> QED
  BY <1>1 DEF Unborn, Dead, Process

(* A process stays one when its fields change to values of their types.    *)
LEMMA ProcessTypes ==
    ASSUME NEW a \in Process
    PROVE  /\ a.state \in {"unborn", "starting", "ready", "dead"}
           /\ a.asking \in BOOLEAN
           /\ a.talk \in Agent \cup {None} /\ a.turn \in Turn \cup {None}
           /\ a.inbox \in Seq(Turn) /\ a.pending \in SUBSET Turn
           /\ \A t \in Turn \cup {None} : [a EXCEPT !.turn = t] \in Process
           /\ \A s \in SUBSET Turn : [a EXCEPT !.pending = s] \in Process
           /\ \A q \in Seq(Turn) : [a EXCEPT !.inbox = q] \in Process
           /\ \A q \in Seq(Turn), t \in Turn \cup {None} :
                 [a EXCEPT !.inbox = q, !.turn = t] \in Process
           /\ \A c \in Agent \cup {None} :
                 [a EXCEPT !.state = "ready", !.talk = c] \in Process
  BY DEF Process

(* The first state is well-typed.                                          *)
LEMMA InitTypes == Init => TypeOK
<1> SUFFICES ASSUME Init PROVE TypeOK
  OBVIOUS
<1>1. intents \in Seq(Intent) /\ events \in Seq(Event)
  BY DEF Init
<1>2. agents \in [Agent -> Process]
  BY UnbornTypes DEF Init
<1>3. reactor \in Step
  BY DEF Init, Step
<1>4. /\ others \in 0..MaxOthers /\ faults \in 0..MaxFaults
      /\ asked \in 0..MaxTurns
  BY SessionsAssumption DEF Init
<1> QED
  BY <1>1, <1>2, <1>3, <1>4, SessionsAssumption
     DEF Init, TypeOK, NoSession, NoBinding

(* The user's commands keep the types.                                     *)
LEMMA CommandTypes ==
    ASSUME TypeOK,
           \/ AskTurn \/ Interrupt \/ Stop \/ SetRuntimeMode
           \/ \E t \in Turn : Answer(t)
    PROVE  TypeOK'
<1>1. ASSUME NEW i \in Intent, Ask(i) PROVE intents' \in Seq(Intent)
  BY <1>1, AppendProperties DEF Ask, TypeOK
<1>2. Other => others' \in 0..MaxOthers /\ faults' = faults
  BY SessionsAssumption DEF Other, TypeOK
<1>3. CASE AskTurn
  <2>1. asked' \in 0..MaxTurns /\ asked' \in Turn
    BY <1>3, SessionsAssumption DEF AskTurn, TypeOK, Turn
  <2>2. [type |-> "turn", turn |-> asked'] \in Intent
    BY <2>1 DEF Intent, TurnIntent
  <2>3. intents' \in Seq(Intent)
    BY <1>3, <2>2, <1>1 DEF AskTurn
  <2> QED
    BY <1>3, <2>1, <2>3
       DEF AskTurn, TypeOK, thread, pipeline, bounds, history
<1>4. ASSUME NEW type \in {"interrupt", "stop", "mode"}, AskTo(type),
             asking' \in BOOLEAN
      PROVE  TypeOK'
  <2>1. [type |-> type] \in Intent
    BY DEF Intent
  <2>2. intents' \in Seq(Intent)
    BY <1>4, <2>1, <1>1 DEF AskTo
  <2> QED
    BY <1>2, <1>4, <2>2
       DEF AskTo, TypeOK, pipeline, fates, history
<1>5. CASE Interrupt
  BY <1>5, <1>4 DEF Interrupt, TypeOK
<1>6. CASE Stop
  BY <1>6, <1>4 DEF Stop, TypeOK
<1>7. CASE SetRuntimeMode
  BY <1>7, <1>4 DEF SetRuntimeMode, TypeOK
<1>8. ASSUME NEW t \in Turn, Answer(t) PROVE TypeOK'
  <2>1. [type |-> "answer", turn |-> t] \in Intent
    BY DEF Intent
  <2>2. intents' \in Seq(Intent)
    BY <1>8, <2>1, <1>1 DEF Answer
  <2>3. rows' \in [Turn -> {"none", "pending", "resolved"}]
    BY <1>8 DEF Answer, TypeOK
  <2> QED
    BY <1>2, <1>8, <2>2, <2>3
       DEF Answer, TypeOK, pipeline, fates, history
<1> QED
  BY <1>3, <1>5, <1>6, <1>7, <1>8

(* What may come next for the reactor is one of its steps.                 *)
LEMMA NextStepTypes ==
    ASSUME TypeOK
    PROVE  /\ Done => reactor' \in Step
           /\ reactor.at # "idle" /\ reactor.at # "report" /\ Fail =>
                 reactor' \in Step
           /\ \A at \in {"use", "call", "stop", "stopped"} :
                 reactor.at # "idle" /\ Goto(at) => reactor' \in Step
           /\ \A i \in Intent, a \in BOOLEAN, b \in BOOLEAN :
                 \A c \in Agent \cup {None} :
                    Start(i, a, c, b) => reactor' \in Step
<1>1. reactor \in Step
  BY DEF TypeOK
<1>2. /\ Idle \in Step
      /\ \A i \in Intent, at \in {"use", "call", "stop", "stopped"} :
            [at |-> at, intent |-> i] \in Step
      /\ \A i \in TurnIntent : [at |-> "report", intent |-> i] \in Step
      /\ \A i \in Intent, a \in BOOLEAN, b \in BOOLEAN :
            \A c \in Agent \cup {None} :
               [at |-> "start", intent |-> i, agent |-> None, asking |-> a,
                cursor |-> c, bind |-> b] \in Step
  BY DEF Step
<1>3. /\ reactor.at \in {"idle", "use", "call", "stop", "stopped", "report",
                          "sent", "start", "opening", "record", "bind"}
      /\ TurnIntent \subseteq Intent
  BY <1>1 DEF Step, Idle, Intent
<1>4. reactor.at # "idle" => reactor.intent \in Intent
  BY <1>1, <1>3, StepTypes
<1>5. Done => reactor' \in Step
  BY <1>2 DEF Done
<1>6. ASSUME reactor.at # "idle", Fail PROVE reactor' \in Step
  BY <1>2, <1>4, <1>5, <1>6, IntentTypes DEF Fail, Goto
<1>7. ASSUME NEW at \in {"use", "call", "stop", "stopped"},
             reactor.at # "idle", Goto(at)
      PROVE  reactor' \in Step
  BY <1>2, <1>4, <1>7 DEF Goto
<1> QED
  BY <1>2, <1>5, <1>6, <1>7 DEF Start

(* A start goes through its steps.                                         *)
LEMMA StartTypes ==
    ASSUME NEW r \in Step
    PROVE  /\ r.at = "start" =>
                 \A p \in Agent :
                    [r EXCEPT !.at = "opening", !.agent = p] \in Step
           /\ r.at = "opening" =>
                 \A c \in Agent \cup {None} :
                    [r EXCEPT !.at = "record", !.cursor = c] \in Step
           /\ r.at = "record" =>
                 [r EXCEPT !.at = "bind", !.cursor = None] \in Step
<1> DEFINE
      Starting == [at : {"start"}, intent : Intent, agent : {None},
                   asking : BOOLEAN, cursor : Agent \cup {None}, bind : BOOLEAN]
      Opening == [at : {"opening", "record", "bind"}, intent : Intent,
                  agent : Agent, asking : BOOLEAN,
                  cursor : Agent \cup {None}, bind : BOOLEAN]
<1>1. /\ r.at = "start" => r \in Starting
      /\ r.at \in {"opening", "record"} => r \in Opening
  BY DEF Step, Idle
<1>2. ASSUME r \in Starting, NEW p \in Agent
      PROVE  [r EXCEPT !.at = "opening", !.agent = p] \in Opening
  BY <1>2
<1>3. ASSUME r \in Opening, NEW c \in Agent \cup {None}
      PROVE  /\ [r EXCEPT !.at = "record", !.cursor = c] \in Opening
             /\ [r EXCEPT !.at = "bind", !.cursor = None] \in Opening
  BY <1>3
<1>4. Opening \subseteq Step
  BY DEF Step
<1> HIDE DEF Starting, Opening
<1> QED
  BY <1>1, <1>2, <1>3, <1>4

(* Taking an intent, and starting an agent for it, keep the types.         *)
LEMMA TakeTypes ==
    ASSUME TypeOK, Take
    PROVE  TypeOK'
<1> DEFINE i == Head(intents)
<1>1. i \in Intent /\ Tail(intents) \in Seq(Intent)
  BY HeadTailProperties DEF Take, TypeOK
<1>2. intents' \in Seq(Intent)
  BY <1>1 DEF Take
<1>3. ResumeCursor \in Agent \cup {None}
  <2>1. owner # None => agents[owner] \in Process
    BY DEF TypeOK
  <2> QED
    BY <2>1, ProcessTypes DEF ResumeCursor, Existing, TypeOK
<1>4. \A at \in {"use", "stop", "stopped"} : [at |-> at, intent |-> i] \in Step
  BY <1>1 DEF Step
<1>5. \A i2 \in Intent :
         Start(i2, asking, ResumeCursor, TRUE) => reactor' \in Step
  <2>1. asking \in BOOLEAN
    BY DEF TypeOK
  <2> QED
    BY <1>3, <2>1, NextStepTypes
<1>6. Done => reactor' \in Step
  BY NextStepTypes
<1> HIDE DEF i
<1>7. \/ \E at \in {"use", "stop", "stopped"} :
            reactor' = [at |-> at, intent |-> i]
      \/ Start(i, asking, ResumeCursor, TRUE)
      \/ Done
  BY DEF Take, i
<1>8. reactor' \in Step
  BY <1>1, <1>4, <1>5, <1>6, <1>7
<1>9. disturbed' \in BOOLEAN
  BY DEF Take, Disturbed, TypeOK
<1> QED
  BY <1>2, <1>8, <1>9 DEF Take, TypeOK, thread, pipeline, bounds, fates

(* A process is spawned and entered in the manager.                        *)
LEMMA SpawnTypes ==
    ASSUME TypeOK, NEW p \in Agent, Spawn(p)
    PROVE  TypeOK'
<1>1. reactor \in Step /\ reactor.at = "start"
  BY DEF Spawn, TypeOK
<1>2. reactor' \in Step
  BY <1>1, StartTypes DEF Spawn
<1>3. events' \in Seq(Event)
  <2>1. <<State("starting")>> \in Seq(Event)
    BY EventTypes
  <2> QED
    BY <2>1, EmitTypes DEF Spawn, TypeOK
<1>4. [Unborn EXCEPT !.state = "starting", !.asking = reactor.asking] \in Process
  <2>1. <<>> \in Seq(Turn)
    OBVIOUS
  <2> QED
    BY <1>1, <2>1, StepTypes DEF Unborn, Process
<1>5. agents' \in [Agent -> Process]
  BY <1>4 DEF Spawn, TypeOK
<1>6. replaced' \in SUBSET Agent
  BY DEF Spawn, TypeOK
<1> QED
  BY <1>2, <1>3, <1>5, <1>6 DEF Spawn, TypeOK, thread, bounds, fates

(* Nothing is spawned.                                                     *)
LEMMA SpawnFailsTypes ==
    ASSUME TypeOK, SpawnFails
    PROVE  TypeOK'
<1>1. events' \in Seq(Event)
  <2>1. <<Error>> \in Seq(Event)
    BY EventTypes
  <2> QED
    BY <2>1, EmitTypes DEF SpawnFails, TypeOK
<1>2. reactor' \in Step
  BY NextStepTypes DEF SpawnFails
<1>3. disturbed' \in BOOLEAN
  BY DEF SpawnFails, Disturbed, TypeOK
<1> QED
  BY <1>1, <1>2, <1>3 DEF SpawnFails, TypeOK, thread, bounds, fates

(* An agent that is killed, or whose fields change, is still a process.    *)
LEMMA KillTypes ==
    ASSUME TypeOK, NEW p \in Agent, Kill(p)
    PROVE  agents' \in [Agent -> Process]
  BY UnbornTypes DEF Kill, TypeOK

(* The agent opens a conversation.                                         *)
LEMMA OpenedTypes ==
    ASSUME TypeOK, NEW p \in Agent, Opened(p)
    PROVE  TypeOK'
<1>1. reactor \in Step /\ reactor.at = "opening"
  BY DEF Opened, TypeOK
<1>2. PICK talk \in {p, reactor.cursor} \ {None} :
         /\ agents' = [agents EXCEPT ![p].state = "ready", ![p].talk = talk]
         /\ reactor' = [reactor EXCEPT !.at = "record", !.cursor = talk]
         /\ lastTalk' = IF talk = reactor.cursor \/ reactor.cursor = None
                        THEN lastTalk ELSE None
  BY DEF Opened
<1>3. talk \in Agent
  BY <1>1, StepTypes
<1>4. reactor' \in Step
  BY <1>1, <1>2, <1>3, StartTypes
<1>5. agents' \in [Agent -> Process]
  <2>1. [agents[p] EXCEPT !.state = "ready", !.talk = talk] \in Process
    BY <1>3, ProcessTypes DEF TypeOK
  <2>2. agents' = [agents EXCEPT ![p] =
                      [agents[p] EXCEPT !.state = "ready", !.talk = talk]]
    BY <1>2
  <2> QED
    BY <2>1, <2>2 DEF TypeOK
<1>6. events' \in Seq(Event)
  <2>1. <<State("ready")>> \in Seq(Event)
    BY EventTypes
  <2> QED
    BY <2>1, EmitTypes DEF Opened, TypeOK
<1>7. lastTalk' \in Agent \cup {None}
  BY <1>2 DEF TypeOK
<1> QED
  BY <1>4, <1>5, <1>6, <1>7 DEF Opened, TypeOK, thread, bounds, fates

(* It does not.                                                            *)
LEMMA OpenFailsTypes ==
    ASSUME TypeOK, OpenFails
    PROVE  TypeOK'
<1>1. reactor' \in Step
  BY NextStepTypes DEF OpenFails
<1>2. events' \in Seq(Event)
  <2>1. <<Error>> \in Seq(Event) /\ <<Error, Exited>> \in Seq(Event)
    BY EventTypes
  <2> QED
    BY <2>1, EmitTypes DEF OpenFails, TypeOK
<1>3. agents' \in [Agent -> Process]
  BY KillTypes DEF OpenFails, TypeOK
<1> QED
  BY <1>1, <1>2, <1>3
     DEF OpenFails, TypeOK, thread, bounds, fates, history

(* Recording and binding what was started, and routing a call.             *)
LEMMA RouteTypes ==
    ASSUME TypeOK,
           \/ Record \/ Bind \/ Recover \/ RouteFails \/ SetStopped
    PROVE  TypeOK'
<1>1. reactor \in Step
  BY DEF TypeOK
<1>2. CASE Record
  <2>1. binding' \in [cursor : Agent \cup {None}, asking : BOOLEAN]
    BY <1>1, <1>2, StepTypes DEF Record
  <2>2. reactor' \in Step
    BY <1>1, <1>2, StartTypes, NextStepTypes DEF Record
  <2> QED
    BY <1>2, <2>1, <2>2
       DEF Record, TypeOK, thread, pipeline, bounds, fates, history
<1>3. CASE Bind
  <2>1. reactor' \in Step
    BY <1>3, NextStepTypes DEF Bind
  <2>2. session' \in
          [status : {"none", "starting", "ready", "running", "stopped", "error"},
           turn : Turn \cup {None}, asking : BOOLEAN]
    BY <1>1, <1>3, StepTypes DEF Bind, SetSession
  <2> QED
    BY <1>3, <2>1, <2>2
       DEF Bind, TypeOK, pipeline, bounds, fates, history
<1>4. CASE Recover
  <2>1. /\ reactor.intent \in Intent
        /\ binding.asking \in BOOLEAN /\ binding.cursor \in Agent \cup {None}
    BY <1>1, <1>4, StepTypes DEF Recover, TypeOK
  <2>2. reactor' \in Step
    BY <1>4, <2>1, NextStepTypes DEF Recover
  <2> QED
    BY <1>4, <2>2
       DEF Recover, TypeOK, thread, pipeline, bounds, fates, history
<1>5. CASE RouteFails
  <2>1. reactor' \in Step
    BY <1>5, NextStepTypes DEF RouteFails
  <2> QED
    BY <1>5, <2>1
       DEF RouteFails, TypeOK, thread, pipeline, bounds, fates, history
<1>6. CASE SetStopped
  <2>1. reactor' \in Step
    BY <1>6, NextStepTypes DEF SetStopped
  <2>2. session' \in
          [status : {"none", "starting", "ready", "running", "stopped", "error"},
           turn : Turn \cup {None}, asking : BOOLEAN]
    BY <1>6 DEF SetStopped, SetSession, TypeOK
  <2> QED
    BY <1>6, <2>1, <2>2
       DEF SetStopped, TypeOK, pipeline, bounds, fates, history
<1> QED
  BY <1>2, <1>3, <1>4, <1>5, <1>6

(* A turn is sent, taken up, refused or reported.                          *)
LEMMA SendTypes ==
    ASSUME TypeOK,
           \/ SendTurn \/ SendFails \/ SendTimesOut \/ Report
    PROVE  TypeOK'
<1>1. reactor \in Step
  BY DEF TypeOK
<1>2. CASE SendTurn
  <2>1. /\ owner \in Agent /\ reactor.intent \in TurnIntent
        /\ reactor.intent.turn \in Turn
    <3>1. reactor.intent \in Intent /\ reactor.intent.type = "turn"
      BY <1>1, <1>2, StepTypes DEF SendTurn, Calls
    <3> QED
      BY <1>2, <3>1, IntentTypes DEF SendTurn, Calls, TypeOK
  <2>2. Append(agents[owner].inbox, reactor.intent.turn) \in Seq(Turn)
    BY <2>1, ProcessTypes, AppendProperties DEF TypeOK
  <2>3. agents' \in [Agent -> Process]
    <3>1. agents' = [agents EXCEPT ![owner] = [agents[owner] EXCEPT
                         !.inbox = Append(agents[owner].inbox,
                                          reactor.intent.turn)]]
      BY <1>2 DEF SendTurn
    <3> QED
      BY <2>1, <2>2, <3>1, ProcessTypes DEF TypeOK
  <2>4. reactor' \in Step
    BY <1>2, <2>1 DEF SendTurn, Step
  <2> QED
    BY <1>2, <2>3, <2>4
       DEF SendTurn, TypeOK, thread, pipeline, bounds, fates, history
<1>3. CASE SendFails
  <2>1. reactor.agent \in Agent
    BY <1>1, <1>3, StepTypes DEF SendFails
  <2>2. Front(agents[reactor.agent].inbox) \in Seq(Turn)
    <3> DEFINE q == agents[reactor.agent].inbox
    <3>1. q \in Seq(Turn)
      BY <2>1, ProcessTypes DEF TypeOK
    <3> HIDE DEF q
    <3>2. /\ Len(q) - 1 \in Int
          /\ \A i \in 1..(Len(q) - 1) : i \in 1..Len(q)
      BY <3>1, LenProperties
    <3>3. \A i \in 1..(Len(q) - 1) : q[i] \in Turn
      BY <3>1, <3>2, ElementOfSeq
    <3>4. SubSeq(q, 1, Len(q) - 1) \in Seq(Turn)
      BY <3>1, <3>2, <3>3, SubSeqProperties
    <3> QED
      BY <3>4 DEF Front, q
  <2>3. agents' \in [Agent -> Process]
    <3>1. agents' = [agents EXCEPT ![reactor.agent] =
                        [agents[reactor.agent] EXCEPT
                            !.inbox = Front(agents[reactor.agent].inbox)]]
      BY <1>3 DEF SendFails
    <3> QED
      BY <2>1, <2>2, <3>1, ProcessTypes DEF TypeOK
  <2>4. reactor' \in Step
    BY <1>3, NextStepTypes DEF SendFails
  <2> QED
    BY <1>3, <2>3, <2>4
       DEF SendFails, TypeOK, thread, pipeline, bounds, fates, history
<1>4. CASE SendTimesOut
  <2>1. reactor' \in Step
    BY <1>4, NextStepTypes DEF SendTimesOut
  <2>2. faults' \in 0..MaxFaults /\ others' = others
    BY <1>4, SessionsAssumption DEF SendTimesOut, Fault, TypeOK
  <2> QED
    BY <1>4, <2>1, <2>2
       DEF SendTimesOut, TypeOK, thread, pipeline, fates, history
<1>5. CASE Report
  <2>1. reactor.intent.turn \in Turn
    BY <1>1, <1>5, StepTypes DEF Report, TurnIntent
  <2>2. reactor' \in Step
    BY <1>5, NextStepTypes DEF Report
  <2> QED
    BY <1>5, <2>1, <2>2
       DEF Report, TypeOK, thread, pipeline, bounds, history
<1> QED
  BY <1>2, <1>3, <1>4, <1>5

(* An interrupt, an answer and a stop.                                     *)
LEMMA CallTypes ==
    ASSUME TypeOK,
           \/ InterruptTurn \/ RespondToRequest \/ StopSession
    PROVE  TypeOK'
<1>1. reactor \in Step
  BY DEF TypeOK
<1>2. CASE InterruptTurn
  <2>1. reactor' \in Step
    BY <1>2, NextStepTypes DEF InterruptTurn
  <2>2. owner \in Agent /\ agents[owner] \in Process
    BY <1>2 DEF InterruptTurn, Calls, TypeOK
  <2>3. agents' \in [Agent -> Process] /\ events' \in Seq(Event)
    <3>1. CASE UNCHANGED <<agents, events>>
      BY <3>1 DEF TypeOK
    <3>2. CASE /\ agents[owner].turn # None
               /\ agents' = [agents EXCEPT ![owner].turn = None]
               /\ Emit(<<About("completed", owner, agents[owner].turn)>>)
      <4>1. agents[owner].turn \in Turn
        BY <2>2, <3>2, ProcessTypes
      <4>2. <<About("completed", owner, agents[owner].turn)>> \in Seq(Event)
        BY <2>2, <4>1, EventTypes
      <4>3. events' \in Seq(Event)
        BY <3>2, <4>2, EmitTypes DEF TypeOK
      <4>4. agents' = [agents EXCEPT ![owner] =
                          [agents[owner] EXCEPT !.turn = None]]
        BY <3>2
      <4> QED
        BY <2>2, <4>3, <4>4, ProcessTypes DEF TypeOK
    <3> QED
      BY <1>2, <3>1, <3>2 DEF InterruptTurn
  <2> QED
    BY <1>2, <2>1, <2>3
       DEF InterruptTurn, TypeOK, thread, bounds, fates, history
<1>3. CASE RespondToRequest
  <2> DEFINE t == reactor.intent.turn
  <2>1. reactor' \in Step
    BY <1>3, NextStepTypes DEF RespondToRequest
  <2>2. owner \in Agent /\ agents[owner] \in Process
    BY <1>3 DEF RespondToRequest, Calls, TypeOK
  <2>3. t \in Turn
    <3>1. reactor.intent \in Intent /\ reactor.intent.type = "answer"
      BY <1>1, <1>3, StepTypes DEF RespondToRequest, Calls
    <3> QED
      BY <3>1, IntentTypes
  <2>4. \/ /\ agents' = [agents EXCEPT ![owner].pending = @ \ {t}]
           /\ Emit(<<About("resolved", owner, t)>>)
           /\ UNCHANGED prompts
        \/ /\ prompts' = [prompts EXCEPT ![t] = "closed"]
           /\ UNCHANGED <<agents, events>>
    BY <1>3 DEF RespondToRequest
  <2>5. /\ agents' \in [Agent -> Process] /\ events' \in Seq(Event)
        /\ prompts' \in [Turn -> {"none", "open", "closed"}]
    <3>1. CASE /\ agents' = [agents EXCEPT ![owner].pending = @ \ {t}]
               /\ Emit(<<About("resolved", owner, t)>>)
               /\ UNCHANGED prompts
      <4>1. <<About("resolved", owner, t)>> \in Seq(Event)
        BY <2>2, <2>3, EventTypes
      <4>2. events' \in Seq(Event)
        BY <3>1, <4>1, EmitTypes DEF TypeOK
      <4>3. agents' = [agents EXCEPT ![owner] = [agents[owner] EXCEPT
                          !.pending = agents[owner].pending \ {t}]]
        BY <3>1
      <4>4. agents[owner].pending \ {t} \in SUBSET Turn
        BY <2>2, ProcessTypes
      <4>5. [agents[owner] EXCEPT !.pending = agents[owner].pending \ {t}]
               \in Process
        BY <2>2, <4>4, ProcessTypes
      <4>6. agents' \in [Agent -> Process]
        <5>1. agents \in [Agent -> Process]
          BY DEF TypeOK
        <5> QED
          BY <2>2, <4>3, <4>5, <5>1
      <4>7. prompts' \in [Turn -> {"none", "open", "closed"}]
        BY <3>1 DEF TypeOK
      <4> QED
        BY <4>2, <4>6, <4>7
    <3>2. CASE /\ prompts' = [prompts EXCEPT ![t] = "closed"]
               /\ UNCHANGED <<agents, events>>
      BY <3>2 DEF TypeOK
    <3> QED
      BY <2>4, <3>1, <3>2
  <2> QED
    BY <1>3, <2>1, <2>5
       DEF RespondToRequest, TypeOK, bounds, fates, history
<1>4. CASE StopSession
  <2>1. reactor' \in Step
    BY <1>4, NextStepTypes DEF StopSession
  <2>2. agents' \in [Agent -> Process]
    BY <1>4, KillTypes DEF StopSession, TypeOK
  <2>3. events' \in Seq(Event)
    <3>1. <<Exited>> \in Seq(Event)
      BY EventTypes
    <3> QED
      BY <1>4, <3>1, EmitTypes DEF StopSession, TypeOK
  <2> QED
    BY <1>4, <2>1, <2>2, <2>3
       DEF StopSession, TypeOK, NoBinding, thread, bounds, fates
<1> QED
  BY <1>2, <1>3, <1>4

(* What an agent does.                                                     *)
LEMMA AgentTypes ==
    ASSUME TypeOK, NEW p \in Agent,
           \/ TakeTurn(p) \/ RequestApproval(p) \/ EndTurn(p) \/ Exit(p)
           \/ FailTurn(p) \/ RuntimeError(p) \/ ThreadStarted(p)
    PROVE  TypeOK'
<1>1. agents[p] \in Process
  BY DEF TypeOK
<1>2. CASE TakeTurn(p)
  <2> DEFINE t == Head(agents[p].inbox)
             rest == Tail(agents[p].inbox)
             active == IF agents[p].turn = None THEN t ELSE agents[p].turn
  <2>1. t \in Turn /\ rest \in Seq(Turn)
    BY <1>1, <1>2, ProcessTypes, HeadTailProperties DEF TakeTurn
  <2>2. agents' \in [Agent -> Process]
    <3>1. agents' = [agents EXCEPT ![p] =
                        [agents[p] EXCEPT !.inbox = rest, !.turn = active]]
      BY <1>2 DEF TakeTurn
    <3>2. active \in Turn \cup {None}
      BY <1>1, <2>1, ProcessTypes
    <3>3. [agents[p] EXCEPT !.inbox = rest, !.turn = active] \in Process
      BY <1>1, <2>1, <3>2, ProcessTypes
    <3> QED
      BY <3>1, <3>3 DEF TypeOK
  <2>3. events' \in Seq(Event)
    <3>1. <<About("started", p, t)>> \in Seq(Event) /\ <<>> \in Seq(Event)
      BY <2>1, EventTypes
    <3>2. \/ Emit(<<About("started", p, t)>>)
          \/ Emit(<<>>)
      BY <1>2 DEF TakeTurn
    <3> QED
      BY <3>1, <3>2, EmitTypes DEF TypeOK
  <2>4. settled' \in SUBSET Turn
    BY <1>2, <2>1 DEF TakeTurn, TypeOK
  <2>5. /\ reactor' \in Step
        /\ binding' \in [cursor : Agent \cup {None}, asking : BOOLEAN]
    <3>1. \/ Done /\ binding' = [binding EXCEPT !.cursor = agents[p].talk]
          \/ UNCHANGED <<reactor, binding>>
      BY <1>2 DEF TakeTurn
    <3>2. agents[p].talk \in Agent \cup {None}
      BY <1>1, ProcessTypes
    <3>3. Done => reactor' \in Step
      BY NextStepTypes
    <3> QED
      BY <3>1, <3>2, <3>3 DEF TypeOK
  <2>6. lastTalk' \in Agent \cup {None}
    BY <1>1, <1>2, ProcessTypes DEF TakeTurn, TypeOK
  <2> QED
    BY <1>2, <2>2, <2>3, <2>4, <2>5, <2>6
       DEF TakeTurn, TypeOK, thread, bounds
<1>3. CASE RequestApproval(p)
  <2> DEFINE t == agents[p].turn
  <2>1. t \in Turn
    BY <1>1, <1>3, ProcessTypes DEF RequestApproval
  <2>2. [agents[p] EXCEPT !.pending = agents[p].pending \cup {t}] \in Process
    <3>1. agents[p].pending \cup {t} \in SUBSET Turn
      BY <1>1, <2>1, ProcessTypes
    <3> HIDE DEF t
    <3> QED
      BY <1>1, <3>1, ProcessTypes
  <2>3. agents' = [agents EXCEPT ![p] =
                      [agents[p] EXCEPT !.pending = agents[p].pending \cup {t}]]
    BY <1>3 DEF RequestApproval
  <2>4. <<About("opened", p, t)>> \in Seq(Event)
    BY <2>1, EventTypes
  <2>5. events' \in Seq(Event)
    BY <1>3, <2>4, EmitTypes DEF RequestApproval, TypeOK
  <2> QED
    BY <1>3, <2>2, <2>3, <2>5
       DEF RequestApproval, TypeOK, thread, bounds, fates, history
<1>4. CASE EndTurn(p) \/ FailTurn(p)
  <2>1. agents[p].turn \in Turn
    BY <1>1, <1>4, ProcessTypes DEF EndTurn, FailTurn
  <2>2. \A type \in {"completed", "failed"} :
           <<About(type, p, agents[p].turn)>> \in Seq(Event)
    BY <2>1, EventTypes
  <2>3. events' \in Seq(Event)
    BY <1>4, <2>2, EmitTypes DEF EndTurn, FailTurn, TypeOK
  <2>4. agents' = [agents EXCEPT ![p] = [agents[p] EXCEPT !.turn = None]]
    BY <1>4 DEF EndTurn, FailTurn
  <2>5. agents' \in [Agent -> Process]
    BY <1>1, <2>4, ProcessTypes DEF TypeOK
  <2>6. faults' \in 0..MaxFaults /\ others' = others /\ asked' = asked
    BY <1>4, SessionsAssumption
       DEF EndTurn, FailTurn, Fault, bounds, fates, TypeOK
  <2> QED
    BY <1>4, <2>3, <2>5, <2>6
       DEF EndTurn, FailTurn, TypeOK, thread, bounds, fates, history
<1>5. CASE Exit(p)
  <2>1. agents' \in [Agent -> Process]
    BY <1>5, KillTypes DEF Exit
  <2>2. events' \in Seq(Event)
    <3>1. <<Exited>> \in Seq(Event)
      BY EventTypes
    <3> QED
      BY <1>5, <3>1, EmitTypes DEF Exit, TypeOK
  <2>3. disturbed' \in BOOLEAN
    BY <1>5 DEF Exit, Disturbed, TypeOK
  <2> QED
    BY <1>5, <2>1, <2>2, <2>3 DEF Exit, TypeOK, thread, bounds, fates
<1>6. CASE RuntimeError(p)
  <2>1. \A t \in Turn : <<About("turnError", p, t)>> \in Seq(Event)
    BY EventTypes
  <2>2. <<Error>> \in Seq(Event)
    BY EventTypes
  <2>3. agents[p].turn \in Turn \cup {None}
    BY <1>1, ProcessTypes
  <2>4. \/ Emit(<<Error>>)
        \/ /\ agents[p].turn # None
           /\ Emit(<<About("turnError", p, agents[p].turn)>>)
    BY <1>6 DEF RuntimeError
  <2>5. events' \in Seq(Event)
    BY <2>1, <2>2, <2>3, <2>4, EmitTypes DEF TypeOK
  <2>6. disturbed' \in BOOLEAN
    BY <1>6 DEF RuntimeError, Disturbed, TypeOK
  <2>7. erred' \in SUBSET Turn
    BY <1>6, <2>3 DEF RuntimeError, TypeOK
  <2>8. faults' \in 0..MaxFaults /\ others' = others
    BY <1>6, SessionsAssumption DEF RuntimeError, Fault, TypeOK
  <2> QED
    BY <1>6, <2>5, <2>6, <2>7, <2>8 DEF RuntimeError, TypeOK, thread, fates
<1>7. CASE ThreadStarted(p)
  <2>1. <<Announced>> \in Seq(Event)
    BY EventTypes
  <2>2. events' \in Seq(Event)
    BY <1>7, <2>1, EmitTypes DEF ThreadStarted, TypeOK
  <2>3. faults' \in 0..MaxFaults /\ others' = others
    BY <1>7, SessionsAssumption DEF ThreadStarted, Fault, TypeOK
  <2> QED
    BY <1>7, <2>2, <2>3 DEF ThreadStarted, TypeOK, thread, fates, history
<1> QED
  BY <1>2, <1>3, <1>4, <1>5, <1>6, <1>7

(* What the ingestion does.                                                *)
LEMMA IngestionTypes ==
    ASSUME TypeOK, ReadEvent \/ Ingest
    PROVE  TypeOK'
<1>1. CASE ReadEvent
  <2>1. /\ Head(events) \in Event /\ Tail(events) \in Seq(Event)
    BY <1>1, HeadTailProperties DEF ReadEvent, TypeOK
  <2>2. ingesting' \in [at : {"read"}, event : Event, turn : Turn \cup {None},
                        asking : BOOLEAN]
    BY <1>1, <2>1 DEF ReadEvent, TypeOK
  <2> QED
    BY <1>1, <2>1, <2>2
       DEF ReadEvent, TypeOK, thread, bounds, fates, history
<1>2. CASE Ingest
  <2> DEFINE e == ingesting.event
  <2>1. /\ e \in Event /\ ingesting.turn \in Turn \cup {None}
        /\ ingesting.asking \in BOOLEAN
    BY <1>2 DEF Ingest, TypeOK, Idle
  <2>2. /\ e.type \in {"started", "completed", "failed", "turnError", "opened",
                       "resolved"} => e.turn \in Turn
        /\ e.type = "state" => e.state \in {"starting", "ready"}
    BY <2>1 DEF Event
  <2> HIDE DEF e
  <2>3. ingesting' = Idle
    BY <1>2 DEF Ingest
  <2>4. /\ session' \in
              [status : {"none", "starting", "ready", "running", "stopped",
                         "error"},
               turn : Turn \cup {None}, asking : BOOLEAN]
        /\ prompts' \in [Turn -> {"none", "open", "closed"}]
        /\ rows' \in [Turn -> {"none", "pending", "resolved"}]
        /\ disturbed' \in BOOLEAN
    <3>1. CASE IngestLifecycle
      <4> DEFINE Set(status, turn) == SetSession(status, turn, ingesting.asking)
      <4>1. \/ e.type = "state" /\ Set(e.state, ingesting.turn)
            \/ \E status \in {"ready", "running"} : Set(status, ingesting.turn)
            \/ e.type = "started" /\ Set("running", e.turn)
            \/ \E status \in {"ready", "stopped", "error"} : Set(status, None)
            \/ e.type = "turnError" /\ Set("error", e.turn)
        BY <3>1 DEF IngestLifecycle, SetError, Lifecycle, e
      <4>2. session' \in
              [status : {"none", "starting", "ready", "running", "stopped",
                         "error"},
               turn : Turn \cup {None}, asking : BOOLEAN]
        BY <2>1, <2>2, <4>1 DEF SetSession
      <4> QED
        BY <3>1, <4>2 DEF IngestLifecycle, SetError, Disturbed, TypeOK
    <3>2. CASE IgnoreLifecycle
      BY <3>2 DEF IgnoreLifecycle, TypeOK
    <3>3. CASE IngestApproval
      BY <2>2, <3>3 DEF IngestApproval, TypeOK, e
    <3> QED
      BY <1>2, <3>1, <3>2, <3>3 DEF Ingest
  <2> QED
    BY <1>2, <2>3, <2>4 DEF Ingest, TypeOK, bounds, fates
<1> QED
  BY <1>1, <1>2

(* The server goes down.                                                   *)
LEMMA DownTypes ==
    ASSUME TypeOK, Crash \/ Shutdown
    PROVE  TypeOK'
<1>1. Down
  BY DEF Crash, Shutdown
<1>2. agents' \in [Agent -> Process]
  BY <1>1, UnbornTypes DEF Down
<1>3. faults' \in 0..MaxFaults /\ others' = others
  BY <1>1, SessionsAssumption DEF Down, Fault, TypeOK
<1>4. settled' \in SUBSET Turn /\ leftovers' \in SUBSET Turn
  <2>1. 1..asked \subseteq Turn
    BY SessionsAssumption DEF TypeOK, Turn
  <2> QED
    BY <1>1, <2>1 DEF Down, TypeOK
<1>5. binding' \in [cursor : Agent \cup {None}, asking : BOOLEAN]
  <2> DEFINE B == [cursor : Agent \cup {None}, asking : BOOLEAN]
  <2>1. owner # None =>
           /\ agents[owner].asking \in BOOLEAN
           /\ agents[owner].talk \in Agent \cup {None}
    BY ProcessTypes DEF TypeOK
  <2>2. binding \in B /\ binding.cursor \in Agent \cup {None}
    BY DEF TypeOK
  <2>3. \A a \in BOOLEAN, c \in Agent \cup {None} :
           [asking |-> a, cursor |-> c] \in B
    OBVIOUS
  <2>4. CASE owner = None \/ Crash
    BY <2>2, <2>4 DEF Crash, Shutdown
  <2>5. CASE owner # None /\ Shutdown
    <3> DEFINE c == IF agents[owner].talk = None THEN binding.cursor
                    ELSE agents[owner].talk
    <3>1. c \in Agent \cup {None} /\ agents[owner].asking \in BOOLEAN
      BY <2>1, <2>2, <2>5
    <3>2. binding' = [asking |-> agents[owner].asking, cursor |-> c]
      BY <2>5 DEF Shutdown
    <3> HIDE DEF c
    <3> QED
      BY <2>3, <3>1, <3>2
  <2> QED
    BY <2>4, <2>5
<1>6. intents' \in Seq(Intent) /\ events' \in Seq(Event) /\ reactor' \in Step
  BY <1>1 DEF Down, Step
<1> QED
  BY <1>1, <1>2, <1>3, <1>4, <1>5, <1>6 DEF Down, TypeOK, thread

(* Types are kept by every step of the specification.                      *)
LEMMA TypeStep == TypeOK /\ [Next]_vars => TypeOK'
<1> SUFFICES ASSUME TypeOK, [Next]_vars PROVE TypeOK'
  OBVIOUS
<1>1. CASE \/ AskTurn \/ Interrupt \/ Stop \/ SetRuntimeMode
           \/ \E t \in Turn : Answer(t)
  BY <1>1, CommandTypes
<1>2. CASE Reactor
  <2>1. CASE \E p \in Agent : Spawn(p) \/ Opened(p)
    BY <2>1, SpawnTypes, OpenedTypes
  <2>2. CASE Take \/ SpawnFails \/ OpenFails
    BY <2>2, TakeTypes, SpawnFailsTypes, OpenFailsTypes
  <2>3. CASE Record \/ Bind \/ Recover \/ RouteFails \/ SetStopped
    BY <2>3, RouteTypes
  <2>4. CASE SendTurn \/ SendFails \/ SendTimesOut \/ Report
    BY <2>4, SendTypes
  <2>5. CASE InterruptTurn \/ RespondToRequest \/ StopSession
    BY <2>5, CallTypes
  <2> QED
    BY <1>2, <2>1, <2>2, <2>3, <2>4, <2>5 DEF Reactor
<1>3. CASE \E p \in Agent :
              \/ TakeTurn(p) \/ RequestApproval(p) \/ EndTurn(p) \/ Exit(p)
              \/ FailTurn(p) \/ RuntimeError(p) \/ ThreadStarted(p)
  BY <1>3, AgentTypes
<1>4. CASE ReadEvent \/ Ingest
  BY <1>4, IngestionTypes
<1>5. CASE Crash \/ Shutdown
  BY <1>5, DownTypes
<1>6. CASE UNCHANGED vars
  BY <1>6 DEF vars, thread, pipeline, bounds, fates, history, TypeOK
<1> QED
  BY <1>1, <1>2, <1>3, <1>4, <1>5, <1>6 DEF Next

(* Every reachable state is well-typed.                                    *)
THEOREM TypeCorrect == Spec => []TypeOK
<1> QED
  BY InitTypes, TypeStep, PTL DEF Spec

-----------------------------------------------------------------------------
(* Agents are reachable.                                                   *)

(* The entry of the manager, and the entries it had before, are of agents  *)
(* that were spawned: the next one is none of them.                        *)
Born ==
    /\ owner # None => agents[owner].state # "unborn"
    /\ \A q \in replaced : agents[q].state # "unborn"

\* What most steps leave alone.
AgentsKept ==
    /\ owner' = owner /\ replaced' = replaced
    /\ \A p \in Agent :
          agents'[p].state = agents[p].state /\ agents'[p].talk = agents[p].talk

(* The user's commands, the ingestion and what agents only say touch       *)
(* neither the agents nor what the reactor and the manager know of them.   *)
LEMMA OutsideKeeps ==
    ASSUME TypeOK,
           \/ AskTurn \/ Interrupt \/ Stop \/ SetRuntimeMode
           \/ \E t \in Turn : Answer(t)
           \/ ReadEvent \/ Ingest
           \/ \E p \in Agent : RuntimeError(p) \/ ThreadStarted(p)
           \/ UNCHANGED vars
    PROVE  /\ agents' = agents /\ owner' = owner /\ replaced' = replaced
           /\ reactor' = reactor /\ binding' = binding /\ lastTalk' = lastTalk
<1>1. CASE \/ AskTurn \/ Interrupt \/ Stop \/ SetRuntimeMode
           \/ \E t \in Turn : Answer(t)
  BY <1>1 DEF AskTurn, Interrupt, Stop, SetRuntimeMode, AskTo, Answer, history
<1>2. CASE ReadEvent \/ Ingest
  BY <1>2 DEF ReadEvent, Ingest, history
<1>3. CASE UNCHANGED vars
  BY <1>3 DEF vars, history
<1>4. CASE \E p \in Agent : RuntimeError(p) \/ ThreadStarted(p)
  BY <1>4 DEF RuntimeError, ThreadStarted, history
<1> QED
  BY <1>1, <1>2, <1>3, <1>4

(* Calls to an agent, and what it does with its turns, keep it alive and   *)
(* in its conversation.                                                    *)
LEMMA CallsKeep ==
    ASSUME TypeOK,
           \/ Take \/ SpawnFails \/ Record \/ Bind \/ Recover \/ RouteFails
           \/ SendTurn \/ SendFails \/ SendTimesOut \/ Report
           \/ InterruptTurn \/ RespondToRequest \/ SetStopped
           \/ \E p \in Agent : \/ TakeTurn(p) \/ RequestApproval(p)
                              \/ EndTurn(p) \/ FailTurn(p)
    PROVE  AgentsKept
<1>1. /\ \A p \in Agent : agents[p] \in Process
      /\ agents \in [Agent -> Process]
  BY DEF TypeOK
<1>2. CASE \/ Take \/ SpawnFails \/ Record \/ Bind \/ Recover \/ RouteFails
           \/ SendTimesOut \/ Report \/ SetStopped
  BY <1>2 DEF Take, SpawnFails, Record, Bind, Recover, RouteFails,
              SendTimesOut, Report, SetStopped, AgentsKept, history
<1>3. CASE SendTurn
  BY <1>1, <1>3 DEF SendTurn, AgentsKept, history, Process
<1>4. CASE SendFails
  BY <1>1, <1>4 DEF SendFails, AgentsKept, history, Process
<1>5. CASE InterruptTurn
  BY <1>1, <1>5 DEF InterruptTurn, AgentsKept, history, Process
<1>6. CASE RespondToRequest
  <2>1. \/ agents' = [agents EXCEPT ![owner].pending =
                         @ \ {reactor.intent.turn}]
        \/ agents' = agents
    BY <1>6 DEF RespondToRequest
  <2>2. owner' = owner /\ replaced' = replaced
    BY <1>6 DEF RespondToRequest, history
  <2> QED
    BY <1>1, <2>1, <2>2 DEF AgentsKept, Process
<1>7. ASSUME NEW p \in Agent, TakeTurn(p) PROVE AgentsKept
  <2>1. agents' = [agents EXCEPT
                      ![p].inbox = Tail(@),
                      ![p].turn = IF agents[p].turn = None
                                  THEN Head(agents[p].inbox) ELSE @]
    BY <1>7 DEF TakeTurn
  <2>2. owner' = owner /\ replaced' = replaced
    BY <1>7 DEF TakeTurn
  <2> QED
    BY <1>1, <2>1, <2>2 DEF AgentsKept, Process
<1>8. ASSUME NEW p \in Agent, RequestApproval(p) PROVE AgentsKept
  BY <1>1, <1>8 DEF RequestApproval, AgentsKept, history, Process
<1>9. ASSUME NEW p \in Agent, EndTurn(p) \/ FailTurn(p) PROVE AgentsKept
  <2>1. CASE EndTurn(p)
    BY <1>1, <2>1 DEF EndTurn, AgentsKept, history, Process
  <2>2. CASE FailTurn(p)
    BY <1>1, <2>2 DEF FailTurn, AgentsKept, history, Process
  <2> QED
    BY <1>9, <2>1, <2>2
<1> QED
  BY <1>2, <1>3, <1>4, <1>5, <1>6, <1>7, <1>8, <1>9

(* Where a process is killed, and nowhere else is one dead.                *)
LEMMA KillKeeps ==
    ASSUME TypeOK, NEW p \in Agent, Kill(p)
    PROVE  /\ agents'[p] = Dead
           /\ \A q \in Agent \ {p} : agents'[q] = agents[q]
  BY DEF Kill, TypeOK

ReachInv == Born /\ AgentsAreReachable

LEMMA ReachInit == Init => ReachInv
  BY DEF Init, ReachInv, Born, AgentsAreReachable, Alive, Unborn, None

LEMMA ReachStep == TypeOK /\ ReachInv /\ [Next]_vars => ReachInv'
<1> SUFFICES ASSUME TypeOK, ReachInv, [Next]_vars PROVE ReachInv'
  OBVIOUS
<1> USE DEF None, Overtaken
<1>1. /\ owner \in Agent \cup {None} /\ replaced \subseteq Agent
      /\ agents \in [Agent -> Process] /\ None \notin Agent
  BY DEF TypeOK, Agent
<1>2. CASE AgentsKept
  BY <1>1, <1>2 DEF AgentsKept, ReachInv, Born, AgentsAreReachable, Alive
<1>3. ASSUME NEW p \in Agent, Spawn(p) PROVE ReachInv'
  <2>1. /\ agents'[p].state = "starting" /\ owner' = p
        /\ replaced' = replaced \cup ({owner} \ {None})
        /\ \A q \in Agent \ {p} : agents'[q] = agents[q]
    BY <1>1, <1>3 DEF Spawn, Unborn
  <2>2. p # owner /\ p \notin replaced
    BY <1>1, <1>3 DEF Spawn, Unborn, ReachInv, Born
  <2>3. Born'
    BY <1>1, <2>1, <2>2 DEF ReachInv, Born
  <2>4. AgentsAreReachable'
    BY <1>1, <2>1, <2>2 DEF ReachInv, AgentsAreReachable, Alive
  <2> QED
    BY <2>3, <2>4 DEF ReachInv
<1>4. ASSUME NEW p \in Agent, Opened(p) PROVE ReachInv'
  <2>1. /\ Alive(p) /\ agents'[p].state = "ready"
        /\ owner' = owner /\ replaced' = replaced
        /\ \A q \in Agent \ {p} : agents'[q] = agents[q]
    BY <1>1, <1>4 DEF Opened, Process
  <2> QED
    BY <1>1, <2>1 DEF ReachInv, Born, AgentsAreReachable, Alive
<1>5. ASSUME OpenFails \/ StopSession PROVE ReachInv'
  <2>1. owner' = None /\ replaced' = replaced
    BY <1>5 DEF OpenFails, StopSession, history
  <2>2. \/ owner = None /\ agents' = agents
        \/ owner # None /\ Kill(owner)
    BY <1>5 DEF OpenFails, StopSession
  <2>3. \A q \in Agent :
           \/ q # owner /\ agents'[q] = agents[q]
           \/ q = owner /\ agents'[q].state = "dead"
    BY <1>1, <2>2, KillKeeps DEF Dead, Unborn
  <2> QED
    BY <1>1, <2>1, <2>3 DEF ReachInv, Born, AgentsAreReachable, Alive
<1>6. ASSUME NEW p \in Agent, Exit(p) PROVE ReachInv'
  <2>1. /\ owner' = None /\ replaced' = replaced /\ Alive(p)
        /\ agents'[p].state = "dead"
        /\ \A q \in Agent \ {p} : agents'[q] = agents[q]
    BY <1>6, KillKeeps DEF Exit, Dead, Unborn
  <2>2. Born'
    BY <1>1, <2>1 DEF ReachInv, Born
  <2>3. ~ Alive(p)'
    BY <2>1 DEF Alive
  <2>4. AgentsAreReachable'
    <3> SUFFICES ASSUME NEW q \in Agent, Alive(q)'
                 PROVE  q \in replaced \/ \E r \in replaced : ~ Alive(r)'
      BY <2>1 DEF AgentsAreReachable
    <3>1. q # p /\ Alive(q)
      BY <2>1, <2>3 DEF Alive
    <3>2. CASE q # owner
      <4>1. q \in replaced \/ \E r \in replaced : ~ Alive(r)
        BY <3>1, <3>2 DEF ReachInv, AgentsAreReachable
      <4> QED
        BY <1>1, <2>1, <2>3, <4>1 DEF Alive
    <3>3. CASE q = owner
      \* Then p was replaced, or another that is dead was.
      <4>1. p \in replaced \/ \E r \in replaced : ~ Alive(r)
        BY <2>1, <3>1, <3>3 DEF ReachInv, AgentsAreReachable
      <4> QED
        BY <1>1, <2>1, <2>3, <4>1 DEF Alive
    <3> QED
      BY <3>2, <3>3
  <2> QED
    BY <2>2, <2>4 DEF ReachInv
<1>7. ASSUME Crash \/ Shutdown PROVE ReachInv'
  <2>1. /\ owner' = None /\ replaced' = replaced
        /\ \A q \in Agent :
              agents'[q].state = IF agents[q] = Unborn THEN "unborn" ELSE "dead"
    BY <1>7 DEF Crash, Shutdown, Down, Dead, Unborn
  <2>2. \A q \in replaced : agents[q] # Unborn
    BY DEF ReachInv, Born, Unborn
  <2>3. Born'
    BY <1>1, <2>1, <2>2 DEF Born
  <2>4. \A q \in Agent : ~ Alive(q)'
    BY <2>1 DEF Alive
  <2> QED
    BY <2>3, <2>4 DEF ReachInv, AgentsAreReachable
<1>8. CASE \/ AskTurn \/ Interrupt \/ Stop \/ SetRuntimeMode
           \/ \E t \in Turn : Answer(t)
           \/ ReadEvent \/ Ingest
           \/ \E p \in Agent : RuntimeError(p) \/ ThreadStarted(p)
           \/ UNCHANGED vars
  BY <1>2, <1>8, OutsideKeeps DEF AgentsKept
<1> QED
  BY <1>2, <1>3, <1>4, <1>5, <1>6, <1>7, <1>8, CallsKeep DEF Next, Reactor

(* A process that lives can be interrupted and stopped through its thread, *)
(* but for those that were replaced, and those that the exit of a replaced *)
(* one made unreachable.                                                   *)
THEOREM EveryAgentIsReachable == Spec => []AgentsAreReachable
<1>1. TypeOK /\ ReachInv /\ [Next]_vars => (TypeOK /\ ReachInv)'
  BY TypeStep, ReachStep
<1>2. ReachInv => AgentsAreReachable
  BY DEF ReachInv
<1> QED
  BY <1>1, <1>2, InitTypes, ReachInit, PTL DEF Spec

-----------------------------------------------------------------------------
(* The conversation is kept.                                               *)

\* An agent that is ready has a conversation.
Talking == \A p \in Agent : agents[p].state = "ready" => agents[p].talk # None

(* While an agent is started nothing else is: until it is open it takes no *)
(* turn, and what it is to resume is what the live session would go on     *)
(* with.                                                                   *)
Starting ==
    /\ reactor.at \in {"opening", "record", "sent"} =>
          owner \in {None, reactor.agent}
    /\ reactor.at = "opening" => agents[reactor.agent].state # "ready"
    /\ reactor.at \in {"opening", "record"} => agents[reactor.agent].inbox = <<>>
    /\ reactor.at = "start" /\ owner # None /\ agents[owner].talk # None =>
          reactor.cursor = agents[owner].talk
    /\ reactor.at = "record" =>
          agents[reactor.agent].talk \in {None, reactor.cursor}

\* The database has the conversation of the live session.
Binds ==
    owner # None /\ agents[owner].talk # None /\ reactor.at # "record" =>
       binding.cursor = agents[owner].talk

(* The conversation that must go on is the one in the database, of the     *)
(* live session, of the agent a turn was sent to, and of the start.        *)
Keeps ==
    lastTalk # None =>
       /\ binding.cursor = lastTalk
       /\ owner # None => agents[owner].talk \in {None, lastTalk}
       /\ reactor.at = "sent" =>
             agents[reactor.agent].talk \in {None, lastTalk}
       /\ reactor.at \in {"start", "opening", "record"} =>
             reactor.cursor = lastTalk

TalkInv == Talking /\ Starting /\ Binds /\ Keeps

LEMMA TalkInit == Init => TalkInv
  BY DEF Init, TalkInv, Talking, Starting, Binds, Keeps, Unborn, Idle

\* What the reactor does when no start and no turn is under way.
Calm == {"idle", "use", "call", "stop", "stopped", "report", "bind"}

(* Every step but a start's, a turn's and an end keeps the invariant.      *)
LEMMA CalmTalk ==
    ASSUME TypeOK, TalkInv, AgentsKept,
           binding' = binding, lastTalk' = lastTalk,
           reactor.at # "record", reactor'.at \in Calm
    PROVE  TalkInv'
<1>1. /\ owner \in Agent \cup {None} /\ None \notin Agent
      /\ reactor'.at \notin {"start", "opening", "record", "sent"}
  BY DEF TypeOK, Agent, None, Calm
<1>2. Talking'
  BY DEF TalkInv, Talking, AgentsKept
<1>3. Starting'
  BY <1>1 DEF Starting
<1>4. Binds'
  BY <1>1 DEF TalkInv, Binds, AgentsKept
<1>5. Keeps'
  BY <1>1 DEF TalkInv, Keeps, AgentsKept
<1> QED
  BY <1>2, <1>3, <1>4, <1>5 DEF TalkInv

(* Where the reactor is after a step that starts nothing.                  *)
LEMMA CalmSteps ==
    ASSUME TypeOK,
           \/ SpawnFails \/ Bind \/ RouteFails \/ SendFails \/ SendTimesOut
           \/ Report \/ InterruptTurn \/ RespondToRequest \/ SetStopped
    PROVE  /\ reactor.at # "record" /\ reactor'.at \in Calm
           /\ binding' = binding /\ lastTalk' = lastTalk
<1>1. /\ Done => reactor'.at \in Calm
      /\ Fail => reactor'.at \in Calm
      /\ Goto("use") => reactor'.at \in Calm
  BY DEF Done, Idle, Fail, Goto, Calm
<1>2. CASE SpawnFails \/ Bind \/ RouteFails \/ SendFails \/ SendTimesOut
  BY <1>1, <1>2
     DEF SpawnFails, Bind, RouteFails, SendFails, SendTimesOut, history
<1>3. CASE Report \/ InterruptTurn \/ RespondToRequest \/ SetStopped
  BY <1>1, <1>3
     DEF Report, InterruptTurn, RespondToRequest, SetStopped, Calls, history
<1> QED
  BY <1>2, <1>3

(* Steps that the reactor has no part in.                                  *)
LEMMA StillTalk ==
    ASSUME TypeOK, TalkInv, AgentsKept,
           reactor' = reactor, binding' = binding, lastTalk' = lastTalk,
           \A p \in Agent : agents'[p].inbox = agents[p].inbox
    PROVE  TalkInv'
<1>1. /\ owner \in Agent \cup {None} /\ None \notin Agent
      /\ reactor.at \in {"opening", "record", "sent"} =>
            reactor.agent \in Agent
  BY StepTypes DEF TypeOK, Agent, None
<1>2. Talking'
  BY DEF TalkInv, Talking, AgentsKept
<1>3. Starting'
  BY <1>1 DEF TalkInv, Starting, AgentsKept
<1>4. Binds'
  BY <1>1 DEF TalkInv, Binds, AgentsKept
<1>5. Keeps'
  BY <1>1 DEF TalkInv, Keeps, AgentsKept
<1> QED
  BY <1>2, <1>3, <1>4, <1>5 DEF TalkInv

(* What is resumed is the conversation that must go on.                    *)
LEMMA TakeTalk ==
    ASSUME TypeOK, TalkInv, Take \/ Recover
    PROVE  TalkInv'
<1>1. /\ owner \in Agent \cup {None} /\ None \notin Agent
      /\ AgentsKept /\ binding' = binding /\ lastTalk' = lastTalk
      /\ reactor.at # "record"
  <2>1. owner \in Agent \cup {None} /\ None \notin Agent
    BY DEF TypeOK, Agent, None
  <2>2. AgentsKept
    BY CallsKeep
  <2>3. /\ binding' = binding /\ lastTalk' = lastTalk
        /\ reactor.at # "record"
    <3>1. CASE Take
      BY <3>1 DEF Take, Idle
    <3>2. CASE Recover
      BY <3>2 DEF Recover, history
    <3> QED
      BY <3>1, <3>2
  <2> QED
    BY <2>1, <2>2, <2>3
<1>2. \/ reactor'.at \in Calm
      \/ /\ reactor'.at = "start"
         /\ \/ reactor'.cursor = ResumeCursor
            \/ owner = None /\ reactor'.cursor = binding.cursor
  BY DEF Take, Recover, Start, Calm, Done, Idle
<1>3. CASE reactor'.at \in Calm
  BY <1>1, <1>3, CalmTalk
<1>4. CASE /\ reactor'.at = "start"
           /\ \/ reactor'.cursor = ResumeCursor
              \/ owner = None /\ reactor'.cursor = binding.cursor
  <2>1. owner # None /\ agents[owner].talk # None =>
           reactor'.cursor = agents[owner].talk
    BY <1>1, <1>4 DEF TalkInv, Binds, ResumeCursor, Existing
  <2>2. lastTalk # None => reactor'.cursor = lastTalk
    BY <1>1, <1>4 DEF TalkInv, Keeps, ResumeCursor, Existing
  <2>3. Talking'
    BY <1>1 DEF TalkInv, Talking, AgentsKept
  <2>4. Starting'
    BY <1>1, <1>4, <2>1 DEF Starting, AgentsKept
  <2>5. Binds'
    BY <1>1, <1>4 DEF TalkInv, Binds, AgentsKept
  <2>6. Keeps'
    BY <1>1, <1>4, <2>2 DEF TalkInv, Keeps, AgentsKept
  <2> QED
    BY <2>3, <2>4, <2>5, <2>6 DEF TalkInv
<1> QED
  BY <1>2, <1>3, <1>4

(* A spawned agent has no conversation yet.                                *)
LEMMA SpawnTalk ==
    ASSUME TypeOK, TalkInv, NEW p \in Agent, Spawn(p)
    PROVE  TalkInv'
<1>1. /\ agents'[p].state = "starting" /\ agents'[p].talk = None
      /\ agents'[p].inbox = <<>>
      /\ \A q \in Agent \ {p} : agents'[q] = agents[q]
      /\ owner' = p /\ binding' = binding /\ lastTalk' = lastTalk
  BY DEF Spawn, Unborn, TypeOK
<1>2. /\ reactor.at = "start" /\ reactor'.at = "opening"
      /\ reactor'.agent = p /\ reactor'.cursor = reactor.cursor
  <2>1. reactor \in [at : {"start"}, intent : Intent, agent : {None},
                     asking : BOOLEAN, cursor : Agent \cup {None},
                     bind : BOOLEAN]
    BY DEF Spawn, TypeOK, Step, Idle
  <2> QED
    BY <2>1 DEF Spawn
<1>3. Talking'
  BY <1>1 DEF TalkInv, Talking
<1>4. Starting'
  BY <1>1, <1>2 DEF Starting
<1>5. Binds'
  BY <1>1 DEF Binds
<1>6. Keeps'
  BY <1>1, <1>2 DEF TalkInv, Keeps
<1> QED
  BY <1>3, <1>4, <1>5, <1>6 DEF TalkInv

(* It opens the one it is to resume, or one that need not be kept.         *)
LEMMA OpenedTalk ==
    ASSUME TypeOK, TalkInv, NEW p \in Agent, Opened(p)
    PROVE  TalkInv'
<1>1. reactor \in Step /\ reactor.at = "opening" /\ reactor.agent = p
  BY DEF Opened, TypeOK
<1>2. PICK talk \in {p, reactor.cursor} \ {None} :
         /\ agents' = [agents EXCEPT ![p].state = "ready", ![p].talk = talk]
         /\ reactor' = [reactor EXCEPT !.at = "record", !.cursor = talk]
         /\ lastTalk' = IF talk = reactor.cursor \/ reactor.cursor = None
                        THEN lastTalk ELSE None
  BY DEF Opened
<1>3. /\ agents'[p].talk = talk /\ agents'[p].inbox = agents[p].inbox
      /\ \A q \in Agent \ {p} : agents'[q] = agents[q]
  BY <1>2 DEF TypeOK, Process
<1>4. reactor'.at = "record" /\ reactor'.agent = p /\ reactor'.cursor = talk
  <2>1. reactor \in [at : {"opening", "record", "bind"}, intent : Intent,
                     agent : Agent, asking : BOOLEAN,
                     cursor : Agent \cup {None}, bind : BOOLEAN]
    BY <1>1 DEF Step, Idle
  <2> QED
    BY <1>1, <1>2, <2>1
<1>5. /\ owner' = owner /\ binding' = binding /\ owner \in {None, p}
      /\ agents[p].inbox = <<>>
  BY <1>1 DEF Opened, TalkInv, Starting
<1>6. lastTalk' # None => lastTalk' = lastTalk /\ talk = lastTalk
  BY <1>1, <1>2 DEF TalkInv, Keeps
<1>7. Talking'
  BY <1>2, <1>3 DEF TalkInv, Talking
<1>8. Starting'
  BY <1>3, <1>4, <1>5 DEF Starting
<1>9. Binds'
  BY <1>4 DEF Binds
<1>10. Keeps'
  BY <1>3, <1>4, <1>5, <1>6 DEF TalkInv, Keeps
<1> QED
  BY <1>7, <1>8, <1>9, <1>10 DEF TalkInv

(* What was opened is written to the database.                             *)
LEMMA RecordTalk ==
    ASSUME TypeOK, TalkInv, Record
    PROVE  TalkInv'
<1>1. AgentsKept
  BY CallsKeep
<1>2. /\ owner \in Agent \cup {None} /\ None \notin Agent
      /\ reactor \in Step /\ reactor.at = "record"
  BY DEF TypeOK, Record, Agent, None
<1>3. reactor'.at \in Calm
  <2>1. reactor \in [at : {"opening", "record", "bind"}, intent : Intent,
                     agent : Agent, asking : BOOLEAN,
                     cursor : Agent \cup {None}, bind : BOOLEAN]
    BY <1>2 DEF Step, Idle
  <2>2. \/ reactor' = [reactor EXCEPT !.at = "bind", !.cursor = None]
        \/ reactor' = [at |-> "call", intent |-> reactor.intent]
    BY DEF Record, Goto
  <2>3. CASE reactor' = [reactor EXCEPT !.at = "bind", !.cursor = None]
    BY <2>1, <2>3 DEF Calm
  <2>4. CASE reactor' = [at |-> "call", intent |-> reactor.intent]
    BY <2>4 DEF Calm
  <2> QED
    BY <2>2, <2>3, <2>4
<1>4. binding'.cursor = reactor.cursor /\ lastTalk' = lastTalk
  BY DEF Record, history
<1>5. Talking'
  BY <1>1 DEF TalkInv, Talking, AgentsKept
<1>6. Starting'
  BY <1>3 DEF Starting, Calm
<1>7. Binds'
  BY <1>1, <1>2, <1>4 DEF TalkInv, Starting, Binds, AgentsKept
<1>8. Keeps'
  BY <1>1, <1>2, <1>3, <1>4 DEF TalkInv, Keeps, AgentsKept, Calm
<1> QED
  BY <1>5, <1>6, <1>7, <1>8 DEF TalkInv

(* A turn is sent to the live session.                                     *)
LEMMA SendTalk ==
    ASSUME TypeOK, TalkInv, SendTurn
    PROVE  TalkInv'
<1>1. AgentsKept
  BY CallsKeep
<1>2. /\ owner \in Agent /\ None \notin Agent
      /\ reactor.at \in {"use", "call"}
      /\ reactor'.at = "sent" /\ reactor'.agent = owner
      /\ binding' = binding /\ lastTalk' = lastTalk
  BY DEF TypeOK, SendTurn, Calls, Agent, None, history
<1>3. Talking'
  BY <1>1 DEF TalkInv, Talking, AgentsKept
<1>4. Starting'
  BY <1>1, <1>2 DEF Starting, AgentsKept
<1>5. Binds'
  BY <1>1, <1>2 DEF TalkInv, Binds, AgentsKept
<1>6. Keeps'
  BY <1>1, <1>2 DEF TalkInv, Keeps, AgentsKept
<1> QED
  BY <1>3, <1>4, <1>5, <1>6 DEF TalkInv

(* An agent takes a turn: this is where a conversation comes to be the one *)
(* that must go on.                                                        *)
LEMMA TurnTalk ==
    ASSUME TypeOK, TalkInv, NEW p \in Agent, TakeTurn(p)
    PROVE  /\ TalkInv'
           /\ p = owner /\ lastTalk # None => agents[p].talk = lastTalk
<1> DEFINE talk == agents[p].talk
<1>1. AgentsKept
  BY CallsKeep
<1>2. /\ owner \in Agent \cup {None} /\ None \notin Agent
      /\ reactor \in Step
      /\ reactor.at \in {"opening", "record", "sent"} =>
            reactor.agent \in Agent
  BY StepTypes DEF TypeOK, Agent, None
<1>3. talk # None
  BY DEF TakeTurn, TalkInv, Talking
<1>4. p = owner /\ lastTalk # None => talk = lastTalk
  BY <1>2, <1>3 DEF TalkInv, Keeps
<1>5. lastTalk' = IF p = owner THEN talk ELSE lastTalk
  BY DEF TakeTurn
<1>6. p = owner => reactor.at \notin {"opening", "record"}
  BY <1>2 DEF TakeTurn, TalkInv, Starting
<1>7. \/ /\ reactor.at = "sent" /\ reactor.agent = p
         /\ reactor' = Idle /\ binding' = [binding EXCEPT !.cursor = talk]
      \/ reactor' = reactor /\ binding' = binding
  BY DEF TakeTurn, Done
<1>8. \A q \in Agent \ {p} : agents'[q] = agents[q]
  BY DEF TakeTurn, TypeOK
<1> HIDE DEF talk
<1>9. CASE /\ reactor.at = "sent" /\ reactor.agent = p
           /\ reactor' = Idle /\ binding' = [binding EXCEPT !.cursor = talk]
  <2>1. /\ reactor'.at = "idle" /\ binding'.cursor = talk
        /\ owner \in {None, p}
    BY <1>9 DEF Idle, TypeOK, TalkInv, Starting
  <2>2. Talking'
    BY <1>1 DEF TalkInv, Talking, AgentsKept
  <2>3. Starting'
    BY <2>1 DEF Starting
  <2>4. Binds'
    BY <1>1, <1>2, <2>1 DEF Binds, AgentsKept, talk
  <2>5. Keeps'
    BY <1>1, <1>2, <1>3, <1>5, <1>9, <2>1 DEF TalkInv, Keeps, AgentsKept, talk
  <2> QED
    BY <1>4, <2>2, <2>3, <2>4, <2>5 DEF TalkInv, talk
<1>10. CASE reactor' = reactor /\ binding' = binding
  <2>1. Talking'
    BY <1>1 DEF TalkInv, Talking, AgentsKept
  <2>2. reactor.at \in {"opening", "record"} => reactor.agent # p
    BY DEF TakeTurn, TalkInv, Starting
  <2>3. Starting'
    BY <1>1, <1>2, <1>8, <1>10, <2>2 DEF TalkInv, Starting, AgentsKept
  <2>4. Binds'
    BY <1>1, <1>2, <1>10 DEF TalkInv, Binds, AgentsKept
  <2>5. CASE p # owner
    <3>1. lastTalk' = lastTalk
      BY <1>5, <2>5
    <3>2. Keeps'
      BY <1>1, <1>2, <1>10, <3>1 DEF TalkInv, Keeps, AgentsKept
    <3> QED
      BY <1>4, <2>1, <2>3, <2>4, <3>2 DEF TalkInv, talk
  <2>6. CASE p = owner
    <3>1. lastTalk' = talk /\ binding.cursor = talk
      BY <1>2, <1>3, <1>5, <1>6, <2>6 DEF TalkInv, Binds, talk
    <3>2. reactor.at = "sent" => reactor.agent = p
      BY <1>2, <2>6 DEF TalkInv, Starting
    <3>3. reactor.at = "start" => reactor.cursor = talk
      BY <1>2, <1>3, <2>6 DEF TalkInv, Starting, talk
    <3>4. Keeps'
      BY <1>1, <1>2, <1>6, <1>10, <2>6, <3>1, <3>2, <3>3
         DEF Keeps, AgentsKept, talk
    <3> QED
      BY <1>4, <2>1, <2>3, <2>4, <3>4 DEF TalkInv, talk
  <2> QED
    BY <2>5, <2>6
<1> QED
  BY <1>4, <1>7, <1>9, <1>10 DEF talk

(* A process that ends takes nothing with it.                              *)
LEMMA EndTalk ==
    ASSUME TypeOK, TalkInv,
           \/ OpenFails \/ StopSession \/ \E p \in Agent : Exit(p)
    PROVE  TalkInv'
<1>1. /\ owner \in Agent \cup {None} /\ None \notin Agent
      /\ reactor.at \in {"opening", "record", "sent"} =>
            reactor.agent \in Agent
  BY StepTypes DEF TypeOK, Agent, None
<1>2. owner' = None
  BY DEF OpenFails, StopSession, Exit
<1>3. \A q \in Agent : agents'[q] = agents[q] \/ agents'[q] = Dead
  <2>1. \/ agents' = agents
        \/ \E p \in Agent : Kill(p)
    BY <1>1 DEF OpenFails, StopSession, Exit
  <2> QED
    BY <2>1, KillKeeps
<1>4. Dead.state = "dead" /\ Dead.talk = None /\ Dead.inbox = <<>>
  BY DEF Dead, Unborn
<1>5. Talking'
  BY <1>3, <1>4 DEF TalkInv, Talking
<1>6. Binds'
  BY <1>2 DEF Binds
<1>7. CASE OpenFails
  <2>1. /\ reactor'.at \in Calm /\ binding' = binding
        /\ lastTalk' = lastTalk
    BY <1>7 DEF OpenFails, Fail, Goto, Done, Idle, Calm, history
  <2>2. Starting'
    BY <2>1 DEF Starting, Calm
  <2>3. Keeps'
    BY <1>2, <2>1 DEF TalkInv, Keeps, Calm
  <2> QED
    BY <1>5, <1>6, <2>2, <2>3 DEF TalkInv
<1>8. CASE StopSession
  <2>1. reactor'.at \in Calm /\ lastTalk' = None
    BY <1>8 DEF StopSession, Goto, Calm
  <2>2. Starting' /\ Keeps'
    BY <2>1 DEF Starting, Keeps, Calm
  <2> QED
    BY <1>5, <1>6, <2>2 DEF TalkInv
<1>9. CASE \E p \in Agent : Exit(p)
  <2>1. reactor' = reactor /\ binding' = binding /\ lastTalk' = lastTalk
    BY <1>9 DEF Exit
  <2>2. Starting'
    BY <1>1, <1>2, <1>3, <1>4, <2>1 DEF TalkInv, Starting
  <2>3. Keeps'
    BY <1>1, <1>2, <1>3, <1>4, <2>1 DEF TalkInv, Keeps
  <2> QED
    BY <1>5, <1>6, <2>2, <2>3 DEF TalkInv
<1> QED
  BY <1>7, <1>8, <1>9

(* The server goes down: the database has what must go on.                 *)
LEMMA DownTalk ==
    ASSUME TypeOK, TalkInv, Crash \/ Shutdown
    PROVE  TalkInv'
<1>1. /\ owner' = None /\ reactor'.at = "idle" /\ lastTalk' = lastTalk
      /\ \A p \in Agent : agents'[p].state # "ready"
  BY DEF Crash, Shutdown, Down, Unborn, Dead, Idle
<1>2. lastTalk # None => binding'.cursor = lastTalk
  <2>1. CASE Crash
    BY <2>1 DEF Crash, TalkInv, Keeps
  <2>2. CASE Shutdown
    BY <2>2 DEF Shutdown, TalkInv, Keeps
  <2> QED
    BY <2>1, <2>2
<1>3. Talking' /\ Starting' /\ Binds'
  BY <1>1 DEF Talking, Starting, Binds
<1>4. Keeps'
  BY <1>1, <1>2 DEF Keeps
<1> QED
  BY <1>3, <1>4 DEF TalkInv

LEMMA TalkStep == TypeOK /\ TalkInv /\ [Next]_vars => TalkInv'
<1> SUFFICES ASSUME TypeOK, TalkInv, [Next]_vars PROVE TalkInv'
  OBVIOUS
<1>1. CASE \/ AskTurn \/ Interrupt \/ Stop \/ SetRuntimeMode
           \/ \E t \in Turn : Answer(t)
           \/ ReadEvent \/ Ingest
           \/ \E p \in Agent : RuntimeError(p) \/ ThreadStarted(p)
           \/ UNCHANGED vars
  BY <1>1, OutsideKeeps, StillTalk DEF AgentsKept
<1>2. CASE \/ SpawnFails \/ Bind \/ RouteFails \/ SendFails \/ SendTimesOut
           \/ Report \/ InterruptTurn \/ RespondToRequest \/ SetStopped
  <2>1. AgentsKept
    BY <1>2, CallsKeep
  <2> QED
    BY <1>2, <2>1, CalmSteps, CalmTalk
<1>3. CASE Take \/ Recover \/ Record \/ SendTurn
  BY <1>3, TakeTalk, RecordTalk, SendTalk
<1>4. CASE \E p \in Agent : Spawn(p) \/ Opened(p) \/ TakeTurn(p)
  BY <1>4, SpawnTalk, OpenedTalk, TurnTalk
<1>5. CASE OpenFails \/ StopSession \/ \E p \in Agent : Exit(p)
  BY <1>5, EndTalk
<1>6. ASSUME NEW p \in Agent, RequestApproval(p) \/ EndTurn(p) \/ FailTurn(p)
      PROVE  TalkInv'
  <2>1. AgentsKept
    BY <1>6, CallsKeep
  <2>2. /\ agents \in [Agent -> Process]
        /\ reactor' = reactor /\ binding' = binding /\ lastTalk' = lastTalk
    BY <1>6 DEF RequestApproval, EndTurn, FailTurn, TypeOK, history
  <2>3. \A q \in Agent : agents'[q].inbox = agents[q].inbox
    <3>1. CASE RequestApproval(p)
      BY <2>2, <3>1 DEF RequestApproval, Process
    <3>2. CASE EndTurn(p) \/ FailTurn(p)
      BY <2>2, <3>2 DEF EndTurn, FailTurn, Process
    <3> QED
      BY <1>6, <3>1, <3>2
  <2> QED
    BY <2>1, <2>2, <2>3, StillTalk
<1>7. CASE Crash \/ Shutdown
  BY <1>7, DownTalk
<1> QED
  BY <1>1, <1>2, <1>3, <1>4, <1>5, <1>6, <1>7 DEF Next, Reactor

(* A turn goes on with the conversation of the turn before it, over        *)
(* restarts of the agent and of the server, unless the user stopped the    *)
(* session or the provider no longer has the conversation.                 *)
THEOREM TurnsKeepTheConversation == Spec => ConversationIsKept
<1> DEFINE Kept ==
      \A p \in Agent :
         TakeTurn(p) /\ p = owner /\ lastTalk # None =>
            agents[p].talk = lastTalk
<1>1. TypeOK /\ TalkInv /\ [Next]_vars => (TypeOK /\ TalkInv)'
  BY TypeStep, TalkStep
<1>2. TypeOK /\ TalkInv => [Kept]_vars
  BY TurnTalk
<1> QED
  BY <1>1, <1>2, InitTypes, TalkInit, PTL DEF Spec, ConversationIsKept

-----------------------------------------------------------------------------
(* What an agent waits for is shown.                                       *)

(* The turns of the events of a type that are on their way.                *)
Says(e, type, t) == e.type = type /\ e.turn = t
ToldIn(es, ing, type) ==
    {t \in Turn : \/ \E i \in 1..Len(es) : Says(es[i], type, t)
                  \/ ing.at = "read" /\ Says(ing.event, type, t)}
Told(type) == ToldIn(events, ingesting, type)

(* The turns whose approval the reactor is to pass on.                     *)
AnswersIn(is, r) ==
    {t \in Turn : \/ \E i \in 1..Len(is) : Says(is[i], "answer", t)
                  \/ r.at # "idle" /\ Says(r.intent, "answer", t)}
Answers == AnswersIn(intents, reactor)

(* What is answered is resolved in the table, for good, so that no agent   *)
(* asks again.                                                             *)
AnsweredOnce == \A t \in Told("resolved") \cup Answers : rows[t] = "resolved"

(* What the manager's agent waits for is open, or about to be, and nothing *)
(* that would close it is on its way.                                      *)
OwnerIsShown ==
    owner # None =>
       \A t \in agents[owner].pending :
          t \notin Told("resolved") /\ (prompts[t] = "open" \/ t \in Told("opened"))

WaitInv == AnsweredOnce /\ OwnerIsShown

LEMMA WaitInit == Init => WaitInv
  BY DEF Init, WaitInv, AnsweredOnce, OwnerIsShown, Told, ToldIn, Answers, AnswersIn, Idle

(* What is emitted is on its way.                                          *)
LEMMA EmitTold ==
    ASSUME events \in Seq(Event), NEW new \in Seq(Event), Emit(new),
           ingesting' = ingesting, NEW type
    PROVE  Told(type)' = Told(type)
              \cup {t \in Turn : \E i \in 1..Len(new) : Says(new[i], type, t)}
<1>1. events' = events \o new
  BY DEF Emit
<1>2. /\ Len(events') = Len(events) + Len(new)
      /\ \A i \in 1..Len(events) : events'[i] = events[i]
      /\ \A i \in 1..Len(new) : events'[Len(events) + i] = new[i]
      /\ Len(events) \in Nat /\ Len(new) \in Nat
  BY <1>1, ConcatProperties
<1>3. ASSUME NEW i \in 1..Len(events')
      PROVE  \/ i \in 1..Len(events)
             \/ i - Len(events) \in 1..Len(new)
                /\ events'[i] = new[i - Len(events)]
  <2>1. i > Len(events) => i - Len(events) \in 1..Len(new)
    BY <1>2, <1>3
  <2>2. i > Len(events) => events'[i] = new[i - Len(events)]
    BY <1>2, <2>1
  <2> QED
    BY <1>2, <1>3, <2>1, <2>2
<1>4. \A i \in 1..Len(events) : i \in 1..Len(events')
  BY <1>2
<1>5. \A i \in 1..Len(new) : Len(events) + i \in 1..Len(events')
  BY <1>2
<1>6. ASSUME NEW t
      PROVE  (\E i \in 1..Len(events') : Says(events'[i], type, t))
             <=> (\/ \E i \in 1..Len(events) : Says(events[i], type, t)
                  \/ \E i \in 1..Len(new) : Says(new[i], type, t))
  BY <1>2, <1>3, <1>4, <1>5
<1> QED
  BY <1>6 DEF Told, ToldIn, Says

(* Most of what is emitted is about no approval.                           *)
LEMMA EmitOther ==
    ASSUME events \in Seq(Event), NEW new \in Seq(Event), Emit(new),
           ingesting' = ingesting,
           \A i \in 1..Len(new) : new[i].type \notin {"opened", "resolved"}
    PROVE  Told("opened")' = Told("opened") /\ Told("resolved")' = Told("resolved")
<1>1. ASSUME NEW type \in {"opened", "resolved"} PROVE Told(type)' = Told(type)
  <2>1. Told(type)' = Told(type)
           \cup {t \in Turn : \E i \in 1..Len(new) : Says(new[i], type, t)}
    BY EmitTold
  <2>2. {t \in Turn : \E i \in 1..Len(new) : Says(new[i], type, t)} = {}
    BY DEF Says
  <2> QED
    BY <2>1, <2>2
<1> QED
  BY <1>1

LEMMA EmitOne ==
    ASSUME events \in Seq(Event), NEW e \in Event, Emit(<<e>>), ingesting' = ingesting,
           e.type \notin {"opened", "resolved"}
    PROVE  Told("opened")' = Told("opened") /\ Told("resolved")' = Told("resolved")
<1>1. <<e>> \in Seq(Event) /\ \A i \in 1..Len(<<e>>) : <<e>>[i] = e
  OBVIOUS
<1> QED
  BY <1>1, EmitOther

(* What is read is still on its way, what is ingested no longer.           *)
LEMMA ReadTold ==
    ASSUME TypeOK, ReadEvent, NEW type
    PROVE  Told(type)' = Told(type)
<1>1. /\ events \in Seq(Event) /\ events # <<>> /\ events' = Tail(events)
      /\ ingesting.at # "read" /\ ingesting'.at = "read"
      /\ ingesting'.event = events[1]
  BY DEF TypeOK, ReadEvent, Idle
<1>2. /\ Len(events) \in Nat \ {0} /\ Len(events') = Len(events) - 1
      /\ \A i \in 1..Len(events') : events'[i] = events[i + 1]
  BY <1>1, HeadTailProperties, EmptySeq
<1>3. \A i \in 1..Len(events) :
         i = 1 \/ (i - 1 \in 1..Len(events') /\ events'[i - 1] = events[i])
  BY <1>2
<1>4. \A i \in 1..Len(events') : i + 1 \in 1..Len(events)
  BY <1>2
<1>5. 1 \in 1..Len(events)
  BY <1>2
<1>6. ASSUME NEW t
      PROVE  (\E i \in 1..Len(events) : Says(events[i], type, t))
             <=> (\/ \E i \in 1..Len(events') : Says(events'[i], type, t)
                  \/ Says(events[1], type, t))
  BY <1>2, <1>3, <1>4, <1>5
<1>7. ASSUME NEW t \in Turn
      PROVE  t \in ToldIn(events', ingesting', type)
             <=> t \in ToldIn(events, ingesting, type)
  BY <1>1, <1>6 DEF ToldIn
<1> QED
  BY <1>7 DEF Told, ToldIn

LEMMA IngestTold ==
    ASSUME Ingest, NEW type, NEW t \in Turn
    PROVE  /\ t \in Told(type)' => t \in Told(type)
           /\ t \in Told(type) /\ ~ Says(ingesting.event, type, t) => t \in Told(type)'
<1>1. events' = events /\ ingesting'.at # "read"
  BY DEF Ingest, Idle
<1> QED
  BY <1>1 DEF Told, ToldIn, Says

(* A question that is asked adds to what the reactor has to do.            *)
LEMMA AskAnswers ==
    ASSUME intents \in Seq(Intent), NEW i \in Intent, Ask(i), reactor' = reactor,
           NEW t \in Turn, t \in Answers'
    PROVE  t \in Answers \/ Says(i, "answer", t)
<1>1. /\ Len(intents') = Len(intents) + 1 /\ intents'[Len(intents) + 1] = i
      /\ \A k \in 1..Len(intents) : intents'[k] = intents[k]
      /\ Len(intents) \in Nat
  BY AppendProperties DEF Ask
<1>2. \A k \in 1..Len(intents') : k \in 1..Len(intents) \/ k = Len(intents) + 1
  BY <1>1
<1>3. t \in AnswersIn(intents', reactor)
  BY DEF Answers
<1> QED
  BY <1>1, <1>2, <1>3 DEF Answers, AnswersIn

(* The intent is taken from the queue, and stays the reactor's until it is *)
(* done with.                                                              *)
LEMMA TakeAnswers ==
    ASSUME TypeOK, Take
    PROVE  Answers' \subseteq Answers
<1>1. /\ intents \in Seq(Intent) /\ intents # <<>> /\ intents' = Tail(intents)
      /\ reactor'.at = "idle" \/ reactor'.intent = intents[1]
  BY DEF TypeOK, Take, Start, Done, Idle
<1>2. /\ Len(intents) \in Nat \ {0} /\ Len(intents') = Len(intents) - 1
      /\ \A i \in 1..Len(intents') : intents'[i] = intents[i + 1]
  BY <1>1, HeadTailProperties, EmptySeq
<1>3. \A i \in 1..Len(intents') : i + 1 \in 1..Len(intents)
  BY <1>2
<1>4. 1 \in 1..Len(intents)
  BY <1>2
<1>5. ASSUME NEW t \in Turn, t \in AnswersIn(intents', reactor')
      PROVE  \E i \in 1..Len(intents) : Says(intents[i], "answer", t)
  <2>1. \/ \E i \in 1..Len(intents') : Says(intents'[i], "answer", t)
        \/ Says(intents[1], "answer", t)
    BY <1>1, <1>5 DEF AnswersIn
  <2> QED
    BY <1>2, <1>3, <1>4, <2>1
<1>6. ASSUME NEW t \in AnswersIn(intents', reactor') PROVE t \in AnswersIn(intents, reactor)
  <2>1. t \in Turn
    BY DEF AnswersIn
  <2> QED
    BY <1>5, <2>1 DEF AnswersIn
<1> QED
  BY <1>6 DEF Answers

LEMMA WorkAnswers ==
    ASSUME TypeOK,
           \/ SpawnFails \/ OpenFails \/ Record \/ Bind \/ Recover
           \/ RouteFails \/ SendTurn \/ SendFails \/ SendTimesOut \/ Report
           \/ InterruptTurn \/ RespondToRequest \/ StopSession \/ SetStopped
           \/ \E p \in Agent : Spawn(p) \/ Opened(p) \/ TakeTurn(p)
    PROVE  Answers' \subseteq Answers
<1>1. reactor \in Step
  BY DEF TypeOK
<1> DEFINE Goal == /\ intents' = intents
                   /\ \/ reactor'.at = "idle"
                      \/ reactor.at # "idle" /\ reactor'.intent = reactor.intent
                      \/ reactor' = reactor
<1>2. Goal => Answers' \subseteq Answers
  BY DEF Answers, AnswersIn
<1>3. /\ Done => reactor'.at = "idle"
      /\ \A at : Goto(at) => reactor'.intent = reactor.intent
      /\ Fail => reactor'.at = "idle" \/ reactor'.intent = reactor.intent
  BY DEF Done, Goto, Fail, Idle
<1>4. CASE \E p \in Agent : Spawn(p)
  <2>1. reactor.at = "start"
    BY <1>4 DEF Spawn
  <2>2. reactor \in [at : {"start"}, intent : Intent, agent : {None},
                     asking : BOOLEAN, cursor : Agent \cup {None}, bind : BOOLEAN]
    BY <1>1, <2>1 DEF Step, Idle
  <2> QED
    BY <1>2, <1>4, <2>1, <2>2 DEF Spawn
<1>5. CASE Record \/ \E p \in Agent : Opened(p)
  <2>1. reactor.at \in {"opening", "record"}
    BY <1>5 DEF Record, Opened
  <2>2. reactor \in [at : {"opening", "record", "bind"}, intent : Intent,
                     agent : Agent, asking : BOOLEAN,
                     cursor : Agent \cup {None}, bind : BOOLEAN]
    BY <1>1, <2>1 DEF Step, Idle
  <2>3. CASE Record
    BY <1>2, <1>3, <2>1, <2>2, <2>3 DEF Record
  <2>4. CASE \E p \in Agent : Opened(p)
    BY <1>2, <2>1, <2>2, <2>4 DEF Opened
  <2> QED
    BY <1>5, <2>3, <2>4
<1>6. CASE SpawnFails \/ OpenFails \/ Bind \/ Recover \/ RouteFails \/ SendTimesOut
  <2>1. Goal
    BY <1>3, <1>6 DEF SpawnFails, OpenFails, Bind, Recover, RouteFails, SendTimesOut, Start
  <2> QED
    BY <1>2, <2>1
<1>7. CASE SendTurn \/ SendFails \/ Report \/ InterruptTurn \/ RespondToRequest
  <2>1. Goal
    BY <1>3, <1>7 DEF SendTurn, SendFails, Report, InterruptTurn, RespondToRequest, Calls
  <2> QED
    BY <1>2, <2>1
<1>8. CASE StopSession \/ SetStopped \/ \E p \in Agent : TakeTurn(p)
  <2>1. Goal
    BY <1>3, <1>8 DEF StopSession, SetStopped, TakeTurn
  <2> QED
    BY <1>2, <2>1
<1> QED
  BY <1>4, <1>5, <1>6, <1>7, <1>8

(* Steps that ask, show and close nothing.                                 *)
LEMMA WaitKept ==
    ASSUME WaitInv,
           Told("opened")' = Told("opened"), Told("resolved")' = Told("resolved"),
           \A t \in Turn : t \in Answers' => t \in Answers \/ rows'[t] = "resolved",
           \A t \in Turn : rows[t] = "resolved" => rows'[t] = "resolved",
           \/ owner' = None
           \/ \A t \in agents'[owner'].pending :
                 /\ owner # None /\ t \in agents[owner].pending
                 /\ prompts[t] = "open" => prompts'[t] = "open"
    PROVE  WaitInv'
<1>1. \A t \in Answers' : t \in Turn
  BY DEF Answers, AnswersIn
<1>2. \A t \in Told("resolved") : t \in Turn
  BY DEF Told, ToldIn
<1>3. AnsweredOnce'
  BY <1>1, <1>2 DEF WaitInv, AnsweredOnce
<1>4. OwnerIsShown'
  BY DEF WaitInv, OwnerIsShown
<1> QED
  BY <1>3, <1>4 DEF WaitInv

(* The user's commands.                                                    *)
LEMMA CommandWait ==
    ASSUME TypeOK, WaitInv,
           AskTurn \/ Interrupt \/ Stop \/ SetRuntimeMode \/ \E t \in Turn : Answer(t)
    PROVE  WaitInv'
<1>1. /\ intents \in Seq(Intent) /\ rows \in [Turn -> {"none", "pending", "resolved"}]
      /\ asked' \in Turn => [type |-> "turn", turn |-> asked'] \in Intent
      /\ \A type \in {"interrupt", "stop", "mode"} : [type |-> type] \in Intent
      /\ \A t \in Turn : [type |-> "answer", turn |-> t] \in Intent
  BY DEF TypeOK, Intent, TurnIntent
<1>2. /\ reactor' = reactor /\ owner' = owner /\ agents' = agents /\ prompts' = prompts
      /\ events' = events /\ ingesting' = ingesting
  BY DEF AskTurn, Interrupt, Stop, SetRuntimeMode, AskTo, Answer, thread, pipeline
<1>3. Told("opened")' = Told("opened") /\ Told("resolved")' = Told("resolved")
  BY <1>2 DEF Told
<1>4. CASE AskTurn
  <2>1. asked' \in Turn /\ rows' = rows
    BY <1>4, SessionsAssumption DEF AskTurn, TypeOK, Turn, thread
  <2>2. Ask([type |-> "turn", turn |-> asked'])
    BY <1>4 DEF AskTurn
  <2>3. \A t \in Turn : t \in Answers' => t \in Answers
    BY <1>1, <1>2, <2>1, <2>2, AskAnswers DEF Says
  <2> QED
    BY <1>2, <1>3, <2>1, <2>3, WaitKept
<1>5. CASE Interrupt \/ Stop \/ SetRuntimeMode
  <2>1. PICK type \in {"interrupt", "stop", "mode"} : Ask([type |-> type])
    BY <1>5 DEF Interrupt, Stop, SetRuntimeMode, AskTo
  <2>2. rows' = rows
    BY <1>5 DEF Interrupt, Stop, SetRuntimeMode, AskTo
  <2>3. \A t \in Turn : t \in Answers' => t \in Answers
    BY <1>1, <1>2, <2>1, AskAnswers DEF Says
  <2> QED
    BY <1>2, <1>3, <2>2, <2>3, WaitKept
<1>6. ASSUME NEW s \in Turn, Answer(s) PROVE WaitInv'
  <2>1. Ask([type |-> "answer", turn |-> s]) /\ rows' = [rows EXCEPT ![s] = "resolved"]
    BY <1>6 DEF Answer
  <2>2. \A t \in Turn : t \in Answers' => t \in Answers \/ t = s
    BY <1>1, <1>2, <2>1, AskAnswers DEF Says
  <2>3. /\ rows'[s] = "resolved"
        /\ \A t \in Turn : rows[t] = "resolved" => rows'[t] = "resolved"
    BY <1>1, <2>1
  <2>4. \A t \in Turn : t \in Answers' => t \in Answers \/ rows'[t] = "resolved"
    BY <2>2, <2>3
  <2> QED
    BY <1>2, <1>3, <2>3, <2>4, WaitKept
<1> QED
  BY <1>4, <1>5, <1>6

(* Steps of the reactor that report nothing.                               *)
LEMMA SilentWait ==
    ASSUME TypeOK, WaitInv,
           \/ Take \/ Record \/ Bind \/ Recover \/ RouteFails \/ SendTurn
           \/ SendFails \/ SendTimesOut \/ Report \/ SetStopped \/ UNCHANGED vars
    PROVE  WaitInv'
<1>1. /\ agents \in [Agent -> Process] /\ owner \in Agent \cup {None}
  BY DEF TypeOK
<1>2. /\ owner' = owner /\ prompts' = prompts /\ rows' = rows
      /\ events' = events /\ ingesting' = ingesting
  BY DEF Take, Record, Bind, Recover, RouteFails, SendTurn, SendFails, SendTimesOut,
         Report, SetStopped, thread, pipeline, vars
<1>3. Told("opened")' = Told("opened") /\ Told("resolved")' = Told("resolved")
  BY <1>2 DEF Told
<1>4. Answers' \subseteq Answers
  <2>1. CASE UNCHANGED vars
    BY <2>1 DEF vars, Answers
  <2> QED
    BY <2>1, TakeAnswers, WorkAnswers
<1>5. \A p \in Agent : agents'[p].pending = agents[p].pending
  <2>1. CASE SendTurn
    BY <1>1, <2>1 DEF SendTurn, Process
  <2>2. CASE SendFails
    BY <1>1, <2>2 DEF SendFails, Process
  <2>3. CASE agents' = agents
    BY <2>3
  <2> QED
    BY <2>1, <2>2, <2>3 DEF Take, Record, Bind, Recover, RouteFails, SendTimesOut,
                             Report, SetStopped, vars
<1>6. \/ owner' = None
      \/ \A t \in agents'[owner'].pending : owner # None /\ t \in agents[owner].pending
  BY <1>1, <1>2, <1>5
<1> QED
  BY <1>2, <1>3, <1>4, <1>6, WaitKept

(* Steps that report something else than an approval.                      *)
LEMMA OtherReport ==
    ASSUME TypeOK,
           \/ SpawnFails \/ OpenFails \/ StopSession \/ InterruptTurn
           \/ \E p \in Agent :
                 \/ Spawn(p) \/ Opened(p) \/ TakeTurn(p) \/ EndTurn(p) \/ FailTurn(p)
                 \/ Exit(p) \/ RuntimeError(p) \/ ThreadStarted(p)
    PROVE  Told("opened")' = Told("opened") /\ Told("resolved")' = Told("resolved")
<1>1. /\ events \in Seq(Event) /\ agents \in [Agent -> Process]
      /\ owner \in Agent \cup {None}
  BY DEF TypeOK
<1>2. ingesting' = ingesting
  BY DEF SpawnFails, OpenFails, StopSession, InterruptTurn, Spawn, Opened, TakeTurn,
         EndTurn, FailTurn, Exit, RuntimeError, ThreadStarted
<1>3. /\ Error \in Event /\ Exited \in Event
      /\ \A s \in {"starting", "ready"} : State(s) \in Event /\ State(s).type = "state"
      /\ Error.type = "error" /\ Exited.type = "exited"
      /\ Announced \in Event /\ Announced.type = "announced"
      /\ \A type \in {"started", "completed", "failed", "turnError"} :
            \A p \in Agent, t \in Turn :
               About(type, p, t) \in Event /\ About(type, p, t).type = type
  BY EventTypes DEF State, Exited, Error, Announced, About
<1> DEFINE Same == Told("opened")' = Told("opened") /\ Told("resolved")' = Told("resolved")
<1>4. \A e \in Event : e.type \notin {"opened", "resolved"} /\ Emit(<<e>>) => Same
  BY <1>1, <1>2, EmitOne
<1>5. UNCHANGED events => Same
  BY <1>2 DEF Told
<1> HIDE DEF Same
<1>6. Emit(<<>>) => Same
  BY <1>1, <1>5 DEF Emit
<1>7. Emit(<<Error>>) \/ Emit(<<Exited>>) \/ Emit(<<Announced>>) => Same
  BY <1>3, <1>4
<1>8. \A s \in {"starting", "ready"} : Emit(<<State(s)>>) => Same
  BY <1>3, <1>4
<1>9. \A type \in {"started", "completed", "failed", "turnError"} :
         \A p \in Agent, t \in Turn : Emit(<<About(type, p, t)>>) => Same
  BY <1>3, <1>4
<1>10. Emit(<<Error, Exited>>) => Same
  <2>1. /\ <<Error, Exited>> \in Seq(Event)
        /\ \A i \in 1..Len(<<Error, Exited>>) :
              <<Error, Exited>>[i].type \notin {"opened", "resolved"}
    BY <1>3
  <2> QED
    BY <1>1, <1>2, <2>1, EmitOther DEF Same
<1>11. CASE \/ SpawnFails \/ OpenFails \/ StopSession
            \/ \E p \in Agent : Spawn(p) \/ Opened(p) \/ Exit(p) \/ ThreadStarted(p)
  BY <1>5, <1>7, <1>8, <1>10, <1>11
     DEF SpawnFails, OpenFails, StopSession, Spawn, Opened, Exit, ThreadStarted, Same
<1>12. CASE InterruptTurn
  <2>1. owner \in Agent
    BY <1>1, <1>12 DEF InterruptTurn, Calls
  <2>2. agents[owner].turn \in Turn \cup {None}
    BY <1>1, <2>1 DEF Process
  <2> QED
    BY <1>5, <1>9, <1>12, <2>1, <2>2 DEF InterruptTurn, Same
<1>13. ASSUME NEW p \in Agent, TakeTurn(p) PROVE Same
  <2>1. Head(agents[p].inbox) \in Turn
    BY <1>1, <1>13, HeadTailProperties DEF TakeTurn, Process
  <2> QED
    BY <1>6, <1>9, <1>13, <2>1 DEF TakeTurn
<1>14. ASSUME NEW p \in Agent, EndTurn(p) \/ FailTurn(p) \/ RuntimeError(p)
       PROVE  Same
  <2>1. agents[p].turn \in Turn \/ agents[p].turn = None
    BY <1>1 DEF Process
  <2>2. \/ Emit(<<Error>>)
        \/ /\ agents[p].turn # None
           /\ \E type \in {"completed", "failed", "turnError"} :
                 Emit(<<About(type, p, agents[p].turn)>>)
    BY <1>14 DEF EndTurn, FailTurn, RuntimeError
  <2> QED
    BY <1>7, <1>9, <2>1, <2>2
<1> QED
  BY <1>11, <1>12, <1>13, <1>14 DEF Same

LEMMA ReportWait ==
    ASSUME TypeOK, WaitInv,
           \/ SpawnFails \/ OpenFails \/ StopSession \/ InterruptTurn
           \/ \E p \in Agent :
                 \/ Spawn(p) \/ Opened(p) \/ TakeTurn(p) \/ EndTurn(p) \/ FailTurn(p)
                 \/ Exit(p) \/ RuntimeError(p) \/ ThreadStarted(p)
    PROVE  WaitInv'
<1>1. /\ agents \in [Agent -> Process] /\ owner \in Agent \cup {None}
  BY DEF TypeOK
<1>2. prompts' = prompts /\ rows' = rows
  BY DEF SpawnFails, OpenFails, StopSession, InterruptTurn, Spawn, Opened, TakeTurn,
         EndTurn, FailTurn, Exit, RuntimeError, ThreadStarted, thread
<1>3. Told("opened")' = Told("opened") /\ Told("resolved")' = Told("resolved")
  BY OtherReport
<1>4. Answers' \subseteq Answers
  <2>1. CASE \E p \in Agent : \/ EndTurn(p) \/ FailTurn(p) \/ Exit(p)
                             \/ RuntimeError(p) \/ ThreadStarted(p)
    BY <2>1 DEF EndTurn, FailTurn, Exit, RuntimeError, ThreadStarted, Answers
  <2> QED
    BY <2>1, WorkAnswers
<1> DEFINE Owned ==
      \/ owner' = None
      \/ \A t \in agents'[owner'].pending : owner # None /\ t \in agents[owner].pending
<1>5. owner' = owner /\ (\A p \in Agent : agents'[p].pending = agents[p].pending) => Owned
  BY <1>1
<1>6. ASSUME OpenFails \/ StopSession \/ \E p \in Agent : Exit(p) PROVE Owned
  BY <1>6 DEF OpenFails, StopSession, Exit
<1>7. ASSUME SpawnFails \/ InterruptTurn PROVE Owned
  <2>1. CASE SpawnFails
    BY <1>5, <2>1 DEF SpawnFails
  <2>2. CASE InterruptTurn
    BY <1>1, <1>5, <2>2 DEF InterruptTurn, Process
  <2> QED
    BY <1>7, <2>1, <2>2
<1>8. ASSUME NEW p \in Agent, Spawn(p) PROVE Owned
  BY <1>1, <1>8 DEF Spawn, Unborn
<1>9. ASSUME NEW p \in Agent,
             \/ Opened(p) \/ TakeTurn(p) \/ EndTurn(p) \/ FailTurn(p)
             \/ RuntimeError(p) \/ ThreadStarted(p)
      PROVE  Owned
  <2>1. CASE Opened(p)
    <3>1. PICK talk :
             agents' = [agents EXCEPT ![p].state = "ready", ![p].talk = talk]
      BY <2>1 DEF Opened
    <3>2. owner' = owner
      BY <2>1 DEF Opened
    <3>3. \A q \in Agent : agents'[q].pending = agents[q].pending
      BY <1>1, <3>1 DEF Process
    <3> QED
      BY <1>5, <3>2, <3>3
  <2>2. CASE TakeTurn(p)
    <3>1. agents' = [agents EXCEPT ![p].inbox = Tail(@),
                                   ![p].turn = IF agents[p].turn = None
                                               THEN Head(agents[p].inbox) ELSE @]
      BY <2>2 DEF TakeTurn
    <3>2. owner' = owner
      BY <2>2 DEF TakeTurn
    <3>3. \A q \in Agent : agents'[q].pending = agents[q].pending
      BY <1>1, <3>1 DEF Process
    <3> QED
      BY <1>5, <3>2, <3>3
  <2>3. CASE EndTurn(p)
    BY <1>1, <1>5, <2>3 DEF EndTurn, Process
  <2>4. CASE FailTurn(p)
    BY <1>1, <1>5, <2>4 DEF FailTurn, Process
  <2>5. CASE RuntimeError(p) \/ ThreadStarted(p)
    BY <1>5, <2>5, OutsideKeeps
  <2> QED
    BY <1>9, <2>1, <2>2, <2>3, <2>4, <2>5
<1>10. Owned
  BY <1>6, <1>7, <1>8, <1>9
<1> QED
  BY <1>2, <1>3, <1>4, <1>10, WaitKept

(* An answer that the agent waited for is reported, and the agent goes on. *)
(* A stale one closes a prompt that it does not wait for.                  *)
LEMMA RespondWait ==
    ASSUME TypeOK, WaitInv, RespondToRequest
    PROVE  WaitInv'
<1> DEFINE t == reactor.intent.turn
<1>1. /\ agents \in [Agent -> Process] /\ owner \in Agent /\ owner # None
      /\ reactor \in Step /\ reactor.at \in {"use", "call"}
      /\ reactor.intent.type = "answer"
      /\ events \in Seq(Event) /\ prompts \in [Turn -> {"none", "open", "closed"}]
  BY DEF TypeOK, RespondToRequest, Calls
<1>2. t \in Turn
  BY <1>1, StepTypes, IntentTypes
<1>3. owner' = owner /\ rows' = rows /\ ingesting' = ingesting /\ Answers' \subseteq Answers
  BY WorkAnswers DEF RespondToRequest
<1>4. t \in Answers
  BY <1>1, <1>2 DEF Answers, AnswersIn, Says
<1>5. rows[t] = "resolved"
  BY <1>4 DEF WaitInv, AnsweredOnce
<1>6. CASE t \in agents[owner].pending
  <2>1. /\ agents' = [agents EXCEPT ![owner].pending = @ \ {t}]
        /\ Emit(<<About("resolved", owner, t)>>) /\ prompts' = prompts
    BY <1>6 DEF RespondToRequest
  <2>2. agents'[owner].pending = agents[owner].pending \ {t}
    BY <1>1, <2>1 DEF Process
  <2>3. /\ <<About("resolved", owner, t)>> \in Seq(Event)
        /\ \A i \in 1..Len(<<About("resolved", owner, t)>>) :
              <<About("resolved", owner, t)>>[i] = About("resolved", owner, t)
    BY <1>1, <1>2, EventTypes
  <2> HIDE DEF t
  <2>4. \A type, s :
           Says(About("resolved", owner, t), type, s) <=> type = "resolved" /\ s = t
    BY DEF Says, About
  <2>5. /\ Told("opened")' = Told("opened") \cup
              {s \in Turn : \E i \in 1..Len(<<About("resolved", owner, t)>>) :
                               Says(<<About("resolved", owner, t)>>[i], "opened", s)}
        /\ Told("resolved")' = Told("resolved") \cup
              {s \in Turn : \E i \in 1..Len(<<About("resolved", owner, t)>>) :
                               Says(<<About("resolved", owner, t)>>[i], "resolved", s)}
    BY <1>1, <1>3, <2>1, <2>3, EmitTold
  <2>6. /\ Told("opened")' = Told("opened")
        /\ \A s \in Told("resolved")' : s \in Told("resolved") \/ s = t
    BY <2>3, <2>4, <2>5
  <2>7. AnsweredOnce'
    BY <1>3, <1>5, <2>6 DEF WaitInv, AnsweredOnce
  <2>8. OwnerIsShown'
    BY <1>1, <1>3, <2>1, <2>2, <2>6 DEF WaitInv, OwnerIsShown
  <2> QED
    BY <2>7, <2>8 DEF WaitInv
<1>7. CASE t \notin agents[owner].pending
  <2>1. agents' = agents /\ events' = events /\ prompts' = [prompts EXCEPT ![t] = "closed"]
    BY <1>7 DEF RespondToRequest
  <2>2. Told("opened")' = Told("opened") /\ Told("resolved")' = Told("resolved")
    BY <1>3, <2>1 DEF Told
  <2>3. \A s \in agents'[owner'].pending :
           /\ owner # None /\ s \in agents[owner].pending
           /\ prompts[s] = "open" => prompts'[s] = "open"
    <3>1. agents[owner].pending \subseteq Turn
      BY <1>1 DEF Process
    <3> QED
      BY <1>1, <1>3, <1>7, <2>1, <3>1
  <2> QED
    BY <1>3, <2>2, <2>3, WaitKept
<1> QED
  BY <1>6, <1>7

(* An agent asks once for each turn.                                       *)
LEMMA RequestWait ==
    ASSUME TypeOK, WaitInv, NEW p \in Agent, RequestApproval(p)
    PROVE  WaitInv'
<1> DEFINE t == agents[p].turn
<1>1. /\ agents \in [Agent -> Process] /\ owner \in Agent \cup {None}
      /\ events \in Seq(Event) /\ None \notin Agent
  BY DEF TypeOK, Agent, None
<1>2. /\ t \in Turn /\ rows[t] = "none"
      /\ agents' = [agents EXCEPT ![p].pending = @ \cup {t}]
      /\ Emit(<<About("opened", p, t)>>)
  BY <1>1 DEF RequestApproval, Process
<1>3. /\ owner' = owner /\ rows' = rows /\ prompts' = prompts /\ ingesting' = ingesting
      /\ Answers' = Answers
  BY DEF RequestApproval, thread, Answers
<1>4. /\ agents'[p].pending = agents[p].pending \cup {t}
      /\ \A q \in Agent \ {p} : agents'[q] = agents[q]
  BY <1>1, <1>2 DEF Process
<1>5. /\ <<About("opened", p, t)>> \in Seq(Event)
      /\ \A i \in 1..Len(<<About("opened", p, t)>>) :
            <<About("opened", p, t)>>[i] = About("opened", p, t)
      /\ 1 \in 1..Len(<<About("opened", p, t)>>)
  BY <1>2, EventTypes
<1> HIDE DEF t
<1>6. \A type, s : Says(About("opened", p, t), type, s) <=> type = "opened" /\ s = t
  BY DEF Says, About
<1>7. /\ Told("opened")' = Told("opened") \cup
            {s \in Turn : \E i \in 1..Len(<<About("opened", p, t)>>) :
                             Says(<<About("opened", p, t)>>[i], "opened", s)}
      /\ Told("resolved")' = Told("resolved") \cup
            {s \in Turn : \E i \in 1..Len(<<About("opened", p, t)>>) :
                             Says(<<About("opened", p, t)>>[i], "resolved", s)}
  BY <1>1, <1>2, <1>3, <1>5, EmitTold
<1>8. /\ Told("opened") \subseteq Told("opened")' /\ t \in Told("opened")'
      /\ Told("resolved")' = Told("resolved")
  BY <1>2, <1>5, <1>6, <1>7
<1>9. t \notin Told("resolved")
  BY <1>2 DEF WaitInv, AnsweredOnce
<1>10. AnsweredOnce'
  BY <1>3, <1>8 DEF WaitInv, AnsweredOnce
<1>11. OwnerIsShown'
  BY <1>1, <1>3, <1>4, <1>8, <1>9 DEF WaitInv, OwnerIsShown
<1> QED
  BY <1>10, <1>11 DEF WaitInv

(* The ingestion opens what was asked and closes what was answered.        *)
LEMMA IngestWait ==
    ASSUME TypeOK, WaitInv, Ingest
    PROVE  WaitInv'
<1> DEFINE e == ingesting.event
<1>1. /\ agents \in [Agent -> Process] /\ owner \in Agent \cup {None} /\ None \notin Agent
      /\ prompts \in [Turn -> {"none", "open", "closed"}]
      /\ rows \in [Turn -> {"none", "pending", "resolved"}]
      /\ ingesting.at = "read" /\ e \in Event
  BY DEF TypeOK, Ingest, Idle, Agent, None
<1>2. /\ owner' = owner /\ agents' = agents /\ intents' = intents /\ reactor' = reactor
  BY DEF Ingest
<1>3. Answers' = Answers
  BY <1>2 DEF Answers
<1>4. e.type \in {"opened", "resolved"} => e.turn \in Turn
  BY <1>1 DEF Event
<1>5. \/ prompts' = prompts /\ rows' = rows /\ e.type \in Lifecycle
      \/ /\ e.type = "opened" /\ prompts' = [prompts EXCEPT ![e.turn] = "open"]
         /\ rows' = [rows EXCEPT ![e.turn] = IF @ = "resolved" THEN @ ELSE "pending"]
      \/ /\ e.type = "resolved" /\ prompts' = [prompts EXCEPT ![e.turn] = "closed"]
         /\ rows' = [rows EXCEPT ![e.turn] = "resolved"]
  BY DEF Ingest, IngestLifecycle, SetError, IgnoreLifecycle, IngestApproval
<1>6. \A t \in Turn : t \in Told("resolved")' => t \in Told("resolved")
  BY IngestTold
<1>7. \A t \in Turn :
         t \in Told("opened") /\ ~ Says(e, "opened", t) => t \in Told("opened")'
  BY IngestTold
<1>8. \A t \in Turn : rows[t] = "resolved" => rows'[t] = "resolved"
  BY <1>1, <1>4, <1>5
<1>9. Told("resolved") \subseteq Turn /\ Told("resolved")' \subseteq Turn
  BY DEF Told, ToldIn
<1>10. Answers \subseteq Turn
  BY DEF Answers, AnswersIn
<1>11. e.type = "resolved" => e.turn \in Told("resolved")
  BY <1>1, <1>4 DEF Told, ToldIn, Says
<1> HIDE DEF e
<1>12. AnsweredOnce'
  BY <1>3, <1>6, <1>8, <1>9, <1>10 DEF WaitInv, AnsweredOnce
<1>13. OwnerIsShown'
  <2> SUFFICES ASSUME owner # None, NEW t \in agents[owner].pending
               PROVE  /\ t \notin Told("resolved")'
                      /\ prompts'[t] = "open" \/ t \in Told("opened")'
    BY <1>2 DEF OwnerIsShown
  <2>1. t \in Turn
    BY <1>1 DEF Process
  <2>2. t \notin Told("resolved") /\ (prompts[t] = "open" \/ t \in Told("opened"))
    BY DEF WaitInv, OwnerIsShown
  <2>3. t \notin Told("resolved")'
    BY <1>6, <2>1, <2>2
  <2>4. prompts[t] = "open" => prompts'[t] = "open"
    BY <1>1, <1>4, <1>5, <1>11, <2>1, <2>2
  <2>5. Says(e, "opened", t) => prompts'[t] = "open"
    BY <1>1, <1>5, <2>1 DEF Says, Lifecycle
  <2> QED
    BY <1>7, <2>1, <2>2, <2>3, <2>4, <2>5
<1> QED
  BY <1>12, <1>13 DEF WaitInv

LEMMA DownWait ==
    ASSUME TypeOK, WaitInv, Crash \/ Shutdown
    PROVE  WaitInv'
<1>1. /\ owner' = None /\ intents' = <<>> /\ events' = <<>>
      /\ ingesting'.at # "read" /\ reactor'.at = "idle"
  BY DEF Crash, Shutdown, Down, Idle
<1>2. Told("resolved")' = {} /\ Answers' = {}
  BY <1>1 DEF Told, ToldIn, Answers, AnswersIn
<1> QED
  BY <1>1, <1>2 DEF WaitInv, AnsweredOnce, OwnerIsShown

LEMMA ReadWait ==
    ASSUME TypeOK, WaitInv, ReadEvent
    PROVE  WaitInv'
<1>1. /\ owner' = owner /\ agents' = agents /\ prompts' = prompts /\ rows' = rows
      /\ Answers' = Answers
  BY DEF ReadEvent, thread, Answers
<1>2. Told("opened")' = Told("opened") /\ Told("resolved")' = Told("resolved")
  BY ReadTold
<1> QED
  BY <1>1, <1>2, WaitKept

LEMMA WaitStep == TypeOK /\ WaitInv /\ [Next]_vars => WaitInv'
<1> SUFFICES ASSUME TypeOK, WaitInv, [Next]_vars PROVE WaitInv'
  OBVIOUS
<1>1. CASE AskTurn \/ Interrupt \/ Stop \/ SetRuntimeMode \/ \E t \in Turn : Answer(t)
  BY <1>1, CommandWait
<1>2. CASE Reactor
  <2>1. CASE \/ Take \/ Record \/ Bind \/ Recover \/ RouteFails \/ SendTurn
             \/ SendFails \/ SendTimesOut \/ Report \/ SetStopped
    BY <2>1, SilentWait
  <2>2. CASE \/ SpawnFails \/ OpenFails \/ StopSession \/ InterruptTurn
             \/ \E p \in Agent : Spawn(p) \/ Opened(p)
    BY <2>2, ReportWait
  <2> QED
    BY <1>2, <2>1, <2>2, RespondWait DEF Reactor
<1>3. CASE \E p \in Agent : \/ TakeTurn(p) \/ EndTurn(p) \/ FailTurn(p) \/ Exit(p)
                           \/ RuntimeError(p) \/ ThreadStarted(p)
  BY <1>3, ReportWait
<1>4. CASE \E p \in Agent : RequestApproval(p)
  BY <1>4, RequestWait
<1>5. CASE ReadEvent \/ Ingest
  BY <1>5, ReadWait, IngestWait
<1>6. CASE Crash \/ Shutdown
  BY <1>6, DownWait
<1>7. CASE UNCHANGED vars
  BY <1>7, SilentWait
<1> QED
  BY <1>1, <1>2, <1>3, <1>4, <1>5, <1>6, <1>7 DEF Next

(* The user can see what an agent waits for, unless it is overtaken: an    *)
(* agent that lives is then the manager's, and of that one nothing that it *)
(* still waits for is closed.                                              *)
THEOREM WhatWaitsIsShown == Spec => []WaitingIsShown
<1>1. TypeOK /\ ReachInv /\ WaitInv /\ [Next]_vars => (TypeOK /\ ReachInv /\ WaitInv)'
  BY TypeStep, ReachStep, WaitStep
<1>2. TypeOK /\ ReachInv /\ WaitInv => WaitingIsShown
  <2> SUFFICES ASSUME TypeOK, ReachInv, WaitInv, Quiet, NEW p \in Agent,
                      Alive(p), Waits(p), ~ Overtaken(p)
               PROVE  prompts[agents[p].turn] = "open"
    BY DEF WaitingIsShown
  <2>1. p = owner /\ owner # None /\ agents[p].turn \in agents[owner].pending
    BY DEF ReachInv, AgentsAreReachable, Waits, Agent, None
  <2>2. Told("opened") = {}
    BY DEF Quiet, Told, ToldIn, Idle
  <2> QED
    BY <2>1, <2>2 DEF WaitInv, OwnerIsShown
<1> QED
  BY <1>1, <1>2, InitTypes, ReachInit, WaitInit, PTL DEF Spec

-----------------------------------------------------------------------------
(* What the session shows in the end.                                      *)

LEMMA LeastOf ==
    ASSUME NEW S \in SUBSET Nat, S # {}
    PROVE  \E x \in S : \A y \in S : x <= y
<1> DEFINE R == OpToRel(<, Nat)
<1>1. \E x \in S : \A y \in S : ~ (<<y, x>> \in R)
  <2>1. IsWellFoundedOn(R, Nat)
    BY NatLessThanWellFounded
  <2> HIDE DEF R
  <2> QED
    BY <2>1, WFMin
<1>2. \A x, y \in Nat : ~ (<<y, x>> \in R) => x <= y
  BY DEF OpToRel
<1> QED
  BY <1>1, <1>2

(* What the session shows of turns, and how an event changes it.  There is *)
(* no such change where the start of a replaced agent's turn, or an error  *)
(* in it, applies: that will disturb the session.                          *)
Views == [turn : Turn \cup {None}, running : BOOLEAN]
NoTurn == [turn |-> None, running |-> FALSE]
Clears(e) == e.type \in {"exited", "error"}
Names(e) == e.type \in {"started", "turnError"}

Moves(e, v, w, rep) ==
    /\ e.type = "state" => w = [turn |-> v.turn, running |-> FALSE]
    /\ Clears(e) => w = NoTurn
    /\ e.type \in {"opened", "resolved"} => w = v
    /\ e.type = "announced" => w = [turn |-> v.turn, running |-> v.turn # None]
    /\ Names(e) =>
          IF v.turn \in {None, e.turn}
          THEN e.agent \notin rep /\ w = [turn |-> e.turn,
                                         running |-> e.type = "started"]
          ELSE w = v
    /\ e.type \in {"completed", "failed"} =>
          IF v.turn \in {None, e.turn} THEN w = NoTurn ELSE w = v

(* Whether the event that was read will be written to the session, and     *)
(* what the session shows then; if it has changed since, it is disturbed.  *)
Applies(ing) ==
    /\ ing.at = "read" /\ ing.event.type \in Lifecycle
    /\ ing.event.type \in {"started", "completed", "failed", "turnError"} =>
          ing.turn \in {None, ing.event.turn}
Begins(w, view, ing, rep) ==
    IF Applies(ing) THEN ing.turn = view.turn /\ Moves(ing.event, view, w, rep)
    ELSE w = view

(* What the session shows after each of the events that are on their way.  *)
Traces(view, ing, es, rep) ==
    {T \in [0..Len(es) -> Views] :
       /\ Begins(T[0], view, ing, rep)
       /\ \A k \in 1..Len(es) : Moves(es[k], T[k - 1], T[k], rep)}

(* A turn that is named and is not going on is followed by what ends it.   *)
Followed(es, ing, rep, own) ==
    /\ \A k \in 1..Len(es) :
          Names(es[k]) =>
             \/ es[k].agent = own \/ es[k].agent \in rep
             \/ \E j \in (k + 1)..Len(es) : Clears(es[j])
    /\ ing.at = "read" /\ Names(ing.event) =>
          \/ ing.event.agent = own \/ ing.event.agent \in rep
          \/ \E j \in 1..Len(es) : Clears(es[j])

LEMMA EventFields ==
    ASSUME NEW e \in Event
    PROVE  /\ e.type \in {"state", "exited", "error", "announced", "started",
                          "completed", "failed", "turnError", "opened", "resolved"}
           /\ e.type \in {"started", "completed", "failed", "turnError", "opened",
                          "resolved"} => e.agent \in Agent /\ e.turn \in Turn
           /\ e.type = "state" => e.state \in {"starting", "ready"}
  BY DEF Event

(* A session without a turn gets one from an event that names it only.     *)
LEMMA QuietMoves ==
    ASSUME NEW e, NEW w, NEW rep, Moves(e, NoTurn, w, rep),
           e.type \in {"state", "exited", "error", "announced", "started",
                      "completed", "failed", "turnError", "opened", "resolved"},
           Names(e) => e.agent \in rep
    PROVE  w = NoTurn
<1>1. NoTurn.turn = None /\ (None # None) = FALSE
  BY DEF NoTurn
<1>2. CASE Names(e)
  BY <1>1, <1>2 DEF Moves
<1>3. CASE e.type = "announced"
  BY <1>1, <1>3 DEF Moves, NoTurn
<1>4. CASE ~ Names(e) /\ e.type # "announced"
  BY <1>1, <1>4 DEF Moves, NoTurn, Names, Clears
<1> QED
  BY <1>2, <1>3, <1>4

(* From a session without a turn, nothing is left of turns that were       *)
(* followed by what ends them.                                             *)
LEMMA Calmed ==
    ASSUME NEW es \in Seq(Event), NEW rep, NEW ing, ing.at = "read" => ing.event \in Event,
           NEW own, Followed(es, ing, rep, own),
           \A k \in 1..Len(es) : Names(es[k]) => es[k].agent # own,
           ing.at = "read" /\ Names(ing.event) => ing.event.agent # own,
           NEW T \in Traces(NoTurn, ing, es, rep)
    PROVE  T[Len(es)] = NoTurn
<1> DEFINE n == Len(es)
           Later(k) == \E j \in (k + 1)..n : Clears(es[j])
           Bad == {k \in 0..n : T[k] # NoTurn /\ ~ Later(k)}
<1>1. n \in Nat /\ \A k \in 1..n : es[k] \in Event
  BY ElementOfSeq
<1>2. ASSUME Bad # {} PROVE FALSE
  <2>1. Bad \in SUBSET Nat
    BY <1>1
  <2>2. PICK k \in Bad : \A y \in Bad : k <= y
    BY <1>2, <2>1, LeastOf
  <2>3. k \in 0..n /\ T[k] # NoTurn /\ ~ Later(k)
    OBVIOUS
  <2>4. CASE k = 0
    <3>1. Begins(T[0], NoTurn, ing, rep)
      BY DEF Traces
    <3>2. Applies(ing) /\ Moves(ing.event, NoTurn, T[0], rep)
      BY <2>3, <2>4, <3>1 DEF Begins
    <3>3. Names(ing.event) => ing.event.agent \in rep
      BY <2>3, <2>4, <3>2 DEF Followed, Applies
    <3>4. ing.event \in Event /\ ing.at = "read"
      BY <3>2 DEF Applies
    <3>5. ing.event.type \in {"state", "exited", "error", "announced", "started",
                               "completed", "failed", "turnError"}
      BY <3>2 DEF Applies, Lifecycle
    <3>6. NoTurn.turn = None
      BY DEF NoTurn
    <3> QED
      BY <2>3, <2>4, <3>2, <3>3, <3>5, <3>6, QuietMoves
  <2>5. CASE k # 0
    <3>1. k \in 1..n /\ k - 1 \in 0..n /\ k - 1 < k /\ k \in Nat
      BY <1>1, <2>3, <2>5
    <3>2. k - 1 \notin Bad
      BY <2>2, <3>1
    <3>3. Moves(es[k], T[k - 1], T[k], rep)
      BY <3>1 DEF Traces
    <3>4. es[k] \in Event
      BY <1>1, <3>1
    <3>5. CASE T[k - 1] = NoTurn
      <4>1. Names(es[k]) => es[k].agent \in rep
        BY <2>3, <3>1 DEF Followed
      <4> QED
        BY <2>3, <3>3, <3>4, <3>5, <4>1, EventFields, QuietMoves
    <3>6. CASE Later(k - 1)
      <4>1. PICK j \in k..n : Clears(es[j])
        BY <3>1, <3>6
      <4>2. j = k
        BY <1>1, <2>3, <3>1, <4>1
      <4> QED
        BY <2>3, <3>3, <4>1, <4>2 DEF Moves
    <3> QED
      BY <3>1, <3>2, <3>5, <3>6
  <2> QED
    BY <2>4, <2>5
<1>3. n \notin Bad /\ ~ Later(n)
  BY <1>1, <1>2
<1> QED
  BY <1>1, <1>3

(* The last event decides.                                                 *)
LEMMA LastClears ==
    ASSUME NEW es \in Seq(Event), es # <<>>, Clears(es[Len(es)]),
           NEW view, NEW ing, NEW rep, NEW T \in Traces(view, ing, es, rep)
    PROVE  T[Len(es)] = NoTurn
<1>1. Len(es) \in 1..Len(es)
  BY EmptySeq
<1> QED
  BY <1>1 DEF Traces, Moves

(* One more event at the end, and possibly one more agent replaced.        *)
LEMMA OneMore ==
    ASSUME NEW es \in Seq(Event), NEW e \in Event, NEW view, NEW ing, NEW rep, NEW more,
           NEW T \in Traces(view, ing, es \o <<e>>, rep \cup more)
    PROVE  /\ Len(es \o <<e>>) = Len(es) + 1
           /\ \E S \in Traces(view, ing, es, rep) :
                 /\ S[Len(es)] \in Views
                 /\ Moves(e, S[Len(es)], T[Len(es) + 1], rep \cup more)
<1> DEFINE n == Len(es)
           es2 == es \o <<e>>
           S == [k \in 0..n |-> T[k]]
<1>1. /\ n \in Nat /\ Len(es2) = n + 1 /\ es2[n + 1] = e
      /\ \A k \in 1..n : es2[k] = es[k]
  <2>1. <<e>> \in Seq(Event) /\ Len(<<e>>) = 1 /\ <<e>>[1] = e
    OBVIOUS
  <2> QED
    BY <2>1, ConcatProperties
<1> HIDE DEF es2
<1>2. \A v, w, f : Moves(f, v, w, rep \cup more) => Moves(f, v, w, rep)
  BY DEF Moves
<1>3. /\ T \in [0..(n + 1) -> Views] /\ Begins(T[0], view, ing, rep \cup more)
      /\ \A k \in 1..(n + 1) : Moves(es2[k], T[k - 1], T[k], rep \cup more)
  BY <1>1 DEF Traces, es2
<1>4. S \in [0..n -> Views] /\ S[0] = T[0]
  BY <1>1, <1>3
<1>5. Begins(S[0], view, ing, rep)
  BY <1>2, <1>3, <1>4 DEF Begins
<1>6. ASSUME NEW k \in 1..n PROVE Moves(es[k], S[k - 1], S[k], rep)
  <2>1. /\ S[k - 1] = T[k - 1] /\ S[k] = T[k] /\ k \in 1..(n + 1)
    BY <1>1
  <2>2. Moves(es2[k], T[k - 1], T[k], rep \cup more)
    BY <1>3, <2>1
  <2>3. es2[k] = es[k]
    BY <1>1
  <2> QED
    BY <1>2, <2>1, <2>2, <2>3
<1>7. S \in Traces(view, ing, es, rep)
  BY <1>4, <1>5, <1>6 DEF Traces
<1>8. S[n] = T[n] /\ S[n] \in Views /\ n + 1 \in 1..(n + 1) /\ (n + 1) - 1 = n
  BY <1>1, <1>4
<1>9. Moves(e, S[n], T[n + 1], rep \cup more)
  BY <1>1, <1>3, <1>8
<1> QED
  BY <1>1, <1>7, <1>8, <1>9 DEF es2

(* The first event is read.                                                *)
LEMMA FirstRead ==
    ASSUME NEW es \in Seq(Event), es # <<>>, NEW view \in Views, NEW rep,
           NEW old, old.at # "read", NEW ing,
           ing.at = "read", ing.event = Head(es), ing.turn = view.turn,
           NEW T \in Traces(view, ing, Tail(es), rep)
    PROVE  \E S \in Traces(view, old, es, rep) : S[Len(es)] = T[Len(Tail(es))]
<1> DEFINE n == Len(es)
           S == [k \in 0..n |-> IF k = 0 THEN view ELSE T[k - 1]]
<1>1. /\ n \in Nat \ {0} /\ Len(Tail(es)) = n - 1
      /\ \A k \in 1..(n - 1) : Tail(es)[k] = es[k + 1]
      /\ Head(es) = es[1] /\ \A k \in 1..n : es[k] \in Event
  BY HeadTailProperties, EmptySeq, ElementOfSeq
<1>2. /\ T \in [0..(n - 1) -> Views] /\ Begins(T[0], view, ing, rep)
      /\ \A k \in 1..(n - 1) : Moves(es[k + 1], T[k - 1], T[k], rep)
  BY <1>1 DEF Traces
<1>3. S \in [0..n -> Views] /\ S[0] = view
  BY <1>1, <1>2
<1>4. Begins(S[0], view, old, rep)
  BY <1>3 DEF Begins, Applies
<1>5. Moves(es[1], view, T[0], rep)
  <2>1. es[1] \in Event /\ ing.event = es[1]
    BY <1>1
  <2>2. CASE Applies(ing)
    BY <1>2, <2>1, <2>2 DEF Begins
  <2>3. CASE ~ Applies(ing)
    <3>1. /\ T[0] = view
          /\ \/ es[1].type \notin Lifecycle
             \/ /\ es[1].type \in {"started", "completed", "failed", "turnError"}
                /\ view.turn \notin {None, es[1].turn}
      BY <1>2, <2>1, <2>3 DEF Begins, Applies
    <3> QED
      BY <2>1, <3>1, EventFields DEF Moves, Clears, Names, Lifecycle
  <2> QED
    BY <2>2, <2>3
<1>6. ASSUME NEW k \in 1..n PROVE Moves(es[k], S[k - 1], S[k], rep)
  <2>1. CASE k = 1
    <3>1. S[k - 1] = view /\ S[k] = T[0]
      BY <1>1, <2>1
    <3> QED
      BY <1>5, <2>1, <3>1
  <2>2. CASE k # 1
    <3>1. /\ k - 1 \in 1..(n - 1) /\ (k - 1) + 1 = k /\ k - 1 \in 0..n /\ k - 1 # 0
          /\ (k - 1) - 1 = k - 2
      BY <1>1, <2>2
    <3>2. S[k - 1] = T[k - 2] /\ S[k] = T[k - 1]
      BY <1>1, <3>1
    <3>3. Moves(es[(k - 1) + 1], T[(k - 1) - 1], T[k - 1], rep)
      BY <1>2, <3>1
    <3> QED
      BY <3>1, <3>2, <3>3
  <2> QED
    BY <2>1, <2>2
<1>7. S \in Traces(view, old, es, rep)
  BY <1>3, <1>4, <1>6 DEF Traces
<1>8. S[n] = T[n - 1]
  BY <1>1
<1> QED
  BY <1>1, <1>7, <1>8

-----------------------------------------------------------------------------
(* What names a turn as active and is on its way.                          *)

StartsIn(es, ing) ==
    {e \in Event : /\ Names(e)
                   /\ \/ \E k \in 1..Len(es) : es[k] = e
                      \/ (ing.at = "read" /\ ing.event = e)}
Starts == StartsIn(events, ingesting)

LEMMA StartsAppend ==
    ASSUME NEW es \in Seq(Event), NEW e \in Event, NEW ing
    PROVE  StartsIn(es \o <<e>>, ing)
              \subseteq StartsIn(es, ing) \cup {f \in {e} : Names(f)}
<1> DEFINE es2 == es \o <<e>>
<1>1. /\ Len(es) \in Nat /\ Len(es2) = Len(es) + 1 /\ es2[Len(es) + 1] = e
      /\ \A k \in 1..Len(es) : es2[k] = es[k]
  <2>1. <<e>> \in Seq(Event) /\ Len(<<e>>) = 1 /\ <<e>>[1] = e
    OBVIOUS
  <2> QED
    BY <2>1, ConcatProperties
<1> HIDE DEF es2
<1>2. \A k \in 1..Len(es2) : k \in 1..Len(es) \/ k = Len(es) + 1
  BY <1>1
<1>3. StartsIn(es2, ing) \subseteq StartsIn(es, ing) \cup {f \in {e} : Names(f)}
  BY <1>1, <1>2 DEF StartsIn
<1> QED
  BY <1>3 DEF es2

LEMMA StartsEmit ==
    ASSUME TypeOK, NEW e \in Event, Emit(<<e>>), ingesting' = ingesting
    PROVE  Starts' \subseteq Starts \cup {f \in {e} : Names(f)}
<1>1. events \in Seq(Event) /\ events' = events \o <<e>>
  BY DEF TypeOK, Emit
<1> QED
  BY <1>1, StartsAppend DEF Starts

LEMMA StartsRead ==
    ASSUME TypeOK, ReadEvent
    PROVE  Starts' \subseteq Starts
<1>1. /\ events \in Seq(Event) /\ events # <<>> /\ events' = Tail(events)
      /\ ingesting'.event = events[1]
  BY DEF TypeOK, ReadEvent
<1>2. /\ Len(events) \in Nat \ {0} /\ Len(events') = Len(events) - 1
      /\ \A i \in 1..Len(events') : events'[i] = events[i + 1]
  BY <1>1, HeadTailProperties, EmptySeq
<1>3. 1 \in 1..Len(events) /\ \A i \in 1..Len(events') : i + 1 \in 1..Len(events)
  BY <1>2
<1>4. StartsIn(events', ingesting') \subseteq StartsIn(events, ingesting)
  BY <1>1, <1>2, <1>3 DEF StartsIn
<1> QED
  BY <1>4 DEF Starts

(* Many actions report nothing.                                            *)
LEMMA Silent ==
    ASSUME \/ AskTurn \/ Interrupt \/ Stop \/ SetRuntimeMode
           \/ \E t \in Turn : Answer(t)
           \/ Take \/ Record \/ Bind \/ Recover \/ RouteFails \/ SendTurn
           \/ SendFails \/ SendTimesOut \/ Report \/ SetStopped \/ UNCHANGED vars
    PROVE  events' = events /\ ingesting' = ingesting
  BY DEF AskTurn, Interrupt, Stop, SetRuntimeMode, AskTo, Answer, Take, Record, Bind,
         Recover, RouteFails, SendTurn, SendFails, SendTimesOut, Report, SetStopped,
         pipeline, vars

(* The others: one event, or an error and an exit.                         *)
LEMMA Reports ==
    ASSUME TypeOK
    PROVE  /\ SpawnFails => Emit(<<Error>>) /\ ingesting' = ingesting
           /\ OpenFails => /\ Emit(<<Error>>) \/ Emit(<<Error, Exited>>)
                           /\ ingesting' = ingesting
           /\ \A p \in Agent :
                 /\ Spawn(p) => Emit(<<State("starting")>>) /\ ingesting' = ingesting
                 /\ Opened(p) => Emit(<<State("ready")>>) /\ ingesting' = ingesting
                 /\ EndTurn(p) => Emit(<<About("completed", p, agents[p].turn)>>)
                                  /\ ingesting' = ingesting /\ agents[p].turn \in Turn
                 /\ RequestApproval(p) => Emit(<<About("opened", p, agents[p].turn)>>)
                                  /\ ingesting' = ingesting /\ agents[p].turn \in Turn
                 /\ FailTurn(p) => Emit(<<About("failed", p, agents[p].turn)>>)
                                  /\ ingesting' = ingesting /\ agents[p].turn \in Turn
                 /\ RuntimeError(p) =>
                       /\ ingesting' = ingesting
                       /\ \/ Emit(<<Error>>)
                          \/ /\ agents[p].turn \in Turn
                             /\ Emit(<<About("turnError", p, agents[p].turn)>>)
                 /\ ThreadStarted(p) => Emit(<<Announced>>) /\ ingesting' = ingesting
                 /\ Exit(p) => Emit(<<Exited>>) /\ ingesting' = ingesting
                 /\ TakeTurn(p) =>
                       /\ ingesting' = ingesting /\ Head(agents[p].inbox) \in Turn
                       /\ IF agents[p].turn = None
                          THEN Emit(<<About("started", p, Head(agents[p].inbox))>>)
                          ELSE UNCHANGED events
           /\ StopSession => /\ UNCHANGED events \/ (owner # None /\ Emit(<<Exited>>))
                             /\ ingesting' = ingesting
           /\ InterruptTurn =>
                 /\ \/ UNCHANGED <<events, agents>>
                    \/ /\ agents[owner].turn \in Turn /\ owner \in Agent
                       /\ Emit(<<About("completed", owner, agents[owner].turn)>>)
                 /\ ingesting' = ingesting
           /\ RespondToRequest =>
                 /\ \/ UNCHANGED <<events, agents>>
                    \/ /\ owner \in Agent /\ reactor.intent.turn \in Turn
                       /\ Emit(<<About("resolved", owner, reactor.intent.turn)>>)
                 /\ ingesting' = ingesting
<1>1. /\ events \in Seq(Event) /\ agents \in [Agent -> Process]
      /\ owner \in Agent \cup {None}
      /\ \A p \in Agent :
            agents[p].turn \in Turn \cup {None} /\ agents[p].inbox \in Seq(Turn)
  BY DEF TypeOK, Process
<1>3. SpawnFails => Emit(<<Error>>) /\ ingesting' = ingesting
  BY DEF SpawnFails
<1>4. OpenFails => /\ Emit(<<Error>>) \/ Emit(<<Error, Exited>>)
                   /\ ingesting' = ingesting
  BY DEF OpenFails
<1>5. ASSUME NEW p \in Agent
      PROVE  /\ Spawn(p) => Emit(<<State("starting")>>) /\ ingesting' = ingesting
             /\ Opened(p) => Emit(<<State("ready")>>) /\ ingesting' = ingesting
             /\ EndTurn(p) => Emit(<<About("completed", p, agents[p].turn)>>)
                              /\ ingesting' = ingesting /\ agents[p].turn \in Turn
             /\ RequestApproval(p) => Emit(<<About("opened", p, agents[p].turn)>>)
                              /\ ingesting' = ingesting /\ agents[p].turn \in Turn
             /\ FailTurn(p) => Emit(<<About("failed", p, agents[p].turn)>>)
                              /\ ingesting' = ingesting /\ agents[p].turn \in Turn
             /\ RuntimeError(p) =>
                   /\ ingesting' = ingesting
                   /\ \/ Emit(<<Error>>)
                      \/ /\ agents[p].turn \in Turn
                         /\ Emit(<<About("turnError", p, agents[p].turn)>>)
             /\ ThreadStarted(p) => Emit(<<Announced>>) /\ ingesting' = ingesting
             /\ Exit(p) => Emit(<<Exited>>) /\ ingesting' = ingesting
             /\ TakeTurn(p) =>
                   /\ ingesting' = ingesting /\ Head(agents[p].inbox) \in Turn
                   /\ IF agents[p].turn = None
                      THEN Emit(<<About("started", p, Head(agents[p].inbox))>>)
                      ELSE UNCHANGED events
  <2>1. /\ Spawn(p) => Emit(<<State("starting")>>) /\ ingesting' = ingesting
        /\ Opened(p) => Emit(<<State("ready")>>) /\ ingesting' = ingesting
        /\ Exit(p) => Emit(<<Exited>>) /\ ingesting' = ingesting
    BY DEF Spawn, Opened, Exit
  <2>2. /\ EndTurn(p) => Emit(<<About("completed", p, agents[p].turn)>>)
                         /\ ingesting' = ingesting /\ agents[p].turn \in Turn
        /\ RequestApproval(p) => Emit(<<About("opened", p, agents[p].turn)>>)
                         /\ ingesting' = ingesting /\ agents[p].turn \in Turn
    BY <1>1 DEF EndTurn, RequestApproval
  <2>4. FailTurn(p) => Emit(<<About("failed", p, agents[p].turn)>>)
                       /\ ingesting' = ingesting /\ agents[p].turn \in Turn
    BY <1>1 DEF FailTurn
  <2>5. /\ RuntimeError(p) =>
              /\ ingesting' = ingesting
              /\ \/ Emit(<<Error>>)
                 \/ /\ agents[p].turn \in Turn
                    /\ Emit(<<About("turnError", p, agents[p].turn)>>)
        /\ ThreadStarted(p) => Emit(<<Announced>>) /\ ingesting' = ingesting
    BY <1>1 DEF RuntimeError, ThreadStarted
  <2>3. ASSUME TakeTurn(p)
        PROVE  /\ ingesting' = ingesting /\ Head(agents[p].inbox) \in Turn
               /\ IF agents[p].turn = None
                  THEN Emit(<<About("started", p, Head(agents[p].inbox))>>)
                  ELSE UNCHANGED events
    <3>1. /\ ingesting' = ingesting /\ agents[p].inbox # <<>>
          /\ Emit(IF agents[p].turn = None
                  THEN <<About("started", p, Head(agents[p].inbox))>> ELSE <<>>)
      BY <2>3 DEF TakeTurn
    <3>2. Head(agents[p].inbox) \in Turn
      BY <1>1, <3>1, HeadTailProperties
    <3>3. Emit(<<>>) => UNCHANGED events
      BY <1>1 DEF Emit
    <3> QED
      BY <3>1, <3>2, <3>3
  <2> QED
    BY <2>1, <2>2, <2>3, <2>4, <2>5
<1>6. StopSession => /\ UNCHANGED events \/ (owner # None /\ Emit(<<Exited>>))
                     /\ ingesting' = ingesting
  BY DEF StopSession
<1>7. InterruptTurn =>
         /\ \/ UNCHANGED <<events, agents>>
            \/ /\ agents[owner].turn \in Turn /\ owner \in Agent
               /\ Emit(<<About("completed", owner, agents[owner].turn)>>)
         /\ ingesting' = ingesting
  BY <1>1 DEF InterruptTurn, Calls
<1>8. RespondToRequest =>
         /\ \/ UNCHANGED <<events, agents>>
            \/ /\ owner \in Agent /\ reactor.intent.turn \in Turn
               /\ Emit(<<About("resolved", owner, reactor.intent.turn)>>)
         /\ ingesting' = ingesting
  <2>1. Calls("answer") => reactor.intent.turn \in Turn /\ owner \in Agent
    BY <1>1, StepTypes, IntentTypes DEF Calls, TypeOK
  <2> QED
    BY <2>1 DEF RespondToRequest
<1> QED
  BY <1>3, <1>4, <1>5, <1>6, <1>7, <1>8

(* Only a turn that an agent takes, or is working on, is named.            *)
LEMMA StartsStep ==
    ASSUME TypeOK, [Next]_vars
    PROVE  \/ Starts' \subseteq Starts
           \/ \E p \in Agent :
                 /\ TakeTurn(p) /\ agents[p].turn = None
                 /\ Starts' \subseteq Starts
                       \cup {About("started", p, Head(agents[p].inbox))}
           \/ \E p \in Agent :
                 /\ RuntimeError(p) /\ agents[p].turn # None
                 /\ Starts' \subseteq Starts
                       \cup {About("turnError", p, agents[p].turn)}
<1>1. ASSUME NEW e \in Event, Emit(<<e>>), ingesting' = ingesting, ~ Names(e)
      PROVE  Starts' \subseteq Starts
  BY <1>1, StartsEmit
<1>2. UNCHANGED <<events, ingesting>> => Starts' = Starts
  BY DEF Starts
<1>3. /\ Error \in Event /\ Exited \in Event
      /\ \A s \in {"starting", "ready"} : State(s) \in Event /\ State(s).type = "state"
      /\ ~ Names(Error) /\ ~ Names(Exited) /\ ~ Names(Announced) /\ Announced \in Event
      /\ \A s \in {"starting", "ready"} : ~ Names(State(s))
      /\ \A type \in {"started", "completed", "failed", "turnError", "opened",
                      "resolved"} :
            \A p \in Agent, t \in Turn :
               About(type, p, t) \in Event /\ About(type, p, t).type = type
      /\ \A type \in {"completed", "failed", "opened", "resolved"} :
            \A p \in Agent, t \in Turn : ~ Names(About(type, p, t))
  BY EventTypes DEF State, Exited, Error, Announced, About, Names
<1>4. CASE Reactor
  <2>1. CASE SpawnFails \/ StopSession \/ InterruptTurn \/ RespondToRequest
             \/ \E p \in Agent : Spawn(p) \/ Opened(p)
    BY <1>1, <1>2, <1>3, <2>1, Reports
  <2>2. CASE OpenFails
    <3>1. CASE Emit(<<Error, Exited>>)
      <4>1. /\ events \in Seq(Event) /\ (events \o <<Error>>) \in Seq(Event)
            /\ events' = (events \o <<Error>>) \o <<Exited>>
        <5>1. events \in Seq(Event) /\ <<Error>> \in Seq(Event) /\ <<Exited>> \in Seq(Event)
          BY <1>3 DEF TypeOK
        <5>2. events' = events \o <<Error, Exited>>
          BY <3>1 DEF Emit
        <5> QED
          BY <5>1, <5>2, ConcatProperties
      <4>2. ingesting' = ingesting
        BY <2>2, Reports
      <4>3. StartsIn(events', ingesting) \subseteq StartsIn(events, ingesting)
        <5>1. \A es \in Seq(Event), e \in Event :
                 ~ Names(e) => StartsIn(es \o <<e>>, ingesting)
                                  \subseteq StartsIn(es, ingesting)
          BY StartsAppend
        <5>2. /\ StartsIn(events \o <<Error>>, ingesting)
                    \subseteq StartsIn(events, ingesting)
              /\ StartsIn((events \o <<Error>>) \o <<Exited>>, ingesting)
                    \subseteq StartsIn(events \o <<Error>>, ingesting)
          BY <1>3, <4>1, <5>1
        <5> QED
          BY <4>1, <5>2
      <4> QED
        BY <4>2, <4>3 DEF Starts
    <3> QED
      BY <1>1, <1>3, <2>2, <3>1, Reports
  <2>3. CASE \/ Take \/ Record \/ Bind \/ Recover \/ RouteFails \/ SendTurn
             \/ SendFails \/ SendTimesOut \/ Report \/ SetStopped
    <3>1. UNCHANGED <<events, ingesting>>
      BY <2>3, Silent
    <3> QED
      BY <1>2, <3>1
  <2> QED
    BY <1>4, <2>1, <2>2, <2>3 DEF Reactor
<1>5. ASSUME NEW p \in Agent,
             \/ RequestApproval(p) \/ EndTurn(p) \/ FailTurn(p) \/ Exit(p)
             \/ ThreadStarted(p)
      PROVE  Starts' \subseteq Starts
  BY <1>1, <1>3, <1>5, Reports
<1>6. ASSUME NEW p \in Agent, TakeTurn(p)
      PROVE  \/ Starts' \subseteq Starts
             \/ /\ agents[p].turn = None
                /\ Starts' \subseteq Starts
                      \cup {About("started", p, Head(agents[p].inbox))}
  BY <1>2, <1>3, <1>6, StartsEmit, Reports
<1>7. CASE ReadEvent
  BY <1>7, StartsRead
<1>8. CASE Ingest
  <2>1. events' = events /\ ingesting'.at # "read"
    BY <1>8 DEF Ingest, Idle
  <2> QED
    BY <2>1 DEF Starts, StartsIn
<1>9. CASE Crash \/ Shutdown
  <2>1. events' = <<>> /\ ingesting'.at # "read"
    BY <1>9 DEF Crash, Shutdown, Down, Idle
  <2> QED
    BY <2>1 DEF Starts, StartsIn
<1>10. CASE \/ AskTurn \/ Interrupt \/ Stop \/ SetRuntimeMode
            \/ \E t \in Turn : Answer(t)
            \/ UNCHANGED vars
  <2>1. UNCHANGED <<events, ingesting>>
    BY <1>10, Silent
  <2> QED
    BY <1>2, <2>1
<1>11. ASSUME NEW p \in Agent, RuntimeError(p)
       PROVE  \/ Starts' \subseteq Starts
              \/ /\ agents[p].turn # None
                 /\ Starts' \subseteq Starts
                       \cup {About("turnError", p, agents[p].turn)}
  <2>1. ingesting' = ingesting
    BY <1>11, Reports
  <2>2. CASE Emit(<<Error>>)
    BY <1>1, <1>3, <2>1, <2>2
  <2>3. CASE /\ agents[p].turn \in Turn
             /\ Emit(<<About("turnError", p, agents[p].turn)>>)
    <3>1. agents[p].turn # None
      BY <2>3 DEF Turn, None
    <3> QED
      BY <1>3, <2>1, <2>3, <3>1, StartsEmit
  <2> QED
    BY <1>11, <2>2, <2>3, Reports
<1> QED
  BY <1>4, <1>5, <1>6, <1>7, <1>8, <1>9, <1>10, <1>11 DEF Next

-----------------------------------------------------------------------------
(* What becomes of the turns an agent was sent.                            *)

HeldBy(a) == {t \in Turn : a.turn = t \/ \E i \in 1..Len(a.inbox) : a.inbox[i] = t}

\* An agent takes on no more turns, and one that was spawned stays so.
Slims(a, b) ==
    /\ HeldBy(b) \subseteq HeldBy(a)
    /\ a.inbox = <<>> => b.inbox = <<>>
    /\ a.inbox = <<>> /\ a.turn = None => b.turn = None
    /\ a.state # "unborn" => b.state # "unborn"

LEMMA SlimFields ==
    ASSUME NEW a \in Process
    PROVE  /\ Slims(a, a) /\ Slims(a, Dead)
           /\ Slims(a, [a EXCEPT !.turn = None])
           /\ \A s : Slims(a, [a EXCEPT !.pending = s])
           /\ \A c : Slims(a, [a EXCEPT !.state = "ready", !.talk = c])
           /\ \A ask : a = Unborn =>
                 Slims(a, [Unborn EXCEPT !.state = "starting", !.asking = ask])
<1>1. a.inbox \in Seq(Turn) /\ Len(a.inbox) \in Nat
  BY DEF Process
<1>2. Slims(a, Dead)
  BY DEF Slims, HeldBy, Dead, Unborn, None, Turn
<1>3. Slims(a, a) /\ Slims(a, [a EXCEPT !.turn = None])
  BY DEF Slims, HeldBy, Process, None, Turn
<1>4. /\ \A s : Slims(a, [a EXCEPT !.pending = s])
      /\ \A c : Slims(a, [a EXCEPT !.state = "ready", !.talk = c])
  BY DEF Slims, HeldBy, Process
<1>5. \A ask : a = Unborn => Slims(a, [Unborn EXCEPT !.state = "starting", !.asking = ask])
  BY DEF Slims, HeldBy, Unborn
<1> QED
  BY <1>2, <1>3, <1>4, <1>5

LEMMA SlimFront ==
    ASSUME NEW a \in Process
    PROVE  Slims(a, [a EXCEPT !.inbox = Front(@)])
<1> DEFINE b == [a EXCEPT !.inbox = Front(@)]
<1>1. a.inbox \in Seq(Turn) /\ Len(a.inbox) \in Nat
  BY DEF Process
<1>2. b.inbox = Front(a.inbox) /\ b.turn = a.turn /\ b.state = a.state
  BY DEF Process
<1>3. CASE a.inbox = <<>>
  <2>1. Front(a.inbox) = <<>>
    BY <1>3 DEF Front
  <2> QED
    BY <1>2, <1>3, <2>1 DEF Slims, HeldBy
<1>4. CASE a.inbox # <<>>
  <2>1. /\ Len(Front(a.inbox)) = Len(a.inbox) - 1
        /\ \A i \in 1..(Len(a.inbox) - 1) : Front(a.inbox)[i] = a.inbox[i]
    BY <1>1, <1>4, EmptySeq DEF Front
  <2> HIDE DEF b
  <2> QED
    BY <1>1, <1>2, <1>4, <2>1 DEF Slims, HeldBy
<1> QED
  BY <1>3, <1>4

LEMMA SlimTake ==
    ASSUME NEW a \in Process, a.inbox # <<>>
    PROVE  Slims(a, [a EXCEPT !.inbox = Tail(@),
                              !.turn = IF a.turn = None THEN Head(a.inbox) ELSE @])
<1> DEFINE b == [a EXCEPT !.inbox = Tail(@),
                          !.turn = IF a.turn = None THEN Head(a.inbox) ELSE @]
<1>1. a.inbox \in Seq(Turn) /\ Len(a.inbox) \in Nat \ {0}
  BY EmptySeq DEF Process
<1>2. /\ b.inbox = Tail(a.inbox) /\ b.state = a.state
      /\ b.turn = IF a.turn = None THEN Head(a.inbox) ELSE a.turn
  BY DEF Process
<1>3. /\ Len(Tail(a.inbox)) = Len(a.inbox) - 1 /\ Head(a.inbox) = a.inbox[1]
      /\ \A i \in 1..(Len(a.inbox) - 1) : Tail(a.inbox)[i] = a.inbox[i + 1]
  BY <1>1, HeadTailProperties
<1> HIDE DEF b
<1>4. \A i \in 1..Len(b.inbox) : i + 1 \in 1..Len(a.inbox) /\ b.inbox[i] = a.inbox[i + 1]
  BY <1>1, <1>2, <1>3
<1>5. 1 \in 1..Len(a.inbox)
  BY <1>1
<1>6. HeldBy(b) \subseteq HeldBy(a)
  BY <1>2, <1>3, <1>4, <1>5 DEF HeldBy
<1>7. Slims(a, b)
  BY <1>2, <1>6 DEF Slims
<1> QED
  BY <1>7 DEF b

(* Only the reactor gives an agent a turn.                                 *)
LEMMA SlimStep ==
    ASSUME TypeOK, [Next]_vars, ~ SendTurn, NEW q \in Agent
    PROVE  Slims(agents[q], agents'[q])
<1>1. /\ agents \in [Agent -> Process] /\ agents[q] \in Process
      /\ \A p \in Agent : agents[p] \in Process
      /\ owner \in Agent \cup {None}
  BY DEF TypeOK
<1>2. agents'[q] = agents[q] => Slims(agents[q], agents'[q])
  BY <1>1, SlimFields
<1>3. CASE \/ AskTurn \/ Interrupt \/ Stop \/ SetRuntimeMode
           \/ \E t \in Turn : Answer(t)
           \/ ReadEvent \/ Ingest \/ UNCHANGED vars
           \/ \E p \in Agent : RuntimeError(p) \/ ThreadStarted(p)
  BY <1>2, <1>3, OutsideKeeps
<1>4. CASE \/ Take \/ SpawnFails \/ Record \/ Bind \/ Recover \/ RouteFails
           \/ SendTimesOut \/ Report \/ SetStopped
  BY <1>2, <1>4 DEF Take, SpawnFails, Record, Bind, Recover, RouteFails, SendTimesOut,
                     Report, SetStopped
<1>5. CASE OpenFails \/ StopSession
  <2>1. agents' = agents \/ (owner \in Agent /\ Kill(owner))
    BY <1>1, <1>5 DEF OpenFails, StopSession
  <2>2. agents'[q] \in {agents[q], Dead}
    BY <1>1, <2>1 DEF Kill
  <2> QED
    BY <1>1, <2>2, SlimFields
<1>6. ASSUME NEW p \in Agent, Exit(p) PROVE agents'[q] \in {agents[q], Dead}
  BY <1>1, <1>6 DEF Exit, Kill
<1>7. ASSUME NEW p \in Agent, Spawn(p) PROVE Slims(agents[q], agents'[q])
  <2>1. /\ agents[p] = Unborn
        /\ agents' = [agents EXCEPT ![p] = [Unborn EXCEPT !.state = "starting",
                                                          !.asking = reactor.asking]]
    BY <1>7 DEF Spawn
  <2> QED
    BY <1>1, <1>2, <2>1, SlimFields
<1>8. ASSUME NEW p \in Agent, Opened(p) PROVE Slims(agents[q], agents'[q])
  <2>1. PICK talk : agents' = [agents EXCEPT ![p].state = "ready", ![p].talk = talk]
    BY <1>8 DEF Opened
  <2>2. agents' = [agents EXCEPT ![p] = [@ EXCEPT !.state = "ready", !.talk = talk]]
    BY <1>1, <2>1
  <2> QED
    BY <1>1, <1>2, <2>2, SlimFields
<1>9. CASE SendFails
  <2>1. agents' = [agents EXCEPT ![reactor.agent].inbox = Front(@)]
    BY <1>9 DEF SendFails
  <2>2. agents'[q] = agents[q] \/ agents'[q] = [agents[q] EXCEPT !.inbox = Front(@)]
    BY <1>1, <2>1
  <2> QED
    BY <1>1, <1>2, <2>2, SlimFront
<1>10. CASE InterruptTurn
  <2>1. \/ agents' = agents
        \/ agents' = [agents EXCEPT ![owner] = [@ EXCEPT !.turn = None]]
    BY <1>10 DEF InterruptTurn
  <2>2. agents'[q] \in {agents[q], [agents[q] EXCEPT !.turn = None]}
    BY <1>1, <2>1
  <2> QED
    BY <1>1, <1>2, <2>2, SlimFields
<1>11. CASE RespondToRequest
  <2>1. \/ agents' = agents
        \/ \E s : agents' = [agents EXCEPT ![owner] = [@ EXCEPT !.pending = s]]
    BY <1>11 DEF RespondToRequest
  <2>2. agents'[q] = agents[q] \/ \E s : agents'[q] = [agents[q] EXCEPT !.pending = s]
    BY <1>1, <2>1
  <2> QED
    BY <1>1, <1>2, <2>2, SlimFields
<1>12. ASSUME NEW p \in Agent, TakeTurn(p) PROVE Slims(agents[q], agents'[q])
  <2>1. /\ agents[p].inbox # <<>>
        /\ agents' = [agents EXCEPT ![p].inbox = Tail(@),
                          ![p].turn = IF agents[p].turn = None
                                      THEN Head(agents[p].inbox) ELSE @]
    BY <1>12 DEF TakeTurn
  <2>2. agents'[p] = [agents[p] EXCEPT !.inbox = Tail(@),
                          !.turn = IF agents[p].turn = None
                                   THEN Head(agents[p].inbox) ELSE @]
        /\ (q # p => agents'[q] = agents[q])
    BY <1>1, <2>1
  <2> QED
    BY <1>1, <1>2, <2>1, <2>2, SlimTake
<1>13. ASSUME NEW p \in Agent, RequestApproval(p) \/ EndTurn(p) \/ FailTurn(p)
       PROVE Slims(agents[q], agents'[q])
  <2>1. \/ \E s : agents' = [agents EXCEPT ![p] = [@ EXCEPT !.pending = s]]
        \/ agents' = [agents EXCEPT ![p] = [@ EXCEPT !.turn = None]]
    BY <1>13 DEF RequestApproval, EndTurn, FailTurn
  <2>2. \/ agents'[q] \in {agents[q], [agents[q] EXCEPT !.turn = None]}
        \/ \E s : agents'[q] = [agents[q] EXCEPT !.pending = s]
    BY <1>1, <2>1
  <2> QED
    BY <1>1, <1>2, <2>2, SlimFields
<1>14. CASE Crash \/ Shutdown
  <2>1. agents'[q] = IF agents[q] = Unborn THEN Unborn ELSE Dead
    BY <1>14 DEF Crash, Shutdown, Down
  <2> QED
    BY <1>1, <2>1, SlimFields
<1> QED
  BY <1>1, <1>3, <1>4, <1>5, <1>6, <1>7, <1>8, <1>9, <1>10, <1>11, <1>12, <1>13, <1>14,
     SlimFields DEF Next, Reactor

(* The turn the reactor is about to send, and those that wait for it.      *)
Sending == {"use", "call", "start", "opening", "record", "bind"}
UnsentIn(r) == {t \in Turn : r.at \in Sending /\ Says(r.intent, "turn", t)}
QueuedIn(is) == {t \in Turn : \E i \in 1..Len(is) : Says(is[i], "turn", t)}

\* The reactor goes on with its intent, or is done with it.
GoesOn(r, s) ==
    \/ s.at = "idle" \/ s = r
    \/ s.intent = r.intent /\ (s.at \in Sending => r.at \in Sending)

LEMMA GoesOnStep ==
    ASSUME TypeOK, [Next]_vars, ~ Take
    PROVE  GoesOn(reactor, reactor')
<1>1. reactor \in Step
  BY DEF TypeOK
<1> USE DEF GoesOn, Sending
<1>2. /\ Done => reactor'.at = "idle"
      /\ \A at : Goto(at) => reactor'.intent = reactor.intent /\ reactor'.at = at
      /\ Fail => \/ reactor'.at = "idle"
                 \/ reactor'.intent = reactor.intent /\ reactor'.at = "report"
  BY DEF Done, Goto, Fail, Idle
<1>3. CASE \E p \in Agent : Spawn(p)
  <2>1. reactor.at = "start"
    BY <1>3 DEF Spawn
  <2>2. reactor \in [at : {"start"}, intent : Intent, agent : {None},
                     asking : BOOLEAN, cursor : Agent \cup {None}, bind : BOOLEAN]
    BY <1>1, <2>1 DEF Step, Idle
  <2> QED
    BY <1>3, <2>1, <2>2 DEF Spawn
<1>4. CASE Record \/ \E p \in Agent : Opened(p)
  <2>1. reactor.at \in {"opening", "record"}
    BY <1>4 DEF Record, Opened
  <2>2. reactor \in [at : {"opening", "record", "bind"}, intent : Intent,
                     agent : Agent, asking : BOOLEAN,
                     cursor : Agent \cup {None}, bind : BOOLEAN]
    BY <1>1, <2>1 DEF Step, Idle
  <2>3. CASE Record
    BY <1>2, <2>1, <2>2, <2>3 DEF Record
  <2>4. CASE \E p \in Agent : Opened(p)
    BY <2>1, <2>2, <2>4 DEF Opened
  <2> QED
    BY <1>4, <2>3, <2>4
<1>5. CASE SpawnFails \/ OpenFails \/ Bind \/ Recover \/ RouteFails \/ SendTimesOut
  BY <1>2, <1>5 DEF SpawnFails, OpenFails, Bind, Recover, RouteFails, SendTimesOut, Start
<1>6. CASE SendTurn \/ SendFails \/ Report \/ InterruptTurn \/ RespondToRequest
  BY <1>2, <1>6 DEF SendTurn, SendFails, Report, InterruptTurn, RespondToRequest
<1>7. CASE StopSession \/ SetStopped \/ \E p \in Agent : TakeTurn(p)
  <2>1. CASE StopSession \/ SetStopped
    BY <1>2, <2>1 DEF StopSession, SetStopped
  <2>2. ASSUME NEW p \in Agent, TakeTurn(p) PROVE Done \/ reactor' = reactor
    BY <2>2 DEF TakeTurn
  <2> QED
    BY <1>2, <1>7, <2>1, <2>2
<1>8. CASE \E p \in Agent : RequestApproval(p) \/ EndTurn(p) \/ FailTurn(p) \/ Exit(p)
  BY <1>8 DEF RequestApproval, EndTurn, FailTurn, Exit
<1>9. CASE Crash \/ Shutdown
  BY <1>9 DEF Crash, Shutdown, Down, Idle
<1>10. CASE \/ AskTurn \/ Interrupt \/ Stop \/ SetRuntimeMode
            \/ \E t \in Turn : Answer(t)
            \/ ReadEvent \/ Ingest \/ UNCHANGED vars
            \/ \E p \in Agent : RuntimeError(p) \/ ThreadStarted(p)
  BY <1>10, OutsideKeeps
<1> QED
  BY <1>3, <1>4, <1>5, <1>6, <1>7, <1>8, <1>9, <1>10 DEF Next, Reactor

(* Turns are asked for once, and leave the queue one by one.               *)
Distinct(is) ==
    \A t \in Turn, i, j \in 1..Len(is) :
       Says(is[i], "turn", t) /\ Says(is[j], "turn", t) => i = j

LEMMA QueueAsk ==
    ASSUME intents \in Seq(Intent), NEW i \in Intent, Ask(i)
    PROVE  /\ QueuedIn(intents') \subseteq
                 QueuedIn(intents) \cup {t \in Turn : Says(i, "turn", t)}
           /\ Distinct(intents) /\ (\A t \in QueuedIn(intents) : ~ Says(i, "turn", t))
                 => Distinct(intents')
<1>1. /\ Len(intents') = Len(intents) + 1 /\ intents'[Len(intents) + 1] = i
      /\ \A k \in 1..Len(intents) : intents'[k] = intents[k]
      /\ Len(intents) \in Nat
  BY AppendProperties DEF Ask
<1>2. \A k \in 1..Len(intents') : k \in 1..Len(intents) \/ k = Len(intents) + 1
  BY <1>1
<1>3. QueuedIn(intents') \subseteq QueuedIn(intents) \cup {t \in Turn : Says(i, "turn", t)}
  BY <1>1, <1>2 DEF QueuedIn
<1>4. ASSUME Distinct(intents), \A t \in QueuedIn(intents) : ~ Says(i, "turn", t),
             NEW t \in Turn, NEW j \in 1..Len(intents'), NEW k \in 1..Len(intents'),
             Says(intents'[j], "turn", t), Says(intents'[k], "turn", t)
      PROVE  j = k
  <2>1. ASSUME NEW l \in 1..Len(intents), Says(intents'[l], "turn", t)
        PROVE  t \in QueuedIn(intents)
    BY <1>1, <2>1 DEF QueuedIn
  <2>2. ASSUME j \in 1..Len(intents), k \in 1..Len(intents) PROVE j = k
    BY <1>1, <1>4, <2>2 DEF Distinct
  <2> QED
    BY <1>1, <1>2, <1>4, <2>1, <2>2
<1> QED
  BY <1>3, <1>4 DEF Distinct

LEMMA QueueTake ==
    ASSUME TypeOK, Take
    PROVE  /\ QueuedIn(intents') \cup UnsentIn(reactor') \subseteq QueuedIn(intents)
           /\ Distinct(intents) => /\ Distinct(intents')
                                   /\ QueuedIn(intents') \cap UnsentIn(reactor') = {}
<1>1. /\ intents \in Seq(Intent) /\ intents # <<>> /\ intents' = Tail(intents)
      /\ reactor'.at = "idle" \/ reactor'.intent = intents[1]
  BY DEF TypeOK, Take, Start, Done, Idle
<1>2. /\ Len(intents) \in Nat \ {0} /\ Len(intents') = Len(intents) - 1
      /\ \A i \in 1..Len(intents') : intents'[i] = intents[i + 1]
  BY <1>1, HeadTailProperties, EmptySeq
<1>3. \A i \in 1..Len(intents') :
         i + 1 \in 1..Len(intents) /\ i + 1 # 1 /\ intents'[i] = intents[i + 1]
  BY <1>2
<1>4. 1 \in 1..Len(intents)
  BY <1>2
<1>5. \A t \in UnsentIn(reactor') : t \in Turn /\ Says(intents[1], "turn", t)
  BY <1>1 DEF UnsentIn, Sending
<1>6. QueuedIn(intents') \cup UnsentIn(reactor') \subseteq QueuedIn(intents)
  BY <1>3, <1>4, <1>5 DEF QueuedIn
<1>7. ASSUME Distinct(intents) PROVE Distinct(intents')
  <2> SUFFICES ASSUME NEW t \in Turn, NEW j \in 1..Len(intents'),
                      NEW k \in 1..Len(intents'),
                      Says(intents'[j], "turn", t), Says(intents'[k], "turn", t)
               PROVE  j = k
    BY DEF Distinct
  <2>1. j + 1 = k + 1
    BY <1>3, <1>7 DEF Distinct
  <2> QED
    BY <1>2, <2>1
<1>8. ASSUME Distinct(intents), NEW t \in QueuedIn(intents'), t \in UnsentIn(reactor')
      PROVE  FALSE
  <2>1. PICK j \in 1..Len(intents') : Says(intents'[j], "turn", t) /\ t \in Turn
    BY DEF QueuedIn
  <2> QED
    BY <1>3, <1>4, <1>5, <1>8, <2>1 DEF Distinct
<1> QED
  BY <1>6, <1>7, <1>8

(* What is done with an event that was read.                               *)
LEMMA IngestSession ==
    ASSUME TypeOK, Ingest
    PROVE  /\ ingesting.at = "read" /\ ingesting.event \in Event
           /\ ingesting.turn \in Turn \cup {None} /\ ingesting'.at = "idle"
           /\ IF Applies(ingesting)
              THEN /\ LET e == ingesting.event
                          Set(status, turn) == SetSession(status, turn, ingesting.asking)
                      IN \/ e.type = "state" /\ Set(e.state, ingesting.turn)
                         \/ e.type = "announced" /\ ingesting.turn = None
                            /\ Set("ready", None)
                         \/ e.type = "announced" /\ ingesting.turn # None
                            /\ Set("running", ingesting.turn)
                         \/ e.type = "started" /\ Set("running", e.turn)
                         \/ e.type = "completed" /\ Set("ready", None)
                         \/ e.type = "exited" /\ Set("stopped", None)
                         \/ e.type \in {"failed", "error"} /\ Set("error", None)
                         \/ e.type = "turnError" /\ Set("error", e.turn)
                   /\ Disturbed(\/ ingesting.turn # session.turn
                                \/ /\ Names(ingesting.event)
                                   /\ ingesting.event.agent \in replaced)
              ELSE session' = session /\ disturbed' = disturbed
<1> DEFINE e == ingesting.event
           Set(status, turn) == SetSession(status, turn, ingesting.asking)
<1>1. /\ ingesting.at = "read" /\ e \in Event
      /\ ingesting.turn \in Turn \cup {None} /\ ingesting'.at = "idle"
  BY DEF Ingest, TypeOK, Idle
<1>2. CASE IngestLifecycle
  <2>1. \/ e.type = "state" /\ Set(e.state, ingesting.turn)
        \/ e.type = "announced" /\ ingesting.turn = None /\ Set("ready", None)
        \/ e.type = "announced" /\ ingesting.turn # None
           /\ Set("running", ingesting.turn)
        \/ e.type = "started" /\ Set("running", e.turn)
        \/ e.type = "completed" /\ Set("ready", None)
        \/ e.type = "exited" /\ Set("stopped", None)
        \/ e.type \in {"failed", "error"} /\ Set("error", None)
        \/ e.type = "turnError" /\ Set("error", e.turn)
    BY <1>2 DEF IngestLifecycle, SetError, Lifecycle
  <2>2. /\ e.type \in Lifecycle /\ ShouldApply(e)
        /\ Disturbed(\/ ingesting.turn # session.turn
                     \/ Names(e) /\ e.agent \in replaced)
    BY <1>2 DEF IngestLifecycle, SetError, Names
  <2>3. Applies(ingesting)
    BY <1>1, <2>2 DEF Applies, ShouldApply
  <2> QED
    BY <1>1, <2>1, <2>2, <2>3
<1>3. CASE IgnoreLifecycle
  BY <1>1, <1>3 DEF IgnoreLifecycle, ShouldApply, Applies
<1>4. CASE IngestApproval
  BY <1>1, <1>4 DEF IngestApproval, Applies, Lifecycle
<1> QED
  BY <1>2, <1>3, <1>4 DEF Ingest

(* The turns that the session shows, or may come to show.                  *)
SessionTurns ==
    {session.turn}
    \cup (IF ingesting.at = "read" THEN {ingesting.turn} ELSE {})
    \cup {e.turn : e \in Starts}

LEMMA SessionTurnsStep ==
    ASSUME TypeOK, [Next]_vars,
           NEW t \in SessionTurns', t # None
    PROVE  t \in SessionTurns \/ \E p \in Agent : t \in HeldBy(agents[p])
<1>1. CASE t \in {e.turn : e \in Starts'}
  <2>1. ASSUME NEW p \in Agent, TakeTurn(p)
        PROVE  Head(agents[p].inbox) \in HeldBy(agents[p])
    <3>1. agents[p].inbox \in Seq(Turn) /\ agents[p].inbox # <<>>
      BY <2>1 DEF TypeOK, Process, TakeTurn
    <3>2. /\ Len(agents[p].inbox) \in Nat \ {0} /\ Head(agents[p].inbox) \in Turn
          /\ Head(agents[p].inbox) = agents[p].inbox[1]
      BY <3>1, EmptySeq, HeadTailProperties
    <3> QED
      BY <3>2 DEF HeldBy
  <2>2. \/ t \in {e.turn : e \in Starts}
        \/ \E p \in Agent : TakeTurn(p) /\ t = Head(agents[p].inbox)
        \/ \E p \in Agent : agents[p].turn # None /\ t = agents[p].turn
    BY <1>1, StartsStep DEF About
  <2>3. \A p \in Agent : agents[p].turn # None => agents[p].turn \in HeldBy(agents[p])
    BY DEF TypeOK, Process, HeldBy
  <2> QED
    BY <2>1, <2>2, <2>3 DEF SessionTurns
<1>2. CASE \/ t = session'.turn
           \/ ingesting'.at = "read" /\ t = ingesting'.turn
  <2>1. CASE session' = session /\ ingesting' = ingesting
    BY <1>2, <2>1 DEF SessionTurns
  <2>2. CASE ReadEvent
    BY <1>2, <2>2 DEF ReadEvent, thread, SessionTurns
  <2>3. CASE Ingest
    <3>1. ingesting'.at # "read" /\ t = session'.turn
      BY <1>2, <2>3 DEF Ingest, Idle
    <3>2. CASE Applies(ingesting)
      <4>1. /\ session'.turn \in {None, ingesting.turn}
               \/ (Names(ingesting.event) /\ session'.turn = ingesting.event.turn)
        BY <2>3, <3>2, IngestSession DEF SetSession, Names
      <4>2. Names(ingesting.event) => ingesting.event \in Starts
        BY <2>3, IngestSession DEF Starts, StartsIn
      <4>3. ingesting.at = "read"
        BY <2>3, IngestSession
      <4> QED
        BY <3>1, <4>1, <4>2, <4>3 DEF SessionTurns
    <3>3. CASE ~ Applies(ingesting)
      <4>1. session' = session
        BY <2>3, <3>3, IngestSession
      <4> QED
        BY <3>1, <4>1 DEF SessionTurns
    <3> QED
      BY <3>2, <3>3
  <2>4. CASE Bind \/ SetStopped
    <3>1. session'.turn = None /\ ingesting' = ingesting
      BY <2>4 DEF Bind, SetStopped, SetSession, pipeline
    <3> QED
      BY <1>2, <3>1 DEF SessionTurns
  <2>5. CASE Crash \/ Shutdown
    <3>1. session' = session /\ ingesting'.at # "read"
      BY <2>5 DEF Crash, Shutdown, Down, thread, Idle
    <3> QED
      BY <1>2, <3>1 DEF SessionTurns
  <2>6. CASE \/ AskTurn \/ Interrupt \/ Stop \/ SetRuntimeMode
             \/ \E u \in Turn : Answer(u)
             \/ UNCHANGED vars
    BY <2>1, <2>6 DEF AskTurn, Interrupt, Stop, SetRuntimeMode, AskTo, Answer, thread,
                      pipeline, vars
  <2>7. CASE \/ Take \/ SpawnFails \/ OpenFails \/ Record \/ Recover \/ RouteFails
             \/ SendTurn \/ SendFails \/ SendTimesOut \/ Report \/ InterruptTurn
             \/ RespondToRequest \/ StopSession
    BY <2>1, <2>7 DEF Take, SpawnFails, OpenFails, Record, Recover, RouteFails, SendTurn,
                      SendFails, SendTimesOut, Report, InterruptTurn, RespondToRequest,
                      StopSession, thread, pipeline
  <2>8. CASE \E p \in Agent : \/ Spawn(p) \/ Opened(p) \/ TakeTurn(p)
                              \/ RequestApproval(p) \/ EndTurn(p) \/ Exit(p)
                              \/ FailTurn(p) \/ RuntimeError(p) \/ ThreadStarted(p)
    BY <2>1, <2>8 DEF Spawn, Opened, TakeTurn, RequestApproval, EndTurn, Exit, FailTurn,
                      RuntimeError, ThreadStarted, thread
  <2> QED
    BY <2>2, <2>3, <2>4, <2>5, <2>6, <2>7, <2>8 DEF Next, Reactor
<1>3. \/ t = session'.turn
      \/ ingesting'.at = "read" /\ t = ingesting'.turn
      \/ t \in {e.turn : e \in Starts'}
  BY DEF SessionTurns
<1> QED
  BY <1>1, <1>2, <1>3

(* A turn is in one place: queued, about to be sent, with one agent, or    *)
(* left over; and the next one that is asked for is nowhere yet.           *)
Ahead == QueuedIn(intents) \cup UnsentIn(reactor)
Apart ==
    /\ Distinct(intents)
    /\ QueuedIn(intents) \cap UnsentIn(reactor) = {}
    /\ \A p \in Agent :
          HeldBy(agents[p]) \cap Ahead = {} /\ HeldBy(agents[p]) \cap leftovers = {}
    /\ \A p, q \in Agent : p # q => HeldBy(agents[p]) \cap HeldBy(agents[q]) = {}
    /\ leftovers \cap Ahead = {}
Known ==
    /\ \A t \in Ahead \cup leftovers \cup SessionTurns : t <= asked
    /\ \A p \in Agent : \A t \in HeldBy(agents[p]) : t <= asked
TurnInv == Apart /\ Known

LEMMA TurnInit == TypeOK /\ Init => TurnInv
<1> SUFFICES ASSUME TypeOK, Init PROVE TurnInv
  OBVIOUS
<1>1. /\ intents = <<>> /\ reactor.at = "idle" /\ leftovers = {} /\ asked = 0
      /\ session.turn = None /\ events = <<>> /\ ingesting.at = "idle"
      /\ agents = [p \in Agent |-> Unborn]
  BY DEF Init, Idle, NoSession
<1>2. Ahead = {} /\ Distinct(intents)
  BY <1>1 DEF Ahead, QueuedIn, UnsentIn, Sending, Distinct
<1>3. \A p \in Agent : HeldBy(agents[p]) = {}
  BY <1>1 DEF HeldBy, Unborn, None, Turn
<1>4. Starts = {}
  BY <1>1 DEF Starts, StartsIn
<1>5. SessionTurns = {None}
  BY <1>1, <1>4 DEF SessionTurns
<1> QED
  BY <1>1, <1>2, <1>3, <1>5 DEF TurnInv, Apart, Known, None, Ahead

(* Steps after which no turn is in another place.                          *)
LEMMA TurnKept ==
    ASSUME TypeOK, TurnInv, [Next]_vars, Distinct(intents'),
           QueuedIn(intents') \subseteq QueuedIn(intents),
           UnsentIn(reactor') \subseteq UnsentIn(reactor),
           \A p \in Agent : HeldBy(agents'[p]) \subseteq HeldBy(agents[p]),
           leftovers' = leftovers, asked' = asked
    PROVE  TurnInv'
<1>1. Apart'
  BY DEF TurnInv, Apart, Ahead
<1>2. asked \in Nat
  BY SessionsAssumption DEF TypeOK
<1>3. \A t \in SessionTurns' : t <= asked
  BY <1>2, SessionTurnsStep DEF TurnInv, Known, None
<1>4. Known'
  BY <1>3 DEF TurnInv, Known, Ahead
<1> QED
  BY <1>1, <1>4 DEF TurnInv

LEMMA AskTurnApart ==
    ASSUME TypeOK, TurnInv, AskTurn
    PROVE  TurnInv'
<1> DEFINE i == [type |-> "turn", turn |-> asked']
<1>1. /\ Ask(i) /\ intents \in Seq(Intent) /\ asked \in Nat /\ asked' = asked + 1
      /\ asked' \in Turn /\ i \in Intent
  BY SessionsAssumption DEF AskTurn, TypeOK, Turn, Intent, TurnIntent
<1>2. /\ reactor' = reactor /\ agents' = agents /\ leftovers' = leftovers
      /\ session' = session /\ ingesting' = ingesting /\ events' = events
  BY DEF AskTurn, history, thread, pipeline
<1>3. SessionTurns' = SessionTurns
  BY <1>2 DEF SessionTurns, Starts
<1>4. \A t \in Turn : Says(i, "turn", t) <=> t = asked'
  BY DEF Says
<1>5. \A t \in Ahead \cup leftovers \cup SessionTurns : t # asked' /\ t <= asked'
  <2>1. \A t \in SessionTurns : t \in Turn \cup {None}
    BY <1>1, EventFields DEF SessionTurns, TypeOK, Starts, StartsIn, Names, Idle
  <2>2. \A t \in Ahead \cup leftovers : t \in Turn
    BY DEF Ahead, QueuedIn, UnsentIn, TypeOK
  <2> QED
    BY <1>1, <2>1, <2>2 DEF TurnInv, Known, None, Turn
<1>6. \A p \in Agent : \A t \in HeldBy(agents[p]) : t # asked' /\ t <= asked'
  BY <1>1 DEF TurnInv, Known, HeldBy, Turn
<1>7. Ahead' \subseteq Ahead \cup {asked'} /\ Distinct(intents')
  <2>1. QueuedIn(intents') \subseteq QueuedIn(intents) \cup {asked'}
    BY <1>1, <1>4, QueueAsk
  <2>2. \A t \in QueuedIn(intents) : ~ Says(i, "turn", t)
    BY <1>4, <1>5 DEF Ahead, QueuedIn
  <2>3. Distinct(intents')
    BY <1>1, <2>2, QueueAsk DEF TurnInv, Apart
  <2> QED
    BY <1>2, <2>1, <2>3 DEF Ahead
<1>8. QueuedIn(intents') \cap UnsentIn(reactor') = {}
  <2>1. QueuedIn(intents') \subseteq QueuedIn(intents) \cup {asked'}
    BY <1>1, <1>4, QueueAsk
  <2> QED
    BY <1>2, <1>5, <2>1 DEF TurnInv, Apart, Ahead
<1>9. Apart'
  BY <1>2, <1>5, <1>6, <1>7, <1>8 DEF TurnInv, Apart
<1>10. Known'
  BY <1>1, <1>2, <1>3, <1>5, <1>6, <1>7 DEF Known
<1> QED
  BY <1>9, <1>10 DEF TurnInv

LEMMA TakeApart ==
    ASSUME TypeOK, TurnInv, Take
    PROVE  TurnInv'
<1>1. /\ agents' = agents /\ leftovers' = leftovers /\ asked' = asked
      /\ session' = session /\ ingesting' = ingesting /\ events' = events
  BY DEF Take, fates, thread, pipeline
<1>2. SessionTurns' = SessionTurns
  BY <1>1 DEF SessionTurns, Starts
<1>3. /\ Ahead' \subseteq Ahead /\ Distinct(intents')
      /\ QueuedIn(intents') \cap UnsentIn(reactor') = {}
  BY QueueTake DEF TurnInv, Apart, Ahead
<1>4. Apart'
  BY <1>1, <1>3 DEF TurnInv, Apart
<1>5. Known'
  BY <1>1, <1>2, <1>3 DEF TurnInv, Known
<1> QED
  BY <1>4, <1>5 DEF TurnInv

LEMMA SendApart ==
    ASSUME TypeOK, TurnInv, SendTurn
    PROVE  TurnInv'
<1> DEFINE t == reactor.intent.turn
<1>1. /\ intents' = intents /\ leftovers' = leftovers /\ asked' = asked
      /\ session' = session /\ ingesting' = ingesting /\ events' = events
      /\ reactor'.at = "sent"
  BY DEF SendTurn, fates, thread, pipeline, history
<1>2. /\ owner \in Agent /\ agents \in [Agent -> Process]
      /\ reactor.at \in {"use", "call"} /\ reactor.intent.type = "turn"
  BY DEF SendTurn, Calls, TypeOK
<1>3. t \in Turn
  BY <1>2, StepTypes, IntentTypes DEF TypeOK
<1>4. t \in UnsentIn(reactor) /\ UnsentIn(reactor') = {}
  BY <1>1, <1>2, <1>3 DEF UnsentIn, Sending, Says
<1>5. HeldBy(agents'[owner]) \subseteq HeldBy(agents[owner]) \cup {t}
  <2>1. /\ agents'[owner].inbox = Append(agents[owner].inbox, t)
        /\ agents'[owner].turn = agents[owner].turn
        /\ agents[owner].inbox \in Seq(Turn)
    BY <1>2 DEF SendTurn, Process
  <2>2. /\ Len(agents'[owner].inbox) = Len(agents[owner].inbox) + 1
        /\ agents'[owner].inbox[Len(agents[owner].inbox) + 1] = t
        /\ \A k \in 1..Len(agents[owner].inbox) :
              agents'[owner].inbox[k] = agents[owner].inbox[k]
        /\ Len(agents[owner].inbox) \in Nat
    BY <1>3, <2>1, AppendProperties
  <2>3. \A k \in 1..Len(agents'[owner].inbox) :
           k \in 1..Len(agents[owner].inbox) \/ k = Len(agents[owner].inbox) + 1
    BY <2>2
  <2> QED
    BY <2>1, <2>2, <2>3 DEF HeldBy
<1>6. \A p \in Agent \ {owner} : agents'[p] = agents[p]
  BY <1>2 DEF SendTurn
<1>7. /\ QueuedIn(intents') = QueuedIn(intents) /\ Ahead' = QueuedIn(intents)
      /\ SessionTurns' = SessionTurns
  BY <1>1, <1>4 DEF Ahead, SessionTurns, Starts
<1> HIDE DEF t
<1>8. t \notin QueuedIn(intents) /\ t \notin leftovers /\ t <= asked
      /\ \A p \in Agent : t \notin HeldBy(agents[p])
  BY <1>4 DEF TurnInv, Apart, Known, Ahead
<1>9. Apart'
  BY <1>1, <1>4, <1>5, <1>6, <1>7, <1>8 DEF TurnInv, Apart, Ahead
<1>10. Known'
  BY <1>1, <1>5, <1>6, <1>7, <1>8 DEF TurnInv, Known, Ahead
<1> QED
  BY <1>9, <1>10 DEF TurnInv

LEMMA DownApart ==
    ASSUME TypeOK, TurnInv, Crash \/ Shutdown
    PROVE  TurnInv'
<1>1. /\ intents' = <<>> /\ reactor'.at = "idle" /\ asked' = asked
      /\ leftovers' = leftovers \cup ({session.turn} \ {None})
      /\ session' = session /\ events' = <<>> /\ ingesting'.at # "read"
      /\ agents' = [p \in Agent |-> IF agents[p] = Unborn THEN Unborn ELSE Dead]
  BY DEF Crash, Shutdown, Down, thread, Idle
<1>2. Ahead' = {} /\ QueuedIn(intents') = {} /\ Distinct(intents')
  BY <1>1 DEF Ahead, QueuedIn, UnsentIn, Sending, Distinct
<1>3. \A p \in Agent : HeldBy(agents'[p]) = {}
  BY <1>1 DEF HeldBy, Unborn, Dead, None, Turn
<1>4. Starts' = {}
  BY <1>1 DEF Starts, StartsIn
<1>5. SessionTurns' = {session.turn} /\ session.turn \in SessionTurns
  BY <1>1, <1>4 DEF SessionTurns
<1>6. Apart'
  BY <1>2, <1>3 DEF Apart, Ahead
<1>7. Known'
  BY <1>1, <1>2, <1>3, <1>5 DEF TurnInv, Known
<1> QED
  BY <1>6, <1>7 DEF TurnInv

LEMMA TurnStep == TypeOK /\ TurnInv /\ [Next]_vars => TurnInv'
<1> SUFFICES ASSUME TypeOK, TurnInv, [Next]_vars,
                    ~ (AskTurn \/ Take \/ SendTurn \/ Crash \/ Shutdown)
             PROVE  TurnInv'
  BY AskTurnApart, TakeApart, SendApart, DownApart
<1>1. \A p \in Agent : HeldBy(agents'[p]) \subseteq HeldBy(agents[p])
  BY SlimStep DEF Slims
<1>2. UnsentIn(reactor') \subseteq UnsentIn(reactor)
  BY GoesOnStep DEF GoesOn, UnsentIn, Sending
<1>3. CASE Interrupt \/ Stop \/ SetRuntimeMode \/ \E t \in Turn : Answer(t)
  <2>1. /\ intents \in Seq(Intent) /\ leftovers' = leftovers /\ asked' = asked
        /\ \E i \in Intent : i.type # "turn" /\ Ask(i)
    BY <1>3 DEF Interrupt, Stop, SetRuntimeMode, AskTo, Answer, history, fates, Intent,
                TypeOK
  <2>2. Distinct(intents') /\ QueuedIn(intents') \subseteq QueuedIn(intents)
    BY <2>1, QueueAsk DEF Says, TurnInv, Apart
  <2> QED
    BY <1>1, <1>2, <2>1, <2>2, TurnKept
<1>4. ASSUME intents' = intents, leftovers' = leftovers, asked' = asked
      PROVE  TurnInv'
  BY <1>1, <1>2, <1>4, TurnKept DEF TurnInv, Apart
<1>5. CASE \/ SpawnFails \/ OpenFails \/ Record \/ Bind \/ Recover \/ RouteFails
           \/ SendFails \/ SendTimesOut \/ Report \/ InterruptTurn
           \/ RespondToRequest \/ StopSession \/ SetStopped
  <2>1. intents' = intents /\ leftovers' = leftovers /\ asked' = asked
    BY <1>5 DEF SpawnFails, OpenFails, Record, Bind, Recover, RouteFails,
       SendFails, SendTimesOut, Report, InterruptTurn, RespondToRequest,
       StopSession, SetStopped, fates, history
  <2> QED
    BY <1>4, <2>1
<1>6. CASE \/ \E p \in Agent : \/ Spawn(p) \/ Opened(p) \/ TakeTurn(p)
                               \/ RequestApproval(p) \/ EndTurn(p) \/ Exit(p)
                               \/ FailTurn(p) \/ RuntimeError(p) \/ ThreadStarted(p)
           \/ ReadEvent \/ Ingest \/ UNCHANGED vars
  <2>1. intents' = intents /\ leftovers' = leftovers /\ asked' = asked
    BY <1>6 DEF Spawn, Opened, TakeTurn, RequestApproval, EndTurn, Exit, FailTurn,
                RuntimeError, ThreadStarted, ReadEvent, Ingest, vars, fates, history
  <2> QED
    BY <1>4, <2>1
<1> QED
  BY <1>3, <1>5, <1>6 DEF Next, Reactor

(* How the reactor comes to what it does.                                  *)
Opening == {"opening", "record", "bind"}
Binding == reactor.at \in Opening /\ reactor.bind

LEMMA WorkAt ==
    ASSUME TypeOK, [Next]_vars
    PROVE  /\ reactor'.at \in Opening =>
                 \/ \E p \in Agent : Spawn(p) /\ reactor'.bind = reactor.bind
                 \/ /\ reactor.at \in Opening
                    /\ reactor'.agent = reactor.agent /\ reactor'.bind = reactor.bind
           /\ reactor'.at = "start" =>
                 reactor' = reactor \/ reactor'.bind \/ Recover
           /\ reactor'.at = "stopped" =>
                 \/ reactor' = reactor \/ StopSession
                 \/ Take /\ (disturbed' \/ owner = None)
           /\ Binding => Binding' \/ Bind \/ OpenFails \/ Crash \/ Shutdown
<1>1. reactor \in Step /\ disturbed \in BOOLEAN /\ owner \in Agent \cup {None}
  BY DEF TypeOK
<1> USE DEF Opening, Binding
<1>2. /\ Done => reactor'.at = "idle"
      /\ \A at : Goto(at) => reactor'.at = at
      /\ Fail => reactor'.at \in {"idle", "report"}
  BY DEF Done, Goto, Fail, Idle
<1>3. CASE Take
  <2>1. reactor.at = "idle"
    BY <1>3 DEF Take, Idle
  <2>2. \/ reactor'.at \in {"idle", "use", "stop", "stopped"}
        \/ reactor'.at = "start" /\ reactor'.bind
    BY <1>3 DEF Take, Start, Done, Idle
  <2>3. reactor'.at = "stopped" => Head(intents).type = "stop" /\ Stopped
    BY <1>3 DEF Take, Start, Done, Idle
  <2>4. reactor'.at = "stopped" => disturbed' \/ owner = None
    BY <1>1, <1>3, <2>3 DEF Take, Disturbed
  <2> QED
    BY <1>3, <2>1, <2>2, <2>4
<1>4. CASE \E p \in Agent : Spawn(p)
  <2>1. reactor.at = "start"
    BY <1>4 DEF Spawn
  <2>2. reactor \in [at : {"start"}, intent : Intent, agent : {None},
                     asking : BOOLEAN, cursor : Agent \cup {None}, bind : BOOLEAN]
    BY <1>1, <2>1 DEF Step, Idle
  <2> QED
    BY <1>4, <2>1, <2>2 DEF Spawn
<1>5. CASE Record \/ \E p \in Agent : Opened(p)
  <2>1. reactor.at \in {"opening", "record"}
    BY <1>5 DEF Record, Opened
  <2>2. reactor \in [at : {"opening", "record", "bind"}, intent : Intent,
                     agent : Agent, asking : BOOLEAN,
                     cursor : Agent \cup {None}, bind : BOOLEAN]
    BY <1>1, <2>1 DEF Step, Idle
  <2>3. CASE Record
    BY <1>2, <2>1, <2>2, <2>3 DEF Record
  <2>4. CASE \E p \in Agent : Opened(p)
    BY <2>1, <2>2, <2>4 DEF Opened
  <2> QED
    BY <1>5, <2>3, <2>4
<1>6. CASE SpawnFails \/ OpenFails \/ Bind \/ Recover \/ RouteFails \/ SendTimesOut
  BY <1>2, <1>6 DEF SpawnFails, Bind, OpenFails, RouteFails, SendTimesOut, Start, Recover
<1>7. CASE SendTurn \/ SendFails \/ Report \/ InterruptTurn \/ RespondToRequest
  BY <1>2, <1>7 DEF SendTurn, SendFails, Report, InterruptTurn, RespondToRequest, Calls
<1>8. CASE StopSession \/ SetStopped \/ \E p \in Agent : TakeTurn(p)
  <2>1. CASE StopSession \/ SetStopped
    BY <1>2, <2>1 DEF StopSession, SetStopped
  <2>2. ASSUME NEW p \in Agent, TakeTurn(p)
        PROVE  (reactor.at = "sent" /\ Done) \/ reactor' = reactor
    BY <2>2 DEF TakeTurn
  <2> QED
    BY <1>2, <1>8, <2>1, <2>2
<1>9. CASE \E p \in Agent : RequestApproval(p) \/ EndTurn(p) \/ FailTurn(p) \/ Exit(p)
  BY <1>9 DEF RequestApproval, EndTurn, FailTurn, Exit
<1>10. CASE Crash \/ Shutdown
  BY <1>10 DEF Crash, Shutdown, Down, Idle
<1>11. CASE \/ AskTurn \/ Interrupt \/ Stop \/ SetRuntimeMode
            \/ \E t \in Turn : Answer(t)
            \/ ReadEvent \/ Ingest \/ UNCHANGED vars
            \/ \E p \in Agent : RuntimeError(p) \/ ThreadStarted(p)
  BY <1>11, OutsideKeeps
<1> QED
  BY <1>3, <1>4, <1>5, <1>6, <1>7, <1>8, <1>9, <1>10, <1>11 DEF Next, Reactor

(* The manager's entry changes when a process is spawned, and goes when    *)
(* one is killed.                                                          *)
LEMMA OwnerStep ==
    ASSUME TypeOK, [Next]_vars
    PROVE  /\ \/ owner' = owner
              \/ owner' = None /\ (OpenFails \/ StopSession \/ Crash \/ Shutdown
                                   \/ \E p \in Agent : Exit(p))
              \/ \E p \in Agent : Spawn(p)
           /\ replaced' = replaced \/ \E p \in Agent : Spawn(p)
           /\ disturbed => disturbed'
<1>1. disturbed \in BOOLEAN
  BY DEF TypeOK
<1>2. CASE \/ AskTurn \/ Interrupt \/ Stop \/ SetRuntimeMode
           \/ \E t \in Turn : Answer(t)
           \/ ReadEvent \/ UNCHANGED vars
  <2>1. owner' = owner /\ replaced' = replaced
    BY <1>2, OutsideKeeps
  <2>2. disturbed' = disturbed
    BY <1>2 DEF AskTurn, Interrupt, Stop, SetRuntimeMode, AskTo, Answer, ReadEvent,
                history, vars
  <2> QED
    BY <2>1, <2>2
<1>3. CASE Ingest
  <2>1. owner' = owner /\ replaced' = replaced
    BY <1>3, OutsideKeeps
  <2>2. disturbed => disturbed'
    BY <1>1, <1>3, IngestSession DEF Disturbed
  <2> QED
    BY <2>1, <2>2
<1>4. CASE \/ Take \/ SpawnFails \/ Record \/ Bind \/ Recover \/ RouteFails
           \/ SendTurn \/ SendFails \/ SendTimesOut \/ Report
           \/ InterruptTurn \/ RespondToRequest \/ SetStopped
           \/ \E p \in Agent : \/ TakeTurn(p) \/ RequestApproval(p)
                              \/ EndTurn(p) \/ FailTurn(p)
  <2>1. owner' = owner /\ replaced' = replaced
    BY <1>4, CallsKeep DEF AgentsKept
  <2>2. CASE Take \/ SpawnFails
    BY <2>1, <2>2 DEF Take, SpawnFails, Disturbed
  <2>3. ASSUME \/ Record \/ Bind \/ Recover \/ RouteFails
               \/ SendTurn \/ SendFails \/ SendTimesOut \/ Report
               \/ InterruptTurn \/ RespondToRequest \/ SetStopped
        PROVE  disturbed' = disturbed
    BY <2>3 DEF Record, Bind, Recover, RouteFails, SendTurn, SendFails,
       SendTimesOut, Report, InterruptTurn, RespondToRequest, SetStopped, history
  <2>4. ASSUME NEW p \in Agent,
               TakeTurn(p) \/ RequestApproval(p) \/ EndTurn(p) \/ FailTurn(p)
        PROVE  disturbed' = disturbed
    BY <2>4 DEF TakeTurn, RequestApproval, EndTurn, FailTurn, history
  <2> QED
    BY <1>4, <2>1, <2>2, <2>3, <2>4
<1>5. CASE OpenFails \/ StopSession \/ Crash \/ Shutdown
  BY <1>5 DEF OpenFails, StopSession, Crash, Shutdown, Down, history
<1>6. CASE \E p \in Agent : Exit(p)
  BY <1>6 DEF Exit, Disturbed
<1>7. ASSUME NEW p \in Agent, Spawn(p) PROVE disturbed' = disturbed
  BY <1>7 DEF Spawn
<1>8. ASSUME NEW p \in Agent, Opened(p)
      PROVE  owner' = owner /\ replaced' = replaced /\ disturbed' = disturbed
  BY <1>8 DEF Opened
<1>9. ASSUME NEW p \in Agent, RuntimeError(p) \/ ThreadStarted(p)
      PROVE  owner' = owner /\ replaced' = replaced /\ (disturbed => disturbed')
  BY <1>1, <1>9 DEF RuntimeError, ThreadStarted, Disturbed, history
<1> QED
  BY <1>2, <1>3, <1>4, <1>5, <1>6, <1>7, <1>8, <1>9 DEF Next, Reactor

(* Before a session is bound, its agent has no turn and reported none; a   *)
(* session is recovered only where there is none.                          *)
Fresh ==
    /\ \A e \in Starts : agents[e.agent].state # "unborn"
    /\ reactor.at \in Opening =>
          /\ owner \in {None, reactor.agent}
          /\ agents[reactor.agent].inbox = <<>> /\ agents[reactor.agent].turn = None
          /\ \A e \in Starts : e.agent # reactor.agent
    /\ reactor.at = "start" /\ ~ reactor.bind => owner = None

LEMMA FreshInit == Init => Fresh
  BY DEF Init, Fresh, Starts, StartsIn, Opening, Idle

LEMMA FreshStep ==
    ASSUME TypeOK, Fresh, [Next]_vars
    PROVE  Fresh'
<1>1. /\ agents \in [Agent -> Process] /\ reactor \in Step
      /\ \A e \in Starts : e \in Event /\ e.agent \in Agent
  BY EventFields DEF TypeOK, Starts, StartsIn, Names
<1>2. \A p \in Agent : agents[p].state # "unborn" => agents'[p].state # "unborn"
  <2>1. CASE SendTurn
    BY <2>1, CallsKeep DEF AgentsKept
  <2> QED
    BY <2>1, SlimStep DEF Slims
<1>3. \A e \in Starts' :
         \/ e \in Starts
         \/ \E p \in Agent : TakeTurn(p) /\ e.agent = p
         \/ \E p \in Agent :
               RuntimeError(p) /\ agents[p].turn # None /\ e.agent = p
  BY StartsStep DEF About
<1>4. \A p \in Agent :
         /\ TakeTurn(p) => agents[p].state # "unborn" /\ agents[p].inbox # <<>>
         /\ RuntimeError(p) => agents[p].state # "unborn"
  BY DEF TakeTurn, RuntimeError, Alive
<1>5. \A e \in Starts' : agents'[e.agent].state # "unborn"
  BY <1>1, <1>2, <1>3, <1>4 DEF Fresh
<1>6. ASSUME reactor'.at \in Opening
      PROVE  /\ owner' \in {None, reactor'.agent}
             /\ agents'[reactor'.agent].inbox = <<>>
             /\ agents'[reactor'.agent].turn = None
             /\ \A e \in Starts' : e.agent # reactor'.agent
  <2>1. ASSUME NEW p \in Agent, Spawn(p)
        PROVE  /\ owner' \in {None, reactor'.agent}
               /\ agents'[reactor'.agent].inbox = <<>>
               /\ agents'[reactor'.agent].turn = None
               /\ \A e \in Starts' : e.agent # reactor'.agent
    <3>1. reactor \in [at : {"start"}, intent : Intent, agent : {None},
                       asking : BOOLEAN, cursor : Agent \cup {None}, bind : BOOLEAN]
      BY <1>1, <2>1 DEF Step, Idle, Spawn
    <3>2. reactor'.agent = p /\ owner' = p /\ agents[p] = Unborn
      BY <2>1, <3>1 DEF Spawn
    <3>3. agents'[p].inbox = <<>> /\ agents'[p].turn = None
      BY <1>1, <2>1 DEF Spawn, Unborn
    <3>4. agents[p].state = "unborn" /\ agents[p].inbox = <<>>
      BY <3>2 DEF Unborn
    <3>5. \A e \in Starts' : e.agent # p
      BY <1>1, <1>3, <1>4, <3>4 DEF Fresh
    <3> QED
      BY <3>2, <3>3, <3>5
  <2>2. CASE ~ \E p \in Agent : Spawn(p)
    <3>1. reactor.at \in Opening /\ reactor'.agent = reactor.agent
      BY <1>6, <2>2, WorkAt
    <3>2. reactor.agent \in Agent
      BY <1>1, <3>1, StepTypes DEF Opening
    <3>3. owner' \in {owner, None} /\ owner \in {None, reactor.agent}
      BY <2>2, <3>1, OwnerStep DEF Fresh
    <3>4. ~ SendTurn
      BY <3>1 DEF SendTurn, Calls, Opening
    <3>5. agents'[reactor.agent].inbox = <<>> /\ agents'[reactor.agent].turn = None
      BY <3>1, <3>2, <3>4, SlimStep DEF Slims, Fresh
    <3>6. \A e \in Starts' : e.agent # reactor.agent
      BY <1>3, <1>4, <3>1 DEF Fresh
    <3> QED
      BY <3>1, <3>3, <3>5, <3>6
  <2> QED
    BY <2>1, <2>2
<1>7. ASSUME reactor'.at = "start", ~ reactor'.bind PROVE owner' = None
  <2>1. \A p \in Agent : ~ Spawn(p)
    <3>1. \A p \in Agent : Spawn(p) => reactor'.at = "opening"
      <4> SUFFICES ASSUME NEW p \in Agent, Spawn(p) PROVE reactor'.at = "opening"
        OBVIOUS
      <4>1. reactor \in [at : {"start"}, intent : Intent, agent : {None},
                         asking : BOOLEAN, cursor : Agent \cup {None}, bind : BOOLEAN]
        BY <1>1 DEF Step, Idle, Spawn
      <4> QED
        BY <4>1 DEF Spawn
    <3> QED
      BY <1>7, <3>1
  <2>2. owner' \in {owner, None}
    BY <2>1, OwnerStep
  <2>3. Recover => owner = None
    BY DEF Recover
  <2> QED
    BY <1>7, <2>2, <2>3, WorkAt DEF Fresh
<1> QED
  BY <1>5, <1>6, <1>7 DEF Fresh

(* While nothing disturbed the session: a process that lives is the        *)
(* manager's or a replaced one, a stopped session has none, and what was   *)
(* started and is not going on will be ended.                              *)
Undisturbed ==
    ~ disturbed =>
       /\ \A p \in Agent : Alive(p) => p = owner \/ p \in replaced
       /\ reactor.at = "stopped" => owner = None
       /\ Followed(events, ingesting, replaced, owner)

LEMMA UndisturbedInit == Init => Undisturbed
  BY DEF Init, Undisturbed, Followed, Alive, Unborn, Idle

LEMMA LivingStep ==
    ASSUME TypeOK, Undisturbed, [Next]_vars, ~ disturbed'
    PROVE  /\ \A p \in Agent : Alive(p)' => p = owner' \/ p \in replaced'
           /\ reactor'.at = "stopped" => owner' = None
<1>1. /\ agents \in [Agent -> Process] /\ owner \in Agent \cup {None}
      /\ ~ disturbed
      /\ \A p \in Agent : Alive(p) => p = owner \/ p \in replaced
      /\ reactor.at = "stopped" => owner = None
  BY OwnerStep DEF TypeOK, Undisturbed
<1>2. ASSUME NEW p \in Agent, Spawn(p)
      PROVE  /\ \A q \in Agent : Alive(q)' => q = owner' \/ q \in replaced'
             /\ reactor'.at # "stopped"
  <2>1. /\ owner' = p /\ replaced' = replaced \cup ({owner} \ {None})
        /\ \A q \in Agent \ {p} : agents'[q] = agents[q]
    BY <1>1, <1>2 DEF Spawn
  <2>2. reactor.at = "start" /\ reactor'.at # "stopped"
    <3>1. reactor \in [at : {"start"}, intent : Intent, agent : {None},
                       asking : BOOLEAN, cursor : Agent \cup {None}, bind : BOOLEAN]
      BY <1>2 DEF TypeOK, Step, Idle, Spawn
    <3> QED
      BY <1>2, <3>1 DEF Spawn
  <2>3. None \notin Agent
    BY DEF None, Agent
  <2> QED
    BY <1>1, <2>1, <2>2, <2>3 DEF Alive
<1>3. ASSUME \A p \in Agent : ~ Spawn(p)
      PROVE  reactor'.at = "stopped" => owner' = None
  <2>1. owner' \in {owner, None}
    BY <1>3, OwnerStep
  <2>2. StopSession => owner' = None
    BY DEF StopSession
  <2> QED
    BY <1>1, <2>1, <2>2, WorkAt
<1>4. CASE OpenFails \/ StopSession
  <2>1. owner' = None /\ replaced' = replaced
    BY <1>4 DEF OpenFails, StopSession, history
  <2>2. \/ owner = None /\ agents' = agents
        \/ owner # None /\ Kill(owner)
    BY <1>4 DEF OpenFails, StopSession
  <2>3. \A q \in Agent :
           \/ q # owner /\ agents'[q] = agents[q]
           \/ q = owner /\ agents'[q].state = "dead"
    <3>1. None \notin Agent /\ Dead.state = "dead"
      BY DEF None, Agent, Dead, Unborn
    <3>2. CASE owner = None
      BY <2>2, <3>1, <3>2
    <3>3. CASE owner # None
      BY <1>1, <2>2, <3>1, <3>3, KillKeeps
    <3> QED
      BY <3>2, <3>3
  <2>4. \A p \in Agent : ~ Spawn(p)
    BY <1>4 DEF OpenFails, StopSession, Spawn
  <2> QED
    BY <1>1, <1>3, <2>1, <2>3, <2>4 DEF Alive
<1>5. ASSUME NEW p \in Agent, Exit(p)
      PROVE  \A q \in Agent : Alive(q)' => q = owner' \/ q \in replaced'
  <2>1. /\ owner' = None /\ replaced' = replaced /\ owner \in {None, p}
        /\ agents'[p].state = "dead"
        /\ \A q \in Agent \ {p} : agents'[q] = agents[q]
    BY <1>1, <1>5, KillKeeps DEF Exit, Dead, Unborn, Disturbed
  <2> QED
    BY <1>1, <2>1 DEF Alive
<1>6. CASE Crash \/ Shutdown
  BY <1>6 DEF Crash, Shutdown, Down, Alive, Unborn, Dead, Idle
<1>7. CASE AgentsKept
  <2>1. \A q \in Agent : Alive(q)' => q = owner' \/ q \in replaced'
    BY <1>1, <1>7 DEF AgentsKept, Alive
  <2> QED
    BY <1>2, <1>3, <2>1
<1>8. CASE \/ AskTurn \/ Interrupt \/ Stop \/ SetRuntimeMode
           \/ \E t \in Turn : Answer(t)
           \/ ReadEvent \/ Ingest \/ UNCHANGED vars
           \/ \E p \in Agent : RuntimeError(p) \/ ThreadStarted(p)
  BY <1>7, <1>8, OutsideKeeps DEF AgentsKept
<1>9. ASSUME NEW p \in Agent, Opened(p)
      PROVE  \A q \in Agent : Alive(q)' => q = owner' \/ q \in replaced'
  <2>1. /\ Alive(p) /\ owner' = owner /\ replaced' = replaced
        /\ \A q \in Agent \ {p} : agents'[q] = agents[q]
    BY <1>1, <1>9 DEF Opened, Process
  <2> QED
    BY <1>1, <2>1 DEF Alive
<1> QED
  BY <1>2, <1>3, <1>4, <1>5, <1>6, <1>7, <1>8, <1>9, CallsKeep DEF Next, Reactor

(* After a report that ends turns, every turn that is named is followed.   *)
LEMMA FollowedByEnd ==
    ASSUME NEW es \in Seq(Event), es # <<>>, Clears(es[Len(es)]), NEW ing, NEW rep, NEW own
    PROVE  Followed(es, ing, rep, own)
<1>1. Len(es) \in 1..Len(es) /\ Len(es) \in Nat
  BY EmptySeq
<1>2. ASSUME NEW k \in 1..Len(es), Names(es[k])
      PROVE  \E j \in (k + 1)..Len(es) : Clears(es[j])
  <2>1. k # Len(es)
    BY <1>2 DEF Clears, Names
  <2>2. Len(es) \in (k + 1)..Len(es)
    BY <1>1, <2>1
  <2> QED
    BY <2>2
<1> QED
  BY <1>1, <1>2 DEF Followed

(* One more report, which names a turn only of the manager's agent or of a *)
(* replaced one; and the manager may have a new agent.                     *)
LEMMA FollowedOneMore ==
    ASSUME NEW es \in Seq(Event), NEW e \in Event, NEW ing, NEW rep, NEW own,
           Followed(es, ing, rep, own), NEW rep2, NEW own2,
           rep \subseteq rep2, own2 = own \/ own \in rep2 \/ own = None,
           ing.at = "read" => ing.event \in Event,
           Names(e) => e.agent = own2 \/ e.agent \in rep2
    PROVE  Followed(es \o <<e>>, ing, rep2, own2)
<1> DEFINE n == Len(es)
           es2 == es \o <<e>>
<1>1. /\ n \in Nat /\ Len(es2) = n + 1 /\ es2[n + 1] = e
      /\ \A k \in 1..n : es2[k] = es[k] /\ es[k] \in Event
  <2>1. <<e>> \in Seq(Event) /\ Len(<<e>>) = 1 /\ <<e>>[1] = e
    OBVIOUS
  <2> QED
    BY <2>1, ConcatProperties, ElementOfSeq
<1> HIDE DEF es2
<1>2. \A f \in Event : Names(f) =>
         (f.agent = own \/ f.agent \in rep => f.agent = own2 \/ f.agent \in rep2)
  BY EventFields DEF Names, None, Agent
<1>3. ASSUME NEW k \in 1..(n + 1), Names(es2[k])
      PROVE  \/ es2[k].agent = own2 \/ es2[k].agent \in rep2
             \/ \E j \in (k + 1)..(n + 1) : Clears(es2[j])
  <2>1. CASE k = n + 1
    BY <1>1, <1>3, <2>1
  <2>2. CASE k # n + 1
    <3>1. k \in 1..n
      BY <1>1, <2>2
    <3>2. es2[k] = es[k] /\ es[k] \in Event
      BY <1>1, <3>1
    <3>3. \/ es[k].agent = own \/ es[k].agent \in rep
          \/ \E j \in (k + 1)..n : Clears(es[j])
      BY <1>3, <3>1, <3>2 DEF Followed
    <3>4. \A j \in (k + 1)..n : j \in (k + 1)..(n + 1) /\ es2[j] = es[j]
      BY <1>1, <3>1
    <3> QED
      BY <1>2, <1>3, <3>2, <3>3, <3>4
  <2> QED
    BY <2>1, <2>2
<1>4. ASSUME ing.at = "read", Names(ing.event)
      PROVE  \/ ing.event.agent = own2 \/ ing.event.agent \in rep2
             \/ \E j \in 1..(n + 1) : Clears(es2[j])
  <2>1. \/ ing.event.agent = own \/ ing.event.agent \in rep
        \/ \E j \in 1..n : Clears(es[j])
    BY <1>4 DEF Followed
  <2>2. \A j \in 1..n : j \in 1..(n + 1) /\ es2[j] = es[j]
    BY <1>1
  <2> QED
    BY <1>2, <1>4, <2>1, <2>2
<1>5. Followed(es2, ing, rep2, own2)
  BY <1>1, <1>3, <1>4 DEF Followed
<1> QED
  BY <1>5 DEF es2

LEMMA FollowedRead ==
    ASSUME NEW es \in Seq(Event), es # <<>>, NEW ing, NEW rep, NEW own,
           Followed(es, ing, rep, own), NEW new, new.event = Head(es)
    PROVE  Followed(Tail(es), new, rep, own)
<1> DEFINE n == Len(es)
           es2 == Tail(es)
<1>1. /\ n \in Nat \ {0} /\ Len(es2) = n - 1 /\ Head(es) = es[1]
      /\ \A k \in 1..(n - 1) : es2[k] = es[k + 1]
  BY HeadTailProperties, EmptySeq
<1> HIDE DEF es2
<1>2. ASSUME NEW k \in 1..(n - 1), Names(es2[k])
      PROVE  \/ es2[k].agent = own \/ es2[k].agent \in rep
             \/ \E j \in (k + 1)..(n - 1) : Clears(es2[j])
  <2>1. k + 1 \in 1..n /\ es2[k] = es[k + 1]
    BY <1>1
  <2>2. \/ es[k + 1].agent = own \/ es[k + 1].agent \in rep
        \/ \E j \in ((k + 1) + 1)..n : Clears(es[j])
    BY <1>2, <2>1 DEF Followed
  <2>3. ASSUME NEW j \in ((k + 1) + 1)..n
        PROVE  j - 1 \in (k + 1)..(n - 1) /\ es2[j - 1] = es[j]
    <3>1. j - 1 \in (k + 1)..(n - 1) /\ j - 1 \in 1..(n - 1) /\ (j - 1) + 1 = j
      BY <1>1
    <3> QED
      BY <1>1, <3>1
  <2> QED
    BY <2>1, <2>2, <2>3
<1>3. ASSUME Names(new.event)
      PROVE  \/ new.event.agent = own \/ new.event.agent \in rep
             \/ \E j \in 1..(n - 1) : Clears(es2[j])
  <2>1. 1 \in 1..n
    BY <1>1
  <2>2. \/ es[1].agent = own \/ es[1].agent \in rep
        \/ \E j \in (1 + 1)..n : Clears(es[j])
    BY <1>1, <1>3, <2>1 DEF Followed
  <2>3. ASSUME NEW j \in (1 + 1)..n
        PROVE  j - 1 \in 1..(n - 1) /\ es2[j - 1] = es[j]
    <3>1. j - 1 \in 1..(n - 1) /\ (j - 1) + 1 = j
      BY <1>1
    <3> QED
      BY <1>1, <3>1
  <2> QED
    BY <1>1, <2>2, <2>3
<1>4. Followed(es2, new, rep, own)
  BY <1>1, <1>2, <1>3 DEF Followed
<1> QED
  BY <1>4 DEF es2

(* What is emitted last.                                                   *)
LEMMA EmitLast ==
    ASSUME TypeOK, NEW e \in Event, \/ Emit(<<e>>)
                                    \/ \E f \in Event : Emit(<<f, e>>)
    PROVE  /\ events' \in Seq(Event) /\ events' # <<>> /\ events'[Len(events')] = e
<1>1. events \in Seq(Event)
  BY DEF TypeOK
<1>2. CASE Emit(<<e>>)
  <2>1. <<e>> \in Seq(Event) /\ Len(<<e>>) = 1 /\ <<e>>[1] = e /\ events' = events \o <<e>>
    BY <1>2 DEF Emit
  <2>2. events' \in Seq(Event) /\ Len(events') = Len(events) + 1 /\ Len(events) \in Nat
        /\ events'[Len(events) + 1] = e
    BY <1>1, <2>1, ConcatProperties
  <2> QED
    BY <2>2, EmptySeq
<1>3. ASSUME NEW f \in Event, Emit(<<f, e>>)
      PROVE  /\ events' \in Seq(Event) /\ events' # <<>> /\ events'[Len(events')] = e
  <2>1. /\ <<f, e>> \in Seq(Event) /\ Len(<<f, e>>) = 2 /\ <<f, e>>[2] = e
        /\ events' = events \o <<f, e>>
    BY <1>3 DEF Emit
  <2>2. events' \in Seq(Event) /\ Len(events') = Len(events) + 2 /\ Len(events) \in Nat
        /\ events'[Len(events) + 2] = e
    BY <1>1, <2>1, ConcatProperties
  <2> QED
    BY <2>2, EmptySeq
<1> QED
  BY <1>2, <1>3

LEMMA FollowedStep ==
    ASSUME TypeOK, Undisturbed, [Next]_vars, ~ disturbed'
    PROVE  Followed(events', ingesting', replaced', owner')
<1> DEFINE Goal == Followed(events', ingesting', replaced', owner')
<1>1. /\ ~ disturbed /\ Followed(events, ingesting, replaced, owner)
      /\ \A p \in Agent : Alive(p) => p = owner \/ p \in replaced
      /\ events \in Seq(Event) /\ owner \in Agent \cup {None}
      /\ (ingesting.at = "read" => ingesting.event \in Event)
  BY OwnerStep DEF TypeOK, Undisturbed, Idle
<1>2. /\ Error \in Event /\ Exited \in Event /\ Clears(Error) /\ Clears(Exited)
      /\ \A s \in {"starting", "ready"} : State(s) \in Event /\ State(s).type = "state"
      /\ \A s \in {"starting", "ready"} : ~ Names(State(s))
      /\ Announced \in Event /\ ~ Names(Announced)
      /\ \A type \in {"started", "completed", "failed", "turnError", "opened",
                      "resolved"} :
            \A p \in Agent, t \in Turn :
               /\ About(type, p, t) \in Event /\ About(type, p, t).agent = p
               /\ type \notin {"started", "turnError"} => ~ Names(About(type, p, t))
  BY EventTypes DEF State, Exited, Error, Announced, About, Clears, Names
<1>3. ASSUME events' = events, ingesting' = ingesting, owner' = owner, replaced' = replaced
      PROVE  Goal
  BY <1>1, <1>3
<1>4. ASSUME NEW e \in Event, Emit(<<e>>), ingesting' = ingesting,
             replaced \subseteq replaced',
             owner' = owner \/ owner \in replaced' \/ owner = None,
             Names(e) => e.agent = owner' \/ e.agent \in replaced'
      PROVE  Goal
  <2>1. events' = events \o <<e>>
    BY <1>4 DEF Emit
  <2>2. Followed(events \o <<e>>, ingesting, replaced', owner')
    BY <1>1, <1>4, FollowedOneMore
  <2> QED
    BY <1>4, <2>1, <2>2
<1>5. ASSUME NEW e \in Event, Clears(e), Emit(<<e>>) \/ \E f \in Event : Emit(<<f, e>>)
      PROVE  Goal
  <2>1. events' \in Seq(Event) /\ events' # <<>> /\ Clears(events'[Len(events')])
    BY <1>5, EmitLast
  <2> QED
    BY <2>1, FollowedByEnd
<1> HIDE DEF Goal
<1>6. CASE \/ AskTurn \/ Interrupt \/ Stop \/ SetRuntimeMode
           \/ \E t \in Turn : Answer(t)
           \/ UNCHANGED vars
  <2>1. events' = events /\ ingesting' = ingesting
    BY <1>6, Silent
  <2>2. owner' = owner /\ replaced' = replaced
    BY <1>6, OutsideKeeps
  <2> QED
    BY <1>3, <2>1, <2>2 DEF Goal
<1>7. CASE \/ Take \/ Record \/ Bind \/ Recover \/ RouteFails \/ SendTurn
           \/ SendFails \/ SendTimesOut \/ Report \/ SetStopped
  <2>1. events' = events /\ ingesting' = ingesting
    BY <1>7, Silent
  <2>2. owner' = owner /\ replaced' = replaced
    BY <1>7, CallsKeep DEF AgentsKept
  <2> QED
    BY <1>3, <2>1, <2>2 DEF Goal
<1>8. CASE SpawnFails \/ OpenFails \/ \E p \in Agent : Exit(p)
  BY <1>2, <1>5, <1>8, Reports DEF Goal
<1>9. CASE StopSession
  <2>1. CASE Emit(<<Exited>>)
    BY <1>2, <1>5, <2>1 DEF Goal
  <2>2. CASE events' = events
    <3>1. ingesting' = ingesting /\ owner' = None /\ replaced' = replaced
      BY <1>9 DEF StopSession
    <3>2. CASE owner = None
      BY <1>3, <2>2, <3>1, <3>2 DEF Goal
    <3>3. CASE owner # None
      BY <1>2, <1>5, <1>9, <3>3 DEF StopSession, Goal
    <3> QED
      BY <3>2, <3>3
  <2> QED
    BY <1>9, <2>1, <2>2, Reports
<1>10. ASSUME NEW p \in Agent, Spawn(p) PROVE Goal
  <2>1. /\ owner' = p /\ replaced' = replaced \cup ({owner} \ {None})
    BY <1>10 DEF Spawn
  <2>2. Emit(<<State("starting")>>) /\ ingesting' = ingesting
    BY <1>10, Reports
  <2>3. State("starting") \in Event /\ ~ Names(State("starting"))
    BY <1>2
  <2> QED
    BY <1>4, <2>1, <2>2, <2>3 DEF Goal
<1>11. ASSUME NEW p \in Agent, Opened(p) PROVE Goal
  <2>1. owner' = owner /\ replaced' = replaced
    BY <1>11 DEF Opened
  <2>2. Emit(<<State("ready")>>) /\ ingesting' = ingesting
    BY <1>11, Reports
  <2>3. State("ready") \in Event /\ ~ Names(State("ready"))
    BY <1>2
  <2> QED
    BY <1>4, <2>1, <2>2, <2>3 DEF Goal
<1>12. ASSUME NEW p \in Agent,
              \/ RequestApproval(p) \/ EndTurn(p) \/ FailTurn(p) \/ ThreadStarted(p)
       PROVE  Goal
  <2>1. owner' = owner /\ replaced' = replaced /\ ingesting' = ingesting
    BY <1>12 DEF RequestApproval, EndTurn, FailTurn, ThreadStarted, history
  <2>2. \E e \in Event : Emit(<<e>>) /\ ~ Names(e)
    <3>1. CASE ThreadStarted(p)
      BY <1>2, <3>1, Reports
    <3>2. CASE ~ ThreadStarted(p)
      <4>1. /\ agents[p].turn \in Turn
            /\ \/ Emit(<<About("opened", p, agents[p].turn)>>)
               \/ Emit(<<About("completed", p, agents[p].turn)>>)
               \/ Emit(<<About("failed", p, agents[p].turn)>>)
        BY <1>12, <3>2, Reports
      <4>2. \A type \in {"opened", "completed", "failed"} :
               /\ About(type, p, agents[p].turn) \in Event
               /\ ~ Names(About(type, p, agents[p].turn))
        BY <1>2, <4>1
      <4> QED
        BY <4>1, <4>2
    <3> QED
      BY <3>1, <3>2
  <2> QED
    BY <1>4, <2>1, <2>2 DEF Goal
<1>18. ASSUME NEW p \in Agent, RuntimeError(p) PROVE Goal
  <2>1. owner' = owner /\ replaced' = replaced /\ ingesting' = ingesting /\ Alive(p)
    BY <1>18 DEF RuntimeError
  <2>2. CASE Emit(<<Error>>)
    BY <1>2, <1>5, <2>2 DEF Goal
  <2>3. CASE /\ agents[p].turn \in Turn
             /\ Emit(<<About("turnError", p, agents[p].turn)>>)
    <3>1. \E e \in Event : Emit(<<e>>) /\ e.agent = p
      BY <1>2, <2>3
    <3> QED
      BY <1>1, <1>4, <2>1, <3>1 DEF Goal
  <2> QED
    BY <1>18, <2>2, <2>3, Reports
<1>13. CASE InterruptTurn \/ RespondToRequest
  <2>1. owner' = owner /\ replaced' = replaced /\ ingesting' = ingesting
    BY <1>13 DEF InterruptTurn, RespondToRequest, history
  <2>2. events' = events \/ \E e \in Event : Emit(<<e>>) /\ ~ Names(e)
    <3>1. CASE InterruptTurn
      <4>1. \/ events' = events
            \/ /\ agents[owner].turn \in Turn /\ owner \in Agent
               /\ Emit(<<About("completed", owner, agents[owner].turn)>>)
        BY <3>1, Reports
      <4> QED
        BY <1>2, <4>1
    <3>2. CASE RespondToRequest
      <4>1. \/ events' = events
            \/ /\ owner \in Agent /\ reactor.intent.turn \in Turn
               /\ Emit(<<About("resolved", owner, reactor.intent.turn)>>)
        BY <3>2, Reports
      <4> QED
        BY <1>2, <4>1
    <3> QED
      BY <1>13, <3>1, <3>2
  <2> QED
    BY <1>3, <1>4, <2>1, <2>2 DEF Goal
<1>14. ASSUME NEW p \in Agent, TakeTurn(p) PROVE Goal
  <2>1. owner' = owner /\ replaced' = replaced /\ ingesting' = ingesting /\ Alive(p)
    BY <1>14 DEF TakeTurn, Alive
  <2>2. \/ events' = events
        \/ \E e \in Event : Emit(<<e>>) /\ e.agent = p
    <3>1. \/ events' = events
          \/ /\ Head(agents[p].inbox) \in Turn
             /\ Emit(<<About("started", p, Head(agents[p].inbox))>>)
      BY <1>14, Reports
    <3> QED
      BY <1>2, <3>1
  <2> QED
    BY <1>1, <1>3, <1>4, <2>1, <2>2 DEF Goal
<1>15. CASE ReadEvent
  <2>1. /\ events # <<>> /\ events' = Tail(events) /\ ingesting'.event = Head(events)
        /\ owner' = owner /\ replaced' = replaced
    BY <1>15 DEF ReadEvent, history
  <2> QED
    BY <1>1, <2>1, FollowedRead DEF Goal
<1>16. CASE Ingest
  <2>1. events' = events /\ ingesting'.at # "read" /\ owner' = owner /\ replaced' = replaced
    BY <1>16 DEF Ingest, Idle
  <2> QED
    BY <1>1, <2>1 DEF Goal, Followed
<1>17. CASE Crash \/ Shutdown
  <2>1. events' = <<>> /\ ingesting'.at # "read"
    BY <1>17 DEF Crash, Shutdown, Down, Idle
  <2> QED
    BY <2>1 DEF Goal, Followed
<1> QED
  BY <1>6, <1>7, <1>8, <1>9, <1>10, <1>11, <1>12, <1>13, <1>14, <1>15, <1>16, <1>17,
     <1>18 DEF Next, Reactor, Goal

LEMMA UndisturbedStep ==
    ASSUME TypeOK, Undisturbed, [Next]_vars
    PROVE  Undisturbed'
  BY LivingStep, FollowedStep DEF Undisturbed

(* A session that is shown as running is shown with its turn.              *)
Running == session.status = "running" => session.turn # None

LEMMA RunningStep ==
    ASSUME TypeOK, Running, [Next]_vars
    PROVE  Running'
<1>1. CASE session' = session
  BY <1>1 DEF Running
<1>2. CASE Ingest
  <2>1. /\ Names(ingesting.event) => ingesting.event.turn # None
        /\ ingesting.event.type = "state" => ingesting.event.state # "running"
    BY <1>2, IngestSession, EventFields DEF Names, None, Turn
  <2>2. CASE Applies(ingesting)
    BY <1>2, <2>1, <2>2, IngestSession DEF SetSession, Running, Names
  <2> QED
    BY <1>1, <1>2, <2>2, IngestSession
<1>3. CASE Bind \/ SetStopped
  BY <1>3 DEF Bind, SetStopped, SetSession, Running
<1>4. CASE \/ AskTurn \/ Interrupt \/ Stop \/ SetRuntimeMode
           \/ \E u \in Turn : Answer(u)
           \/ ReadEvent \/ Crash \/ Shutdown \/ UNCHANGED vars
  BY <1>1, <1>4 DEF AskTurn, Interrupt, Stop, SetRuntimeMode, AskTo, Answer, thread,
                    ReadEvent, Crash, Shutdown, Down, vars
<1>5. CASE \/ Take \/ SpawnFails \/ OpenFails \/ Record \/ Recover \/ RouteFails
           \/ SendTurn \/ SendFails \/ SendTimesOut \/ Report \/ InterruptTurn
           \/ RespondToRequest \/ StopSession
  BY <1>1, <1>5 DEF Take, SpawnFails, OpenFails, Record, Recover, RouteFails, SendTurn,
                    SendFails, SendTimesOut, Report, InterruptTurn, RespondToRequest,
                    StopSession, thread
<1>6. CASE \E p \in Agent : \/ Spawn(p) \/ Opened(p) \/ TakeTurn(p)
                            \/ RequestApproval(p) \/ EndTurn(p) \/ Exit(p)
                            \/ FailTurn(p) \/ RuntimeError(p) \/ ThreadStarted(p)
  BY <1>1, <1>6 DEF Spawn, Opened, TakeTurn, RequestApproval, EndTurn, Exit, FailTurn,
                    RuntimeError, ThreadStarted, thread
<1> QED
  BY <1>2, <1>3, <1>4, <1>5, <1>6 DEF Next, Reactor

-----------------------------------------------------------------------------
(* The session in the end.                                                 *)

View == [turn |-> session.turn, running |-> session.status = "running"]
Right(v, w, left, err) ==
    \/ v.turn \in left
    \/ v = [turn |-> w, running |-> w # None]
    \/ w \in err /\ v.turn \in {None, w} /\ v.running = FALSE
AllRight(view, ing, es, rep, w, left, err) ==
    \A T \in Traces(view, ing, es, rep) : Right(T[Len(es)], w, left, err)

(* With everything that is on its way, the session comes to show what the  *)
(* manager's agent works on, or a turn that was left over, or nothing that *)
(* runs, where the agent reported an error in its turn.                    *)
EndsRight ==
    ~ disturbed /\ ~ Binding =>
       AllRight(View, ingesting, events, replaced, Working, leftovers, erred)

SessionInv == TurnInv /\ Fresh /\ Undisturbed /\ Running /\ EndsRight

LEMMA SessionInit == TypeOK /\ Init => SessionInv
<1> SUFFICES ASSUME TypeOK, Init PROVE SessionInv
  OBVIOUS
<1>1. /\ events = <<>> /\ ingesting.at = "idle" /\ owner = None
      /\ session.turn = None /\ session.status = "none"
  BY DEF Init, Idle, NoSession
<1>2. ASSUME NEW T \in Traces(View, ingesting, events, replaced)
      PROVE  T[Len(events)] = NoTurn
  BY <1>1 DEF Traces, Begins, Applies, View, NoTurn
<1>3. EndsRight
  BY <1>1, <1>2 DEF EndsRight, AllRight, Right, Working, NoTurn
<1> QED
  BY <1>1, <1>3, TurnInit, FreshInit, UndisturbedInit DEF SessionInv, Running

LEMMA RightCases ==
    ASSUME NEW left, NEW err, None \notin err
    PROVE  /\ Right(NoTurn, None, left, err)
           /\ \A t : t # None => Right([turn |-> t, running |-> TRUE], t, left, err)
           /\ \A w : w \in err =>
                 /\ Right(NoTurn, w, left, err)
                 /\ Right([turn |-> w, running |-> FALSE], w, left, err)
           /\ \A v, w : Right(v, w, left, err) =>
                 \/ v.turn \in left \/ v.turn = w
                 \/ (v.turn = None /\ w \in err /\ v.running = FALSE)
           /\ \A v : Right(v, None, left, err) => v.turn \in left \/ v = NoTurn
           /\ \A v, w : v.turn \in left => Right(v, w, left, err)
<1>1. Right(NoTurn, None, left, err)
  BY DEF Right, NoTurn
<1>2. ASSUME NEW t, t # None PROVE Right([turn |-> t, running |-> TRUE], t, left, err)
  <2>1. (t # None) = TRUE
    BY <1>2
  <2> QED
    BY <2>1 DEF Right
<1>3. ASSUME NEW v, NEW w, Right(v, w, left, err)
      PROVE  \/ v.turn \in left \/ v.turn = w
             \/ (v.turn = None /\ w \in err /\ v.running = FALSE)
  <2>1. CASE v = [turn |-> w, running |-> w # None]
    BY <2>1
  <2>2. CASE w \in err /\ v.turn \in {None, w} /\ v.running = FALSE
    BY <2>2
  <2> QED
    BY <1>3, <2>1, <2>2 DEF Right
<1>4. \A v : Right(v, None, left, err) => v.turn \in left \/ v = NoTurn
  BY DEF Right, NoTurn
<1>5. \A v, w : v.turn \in left => Right(v, w, left, err)
  BY DEF Right
<1>6. \A w : w \in err => /\ Right(NoTurn, w, left, err)
                          /\ Right([turn |-> w, running |-> FALSE], w, left, err)
  BY DEF Right, NoTurn
<1> QED
  BY <1>1, <1>2, <1>3, <1>4, <1>5, <1>6

\* The longer the list of errors is, the less is said.
LEMMA RightMore ==
    ASSUME NEW v, NEW w, NEW left, NEW err, NEW err2, err \subseteq err2,
           Right(v, w, left, err)
    PROVE  Right(v, w, left, err2)
  BY DEF Right

LEMMA RightOneMore ==
    ASSUME NEW es \in Seq(Event), NEW e \in Event, NEW view, NEW ing, NEW rep, NEW more,
           NEW w, NEW left, NEW err, AllRight(view, ing, es, rep, w, left, err),
           NEW new, NEW err2,
           \A v \in Views : \A u :
              Right(v, w, left, err) /\ Moves(e, v, u, rep \cup more)
                 => Right(u, new, left, err2)
    PROVE  AllRight(view, ing, es \o <<e>>, rep \cup more, new, left, err2)
<1> SUFFICES ASSUME NEW T \in Traces(view, ing, es \o <<e>>, rep \cup more)
             PROVE  Right(T[Len(es \o <<e>>)], new, left, err2)
  BY DEF AllRight
<1>1. PICK S \in Traces(view, ing, es, rep) :
         /\ S[Len(es)] \in Views
         /\ Moves(e, S[Len(es)], T[Len(es) + 1], rep \cup more)
  BY OneMore
<1>2. Len(es \o <<e>>) = Len(es) + 1
  BY OneMore
<1>3. Right(S[Len(es)], w, left, err)
  BY DEF AllRight
<1> QED
  BY <1>1, <1>2, <1>3

LEMMA RightEnd ==
    ASSUME NEW es \in Seq(Event), es # <<>>, Clears(es[Len(es)]),
           NEW view, NEW ing, NEW rep, NEW w, NEW left, NEW err,
           Right(NoTurn, w, left, err)
    PROVE  AllRight(view, ing, es, rep, w, left, err)
<1>1. ASSUME NEW T \in Traces(view, ing, es, rep) PROVE T[Len(es)] = NoTurn
  BY LastClears
<1> QED
  BY <1>1 DEF AllRight

\* What most of the steps below start from.
Before ==
    /\ TypeOK /\ SessionInv /\ ~ disturbed
    /\ AllRight(View, ingesting, events, replaced, Working, leftovers, erred)
After ==
    AllRight(View, ingesting, events, replaced, Working, leftovers, erred)

LEMMA SameRight ==
    ASSUME Before, events' = events, ingesting' = ingesting, session' = session,
           replaced' = replaced, leftovers' = leftovers, erred' = erred,
           Working' = Working
    PROVE  After'
<1>1. View' = View
  BY DEF View
<1> QED
  BY <1>1 DEF Before, After

LEMMA MoreRight ==
    ASSUME Before, NEW e \in Event, Emit(<<e>>), ingesting' = ingesting,
           session' = session, replaced' = replaced, leftovers' = leftovers,
           \A v \in Views : \A u :
              Right(v, Working, leftovers, erred) /\ Moves(e, v, u, replaced)
                 => Right(u, Working', leftovers, erred')
    PROVE  After'
<1>1. View' = View
  BY DEF View
<1>2. events \in Seq(Event) /\ events' = events \o <<e>>
  BY DEF Before, TypeOK, Emit
<1>3. replaced \cup {} = replaced
  OBVIOUS
<1>4. \A v \in Views : \A u :
         Right(v, Working, leftovers, erred) /\ Moves(e, v, u, replaced \cup {})
            => Right(u, Working', leftovers, erred')
  BY <1>3
<1>5. AllRight(View, ingesting, events, replaced, Working, leftovers, erred)
  BY DEF Before
<1> DEFINE new == Working'
           err2 == erred'
<1>6. \A v \in Views : \A u :
         Right(v, Working, leftovers, erred) /\ Moves(e, v, u, replaced \cup {})
            => Right(u, new, leftovers, err2)
  BY <1>4
<1> HIDE DEF new, err2
<1>7. AllRight(View, ingesting, events \o <<e>>, replaced \cup {}, new, leftovers, err2)
  BY <1>2, <1>5, <1>6, RightOneMore
<1> QED
  BY <1>1, <1>2, <1>3, <1>7 DEF After, new, err2

LEMMA EndRight ==
    ASSUME TypeOK, NEW e \in Event, Clears(e),
           Emit(<<e>>) \/ \E f \in Event : Emit(<<f, e>>),
           Working' = None \/ Working' \in erred'
    PROVE  After'
<1>1. events' \in Seq(Event) /\ events' # <<>> /\ Clears(events'[Len(events')])
  BY EmitLast
<1>2. Right(NoTurn, Working', leftovers', erred')
  BY DEF Right, NoTurn
<1>3. AllRight(View', ingesting', events', replaced', Working', leftovers', erred')
  BY <1>1, <1>2, RightEnd
<1> QED
  BY <1>3 DEF After

LEMMA WorkingTypes ==
    ASSUME TypeOK
    PROVE  /\ Working \in Turn \cup {None} /\ View \in Views
           /\ leftovers \subseteq Turn /\ None \notin Turn /\ None \notin Agent
           /\ None \notin erred
<1>1. /\ agents \in [Agent -> Process] /\ owner \in Agent \cup {None}
      /\ session.turn \in Turn \cup {None} /\ leftovers \subseteq Turn
      /\ erred \subseteq Turn
  BY DEF TypeOK
<1>2. \A p \in Agent : agents[p].turn \in Turn \cup {None}
  BY <1>1 DEF Process
<1> QED
  BY <1>1, <1>2 DEF Working, View, Views, None, Turn, Agent

(* A turn ends, the active one or that of a replaced agent.                *)
LEMMA CompletedRight ==
    ASSUME Before, NEW p \in Agent, agents[p].turn # None,
           agents' = [agents EXCEPT ![p].turn = None],
           NEW type \in {"completed", "failed"},
           Emit(<<About(type, p, agents[p].turn)>>), ingesting' = ingesting,
           session' = session, owner' = owner, replaced' = replaced,
           leftovers' = leftovers, erred' = erred
    PROVE  After'
<1> DEFINE t == agents[p].turn
           e == About(type, p, t)
<1>1. /\ agents \in [Agent -> Process] /\ owner \in Agent \cup {None} /\ t \in Turn
      /\ leftovers \subseteq Turn /\ None \notin Turn /\ None \notin Agent
      /\ Working \in Turn \cup {None} /\ None \notin erred
  BY WorkingTypes DEF Before, TypeOK, Process
<1>2. e \in Event /\ e.type \in {"completed", "failed"} /\ e.turn = t
  BY <1>1, EventTypes DEF About
<1>3. IF p = owner THEN Working = t /\ Working' = None ELSE Working' = Working
  BY <1>1 DEF Working, Process
<1>4. p # owner => Working # t /\ t \notin leftovers
  <2> SUFFICES ASSUME p # owner PROVE Working # t /\ t \notin leftovers
    OBVIOUS
  <2>1. t \in HeldBy(agents[p])
    BY <1>1 DEF HeldBy
  <2>2. Working = t => owner \in Agent /\ t \in HeldBy(agents[owner])
    BY <1>1 DEF HeldBy, Working
  <2> QED
    BY <2>1, <2>2 DEF Before, SessionInv, TurnInv, Apart
<1> HIDE DEF e, t
<1>5. ASSUME NEW v \in Views, NEW u, Right(v, Working, leftovers, erred), Moves(e, v, u, replaced)
      PROVE  Right(u, Working', leftovers, erred')
  <2>1. IF v.turn \in {None, t} THEN u = NoTurn ELSE u = v
    BY <1>2, <1>5 DEF Moves
  <2>2. CASE p = owner
    <3>1. Working' = None /\ (v.turn \in leftovers \/ v.turn \in {None, t})
      BY <1>1, <1>3, <1>5, <2>2, RightCases
    <3>2. CASE v.turn \in {None, t}
      <4>1. u = NoTurn /\ Right(NoTurn, None, leftovers, erred)
        BY <1>1, <2>1, <3>2, RightCases
      <4> QED
        BY <3>1, <4>1
    <3>3. CASE v.turn \notin {None, t}
      <4>1. u = v /\ v.turn \in leftovers
        BY <2>1, <3>1, <3>3
      <4> QED
        BY <4>1 DEF Right
    <3> QED
      BY <3>2, <3>3
  <2>3. CASE p # owner
    <3>1. CASE v.turn \in {None, t}
      <4>0. \/ v.turn \in leftovers \/ v.turn = Working \/ v.turn = None
        BY <1>1, <1>5, RightCases
      <4>1. v.turn = None /\ u = NoTurn /\ v.turn \notin leftovers
        BY <1>1, <1>3, <1>4, <2>1, <2>3, <3>1, <4>0
      <4>2. Working = None \/ Working \in erred
        BY <1>1, <1>5, <4>1, RightCases
      <4>3. Right(NoTurn, Working, leftovers, erred)
        <5>1. CASE Working = None
          <6>1. Right(NoTurn, None, leftovers, erred)
            BY <1>1, RightCases
          <6> QED
            BY <5>1, <6>1
        <5>2. CASE Working \in erred
          BY <5>2 DEF Right, NoTurn
        <5> QED
          BY <4>2, <5>1, <5>2
      <4> QED
        BY <1>3, <2>3, <4>1, <4>3
    <3>2. CASE v.turn \notin {None, t}
      BY <1>3, <1>5, <2>1, <2>3, <3>2
    <3> QED
      BY <3>1, <3>2
  <2> QED
    BY <2>2, <2>3
<1> QED
  BY <1>2, <1>5, MoreRight DEF e, t

LEMMA TakeRight ==
    ASSUME Before, NEW p \in Agent, TakeTurn(p)
    PROVE  After'
<1> DEFINE t == Head(agents[p].inbox)
           e == About("started", p, t)
<1>1. /\ agents \in [Agent -> Process] /\ owner \in Agent \cup {None}
      /\ leftovers \subseteq Turn /\ None \notin Turn /\ None \notin Agent
      /\ Working \in Turn \cup {None} /\ TypeOK /\ None \notin erred
  BY WorkingTypes DEF Before, TypeOK
<1>2. /\ ingesting' = ingesting /\ session' = session /\ owner' = owner
      /\ replaced' = replaced /\ leftovers' = leftovers /\ erred' = erred
      /\ agents[p].state = "ready"
      /\ agents' = [agents EXCEPT ![p].inbox = Tail(@),
                        ![p].turn = IF agents[p].turn = None THEN t ELSE @]
  BY DEF TakeTurn, thread
<1>3. /\ t \in Turn
      /\ IF agents[p].turn = None THEN Emit(<<e>>) ELSE events' = events
  BY <1>1, Reports
<1>4. agents'[p].turn = IF agents[p].turn = None THEN t ELSE agents[p].turn
  BY <1>1, <1>2 DEF Process
<1>5. \A q \in Agent \ {p} : agents'[q] = agents[q]
  BY <1>1, <1>2
<1>6. CASE agents[p].turn # None
  <2>1. Working' = Working
    BY <1>1, <1>2, <1>4, <1>5, <1>6 DEF Working
  <2> QED
    BY <1>2, <1>3, <1>6, <2>1, SameRight
<1>7. CASE agents[p].turn = None
  <2>1. e \in Event /\ e.type = "started" /\ e.turn = t /\ e.agent = p
    BY <1>3, EventTypes DEF About
  <2>2. IF p = owner THEN Working = None /\ Working' = t
        ELSE Working' = Working /\ p \in replaced
    <3>1. p = owner \/ p \in replaced
      BY <1>2 DEF Before, SessionInv, Undisturbed, Alive
    <3> QED
      BY <1>1, <1>2, <1>4, <1>5, <1>7, <3>1 DEF Working
  <2>3. Emit(<<e>>)
    BY <1>3, <1>7
  <2> HIDE DEF e, t
  <2>4. ASSUME NEW v \in Views, NEW u, Right(v, Working, leftovers, erred),
               Moves(e, v, u, replaced)
        PROVE  Right(u, Working', leftovers, erred')
    <3>1. IF v.turn \in {None, t}
          THEN p \notin replaced /\ u = [turn |-> t, running |-> TRUE] ELSE u = v
      BY <2>1, <2>4 DEF Moves, Names
    <3>2. CASE p = owner
      <4>1. Right(v, None, leftovers, erred) /\ Working' = t /\ t # None
        BY <1>1, <1>3, <2>2, <2>4, <3>2
      <4>2. CASE v.turn \in {None, t}
        <5>1. Right([turn |-> t, running |-> TRUE], t, leftovers, erred)
          BY <1>1, <4>1, RightCases
        <5> QED
          BY <1>2, <3>1, <4>1, <4>2, <5>1
      <4>3. CASE v.turn \notin {None, t}
        <5>1. v.turn \in leftovers /\ u = v
          <6>1. v.turn \in leftovers \/ v = NoTurn
            BY <1>1, <4>1, RightCases
          <6> QED
            BY <3>1, <4>3, <6>1 DEF NoTurn
        <5> QED
          BY <5>1 DEF Right
      <4> QED
        BY <4>2, <4>3
    <3>3. CASE p # owner
      BY <1>2, <2>2, <2>4, <3>1, <3>3
    <3> QED
      BY <3>2, <3>3
  <2> QED
    BY <1>2, <2>1, <2>3, <2>4, MoreRight
<1> QED
  BY <1>6, <1>7

(* The session is written without a turn, where none is worked on.         *)
LEMMA CalmRight ==
    ASSUME TypeOK, Undisturbed, ~ disturbed,
           events' = events, ingesting' = ingesting, replaced' = replaced,
           \A e \in Starts : e.agent # owner, View' = NoTurn, Working' = None
    PROVE  After'
<1>1. /\ events \in Seq(Event)
      /\ ingesting.at = "read" => ingesting.event \in Event
      /\ Followed(events, ingesting, replaced, owner)
  BY DEF TypeOK, Idle, Undisturbed
<1>2. \A k \in 1..Len(events) : Names(events[k]) => events[k].agent # owner
  <2> SUFFICES ASSUME NEW k \in 1..Len(events), Names(events[k])
               PROVE  events[k] \in Starts
    OBVIOUS
  <2>1. events[k] \in Event
    BY <1>1, ElementOfSeq
  <2> QED
    BY <2>1 DEF Starts, StartsIn
<1>3. ingesting.at = "read" /\ Names(ingesting.event) => ingesting.event.agent # owner
  BY <1>1 DEF Starts, StartsIn
<1>4. ASSUME NEW T \in Traces(NoTurn, ingesting, events, replaced)
      PROVE  T[Len(events)] = NoTurn
  BY <1>1, <1>2, <1>3, Calmed
<1>5. AllRight(NoTurn, ingesting, events, replaced, None, leftovers', erred')
  BY <1>4 DEF AllRight, Right, NoTurn
<1> QED
  BY <1>5 DEF After

LEMMA BindRight ==
    ASSUME TypeOK, SessionInv, ~ disturbed, Bind \/ SetStopped
    PROVE  After'
<1>1. /\ events' = events /\ ingesting' = ingesting /\ replaced' = replaced
      /\ owner' = owner /\ agents' = agents
  BY DEF Bind, SetStopped, pipeline, history
<1>2. View' = NoTurn
  <2>1. session'.turn = None /\ (session'.status = "running") = FALSE
    BY DEF Bind, SetStopped, SetSession
  <2> QED
    BY <2>1 DEF View, NoTurn
<1>3. \A e \in Starts : e.agent \in Agent
  BY EventFields DEF Starts, StartsIn, Names
<1>4. None \notin Agent
  BY WorkingTypes
<1>5. /\ \A e \in Starts : e.agent # owner
      /\ Working = None
  <2>1. CASE Bind
    <3>1. reactor.at \in Opening
      BY <2>1 DEF Bind, Opening
    <3> QED
      BY <1>3, <1>4, <3>1 DEF SessionInv, Fresh, Working
  <2>2. CASE SetStopped
    <3>1. owner = None
      BY <2>2 DEF SetStopped, SessionInv, Undisturbed
    <3> QED
      BY <1>3, <1>4, <3>1 DEF Working
  <2> QED
    BY <2>1, <2>2
<1>6. Working' = None
  BY <1>1, <1>5 DEF Working
<1> QED
  BY <1>1, <1>2, <1>5, <1>6, CalmRight DEF SessionInv

(* The ingestion reads the first event, with the session as it is.         *)
LEMMA ReadRight ==
    ASSUME Before, ReadEvent
    PROVE  After'
<1>1. /\ events \in Seq(Event) /\ events # <<>> /\ events' = Tail(events)
      /\ ingesting.at # "read" /\ ingesting'.at = "read"
      /\ ingesting'.event = Head(events) /\ ingesting'.turn = session.turn
      /\ session' = session /\ replaced' = replaced /\ leftovers' = leftovers
      /\ owner' = owner /\ agents' = agents /\ erred' = erred
  BY DEF Before, TypeOK, ReadEvent, Idle, thread, history
<1>2. /\ View' = View /\ View.turn = session.turn /\ View \in Views /\ Working' = Working
  BY <1>1, WorkingTypes DEF View, Working, Before
<1>3. ASSUME NEW T \in Traces(View, ingesting', Tail(events), replaced)
      PROVE  Right(T[Len(Tail(events))], Working, leftovers, erred)
  <2>1. PICK S \in Traces(View, ingesting, events, replaced) :
           S[Len(events)] = T[Len(Tail(events))]
    BY <1>1, <1>2, FirstRead
  <2>2. Right(S[Len(events)], Working, leftovers, erred)
    BY DEF Before, AllRight
  <2> QED
    BY <2>1, <2>2
<1>4. AllRight(View, ingesting', Tail(events), replaced, Working, leftovers, erred)
  BY <1>3 DEF AllRight
<1> QED
  BY <1>1, <1>2, <1>4 DEF After

(* It writes what the traces begin with.                                   *)
LEMMA IngestRight ==
    ASSUME Before, Ingest, ~ disturbed'
    PROVE  After'
<1>1. /\ TypeOK /\ ingesting.at = "read" /\ ingesting.event \in Event
      /\ ingesting'.at = "idle" /\ ingesting.turn \in Turn \cup {None}
  BY IngestSession DEF Before
<1>2. /\ events' = events /\ replaced' = replaced /\ leftovers' = leftovers
      /\ owner' = owner /\ agents' = agents /\ erred' = erred
  BY DEF Ingest
<1>3. Working' = Working
  BY <1>2 DEF Working
<1>4. Begins(View', View, ingesting, replaced)
  <2>1. CASE ~ Applies(ingesting)
    <3>1. session' = session
      BY <1>1, <2>1, IngestSession
    <3> QED
      BY <2>1, <3>1 DEF Begins, View
  <2>2. CASE Applies(ingesting)
    <3> DEFINE e == ingesting.event
    <3>1. /\ ingesting.turn = session.turn
          /\ Names(e) => e.agent \notin replaced
          /\ e.type \in {"started", "completed", "failed", "turnError"} =>
                session.turn \in {None, e.turn}
          /\ e.type = "state" => e.state \in {"starting", "ready"}
      BY <1>1, <2>2, IngestSession, EventFields DEF Disturbed, Applies
    <3>2. \/ e.type = "state" /\ View' = [turn |-> session.turn, running |-> FALSE]
          \/ e.type = "announced" /\ session.turn = None /\ View' = NoTurn
          \/ e.type = "announced" /\ session.turn # None
             /\ View' = [turn |-> session.turn, running |-> TRUE]
          \/ e.type = "started" /\ View' = [turn |-> e.turn, running |-> TRUE]
          \/ e.type = "turnError" /\ View' = [turn |-> e.turn, running |-> FALSE]
          \/ e.type \in {"completed", "failed", "exited", "error"} /\ View' = NoTurn
      <4>1. \/ e.type = "state" /\ SetSession(e.state, session.turn, ingesting.asking)
            \/ e.type = "announced" /\ session.turn = None
               /\ SetSession("ready", None, ingesting.asking)
            \/ e.type = "announced" /\ session.turn # None
               /\ SetSession("running", session.turn, ingesting.asking)
            \/ e.type = "started" /\ SetSession("running", e.turn, ingesting.asking)
            \/ e.type = "completed" /\ SetSession("ready", None, ingesting.asking)
            \/ e.type = "exited" /\ SetSession("stopped", None, ingesting.asking)
            \/ e.type \in {"failed", "error"}
               /\ SetSession("error", None, ingesting.asking)
            \/ e.type = "turnError" /\ SetSession("error", e.turn, ingesting.asking)
        BY <1>1, <2>2, <3>1, IngestSession
      <4>2. \/ e.type = "state" /\ session'.turn = session.turn
               /\ (session'.status = "running") = FALSE
            \/ e.type = "announced" /\ session.turn = None /\ session'.turn = None
               /\ (session'.status = "running") = FALSE
            \/ e.type = "announced" /\ session.turn # None
               /\ session'.turn = session.turn /\ (session'.status = "running") = TRUE
            \/ e.type = "started" /\ session'.turn = e.turn
               /\ (session'.status = "running") = TRUE
            \/ e.type = "turnError" /\ session'.turn = e.turn
               /\ (session'.status = "running") = FALSE
            \/ e.type \in {"completed", "failed", "exited", "error"}
               /\ session'.turn = None /\ (session'.status = "running") = FALSE
        BY <3>1, <4>1 DEF SetSession
      <4> QED
        BY <4>2 DEF View, NoTurn
    <3> HIDE DEF e
    <3>3. View.turn = session.turn
      BY DEF View
    <3>4. Moves(e, View, View', replaced)
      <4>1. CASE e.type = "announced"
        <5>1. (session.turn # None) \in BOOLEAN
              /\ (session.turn = None => (session.turn # None) = FALSE)
              /\ (session.turn # None => (session.turn # None) = TRUE)
          OBVIOUS
        <5> QED
          BY <3>2, <3>3, <4>1, <5>1 DEF Moves, Clears, Names, NoTurn
      <4>2. CASE e.type # "announced"
        <5>1. /\ (e.type = "started" => (e.type = "started") = TRUE)
              /\ (e.type = "turnError" => (e.type = "started") = FALSE)
          OBVIOUS
        <5> QED
          BY <3>1, <3>2, <3>3, <4>2, <5>1 DEF Moves, Clears, Names
      <4> QED
        BY <4>1, <4>2
    <3> QED
      BY <2>2, <3>1, <3>3, <3>4 DEF Begins, e
  <2> QED
    BY <2>1, <2>2
<1>5. ASSUME NEW T \in Traces(View', ingesting', events, replaced)
      PROVE  T \in Traces(View, ingesting, events, replaced)
  <2>1. T[0] = View'
    BY <1>1, <1>5 DEF Traces, Begins, Applies
  <2> QED
    BY <1>4, <1>5, <2>1 DEF Traces
<1>6. AllRight(View', ingesting', events, replaced, Working, leftovers, erred)
  BY <1>5 DEF Before, AllRight
<1> QED
  BY <1>2, <1>3, <1>6 DEF After

(* The turn of a session that the server leaves behind is left over.       *)
LEMMA DownRight ==
    ASSUME TypeOK, Running, Crash \/ Shutdown
    PROVE  After'
<1>1. /\ events' = <<>> /\ ingesting'.at # "read" /\ owner' = None /\ session' = session
      /\ leftovers' = leftovers \cup ({session.turn} \ {None})
  BY DEF Crash, Shutdown, Down, Idle, thread
<1>2. Working' = None /\ View' = View
  BY <1>1 DEF Working, View
<1>3. Right(View, None, leftovers', erred')
  <2>1. CASE session.turn = None
    <3>1. (session.status = "running") = FALSE
      BY <2>1 DEF Running
    <3>2. View = NoTurn
      BY <2>1, <3>1 DEF View, NoTurn
    <3> QED
      BY <3>2 DEF Right, NoTurn
  <2>2. CASE session.turn # None
    BY <1>1, <2>2 DEF Right, View
  <2> QED
    BY <2>1, <2>2
<1>4. ASSUME NEW T \in Traces(View, ingesting', <<>>, replaced')
      PROVE  T[Len(<<>>)] = View
  <2>1. ~ Applies(ingesting')
    BY <1>1 DEF Applies
  <2> QED
    BY <2>1 DEF Traces, Begins
<1>5. AllRight(View, ingesting', <<>>, replaced', None, leftovers', erred')
  BY <1>3, <1>4 DEF AllRight
<1> QED
  BY <1>1, <1>2, <1>5 DEF After

(* A report that changes no turn.                                          *)
LEMMA NeutralRight ==
    ASSUME Before, NEW e \in Event, Emit(<<e>>), ingesting' = ingesting,
           session' = session, replaced' = replaced, leftovers' = leftovers,
           erred' = erred, Working' = Working,
           \/ e.type \in {"opened", "resolved", "announced"}
           \/ (e.type = "state" /\ Working = None)
    PROVE  After'
<1>0. None \notin erred
  BY WorkingTypes DEF Before
<1>1. ASSUME NEW v \in Views, NEW u, Right(v, Working, leftovers, erred), Moves(e, v, u, replaced)
      PROVE  Right(u, Working', leftovers, erred')
  <2>1. CASE e.type \in {"opened", "resolved"}
    BY <1>1, <2>1 DEF Moves
  <2>2. CASE e.type = "state" /\ Working = None
    <3>1. u = [turn |-> v.turn, running |-> FALSE] /\ Right(v, None, leftovers, erred)
      BY <1>1, <2>2 DEF Moves
    <3>2. CASE v.turn \in leftovers
      <4>1. u.turn \in leftovers
        BY <3>1, <3>2
      <4> QED
        BY <4>1 DEF Right
    <3>3. CASE v = NoTurn
      <4>1. u = NoTurn
        BY <3>1, <3>3 DEF NoTurn
      <4> QED
        BY <1>0, <2>2, <4>1, RightCases
    <3> QED
      BY <1>0, <3>1, <3>2, <3>3, RightCases
  <2>3. CASE e.type = "announced"
    <3>1. u = [turn |-> v.turn, running |-> v.turn # None]
      BY <1>1, <2>3 DEF Moves
    <3>2. CASE v.turn \in leftovers
      <4>1. u.turn \in leftovers
        BY <3>1, <3>2
      <4> QED
        BY <4>1 DEF Right
    <3>3. CASE v.turn = Working
      BY <3>1, <3>3 DEF Right
    <3>4. CASE v.turn = None /\ Working \in erred
      <4>1. (v.turn # None) = FALSE
        BY <3>4
      <4>2. u = NoTurn
        BY <3>1, <3>4, <4>1 DEF NoTurn
      <4> QED
        BY <1>0, <3>4, <4>2, RightCases
    <3> QED
      BY <1>0, <1>1, <3>2, <3>3, <3>4, RightCases
  <2> QED
    BY <2>1, <2>2, <2>3
<1> QED
  BY <1>1, MoreRight

LEMMA SpawnRight ==
    ASSUME Before, ~ Binding', NEW p \in Agent, Spawn(p) \/ Opened(p)
    PROVE  After'
<1>1. /\ agents \in [Agent -> Process] /\ reactor \in Step /\ TypeOK /\ None \notin Agent
  BY WorkingTypes DEF Before, TypeOK
<1>2. /\ ingesting' = ingesting /\ session' = session /\ leftovers' = leftovers
      /\ erred' = erred
  BY DEF Spawn, Opened, thread
<1>3. \A s \in {"starting", "ready"} : State(s) \in Event /\ State(s).type = "state"
  BY EventTypes DEF State
<1>4. CASE Spawn(p)
  <2>1. reactor \in [at : {"start"}, intent : Intent, agent : {None},
                     asking : BOOLEAN, cursor : Agent \cup {None}, bind : BOOLEAN]
    BY <1>1, <1>4 DEF Step, Idle, Spawn
  <2>2. reactor'.at = "opening" /\ reactor'.bind = reactor.bind /\ reactor.at = "start"
    BY <1>4, <2>1 DEF Spawn
  <2>3. owner = None
    BY <2>2 DEF Before, SessionInv, Fresh, Binding, Opening
  <2>4. owner' = p /\ replaced' = replaced /\ agents'[p].turn = None
    BY <1>1, <1>4, <2>3 DEF Spawn, Unborn
  <2>5. Working = None /\ Working' = None
    BY <2>3, <2>4 DEF Working
  <2>6. Emit(<<State("starting")>>)
    BY <1>1, <1>4, Reports
  <2> QED
    BY <1>2, <1>3, <2>4, <2>5, <2>6, NeutralRight
<1>5. CASE Opened(p)
  <2>1. /\ reactor.at \in Opening /\ reactor.agent = p
        /\ owner' = owner /\ replaced' = replaced
        /\ \E talk : agents' = [agents EXCEPT ![p].state = "ready", ![p].talk = talk]
    BY <1>5 DEF Opened, Opening
  <2>2. owner \in {None, p} /\ agents[p].turn = None
    BY <2>1 DEF Before, SessionInv, Fresh
  <2>3. agents'[p].turn = agents[p].turn
    BY <1>1, <2>1 DEF Process
  <2>4. Working = None /\ Working' = None
    BY <2>1, <2>2, <2>3 DEF Working
  <2>5. Emit(<<State("ready")>>)
    BY <1>1, <1>5, Reports
  <2> QED
    BY <1>2, <1>3, <2>1, <2>4, <2>5, NeutralRight
<1> QED
  BY <1>4, <1>5

LEMMA ApprovalRight ==
    ASSUME Before, RespondToRequest \/ \E p \in Agent : RequestApproval(p)
    PROVE  After'
<1>1. /\ agents \in [Agent -> Process] /\ TypeOK /\ owner \in Agent \cup {None}
  BY DEF Before, TypeOK
<1>2. /\ ingesting' = ingesting /\ session' = session /\ leftovers' = leftovers
      /\ replaced' = replaced /\ owner' = owner /\ erred' = erred
  BY DEF RespondToRequest, RequestApproval, thread, history
<1>3. \A q \in Agent : agents'[q].turn = agents[q].turn
  <2>1. \/ agents' = agents
        \/ \E p \in Agent : \E s : agents' = [agents EXCEPT ![p].pending = s]
    BY <1>1 DEF RespondToRequest, RequestApproval, Calls
  <2> QED
    BY <1>1, <2>1 DEF Process
<1>4. Working' = Working
  BY <1>1, <1>2, <1>3 DEF Working
<1>5. \A type \in {"opened", "resolved"}, p \in Agent, t \in Turn :
         About(type, p, t) \in Event /\ About(type, p, t).type = type
  BY EventTypes DEF About
<1>6. CASE RespondToRequest
  <2>1. \/ events' = events
        \/ /\ owner \in Agent /\ reactor.intent.turn \in Turn
           /\ Emit(<<About("resolved", owner, reactor.intent.turn)>>)
    BY <1>1, <1>6, Reports
  <2> QED
    BY <1>2, <1>4, <1>5, <2>1, SameRight, NeutralRight
<1>7. ASSUME NEW p \in Agent, RequestApproval(p) PROVE After'
  <2>1. agents[p].turn \in Turn /\ Emit(<<About("opened", p, agents[p].turn)>>)
    BY <1>1, <1>7, Reports
  <2> QED
    BY <1>2, <1>4, <1>5, <2>1, NeutralRight
<1> QED
  BY <1>6, <1>7

(* An agent only says something.  An error in the turn it works on makes   *)
(* that a turn which need not be shown as running.                         *)
LEMMA RemarkRight ==
    ASSUME Before, ~ disturbed', NEW p \in Agent, RuntimeError(p) \/ ThreadStarted(p)
    PROVE  After'
<1> DEFINE t == agents[p].turn
           e == About("turnError", p, t)
<1>1. /\ TypeOK /\ t \in Turn \cup {None} /\ None \notin erred /\ None \notin Turn
      /\ erred \subseteq Turn /\ Error \in Event /\ Clears(Error)
      /\ Announced \in Event /\ Announced.type = "announced" /\ None \notin Agent
  BY EventTypes, WorkingTypes DEF Before, TypeOK, Process, Error, Clears, Announced
<1>2. /\ agents' = agents /\ owner' = owner /\ replaced' = replaced
      /\ session' = session /\ leftovers' = leftovers /\ Working' = Working
      /\ ingesting' = ingesting
  BY DEF RuntimeError, ThreadStarted, thread, history, Working
<1>3. Alive(p) /\ (p = owner \/ p \in replaced)
  BY DEF RuntimeError, ThreadStarted, Before, SessionInv, Undisturbed
<1>4. p = owner => Working = t
  BY <1>1 DEF Working
<1>5. CASE ThreadStarted(p)
  <2>1. Emit(<<Announced>>) /\ erred' = erred
    BY <1>5 DEF ThreadStarted, history
  <2> QED
    BY <1>1, <1>2, <2>1, NeutralRight
<1> HIDE DEF e, t
<1>6. ASSUME RuntimeError(p)
      PROVE  /\ erred' = erred \cup ({t} \ {None})
             /\ \/ Emit(<<Error>>) /\ owner \in {None, p}
                \/ t # None /\ Emit(<<e>>)
  BY <1>6 DEF RuntimeError, Disturbed, Before, t, e
<1>7. CASE RuntimeError(p) /\ Emit(<<Error>>) /\ owner \in {None, p}
  <2>1. Working' = None \/ Working' \in erred'
    <3>1. owner = None => Working = None
      BY DEF Working
    <3> QED
      BY <1>2, <1>4, <1>6, <1>7, <3>1
  <2> QED
    BY <1>1, <1>7, <2>1, EndRight
<1>8. CASE RuntimeError(p) /\ t # None /\ Emit(<<e>>)
  <2>1. t \in Turn /\ t \in erred' /\ erred \subseteq erred' /\ None \notin erred'
    BY <1>1, <1>6, <1>8
  <2>2. e \in Event /\ e.type = "turnError" /\ e.turn = t /\ e.agent = p
    BY <2>1, EventTypes DEF About, e
  <2>3. ASSUME NEW v \in Views, NEW u, Right(v, Working, leftovers, erred),
               Moves(e, v, u, replaced)
        PROVE  Right(u, Working', leftovers, erred')
    <3>1. IF v.turn \in {None, t}
          THEN p \notin replaced /\ u = [turn |-> t, running |-> FALSE]
          ELSE u = v
      <4>1. (e.type = "started") = FALSE /\ Names(e)
        BY <2>2 DEF Names
      <4> QED
        BY <2>2, <2>3, <4>1 DEF Moves
    <3>2. CASE v.turn \notin {None, t}
      BY <1>2, <2>1, <2>3, <3>1, <3>2, RightMore
    <3>3. CASE v.turn \in {None, t}
      <4>1. Working' = t /\ u = [turn |-> t, running |-> FALSE]
        BY <1>2, <1>3, <1>4, <3>1, <3>3
      <4> QED
        BY <2>1, <4>1, RightCases
    <3> QED
      BY <3>2, <3>3
  <2> QED
    BY <1>2, <1>8, <2>2, <2>3, MoreRight
<1> QED
  BY <1>5, <1>6, <1>7, <1>8

(* What reports nothing leaves the manager's agent with its turn.          *)
LEMMA SilentRight ==
    ASSUME Before,
           \/ AskTurn \/ Interrupt \/ Stop \/ SetRuntimeMode
           \/ \E t \in Turn : Answer(t)
           \/ Take \/ Record \/ Recover \/ RouteFails \/ SendTurn
           \/ SendFails \/ SendTimesOut \/ Report \/ UNCHANGED vars
    PROVE  After'
<1>1. agents \in [Agent -> Process] /\ owner \in Agent \cup {None}
  BY DEF Before, TypeOK
<1>2. events' = events /\ ingesting' = ingesting
  BY Silent
<1>3. /\ session' = session /\ replaced' = replaced /\ leftovers' = leftovers
      /\ owner' = owner /\ erred' = erred
  BY DEF AskTurn, Interrupt, Stop, SetRuntimeMode, AskTo, Answer, Take, Record, Recover,
         RouteFails, SendTurn, SendFails, SendTimesOut, Report, thread, history, vars
<1>4. \A p \in Agent : agents'[p].turn = agents[p].turn
  <2>1. CASE SendTurn
    BY <1>1, <2>1 DEF SendTurn, Process
  <2>2. CASE SendFails
    BY <1>1, <2>2 DEF SendFails, Process
  <2>3. CASE agents' = agents
    BY <2>3
  <2> QED
    BY <2>1, <2>2, <2>3
       DEF AskTurn, Interrupt, Stop, SetRuntimeMode, AskTo, Answer, Take, Record, Recover,
           RouteFails, SendTimesOut, Report, vars
<1>5. Working' = Working
  BY <1>1, <1>3, <1>4 DEF Working
<1> QED
  BY <1>2, <1>3, <1>5, SameRight

LEMMA EndsRightStep ==
    ASSUME TypeOK, SessionInv, [Next]_vars
    PROVE  EndsRight'
<1> SUFFICES ASSUME ~ disturbed', ~ Binding' PROVE After'
  BY DEF EndsRight, After
<1>1. ~ disturbed /\ (Binding => Bind \/ OpenFails \/ Crash \/ Shutdown)
  BY WorkAt, OwnerStep
<1>2. ~ Binding => Before
  BY <1>1 DEF Before, SessionInv, EndsRight
<1>3. /\ Error \in Event /\ Exited \in Event /\ Clears(Error) /\ Clears(Exited)
  BY EventTypes DEF State, Exited, Error, Clears
<1>4. owner' = None => Working' = None
  BY DEF Working
<1>5. CASE Bind \/ SetStopped
  BY <1>1, <1>5, BindRight
<1>6. CASE Crash \/ Shutdown
  BY <1>6, DownRight DEF SessionInv
<1>7. CASE OpenFails \/ \E p \in Agent : Exit(p)
  <2>1. owner' = None
    BY <1>7 DEF OpenFails, Exit
  <2>2. \E e \in Event : Clears(e) /\ (Emit(<<e>>) \/ \E f \in Event : Emit(<<f, e>>))
    BY <1>3, <1>7, Reports
  <2> QED
    BY <1>4, <2>1, <2>2, EndRight
<1>8. CASE SpawnFails
  <2>1. owner = None /\ owner' = owner
    BY <1>8 DEF SpawnFails, Disturbed
  <2>2. Emit(<<Error>>)
    BY <1>8, Reports
  <2> QED
    BY <1>3, <1>4, <2>1, <2>2, EndRight
<1>9. CASE StopSession
  <2>1. CASE Emit(<<Exited>>)
    <3>1. owner' = None
      BY <1>9 DEF StopSession
    <3> QED
      BY <1>3, <1>4, <2>1, <3>1, EndRight
  <2>2. CASE owner = None
    <3>1. Before
      BY <1>1, <1>2, <1>9 DEF StopSession, Bind, OpenFails, Binding, Opening
    <3>2. /\ ingesting' = ingesting /\ session' = session /\ replaced' = replaced
          /\ leftovers' = leftovers /\ owner' = None /\ events' = events
          /\ erred' = erred
      BY <1>9, <2>2 DEF StopSession, thread
    <3>3. Working = None /\ Working' = None
      BY <2>2, <3>2 DEF Working
    <3> QED
      BY <3>1, <3>2, <3>3, SameRight
  <2> QED
    BY <1>9, <2>1, <2>2 DEF StopSession
<1>10. CASE ~ Binding
  <2>1. Before
    BY <1>2, <1>10
  <2>2. CASE \/ AskTurn \/ Interrupt \/ Stop \/ SetRuntimeMode
             \/ \E t \in Turn : Answer(t)
             \/ Take \/ Record \/ Recover \/ RouteFails \/ SendTurn
             \/ SendFails \/ SendTimesOut \/ Report \/ UNCHANGED vars
    BY <2>1, <2>2, SilentRight
  <2>3. CASE \E p \in Agent : Spawn(p) \/ Opened(p)
    BY <2>1, <2>3, SpawnRight
  <2>4. CASE RespondToRequest \/ \E p \in Agent : RequestApproval(p)
    BY <2>1, <2>4, ApprovalRight
  <2>5. CASE ReadEvent
    BY <2>1, <2>5, ReadRight
  <2>6. CASE Ingest
    BY <2>1, <2>6, IngestRight
  <2>7. CASE \E p \in Agent : TakeTurn(p)
    BY <2>1, <2>7, TakeRight
  <2>8. ASSUME NEW p \in Agent, EndTurn(p) \/ FailTurn(p) PROVE After'
    <3>1. /\ agents[p].turn # None /\ agents' = [agents EXCEPT ![p].turn = None]
          /\ \E type \in {"completed", "failed"} :
                Emit(<<About(type, p, agents[p].turn)>>)
          /\ ingesting' = ingesting
          /\ session' = session /\ owner' = owner /\ replaced' = replaced
          /\ leftovers' = leftovers /\ erred' = erred
      BY <2>8 DEF EndTurn, FailTurn, thread, history
    <3> QED
      BY <2>1, <3>1, CompletedRight
  <2>9. CASE InterruptTurn
    <3>1. /\ ingesting' = ingesting /\ session' = session /\ owner' = owner
          /\ replaced' = replaced /\ leftovers' = leftovers /\ owner \in Agent
          /\ erred' = erred
          /\ \/ agents' = agents /\ events' = events
             \/ /\ agents[owner].turn # None
                /\ agents' = [agents EXCEPT ![owner].turn = None]
                /\ Emit(<<About("completed", owner, agents[owner].turn)>>)
      BY <2>9 DEF InterruptTurn, Calls, thread, history, TypeOK
    <3>2. agents' = agents => Working' = Working
      BY <3>1 DEF Working
    <3> QED
      BY <2>1, <3>1, <3>2, SameRight, CompletedRight
  <2>10. CASE \E p \in Agent : RuntimeError(p) \/ ThreadStarted(p)
    BY <2>1, <2>10, RemarkRight
  <2> QED
    BY <1>5, <1>6, <1>7, <1>8, <1>9, <2>2, <2>3, <2>4, <2>5, <2>6, <2>7, <2>8, <2>9,
       <2>10 DEF Next, Reactor
<1> QED
  BY <1>1, <1>5, <1>6, <1>7, <1>10

LEMMA SessionStep == TypeOK /\ SessionInv /\ [Next]_vars => SessionInv'
  BY TurnStep, FreshStep, UndisturbedStep, RunningStep, EndsRightStep DEF SessionInv

(* Once everything is processed the thread is shown as running exactly if  *)
(* its agent works, and on that turn, unless something disturbed it, the   *)
(* turn was left over, or the agent reported an error in that turn and     *)
(* went on, in which case it is not shown as running: at every moment the  *)
(* events that are on their way lead the session there.                    *)
THEOREM SessionIsShownTrue == Spec => []SessionIsTrue
<1>1. TypeOK /\ Init => SessionInv
  BY SessionInit
<1>2. TypeOK /\ SessionInv /\ [Next]_vars => (TypeOK /\ SessionInv)'
  BY TypeStep, SessionStep
<1>3. TypeOK /\ SessionInv => SessionIsTrue
  <2> SUFFICES ASSUME TypeOK, SessionInv, Quiet, ~ disturbed, session.turn \notin leftovers
               PROVE  \/ /\ session.turn = Working
                         /\ session.status = "running" <=> Working # None
                      \/ /\ Working \in erred /\ session.turn \in {None, Working}
                         /\ session.status # "running"
    BY DEF SessionIsTrue
  <2> DEFINE T == [k \in 0..0 |-> View]
  <2>1. /\ events = <<>> /\ ingesting.at # "read" /\ ~ Binding
    BY DEF Quiet, Idle, Binding, Opening
  <2>2. T \in Traces(View, ingesting, events, replaced)
    <3>1. View \in Views /\ Len(events) = 0 /\ T \in [0..0 -> {View}] /\ T[0] = View
      BY <2>1, WorkingTypes
    <3> HIDE DEF T
    <3>2. ~ Applies(ingesting)
      BY <2>1 DEF Applies
    <3> QED
      BY <3>1, <3>2 DEF Traces, Begins
  <2>3. T[Len(events)] = View
    BY <2>1
  <2>4. Right(View, Working, leftovers, erred)
    BY <2>1, <2>2, <2>3 DEF SessionInv, EndsRight, AllRight
  <2> QED
    BY <2>4 DEF Right, View
<1> QED
  BY <1>1, <1>2, <1>3, InitTypes, PTL DEF Spec
=============================================================================
