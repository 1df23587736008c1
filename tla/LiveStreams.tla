----------------------------- MODULE LiveStreams -----------------------------
(***************************************************************************)
(* How one thread reaches a browser: the engine commits and publishes its  *)
(* events; the shell stream and the thread's detail stream of ws.ts each   *)
(* send a snapshot and then what the event hub brings; the store of the    *)
(* web client folds the items of both into one copy.                       *)
(*                                                                         *)
(* An event is its position in the log.  It adds a piece of message text   *)
(* ("text") or sets the thread's session ("session").                      *)
(***************************************************************************)
EXTENDS Integers, Sequences, FiniteSetsExt, SequencesExt

CONSTANTS
    MaxEvents,      \* bound: events of the thread
    MaxBatch,       \* bound: events of one command
    MaxFaults       \* bound: subscriptions that end, reads that fail

ASSUME LiveAssumption == MaxEvents \in Nat /\ MaxBatch \in Nat /\ MaxFaults \in Nat

Stream == {"shell", "detail"}

(* The detail handler's queries of messages and session, and the shell's.  *)
Query == {"text", "session", "shell"}

VARIABLES
    log,        \* the thread's committed events
    published,  \* how many of them the engine has published
    handler,    \* handler[s]: where the server's handler of stream s is
    seen,       \* seen[q]: the events that query q of the handlers last saw
    backlog,    \* backlog[s]: the hub subscription of stream s
    wire,       \* wire[s]: items sent, not yet delivered
    text,       \* the client's text, as the events it was made from
    session,    \* the client's session, as the event that set it
    sidebar,    \* the same in the sidebar's summary of the thread
    faults,     \* how many faults have happened
    missed      \* history, missed[s]: published events stream s was not
                \* there for and does not make up for

server == <<log, published, handler, seen, backlog>>
copy == <<text, session, sidebar>>
vars == <<server, wire, copy, faults, missed>>

(* asked     has not read anything                                         *)
(* half      detail: has read the messages, not yet the session            *)
(* sent      has sent the snapshot and does not listen to the hub yet      *)
HandlerPlace == {"idle", "asked", "half", "sent", "live"}

Are(kind, n) == {e \in 1..n : log[e] = kind}

(* What the tables hold after the first n events: the pieces in order, and  *)
(* the last session set.                                                   *)
TextAt(n) ==
    CHOOSE t \in [1..Cardinality(Are("text", n)) -> Are("text", n)] :
        /\ ToSet(t) = Are("text", n)
        /\ \A i, j \in DOMAIN t : i < j => t[i] < t[j]
SessionAt(n) == Max(Are("session", n) \cup {0})

Init ==
    /\ log = <<>> /\ published = 0
    /\ handler = [s \in Stream |-> "idle"]
    /\ seen = [q \in Query |-> 0]
    /\ backlog = [s \in Stream |-> <<>>]
    /\ wire = [s \in Stream |-> <<>>]
    /\ text = <<>> /\ session = 0 /\ sidebar = 0
    /\ faults = 0
    /\ missed = [s \in Stream |-> {}]

-----------------------------------------------------------------------------
(* One command's transaction; the engine takes the next command when all   *)
(* events of this one are published.                                       *)
Commit ==
    /\ published = Len(log)
    /\ \E n \in 1..MaxBatch : \E batch \in [1..n -> {"text", "session"}] :
          /\ Len(log) + n <= MaxEvents
          /\ log' = log \o batch
    /\ UNCHANGED <<published, handler, seen, backlog, wire, copy, faults, missed>>

(* Whether stream s, not listening yet, has read e's table without e.      *)
Overlooks(s, e) ==
    LET query == IF s = "shell" THEN "shell" ELSE log[e]
    IN  /\ e > seen[query]
        /\ \/ handler[s] = "sent"
           \/ handler[s] = "half" /\ query = "text"

(* MUTANT: a hub that keeps one event per subscriber.                      *)
Publish_Sliding ==
    LET e == published + 1 IN
    /\ published < Len(log)
    /\ published' = e
    /\ backlog' = [s \in Stream |->
                     IF handler[s] = "live" THEN <<e>> ELSE backlog[s]]
    /\ missed' = [s \in Stream |-> missed[s] \cup {x \in {e} : Overlooks(s, x)}]
    /\ UNCHANGED <<log, handler, seen, wire, copy, faults>>

(* PubSub.publish of the next event, to the streams that are subscribed.   *)
(* An event that the snapshot holds already is not missed.                 *)
Publish ==
    LET e == published + 1 IN
    /\ published < Len(log)
    /\ published' = e
    /\ backlog' = [s \in Stream |->
                     IF handler[s] = "live" THEN Append(backlog[s], e) ELSE backlog[s]]
    /\ missed' = [s \in Stream |-> missed[s] \cup {x \in {e} : Overlooks(s, x)}]
    /\ UNCHANGED <<log, handler, seen, wire, copy, faults>>

(* The client subscribes; what the new snapshot brings was not missed.     *)
Request(s) ==
    /\ handler[s] = "idle"
    /\ handler' = [handler EXCEPT ![s] = "asked"]
    /\ missed' = [missed EXCEPT ![s] = {}]
    /\ UNCHANGED <<log, published, seen, backlog, wire, copy, faults>>

(* subscribeShell: the snapshot is read in one transaction and sent.       *)
ShellSnapshot ==
    /\ handler["shell"] = "asked"
    /\ handler' = [handler EXCEPT !["shell"] = "sent"]
    /\ seen' = [seen EXCEPT !["shell"] = Len(log)]
    /\ wire' = [wire EXCEPT !["shell"] =
                  Append(@, [kind |-> "shell", session |-> SessionAt(Len(log))])]
    /\ UNCHANGED <<log, published, backlog, copy, faults, missed>>

(* subscribeThread: the queries of getThreadDetailById share no            *)
(* transaction; the messages are read first, the session last.             *)
ReadMessages ==
    /\ handler["detail"] = "asked"
    /\ handler' = [handler EXCEPT !["detail"] = "half"]
    /\ seen' = [seen EXCEPT !["text"] = Len(log)]
    /\ UNCHANGED <<log, published, backlog, wire, copy, faults, missed>>

DetailSnapshot ==
    /\ handler["detail"] = "half"
    /\ handler' = [handler EXCEPT !["detail"] = "sent"]
    /\ seen' = [seen EXCEPT !["session"] = Len(log)]
    /\ wire' = [wire EXCEPT !["detail"] =
                  Append(@, [kind |-> "detail", text |-> TextAt(seen["text"]),
                             session |-> SessionAt(Len(log))])]
    /\ UNCHANGED <<log, published, backlog, copy, faults, missed>>

(* Stream.concat goes on to the live part, which subscribes to the hub.    *)
Listen(s) ==
    /\ handler[s] = "sent"
    /\ handler' = [handler EXCEPT ![s] = "live"]
    /\ UNCHANGED <<log, published, seen, backlog, wire, copy, faults, missed>>

(* MUTANT: the newest event goes first.                                    *)
ForwardEvent_Newest ==
    /\ backlog["detail"] # <<>>
    /\ wire' = [wire EXCEPT !["detail"] =
                  Append(@, [kind |-> "event", event |-> Last(backlog["detail"])])]
    /\ backlog' = [backlog EXCEPT !["detail"] = Front(@)]
    /\ UNCHANGED <<log, published, handler, seen, copy, faults, missed>>

(* The detail stream sends the event itself.                               *)
ForwardEvent ==
    /\ backlog["detail"] # <<>>
    /\ wire' = [wire EXCEPT !["detail"] =
                  Append(@, [kind |-> "event", event |-> Head(backlog["detail"])])]
    /\ backlog' = [backlog EXCEPT !["detail"] = Tail(@)]
    /\ UNCHANGED <<log, published, handler, seen, copy, faults, missed>>

(* MUTANT: the event's own session is sent.                                *)
ForwardShell_FromEvent ==
    /\ backlog["shell"] # <<>>
    /\ wire' = [wire EXCEPT !["shell"] =
                  Append(@, [kind |-> "shell",
                             session |-> SessionAt(Head(backlog["shell"]))])]
    /\ backlog' = [backlog EXCEPT !["shell"] = Tail(@)]
    /\ missed' = [missed EXCEPT !["shell"] = {}]
    /\ UNCHANGED <<log, published, handler, seen, copy, faults>>

(* MUTANT: session events bring no upsert.                                 *)
ForwardShell_TextOnly ==
    /\ backlog["shell"] # <<>>
    /\ wire' = IF log[Head(backlog["shell"])] = "session" THEN wire
               ELSE [wire EXCEPT !["shell"] =
                       Append(@, [kind |-> "shell", session |-> SessionAt(Len(log))])]
    /\ backlog' = [backlog EXCEPT !["shell"] = Tail(@)]
    /\ missed' = [missed EXCEPT !["shell"] = {}]
    /\ UNCHANGED <<log, published, handler, seen, copy, faults>>

(* toShellStreamEvent: the shell stream sends what the tables say now,     *)
(* which makes up for everything before.                                   *)
ForwardShell ==
    /\ backlog["shell"] # <<>>
    /\ wire' = [wire EXCEPT !["shell"] =
                  Append(@, [kind |-> "shell", session |-> SessionAt(Len(log))])]
    /\ backlog' = [backlog EXCEPT !["shell"] = Tail(@)]
    /\ missed' = [missed EXCEPT !["shell"] = {}]
    /\ UNCHANGED <<log, published, handler, seen, copy, faults>>

(* Its read fails, and the event is left out.                              *)
ForwardFails ==
    /\ backlog["shell"] # <<>>
    /\ faults < MaxFaults /\ faults' = faults + 1
    /\ backlog' = [backlog EXCEPT !["shell"] = Tail(@)]
    /\ missed' = [missed EXCEPT !["shell"] = @ \cup {Head(backlog["shell"])}]
    /\ UNCHANGED <<log, published, handler, seen, wire, copy>>

(* The subscriptions S end: the client drops one, or the connection goes.  *)
(* The client's listener ignores what was under way.                       *)
End(S) ==
    /\ \E s \in S : handler[s] # "idle"
    /\ faults < MaxFaults /\ faults' = faults + 1
    /\ handler' = [s \in Stream |-> IF s \in S THEN "idle" ELSE handler[s]]
    /\ backlog' = [s \in Stream |-> IF s \in S THEN <<>> ELSE backlog[s]]
    /\ wire' = [s \in Stream |-> IF s \in S THEN <<>> ELSE wire[s]]
    /\ UNCHANGED <<log, published, seen, copy, missed>>

-----------------------------------------------------------------------------
(* writeThreadShellState: a shell snapshot or upsert sets both sessions    *)
(* and leaves the messages alone.                                          *)
ApplyShell(item) ==
    /\ item.kind = "shell"
    /\ session' = item.session /\ sidebar' = item.session
    /\ UNCHANGED text

(* syncServerThreadDetail: the snapshot replaces messages and session.     *)
ApplyDetail(item) ==
    /\ item.kind = "detail"
    /\ session' = item.session /\ text' = item.text
    /\ UNCHANGED sidebar

(* thread.message-sent appends a streaming message's text, and             *)
(* thread.session-set replaces the session, whatever is there.             *)
ApplyEvent(item) ==
    /\ item.kind = "event"
    /\ IF log[item.event] = "text"
       THEN text' = Append(text, item.event) /\ UNCHANGED session
       ELSE session' = item.event /\ UNCHANGED text
    /\ UNCHANGED sidebar

Receive(s) ==
    /\ wire[s] # <<>>
    /\ LET item == Head(wire[s])
       IN  ApplyShell(item) \/ ApplyDetail(item) \/ ApplyEvent(item)
    /\ wire' = [wire EXCEPT ![s] = Tail(@)]
    /\ UNCHANGED <<server, faults, missed>>

Next ==
    \/ Commit \/ Publish
    \/ ShellSnapshot \/ ReadMessages \/ DetailSnapshot
    \/ ForwardEvent \/ ForwardShell \/ ForwardFails
    \/ \E s \in Stream : Request(s) \/ Listen(s) \/ Receive(s)
    \/ End({"detail"}) \/ End(Stream)

Spec == Init /\ [][Next]_vars

-----------------------------------------------------------------------------
Item ==
    [kind : {"shell"}, session : 0..MaxEvents]
      \cup [kind : {"event"}, event : 1..MaxEvents]
      \cup [kind : {"detail"}, session : 0..MaxEvents, text : Seq(1..MaxEvents)]

(* Every variable has its type, and a handler that does not listen has no  *)
(* hub subscription (engine, handlers, hub, wire and store).               *)
TypeOK ==
    /\ log \in Seq({"text", "session"})
    /\ published \in 0..Len(log)
    /\ handler \in [Stream -> HandlerPlace]
    /\ seen \in [Query -> 0..Len(log)]
    /\ backlog \in [Stream -> Seq(1..published)]
    /\ \A s \in Stream : handler[s] # "live" => backlog[s] = <<>>
    /\ \A s \in Stream : wire[s] \in Seq(Item)
    /\ text \in Seq(1..Len(log))
    /\ {session, sidebar} \subseteq 0..Len(log)
    /\ missed \in [Stream -> SUBSET (1..published)]

(* The positions after which the client's text does not go on with the     *)
(* next piece of the log.                                                  *)
Seams == {i \in 1..Len(text) :
            /\ i = 1 => \E e \in Are("text", Len(log)) : e < text[1]
            /\ i > 1 => \/ text[i] <= text[i - 1]
                        \/ \E e \in Are("text", Len(log)) :
                              text[i - 1] < e /\ e < text[i]}

(* The client's text is a beginning of the thread's text and then one      *)
(* stretch of it: the live part loses, repeats and reorders nothing, and   *)
(* nothing of an ended subscription slips in.  Only where snapshot and     *)
(* live part meet can pieces be missing or come twice.                     *)
OneSeam == Cardinality(Seams) <= 1

Delivered(s) == handler[s] = "live" /\ backlog[s] = <<>> /\ wire[s] = <<>>
Quiet == published = Len(log) /\ \A s \in Stream : Delivered(s)

(* Once all is delivered the text lacks exactly the pieces published       *)
(* between the snapshot's query and the subscription to the hub.           *)
LossIsTheGap ==
    (published = Len(log) /\ Delivered("detail"))
    => Are("text", Len(log)) \ ToSet(text) = missed["detail"] \cap Are("text", Len(log))

(* The sidebar's session is written by the shell stream alone and never    *)
(* goes back: not by a snapshot ahead of the events that follow it, nor    *)
(* by a new subscription.                                                  *)
SidebarNeverGoesBack == [][sidebar' >= sidebar]_vars

(* Two streams write the session in an order nobody fixes; once all is     *)
(* delivered both copies of it are current, unless a stream was not there  *)
(* for the event that set it.                                              *)
SessionsSettle ==
    LET last == SessionAt(Len(log)) IN
    /\ (Quiet /\ last \notin missed["shell"] \cup missed["detail"]) => session = last
    /\ (published = Len(log) /\ Delivered("shell") /\ last \notin missed["shell"])
       => sidebar = last
=============================================================================
