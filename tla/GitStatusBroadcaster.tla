------------------------ MODULE GitStatusBroadcaster ------------------------
(***************************************************************************)
(* The git status of one working directory: the broadcaster that caches it *)
(* and streams its changes to browsers (GitStatusBroadcaster.ts), over the *)
(* lookups that the git manager shares (GitManager.ts).  A step runs up to *)
(* where its fiber waits: for a git command, for another fiber's lookup,   *)
(* or for time.                                                            *)
(***************************************************************************)
EXTENDS Integers

CONSTANTS
    Client,          \* browsers that stream the status
    Caller,          \* calls of refreshStatus and refreshLocalStatus
    Poller,          \* the fiber of the remote refresh loop
    Status,          \* what a part of the status may be
    None,
    MaxChanges,      \* bound: changes in the repository
    MaxFailures      \* bound: git commands that fail

Part == {"local", "remote"}
Fiber == Client \cup Caller \cup {Poller}

VARIABLES
    repository,   \* repository[p]: what git would say now
    running,      \* running[p]: whose lookup of part p the manager shares
    cached,       \* cached[p]: the broadcaster's own copy
    subscribers,  \* subscriberCount of the poller; 0 when there is none
    at,           \* at[x]: what fiber x does
    source,       \* source[x]: whose lookup it waits for
    read,         \* read[x]: what that lookup found
    events,       \* events[c][p]: the newest event about part p that client c
                  \* has not seen yet
    copy,         \* copy[c]: what the client shows
    changes, failures,
    silent        \* history: whether a load has replaced a local status that
                  \* clients were told of, and none was published since

lookup == <<at, source, read>>
bounds == <<changes, failures>>
vars == <<repository, running, cached, subscribers, lookup, events, copy, bounds, silent>>

(* off      a stream that is closed, a call not made, no poller            *)
(* asleep   a poller between two rounds                                    *)
(* on       a stream that has its snapshot                                 *)
(* done     a call that has returned                                       *)
(* A fiber that awaits a lookup is at the part it looks up.                *)
Place == {"off", "asleep", "on", "done"} \cup Part

Nothing == [p \in Part |-> None]

Init ==
    /\ repository \in [Part -> Status]
    /\ running = [p \in Part |-> None]
    /\ cached = [p \in Part |-> None]
    /\ subscribers = 0
    /\ at = [x \in Fiber |-> "off"]
    /\ source = [x \in Fiber |-> x]
    /\ read = [x \in Fiber |-> None]
    /\ events = [c \in Client |-> Nothing]
    /\ copy = [c \in Client |-> Nothing]
    /\ changes = 0 /\ failures = 0
    /\ silent = FALSE

-----------------------------------------------------------------------------
(* The lookups of the git manager (a Cache of Effect, external).  The one  *)
(* who asks first runs it; who asks meanwhile waits for the same one.  The *)
(* result that is kept for a second afterwards is never used: who has      *)
(* looked it up has put it into the broadcaster's cache, and who does not  *)
(* want that asks the manager for a new one.                               *)
Waits(x, p, by) ==
    /\ at' = [at EXCEPT ![x] = p]
    /\ source' = [source EXCEPT ![x] = by]
    /\ read' = [read EXCEPT ![x] = None]

Joined(x) == {y \in Fiber \ {x} : at[y] \in Part /\ source[y] = x /\ read[y] = None}

(* What is running when the lookup of x no longer is.                      *)
Without(x) == [p \in Part |-> IF running[p] = x THEN None ELSE running[p]]

(* The lookup of x has failed or was interrupted: those who joined it fail *)
(* too.                                                                    *)
Abandon(x, place) ==
    /\ running' = Without(x)
    /\ at' = [y \in Fiber |-> IF y = x THEN place
                              ELSE IF y \in Joined(x) THEN "off" ELSE at[y]]
    /\ source' = [y \in Fiber |-> IF y \in {x} \cup Joined(x) THEN y ELSE source[y]]
    /\ read' = [read EXCEPT ![x] = None]
    /\ events' = [c \in Client |-> IF at'[c] = "off" THEN Nothing ELSE events[c]]

(* The git command of x's lookup sees the repository; its result is used   *)
(* some time later.                                                        *)
Read(x) ==
    /\ at[x] \in Part /\ source[x] = x /\ read[x] = None
    /\ read' = [read EXCEPT ![x] = repository[at[x]]]
    /\ UNCHANGED <<repository, running, cached, subscribers, at, source, events, copy,
                   bounds, silent>>

(* invalidateStatus, after a git action of a user: nobody joins what is    *)
(* running.                                                                *)
Invalidate ==
    /\ running' = [p \in Part |-> None]
    /\ UNCHANGED <<repository, cached, subscribers, lookup, events, copy, bounds, silent>>

-----------------------------------------------------------------------------
Subscribed(c) == at[c] \in {"local", "on"}

(* MUTANT: the local status is cached and not published.                   *)
Update_LocalUnpublished(p, v) ==
    /\ cached' = [cached EXCEPT ![p] = v]
    /\ events' = [c \in Client |->
                    IF p = "remote" /\ cached[p] # v /\ Subscribed(c)
                    THEN [events[c] EXCEPT ![p] = v] ELSE events[c]]
    /\ UNCHANGED silent

(* updateCachedLocalStatus and updateCachedRemoteStatus with publish.      *)
Update(p, v) ==
    /\ cached' = [cached EXCEPT ![p] = v]
    /\ events' = [c \in Client |->
                    IF cached[p] # v /\ Subscribed(c)
                    THEN [events[c] EXCEPT ![p] = v] ELSE events[c]]
    /\ silent' = (silent /\ (p = "remote" \/ cached[p] = v))

(* streamStatus once it has the local status: it takes what remote status  *)
(* there is into its snapshot, and retains the poller.  The events of the  *)
(* meantime follow the snapshot.                                           *)
Start(c, local) ==
    /\ subscribers' = subscribers + 1
    /\ at' = [at EXCEPT ![c] = "on",
                        ![Poller] = IF subscribers = 0 THEN "asleep" ELSE @]
    /\ copy' = [copy EXCEPT ![c] = [cached EXCEPT !["local"] = local]]
    /\ UNCHANGED events

(* streamStatus: it subscribes, then getOrLoadLocalStatus, which has the   *)
(* status at once, or joins or starts a lookup.                            *)
Open(c) ==
    /\ at[c] = "off"
    /\ \/ /\ cached["local"] # None
          /\ Start(c, cached["local"])
          /\ UNCHANGED <<running, source, read>>
       \/ /\ cached["local"] = None
          /\ LET by == IF running["local"] = None THEN c ELSE running["local"] IN
             /\ running' = [running EXCEPT !["local"] = by]
             /\ Waits(c, "local", by)
          /\ UNCHANGED <<subscribers, copy, events>>
    /\ UNCHANGED <<repository, cached, bounds, silent>>

(* Its load returns; that status is cached, but not published.             *)
Loaded(c) ==
    /\ at[c] = "local" /\ read[c] # None
    /\ Start(c, read[c])
    /\ cached' = [cached EXCEPT !["local"] = read[c]]
    /\ silent' = (silent \/ cached["local"] \notin {None, read[c]})
    /\ running' = Without(c)
    /\ read' = [y \in Fiber |-> IF y \in Joined(c) THEN read[c]
                                ELSE IF y = c THEN None ELSE read[y]]
    /\ source' = [source EXCEPT ![c] = c]
    /\ UNCHANGED <<repository, bounds>>

(* The client goes away.  The last one takes the poller with it            *)
(* (releaseRemotePoller), one that still loads its own lookup.             *)
Close(c) ==
    /\ Subscribed(c)
    /\ IF at[c] = "local"
       THEN Abandon(c, "off") /\ UNCHANGED subscribers
       ELSE /\ subscribers' = subscribers - 1
            /\ LET gone == IF subscribers = 1 THEN {c, Poller} ELSE {c} IN
               /\ at' = [x \in Fiber |-> IF x \in gone THEN "off" ELSE at[x]]
               /\ read' = [x \in Fiber |-> IF x \in gone THEN None ELSE read[x]]
               /\ running' = [p \in Part |-> IF running[p] \in gone THEN None ELSE running[p]]
            /\ events' = [events EXCEPT ![c] = Nothing]
            /\ UNCHANGED source
    /\ UNCHANGED <<repository, cached, copy, bounds, silent>>

(* What client c shows once the events that wait for it have arrived.      *)
Expected(c) ==
    [p \in Part |-> IF events[c][p] # None THEN events[c][p] ELSE copy[c][p]]

(* applyGitStatusStreamEvent, for the events that have come.               *)
Deliver(c) ==
    /\ at[c] = "on" /\ events[c] # Nothing
    /\ copy' = [copy EXCEPT ![c] = Expected(c)]
    /\ events' = [events EXCEPT ![c] = Nothing]
    /\ UNCHANGED <<repository, running, cached, subscribers, lookup, bounds, silent>>

-----------------------------------------------------------------------------
(* A refresh invalidates the manager's result and looks up anew:           *)
(* refreshLocalStatus, with which refreshStatus begins,                    *)
Refresh(r) ==
    /\ at[r] = "off"
    /\ Waits(r, "local", r)
    /\ running' = [running EXCEPT !["local"] = r]
    /\ UNCHANGED <<repository, cached, subscribers, events, copy, bounds, silent>>

(* and, in rounds, the poller.                                             *)
Wake ==
    /\ at[Poller] = "asleep"
    /\ Waits(Poller, "remote", Poller)
    /\ running' = [running EXCEPT !["remote"] = Poller]
    /\ UNCHANGED <<repository, cached, subscribers, events, copy, bounds, silent>>

(* The lookup of a refresh returns; refreshStatus goes on to the remote    *)
(* part, the poller sleeps.                                                *)
Refreshed(x) ==
    LET p == at[x]
        joined == [y \in Fiber |-> IF y \in Joined(x) THEN read[x]
                                   ELSE IF y = x THEN None ELSE read[y]]
    IN  /\ p \in Part /\ read[x] # None
        /\ Update(p, read[x])
        /\ read' = joined
        /\ \/ /\ x # Poller /\ p = "local"
              /\ at' = [at EXCEPT ![x] = "remote"]
              /\ running' = [Without(x) EXCEPT !["remote"] = x]
           \/ /\ at' = [at EXCEPT ![x] = IF x = Poller THEN "asleep" ELSE "done"]
              /\ running' = Without(x)
        /\ UNCHANGED <<repository, subscribers, source, copy, bounds>>

(* MUTANT: a failed round ends the poller's fiber.                         *)
Fail_EndsPoller(x) ==
    /\ at[x] \in Part /\ source[x] = x
    /\ failures < MaxFailures /\ failures' = failures + 1
    /\ Abandon(x, IF x \in Caller THEN "done" ELSE "off")
    /\ UNCHANGED <<repository, cached, subscribers, copy, changes, silent>>

(* A git command fails: a stream ends, a call too, the poller goes on.     *)
Fail(x) ==
    /\ at[x] \in Part /\ source[x] = x
    /\ failures < MaxFailures /\ failures' = failures + 1
    /\ Abandon(x, IF x = Poller THEN "asleep" ELSE IF x \in Caller THEN "done" ELSE "off")
    /\ UNCHANGED <<repository, cached, subscribers, copy, changes, silent>>

(* The client of a refreshStatus goes away.                                *)
Leave(r) ==
    /\ at[r] \in Part
    /\ Abandon(r, "done")
    /\ UNCHANGED <<repository, cached, subscribers, copy, bounds, silent>>

(* Somebody works in the repository.                                       *)
Change(p, v) ==
    /\ v # repository[p]
    /\ changes < MaxChanges /\ changes' = changes + 1
    /\ repository' = [repository EXCEPT ![p] = v]
    /\ UNCHANGED <<running, cached, subscribers, lookup, events, copy, failures, silent>>

Next ==
    \/ \E c \in Client : Open(c) \/ Loaded(c) \/ Close(c) \/ Deliver(c)
    \/ \E r \in Caller : Refresh(r) \/ Leave(r)
    \/ Wake
    \/ \E x \in Caller \cup {Poller} : Refreshed(x)
    \/ \E x \in Fiber : Read(x) \/ Fail(x)
    \/ Invalidate
    \/ \E p \in Part, v \in Status : Change(p, v)

Spec == Init /\ [][Next]_vars

(* What fiber x does next: look up, use the result, deliver, or wake.      *)
Turn(x) ==
    \/ Read(x)
    \/ x \in Client /\ (Loaded(x) \/ Deliver(x))
    \/ x \in Caller \cup {Poller} /\ Refreshed(x)
    \/ x = Poller /\ Wake

(* Lookups and sleep end, and events are delivered.                        *)
Fairness == \A x \in Fiber : WF_vars(Turn(x))

FairSpec == Spec /\ Fairness

-----------------------------------------------------------------------------
(* Every variable has its type (fibers, caches, streams and clients).      *)
TypeOK ==
    /\ repository \in [Part -> Status]
    /\ running \in [Part -> Fiber \cup {None}]
    /\ cached \in [Part -> Status \cup {None}]
    /\ subscribers \in Nat
    /\ at \in [Fiber -> Place]
    /\ source \in [Fiber -> Fiber]
    /\ read \in [Fiber -> Status \cup {None}]
    /\ {events[c] : c \in Client} \subseteq [Part -> Status \cup {None}]
    /\ copy \in [Client -> [Part -> Status \cup {None}]]
    /\ silent \in BOOLEAN

(* Only changes of the broadcaster's copy are published, so each stream    *)
(* must have been told of the current one: whatever loads, refreshes and   *)
(* polls overlap, a client will show what is cached, unless a load has     *)
(* overwritten the local status after clients were told of a newer one.    *)
StreamsFollowTheCache ==
    \A c \in Client : at[c] = "on" =>
        /\ Expected(c)["remote"] = cached["remote"]
        /\ Expected(c)["local"] = cached["local"] \/ silent

(* A browser that keeps its stream sees the remote status the repository   *)
(* has, although results arrive late, calls overwrite newer ones, git      *)
(* commands fail and other browsers come and go.                           *)
RemoteStatusConverges ==
    \A c \in Client : <>[](at[c] = "on") => <>[](copy[c]["remote"] = repository["remote"])
=============================================================================
