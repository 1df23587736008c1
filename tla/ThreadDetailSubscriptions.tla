--------------------- MODULE ThreadDetailSubscriptions ---------------------
(***************************************************************************)
(* The web client's cache of thread-detail subscriptions                   *)
(* (apps/web environments/runtime/service.ts).  The callbacks of the page  *)
(* run one at a time, so each handler is one action: a consumer retains    *)
(* or releases, a timer fires, a connection is registered or removed, the  *)
(* shell stream or a thread's own stream delivers an item.                 *)
(*                                                                         *)
(* An entry is a pair <<thread, generation>>: a thread disposed and        *)
(* retained again has a new entry while consumers may still hold the old.  *)
(***************************************************************************)
EXTENDS Integers, FiniteSets

CONSTANTS
    Thread,
    Environment,
    EnvironmentOf,   \* EnvironmentOf[t]: where thread t lives
    Consumer,        \* components that retain: the chat view, the sidebar
    NoEntry,
    Generation,      \* bound: live entries of one thread
    MaxCached,       \* MAX_CACHED_THREAD_DETAIL_SUBSCRIPTIONS
    MaxLost          \* bound: timers of a thread that nobody can clear

Entry == Thread \X Generation

ASSUME SubscriptionsAssumption ==
    /\ EnvironmentOf \in [Thread -> Environment]
    /\ MaxCached \in Nat
    /\ MaxLost \in Nat
    /\ NoEntry \notin Entry

VARIABLES
    connected,  \* environments with a registered connection
    known,      \* threads the client's store has a shell for
    sidebar,    \* threads whose sidebar summary shows work or a request
    detail,     \* threads whose session, turn or plan shows work
    cached,     \* threadDetailSubscriptions
    link,       \* entries attached to a stream, and those that listen for
                \* changes of the connection registry
    refs,       \* refs[e]: refCount
    held,       \* held[c]: the entry the consumer's release closure is for
    timed,      \* entries that hold the handle of a pending timer
    lost        \* lost[t]: pending timers of t no entry holds the handle of

store == <<known, sidebar, detail>>
vars == <<connected, store, cached, link, refs, held, timed, lost>>

ThreadOf(e) == e[1]
Of(env) == {t \in Thread : EnvironmentOf[t] = env}
CachedIn(env) == {e \in cached : ThreadOf(e) \in Of(env)}
CachedFor(t) == {e \in cached : ThreadOf(e) = t}

Init ==
    /\ connected = {}
    /\ known = {} /\ sidebar = {} /\ detail = {}
    /\ cached = {}
    /\ link = [attached |-> {}, listening |-> {}]
    /\ refs = [e \in Entry |-> 0]
    /\ held = [c \in Consumer |-> NoEntry]
    /\ timed = {}
    /\ lost = [t \in Thread |-> 0]

-----------------------------------------------------------------------------
(* shouldEvictThreadDetailSubscription with reference counts r, sidebar    *)
(* copy s and detail copy d.                                               *)
Evictable(e, r, s, d) == r[e] = 0 /\ ThreadOf(e) \notin s \cup d

(* attachThreadDetailSubscription: whatever comes of it, the entry's       *)
(* listener is unsubscribed first.                                         *)
Attach(l, e) ==
    [attached |-> IF EnvironmentOf[ThreadOf(e)] \in connected
                  THEN l.attached \cup {e} ELSE l.attached,
     listening |-> l.listening \ {e}]

(* watchThreadDetailSubscriptionConnection: subscribes the listener, then  *)
(* tries to attach.                                                        *)
Watch(l, e) ==
    IF e \in l.listening THEN l
    ELSE Attach([l EXCEPT !.listening = @ \cup {e}], e)

AttachOrWatch(l, e) ==
    IF e \in Attach(l, e).attached THEN Attach(l, e)
    ELSE Watch(Attach(l, e), e)

(* emitEnvironmentConnectionRegistryChange, with connections conn.         *)
Emit(l, conn) ==
    [attached |-> l.attached \cup {e \in l.listening :
                                     EnvironmentOf[ThreadOf(e)] \in conn},
     listening |-> {}]

(* disposeThreadDetailSubscriptionByKey leaves the links without D.        *)
Unlink(l, D) == [attached |-> l.attached \ D, listening |-> l.listening \ D]

(* scheduleThreadDetailSubscriptionEviction for the entries in D.          *)
Rescheduled(D, tm, r, s, d) == (tm \ D) \cup {e \in D : Evictable(e, r, s, d)}

(* evictIdleThreadDetailSubscriptionsToCapacity: the sets of entries it    *)
(* may dispose of among S.  Which idle ones go first (by lastAccessedAt)   *)
(* is left open.                                                           *)
ToCapacity(S, r, s, d) ==
    LET idle == {e \in S : Evictable(e, r, s, d)}
        over == Cardinality(S) - MaxCached
    IN  {D \in SUBSET idle :
            Cardinality(D) = IF over <= 0 THEN 0
                             ELSE IF over <= Cardinality(idle) THEN over
                             ELSE Cardinality(idle)}

-----------------------------------------------------------------------------
(* MUTANT: retaining leaves the idle timer running.                        *)
RetainCached_KeepsTimer(c, e) ==
    /\ held[c] = NoEntry
    /\ e \in cached
    /\ held' = [held EXCEPT ![c] = e]
    /\ refs' = [refs EXCEPT ![e] = @ + 1]
    /\ link' = AttachOrWatch(link, e)
    /\ UNCHANGED <<connected, store, cached, timed, lost>>

(* retainThreadDetailSubscription.                                         *)
RetainCached(c, e) ==
    /\ held[c] = NoEntry
    /\ e \in cached
    /\ held' = [held EXCEPT ![c] = e]
    /\ refs' = [refs EXCEPT ![e] = @ + 1]
    /\ timed' = timed \ {e}
    /\ link' = AttachOrWatch(link, e)
    /\ UNCHANGED <<connected, store, cached, lost>>

(* An entry that no consumer and no timer remembers.                       *)
Unused(e) ==
    /\ e \notin cached \cup timed
    /\ \A c \in Consumer : held[c] # e

RetainNew(c, e) ==
    /\ held[c] = NoEntry
    /\ CachedFor(ThreadOf(e)) = {} /\ Unused(e)
    /\ held' = [held EXCEPT ![c] = e]
    /\ refs' = [refs EXCEPT ![e] = 1]
    /\ \E D \in ToCapacity(cached \cup {e}, refs', sidebar, detail) :
          /\ cached' = (cached \cup {e}) \ D
          /\ timed' = timed \ D
          /\ link' = Unlink(AttachOrWatch(link, e), D)
    /\ UNCHANGED <<connected, store, lost>>

(* The release closure; it acts on its own entry, cached or not.           *)
Release(c) ==
    LET e == held[c] IN
    /\ e # NoEntry
    /\ held' = [held EXCEPT ![c] = NoEntry]
    /\ refs' = [refs EXCEPT ![e] = @ - 1]
    /\ IF refs'[e] = 0
       THEN \E D \in ToCapacity(cached, refs', sidebar, detail) :
               /\ cached' = cached \ D
               /\ timed' = Rescheduled({e}, timed, refs', sidebar, detail) \ D
               /\ link' = Unlink(link, D)
       ELSE UNCHANGED <<cached, timed, link>>
    /\ UNCHANGED <<connected, store, lost>>

(* MUTANT: the callback does not check again.                              *)
Elapse_NoRecheck(t, tm, l) ==
    LET current == CachedFor(t)
    IN  /\ timed' = tm \ current
        /\ lost' = [lost EXCEPT ![t] = l + Cardinality(tm \cap current)]
        /\ lost'[t] <= MaxLost
        /\ cached' = cached \ current
        /\ link' = Unlink(link, current)
        /\ UNCHANGED <<connected, store, refs, held>>

(* What the callback of a timer of thread t does, the set of pending       *)
(* handles being tm: it looks the entry up again by thread, forgets that   *)
(* entry's handle, checks again and disposes.  A timer whose handle is     *)
(* forgotten this way still runs.                                          *)
Elapse(t, tm, l) ==
    LET current == CachedFor(t)
        out == {e \in current : Evictable(e, refs, sidebar, detail)}
    IN  /\ timed' = tm \ current
        /\ lost' = [lost EXCEPT ![t] = l + Cardinality(tm \cap current)]
        /\ lost'[t] <= MaxLost
        /\ cached' = cached \ out
        /\ link' = Unlink(link, out)
        /\ UNCHANGED <<connected, store, refs, held>>

Fire(e) == e \in timed /\ Elapse(ThreadOf(e), timed \ {e}, lost[ThreadOf(e)])
FireLost(t) == lost[t] > 0 /\ Elapse(t, timed, lost[t] - 1)

(* registerConnection.                                                     *)
Register(env) ==
    /\ env \notin connected
    /\ connected' = connected \cup {env}
    /\ link' = Emit(link, connected')
    /\ UNCHANGED <<store, cached, refs, held, timed, lost>>

(* MUTANT: the connection goes, its subscriptions stay.                    *)
Remove_KeepsEntries(env) ==
    /\ env \in connected
    /\ connected' = connected \ {env}
    /\ link' = Emit(link, connected')
    /\ UNCHANGED <<store, cached, refs, held, timed, lost>>

(* removeConnection, up to its await.                                      *)
Remove(env) ==
    /\ env \in connected
    /\ connected' = connected \ {env}
    /\ cached' = cached \ CachedIn(env)
    /\ timed' = timed \ CachedIn(env)
    /\ link' = Emit(Unlink(link, CachedIn(env)), connected')
    /\ UNCHANGED <<store, refs, held, lost>>

-----------------------------------------------------------------------------
(* The store's part of a handler: the threads T are replaced by those in   *)
(* K, of which S show work in the sidebar and D in the detail copy.        *)
Put(T, K, S, D) ==
    /\ S \subseteq K /\ D \subseteq K
    /\ known' = (known \ T) \cup K
    /\ sidebar' = (sidebar \ T) \cup S
    /\ detail' = (detail \ T) \cup D

(* What a handler ends with: entries in G are disposed of, the timers of   *)
(* those in R are set anew and the cache is cut to its capacity.           *)
Settle(G, R) ==
    \E D \in ToCapacity(cached \ G, refs, sidebar', detail') :
        /\ cached' = (cached \ G) \ D
        /\ timed' = Rescheduled(R \ G, timed \ G, refs, sidebar', detail') \ D
        /\ link' = Unlink(link, G \cup D)
        /\ UNCHANGED <<connected, refs, held, lost>>

(* syncShellSnapshot.                                                      *)
ShellSnapshot(env) ==
    /\ env \in connected
    /\ \E K \in SUBSET Of(env) : \E S, D \in SUBSET K :
          /\ Put(Of(env), K, S, D)
          /\ Settle({e \in CachedIn(env) : ThreadOf(e) \notin K}, CachedIn(env))

(* applyShellEvent, thread-upserted.                                       *)
ShellUpsert(t) ==
    /\ EnvironmentOf[t] \in connected
    /\ \E S, D \in SUBSET {t} : Put({t}, {t}, S, D)
    /\ Settle({}, CachedFor(t))

(* applyShellEvent, thread-removed: the capacity is not looked at.         *)
ShellRemove(t) ==
    /\ EnvironmentOf[t] \in connected
    /\ Put({t}, {}, {}, {})
    /\ cached' = cached \ CachedFor(t)
    /\ timed' = timed \ CachedFor(t)
    /\ link' = Unlink(link, CachedFor(t))
    /\ UNCHANGED <<connected, refs, held, lost>>

(* The first item of a thread's stream, after each (re)subscription, goes  *)
(* to the store only (syncServerThreadDetail).                             *)
DetailSnapshot(t) ==
    /\ CachedFor(t) \cap link.attached # {}
    /\ known' = known \cup {t}
    /\ \E D \in SUBSET {t} : detail' = (detail \ {t}) \cup D
    /\ UNCHANGED <<connected, sidebar, cached, link, refs, held, timed, lost>>

(* Its other items: applyRecoveredEventBatch, which ends with the timers   *)
(* of the whole environment.  An event about an unknown thread leaves the  *)
(* store alone.                                                            *)
DetailEvent(t) ==
    /\ CachedFor(t) \cap link.attached # {}
    /\ \E D \in SUBSET ({t} \cap known) : detail' = (detail \ {t}) \cup D
    /\ UNCHANGED <<known, sidebar>>
    /\ Settle({}, CachedIn(EnvironmentOf[t]))

Next ==
    \/ \E c \in Consumer : \E e \in Entry : RetainCached(c, e) \/ RetainNew(c, e)
    \/ \E c \in Consumer : Release(c)
    \/ \E e \in Entry : Fire(e)
    \/ \E t \in Thread : FireLost(t)
    \/ \E env \in Environment : Register(env) \/ Remove(env) \/ ShellSnapshot(env)
    \/ \E t \in Thread : \/ ShellUpsert(t) \/ ShellRemove(t)
                         \/ DetailSnapshot(t) \/ DetailEvent(t)

Spec == Init /\ [][Next]_vars

-----------------------------------------------------------------------------
(* Every variable has its type, and a busy thread is a known one.          *)
TypeOK ==
    /\ connected \subseteq Environment
    /\ known \subseteq Thread
    /\ sidebar \subseteq known /\ detail \subseteq known
    /\ cached \subseteq Entry
    /\ link \in [attached : SUBSET Entry, listening : SUBSET Entry]
    /\ refs \in [Entry -> Nat]
    /\ held \in [Consumer -> Entry \cup {NoEntry}]
    /\ timed \subseteq Entry
    /\ lost \in [Thread -> Nat]

(* refCount is the number of consumers that still hold the entry's release *)
(* closure, for disposed entries too, and a held entry has no timer: the   *)
(* floor Math.max(0, ...) in release never acts.                           *)
RefCountIsExact ==
    \A e \in Entry :
        /\ refs[e] = Cardinality({c \in Consumer : held[c] = e})
        /\ e \in timed => refs[e] = 0

(* No subscription leaks: a stream is open only for the one cached entry   *)
(* of its thread, and only in an environment that is connected.            *)
NoLeakedSubscription ==
    /\ \A e, f \in cached : ThreadOf(e) = ThreadOf(f) => e = f
    /\ link.attached \subseteq cached
    /\ \A e \in link.attached : EnvironmentOf[ThreadOf(e)] \in connected

(* "Threads with active work or pending user action are sticky and are     *)
(* never evicted while they remain non-idle": a step drops an entry only   *)
(* if nobody retains it and its thread is idle in both copies, or if its   *)
(* connection goes or the server says the thread is gone.                  *)
StickyWhileActive ==
    [][\A e \in cached \ cached' :
          \/ refs'[e] = 0 /\ ThreadOf(e) \notin sidebar' \cup detail'
          \/ EnvironmentOf[ThreadOf(e)] \notin connected'
          \/ ThreadOf(e) \notin known']_vars

(* "Active consumers keep a subscription retained via refCount": while a   *)
(* consumer holds a thread of a connected environment that the server      *)
(* knows, the thread's stream is open.                                     *)
ActiveIsSubscribed ==
    \A c \in Consumer :
        LET e == held[c] IN
        (e # NoEntry /\ ThreadOf(e) \in known
           /\ EnvironmentOf[ThreadOf(e)] \in connected)
        => CachedFor(ThreadOf(e)) \cap link.attached # {}
=============================================================================
