----------------------- MODULE KeyedCoalescingWorker -----------------------
(***************************************************************************)
(* The keyed coalescing worker of packages/shared: one fiber processes     *)
(* values, one key at a time; a value enqueued for a key that waits or is  *)
(* being processed is merged into the one pending value of that key.       *)
(*                                                                         *)
(* A value is the sequence of the requests merged into it, and merge is    *)
(* concatenation: every other merge is a function of this one.  The value  *)
(* <<>> stands for the key's absence from latestByKey.                     *)
(***************************************************************************)
EXTENDS Integers, Sequences

CONSTANTS
    Key,
    Request,
    NoKey        \* the worker holds no key

ASSUME WorkerAssumption == NoKey \notin Key

VARIABLES
    latest,      \* latestByKey
    queued,      \* queuedKeys
    active,      \* activeKeys
    queue,       \* the queue of keys
    at,          \* where the fiber is
    held,        \* the key it holds
    value,       \* the value it processes
    accepted,    \* history: the requests enqueued for each key, in order
    handled,     \* history: those whose processing ended, in order
    told         \* history: how many a drainKey vouched for

state == <<latest, queued, active>>
fiber == <<at, held, value>>
vars == <<state, queue, fiber, accepted, handled, told>>

(* taking      waits for a key                                             *)
(* claiming    has taken a key, not yet its value                          *)
(* processing  runs process                                                *)
(* requeueing  puts a key back after a failure                             *)
Place == {"taking", "claiming", "processing", "requeueing"}

Init ==
    /\ latest = [k \in Key |-> <<>>]
    /\ queued = {}
    /\ active = {}
    /\ queue = <<>>
    /\ at = "taking"
    /\ held = NoKey
    /\ value = <<>>
    /\ accepted = [k \in Key |-> <<>>]
    /\ handled = [k \in Key |-> <<>>]
    /\ told = [k \in Key |-> 0]

(* Each call of enqueue is a request of its own; the set Request bounds    *)
(* how many there are.                                                     *)
IsNew(r) == \A k \in Key : \A i \in 1..Len(accepted[k]) : accepted[k][i] # r

(* MUTANT: a new value replaces the pending one.                           *)
Enqueue_Replaces(k, r) ==
    /\ IsNew(r)
    /\ latest' = [latest EXCEPT ![k] = <<r>>]
    /\ accepted' = [accepted EXCEPT ![k] = Append(@, r)]
    /\ IF k \in queued \cup active
       THEN UNCHANGED <<queued, queue>>
       ELSE queued' = queued \cup {k} /\ queue' = Append(queue, k)
    /\ UNCHANGED <<active, fiber, handled, told>>

(* enqueue, one memory transaction.                                        *)
Enqueue(k, r) ==
    /\ IsNew(r)
    /\ latest' = [latest EXCEPT ![k] = Append(@, r)]
    /\ accepted' = [accepted EXCEPT ![k] = Append(@, r)]
    /\ IF k \in queued \cup active
       THEN UNCHANGED <<queued, queue>>
       ELSE queued' = queued \cup {k} /\ queue' = Append(queue, k)
    /\ UNCHANGED <<active, fiber, handled, told>>

(* The fiber takes a key; its value is claimed in a transaction of its own.*)
Take ==
    /\ at = "taking"
    /\ queue # <<>>
    /\ held' = Head(queue)
    /\ queue' = Tail(queue)
    /\ at' = "claiming"
    /\ UNCHANGED <<state, value, accepted, handled, told>>

(* A key without a value is dropped.                                       *)
Claim ==
    /\ at = "claiming"
    /\ queued' = queued \ {held}
    /\ IF latest[held] = <<>>
       THEN /\ at' = "taking"
            /\ held' = NoKey
            /\ UNCHANGED <<latest, active, value>>
       ELSE /\ at' = "processing"
            /\ value' = latest[held]
            /\ latest' = [latest EXCEPT ![held] = <<>>]
            /\ active' = active \cup {held}
            /\ UNCHANGED held
    /\ UNCHANGED <<queue, accepted, handled, told>>

(* process succeeds; what was merged meanwhile is processed next, before   *)
(* any other key.                                                          *)
Succeed ==
    /\ at = "processing"
    /\ handled' = [handled EXCEPT ![held] = @ \o value]
    /\ IF latest[held] = <<>>
       THEN /\ active' = active \ {held}
            /\ at' = "taking"
            /\ held' = NoKey
            /\ value' = <<>>
            /\ UNCHANGED latest
       ELSE /\ value' = latest[held]
            /\ latest' = [latest EXCEPT ![held] = <<>>]
            /\ UNCHANGED <<active, at, held>>
    /\ UNCHANGED <<queued, queue, accepted, told>>

(* MUTANT: what came while process ran is not queued again.                *)
Fail_NoRequeue ==
    /\ at = "processing"
    /\ handled' = [handled EXCEPT ![held] = @ \o value]
    /\ active' = active \ {held}
    /\ value' = <<>>
    /\ at' = "taking"
    /\ held' = NoKey
    /\ UNCHANGED <<latest, queued, queue, accepted, told>>

(* process fails: cleanupFailedKey.  The failed value is not retried; what *)
(* was merged meanwhile is queued again.                                   *)
Fail ==
    /\ at = "processing"
    /\ handled' = [handled EXCEPT ![held] = @ \o value]
    /\ active' = active \ {held}
    /\ value' = <<>>
    /\ IF latest[held] # <<>> /\ held \notin queued
       THEN /\ queued' = queued \cup {held}
            /\ at' = "requeueing"
            /\ UNCHANGED held
       ELSE /\ at' = "taking"
            /\ held' = NoKey
            /\ UNCHANGED queued
    /\ UNCHANGED <<latest, queue, accepted, told>>

Requeue ==
    /\ at = "requeueing"
    /\ queue' = Append(queue, held)
    /\ at' = "taking"
    /\ held' = NoKey
    /\ UNCHANGED <<state, value, accepted, handled, told>>

(* A call of drainKey(k) returns.                                          *)
DrainKey(k) ==
    /\ latest[k] = <<>> /\ k \notin queued /\ k \notin active
    /\ told' = [told EXCEPT ![k] = Len(accepted[k])]
    /\ UNCHANGED <<state, queue, fiber, accepted, handled>>

Fiber == Take \/ Claim \/ Succeed \/ Fail \/ Requeue

Next ==
    \/ \E k \in Key : \E r \in Request : Enqueue(k, r)
    \/ \E k \in Key : DrainKey(k)
    \/ Fiber

Spec == Init /\ [][Next]_vars

(* process returns, with a value or a failure, and the fiber goes on.      *)
FairSpec == Spec /\ WF_vars(Fiber)

-----------------------------------------------------------------------------
(* What the fiber holds of key k, processed but not yet done with.         *)
InHand(k) == IF at = "processing" /\ held = k THEN value ELSE <<>>

(* Every variable has its type (the worker's whole state).                 *)
TypeOK ==
    /\ latest \in [Key -> Seq(Request)]
    /\ queued \subseteq Key
    /\ active \subseteq Key
    /\ queue \in Seq(Key)
    /\ at \in Place
    /\ held \in Key \cup {NoKey}
    /\ (held = NoKey) <=> (at = "taking")
    /\ value \in Seq(Request)
    /\ (value # <<>>) <=> (at = "processing")
    /\ accepted \in [Key -> Seq(Request)]
    /\ handled \in [Key -> Seq(Request)]
    /\ told \in [Key -> Nat]

(* No request is lost, doubled or overtaken by a later one of its key,     *)
(* also when processing fails while values are being merged (enqueue,      *)
(* processKey and cleanupFailedKey together).                              *)
NothingLost ==
    \A k \in Key : accepted[k] = (handled[k] \o InHand(k)) \o latest[k]

(* A pending value is never stranded and never scheduled twice: its key    *)
(* waits in the queue exactly once, or the fiber is about to claim it, to  *)
(* put it back or to look at it when its processing ends.                  *)
PendingIsScheduled ==
    /\ \A i, j \in 1..Len(queue) : queue[i] = queue[j] => i = j
    /\ \A k \in Key :
          /\ latest[k] # <<>> => k \in queued \cup active
          /\ k \in queued => latest[k] # <<>>
          /\ k \in queued <=> \/ \E i \in 1..Len(queue) : queue[i] = k
                              \/ held = k /\ at \in {"claiming", "requeueing"}
          /\ k \in active <=> held = k /\ at = "processing"
    /\ \A i \in 1..Len(queue) :
          ~ (held = queue[i] /\ at \in {"claiming", "requeueing"})
    /\ queued \cap active = {}

(* "drainKey() resolves only when that key has no queued, pending, or      *)
(* active work left": every request it vouched for has been handled.       *)
DrainIsHonest == \A k \in Key : told[k] <= Len(handled[k])

(* The worker implements the ledger of requests.                           *)
Ledger == INSTANCE WorkLedger
ImplementsLedger == Ledger!Spec

(* Every request is handled once requests stop coming, also when           *)
(* processing fails: no key is forgotten (cleanupFailedKey).               *)
EveryRequestIsHandled ==
    \A k \in Key, r \in Request :
        (\E i \in 1..Len(accepted[k]) : accepted[k][i] = r)
            ~> (\E i \in 1..Len(handled[k]) : handled[k][i] = r)
=============================================================================
