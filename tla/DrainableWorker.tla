-------------------------- MODULE DrainableWorker --------------------------
(***************************************************************************)
(* The drainable worker of packages/shared, which the reactors of the      *)
(* server put between the event stream and their work: a queue, one fiber, *)
(* and a count of the items not yet processed for drain to wait on.        *)
(***************************************************************************)
EXTENDS Integers, Sequences

CONSTANT Item

VARIABLES
    queue,
    outstanding, \* how many items are queued or in work
    at,          \* where the fiber is
    held,        \* the item it took and has not processed, if any
    accepted,    \* history: the items enqueued, in order
    handled,     \* history: the items whose processing ended, in order
    told         \* history: how many a drain vouched for

vars == <<queue, outstanding, at, held, accepted, handled, told>>

(* taking      waits for an item                                           *)
(* processing  runs process                                                *)
(* counting    runs the finalizer of Effect.ensuring after a success       *)
(* dying       runs it after a failure                                     *)
(* dead        has failed: forever has ended                               *)
Place == {"taking", "processing", "counting", "dying", "dead"}

Init ==
    /\ queue = <<>>
    /\ outstanding = 0
    /\ at = "taking"
    /\ held = <<>>
    /\ accepted = <<>>
    /\ handled = <<>>
    /\ told = 0

(* Each call of enqueue is an item of its own; the set Item bounds them.   *)
IsNew(a) == \A i \in 1..Len(accepted) : accepted[i] # a

(* enqueue: the offer and the count are one memory transaction.            *)
Enqueue(a) ==
    /\ IsNew(a)
    /\ queue' = Append(queue, a)
    /\ outstanding' = outstanding + 1
    /\ accepted' = Append(accepted, a)
    /\ UNCHANGED <<at, held, handled, told>>

(* MUTANT: an item stops being counted when it is taken.                   *)
Take_Uncounts ==
    /\ at = "taking"
    /\ queue # <<>>
    /\ held' = <<Head(queue)>>
    /\ queue' = Tail(queue)
    /\ at' = "processing"
    /\ outstanding' = outstanding - 1
    /\ UNCHANGED <<accepted, handled, told>>

Take ==
    /\ at = "taking"
    /\ queue # <<>>
    /\ held' = <<Head(queue)>>
    /\ queue' = Tail(queue)
    /\ at' = "processing"
    /\ UNCHANGED <<outstanding, accepted, handled, told>>

Finish(next) ==
    /\ at = "processing"
    /\ handled' = handled \o held
    /\ held' = <<>>
    /\ at' = next
    /\ UNCHANGED <<queue, outstanding, accepted, told>>

Succeed == Finish("counting")

(* Its callers let nothing but an interruption through.                    *)
Fail == Finish("dying")

(* The finalizer, whether process succeeded or failed.                     *)
Count ==
    /\ at \in {"counting", "dying"}
    /\ outstanding' = outstanding - 1
    /\ at' = IF at = "counting" THEN "taking" ELSE "dead"
    /\ UNCHANGED <<queue, held, accepted, handled, told>>

(* A call of drain returns.                                                *)
Drain ==
    /\ outstanding <= 0
    /\ told' = Len(accepted)
    /\ UNCHANGED <<queue, outstanding, at, held, accepted, handled>>

Fiber == Take \/ Succeed \/ Fail \/ Count

Next == (\E a \in Item : Enqueue(a)) \/ Drain \/ Fiber

Spec == Init /\ [][Next]_vars

(* process returns and the fiber goes on.                                  *)
FairSpec == Spec /\ WF_vars(Fiber)

-----------------------------------------------------------------------------
(* Every variable has its type (the worker's whole state).                 *)
TypeOK ==
    /\ queue \in Seq(Item)
    /\ outstanding \in Nat
    /\ at \in Place
    /\ held \in Seq(Item)
    /\ Len(held) = IF at = "processing" THEN 1 ELSE 0
    /\ accepted \in Seq(Item)
    /\ handled \in Seq(Item)
    /\ told \in Nat

(* Items are processed in the order of enqueue, none is lost or doubled,   *)
(* and the count is exactly what is queued or in work, also after process  *)
(* failed (Effect.ensuring).                                               *)
CountIsExact ==
    /\ accepted = (handled \o held) \o queue
    /\ outstanding =
          Len(queue) + (IF at \in {"processing", "counting", "dying"}
                        THEN 1 ELSE 0)

(* "Resolves when the queue is empty and the worker is idle": every item   *)
(* a drain vouched for has been processed.                                 *)
DrainIsHonest == told <= Len(handled)

(* The worker is a ledger of requests with a single key.                   *)
Ledger == INSTANCE WorkLedger
            WITH Key <- {"all"}, Request <- Item,
                 accepted <- [k \in {"all"} |-> accepted],
                 handled <- [k \in {"all"} |-> handled],
                 told <- [k \in {"all"} |-> told]
ImplementsLedger == Ledger!Spec

(* Unless process fails, every item is processed and every drain returns   *)
(* once items stop coming.                                                 *)
DrainReturns == []<>(at = "dead" \/ (outstanding = 0 /\ handled = accepted))
=============================================================================
