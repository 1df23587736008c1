----------------------------- MODULE MCWorkers -----------------------------
(***************************************************************************)
(* The two workers of packages/shared side by side, small instances for    *)
(* TLC.  They share nothing: a step is a step of one of them.              *)
(***************************************************************************)
EXTENDS KeyedCoalescingWorker

CONSTANTS k1, k2, Item

MCKey == {k1, k2}

VARIABLES
    items, outstanding, place, item, \* the drainable worker
    offered, done, vouched           \* and its history

D == INSTANCE DrainableWorker
       WITH queue <- items, at <- place, held <- item,
            accepted <- offered, handled <- done, told <- vouched

drainable == <<items, outstanding, place, item, offered, done, vouched>>

WorkersInit == Init /\ D!Init

WorkersNext ==
    \/ Next /\ UNCHANGED drainable
    \/ D!Next /\ UNCHANGED vars

WorkersSpec ==
    /\ WorkersInit /\ [][WorkersNext]_<<vars, drainable>>
    /\ WF_vars(Fiber /\ UNCHANGED drainable)
    /\ WF_drainable(D!Fiber /\ UNCHANGED vars)

(* The drainable worker is a ledger too: items are processed in the order  *)
(* of enqueue, none is lost, and drain waits for all that came before it;  *)
(* and unless process fails, its count comes down to zero and every drain  *)
(* returns once items stop coming.                                         *)
DrainsAreHonestAndReturn == D!ImplementsLedger /\ D!DrainReturns
============================================================================
