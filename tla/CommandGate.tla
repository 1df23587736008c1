----------------------------- MODULE CommandGate -----------------------------
(***************************************************************************)
(* The gate commands of clients pass before the orchestration engine       *)
(* (makeCommandGate in serverRuntimeStartup.ts): they queue until start-up *)
(* has succeeded or failed, and afterwards run at once or are refused.     *)
(* A step runs up to where the Effect runtime may switch fibers.           *)
(***************************************************************************)
EXTENDS Integers, Sequences

CONSTANTS
    Caller,      \* calls of enqueueCommand
    Nobody

ASSUME GateAssumption == Nobody \notin Caller

VARIABLES
    readiness,   \* commandReadinessState
    latch,       \* commandReady, the Deferred
    queue,       \* commandQueue
    worker,      \* the call whose queued command the worker has taken
    pc,          \* pc[c]: where call c is
    runs,        \* history: runs[c], how often c's command was started
    working,     \* commands that are being executed
    offered,     \* history: the calls that queued their command, in order
    served       \* history: those of them whose command was started

gate == <<readiness, latch>>
history == <<runs, offered, served>>
vars == <<gate, queue, worker, pc, working, history>>

State == {"pending", "ready", "failed"}

(* pending   has read a readiness of "pending" and not yet queued          *)
(* waits     has queued its command                                        *)
(* left      was interrupted: its client went away                         *)
CallPlace == {"new", "pending", "direct", "waits", "left", "answered", "refused"}

Init ==
    /\ readiness = "pending" /\ latch = "pending"
    /\ queue = <<>>
    /\ worker = Nobody
    /\ pc = [c \in Caller |-> "new"]
    /\ working = {}
    /\ runs = [c \in Caller |-> 0]
    /\ offered = <<>> /\ served = <<>>

-----------------------------------------------------------------------------
(* signalCommandReady and failCommandReady: the state first, then the      *)
(* Deferred.  Start-up calls one of them, once.                            *)
Decide ==
    /\ readiness = "pending"
    /\ readiness' \in {"ready", "failed"}
    /\ UNCHANGED <<latch, queue, worker, pc, working, history>>

(* MUTANT: the Deferred is left alone when start-up fails.                 *)
Release_OnlyReady ==
    /\ latch = "pending" /\ readiness = "ready"
    /\ latch' = readiness
    /\ UNCHANGED <<readiness, queue, worker, pc, working, history>>

Release ==
    /\ latch = "pending" /\ readiness # "pending"
    /\ latch' = readiness
    /\ UNCHANGED <<readiness, queue, worker, pc, working, history>>

Start(c) ==
    /\ runs' = [runs EXCEPT ![c] = @ + 1]
    /\ working' = working \cup {c}

(* enqueueCommand up to its first effect.                                  *)
Enter(c) ==
    /\ pc[c] = "new"
    /\ \/ /\ readiness = "ready"
          /\ pc' = [pc EXCEPT ![c] = "direct"]
          /\ Start(c)
       \/ /\ readiness # "ready"
          /\ pc' = [pc EXCEPT ![c] = IF readiness = "failed" THEN "refused"
                                     ELSE "pending"]
          /\ UNCHANGED <<runs, working>>
    /\ UNCHANGED <<gate, queue, worker, offered, served>>

(* Queue.offer; then it awaits the result.                                 *)
Offer(c) ==
    /\ pc[c] = "pending"
    /\ pc' = [pc EXCEPT ![c] = "waits"]
    /\ queue' = Append(queue, c)
    /\ offered' = Append(offered, c)
    /\ UNCHANGED <<gate, worker, runs, working, served>>

(* The effect of a direct call ends.                                       *)
Finish(c) ==
    /\ pc[c] = "direct" /\ c \in working
    /\ pc' = [pc EXCEPT ![c] = "answered"]
    /\ working' = working \ {c}
    /\ UNCHANGED <<gate, queue, worker, history>>

(* A caller is interrupted.  A direct effect stops with it; a queued one   *)
(* stays where it is.                                                      *)
Leave(c) ==
    /\ pc[c] \in {"pending", "direct", "waits"}
    /\ pc' = [pc EXCEPT ![c] = "left"]
    /\ working' = IF pc[c] = "direct" THEN working \ {c} ELSE working
    /\ UNCHANGED <<gate, queue, worker, history>>

-----------------------------------------------------------------------------
(* The worker takes a command,                                             *)
Take ==
    /\ worker = Nobody /\ queue # <<>>
    /\ worker' = Head(queue)
    /\ queue' = Tail(queue)
    /\ UNCHANGED <<gate, pc, working, history>>

(* MUTANT: it does not look at how start-up ended.                         *)
Run_Anyway ==
    /\ worker \notin working \cup {Nobody}
    /\ latch # "pending"
    /\ Start(worker)
    /\ served' = Append(served, worker)
    /\ UNCHANGED <<gate, queue, worker, pc, offered>>

(* waits for the Deferred, runs the command if start-up succeeded,         *)
Run ==
    /\ worker \notin working \cup {Nobody}
    /\ latch = "ready"
    /\ Start(worker)
    /\ served' = Append(served, worker)
    /\ UNCHANGED <<gate, queue, worker, pc, offered>>

(* settleQueuedCommand: the caller, if still there, learns the outcome.    *)
Settle(how) ==
    /\ pc' = [pc EXCEPT ![worker] = IF @ = "waits" THEN how ELSE @]
    /\ worker' = Nobody
    /\ UNCHANGED <<gate, queue, history>>

Done ==
    /\ worker \in working
    /\ Settle("answered")
    /\ working' = working \ {worker}

Fail ==
    /\ worker # Nobody /\ latch = "failed"
    /\ Settle("refused")
    /\ UNCHANGED working

Worker == Take \/ Run \/ Done \/ Fail

Next ==
    \/ Decide \/ Release \/ Worker
    \/ \E c \in Caller : Enter(c) \/ Offer(c) \/ Finish(c) \/ Leave(c)

Spec == Init /\ [][Next]_vars

(* Start-up ends one way or the other, and so does every command.          *)
FairSpec ==
    /\ Spec
    /\ WF_vars(Decide) /\ WF_vars(Release) /\ WF_vars(Worker)
    /\ \A c \in Caller : WF_vars(Enter(c) \/ Offer(c) \/ Finish(c))

-----------------------------------------------------------------------------
(* Every variable has its type (gate, queue, worker and calls).            *)
TypeOK ==
    /\ {readiness, latch} \subseteq State
    /\ latch \in {"pending", readiness}
    /\ queue \in Seq(Caller)
    /\ worker \in Caller \cup {Nobody}
    /\ pc \in [Caller -> CallPlace]
    /\ runs \in [Caller -> Nat]
    /\ working \subseteq Caller
    /\ offered \in Seq(Caller) /\ served \in Seq(Caller)

(* An answer tells the truth: a command that was refused never ran and     *)
(* never will, one that was answered ran once, and none runs twice or      *)
(* before start-up has succeeded, whether its client waits or has left.    *)
AnswersAreTrue ==
    \A c \in Caller :
        /\ runs[c] <= (IF readiness = "ready" THEN 1 ELSE 0)
        /\ pc[c] = "answered" => runs[c] = 1 /\ c \notin working
        /\ pc[c] = "refused" => /\ runs[c] = 0 /\ readiness = "failed"
                                /\ c # worker /\ \A i \in DOMAIN queue : queue[i] # c

(* "waits for readiness and then drains queued work": every caller that    *)
(* stays is answered, and unless start-up fails every queued command is    *)
(* run, in the order of the queue, that of a caller that left too.         *)
EveryoneIsServed ==
    <>[](/\ \A c \in Caller : pc[c] \in {"answered", "refused", "left"}
         /\ readiness = "failed" \/ served = offered)
=============================================================================
