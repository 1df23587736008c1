----------------------- MODULE EnvironmentConnection -----------------------
(***************************************************************************)
(* A client's connection to one environment: the bootstrap gate and        *)
(* reconnect of connection.ts over the session and the subscription loop   *)
(* of wsTransport.ts.  The shell subscription is the one that drives the   *)
(* gate.  A step runs up to the next await.                                *)
(***************************************************************************)
EXTENDS Integers, Sequences

CONSTANTS
    Waiter,          \* callers of ensureBootstrapped
    Reconnector,     \* callers of reconnect, others than those
    MaxFailures      \* bound: streams that end or fail while connected

Caller == Waiter \cup Reconnector

VARIABLES
    session,    \* this.session, numbered in the order they are created
    closing,    \* sessions whose closeSession has been called
    disposed,   \* whether the connection and its transport are disposed of
    loop,       \* where the subscription loop is
    source,     \* the session the loop's stream runs on
    received,   \* hasReceivedValue
    gate,       \* the promise of the bootstrap gate
    pc,         \* pc[x]: where caller x is
    chain,      \* the reconnects not yet done swapping sessions, oldest first
    failures,   \* how many streams have ended or failed so far
    fresh,      \* history: reconnects since whose call a snapshot arrived
    refused     \* history: whether the server refused the subscription

client == <<session, closing, disposed>>
stream == <<loop, source, received>>
callers == <<gate, pc, chain>>
vars == <<client, stream, callers, failures, fresh, refused>>

(* top       is about to look at active and disposed                       *)
(* opened    has asked for the stream, nothing has come                    *)
(* flowing   has the snapshot, and events come                             *)
(* sleeping  waits before the next attempt                                 *)
(* ended     has returned                                                  *)
LoopPlace == {"top", "opened", "flowing", "sleeping", "ended"}

(* waiting   awaits the gate's promise                                     *)
(* orphaned  awaits a promise the gate has replaced                        *)
CallerPlace == {"idle", "chained", "closing", "metadata",
                "waiting", "orphaned", "returned", "failed"}

Init ==
    /\ session = 0
    /\ closing = {}
    /\ disposed = FALSE
    /\ loop = "top"
    /\ source = 0
    /\ received = FALSE
    /\ gate = "pending"
    /\ pc = [x \in Caller |-> "idle"]
    /\ chain = <<>>
    /\ failures = 0
    /\ fresh = {}
    /\ refused = FALSE

-----------------------------------------------------------------------------
(* createBootstrapGate, over the callers' places p.  A new promise leaves  *)
(* those who await the old one, pending for ever, behind.                  *)
Reset(p) ==
    /\ gate' = "pending"
    /\ pc' = [x \in Caller |-> IF p[x] = "waiting" THEN "orphaned" ELSE p[x]]

(* resolve and reject act once on each promise.                            *)
Settle(as, place, p) ==
    IF gate = "pending"
    THEN /\ gate' = as
         /\ pc' = [x \in Caller |-> IF p[x] = "waiting" THEN place ELSE p[x]]
    ELSE UNCHANGED gate /\ pc' = p

(* Where a caller of wait is, which is told at once of a settled promise.  *)
Waiting == CASE gate = "pending" -> "waiting"
             [] gate = "resolved" -> "returned"
             [] gate = "rejected" -> "failed"

-----------------------------------------------------------------------------
(* ensureBootstrapped.                                                     *)
Ensure(w) ==
    /\ pc[w] = "idle"
    /\ pc' = [pc EXCEPT ![w] = Waiting]
    /\ UNCHANGED <<client, stream, gate, chain, failures, fresh, refused>>

(* MUTANT: the gate keeps its promise.                                     *)
Reconnect_NoReset(r) ==
    /\ pc[r] = "idle" /\ ~ disposed
    /\ pc' = [pc EXCEPT ![r] = "chained"]
    /\ chain' = Append(chain, r)
    /\ fresh' = fresh \ {r}
    /\ UNCHANGED <<client, stream, gate, failures, refused>>

(* reconnect, up to the transport's promise chain.  A connection that has  *)
(* been disposed of is no longer registered, so nobody calls it.           *)
Reconnect(r) ==
    /\ pc[r] = "idle" /\ ~ disposed
    /\ Reset([pc EXCEPT ![r] = "chained"])
    /\ chain' = Append(chain, r)
    /\ fresh' = fresh \ {r}
    /\ UNCHANGED <<client, stream, failures, refused>>

(* A call that fails rejects the gate, whoever else waits for it.          *)
FailCall(r) == Settle("rejected", "failed", [pc EXCEPT ![r] = "failed"])

(* MUTANT: the transport's disposal is not looked at again.                *)
Swap_NoCheck(r) ==
    /\ pc[r] = "chained" /\ Head(chain) = r
    /\ session' = session + 1
    /\ closing' = closing \cup {session}
    /\ pc' = [pc EXCEPT ![r] = "closing"]
    /\ UNCHANGED <<disposed, gate, chain, stream, failures, fresh, refused>>

(* Its turn in the chain: the session is replaced, the old one closes.     *)
Swap(r) ==
    /\ pc[r] = "chained" /\ Head(chain) = r
    /\ IF disposed
       THEN /\ FailCall(r)
            /\ chain' = Tail(chain)
            /\ UNCHANGED client
       ELSE /\ session' = session + 1
            /\ closing' = closing \cup {session}
            /\ pc' = [pc EXCEPT ![r] = "closing"]
            /\ UNCHANGED <<disposed, gate, chain>>
    /\ UNCHANGED <<stream, failures, fresh, refused>>

(* MUTANT: the chain does not move on.                                     *)
Closed_KeepsChain(r) ==
    /\ pc[r] = "closing"
    /\ pc' = [pc EXCEPT ![r] = "metadata"]
    /\ UNCHANGED <<client, stream, gate, chain, failures, fresh, refused>>

(* closeSession of the old session ends, or fails: the chain moves on.     *)
Closed(r) ==
    /\ pc[r] = "closing"
    /\ \/ FailCall(r)
       \/ pc' = [pc EXCEPT ![r] = "metadata"] /\ UNCHANGED gate
    /\ chain' = Tail(chain)
    /\ UNCHANGED <<client, stream, failures, fresh, refused>>

(* refreshMetadata fails, or it succeeds and the gate is awaited.          *)
Metadata(r) ==
    /\ pc[r] = "metadata"
    /\ \/ FailCall(r)
       \/ pc' = [pc EXCEPT ![r] = Waiting] /\ UNCHANGED gate
    /\ UNCHANGED <<client, stream, chain, failures, fresh, refused>>

(* dispose: the subscription ends and the current session closes.          *)
Dispose ==
    /\ ~ disposed
    /\ disposed' = TRUE
    /\ closing' = closing \cup {session}
    /\ UNCHANGED <<session, stream, callers, failures, fresh, refused>>

-----------------------------------------------------------------------------
(* The loop's next round.  After a first value it announces every attempt  *)
(* (onResubscribe), and the connection then resets its gate.               *)
Attempt ==
    /\ loop = "top"
    /\ IF disposed
       THEN /\ loop' = "ended"
            /\ UNCHANGED <<source, gate, pc>>
       ELSE /\ loop' = "opened"
            /\ source' = session
            /\ IF received THEN Reset(pc) ELSE UNCHANGED <<gate, pc>>
    /\ UNCHANGED <<client, received, chain, failures, fresh, refused>>

(* The snapshot arrives.  A cancelled subscription ignores it.  The stream *)
(* of a session that is being closed may still deliver.                    *)
Snapshot ==
    /\ loop = "opened"
    /\ loop' = "flowing"
    /\ IF disposed
       THEN UNCHANGED <<received, gate, pc, fresh>>
       ELSE /\ received' = TRUE
            /\ Settle("resolved", "returned", pc)
            /\ fresh' = Reconnector
    /\ UNCHANGED <<client, source, chain, failures, refused>>

(* The stream is over; with what the loop does next, if it goes on.        *)
Over(next) ==
    /\ loop \in {"opened", "flowing"}
    /\ loop' = next
    /\ UNCHANGED <<client, source, received, callers, fresh>>

(* It ends, or the connection breaks while the session is the current one. *)
Breaks ==
    /\ failures < MaxFailures
    /\ failures' = failures + 1
    /\ UNCHANGED refused
    /\ Over(IF disposed THEN "ended" ELSE "sleeping")
    /\ source = session

Completes ==
    /\ failures < MaxFailures
    /\ failures' = failures + 1
    /\ UNCHANGED refused
    /\ Over("top")

(* An error of the server, not of the connection: the loop gives up.       *)
Refused ==
    /\ loop = "opened" /\ source = session
    /\ Over("ended")
    /\ refused' = TRUE
    /\ UNCHANGED failures

(* MUTANT: the loop does not see that the session was replaced.            *)
SessionGone_NoCheck ==
    /\ source \in closing
    /\ Over("ended")
    /\ UNCHANGED <<failures, refused>>

(* The error of a stream whose session was closed, whatever it says.       *)
SessionGone ==
    /\ source \in closing
    /\ Over(IF disposed THEN "ended"
            ELSE IF source # session THEN "top" ELSE "ended")
    /\ UNCHANGED <<failures, refused>>

Wake ==
    /\ loop = "sleeping"
    /\ loop' = "top"
    /\ UNCHANGED <<client, source, received, callers, failures, fresh, refused>>

Call(x) == Swap(x) \/ Closed(x) \/ Metadata(x)
Stream == Attempt \/ Snapshot \/ SessionGone \/ Wake

Next ==
    \/ \E w \in Waiter : Ensure(w)
    \/ \E r \in Reconnector : Reconnect(r) \/ Call(r)
    \/ Dispose
    \/ Stream \/ Breaks \/ Completes \/ Refused

Spec == Init /\ [][Next]_vars

(* The server answers, closing a session ends, and callers go on.          *)
FairSpec ==
    /\ Spec
    /\ WF_vars(Stream)
    /\ \A r \in Reconnector : WF_vars(Call(r))

-----------------------------------------------------------------------------
(* Every variable has its type (transport, loop, gate and callers).        *)
TypeOK ==
    /\ session \in Nat
    /\ closing \subseteq 0..session
    /\ disposed \in BOOLEAN
    /\ loop \in LoopPlace
    /\ source \in 0..session
    /\ received \in BOOLEAN
    /\ gate \in {"pending", "resolved", "rejected"}
    /\ pc \in [Caller -> CallerPlace]
    /\ chain \in Seq(Reconnector)
    /\ failures \in Nat
    /\ fresh \subseteq Reconnector
    /\ refused \in BOOLEAN

(* No session leaks: every one that was replaced is closed, and after      *)
(* dispose the current one too, whatever order dispose and the queued      *)
(* reconnects come in; until then the current session is not closed.       *)
SessionsAreClosed ==
    closing = IF disposed THEN 0..session ELSE 0..(session - 1)

(* A reconnect that returns has seen a shell snapshot since it was called  *)
(* ("waits for a fresh shell snapshot after reconnect").                   *)
ReconnectSawSnapshot ==
    \A r \in Reconnector : pc[r] = "returned" => r \in fresh

(* Reconnects are served one after the other and each gets past its        *)
(* session swap; one that fails does not jam the next.                     *)
ChainMovesOn ==
    \A r \in Reconnector :
        pc[r] = "chained" ~> pc[r] \notin {"chained", "closing", "metadata"}

(* "keeps retrying stream subscriptions after transport failures": unless  *)
(* the server refuses the subscription, the shell stream flows again on    *)
(* the current session, also across reconnects.                            *)
StreamComesBack ==
    [](disposed => <>[](loop = "ended"))
      /\ []<>(disposed \/ refused \/ (loop = "flowing" /\ source = session))
=============================================================================
