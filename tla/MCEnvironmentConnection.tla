----------------------- MODULE MCEnvironmentConnection -----------------------
(***************************************************************************)
(* A small instance of EnvironmentConnection for TLC.  Its names differ    *)
(* from those of LiveStreams, so that one module can speak of both.        *)
(***************************************************************************)
EXTENDS Integers

CONSTANTS Waiter, Reconnector, MaxFailures

ASSUME ConnectionAssumption ==
    /\ MaxFailures \in Nat
    /\ Waiter \cap Reconnector = {}

VARIABLES
    current, \* the transport's session
    closing, disposed, loop, source, received, gate, pc, chain, failures, fresh,
    refused

C == INSTANCE EnvironmentConnection WITH session <- current

ConnectionSpec == C!FairSpec

(* Whatever order a disposal and queued reconnects come in: every replaced *)
(* session is closed, after the disposal the last one too, and never the   *)
(* one in use.                                                             *)
SessionsAreClosed == C!SessionsAreClosed

(* A reconnect that returns has seen a shell snapshot since it was called. *)
ReconnectSawSnapshot == C!ReconnectSawSnapshot

(* Queued reconnects each get past their session swap; one that fails does *)
(* not jam the next.                                                       *)
ChainMovesOn == C!ChainMovesOn

(* Unless the server refuses the subscription, the shell stream flows      *)
(* again on the current session, and a disposal ends it.                   *)
StreamComesBack == C!StreamComesBack
===============================================================================
