-------------------------- MODULE MCGateAndGitStatus --------------------------
(***************************************************************************)
(* Small instances of two parts of the server that share nothing, for TLC: *)
(* in a behaviour one of them runs, the start-up gate or the git status    *)
(* broadcaster.                                                            *)
(***************************************************************************)
EXTENDS CommandGate

CONSTANTS Client, RefreshCall, Poller, Status, s1, None, MaxChanges, MaxFailures

ASSUME GitAssumption ==
    /\ None \notin Status
    /\ Client \cap RefreshCall = {}
    /\ Poller \notin Client \cup RefreshCall

VARIABLES
    part, \* the part that runs
    repository, running, cached, subscribers, at, source, read, events, copy,
    changes, failures, silent

G == INSTANCE GitStatusBroadcaster WITH Caller <- RefreshCall

git == <<repository, running, cached, subscribers, at, source, read, events, copy,
         changes, failures, silent>>

InGate(A) == part = "gate" /\ A /\ UNCHANGED <<part, git>>
InGit(A) == part = "git" /\ A /\ UNCHANGED <<part, vars>>

(* The statuses are interchangeable: the first may be any.                 *)
PartsInit ==
    /\ part \in {"gate", "git"} /\ Init
    /\ G!Init /\ repository = [p \in G!Part |-> s1]

PartsNext == InGate(Next) \/ InGit(G!Next)

(* The gate's calls end after a few steps, so that one condition does for  *)
(* all those of its FairSpec.                                              *)
GateTurn ==
    Decide \/ Release \/ Worker \/ \E c \in Caller : Enter(c) \/ Offer(c) \/ Finish(c)

PartsSpec ==
    /\ PartsInit /\ [][PartsNext]_<<part, vars, git>>
    /\ WF_vars(InGate(GateTurn))
    /\ \A x \in G!Fiber : WF_git(InGit(G!Turn(x)))

(* Every command of a caller that stays is answered, and the worker runs   *)
(* every queued one, in order, unless start-up fails.                      *)
GateServesEveryone == part = "gate" => EveryoneIsServed

(* Every open stream shows the broadcaster's cached status or is about to, *)
(* unless a load overwrote the local part.                                 *)
StreamsFollowTheCache == G!StreamsFollowTheCache

(* Every open stream shows the remote status the repository has, in the    *)
(* end, although results are late, commands fail and clients come and go.  *)
RemoteStatusConverges == G!RemoteStatusConverges
===============================================================================
