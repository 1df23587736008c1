--------------------------- MODULE CommandJournal ---------------------------
(***************************************************************************)
(* What the orchestration engine promises, without its worker, its         *)
(* transactions, its projections or its crashes: a durable journal that    *)
(* commands extend one at a time, each at most once, and a verdict per     *)
(* command id that is never revised.                                       *)
(*                                                                         *)
(* Every verdict is right for the whole journal as it stands when it is    *)
(* given: a command is accepted only if it is admissible after all the     *)
(* events before it, and its rejection is recorded only if it is not.      *)
(***************************************************************************)
EXTENDS OrchestrationCommands

VARIABLES
    journal,    \* every event ever accepted, in sequence order
    verdicts    \* verdicts[c] : the receipt of c, or NoReceipt

vars == <<journal, verdicts>>

Init ==
    /\ journal = LegacyLog
    /\ verdicts = [c \in CommandId |-> NoReceipt]

(* The command's events enter the journal together with its verdict.       *)
Accept(c) ==
    /\ verdicts[c].status = "none"
    /\ Admissible(c, journal)
    /\ journal' = journal \o EventsOf(c)
    /\ verdicts' = [verdicts EXCEPT ![c] =
                        Accepted(Len(journal) + Len(EventsOf(c)))]

Reject(c) ==
    /\ verdicts[c].status = "none"
    /\ ~ Admissible(c, journal)
    /\ verdicts' = [verdicts EXCEPT ![c] = Rejected(Len(journal))]
    /\ UNCHANGED journal

Next == \E c \in CommandId : Accept(c) \/ Reject(c)

Spec == Init /\ [][Next]_vars
=============================================================================
