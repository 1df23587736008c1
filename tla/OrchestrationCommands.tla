----------------------- MODULE OrchestrationCommands -----------------------
(***************************************************************************)
(* The commands of the orchestration engine and the decision it takes on   *)
(* each: decideOrchestrationCommand with the invariants it requires.       *)
(*                                                                         *)
(* A command id stands for one command: CommandOf gives its type and its   *)
(* thread.  Only what the decision tells apart is kept of the payloads.    *)
(* One command type stands for each kind of guard in the decider:          *)
(*   thread.create      the thread must be absent                          *)
(*   thread.archive     the thread must exist and not be archived          *)
(*   thread.unarchive   the thread must exist and be archived              *)
(*   thread.delete      the thread must exist (a deleted one still does)   *)
(*   thread.turn.start  the thread must exist; two events in one command   *)
(* Left out, as they only reject more: the project that thread.create      *)
(* requires, and the proposed plan a turn may start from, which must exist *)
(* in the same project.                                                    *)
(***************************************************************************)
EXTENDS Integers, Sequences, FiniteSets

CONSTANTS
    CommandId,   \* command ids clients use
    Thread,      \* thread ids
    CommandOf,   \* CommandOf[c] = [type |-> ..., thread |-> ...]
    NoCommand,   \* the command id of an event older than the receipts table
    LegacyLog    \* the events the database holds when the model starts

CommandType == {"thread.create", "thread.archive", "thread.unarchive",
                "thread.delete", "thread.turn.start"}

EventType == {"thread.created", "thread.archived", "thread.unarchived",
              "thread.deleted", "thread.message-sent",
              "thread.turn-start-requested"}

Command == [type : CommandType, thread : Thread]

(* An event is known by the command that caused it, its thread and type;   *)
(* its sequence number is its position in the log.                         *)
Event == [commandId : CommandId \cup {NoCommand},
          thread : Thread, type : EventType]

(***************************************************************************)
(* What a view of the first n events of a log knows of a thread.           *)
(***************************************************************************)

(* requireThread looks the id up in the read model's list of threads, from *)
(* which thread.deleted removes nothing.                                   *)
Exists(view, n, t) ==
    \E i \in 1..n : view[i].thread = t /\ view[i].type = "thread.created"

(* archivedAt is set by the last thread.archived not followed by a         *)
(* thread.unarchived.                                                      *)
Archived(view, n, t) ==
    \E i \in 1..n :
        /\ view[i].thread = t
        /\ view[i].type = "thread.archived"
        /\ \A j \in (i+1)..n :
              ~ (view[j].thread = t /\ view[j].type = "thread.unarchived")

(* MUTANT: thread.create does not require the thread to be absent.         *)
Admissible_CreateTwice(c, view) ==
    LET t == CommandOf[c].thread
        n == Len(view)
    IN  \/ CommandOf[c].type = "thread.create"
        \/ /\ CommandOf[c].type = "thread.archive"
           /\ Exists(view, n, t) /\ ~ Archived(view, n, t)
        \/ /\ CommandOf[c].type = "thread.unarchive"
           /\ Exists(view, n, t) /\ Archived(view, n, t)
        \/ /\ CommandOf[c].type \in {"thread.delete", "thread.turn.start"}
           /\ Exists(view, n, t)

(***************************************************************************)
(* The decision on a command, from a read model that is the view.          *)
(***************************************************************************)
Admissible(c, view) ==
    LET t == CommandOf[c].thread
        n == Len(view)
    IN  \/ CommandOf[c].type = "thread.create" /\ ~ Exists(view, n, t)
        \/ /\ CommandOf[c].type = "thread.archive"
           /\ Exists(view, n, t) /\ ~ Archived(view, n, t)
        \/ /\ CommandOf[c].type = "thread.unarchive"
           /\ Exists(view, n, t) /\ Archived(view, n, t)
        \/ /\ CommandOf[c].type \in {"thread.delete", "thread.turn.start"}
           /\ Exists(view, n, t)

EventTypes(type) ==
    CASE type = "thread.create"     -> <<"thread.created">>
      [] type = "thread.archive"    -> <<"thread.archived">>
      [] type = "thread.unarchive"  -> <<"thread.unarchived">>
      [] type = "thread.delete"     -> <<"thread.deleted">>
      [] type = "thread.turn.start" -> <<"thread.message-sent",
                                         "thread.turn-start-requested">>

(* The events an admissible command yields, in order.                      *)
EventsOf(c) ==
    [k \in 1..Len(EventTypes(CommandOf[c].type)) |->
        [commandId |-> c,
         thread    |-> CommandOf[c].thread,
         type      |-> EventTypes(CommandOf[c].type)[k]]]

(***************************************************************************)
(* The receipts table: one row per command id.  The row of an id without   *)
(* receipt reads NoReceipt.                                                *)
(***************************************************************************)
Receipt == [status : {"none", "accepted", "rejected"}, resultSequence : Nat]
NoReceipt == [status |-> "none", resultSequence |-> 0]
Accepted(seq) == [status |-> "accepted", resultSequence |-> seq]
Rejected(seq) == [status |-> "rejected", resultSequence |-> seq]

(***************************************************************************)
(* An event is legal where it stands in a log when the events before it    *)
(* leave its thread in the state the event presupposes.                    *)
(***************************************************************************)
EventLegal(log, i) ==
    LET t == log[i].thread
    IN  \/ log[i].type = "thread.created" /\ ~ Exists(log, i - 1, t)
        \/ /\ log[i].type = "thread.archived"
           /\ Exists(log, i - 1, t) /\ ~ Archived(log, i - 1, t)
        \/ /\ log[i].type = "thread.unarchived"
           /\ Exists(log, i - 1, t) /\ Archived(log, i - 1, t)
        \/ /\ log[i].type \in {"thread.deleted", "thread.message-sent",
                               "thread.turn-start-requested"}
           /\ Exists(log, i - 1, t)

LogLegal(log) == \A i \in 1..Len(log) : EventLegal(log, i)

(***************************************************************************)
(* The database's events older than the model are themselves legal and     *)
(* belong to no command id a client will use.                              *)
(***************************************************************************)
ASSUME CommandsAssumption ==
    /\ CommandOf \in [CommandId -> Command]
    /\ NoCommand \notin CommandId
    /\ LegacyLog \in Seq(Event)
    /\ \A i \in 1..Len(LegacyLog) : LegacyLog[i].commandId = NoCommand
    /\ LogLegal(LegacyLog)
============================================================================
