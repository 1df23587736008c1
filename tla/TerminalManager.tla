-------------------------- MODULE TerminalManager --------------------------
(***************************************************************************)
(* One terminal of a thread.  Calls of clients run one at a time under the *)
(* thread's lock and wait in it for the history to be written and for the  *)
(* shell to be spawned; the shells print and exit, the manager's table     *)
(* forgets terminals that do not run, processes that were stopped are      *)
(* killed a while later, and the server may go down.  The history is       *)
(* written by KeyedCoalescingWorker, which is a WorkLedger: of a terminal  *)
(* one request waits, the latest, and one is in work.                      *)
(***************************************************************************)
EXTENDS Naturals, Sequences

CONSTANTS
    HistoryLimit,  \* lines of history that are kept
    MaxSessions,   \* bound: sessions that anything refers to
    MaxProcesses,  \* bound: processes that live
    MaxCalls,      \* bound: calls
    MaxLines,      \* bound: lines that are printed
    MaxFaults      \* bound: evictions, and ends of the server

ASSUME TerminalAssumption ==
    /\ HistoryLimit \in Nat /\ MaxSessions \in Nat /\ MaxProcesses \in Nat
    /\ MaxCalls \in Nat /\ MaxLines \in Nat /\ MaxFaults \in Nat

Session == 1..MaxSessions
Process == 1..MaxProcesses
Line == 1..MaxLines
None == 0

VARIABLES
    sessions,   \* the TerminalSessionState objects
    entry,      \* the terminal's session in the manager's table
    call,       \* the call that holds the thread's lock, and how far it is
    processes,  \* the shells
    request,    \* the history that waits to be written, if any
    writing,    \* the one that is being written, if any
    file,       \* the history file
    copy,       \* what a client that listens all along shows
    \* Bounds and history.
    calls, printed, faults,
    transcript, \* all the terminal printed since its history was last reset
    orphans,    \* sessions that were evicted while a call went on with them
    unsaved,    \* the last write failed
    overtaken   \* a line was printed while a clear waited for its write

worker == <<request, writing>>
counts == <<calls, faults>>
excuses == <<orphans, unsaved, overtaken>>
vars == <<sessions, entry, call, processes, worker, file, copy, counts, printed,
          transcript, excuses>>

Idle == [at |-> "idle"]
Unused == [status |-> "unused", process |-> None, history |-> <<>>]

(* flush, read    open of a terminal that is not in the table              *)
(* save           waits for what it enqueued to be written                 *)
(* spawn          waits for the shell                                      *)
Call ==
    {Idle}
    \cup [at : {"flush", "read"}, type : {"open"}, session : {None}]
    \cup [at : {"save"}, type : {"start", "clear"}, session : Session]
    \cup [at : {"save"}, type : {"close", "delete"}, session : Session \cup {None}]
    \cup [at : {"spawn"}, type : {"start"}, session : Session]

Text == Seq(Line)

\* TerminalSessionState, as much of it as matters here.
Object == [status : {"unused", "starting", "running", "exited", "error"},
           process : Process \cup {None}, history : Text]

(* Every variable has its type (the manager's whole state).                *)
TypeOK ==
    /\ sessions \in [Session -> Object]
    /\ entry \in Session \cup {None}
    /\ call \in Call
    /\ processes \in [Process -> {"none", "alive", "stopping"}]
    /\ {request, writing} \subseteq Seq(Text)
    /\ file \in Text /\ copy \in Text /\ transcript \in Text
    /\ calls \in 0..MaxCalls /\ printed \in 0..MaxLines /\ faults \in 0..MaxFaults
    /\ orphans \in SUBSET Session
    /\ unsaved \in BOOLEAN /\ overtaken \in BOOLEAN

Init ==
    /\ sessions = [s \in Session |-> Unused]
    /\ entry = None /\ call = Idle
    /\ processes = [p \in Process |-> "none"]
    /\ request = <<>> /\ writing = <<>> /\ file = <<>>
    /\ copy = <<>> /\ transcript = <<>>
    /\ calls = 0 /\ printed = 0 /\ faults = 0
    /\ orphans = {} /\ unsaved = FALSE /\ overtaken = FALSE

\* capHistory
Capped(text) ==
    IF Len(text) <= HistoryLimit THEN text
    ELSE SubSeq(text, Len(text) - HistoryLimit + 1, Len(text))

Enqueue(history) == request' = <<history>>
Drained == request = <<>> /\ writing = <<>>

Goto(at, type, s) == call' = [at |-> at, type |-> type, session |-> s]
Return == call' = Idle

\* An object that nothing refers to is as good as a new one.
Free(s) ==
    /\ s # entry /\ sessions[s].process = None /\ s \notin orphans
    /\ call # Idle => s # call.session
New(s) == Free(s) /\ \A r \in 1..(s - 1) : ~ Free(r)

-----------------------------------------------------------------------------
(* The calls.                                                              *)

Begin == call = Idle /\ calls < MaxCalls /\ calls' = calls + 1

Stopped(r) ==
    IF r.process = None THEN r
    ELSE [r EXCEPT !.status = "exited", !.process = None]

(* MUTANT: the table forgets the process and it runs on.                   *)
Signal_Nobody(p) == UNCHANGED processes

(* SIGTERM; SIGKILL follows.                                               *)
Signal(p) ==
    processes' = [q \in Process |-> IF q = p THEN "stopping" ELSE processes[q]]

\* stopProcess, and what becomes of the history.
Stop(s, history) ==
    /\ sessions' = [sessions EXCEPT ![s] =
                       [Stopped(sessions[s]) EXCEPT !.history = history]]
    /\ Signal(sessions[s].process)
    /\ Enqueue(history)

\* open of a terminal that ended, or for another directory, and restart.
StartAgain ==
    /\ Begin
    /\ entry # None
    /\ Stop(entry, <<>>)
    /\ transcript' = <<>>
    /\ Goto("save", "start", entry)
    /\ UNCHANGED <<entry, writing, file, copy, printed, faults, excuses>>

\* restart of a terminal that is not in the table.
RestartNew ==
    /\ Begin
    /\ entry = None
    /\ \E s \in Session :
          /\ New(s)
          /\ sessions' = [sessions EXCEPT ![s] = [Unused EXCEPT !.status = "starting"]]
          /\ entry' = s
          /\ Goto("save", "start", s)
    /\ Enqueue(<<>>)
    /\ transcript' = <<>>
    /\ UNCHANGED <<processes, writing, file, copy, printed, faults, excuses>>

OpenNew ==
    /\ Begin
    /\ entry = None
    /\ Goto("flush", "open", None)
    /\ UNCHANGED <<sessions, entry, processes, worker, file, copy, printed, faults,
                   transcript, excuses>>

Clear ==
    /\ Begin
    /\ entry # None
    /\ sessions' = [sessions EXCEPT ![entry].history = <<>>]
    /\ Enqueue(<<>>)
    /\ transcript' = <<>>
    /\ Goto("save", "clear", entry)
    /\ UNCHANGED <<entry, processes, writing, file, copy, printed, faults, excuses>>

\* close, which keeps or deletes the history.
Close(type) ==
    /\ Begin
    /\ IF entry = None THEN UNCHANGED <<sessions, processes, request>>
       ELSE Stop(entry, sessions[entry].history)
    /\ Goto("save", type, entry)
    /\ UNCHANGED <<entry, writing, file, copy, printed, faults, transcript,
                   excuses>>

\* A removal that fails is logged; the file stays.
Removal == file' \in {file, <<>>}

\* close of a whole thread, with its histories, after the terminal left the
\* table: nothing is awaited, and what waits to be written comes back.
DeleteAll ==
    /\ Begin
    /\ entry = None
    /\ Removal
    /\ IF Drained /\ file' = <<>> THEN transcript' = <<>> /\ unsaved' = FALSE
       ELSE UNCHANGED <<transcript, unsaved>>
    /\ UNCHANGED <<sessions, entry, call, processes, worker, copy, printed, faults,
                   orphans, overtaken>>

(* MUTANT: the file is read whatever waits to be written to it.            *)
Flushed_NoWait ==
    /\ call.at = "flush"
    /\ Goto("read", "open", None)
    /\ UNCHANGED <<sessions, entry, processes, worker, file, copy, counts, printed,
                   transcript, excuses>>

Flushed ==
    /\ call.at = "flush" /\ Drained
    /\ Goto("read", "open", None)
    /\ UNCHANGED <<sessions, entry, processes, worker, file, copy, counts, printed,
                   transcript, excuses>>

\* readHistory, the session, and startSession.
Read ==
    /\ call.at = "read"
    /\ \E s \in Session :
          /\ New(s)
          /\ sessions' = [sessions EXCEPT ![s] =
                [status |-> "starting", process |-> None, history |-> Capped(file)]]
          /\ entry' = s
          /\ Goto("spawn", "start", s)
    /\ file' = Capped(file)
    /\ transcript' = IF unsaved THEN file ELSE transcript
    /\ UNCHANGED <<processes, worker, copy, counts, printed, excuses>>

\* open returns the error, and there is no session.
ReadFails ==
    /\ call.at = "read"
    /\ Return
    /\ UNCHANGED <<sessions, entry, processes, worker, file, copy, counts, printed,
                   transcript, excuses>>

Saved(type) == call.at = "save" /\ call.type = type /\ Drained

SavedStart ==
    /\ Saved("start")
    /\ sessions' = [sessions EXCEPT ![call.session].status = "starting"]
    /\ Goto("spawn", "start", call.session)
    /\ UNCHANGED <<entry, processes, worker, file, copy, counts, printed,
                   transcript, excuses>>

(* MUTANT: the clients are not told.                                       *)
SavedClear_Untold ==
    /\ Saved("clear")
    /\ Return
    /\ UNCHANGED <<sessions, entry, processes, worker, file, copy, counts, printed,
                   transcript, excuses>>

\* The event cleared is published, after the write.
SavedClear ==
    /\ Saved("clear")
    /\ copy' = <<>>
    /\ Return
    /\ UNCHANGED <<sessions, entry, processes, worker, file, counts, printed,
                   transcript, excuses>>

SavedClose ==
    /\ Saved("close")
    /\ entry' = None
    /\ Return
    /\ UNCHANGED <<sessions, processes, worker, file, copy, counts, printed,
                   transcript, excuses>>

SavedDelete ==
    /\ Saved("delete")
    /\ entry' = None
    /\ Removal
    /\ IF file' = <<>> THEN transcript' = <<>> /\ unsaved' = FALSE
       ELSE UNCHANGED <<transcript, unsaved>>
    /\ Return
    /\ UNCHANGED <<sessions, processes, worker, copy, counts, printed,
                   orphans, overtaken>>

\* The snapshot in started or restarted replaces what clients have.
Spawned ==
    /\ call.at = "spawn"
    /\ LET s == call.session IN
       /\ \E p \in Process :
             /\ processes[p] = "none" /\ \A q \in 1..(p - 1) : processes[q] # "none"
             /\ processes' = [processes EXCEPT ![p] = "alive"]
             /\ sessions' = [sessions EXCEPT ![s].status = "running",
                                             ![s].process = p]
       /\ copy' = sessions[s].history
    /\ overtaken' = FALSE
    /\ Return
    /\ UNCHANGED <<entry, worker, file, counts, printed, transcript, orphans,
                   unsaved>>

SpawnFails ==
    /\ call.at = "spawn"
    /\ sessions' = [sessions EXCEPT ![call.session].status = "error"]
    /\ orphans' = orphans \ {call.session}
    /\ Return
    /\ UNCHANGED <<entry, processes, worker, file, copy, counts, printed,
                   transcript, unsaved, overtaken>>

-----------------------------------------------------------------------------
(* The shells.  What a process prints or how it ends is handled in the     *)
(* callback, by the session that has the process.                          *)

Output(s) ==
    /\ printed < MaxLines
    /\ printed' = printed + 1
    /\ sessions[s].process # None
    /\ LET history == Capped(Append(sessions[s].history, printed')) IN
       /\ sessions' = [sessions EXCEPT ![s].history = history]
       /\ Enqueue(history)
    /\ copy' = Append(copy, printed')
    /\ transcript' = Append(transcript, printed')
    /\ overtaken' = (overtaken \/ (call.at = "save" /\ call.type = "clear"))
    /\ UNCHANGED <<entry, call, processes, writing, file, counts, orphans, unsaved>>

Exit(s) ==
    /\ sessions[s].process # None
    /\ processes' = [processes EXCEPT ![sessions[s].process] = "none"]
    /\ sessions' = [sessions EXCEPT ![s] = Stopped(@)]
    /\ UNCHANGED <<entry, call, worker, file, copy, counts, printed, transcript,
                   excuses>>

(* MUTANT: SIGTERM is all there is.                                        *)
Kill_Never(p) == FALSE /\ UNCHANGED vars

(* A process that was stopped ends, by SIGKILL if not before.              *)
Kill(p) ==
    /\ processes[p] = "stopping"
    /\ processes' = [processes EXCEPT ![p] = "none"]
    /\ UNCHANGED <<sessions, entry, call, worker, file, copy, counts, printed,
                   transcript, excuses>>

-----------------------------------------------------------------------------
(* The worker that writes the history, the table, and the server.          *)

Write ==
    /\ request # <<>> /\ writing = <<>>
    /\ writing' = request /\ request' = <<>>
    /\ UNCHANGED <<sessions, entry, call, processes, file, copy, counts, printed,
                   transcript, excuses>>

\* A write that fails is logged; it may have emptied the file.
Written ==
    /\ writing # <<>>
    /\ writing' = <<>>
    /\ \/ file' = writing[1] /\ unsaved' = FALSE
       \/ file' \in {file, <<>>} /\ unsaved' = TRUE
    /\ UNCHANGED <<sessions, entry, call, processes, request, copy, counts, printed,
                   transcript, orphans, overtaken>>

Fault == faults < MaxFaults /\ faults' = faults + 1 /\ UNCHANGED calls

(* evictInactiveSessionsIfNeeded, after any terminal of any thread ended:  *)
(* this one may be the oldest.                                             *)
Evict ==
    /\ Fault
    /\ entry # None /\ sessions[entry].status # "running"
    /\ entry' = None
    /\ orphans' = IF call # Idle /\ call.type = "start"
                  THEN orphans \cup {entry} ELSE orphans
    /\ UNCHANGED <<sessions, call, processes, worker, file, copy, printed,
                   transcript, unsaved, overtaken>>

\* The server ends, and with it the shells; what was not written is lost,
\* and a write may have got no further than to empty the file.
Down ==
    /\ Fault
    /\ sessions' = [s \in Session |-> Unused] /\ entry' = None /\ call' = Idle
    /\ processes' = [p \in Process |-> "none"]
    /\ request' = <<>> /\ writing' = <<>>
    /\ file' \in {file} \cup {<<>> : i \in DOMAIN writing}
    /\ transcript' = file' /\ unsaved' = FALSE /\ orphans' = {}
    /\ UNCHANGED <<copy, printed, overtaken>>

-----------------------------------------------------------------------------
Proceed ==
    \/ Flushed \/ Read \/ SavedStart \/ SavedClear \/ SavedClose \/ SavedDelete
    \/ ReadFails \/ Spawned \/ SpawnFails

Next ==
    \/ StartAgain \/ RestartNew \/ OpenNew \/ Clear
    \/ Close("close") \/ Close("delete") \/ DeleteAll
    \/ Proceed
    \/ \E s \in Session : Output(s) \/ Exit(s)
    \/ \E p \in Process : Kill(p)
    \/ Write \/ Written
    \/ Evict \/ Down

Spec == Init /\ [][Next]_vars

(* The calls, the worker and the timers of the kill go on.                 *)
FairSpec ==
    /\ Spec /\ WF_vars(Proceed) /\ WF_vars(Write \/ Written)
    /\ \A p \in Process : WF_vars(Kill(p))

-----------------------------------------------------------------------------
(* Once nothing waits to be written the file has what the terminal printed *)
(* since it was last started or cleared, up to the limit, and so has the   *)
(* session: whatever evictions, closes and reopenings there were.          *)
TranscriptIsSaved ==
    Drained /\ ~ unsaved /\ orphans = {} =>
       /\ file = Capped(transcript)
       /\ entry # None => sessions[entry].history = file

(* A client that only listens to the events shows the history of a running *)
(* terminal, unless a clear was overtaken by output: the history has the   *)
(* line, and the event that comes after it empties the client.             *)
EventsTellTheHistory ==
    (entry # None /\ call = Idle /\ ~ overtaken /\ orphans = {}) =>
       (sessions[entry].status = "running" =>
           sessions[entry].history = Capped(copy))

(* Every process that is not being killed is one that a call can stop,     *)
(* except that of a terminal that was evicted while it was started.        *)
ProcessesAreOwned ==
    \A p \in Process : processes[p] = "alive" =>
       \E s \in orphans \cup ({entry} \ {None}) : sessions[s].process = p

(* The lock is given back, and a process that was stopped is gone.         *)
EverythingEnds ==
    []<>(call = Idle /\ \A p \in Process : processes[p] # "stopping")
=============================================================================
