----------------------- MODULE TerminalManagerProofs -----------------------
(***************************************************************************)
(* For any numbers of sessions, shells, calls, lines and faults: the state *)
(* of a terminal is well-typed, every shell can be stopped, and what is    *)
(* printed is saved and shown.                                             *)
(***************************************************************************)
EXTENDS TerminalManager, SequenceTheorems, TLAPS

(* A text that is cut to the limit is a text.                              *)
LEMMA CappedType ==
    ASSUME NEW text \in Text
    PROVE  Capped(text) \in Text
<1>1. CASE Len(text) <= HistoryLimit
  BY <1>1 DEF Capped
<1>2. CASE ~ (Len(text) <= HistoryLimit)
  <2>1. Len(text) \in Nat /\ HistoryLimit \in Nat
    BY TerminalAssumption, LenProperties DEF Text
  <2>2. Len(text) - HistoryLimit + 1 \in 1..(Len(text) + 1)
    BY <1>2, <2>1
  <2>3. \A i \in (Len(text) - HistoryLimit + 1)..Len(text) : text[i] \in Line
    BY <2>1, <2>2, ElementOfSeq DEF Text
  <2>4. SubSeq(text, Len(text) - HistoryLimit + 1, Len(text)) \in Seq(Line)
    BY <2>1, <2>2, <2>3, SubSeqProperties DEF Text
  <2> QED
    BY <1>2, <2>4 DEF Capped, Text
<1> QED
  BY <1>1, <1>2

(* What stop and enqueue do is well-typed.                                 *)
LEMMA StopTypes ==
    ASSUME TypeOK, NEW s \in Session, NEW h \in Text, Stop(s, h)
    PROVE  /\ sessions' \in [Session -> Object]
           /\ processes' \in [Process -> {"none", "alive", "stopping"}]
           /\ request' \in Seq(Text)
<1>1. sessions[s] \in Object
  BY DEF TypeOK
<1>2. [Stopped(sessions[s]) EXCEPT !.history = h] \in Object
  BY <1>1 DEF Stopped, Object
<1>3. sessions' \in [Session -> Object]
  BY <1>2 DEF Stop, TypeOK
<1>4. processes' \in [Process -> {"none", "alive", "stopping"}]
  BY DEF Stop, Signal, TypeOK
<1>5. request' \in Seq(Text)
  BY DEF Stop, Enqueue
<1> QED
  BY <1>3, <1>4, <1>5

(* The first state is well-typed.                                          *)
LEMMA InitTypes == Init => TypeOK
<1> SUFFICES ASSUME Init PROVE TypeOK
  OBVIOUS
<1>1. <<>> \in Text /\ <<>> \in Seq(Text)
  BY DEF Text
<1>2. Unused \in Object
  BY <1>1 DEF Unused, Object
<1>3. /\ sessions \in [Session -> Object] /\ entry \in Session \cup {None}
      /\ processes \in [Process -> {"none", "alive", "stopping"}]
  BY <1>2 DEF Init
<1>4. call \in Call
  BY DEF Init, Call
<1>5. calls \in 0..MaxCalls /\ printed \in 0..MaxLines /\ faults \in 0..MaxFaults
  BY TerminalAssumption DEF Init
<1> QED
  BY <1>1, <1>3, <1>4, <1>5 DEF Init, TypeOK

(* A call that begins keeps the types.                                     *)
LEMMA BeginTypes ==
    ASSUME TypeOK,
           \/ StartAgain \/ RestartNew \/ OpenNew \/ Clear
           \/ Close("close") \/ Close("delete") \/ DeleteAll
    PROVE  TypeOK'
<1>1. <<>> \in Text /\ <<<<>>>> \in Seq(Text)
  BY DEF Text
<1>2. Begin => calls' \in 0..MaxCalls
  BY TerminalAssumption DEF Begin, TypeOK
<1>3. entry # None => entry \in Session /\ sessions[entry] \in Object
  BY DEF TypeOK
<1>4. CASE StartAgain
  <2>1. Goto("save", "start", entry) => call' \in Call
    BY <1>3, <1>4 DEF StartAgain, Goto, Call
  <2>2. /\ sessions' \in [Session -> Object]
        /\ processes' \in [Process -> {"none", "alive", "stopping"}]
        /\ request' \in Seq(Text)
    BY <1>1, <1>3, <1>4, StopTypes DEF StartAgain
  <2> QED
    BY <1>1, <1>2, <1>4, <2>1, <2>2 DEF StartAgain, TypeOK, excuses
<1>5. CASE RestartNew
  <2>1. PICK s \in Session :
            /\ sessions' = [sessions EXCEPT ![s] = [Unused EXCEPT !.status = "starting"]]
            /\ entry' = s
            /\ Goto("save", "start", s)
    BY <1>5 DEF RestartNew
  <2>2. call' \in Call
    BY <2>1 DEF Goto, Call
  <2>3. [Unused EXCEPT !.status = "starting"] \in Object
    BY <1>1 DEF Unused, Object
  <2>4. sessions' \in [Session -> Object]
    BY <2>1, <2>3 DEF TypeOK
  <2> QED
    BY <1>1, <1>2, <1>5, <2>1, <2>2, <2>4
       DEF RestartNew, Enqueue, TypeOK, excuses
<1>6. CASE OpenNew
  <2>1. call' \in Call
    BY <1>6 DEF OpenNew, Goto, Call
  <2> QED
    BY <1>2, <1>6, <2>1 DEF OpenNew, TypeOK, worker, excuses
<1>7. CASE Clear
  <2>1. call' \in Call
    BY <1>3, <1>7 DEF Clear, Goto, Call
  <2>2. [sessions[entry] EXCEPT !.history = <<>>] \in Object
    BY <1>1, <1>3, <1>7 DEF Clear, Object
  <2>3. sessions' \in [Session -> Object]
    BY <1>7, <2>2 DEF Clear, TypeOK
  <2> QED
    BY <1>1, <1>2, <1>7, <2>1, <2>3 DEF Clear, Enqueue, TypeOK, excuses
<1>8. ASSUME NEW type \in {"close", "delete"}, Close(type) PROVE TypeOK'
  <2>1. call' \in Call
    BY <1>8 DEF Close, Goto, Call, TypeOK
  <2>2. /\ sessions' \in [Session -> Object]
        /\ processes' \in [Process -> {"none", "alive", "stopping"}]
        /\ request' \in Seq(Text)
    <3>1. CASE entry = None
      BY <1>8, <3>1 DEF Close, TypeOK
    <3>2. CASE entry # None
      <4>1. sessions[entry].history \in Text
        BY <1>3, <3>2 DEF Object
      <4> QED
        BY <1>3, <1>8, <3>2, <4>1, StopTypes DEF Close
    <3> QED
      BY <3>1, <3>2
  <2> QED
    BY <1>2, <1>8, <2>1, <2>2 DEF Close, TypeOK, excuses
<1>9. CASE DeleteAll
  BY <1>1, <1>2, <1>9 DEF DeleteAll, Removal, TypeOK, worker
<1> QED
  BY <1>4, <1>5, <1>6, <1>7, <1>8, <1>9

(* A step of the call under way keeps the types.                           *)
LEMMA ProceedTypes == ASSUME TypeOK, Proceed PROVE TypeOK'
<1>1. <<>> \in Text /\ <<>> \in Seq(Text) /\ Idle \in Call
  BY DEF Text, Call
<1>2. CASE Flushed
  <2>1. call' \in Call
    BY <1>2 DEF Flushed, Goto, Call
  <2> QED
    BY <1>2, <2>1 DEF Flushed, TypeOK, worker, counts, excuses
<1>3. CASE Read
  <2>1. Capped(file) \in Text
    BY CappedType DEF TypeOK
  <2>2. PICK s \in Session :
            /\ sessions' = [sessions EXCEPT ![s] =
                  [status |-> "starting", process |-> None, history |-> Capped(file)]]
            /\ entry' = s
            /\ Goto("spawn", "start", s)
    BY <1>3 DEF Read
  <2>3. [status |-> "starting", process |-> None, history |-> Capped(file)] \in Object
    BY <2>1 DEF Object
  <2>4. sessions' \in [Session -> Object]
    BY <2>2, <2>3 DEF TypeOK
  <2>5. call' \in Call
    BY <2>2 DEF Goto, Call
  <2>6. entry' \in Session \cup {None} /\ file' \in Text /\ transcript' \in Text
    BY <1>3, <2>1, <2>2 DEF Read, TypeOK
  <2>7. UNCHANGED <<processes, request, writing, copy, calls, faults, printed,
                    orphans, unsaved, overtaken>>
    BY <1>3 DEF Read, worker, counts, excuses
  <2> QED
    BY <2>4, <2>5, <2>6, <2>7 DEF TypeOK
<1>4. CASE SavedStart
  <2>1. call' \in Call
    BY <1>4 DEF SavedStart, Saved, Goto, Call, TypeOK, Idle
  <2>2. sessions' \in [Session -> Object]
    BY <1>4 DEF SavedStart, Object, TypeOK
  <2> QED
    BY <1>4, <2>1, <2>2 DEF SavedStart, TypeOK, worker, counts, excuses
<1>5. CASE SavedClear
  BY <1>1, <1>5 DEF SavedClear, Return, TypeOK, worker, counts, excuses
<1>6. CASE SavedClose
  BY <1>1, <1>6 DEF SavedClose, Return, TypeOK, worker, counts, excuses
<1>7. CASE SavedDelete
  BY <1>1, <1>7 DEF SavedDelete, Removal, Return, TypeOK, worker, counts
<1>8. CASE Spawned
  <2>1. call.session \in Session
    BY <1>8 DEF Spawned, TypeOK, Call, Idle
  <2>2. PICK p \in Process :
            /\ processes' = [processes EXCEPT ![p] = "alive"]
            /\ sessions' = [sessions EXCEPT ![call.session].status = "running",
                                            ![call.session].process = p]
    BY <1>8 DEF Spawned
  <2>3. sessions[call.session] \in Object
    BY <2>1 DEF TypeOK
  <2>4. [sessions[call.session] EXCEPT !.status = "running", !.process = p] \in Object
    BY <2>3 DEF Object
  <2>5. sessions' \in [Session -> Object]
    BY <2>1, <2>2, <2>4 DEF TypeOK
  <2>6. copy' \in Text
    BY <1>8, <2>3 DEF Spawned, Object
  <2>7. processes' \in [Process -> {"none", "alive", "stopping"}]
    BY <2>2 DEF TypeOK
  <2> QED
    BY <1>1, <1>8, <2>5, <2>6, <2>7 DEF Spawned, Return, TypeOK, worker, counts
<1>9. CASE SpawnFails
  <2>1. sessions' \in [Session -> Object]
    BY <1>9 DEF SpawnFails, Object, TypeOK
  <2> QED
    BY <1>1, <1>9, <2>1 DEF SpawnFails, Return, TypeOK, worker, counts
<1>10. CASE ReadFails
  BY <1>1, <1>10 DEF ReadFails, Return, TypeOK, worker, counts, excuses
<1> QED
  BY <1>2, <1>3, <1>4, <1>5, <1>6, <1>7, <1>8, <1>9, <1>10 DEF Proceed

(* What the shells do keeps the types.                                     *)
LEMMA ShellTypes ==
    ASSUME TypeOK,
           \/ \E s \in Session : Output(s) \/ Exit(s)
           \/ \E p \in Process : Kill(p)
    PROVE  TypeOK'
<1>1. ASSUME NEW s \in Session, Output(s) PROVE TypeOK'
  <2> DEFINE h == Capped(Append(sessions[s].history, printed'))
  <2>1. printed' \in 0..MaxLines /\ printed' \in Line
    BY <1>1, TerminalAssumption DEF Output, TypeOK, Line
  <2>2. sessions[s] \in Object
    BY <1>1 DEF TypeOK
  <2>3. \A t \in Text : Append(t, printed') \in Text
    BY <2>1, AppendProperties DEF Text
  <2>4. h \in Text
    <3>1. sessions[s].history \in Text
      BY <2>2 DEF Object
    <3> QED
      BY <2>3, <3>1, CappedType
  <2>5. sessions' = [sessions EXCEPT ![s].history = h] /\ request' = <<h>>
    BY <1>1 DEF Output, Enqueue
  <2> HIDE DEF h
  <2>6. [sessions[s] EXCEPT !.history = h] \in Object
    BY <2>2, <2>4 DEF Object
  <2>7. sessions' \in [Session -> Object] /\ request' \in Seq(Text)
    BY <2>4, <2>5, <2>6 DEF TypeOK
  <2>8. copy' \in Text /\ transcript' \in Text
    BY <1>1, <2>3 DEF Output, TypeOK
  <2>9. overtaken' \in BOOLEAN
    BY <1>1 DEF Output, TypeOK
  <2> QED
    BY <1>1, <2>1, <2>7, <2>8, <2>9 DEF Output, TypeOK, counts
<1>2. ASSUME NEW s \in Session, Exit(s) PROVE TypeOK'
  <2>1. sessions[s] \in Object
    BY <1>2 DEF TypeOK
  <2>2. Stopped(sessions[s]) \in Object
    BY <2>1 DEF Stopped, Object
  <2>3. sessions' \in [Session -> Object]
    BY <1>2, <2>2 DEF Exit, TypeOK
  <2>4. processes' \in [Process -> {"none", "alive", "stopping"}]
    BY <1>2 DEF Exit, TypeOK
  <2> QED
    BY <1>2, <2>3, <2>4 DEF Exit, TypeOK, worker, counts, excuses
<1>3. ASSUME NEW p \in Process, Kill(p) PROVE TypeOK'
  BY <1>3 DEF Kill, TypeOK, worker, counts, excuses
<1> QED
  BY <1>1, <1>2, <1>3

(* The worker, the table and the end of the server keep the types.         *)
LEMMA WorldTypes ==
    ASSUME TypeOK, Write \/ Written \/ Evict \/ Down
    PROVE  TypeOK'
<1>1. <<>> \in Text /\ <<>> \in Seq(Text) /\ Idle \in Call
  BY DEF Text, Call
<1>2. Fault => calls' \in 0..MaxCalls /\ faults' \in 0..MaxFaults
  BY TerminalAssumption DEF Fault, TypeOK
<1>3. CASE Write
  BY <1>1, <1>3 DEF Write, TypeOK, counts, excuses
<1>4. CASE Written
  <2>1. writing[1] \in Text
    BY <1>4, EmptySeq, LenProperties, ElementOfSeq DEF Written, TypeOK
  <2>2. file' \in Text /\ unsaved' \in BOOLEAN
    BY <1>1, <1>4, <2>1 DEF Written, TypeOK
  <2> QED
    BY <1>1, <1>4, <2>2 DEF Written, TypeOK, counts
<1>5. CASE Evict
  BY <1>2, <1>5 DEF Evict, TypeOK, worker
<1>6. CASE Down
  <2>1. Unused \in Object
    BY <1>1 DEF Unused, Object
  <2>2. file' \in Text
    BY <1>1, <1>6 DEF Down, TypeOK
  <2> QED
    BY <1>1, <1>2, <1>6, <2>1, <2>2 DEF Down, TypeOK
<1> QED
  BY <1>3, <1>4, <1>5, <1>6

LEMMA TypeStep == TypeOK /\ [Next]_vars => TypeOK'
<1> SUFFICES ASSUME TypeOK, [Next]_vars PROVE TypeOK'
  OBVIOUS
<1>1. CASE UNCHANGED vars
  BY <1>1 DEF vars, worker, counts, excuses, TypeOK
<1>2. CASE Next
  BY <1>2, BeginTypes, ProceedTypes, ShellTypes, WorldTypes DEF Next
<1> QED
  BY <1>1, <1>2

(* Every reachable state is well-typed, whatever calls, shells and faults. *)
THEOREM TypeCorrect == Spec => []TypeOK
  BY InitTypes, TypeStep, PTL DEF Spec

-----------------------------------------------------------------------------
(* Every shell can be stopped.                                             *)

(* A terminal whose shell is known runs, so the table does not forget it.  *)
KnownShellsRun ==
    \A s \in Session : sessions[s].process # None => sessions[s].status = "running"

(* What the call under way may rely on while it is suspended.              *)
Opening == call # Idle /\ call.type = "open" => entry = None
Starting ==
    call # Idle /\ call.type = "start" =>
        /\ call.session \in orphans \cup {entry}
        /\ sessions[call.session].process = None
Closing ==
    (call # Idle /\ call.type \in {"close", "delete"} /\ entry # None) =>
        sessions[entry].process = None

OwnInv == ProcessesAreOwned /\ KnownShellsRun /\ Opening /\ Starting /\ Closing

LEMMA OwnInit == Init => OwnInv
  BY DEF Init, OwnInv, ProcessesAreOwned, KnownShellsRun, Opening, Starting,
         Closing, Idle, Unused

(* None is no session and no process, and the objects are records.         *)
LEMMA Objects ==
    ASSUME TypeOK
    PROVE  /\ None \notin Session /\ None \notin Process
           /\ DOMAIN sessions = Session /\ DOMAIN processes = Process
           /\ entry \in Session \cup {None}
           /\ orphans \subseteq Session
           /\ \A s \in Session : sessions[s].process \in Process \cup {None}
           /\ call # Idle => call.session \in Session \cup {None}
           /\ call # Idle /\ call.type = "start" => call.session \in Session
<1>1. None \notin Session /\ None \notin Process
  BY TerminalAssumption DEF None, Session, Process
<1>2. \A s \in Session : sessions[s].process \in Process \cup {None}
  BY DEF TypeOK, Object
<1>3. /\ call # Idle => call.session \in Session \cup {None}
      /\ call # Idle /\ call.type = "start" => call.session \in Session
  BY DEF TypeOK, Call
<1> QED
  BY <1>1, <1>2, <1>3 DEF TypeOK

(* A call that stops the terminal in the table.                            *)
LEMMA StopOwns ==
    ASSUME TypeOK, ProcessesAreOwned, KnownShellsRun, entry # None,
           NEW h, Stop(entry, h), UNCHANGED <<entry, orphans>>
    PROVE  /\ ProcessesAreOwned' /\ KnownShellsRun'
           /\ sessions'[entry].process = None
<1>1. /\ entry \in Session
      /\ \A s \in Session \ {entry} : sessions'[s] = sessions[s]
      /\ sessions'[entry].process = None
    BY Objects DEF Stop, Stopped, TypeOK, Object
<1>2. \A p \in Process :
         processes'[p] = IF p = sessions[entry].process THEN "stopping"
                         ELSE processes[p]
  BY DEF Stop, Signal
<1>3. ProcessesAreOwned'
  <2> SUFFICES ASSUME NEW p \in Process, processes'[p] = "alive"
               PROVE  \E s \in orphans \cup ({entry} \ {None}) :
                         sessions'[s].process = p
    BY DEF ProcessesAreOwned
  <2>1. processes[p] = "alive" /\ sessions[entry].process # p
    BY <1>2
  <2>2. PICK s \in orphans \cup ({entry} \ {None}) : sessions[s].process = p
    BY <2>1 DEF ProcessesAreOwned
  <2> QED
    BY <1>1, <2>1, <2>2, Objects
<1>4. KnownShellsRun'
  BY <1>1 DEF KnownShellsRun
<1> QED
  BY <1>1, <1>3, <1>4

(* A call that begins keeps the invariant.                                 *)
LEMMA BeginOwns ==
    ASSUME TypeOK, OwnInv,
           \/ StartAgain \/ RestartNew \/ OpenNew \/ Clear
           \/ Close("close") \/ Close("delete") \/ DeleteAll
    PROVE  OwnInv'
<1>1. CASE StartAgain
  <2>1. /\ entry # None /\ Stop(entry, <<>>) /\ UNCHANGED <<entry, orphans>>
        /\ call' = [at |-> "save", type |-> "start", session |-> entry]
    BY <1>1 DEF StartAgain, Goto, excuses
  <2>2. /\ ProcessesAreOwned' /\ KnownShellsRun'
        /\ sessions'[entry].process = None
    BY <2>1, StopOwns DEF OwnInv
  <2> QED
    BY <2>1, <2>2 DEF OwnInv, Opening, Starting, Closing
<1>2. CASE RestartNew
  <2>1. PICK s \in Session :
            /\ New(s)
            /\ sessions' = [sessions EXCEPT ![s] = [Unused EXCEPT !.status = "starting"]]
            /\ entry' = s
            /\ call' = [at |-> "save", type |-> "start", session |-> s]
    BY <1>2 DEF RestartNew, Goto
  <2>2. entry = None /\ UNCHANGED <<processes, orphans>>
    BY <1>2 DEF RestartNew, excuses
  <2>3. s \notin orphans /\ sessions'[s].process = None
        /\ \A r \in Session \ {s} : sessions'[r] = sessions[r]
    BY <2>1, Objects DEF New, Free, Unused
  <2>4. ProcessesAreOwned'
    BY <2>1, <2>2, <2>3, Objects DEF OwnInv, ProcessesAreOwned
  <2>5. KnownShellsRun'
    BY <2>3 DEF OwnInv, KnownShellsRun
  <2> QED
    BY <2>1, <2>3, <2>4, <2>5 DEF OwnInv, Opening, Starting, Closing
<1>3. CASE OpenNew
  <2>1. /\ entry = None /\ UNCHANGED <<sessions, entry, processes, orphans>>
        /\ call' = [at |-> "flush", type |-> "open", session |-> None]
    BY <1>3 DEF OpenNew, Goto, excuses
  <2> QED
    BY <2>1 DEF OwnInv, ProcessesAreOwned, KnownShellsRun, Opening, Starting, Closing
<1>4. CASE Clear
  <2>1. /\ UNCHANGED <<entry, processes, orphans>>
        /\ sessions' = [sessions EXCEPT ![entry].history = <<>>]
        /\ call' = [at |-> "save", type |-> "clear", session |-> entry]
    BY <1>4 DEF Clear, Goto, excuses
  <2>2. \A s \in Session : /\ sessions'[s].process = sessions[s].process
                           /\ sessions'[s].status = sessions[s].status
    BY <2>1 DEF TypeOK, Object
  <2>3. ProcessesAreOwned' /\ KnownShellsRun'
    BY <2>1, <2>2, Objects DEF OwnInv, ProcessesAreOwned, KnownShellsRun
  <2> QED
    BY <2>1, <2>3 DEF OwnInv, Opening, Starting, Closing
<1>5. ASSUME NEW type \in {"close", "delete"}, Close(type) PROVE OwnInv'
  <2>1. /\ UNCHANGED <<entry, orphans>>
        /\ call' = [at |-> "save", type |-> type, session |-> entry]
    BY <1>5 DEF Close, Goto, excuses
  <2>2. CASE entry = None
    <3>1. UNCHANGED <<sessions, processes>>
      BY <1>5, <2>2 DEF Close
    <3> QED
      BY <2>1, <2>2, <3>1
         DEF OwnInv, ProcessesAreOwned, KnownShellsRun, Opening, Starting, Closing
  <2>3. CASE entry # None
    <3>1. Stop(entry, sessions[entry].history)
      BY <1>5, <2>3 DEF Close
    <3>2. /\ ProcessesAreOwned' /\ KnownShellsRun'
          /\ sessions'[entry].process = None
      BY <2>1, <2>3, <3>1, StopOwns DEF OwnInv
    <3> QED
      BY <2>1, <3>2 DEF OwnInv, Opening, Starting, Closing
  <2> QED
    BY <2>2, <2>3
<1>6. CASE DeleteAll
  BY <1>6 DEF DeleteAll, OwnInv, ProcessesAreOwned, KnownShellsRun, Opening,
              Starting, Closing
<1> QED
  BY <1>1, <1>2, <1>3, <1>4, <1>5, <1>6

(* A step of the call under way keeps it.                                  *)
LEMMA ProceedOwns == ASSUME TypeOK, OwnInv, Proceed PROVE OwnInv'
<1>1. call # Idle
  BY DEF Proceed, Flushed, Read, Saved, SavedStart, SavedClear, SavedClose,
         SavedDelete, ReadFails, Spawned, SpawnFails, Idle
<1>2. CASE Flushed
  <2>1. /\ call.type = "open" /\ UNCHANGED <<sessions, entry, processes, orphans>>
        /\ call' = [at |-> "read", type |-> "open", session |-> None]
    BY <1>2 DEF Flushed, Goto, TypeOK, Call, Idle, excuses
  <2> QED
    BY <1>1, <2>1 DEF OwnInv, ProcessesAreOwned, KnownShellsRun, Opening,
                      Starting, Closing
<1>3. CASE Read
  <2>1. PICK s \in Session :
            /\ New(s)
            /\ sessions' = [sessions EXCEPT ![s] =
                  [status |-> "starting", process |-> None, history |-> Capped(file)]]
            /\ entry' = s
            /\ call' = [at |-> "spawn", type |-> "start", session |-> s]
    BY <1>3 DEF Read, Goto
  <2>2. call.type = "open" /\ UNCHANGED <<processes, orphans>>
    BY <1>3 DEF Read, TypeOK, Call, Idle, excuses
  <2>3. entry = None
    BY <1>1, <2>2 DEF OwnInv, Opening
  <2>4. s \notin orphans /\ sessions'[s].process = None
        /\ \A r \in Session \ {s} : sessions'[r] = sessions[r]
    BY <2>1, Objects DEF New, Free
  <2>5. ProcessesAreOwned'
    BY <2>1, <2>2, <2>3, <2>4, Objects DEF OwnInv, ProcessesAreOwned
  <2>6. KnownShellsRun'
    BY <2>4 DEF OwnInv, KnownShellsRun
  <2> QED
    BY <2>1, <2>4, <2>5, <2>6 DEF OwnInv, Opening, Starting, Closing
<1>4. CASE SavedStart
  <2>1. /\ call.type = "start" /\ UNCHANGED <<entry, processes, orphans>>
        /\ sessions' = [sessions EXCEPT ![call.session].status = "starting"]
        /\ call' = [at |-> "spawn", type |-> "start", session |-> call.session]
    BY <1>4 DEF SavedStart, Saved, Goto, excuses
  <2>2. \A s \in Session : /\ sessions'[s].process = sessions[s].process
                           /\ s # call.session => sessions'[s] = sessions[s]
    BY <2>1 DEF TypeOK, Object
  <2>3. /\ call.session \in Session /\ call.session \in orphans \cup {entry}
        /\ sessions[call.session].process = None
    BY <1>1, <2>1, Objects DEF OwnInv, Starting
  <2>4. ProcessesAreOwned' /\ KnownShellsRun'
    BY <2>1, <2>2, <2>3, Objects DEF OwnInv, ProcessesAreOwned, KnownShellsRun
  <2> QED
    BY <2>1, <2>2, <2>3, <2>4 DEF OwnInv, Opening, Starting, Closing
<1>5. CASE SavedClear
  BY <1>5 DEF SavedClear, Return, OwnInv, ProcessesAreOwned, KnownShellsRun,
              Opening, Starting, Closing, excuses
<1>6. CASE SavedClose \/ SavedDelete
  <2>1. /\ call.type \in {"close", "delete"} /\ entry' = None /\ call' = Idle
        /\ UNCHANGED <<sessions, processes, orphans>>
    BY <1>6 DEF SavedClose, SavedDelete, Saved, Return, excuses
  <2>2. entry # None => sessions[entry].process = None
    BY <1>1, <2>1 DEF OwnInv, Closing
  <2>3. ProcessesAreOwned'
    BY <2>1, <2>2, Objects DEF OwnInv, ProcessesAreOwned
  <2> QED
    BY <2>1, <2>3 DEF OwnInv, KnownShellsRun, Opening, Starting, Closing
<1>7. CASE Spawned
  <2>1. PICK p \in Process :
            /\ processes[p] = "none"
            /\ processes' = [processes EXCEPT ![p] = "alive"]
            /\ sessions' = [sessions EXCEPT ![call.session].status = "running",
                                            ![call.session].process = p]
    BY <1>7 DEF Spawned
  <2>2. call.type = "start" /\ call' = Idle /\ UNCHANGED <<entry, orphans>>
    BY <1>7 DEF Spawned, Return, TypeOK, Call, Idle
  <2>3. /\ call.session \in Session /\ call.session \in orphans \cup {entry}
        /\ sessions[call.session].process = None
    BY <1>1, <2>2, Objects DEF OwnInv, Starting
  <2>4. /\ sessions'[call.session].process = p
        /\ sessions'[call.session].status = "running"
        /\ \A s \in Session \ {call.session} : sessions'[s] = sessions[s]
    BY <2>1, <2>3 DEF TypeOK, Object
  <2>5. ProcessesAreOwned'
    <3> SUFFICES ASSUME NEW q \in Process, processes'[q] = "alive"
                 PROVE  \E s \in orphans \cup ({entry} \ {None}) :
                           sessions'[s].process = q
      BY <2>2 DEF ProcessesAreOwned
    <3>1. CASE q = p
      BY <2>3, <2>4, <3>1, Objects
    <3>2. CASE q # p
      <4>1. processes[q] = "alive"
        BY <2>1, <3>2, Objects
      <4>2. PICK s \in orphans \cup ({entry} \ {None}) : sessions[s].process = q
        BY <4>1 DEF OwnInv, ProcessesAreOwned
      <4> QED
        BY <2>3, <2>4, <4>2, Objects
    <3> QED
      BY <3>1, <3>2
  <2>6. KnownShellsRun'
    BY <2>4 DEF OwnInv, KnownShellsRun
  <2> QED
    BY <2>2, <2>5, <2>6 DEF OwnInv, Opening, Starting, Closing
<1>8. CASE SpawnFails
  <2>1. /\ call.type = "start" /\ call' = Idle /\ UNCHANGED <<entry, processes>>
        /\ sessions' = [sessions EXCEPT ![call.session].status = "error"]
        /\ orphans' = orphans \ {call.session}
    BY <1>8 DEF SpawnFails, Return, TypeOK, Call, Idle
  <2>2. \A s \in Session : /\ sessions'[s].process = sessions[s].process
                           /\ s # call.session => sessions'[s] = sessions[s]
    BY <2>1 DEF TypeOK, Object
  <2>3. /\ call.session \in Session
        /\ sessions[call.session].process = None
    BY <1>1, <2>1, Objects DEF OwnInv, Starting
  <2>4. ProcessesAreOwned' /\ KnownShellsRun'
    BY <2>1, <2>2, <2>3, Objects DEF OwnInv, ProcessesAreOwned, KnownShellsRun
  <2> QED
    BY <2>1, <2>4 DEF OwnInv, Opening, Starting, Closing
<1>9. CASE ReadFails
  BY <1>9 DEF ReadFails, Return, OwnInv, ProcessesAreOwned, KnownShellsRun,
              Opening, Starting, Closing, excuses
<1> QED
  BY <1>2, <1>3, <1>4, <1>5, <1>6, <1>7, <1>8, <1>9 DEF Proceed

(* What the shells do keeps it.                                            *)
LEMMA ShellOwns ==
    ASSUME TypeOK, OwnInv,
           \/ \E s \in Session : Output(s) \/ Exit(s)
           \/ \E p \in Process : Kill(p)
    PROVE  OwnInv'
<1>1. ASSUME NEW s \in Session, Output(s) PROVE OwnInv'
  <2>1. UNCHANGED <<entry, call, processes, orphans>>
    BY <1>1 DEF Output
  <2>2. \A r \in Session : /\ sessions'[r].process = sessions[r].process
                           /\ sessions'[r].status = sessions[r].status
    BY <1>1 DEF Output, TypeOK, Object
  <2> QED
    BY <2>1, <2>2, Objects DEF OwnInv, ProcessesAreOwned, KnownShellsRun,
                               Opening, Starting, Closing
<1>2. ASSUME NEW s \in Session, Exit(s) PROVE OwnInv'
  <2>1. /\ UNCHANGED <<entry, call, orphans>>
        /\ \A r \in Session \ {s} : sessions'[r] = sessions[r]
        /\ sessions'[s].process = None
    BY <1>2 DEF Exit, Stopped, TypeOK, Object, excuses
  <2>2. \A p \in Process :
           processes'[p] = IF p = sessions[s].process THEN "none" ELSE processes[p]
    BY <1>2 DEF Exit, TypeOK
  <2>3. ProcessesAreOwned'
    <3> SUFFICES ASSUME NEW p \in Process, processes'[p] = "alive"
                 PROVE  \E r \in orphans \cup ({entry} \ {None}) :
                           sessions'[r].process = p
      BY <2>1 DEF ProcessesAreOwned
    <3>1. processes[p] = "alive" /\ sessions[s].process # p
      BY <2>2
    <3>2. PICK r \in orphans \cup ({entry} \ {None}) : sessions[r].process = p
      BY <3>1 DEF OwnInv, ProcessesAreOwned
    <3> QED
      BY <2>1, <3>1, <3>2, Objects
  <2>4. KnownShellsRun'
    BY <2>1 DEF OwnInv, KnownShellsRun
  <2>5. (Opening /\ Starting /\ Closing)'
    BY <2>1, Objects DEF OwnInv, Opening, Starting, Closing
  <2> QED
    BY <2>3, <2>4, <2>5 DEF OwnInv
<1>3. ASSUME NEW p \in Process, Kill(p) PROVE OwnInv'
  BY <1>3, Objects DEF Kill, OwnInv, ProcessesAreOwned, KnownShellsRun, Opening,
                       Starting, Closing, excuses
<1> QED
  BY <1>1, <1>2, <1>3

(* The table forgets only terminals without a shell.                       *)
LEMMA WorldOwns ==
    ASSUME TypeOK, OwnInv, Write \/ Written \/ Evict \/ Down
    PROVE  OwnInv'
<1>1. CASE Write \/ Written
  BY <1>1 DEF Write, Written, OwnInv, ProcessesAreOwned, KnownShellsRun, Opening,
              Starting, Closing, excuses
<1>2. CASE Evict
  <2>1. /\ entry # None /\ sessions[entry].status # "running" /\ entry' = None
        /\ orphans' = IF call # Idle /\ call.type = "start"
                      THEN orphans \cup {entry} ELSE orphans
        /\ UNCHANGED <<sessions, call, processes>>
    BY <1>2 DEF Evict
  <2>2. sessions[entry].process = None
    BY <2>1, Objects DEF OwnInv, KnownShellsRun
  <2>3. ProcessesAreOwned'
    BY <2>1, <2>2, Objects DEF OwnInv, ProcessesAreOwned
  <2> QED
    BY <2>1, <2>3 DEF OwnInv, KnownShellsRun, Opening, Starting, Closing
<1>3. CASE Down
  BY <1>3 DEF Down, OwnInv, ProcessesAreOwned, KnownShellsRun, Opening, Starting,
              Closing, Idle, Unused
<1> QED
  BY <1>1, <1>2, <1>3

LEMMA OwnStep == TypeOK /\ OwnInv /\ [Next]_vars => OwnInv'
<1> SUFFICES ASSUME TypeOK, OwnInv, [Next]_vars PROVE OwnInv'
  OBVIOUS
<1>1. CASE UNCHANGED vars
  BY <1>1 DEF vars, excuses, OwnInv, ProcessesAreOwned, KnownShellsRun, Opening,
              Starting, Closing
<1>2. CASE Next
  BY <1>2, BeginOwns, ProceedOwns, ShellOwns, WorldOwns DEF Next
<1> QED
  BY <1>1, <1>2

(* Every shell that is not being killed is one a call can stop, but for    *)
(* those of terminals that were evicted while they were started.           *)
THEOREM EveryShellIsOwned == Spec => []ProcessesAreOwned
<1>1. TypeOK /\ OwnInv /\ [Next]_vars => (TypeOK /\ OwnInv)'
  BY TypeStep, OwnStep
<1>2. OwnInv => ProcessesAreOwned
  BY DEF OwnInv
<1> QED
  BY <1>1, <1>2, InitTypes, OwnInit, PTL DEF Spec

-----------------------------------------------------------------------------
(* What is printed is saved, and shown.                                    *)

Short(text) == Len(text) <= HistoryLimit

(* A text that is cut is no longer than the limit; a short one is not cut; *)
(* and what is cut off before a line is appended would be cut off after.   *)
LEMMA CutIsShort ==
    ASSUME NEW text \in Text
    PROVE  Short(Capped(text)) /\ (Short(text) => Capped(text) = text)
<1>1. Len(text) \in Nat /\ HistoryLimit \in Nat
  BY TerminalAssumption, LenProperties DEF Text
<1>2. CASE Short(text)
  BY <1>2 DEF Short, Capped
<1>3. CASE ~ Short(text)
  <2> DEFINE from == Len(text) - HistoryLimit + 1
  <2>1. from \in 1..(Len(text) + 1) /\ Capped(text) = SubSeq(text, from, Len(text))
    BY <1>1, <1>3 DEF Short, Capped
  <2>2. \A i \in from..Len(text) : text[i] \in Line
    BY <1>1, <2>1, ElementOfSeq DEF Text
  <2>3. Len(SubSeq(text, from, Len(text)))
           = IF from <= Len(text) THEN Len(text) - from + 1 ELSE 0
    BY <1>1, <2>1, <2>2, SubSeqProperties
  <2>4. Len(Capped(text)) = HistoryLimit
    BY <1>1, <2>1, <2>3
  <2> QED
    BY <1>1, <1>3, <2>4 DEF Short
<1> QED
  BY <1>2, <1>3

LEMMA CutThenAppend ==
    ASSUME NEW text \in Text, NEW x \in Line
    PROVE  Capped(Append(Capped(text), x)) = Capped(Append(text, x))
<1> DEFINE n == Len(text)
           h == HistoryLimit
           cut == Capped(text)
           a == Append(cut, x)
           b == Append(text, x)
<1>1. n \in Nat /\ h \in Nat
  BY TerminalAssumption, LenProperties DEF Text
<1>2. CASE Short(text)
  BY <1>2, CutIsShort
<1>3. CASE ~ Short(text)
  <2>1. n - h + 1 \in 1..(n + 1) /\ cut = SubSeq(text, n - h + 1, n)
    BY <1>1, <1>3 DEF Short, Capped
  <2>2. \A i \in (n - h + 1)..n : text[i] \in Line
    BY <1>1, <2>1, ElementOfSeq DEF Text
  <2>3. /\ cut \in Seq(Line) /\ Len(cut) = h
        /\ \A i \in 1..h : cut[i] = text[n - h + i]
    <3>1. /\ SubSeq(text, n - h + 1, n) \in Seq(Line)
          /\ Len(SubSeq(text, n - h + 1, n))
                = IF n - h + 1 <= n THEN n - (n - h + 1) + 1 ELSE 0
          /\ \A i \in 1..(n - (n - h + 1) + 1) :
                SubSeq(text, n - h + 1, n)[i] = text[n - h + 1 + i - 1]
      BY <1>1, <2>1, <2>2, SubSeqProperties
    <3> HIDE DEF n, h
    <3> QED
      BY <1>1, <2>1, <3>1
  <2> HIDE DEF cut
  <2>4. /\ a \in Seq(Line) /\ Len(a) = h + 1 /\ a[h + 1] = x
        /\ \A i \in 1..h : a[i] = cut[i]
    BY <2>3, AppendProperties
  <2>5. /\ b \in Seq(Line) /\ Len(b) = n + 1 /\ b[n + 1] = x
        /\ \A i \in 1..n : b[i] = text[i]
    BY AppendProperties DEF Text
  <2> HIDE DEF a, b, n, h
  <2>6. /\ \A i \in 2..(h + 1) : a[i] \in Line
        /\ \A i \in (n + 1 - h + 1)..(n + 1) : b[i] \in Line
    <3>1. \A i \in 1..(h + 1) : a[i] \in Line
      BY <2>4, ElementOfSeq
    <3>2. \A i \in 1..(n + 1) : b[i] \in Line
      BY <2>5, ElementOfSeq
    <3> QED
      BY <1>1, <2>1, <3>1, <3>2
  <2>7. /\ SubSeq(a, 2, h + 1) \in Seq(Line)
        /\ Len(SubSeq(a, 2, h + 1)) = h
        /\ \A i \in 1..h : SubSeq(a, 2, h + 1)[i] = a[i + 1]
    <3>1. /\ SubSeq(a, 2, h + 1) \in Seq(Line)
          /\ Len(SubSeq(a, 2, h + 1)) = IF 2 <= h + 1 THEN h + 1 - 2 + 1 ELSE 0
          /\ \A i \in 1..(h + 1 - 2 + 1) : SubSeq(a, 2, h + 1)[i] = a[2 + i - 1]
      BY <1>1, <2>6, SubSeqProperties
    <3> QED
      BY <1>1, <3>1
  <2>8. /\ SubSeq(b, n + 1 - h + 1, n + 1) \in Seq(Line)
        /\ Len(SubSeq(b, n + 1 - h + 1, n + 1)) = h
        /\ \A i \in 1..h : SubSeq(b, n + 1 - h + 1, n + 1)[i] = b[n - h + 1 + i]
    <3>1. /\ SubSeq(b, n + 1 - h + 1, n + 1) \in Seq(Line)
          /\ Len(SubSeq(b, n + 1 - h + 1, n + 1))
                = IF n + 1 - h + 1 <= n + 1 THEN n + 1 - (n + 1 - h + 1) + 1 ELSE 0
          /\ \A i \in 1..(n + 1 - (n + 1 - h + 1) + 1) :
                SubSeq(b, n + 1 - h + 1, n + 1)[i] = b[n + 1 - h + 1 + i - 1]
      BY <1>1, <2>6, SubSeqProperties
    <3> QED
      BY <1>1, <3>1
  <2>9. ASSUME NEW i \in 1..h PROVE a[i + 1] = b[n - h + 1 + i]
    <3>1. CASE i = h
      <4>1. n - h + 1 + i = n + 1
        BY <1>1, <3>1
      <4> QED
        BY <2>4, <2>5, <3>1, <4>1
    <3>2. CASE i # h
      <4>1. /\ i + 1 \in 1..h /\ n - h + 1 + i \in 1..n
            /\ n - h + (i + 1) = n - h + 1 + i
        BY <1>1, <2>1, <3>2
      <4> QED
        BY <2>3, <2>4, <2>5, <4>1
    <3> QED
      BY <3>1, <3>2
  <2>10. SubSeq(a, 2, h + 1) = SubSeq(b, n + 1 - h + 1, n + 1)
    BY <2>7, <2>8, <2>9, SeqEqual
  <2>11. Capped(a) = SubSeq(a, 2, h + 1)
    <3>1. Len(a) - h + 1 = 2 /\ ~ (Len(a) <= h)
      BY <1>1, <2>4
    <3> QED
      BY <2>4, <3>1 DEF Capped, h
  <2>12. Capped(b) = SubSeq(b, n + 1 - h + 1, n + 1)
    <3>1. Len(b) - h + 1 = n + 1 - h + 1 /\ ~ (Len(b) <= h)
      BY <1>1, <1>3, <2>5 DEF Short, n, h
    <3> QED
      BY <2>5, <3>1 DEF Capped, h
  <2> QED
    BY <2>10, <2>11, <2>12 DEF a, b, cut
<1> QED
  BY <1>2, <1>3

(* The three of them, for all texts.                                       *)
LEMMA CutFacts ==
    /\ <<>> \in Text /\ Short(<<>>) /\ Capped(<<>>) = <<>>
    /\ \A text \in Text : /\ Capped(text) \in Text /\ Short(Capped(text))
                          /\ Short(text) => Capped(text) = text
    /\ \A text \in Text, x \in Line :
          /\ Append(text, x) \in Text
          /\ Capped(Append(Capped(text), x)) = Capped(Append(text, x))
<1>1. <<>> \in Text /\ Short(<<>>)
  BY TerminalAssumption, EmptySeq DEF Text, Short
<1>2. \A text \in Text, x \in Line : Append(text, x) \in Text
  BY AppendProperties DEF Text
<1> QED
  BY <1>1, <1>2, CappedType, CutIsShort, CutThenAppend

(* Whatever is kept, waits or is written is within the limit, and at most  *)
(* one text waits.                                                         *)
ShortQueue(queue) ==
    queue = <<>> \/ \E text \in Text : Short(text) /\ queue = <<text>>

TextsAreShort ==
    /\ Short(file) /\ ShortQueue(request) /\ ShortQueue(writing)
    /\ \A s \in Session : Short(sessions[s].history)

(* A shell prints for the terminal in the table, or for an evicted one; a  *)
(* terminal that runs has a shell; and an evicted one is not in the table, *)
(* nor is there another while it is started.                               *)
Printers ==
    \A s \in Session : sessions[s].process # None => s \in orphans \cup {entry}
Runners ==
    \A s \in Session : sessions[s].status = "running" => sessions[s].process # None
Apart ==
    /\ entry \notin orphans
    /\ (call # Idle /\ call.type = "start") =>
          call.session = entry \/ (entry = None /\ call.session \in orphans)

(* No evicted terminal has a shell: there is none, or it is being started. *)
Starter == IF call # Idle /\ call.type = "start" THEN {call.session} ELSE {}
Lone == orphans \subseteq Starter

(* Then the last text that will be written, and the session's, are what    *)
(* was printed, and nothing comes between the flush and the read;          *)
Kept ==
    /\ entry # None => sessions[entry].history = Capped(transcript)
    /\ request # <<>> => request = <<Capped(transcript)>>
    /\ request = <<>> /\ writing # <<>> => writing = <<Capped(transcript)>>
    /\ Drained /\ ~ unsaved => file = Capped(transcript)
    /\ call.at = "read" => Drained

(* and a client shows the history, or is about to be told that it is gone. *)
Shown ==
    (entry # None /\ ~ overtaken /\ sessions[entry].status = "running") =>
        sessions[entry].history =
            IF call # Idle /\ call.type = "clear" THEN <<>> ELSE Capped(copy)

PrintInv ==
    /\ TextsAreShort /\ Printers /\ Runners /\ Apart
    /\ Lone => Kept /\ Shown

LEMMA PrintInit == Init => PrintInv
<1> SUFFICES ASSUME Init PROVE PrintInv
  OBVIOUS
<1>1. /\ \A s \in Session : /\ sessions[s].process = None
                            /\ sessions[s].history = <<>>
                            /\ sessions[s].status = "unused"
      /\ entry = None /\ call = Idle /\ orphans = {}
      /\ request = <<>> /\ writing = <<>> /\ file = <<>> /\ transcript = <<>>
  BY DEF Init, Unused
<1>2. TextsAreShort /\ Printers /\ Runners /\ Apart
  BY <1>1, CutFacts, TerminalAssumption
     DEF TextsAreShort, ShortQueue, Printers, Runners, Apart
<1>3. Kept /\ Shown
  BY <1>1, CutFacts DEF Kept, Shown, Idle
<1> QED
  BY <1>2, <1>3 DEF PrintInv

(* The parts of the state, as the proofs below use them.                   *)
LEMMA Parts ==
    ASSUME TypeOK
    PROVE  /\ None \notin Session /\ entry \in Session \cup {None}
           /\ orphans \subseteq Session
           /\ file \in Text /\ copy \in Text /\ transcript \in Text
           /\ \A s \in Session : /\ sessions[s].history \in Text
                                 /\ sessions[s] \in Object
           /\ DOMAIN sessions = Session
           /\ call # Idle => call.session \in Session \cup {None}
           /\ call # Idle /\ call.type = "start" => call.session \in Session
<1>1. \A s \in Session : sessions[s] \in Object /\ sessions[s].history \in Text
  BY DEF TypeOK, Object
<1> QED
  BY <1>1, Objects DEF TypeOK

(* What stopping a terminal does to it.                                    *)
LEMMA StopEffect ==
    ASSUME TypeOK, Runners, NEW s \in Session, NEW h, Stop(s, h)
    PROVE  /\ sessions'[s].history = h /\ sessions'[s].process = None
           /\ sessions'[s].status # "running"
           /\ \A r \in Session \ {s} : sessions'[r] = sessions[r]
           /\ request' = <<h>>
<1>1. sessions[s] \in Object /\ DOMAIN sessions = Session
  BY Parts
<1>2. sessions' = [sessions EXCEPT ![s] =
                      [Stopped(sessions[s]) EXCEPT !.history = h]]
  BY DEF Stop
<1>3. CASE sessions[s].process = None
  BY <1>1, <1>2, <1>3 DEF Runners, Stopped, Object, Stop, Enqueue
<1>4. CASE sessions[s].process # None
  BY <1>1, <1>2, <1>4 DEF Stopped, Object, Stop, Enqueue
<1> QED
  BY <1>3, <1>4

(* A call that begins keeps the invariant.                                 *)
LEMMA BeginPrints ==
    ASSUME TypeOK, PrintInv,
           \/ StartAgain \/ RestartNew \/ OpenNew \/ Clear
           \/ Close("close") \/ Close("delete") \/ DeleteAll
    PROVE  PrintInv'
<1> USE DEF PrintInv
<1>1. CASE StartAgain
  <2>1. /\ entry \in Session /\ Stop(entry, <<>>) /\ transcript' = <<>>
        /\ call' = [at |-> "save", type |-> "start", session |-> entry]
        /\ UNCHANGED <<entry, writing, file, copy, orphans, unsaved, overtaken>>
    BY <1>1, Parts DEF StartAgain, Goto, excuses
  <2>2. /\ sessions'[entry].history = <<>> /\ sessions'[entry].process = None
        /\ sessions'[entry].status # "running"
        /\ \A r \in Session \ {entry} : sessions'[r] = sessions[r]
        /\ request' = <<<<>>>>
    BY <2>1, StopEffect
  <2>3. TextsAreShort'
    BY <2>1, <2>2, CutFacts DEF TextsAreShort, ShortQueue
  <2>4. Printers' /\ Runners' /\ Apart'
    BY <2>1, <2>2 DEF Printers, Runners, Apart
  <2>5. Kept' /\ Shown'
    BY <2>1, <2>2, CutFacts DEF Kept, Shown, Drained
  <2> QED
    BY <2>3, <2>4, <2>5
<1>2. CASE RestartNew
  <2>1. PICK s \in Session :
            /\ New(s)
            /\ sessions' = [sessions EXCEPT ![s] = [Unused EXCEPT !.status = "starting"]]
            /\ entry' = s
            /\ call' = [at |-> "save", type |-> "start", session |-> s]
    BY <1>2 DEF RestartNew, Goto
  <2>2. /\ transcript' = <<>> /\ request' = <<<<>>>> /\ entry = None
        /\ UNCHANGED <<writing, file, copy, orphans, unsaved, overtaken>>
    BY <1>2 DEF RestartNew, Enqueue, excuses
  <2>3. /\ sessions'[s].history = <<>> /\ sessions'[s].process = None
        /\ sessions'[s].status = "starting" /\ s \notin orphans
        /\ \A r \in Session \ {s} : sessions'[r] = sessions[r]
    BY <2>1, Parts DEF Unused, New, Free
  <2>4. TextsAreShort'
    BY <2>2, <2>3, CutFacts DEF TextsAreShort, ShortQueue
  <2>5. Printers' /\ Runners' /\ Apart'
    BY <2>1, <2>2, <2>3, Parts DEF Printers, Runners, Apart
  <2>6. Kept' /\ Shown'
    BY <2>1, <2>2, <2>3, CutFacts DEF Kept, Shown, Drained
  <2> QED
    BY <2>4, <2>5, <2>6
<1>3. CASE OpenNew
  <2>1. /\ call = Idle /\ entry = None
        /\ call' = [at |-> "flush", type |-> "open", session |-> None]
        /\ UNCHANGED <<sessions, entry, request, writing, file, copy, transcript,
                       orphans, unsaved, overtaken>>
    BY <1>3 DEF OpenNew, Begin, Goto, worker, excuses
  <2>2. TextsAreShort' /\ Printers' /\ Runners' /\ Apart'
    BY <2>1 DEF TextsAreShort, Printers, Runners, Apart
  <2>3. Lone' => Lone
    BY <2>1 DEF Lone, Starter
  <2>4. Lone' => Kept' /\ Shown'
    BY <2>1, <2>3 DEF Kept, Shown, Drained
  <2> QED
    BY <2>2, <2>4
<1>4. CASE Clear
  <2>1. /\ call = Idle /\ entry \in Session /\ transcript' = <<>>
        /\ sessions' = [sessions EXCEPT ![entry].history = <<>>]
        /\ request' = <<<<>>>>
        /\ call' = [at |-> "save", type |-> "clear", session |-> entry]
        /\ UNCHANGED <<entry, writing, file, copy, orphans, unsaved, overtaken>>
    BY <1>4, Parts DEF Clear, Begin, Enqueue, Goto, excuses
  <2>2. /\ sessions'[entry].history = <<>>
        /\ \A r \in Session \ {entry} : sessions'[r] = sessions[r]
        /\ \A r \in Session : /\ sessions'[r].process = sessions[r].process
                              /\ sessions'[r].status = sessions[r].status
    BY <2>1, Parts DEF Object
  <2>3. TextsAreShort'
    BY <2>1, <2>2, CutFacts DEF TextsAreShort, ShortQueue
  <2>4. Printers' /\ Runners' /\ Apart'
    BY <2>1, <2>2 DEF Printers, Runners, Apart
  <2>5. Kept' /\ Shown'
    BY <2>1, <2>2, CutFacts DEF Kept, Shown, Drained, Idle
  <2> QED
    BY <2>3, <2>4, <2>5
<1>5. ASSUME NEW type \in {"close", "delete"}, Close(type) PROVE PrintInv'
  <2>1. /\ call = Idle
        /\ call' = [at |-> "save", type |-> type, session |-> entry]
        /\ UNCHANGED <<entry, writing, file, copy, transcript, orphans, unsaved,
                       overtaken>>
    BY <1>5 DEF Close, Begin, Goto, excuses
  <2>2. Lone' => Lone
    BY <2>1 DEF Lone, Starter
  <2>3. CASE entry = None
    <3>1. UNCHANGED <<sessions, request>>
      BY <1>5, <2>3 DEF Close
    <3>2. TextsAreShort' /\ Printers' /\ Runners' /\ Apart'
      BY <2>1, <3>1 DEF TextsAreShort, Printers, Runners, Apart
    <3>3. Lone' => Kept' /\ Shown'
      BY <2>1, <2>2, <2>3, <3>1 DEF Kept, Shown, Drained
    <3> QED
      BY <3>2, <3>3
  <2>4. CASE entry # None
    <3>1. entry \in Session /\ Stop(entry, sessions[entry].history)
      BY <1>5, <2>4, Parts DEF Close
    <3>2. /\ sessions'[entry].history = sessions[entry].history
          /\ sessions'[entry].process = None
          /\ sessions'[entry].status # "running"
          /\ \A r \in Session \ {entry} : sessions'[r] = sessions[r]
          /\ request' = <<sessions[entry].history>>
      BY <3>1, StopEffect
    <3>3. TextsAreShort'
      BY <2>1, <3>1, <3>2, Parts DEF TextsAreShort, ShortQueue
    <3>4. Printers' /\ Runners' /\ Apart'
      BY <2>1, <3>1, <3>2 DEF Printers, Runners, Apart
    <3>5. Lone' => Kept' /\ Shown'
      BY <2>1, <2>2, <2>4, <3>2 DEF Kept, Shown, Drained
    <3> QED
      BY <3>3, <3>4, <3>5
  <2> QED
    BY <2>3, <2>4
<1>6. CASE DeleteAll
  <2>1. /\ entry = None /\ file' \in {file, <<>>}
        /\ IF Drained /\ file' = <<>> THEN transcript' = <<>>
           ELSE UNCHANGED <<transcript, unsaved>>
        /\ UNCHANGED <<sessions, entry, call, request, writing, copy, orphans,
                       overtaken>>
    BY <1>6 DEF DeleteAll, Removal, worker
  <2>2. TextsAreShort' /\ Printers' /\ Runners' /\ Apart'
    BY <2>1, CutFacts DEF TextsAreShort, Printers, Runners, Apart
  <2>3. Lone' => Lone
    BY <2>1 DEF Lone, Starter
  <2>4. Lone' => Kept' /\ Shown'
    BY <2>1, <2>3, CutFacts DEF Kept, Shown, Drained
  <2> QED
    BY <2>2, <2>4
<1> QED
  BY <1>1, <1>2, <1>3, <1>4, <1>5, <1>6

(* A step of the call under way keeps it.                                  *)
LEMMA ProceedPrints == ASSUME TypeOK, OwnInv, PrintInv, Proceed PROVE PrintInv'
<1> USE DEF PrintInv
<1>1. call # Idle
  BY DEF Proceed, Flushed, Read, Saved, SavedStart, SavedClear, SavedClose,
         SavedDelete, ReadFails, Spawned, SpawnFails, Idle
<1>2. CASE Flushed
  <2>1. /\ call.type = "open" /\ Drained
        /\ call' = [at |-> "read", type |-> "open", session |-> None]
        /\ UNCHANGED <<sessions, entry, request, writing, file, copy, transcript,
                       orphans, unsaved, overtaken>>
    BY <1>2 DEF Flushed, Goto, TypeOK, Call, Idle, worker, excuses
  <2>2. TextsAreShort' /\ Printers' /\ Runners' /\ Apart'
    BY <2>1 DEF TextsAreShort, Printers, Runners, Apart
  <2>3. Lone' => Lone
    BY <2>1 DEF Lone, Starter
  <2>4. Lone' => Kept' /\ Shown'
    BY <2>1, <2>3 DEF Kept, Shown, Drained
  <2> QED
    BY <2>2, <2>4
<1>3. CASE Read
  <2>1. PICK s \in Session :
            /\ New(s)
            /\ sessions' = [sessions EXCEPT ![s] =
                  [status |-> "starting", process |-> None, history |-> Capped(file)]]
            /\ entry' = s
            /\ call' = [at |-> "spawn", type |-> "start", session |-> s]
    BY <1>3 DEF Read, Goto
  <2>2. /\ call.at = "read" /\ call.type = "open"
        /\ file' = Capped(file)
        /\ transcript' = IF unsaved THEN file ELSE transcript
        /\ UNCHANGED <<request, writing, copy, orphans, unsaved, overtaken>>
    BY <1>3 DEF Read, TypeOK, Call, Idle, worker, excuses
  <2>3. /\ sessions'[s].history = Capped(file) /\ sessions'[s].process = None
        /\ sessions'[s].status = "starting" /\ s \notin orphans
        /\ \A r \in Session \ {s} : sessions'[r] = sessions[r]
    BY <2>1, Parts DEF New, Free
  <2>4. entry = None
    BY <1>1, <2>2 DEF OwnInv, Opening
  <2>5. TextsAreShort'
    BY <2>2, <2>3, CutFacts, Parts DEF TextsAreShort, ShortQueue
  <2>6. Printers' /\ Runners' /\ Apart'
    BY <2>1, <2>2, <2>3, <2>4, Parts DEF Printers, Runners, Apart
  <2>7. Lone' => Lone
    BY <2>1, <2>2, <2>3 DEF Lone, Starter
  <2>8. Lone' => Kept'
    <3>1. Capped(file) = file /\ file \in Text
      BY Parts, CutFacts DEF TextsAreShort
    <3>2. Lone => Drained /\ (~ unsaved => file = Capped(transcript))
      BY <2>2 DEF Kept
    <3>3. Lone => file = Capped(transcript')
      BY <2>2, <3>1, <3>2
    <3> QED
      BY <2>1, <2>2, <2>3, <2>7, <3>1, <3>2, <3>3 DEF Kept, Drained
  <2>9. Shown'
    BY <2>1, <2>3 DEF Shown
  <2> QED
    BY <2>5, <2>6, <2>8, <2>9
<1>4. CASE SavedStart
  <2>1. /\ call.type = "start"
        /\ sessions' = [sessions EXCEPT ![call.session].status = "starting"]
        /\ call' = [at |-> "spawn", type |-> "start", session |-> call.session]
        /\ UNCHANGED <<entry, request, writing, file, copy, transcript, orphans,
                       unsaved, overtaken>>
    BY <1>4 DEF SavedStart, Saved, Goto, worker, excuses
  <2>2. /\ \A r \in Session : /\ sessions'[r].process = sessions[r].process
                              /\ sessions'[r].history = sessions[r].history
                              /\ r # call.session => sessions'[r] = sessions[r]
        /\ sessions'[call.session].status = "starting"
        /\ call.session \in Session
    BY <1>1, <2>1, Parts DEF Object
  <2>3. TextsAreShort' /\ Printers' /\ Runners' /\ Apart'
    BY <1>1, <2>1, <2>2, Parts DEF TextsAreShort, Printers, Runners, Apart, Idle
  <2>4. Lone' => Lone
    BY <1>1, <2>1 DEF Lone, Starter
  <2>5. Lone' => Kept' /\ Shown'
    <3>1. call.session = entry \/ entry = None
      BY <1>1, <2>1 DEF Apart
    <3> QED
      BY <2>1, <2>2, <2>4, <3>1, Parts DEF Kept, Shown, Drained
  <2> QED
    BY <2>3, <2>5
<1>5. CASE SavedClear
  <2>1. /\ call.type = "clear" /\ call' = Idle /\ copy' = <<>>
        /\ UNCHANGED <<sessions, entry, request, writing, file, transcript,
                       orphans, unsaved, overtaken>>
    BY <1>5 DEF SavedClear, Saved, Return, worker, excuses
  <2>2. TextsAreShort' /\ Printers' /\ Runners' /\ Apart'
    BY <2>1 DEF TextsAreShort, Printers, Runners, Apart
  <2>3. Lone' => Lone
    BY <2>1 DEF Lone, Starter
  <2>4. Lone' => Kept' /\ Shown'
    BY <1>1, <2>1, <2>3, CutFacts DEF Kept, Shown, Drained, Idle
  <2> QED
    BY <2>2, <2>4
<1>6. CASE SavedClose \/ SavedDelete
  <2>1. /\ call.type \in {"close", "delete"} /\ entry' = None /\ call' = Idle
        /\ Drained
        /\ UNCHANGED <<sessions, request, writing, orphans>>
        /\ \/ UNCHANGED <<file, transcript, unsaved>>
           \/ file' = <<>> /\ transcript' = <<>>
    BY <1>6 DEF SavedClose, SavedDelete, Removal, Saved, Return, worker, excuses
  <2>2. entry # None => sessions[entry].process = None
    BY <1>1, <2>1 DEF OwnInv, Closing
  <2>3. TextsAreShort'
    BY <2>1, CutFacts DEF TextsAreShort
  <2>4. Printers' /\ Runners' /\ Apart'
    BY <2>1, <2>2, Parts DEF Printers, Runners, Apart
  <2>5. Lone' => Lone
    BY <2>1 DEF Lone, Starter
  <2>6. Lone' => Kept' /\ Shown'
    BY <2>1, <2>5, CutFacts DEF Kept, Shown, Drained, Idle
  <2> QED
    BY <2>3, <2>4, <2>6
<1>7. CASE Spawned
  <2>1. PICK p \in Process :
            sessions' = [sessions EXCEPT ![call.session].status = "running",
                                         ![call.session].process = p]
    BY <1>7 DEF Spawned
  <2>2. /\ call.type = "start" /\ call' = Idle
        /\ copy' = sessions[call.session].history
        /\ UNCHANGED <<entry, request, writing, file, transcript, orphans, unsaved>>
    BY <1>7 DEF Spawned, Return, TypeOK, Call, Idle, worker
  <2>3. /\ call.session \in Session
        /\ call.session = entry \/ (entry = None /\ call.session \in orphans)
    BY <1>1, <2>2, Parts DEF Apart
  <2>4. /\ sessions'[call.session].process = p
        /\ sessions'[call.session].history = sessions[call.session].history
        /\ \A r \in Session \ {call.session} : sessions'[r] = sessions[r]
    BY <2>1, <2>3, Parts DEF Object
  <2>5. p # None
    BY Objects
  <2>6. TextsAreShort' /\ Apart'
    BY <2>2, <2>4 DEF TextsAreShort, Apart
  <2>7. Printers' /\ Runners'
    BY <2>2, <2>3, <2>4, <2>5 DEF Printers, Runners
  <2>8. Lone' => Lone
    BY <2>2 DEF Lone, Starter
  <2>9. Lone' => Kept'
    BY <2>2, <2>3, <2>4, <2>8 DEF Kept, Drained, Idle
  <2>10. Lone' => Shown'
    <3>1. Lone' => orphans = {}
      BY <2>2 DEF Lone, Starter
    <3>2. Lone' => entry = call.session
      BY <2>3, <3>1
    <3>3. Capped(sessions[call.session].history) = sessions[call.session].history
      BY <2>3, Parts, CutFacts DEF TextsAreShort
    <3> QED
      BY <2>2, <2>4, <3>2, <3>3 DEF Shown
  <2> QED
    BY <2>6, <2>7, <2>9, <2>10
<1>8. CASE SpawnFails
  <2>1. /\ call.type = "start" /\ call' = Idle
        /\ sessions' = [sessions EXCEPT ![call.session].status = "error"]
        /\ orphans' = orphans \ {call.session}
        /\ UNCHANGED <<entry, request, writing, file, copy, transcript, unsaved,
                       overtaken>>
    BY <1>8 DEF SpawnFails, Return, TypeOK, Call, Idle, worker
  <2>2. /\ call.session \in Session /\ sessions[call.session].process = None
        /\ call.session = entry \/ entry = None
    BY <1>1, <2>1, Parts DEF OwnInv, Starting, Apart
  <2>3. /\ \A r \in Session : /\ sessions'[r].process = sessions[r].process
                              /\ sessions'[r].history = sessions[r].history
                              /\ r # call.session => sessions'[r] = sessions[r]
        /\ sessions'[call.session].status = "error"
    BY <2>1, <2>2, Parts DEF Object
  <2>4. TextsAreShort' /\ Printers' /\ Runners' /\ Apart'
    BY <2>1, <2>2, <2>3 DEF TextsAreShort, Printers, Runners, Apart
  <2>5. Lone' => Lone
    BY <1>1, <2>1 DEF Lone, Starter
  <2>6. Lone' => Kept' /\ Shown'
    BY <2>1, <2>2, <2>3, <2>5, Parts DEF Kept, Shown, Drained, Idle
  <2> QED
    BY <2>4, <2>6
<1>9. CASE ReadFails
  <2>1. /\ call' = Idle
        /\ UNCHANGED <<sessions, entry, request, writing, file, copy, transcript,
                       orphans, unsaved, overtaken>>
        /\ call.type = "open"
    BY <1>9 DEF ReadFails, Return, TypeOK, Call, Idle, worker, excuses
  <2>2. TextsAreShort' /\ Printers' /\ Runners' /\ Apart'
    BY <2>1 DEF TextsAreShort, Printers, Runners, Apart
  <2>3. Lone' => Lone
    BY <2>1 DEF Lone, Starter
  <2>4. Lone' => Kept' /\ Shown'
    BY <1>1, <2>1, <2>3 DEF Kept, Shown, Drained, Idle
  <2> QED
    BY <2>2, <2>4
<1> QED
  BY <1>2, <1>3, <1>4, <1>5, <1>6, <1>7, <1>8, <1>9 DEF Proceed

(* What the shells do keeps it.                                            *)
LEMMA ShellPrints ==
    ASSUME TypeOK, OwnInv, PrintInv,
           \/ \E s \in Session : Output(s) \/ Exit(s)
           \/ \E p \in Process : Kill(p)
    PROVE  PrintInv'
<1> USE DEF PrintInv
<1>1. ASSUME NEW s \in Session, Output(s) PROVE PrintInv'
  <2> DEFINE h == Capped(Append(sessions[s].history, printed'))
  <2>1. /\ sessions[s].process # None
        /\ sessions' = [sessions EXCEPT ![s].history = h] /\ request' = <<h>>
        /\ copy' = Append(copy, printed')
        /\ transcript' = Append(transcript, printed')
        /\ overtaken' = (overtaken \/ (call.at = "save" /\ call.type = "clear"))
        /\ UNCHANGED <<entry, call, writing, file, orphans, unsaved>>
    BY <1>1 DEF Output, Enqueue
  <2>2. printed' \in Line
    BY <1>1, TerminalAssumption DEF Output, TypeOK, Line
  <2>3. h \in Text /\ Short(h)
    BY <2>2, Parts, CutFacts
  <2> HIDE DEF h
  <2>4. /\ sessions'[s].history = h
        /\ \A r \in Session : /\ sessions'[r].process = sessions[r].process
                              /\ sessions'[r].status = sessions[r].status
                              /\ r # s => sessions'[r] = sessions[r]
    BY <2>1, Parts DEF Object
  <2>5. TextsAreShort'
    BY <2>1, <2>3, <2>4 DEF TextsAreShort, ShortQueue
  <2>6. Printers' /\ Runners' /\ Apart'
    BY <2>1, <2>4 DEF Printers, Runners, Apart
  <2>7. Lone' => Lone
    BY <2>1 DEF Lone, Starter
  <2>8. Lone => s = entry
    <3>1. s \in orphans \cup {entry}
      BY <2>1 DEF Printers
    <3>2. (call # Idle /\ call.type = "start") => s # call.session
      BY <2>1 DEF OwnInv, Starting
    <3> QED
      BY <3>1, <3>2 DEF Lone, Starter
  <2>9. ASSUME Lone PROVE Kept'
    <3>1. sessions[s].history = Capped(transcript)
      BY <2>8, <2>9, Parts DEF Kept
    <3>2. h = Capped(transcript')
      BY <2>1, <2>2, <3>1, Parts, CutFacts DEF h
    <3>3. call.at # "read"
      BY <2>8, <2>9, Parts DEF OwnInv, Opening, TypeOK, Call, Idle
    <3> QED
      BY <2>1, <2>4, <2>8, <2>9, <3>2, <3>3 DEF Kept, Drained
  <2>10. ASSUME Lone PROVE Shown'
    <3> SUFFICES ASSUME entry # None, ~ overtaken', sessions[entry].status = "running"
                 PROVE  h = IF call # Idle /\ call.type = "clear" THEN <<>>
                            ELSE Capped(copy')
      BY <2>1, <2>4, <2>8, <2>10, Parts DEF Shown
    <3>1. ~ overtaken /\ ~ (call # Idle /\ call.type = "clear")
      BY <2>1 DEF TypeOK, Call
    <3>2. sessions[s].history = Capped(copy)
      BY <2>8, <2>10, <3>1 DEF Shown
    <3> QED
      BY <2>1, <2>2, <3>1, <3>2, Parts, CutFacts DEF h
  <2> QED
    BY <2>5, <2>6, <2>7, <2>9, <2>10
<1>2. ASSUME NEW s \in Session, Exit(s) PROVE PrintInv'
  <2>1. /\ sessions'[s].process = None /\ sessions'[s].status = "exited"
        /\ sessions'[s].history = sessions[s].history
        /\ \A r \in Session \ {s} : sessions'[r] = sessions[r]
    BY <1>2, Parts DEF Exit, Stopped, Object
  <2>2. UNCHANGED <<entry, call, request, writing, file, copy, transcript, orphans,
                    unsaved, overtaken>>
    BY <1>2 DEF Exit, worker, excuses
  <2>3. TextsAreShort' /\ Printers' /\ Runners' /\ Apart'
    BY <2>1, <2>2 DEF TextsAreShort, Printers, Runners, Apart
  <2>4. Lone' => Lone
    BY <2>2 DEF Lone, Starter
  <2>5. Lone' => Kept' /\ Shown'
    BY <2>1, <2>2, <2>4, Parts DEF Kept, Shown, Drained
  <2> QED
    BY <2>3, <2>5
<1>3. ASSUME NEW p \in Process, Kill(p) PROVE PrintInv'
  BY <1>3 DEF Kill, TextsAreShort, Printers, Runners, Apart, Lone, Starter, Kept,
              Shown, Drained, worker, excuses
<1> QED
  BY <1>1, <1>2, <1>3

(* The worker, the table and the end of the server keep it.                *)
LEMMA WorldPrints ==
    ASSUME TypeOK, OwnInv, PrintInv, Write \/ Written \/ Evict \/ Down
    PROVE  PrintInv'
<1> USE DEF PrintInv
<1>1. CASE Write
  <2>1. /\ request # <<>> /\ writing' = request /\ request' = <<>>
        /\ UNCHANGED <<sessions, entry, call, file, copy, transcript, orphans,
                       unsaved, overtaken>>
    BY <1>1 DEF Write, excuses
  <2>2. TextsAreShort' /\ Printers' /\ Runners' /\ Apart'
    BY <2>1 DEF TextsAreShort, ShortQueue, Printers, Runners, Apart
  <2>3. Lone' => Lone
    BY <2>1 DEF Lone, Starter
  <2>4. Lone' => Kept' /\ Shown'
    BY <2>1, <2>3 DEF Kept, Shown, Drained
  <2> QED
    BY <2>2, <2>4
<1>2. CASE Written
  <2>1. /\ writing # <<>> /\ writing' = <<>>
        /\ \/ file' = writing[1]
           \/ file' \in {file, <<>>} /\ unsaved' = TRUE
        /\ UNCHANGED <<sessions, entry, call, request, copy, transcript, orphans,
                       overtaken>>
    BY <1>2 DEF Written
  <2>2. PICK text \in Text : Short(text) /\ writing = <<text>>
    BY <2>1 DEF TextsAreShort, ShortQueue
  <2>3. writing[1] = text
    BY <2>2
  <2>4. TextsAreShort' /\ Printers' /\ Runners' /\ Apart'
    BY <2>1, <2>2, <2>3, CutFacts
       DEF TextsAreShort, ShortQueue, Printers, Runners, Apart
  <2>5. Lone' => Lone
    BY <2>1 DEF Lone, Starter
  <2>6. Lone /\ request = <<>> => text = Capped(transcript)
    BY <2>1, <2>2 DEF Kept
  <2>7. Lone' => Kept' /\ Shown'
    BY <2>1, <2>3, <2>5, <2>6 DEF Kept, Shown, Drained
  <2> QED
    BY <2>4, <2>7
<1>3. CASE Evict
  <2>1. /\ entry # None /\ sessions[entry].status # "running" /\ entry' = None
        /\ orphans' = IF call # Idle /\ call.type = "start"
                      THEN orphans \cup {entry} ELSE orphans
        /\ UNCHANGED <<sessions, call, request, writing, file, copy, transcript,
                       unsaved, overtaken>>
    BY <1>3 DEF Evict, worker
  <2>2. sessions[entry].process = None
    BY <2>1, Objects DEF OwnInv, KnownShellsRun
  <2>3. TextsAreShort' /\ Runners'
    BY <2>1 DEF TextsAreShort, Runners
  <2>4. Printers' /\ Apart'
    BY <2>1, <2>2, Parts DEF Printers, Apart
  <2>5. Lone' => Lone
    BY <2>1 DEF Lone, Starter
  <2>6. Lone' => Kept' /\ Shown'
    BY <2>1, <2>5 DEF Kept, Shown, Drained
  <2> QED
    BY <2>3, <2>4, <2>6
<1>4. CASE Down
  <2>1. /\ \A s \in Session : /\ sessions'[s].history = <<>>
                              /\ sessions'[s].process = None
                              /\ sessions'[s].status = "unused"
        /\ entry' = None /\ call' = Idle /\ orphans' = {}
        /\ request' = <<>> /\ writing' = <<>>
        /\ file' \in {file, <<>>} /\ transcript' = file'
    BY <1>4 DEF Down, Unused
  <2>2. file' \in Text /\ Short(file')
    BY <2>1, Parts, CutFacts DEF TextsAreShort
  <2>3. TextsAreShort' /\ Printers' /\ Runners' /\ Apart'
    BY <2>1, <2>2, CutFacts, TerminalAssumption
       DEF TextsAreShort, ShortQueue, Printers, Runners, Apart
  <2>4. Kept' /\ Shown'
    BY <2>1, <2>2, CutFacts DEF Kept, Shown, Idle
  <2> QED
    BY <2>3, <2>4
<1> QED
  BY <1>1, <1>2, <1>3, <1>4

LEMMA PrintStep == TypeOK /\ OwnInv /\ PrintInv /\ [Next]_vars => PrintInv'
<1> SUFFICES ASSUME TypeOK, OwnInv, PrintInv, [Next]_vars PROVE PrintInv'
  OBVIOUS
<1>1. CASE UNCHANGED vars
  BY <1>1 DEF vars, worker, excuses, PrintInv, TextsAreShort, Printers, Runners,
              Apart, Lone, Starter, Kept, Shown, Drained
<1>2. CASE Next
  BY <1>2, BeginPrints, ProceedPrints, ShellPrints, WorldPrints DEF Next
<1> QED
  BY <1>1, <1>2

LEMMA PrintInvariant == Spec => [](TypeOK /\ OwnInv /\ PrintInv)
<1>1. Init => TypeOK /\ OwnInv /\ PrintInv
  BY InitTypes, OwnInit, PrintInit
<1>2. TypeOK /\ OwnInv /\ PrintInv /\ [Next]_vars
         => (TypeOK /\ OwnInv /\ PrintInv)'
  BY TypeStep, OwnStep, PrintStep
<1> QED
  BY <1>1, <1>2, PTL DEF Spec

(* Once nothing waits to be written, the file and the session have what    *)
(* the terminal printed, up to the limit.                                  *)
THEOREM TranscriptIsKept == Spec => []TranscriptIsSaved
<1>1. PrintInv => TranscriptIsSaved
  BY DEF PrintInv, Lone, Kept, TranscriptIsSaved
<1> QED
  BY <1>1, PrintInvariant, PTL

(* A client that only listens shows the history of a running terminal.     *)
THEOREM ListenersAreRight == Spec => []EventsTellTheHistory
<1>1. PrintInv => EventsTellTheHistory
  BY DEF PrintInv, Lone, Shown, EventsTellTheHistory
<1> QED
  BY <1>1, PrintInvariant, PTL
=============================================================================
