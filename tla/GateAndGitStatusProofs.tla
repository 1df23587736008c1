----------------------- MODULE GateAndGitStatusProofs -----------------------
(***************************************************************************)
(* Theorems of the start-up gate, for any number of callers, and of the    *)
(* git status broadcaster, for any browsers, calls, statuses and bounds.   *)
(***************************************************************************)
EXTENDS MCGateAndGitStatus, SequenceTheorems, FiniteSetTheorems, TLAPS

-----------------------------------------------------------------------------
(* The gate.  Whatever way start-up ends and whoever goes away: its        *)
(* answers are true.                                                       *)

Queued(c) == \E i \in 1..Len(queue) : queue[i] = c

(* The latch follows the readiness.                                        *)
LatchFollows == latch \in {"pending", readiness}

(* Before its command is queued or started a caller has left no trace.     *)
Fresh(c) ==
    pc[c] \in {"new", "pending"} =>
        runs[c] = 0 /\ c \notin working /\ c # worker /\ ~ Queued(c)

(* A direct call is the only one of its command.                           *)
Direct(c) ==
    pc[c] = "direct" =>
        runs[c] = 1 /\ c \in working /\ c # worker /\ ~ Queued(c)

(* A queued command waits in one place and has not been started.           *)
Waiting(c) ==
    Queued(c) => /\ runs[c] = 0 /\ c \notin working /\ c # worker
                 /\ pc[c] \in {"waits", "left"}
Taken(c) ==
    c = worker => /\ runs[c] = (IF c \in working THEN 1 ELSE 0)
                  /\ pc[c] \in {"waits", "left"}

Answered(c) ==
    pc[c] = "answered" => /\ runs[c] = 1 /\ c \notin working
                          /\ c # worker /\ ~ Queued(c)
Refused(c) ==
    pc[c] = "refused" => /\ runs[c] = 0 /\ readiness = "failed" /\ c \notin working
                         /\ c # worker /\ ~ Queued(c)

CallInv(c) ==
    /\ runs[c] <= (IF readiness = "ready" THEN 1 ELSE 0)
    /\ Fresh(c) /\ Direct(c) /\ Waiting(c) /\ Taken(c) /\ Answered(c) /\ Refused(c)

GateInv ==
    /\ \A i, j \in 1..Len(queue) : queue[i] = queue[j] => i = j
    /\ \A c \in Caller : CallInv(c)

(* The first state.                                                        *)
LEMMA GateInit == Init => TypeOK /\ GateInv
<1> SUFFICES ASSUME Init PROVE TypeOK /\ GateInv
  OBVIOUS
<1>1. queue = <<>> /\ Len(queue) = 0
  BY DEF Init
<1>2. TypeOK
  BY DEF Init, TypeOK, State, CallPlace
<1>3. GateInv
  BY <1>1, GateAssumption
     DEF Init, GateInv, CallInv, Fresh, Direct, Waiting, Taken, Answered, Refused,
         Queued
<1> QED
  BY <1>2, <1>3

(* A step keeps the types.                                                 *)
LEMMA TypeStep == TypeOK /\ [Next]_vars => TypeOK'
<1> SUFFICES ASSUME TypeOK, [Next]_vars PROVE TypeOK'
  OBVIOUS
<1>1. ASSUME NEW c \in Caller, Start(c)
      PROVE  runs' \in [Caller -> Nat] /\ working' \subseteq Caller
  BY <1>1 DEF Start, TypeOK
<1>2. CASE Decide \/ Release
  BY <1>2 DEF Decide, Release, TypeOK, State, history
<1>3. CASE Take
  <2>1. Head(queue) \in Caller /\ Tail(queue) \in Seq(Caller)
    BY <1>3, HeadTailProperties DEF Take, TypeOK
  <2> QED
    BY <1>3, <2>1 DEF Take, TypeOK, gate, history
<1>4. CASE Run
  <2>1. worker \in Caller
    BY <1>4 DEF Run, TypeOK
  <2>2. served' \in Seq(Caller)
    BY <1>4, <2>1, AppendProperties DEF Run, TypeOK
  <2> QED
    BY <1>1, <1>4, <2>1, <2>2 DEF Run, TypeOK, gate
<1>5. ASSUME NEW how \in {"answered", "refused"}, Settle(how)
      PROVE  /\ pc' \in [Caller -> CallPlace] /\ worker' \in Caller \cup {Nobody}
             /\ UNCHANGED <<readiness, latch, queue, runs, offered, served>>
  BY <1>5 DEF Settle, TypeOK, CallPlace, gate, history
<1>6. CASE Done \/ Fail
  BY <1>5, <1>6 DEF Done, Fail, TypeOK
<1>7. ASSUME NEW c \in Caller, Enter(c) PROVE TypeOK'
  <2>1. pc' \in [Caller -> CallPlace]
    BY <1>7 DEF Enter, TypeOK, CallPlace
  <2> QED
    BY <1>1, <1>7, <2>1 DEF Enter, TypeOK, gate
<1>8. ASSUME NEW c \in Caller, Offer(c) PROVE TypeOK'
  <2>1. queue' \in Seq(Caller) /\ offered' \in Seq(Caller)
    BY <1>8, AppendProperties DEF Offer, TypeOK
  <2>2. pc' \in [Caller -> CallPlace]
    BY <1>8 DEF Offer, TypeOK, CallPlace
  <2> QED
    BY <1>8, <2>1, <2>2 DEF Offer, TypeOK, gate
<1>9. ASSUME NEW c \in Caller, Finish(c) \/ Leave(c) PROVE TypeOK'
  BY <1>9 DEF Finish, Leave, TypeOK, CallPlace, gate, history
<1>10. CASE UNCHANGED vars
  BY <1>10 DEF vars, gate, history, TypeOK
<1> QED
  BY <1>2, <1>3, <1>4, <1>6, <1>7, <1>8, <1>9, <1>10 DEF Next, Worker

(* The end of start-up: nothing that ran or was answered is contradicted.  *)
LEMMA StartUpStep ==
    ASSUME TypeOK, GateInv, Decide \/ Release
    PROVE  GateInv'
<1>1. UNCHANGED <<queue, worker, pc, working, runs>>
  BY DEF Decide, Release, history
<1>2. readiness' # readiness => readiness = "pending"
  BY DEF Decide, Release
<1>3. \A c \in Caller : runs[c] \in Nat
  BY DEF TypeOK
<1>4. ASSUME NEW c \in Caller PROVE CallInv(c)'
  BY <1>1, <1>2, <1>3
     DEF GateInv, CallInv, Fresh, Direct, Waiting, Taken, Answered, Refused, Queued
<1> QED
  BY <1>1, <1>4 DEF GateInv

(* A step of a caller that leaves queue and worker alone concerns only it. *)
LEMMA OthersUntouched ==
    ASSUME TypeOK, GateInv, NEW c \in Caller, NEW d \in Caller \ {c},
           UNCHANGED <<readiness, queue, worker>>,
           pc'[d] = pc[d], runs'[d] = runs[d], d \in working' <=> d \in working
    PROVE  CallInv(d)'
  BY DEF GateInv, CallInv, Fresh, Direct, Waiting, Taken, Answered, Refused, Queued

(* The callers.                                                            *)
LEMMA CallerStep ==
    ASSUME TypeOK, GateInv, NEW c \in Caller,
           Enter(c) \/ Offer(c) \/ Finish(c) \/ Leave(c)
    PROVE  GateInv'
<1>1. /\ runs[c] \in Nat /\ CallInv(c)
      /\ \A i, j \in 1..Len(queue) : queue[i] = queue[j] => i = j
  BY DEF TypeOK, GateInv
<1>2. CASE Enter(c)
  <2>1. /\ UNCHANGED <<readiness, queue, worker>> /\ pc[c] = "new"
        /\ \A d \in Caller \ {c} : /\ pc'[d] = pc[d] /\ runs'[d] = runs[d]
                                   /\ d \in working' <=> d \in working
    BY <1>2 DEF Enter, Start, gate, TypeOK
  <2>2. CallInv(c)'
    <3>1. runs[c] = 0 /\ c \notin working /\ c # worker /\ ~ Queued(c)
      BY <1>1, <2>1 DEF CallInv, Fresh
    <3>2. CASE readiness = "ready"
      <4>1. pc'[c] = "direct" /\ runs'[c] = 1 /\ c \in working'
        BY <1>2, <3>1, <3>2 DEF Enter, Start, TypeOK
      <4> QED
        BY <2>1, <3>1, <3>2, <4>1
           DEF CallInv, Fresh, Direct, Waiting, Taken, Answered, Refused, Queued
    <3>3. CASE readiness # "ready"
      <4>1. /\ pc'[c] = IF readiness = "failed" THEN "refused" ELSE "pending"
            /\ UNCHANGED <<runs, working>>
        BY <1>2, <3>3 DEF Enter, TypeOK
      <4> QED
        BY <2>1, <3>1, <3>3, <4>1
           DEF CallInv, Fresh, Direct, Waiting, Taken, Answered, Refused, Queued
    <3> QED
      BY <3>2, <3>3
  <2>3. \A d \in Caller \ {c} : CallInv(d)'
    BY <2>1, OthersUntouched
  <2> QED
    BY <1>1, <2>1, <2>2, <2>3 DEF GateInv
<1>3. CASE Offer(c)
  <2>1. /\ UNCHANGED <<readiness, worker, runs, working>> /\ pc[c] = "pending"
        /\ pc'[c] = "waits" /\ \A d \in Caller \ {c} : pc'[d] = pc[d]
    BY <1>3 DEF Offer, gate, TypeOK
  <2>2. runs[c] = 0 /\ c \notin working /\ c # worker /\ ~ Queued(c)
    BY <1>1, <2>1 DEF CallInv, Fresh
  <2>3. /\ Len(queue) \in Nat /\ Len(queue') = Len(queue) + 1
        /\ \A i \in 1..Len(queue) : queue'[i] = queue[i]
        /\ queue'[Len(queue) + 1] = c
    BY <1>3, LenProperties, AppendProperties DEF Offer, TypeOK
  <2>4. \A d \in Caller : Queued(d)' <=> Queued(d) \/ d = c
    BY <2>3 DEF Queued
  <2>5. \A i, j \in 1..Len(queue') : queue'[i] = queue'[j] => i = j
    BY <1>1, <2>2, <2>3 DEF Queued
  <2>6. CallInv(c)'
    BY <1>1, <2>1, <2>2, <2>4
       DEF CallInv, Fresh, Direct, Waiting, Taken, Answered, Refused
  <2>7. \A d \in Caller \ {c} : CallInv(d)'
    BY <2>1, <2>4
       DEF GateInv, CallInv, Fresh, Direct, Waiting, Taken, Answered, Refused
  <2> QED
    BY <2>5, <2>6, <2>7 DEF GateInv
<1>4. CASE Finish(c) \/ Leave(c)
  <2>1. /\ UNCHANGED <<readiness, queue, worker, runs>>
        /\ \A d \in Caller \ {c} : /\ pc'[d] = pc[d]
                                   /\ d \in working' <=> d \in working
    BY <1>4 DEF Finish, Leave, gate, history, TypeOK
  <2>2. CallInv(c)'
    <3>1. CASE Finish(c)
      <4>1. pc[c] = "direct" /\ pc'[c] = "answered" /\ c \notin working'
        BY <3>1 DEF Finish, TypeOK
      <4> QED
        BY <1>1, <2>1, <4>1
           DEF CallInv, Fresh, Direct, Waiting, Taken, Answered, Refused, Queued
    <3>2. CASE Leave(c)
      <4>1. /\ pc[c] \in {"pending", "direct", "waits"} /\ pc'[c] = "left"
            /\ working' = IF pc[c] = "direct" THEN working \ {c} ELSE working
        BY <3>2 DEF Leave, TypeOK
      <4> QED
        BY <1>1, <2>1, <4>1
           DEF CallInv, Fresh, Direct, Waiting, Taken, Answered, Refused, Queued
    <3> QED
      BY <1>4, <3>1, <3>2
  <2>3. \A d \in Caller \ {c} : CallInv(d)'
    BY <2>1, OthersUntouched
  <2> QED
    BY <1>1, <2>1, <2>2, <2>3 DEF GateInv
<1> QED
  BY <1>2, <1>3, <1>4

(* The worker.                                                             *)
LEMMA WorkerStep ==
    ASSUME TypeOK, GateInv, Worker
    PROVE  GateInv'
<1>1. /\ worker # Nobody => worker \in Caller
      /\ \A c \in Caller : runs[c] \in Nat /\ CallInv(c)
      /\ \A i, j \in 1..Len(queue) : queue[i] = queue[j] => i = j
  BY DEF TypeOK, GateInv
<1>2. CASE Take
  <2>1. /\ worker = Nobody /\ worker' = queue[1] /\ queue # <<>>
        /\ UNCHANGED <<readiness, pc, working, runs>>
    BY <1>2, HeadTailProperties DEF Take, gate, history, TypeOK
  <2>2. /\ Len(queue) \in Nat \ {0} /\ Len(queue') = Len(queue) - 1
        /\ \A i \in 1..Len(queue') : queue'[i] = queue[i + 1]
    BY <1>2, HeadTailProperties, LenProperties, EmptySeq DEF Take, TypeOK
  <2>3. worker' \in Caller /\ Queued(worker')
    BY <2>1, <2>2, ElementOfSeq DEF Queued, TypeOK
  <2>4. \A d \in Caller : Queued(d)' <=> Queued(d) /\ d # worker'
    <3> SUFFICES ASSUME NEW d \in Caller
                 PROVE  Queued(d)' <=> Queued(d) /\ d # worker'
      OBVIOUS
    <3>1. ASSUME Queued(d)' PROVE Queued(d) /\ d # worker'
      <4>1. PICK i \in 1..Len(queue') : queue'[i] = d
        BY <3>1 DEF Queued
      <4>2. i + 1 \in 1..Len(queue) /\ queue[i + 1] = d /\ i + 1 # 1
        BY <2>2, <4>1
      <4> QED
        BY <1>1, <2>1, <2>2, <4>2 DEF Queued
    <3>2. ASSUME Queued(d), d # worker' PROVE Queued(d)'
      <4>1. PICK i \in 1..Len(queue) : queue[i] = d
        BY <3>2 DEF Queued
      <4>2. i - 1 \in 1..Len(queue')
        BY <2>1, <2>2, <3>2, <4>1
      <4>3. queue'[i - 1] = d
        BY <2>2, <4>1, <4>2
      <4> QED
        BY <4>2, <4>3 DEF Queued
    <3> QED
      BY <3>1, <3>2
  <2>5. \A i, j \in 1..Len(queue') : queue'[i] = queue'[j] => i = j
    <3> SUFFICES ASSUME NEW i \in 1..Len(queue'), NEW j \in 1..Len(queue'),
                        queue'[i] = queue'[j]
                 PROVE  i = j
      OBVIOUS
    <3>1. /\ i + 1 \in 1..Len(queue) /\ j + 1 \in 1..Len(queue)
          /\ queue[i + 1] = queue[j + 1]
      BY <2>2
    <3>2. i + 1 = j + 1
      BY <1>1, <3>1
    <3> QED
      BY <2>2, <3>2
  <2>6. \A c \in Caller : CallInv(c)'
    BY <1>1, <2>1, <2>3, <2>4
       DEF CallInv, Fresh, Direct, Waiting, Taken, Answered, Refused
  <2> QED
    BY <2>5, <2>6 DEF GateInv
<1>3. CASE Run
  <2>1. /\ worker \in Caller /\ worker \notin working /\ readiness = "ready"
        /\ UNCHANGED <<readiness, queue, worker, pc>>
        /\ runs' = [runs EXCEPT ![worker] = @ + 1]
        /\ working' = working \cup {worker}
    BY <1>1, <1>3 DEF Run, Start, TypeOK, gate
  <2>2. runs[worker] = 0 /\ pc[worker] \in {"waits", "left"}
    BY <1>1, <2>1 DEF CallInv, Taken
  <2>3. runs'[worker] = 1
    BY <2>1, <2>2 DEF TypeOK
  <2>4. CallInv(worker)'
    BY <1>1, <2>1, <2>2, <2>3
       DEF CallInv, Fresh, Direct, Waiting, Taken, Answered, Refused, Queued
  <2>5. \A d \in Caller \ {worker} : CallInv(d)'
    BY <2>1, OthersUntouched DEF TypeOK
  <2> QED
    BY <1>1, <2>1, <2>4, <2>5 DEF GateInv
<1>4. CASE Done \/ Fail
  <2>1. PICK w \in Caller : w = worker
    BY <1>1, <1>4 DEF Done, Fail, TypeOK
  <2>2. /\ worker' = Nobody
        /\ UNCHANGED <<readiness, queue, runs>>
        /\ \A d \in Caller \ {w} : /\ pc'[d] = pc[d]
                                   /\ d \in working' <=> d \in working
    BY <1>4, <2>1 DEF Done, Fail, Settle, TypeOK, gate, history
  <2>3. /\ pc[w] \in {"waits", "left"} /\ ~ Queued(w)
        /\ runs[w] = (IF w \in working THEN 1 ELSE 0)
        /\ runs[w] <= (IF readiness = "ready" THEN 1 ELSE 0)
    BY <1>1, <2>1 DEF CallInv, Taken, Waiting
  <2>4. w # worker' /\ ~ Queued(w)' /\ runs'[w] = runs[w]
    BY <2>2, <2>3, GateAssumption DEF Queued
  <2>5. CallInv(w)'
    <3>1. CASE Done
      <4>1. /\ w \in working /\ w \notin working'
            /\ pc'[w] \in {"answered", "left"}
        BY <2>1, <2>3, <3>1 DEF Done, Settle, TypeOK
      <4> QED
        BY <2>2, <2>3, <2>4, <4>1
           DEF CallInv, Fresh, Direct, Waiting, Taken, Answered, Refused
    <3>2. CASE Fail
      <4>1. /\ readiness = "failed" /\ working' = working
            /\ pc'[w] \in {"refused", "left"}
        BY <2>1, <2>3, <3>2 DEF Fail, Settle, TypeOK
      <4> QED
        BY <2>2, <2>3, <2>4, <4>1
           DEF CallInv, Fresh, Direct, Waiting, Taken, Answered, Refused
    <3> QED
      BY <1>4, <3>1, <3>2
  <2>6. ASSUME NEW d \in Caller \ {w} PROVE CallInv(d)'
    <3>1. d # worker' /\ d # worker /\ (Queued(d)' <=> Queued(d))
      BY <2>1, <2>2, GateAssumption DEF Queued
    <3>2. runs'[d] = runs[d] /\ readiness' = readiness /\ pc'[d] = pc[d]
          /\ (d \in working' <=> d \in working) /\ CallInv(d)
      BY <1>1, <2>2
    <3> QED
      BY <3>1, <3>2
         DEF CallInv, Fresh, Direct, Waiting, Taken, Answered, Refused
  <2>7. \A i, j \in 1..Len(queue') : queue'[i] = queue'[j] => i = j
    BY <1>1, <2>2
  <2> QED
    BY <2>5, <2>6, <2>7 DEF GateInv
<1> QED
  BY <1>2, <1>3, <1>4 DEF Worker

LEMMA GateStep == TypeOK /\ GateInv /\ [Next]_vars => GateInv'
<1> SUFFICES ASSUME TypeOK, GateInv, [Next]_vars PROVE GateInv'
  OBVIOUS
<1>1. CASE UNCHANGED vars
  BY <1>1 DEF vars, gate, history, GateInv, CallInv, Fresh, Direct, Waiting, Taken,
              Answered, Refused, Queued
<1> QED
  BY <1>1, StartUpStep, CallerStep, WorkerStep DEF Next

(* Every reachable state of the gate is well-typed.                        *)
THEOREM GateTypeCorrect == Spec => []TypeOK
<1>1. Init => TypeOK
  BY GateInit
<1> QED
  BY <1>1, TypeStep, PTL DEF Spec

(* However start-up ends and whoever goes away: an answered command ran    *)
(* once, a refused one never, none twice and none before start-up.         *)
THEOREM AnswersTrue == Spec => []AnswersAreTrue
<1>1. TypeOK /\ GateInv /\ [Next]_vars => (TypeOK /\ GateInv)'
  BY TypeStep, GateStep
<1>2. TypeOK /\ GateInv => AnswersAreTrue
  <2> SUFFICES ASSUME TypeOK, GateInv PROVE AnswersAreTrue
    OBVIOUS
  <2>1. DOMAIN queue = 1..Len(queue)
    BY LenProperties DEF TypeOK
  <2> QED
    BY <2>1 DEF GateInv, CallInv, Answered, Refused, Queued, AnswersAreTrue
<1> QED
  BY <1>1, <1>2, GateInit, PTL DEF Spec

-----------------------------------------------------------------------------
(* The git status broadcaster.                                             *)

OnStream == {c \in Client : at[c] = "on"}
PerPart == [G!Part -> Status \cup {None}]

(* The poller counts the streams that have their snapshot.                 *)
StreamsAreCounted ==
    IsFiniteSet(OnStream) /\ subscribers = Cardinality(OnStream)

(* What waits for a client is what is cached, and a client with a snapshot *)
(* shows that, in the end.                                                 *)
InTune(c) ==
    /\ at[c] \notin {"local", "on"} => events[c] = G!Nothing
    /\ events[c]["remote"] \in {None, cached["remote"]}
    /\ events[c]["local"] \in {None, cached["local"]} \/ silent
    /\ at[c] = "on" =>
          /\ events[c]["local"] # None \/ copy[c]["local"] # None
          /\ events[c]["remote"] = None => copy[c]["remote"] = cached["remote"]
          /\ events[c]["local"] = None =>
                copy[c]["local"] = cached["local"] \/ silent

StatusTyped ==
    /\ repository \in [G!Part -> Status]
    /\ running \in [G!Part -> G!Fiber \cup {None}]
    /\ cached \in PerPart
    /\ subscribers \in Nat
    /\ at \in [G!Fiber -> G!Place]
    /\ source \in [G!Fiber -> G!Fiber]
    /\ read \in [G!Fiber -> Status \cup {None}]
    /\ events \in [Client -> PerPart]
    /\ copy \in [Client -> PerPart]
    /\ silent \in BOOLEAN

StatusInv == StatusTyped /\ StreamsAreCounted /\ \A c \in Client : InTune(c)

(* Streams, calls and the poller are different fibers.                     *)
LEMMA Fibers ==
    /\ None \notin Status
    /\ \A c \in Client : c \in G!Fiber /\ c \notin RefreshCall /\ c # Poller
    /\ \A r \in RefreshCall : r \in G!Fiber /\ r # Poller
    /\ Poller \in G!Fiber
    /\ G!Part = {"local", "remote"}
    /\ G!Nothing \in PerPart /\ \A p \in G!Part : G!Nothing[p] = None
    /\ G!Place = {"off", "asleep", "on", "done", "local", "remote"}
  BY GitAssumption DEF G!Fiber, G!Part, G!Nothing, PerPart, G!Place

LEMMA StatusInit == G!Init => StatusInv
<1> SUFFICES ASSUME G!Init PROVE StatusInv
  OBVIOUS
<1>1. StatusTyped
  BY Fibers DEF G!Init, StatusTyped, PerPart
<1>2. StreamsAreCounted
  <2>1. OnStream = {}
    BY Fibers DEF G!Init, OnStream
  <2> QED
    BY <2>1, FS_EmptySet DEF G!Init, StreamsAreCounted
<1>3. \A c \in Client : InTune(c)
  BY Fibers DEF G!Init, InTune
<1> QED
  BY <1>1, <1>2, <1>3 DEF StatusInv

(* Who goes on or off stream is counted.                                   *)
LEMMA SameStreams ==
    ASSUME StreamsAreCounted, UNCHANGED subscribers,
           \A c \in Client : at'[c] = "on" <=> at[c] = "on"
    PROVE  StreamsAreCounted'
<1>1. OnStream' = OnStream
  BY DEF OnStream
<1> QED
  BY <1>1 DEF StreamsAreCounted

LEMMA OneMoreStream ==
    ASSUME StreamsAreCounted, NEW c \in Client, subscribers' = subscribers + 1,
           at[c] # "on", at'[c] = "on",
           \A d \in Client \ {c} : at'[d] = at[d]
    PROVE  StreamsAreCounted'
<1>1. OnStream' = OnStream \cup {c} /\ c \notin OnStream
  BY DEF OnStream
<1>2. /\ IsFiniteSet(OnStream \cup {c})
      /\ Cardinality(OnStream \cup {c}) = Cardinality(OnStream) + 1
  BY <1>1, FS_AddElement DEF StreamsAreCounted
<1> QED
  BY <1>1, <1>2 DEF StreamsAreCounted

LEMMA OneStreamLess ==
    ASSUME StreamsAreCounted, NEW c \in Client, subscribers' = subscribers - 1,
           at[c] = "on", at'[c] # "on",
           \A d \in Client \ {c} : at'[d] = at[d]
    PROVE  StreamsAreCounted' /\ subscribers # 0
<1>1. OnStream' = OnStream \ {c} /\ c \in OnStream
  BY DEF OnStream
<1>2. /\ IsFiniteSet(OnStream \ {c})
      /\ Cardinality(OnStream \ {c}) = Cardinality(OnStream) - 1
  BY <1>1, FS_RemoveElement DEF StreamsAreCounted
<1>3. Cardinality(OnStream) # 0
  BY <1>1, FS_EmptySet DEF StreamsAreCounted
<1> QED
  BY <1>1, <1>2, <1>3 DEF StreamsAreCounted

(* Steps that leave a client and the cache alone.                          *)
LEMMA SameTune ==
    ASSUME NEW c \in Client, InTune(c), UNCHANGED <<cached, silent>>,
           at'[c] = at[c], events'[c] = events[c], copy'[c] = copy[c]
    PROVE  InTune(c)'
  BY DEF InTune, G!Nothing

-----------------------------------------------------------------------------
(* Lookups.                                                                *)

LEMMA ReadStep ==
    ASSUME StatusInv, NEW x \in G!Fiber, G!Read(x)
    PROVE  StatusInv'
<1>1. /\ at[x] \in G!Part
      /\ read' = [read EXCEPT ![x] = repository[at[x]]]
      /\ UNCHANGED <<repository, running, cached, subscribers, at, source, events,
                     copy, silent>>
  BY DEF G!Read, G!bounds
<1>2. StatusTyped'
  BY <1>1 DEF StatusInv, StatusTyped
<1>3. StreamsAreCounted'
  BY <1>1, SameStreams DEF StatusInv
<1>4. \A c \in Client : InTune(c)'
  BY <1>1, SameTune DEF StatusInv
<1> QED
  BY <1>2, <1>3, <1>4 DEF StatusInv

LEMMA AbandonStep ==
    ASSUME StatusInv, NEW x \in G!Fiber, NEW place \in {"off", "asleep", "done"},
           x \in Client => place = "off",
           at[x] \in G!Part, G!Abandon(x, place),
           UNCHANGED <<repository, cached, subscribers, copy, silent>>
    PROVE  StatusInv'
<1>1. /\ running' = G!Without(x)
      /\ at' = [y \in G!Fiber |-> IF y = x THEN place
                                  ELSE IF y \in G!Joined(x) THEN "off" ELSE at[y]]
      /\ source' = [y \in G!Fiber |-> IF y \in {x} \cup G!Joined(x) THEN y
                                      ELSE source[y]]
      /\ read' = [read EXCEPT ![x] = None]
      /\ events' = [c \in Client |-> IF at'[c] = "off" THEN G!Nothing
                                     ELSE events[c]]
  BY DEF G!Abandon
<1>2. \A y \in G!Joined(x) : at[y] \in {"local", "remote"}
  BY Fibers DEF G!Joined
<1>3. \A c \in Client : /\ at'[c] \in {"off", at[c]}
                        /\ at'[c] = "on" <=> at[c] = "on"
  BY <1>1, <1>2, Fibers
<1>4. StatusTyped'
  <2>1. running' \in [G!Part -> G!Fiber \cup {None}]
    BY <1>1 DEF StatusInv, StatusTyped, G!Without
  <2>2. events' \in [Client -> PerPart]
    BY <1>1, Fibers DEF StatusInv, StatusTyped
  <2>3. at' \in [G!Fiber -> G!Place] /\ source' \in [G!Fiber -> G!Fiber]
        /\ read' \in [G!Fiber -> Status \cup {None}]
    BY <1>1, Fibers DEF StatusInv, StatusTyped
  <2> QED
    BY <2>1, <2>2, <2>3 DEF StatusInv, StatusTyped
<1>5. StreamsAreCounted'
  BY <1>3, SameStreams DEF StatusInv
<1>6. ASSUME NEW c \in Client PROVE InTune(c)'
  <2>1. CASE at'[c] = "off"
    <3>1. events'[c] = G!Nothing /\ (G!Nothing)' = G!Nothing
      BY <1>1, <2>1 DEF G!Nothing
    <3> QED
      BY <2>1, <3>1, Fibers DEF InTune
  <2>2. CASE at'[c] # "off"
    <3>1. events'[c] = events[c] /\ at'[c] = at[c]
      BY <1>1, <1>3, <2>2
    <3> QED
      BY <3>1, SameTune DEF StatusInv
  <2> QED
    BY <2>1, <2>2
<1> QED
  BY <1>4, <1>5, <1>6 DEF StatusInv

(* A lookup begins, by a fiber that is no stream.                          *)
LEMMA LookupStep ==
    ASSUME StatusInv, NEW x \in G!Fiber \ Client, NEW p \in G!Part,
           G!Waits(x, p, x), running' = [running EXCEPT ![p] = x],
           UNCHANGED <<repository, cached, subscribers, events, copy, silent>>
    PROVE  StatusInv'
<1>1. /\ at' = [at EXCEPT ![x] = p]
      /\ source' = [source EXCEPT ![x] = x]
      /\ read' = [read EXCEPT ![x] = None]
  BY DEF G!Waits
<1>2. \A c \in Client : at'[c] = at[c]
  BY <1>1 DEF StatusInv, StatusTyped
<1>3. StatusTyped'
  BY <1>1, Fibers DEF StatusInv, StatusTyped
<1>4. StreamsAreCounted'
  BY <1>2, SameStreams DEF StatusInv
<1>5. \A c \in Client : InTune(c)'
  BY <1>2, SameTune DEF StatusInv
<1> QED
  BY <1>3, <1>4, <1>5 DEF StatusInv

-----------------------------------------------------------------------------
(* Streams.                                                                *)

LEMMA OpenStep ==
    ASSUME StatusInv, NEW c \in Client, G!Open(c)
    PROVE  StatusInv'
<1>1. at[c] = "off" /\ events[c] = G!Nothing /\ c \in G!Fiber /\ c # Poller
  BY Fibers DEF G!Open, StatusInv, InTune
<1>2. UNCHANGED <<repository, cached, silent>>
  BY DEF G!Open, G!bounds
<1>3. CASE cached["local"] # None
  <2>1. /\ subscribers' = subscribers + 1
        /\ at' = [at EXCEPT ![c] = "on",
                            ![Poller] = IF subscribers = 0 THEN "asleep" ELSE @]
        /\ copy' = [copy EXCEPT ![c] = [cached EXCEPT !["local"] = cached["local"]]]
        /\ UNCHANGED <<events, running, source, read>>
    BY <1>3 DEF G!Open, G!Start
  <2>2. at'[c] = "on" /\ \A d \in Client \ {c} : at'[d] = at[d]
    BY <2>1, Fibers DEF StatusInv, StatusTyped
  <2>3. copy'[c] = cached /\ \A d \in Client \ {c} : copy'[d] = copy[d]
    BY <2>1 DEF StatusInv, StatusTyped, PerPart
  <2>4. StatusTyped'
    BY <2>1, <1>2, Fibers DEF StatusInv, StatusTyped, PerPart
  <2>5. StreamsAreCounted'
    BY <1>1, <2>1, <2>2, OneMoreStream DEF StatusInv
  <2>6. InTune(c)'
    <3>1. events'[c] = G!Nothing /\ events'[c]["local"] = None
          /\ events'[c]["remote"] = None
      BY <1>1, <2>1, Fibers
    <3> QED
      BY <3>1, <1>2, <1>3, <2>2, <2>3 DEF InTune
  <2>7. \A d \in Client \ {c} : InTune(d)'
    BY <1>2, <2>1, <2>2, <2>3, SameTune DEF StatusInv
  <2> QED
    BY <2>4, <2>5, <2>6, <2>7 DEF StatusInv
<1>4. CASE cached["local"] = None
  <2>1. PICK by \in {c, running["local"]} :
          /\ by # None \/ by = c
          /\ running' = [running EXCEPT !["local"] = by]
          /\ G!Waits(c, "local", by)
          /\ UNCHANGED <<subscribers, copy, events>>
    BY <1>4 DEF G!Open
  <2>2. /\ at' = [at EXCEPT ![c] = "local"]
        /\ source' = [source EXCEPT ![c] = by]
        /\ read' = [read EXCEPT ![c] = None]
    BY <2>1 DEF G!Waits
  <2>3. by \in G!Fiber
    BY <1>1, <2>1, Fibers DEF StatusInv, StatusTyped
  <2>4. at'[c] = "local" /\ \A d \in Client \ {c} : at'[d] = at[d]
    BY <2>2, <1>1 DEF StatusInv, StatusTyped
  <2>5. StatusTyped'
    BY <1>2, <2>1, <2>2, <2>3, Fibers DEF StatusInv, StatusTyped
  <2>6. StreamsAreCounted'
    BY <1>1, <2>1, <2>4, SameStreams DEF StatusInv
  <2>7. InTune(c)'
    BY <1>2, <2>1, <2>4 DEF InTune, StatusInv
  <2>8. \A d \in Client \ {c} : InTune(d)'
    BY <1>2, <2>1, <2>4, SameTune DEF StatusInv
  <2> QED
    BY <2>5, <2>6, <2>7, <2>8 DEF StatusInv
<1> QED
  BY <1>3, <1>4

(* The load that a stream waited for.  What is not published is the        *)
(* exception that silent remembers.                                        *)
LEMMA LoadedStep ==
    ASSUME StatusInv, NEW c \in Client, G!Loaded(c)
    PROVE  StatusInv'
<1> DEFINE v == read[c]
<1>1. c \in G!Fiber /\ c # Poller /\ at[c] = "local" /\ v \in Status /\ v # None
  BY Fibers DEF G!Loaded, StatusInv, StatusTyped
<1>2. /\ subscribers' = subscribers + 1
      /\ at' = [at EXCEPT ![c] = "on",
                          ![Poller] = IF subscribers = 0 THEN "asleep" ELSE @]
      /\ copy' = [copy EXCEPT ![c] = [cached EXCEPT !["local"] = v]]
      /\ cached' = [cached EXCEPT !["local"] = v]
      /\ silent' = (silent \/ cached["local"] \notin {None, v})
      /\ running' = G!Without(c)
      /\ read' = [y \in G!Fiber |-> IF y \in G!Joined(c) THEN v
                                    ELSE IF y = c THEN None ELSE read[y]]
      /\ source' = [source EXCEPT ![c] = c]
      /\ UNCHANGED <<repository, events>>
  BY DEF G!Loaded, G!Start, G!bounds
<1> HIDE DEF v
<1>3. at'[c] = "on" /\ \A d \in Client \ {c} : at'[d] = at[d]
  BY <1>1, <1>2, Fibers DEF StatusInv, StatusTyped
<1>4. /\ copy'[c] = cached' /\ \A d \in Client \ {c} : copy'[d] = copy[d]
      /\ cached'["local"] = v /\ cached'["remote"] = cached["remote"]
  BY <1>2, Fibers DEF StatusInv, StatusTyped, PerPart
<1>5. StatusTyped'
  <2>1. /\ running' \in [G!Part -> G!Fiber \cup {None}]
        /\ read' \in [G!Fiber -> Status \cup {None}]
    BY <1>1, <1>2 DEF StatusInv, StatusTyped, G!Without
  <2>2. cached' \in PerPart /\ copy' \in [Client -> PerPart]
    BY <1>1, <1>2, Fibers DEF StatusInv, StatusTyped, PerPart
  <2>3. /\ at' \in [G!Fiber -> G!Place] /\ source' \in [G!Fiber -> G!Fiber]
        /\ silent' \in BOOLEAN /\ subscribers' \in Nat
    BY <1>1, <1>2, Fibers DEF StatusInv, StatusTyped
  <2> QED
    BY <1>2, <2>1, <2>2, <2>3 DEF StatusInv, StatusTyped
<1>6. StreamsAreCounted'
  BY <1>1, <1>2, <1>3, OneMoreStream DEF StatusInv
<1>7. ASSUME NEW d \in Client PROVE InTune(d)'
  <2>1. InTune(d) /\ events'[d] = events[d]
    BY <1>2 DEF StatusInv
  <2>2. events'[d]["remote"] \in {None, cached'["remote"]}
    BY <1>4, <2>1 DEF InTune
  <2>3. events'[d]["local"] \in {None, cached'["local"]} \/ silent'
    BY <1>2, <1>4, <2>1 DEF InTune
  <2>4. CASE d = c
    BY <1>1, <1>3, <1>4, <2>2, <2>3, <2>4 DEF InTune
  <2>5. CASE d # c
    <3>1. at'[d] = at[d] /\ copy'[d] = copy[d] /\ (G!Nothing)' = G!Nothing
      BY <1>3, <1>4, <2>5 DEF G!Nothing
    <3>2. at[d] = "on" /\ events[d]["local"] = None =>
             copy[d]["local"] = cached'["local"] \/ silent'
      BY <1>2, <1>4, <2>1 DEF InTune
    <3> QED
      BY <1>4, <2>1, <2>2, <2>3, <3>1, <3>2 DEF InTune
  <2> QED
    BY <2>4, <2>5
<1> QED
  BY <1>5, <1>6, <1>7 DEF StatusInv

LEMMA CloseStep ==
    ASSUME StatusInv, NEW c \in Client, G!Close(c)
    PROVE  StatusInv'
<1>1. c \in G!Fiber /\ c # Poller /\ at[c] \in {"local", "on"}
      /\ UNCHANGED <<repository, cached, copy, silent>>
  BY Fibers DEF G!Close, G!Subscribed, G!bounds
<1>2. CASE at[c] = "local"
  <2>1. G!Abandon(c, "off") /\ UNCHANGED subscribers
    BY <1>2 DEF G!Close
  <2> QED
    BY <1>1, <1>2, <2>1, AbandonStep, Fibers
<1>3. CASE at[c] = "on"
  <2>1. PICK gone \in {{c, Poller}, {c}} :
          /\ at' = [x \in G!Fiber |-> IF x \in gone THEN "off" ELSE at[x]]
          /\ read' = [x \in G!Fiber |-> IF x \in gone THEN None ELSE read[x]]
          /\ running' = [p \in G!Part |-> IF running[p] \in gone THEN None
                                          ELSE running[p]]
          /\ subscribers' = subscribers - 1
          /\ events' = [events EXCEPT ![c] = G!Nothing]
          /\ UNCHANGED source
    BY <1>3 DEF G!Close
  <2>2. at'[c] = "off" /\ \A d \in Client \ {c} : at'[d] = at[d]
    BY <1>1, <2>1, Fibers
  <2>3. StreamsAreCounted' /\ subscribers # 0
    BY <1>3, <2>1, <2>2, OneStreamLess DEF StatusInv
  <2>4. StatusTyped'
    <3>1. subscribers' \in Nat
      BY <2>1, <2>3 DEF StatusInv, StatusTyped
    <3>2. /\ at' \in [G!Fiber -> G!Place]
          /\ read' \in [G!Fiber -> Status \cup {None}]
          /\ running' \in [G!Part -> G!Fiber \cup {None}]
          /\ events' \in [Client -> PerPart]
      BY <2>1, Fibers DEF StatusInv, StatusTyped
    <3> QED
      BY <1>1, <2>1, <3>1, <3>2 DEF StatusInv, StatusTyped
  <2>5. InTune(c)'
    <3>1. events'[c] = G!Nothing /\ (G!Nothing)' = G!Nothing
      BY <2>1 DEF StatusInv, StatusTyped, G!Nothing
    <3> QED
      BY <2>2, <3>1, Fibers DEF InTune
  <2>6. \A d \in Client \ {c} : InTune(d)'
    <3>1. \A d \in Client \ {c} : events'[d] = events[d]
      BY <2>1 DEF StatusInv, StatusTyped
    <3> QED
      BY <1>1, <2>2, <3>1, SameTune DEF StatusInv
  <2> QED
    BY <2>3, <2>4, <2>5, <2>6 DEF StatusInv
<1> QED
  BY <1>1, <1>2, <1>3

LEMMA DeliverStep ==
    ASSUME StatusInv, NEW c \in Client, G!Deliver(c)
    PROVE  StatusInv'
<1>1. /\ at[c] = "on"
      /\ copy' = [copy EXCEPT ![c] = G!Expected(c)]
      /\ events' = [events EXCEPT ![c] = G!Nothing]
      /\ UNCHANGED <<repository, running, cached, subscribers, at, source, read,
                     silent>>
  BY DEF G!Deliver, G!lookup, G!bounds
<1>2. /\ G!Expected(c) \in PerPart
      /\ \A p \in G!Part : G!Expected(c)[p] =
            IF events[c][p] # None THEN events[c][p] ELSE copy[c][p]
  BY DEF G!Expected, StatusInv, StatusTyped, PerPart
<1>3. /\ copy'[c] = G!Expected(c) /\ events'[c] = G!Nothing
      /\ \A d \in Client \ {c} : copy'[d] = copy[d] /\ events'[d] = events[d]
  BY <1>1 DEF StatusInv, StatusTyped
<1>4. StatusTyped'
  BY <1>1, <1>2, Fibers DEF StatusInv, StatusTyped
<1>5. StreamsAreCounted'
  BY <1>1, SameStreams DEF StatusInv
<1>6. InTune(c)'
  <2>1. /\ copy'[c]["remote"] = cached["remote"]
        /\ copy'[c]["local"] # None
        /\ copy'[c]["local"] = cached["local"] \/ silent
    BY <1>1, <1>2, <1>3, Fibers DEF StatusInv, InTune
  <2>2. events'[c]["local"] = None /\ events'[c]["remote"] = None
    BY <1>3, Fibers
  <2> QED
    BY <1>1, <2>1, <2>2 DEF InTune
<1>7. \A d \in Client \ {c} : InTune(d)'
  BY <1>1, <1>3, SameTune DEF StatusInv
<1> QED
  BY <1>4, <1>5, <1>6, <1>7 DEF StatusInv

(* A refresh or a round of the poller has its result.                      *)
LEMMA RefreshedStep ==
    ASSUME StatusInv, NEW x \in RefreshCall \cup {Poller}, G!Refreshed(x)
    PROVE  StatusInv'
<1> DEFINE p == at[x]
           v == read[x]
<1>1. /\ x \in G!Fiber /\ x \notin Client /\ p \in G!Part
      /\ v \in Status /\ v # None
  BY Fibers DEF G!Refreshed, StatusInv, StatusTyped
<1>2. /\ cached' = [cached EXCEPT ![p] = v]
      /\ events' = [c \in Client |->
                      IF cached[p] # v /\ at[c] \in {"local", "on"}
                      THEN [events[c] EXCEPT ![p] = v] ELSE events[c]]
      /\ silent' = (silent /\ (p = "remote" \/ cached[p] = v))
  BY DEF G!Refreshed, G!Update, G!Subscribed
<1>3. /\ read' = [y \in G!Fiber |-> IF y \in G!Joined(x) THEN v
                                    ELSE IF y = x THEN None ELSE read[y]]
      /\ UNCHANGED <<repository, subscribers, source, copy>>
  BY DEF G!Refreshed, G!bounds
<1>4. /\ \E place \in {"remote", "asleep", "done"} : at' = [at EXCEPT ![x] = place]
      /\ running' \in {G!Without(x), [G!Without(x) EXCEPT !["remote"] = x]}
  BY DEF G!Refreshed
<1> HIDE DEF p, v
<1>5. \A c \in Client : at'[c] = at[c]
  BY <1>1, <1>4 DEF StatusInv, StatusTyped
<1>6. \A c \in Client : events'[c] =
         IF cached[p] # v /\ at[c] \in {"local", "on"}
         THEN [events[c] EXCEPT ![p] = v] ELSE events[c]
  BY <1>2
<1>7. cached'[p] = v /\ \A q \in G!Part \ {p} : cached'[q] = cached[q]
  BY <1>1, <1>2 DEF StatusInv, StatusTyped, PerPart
<1>8. \A c \in Client : [events[c] EXCEPT ![p] = v] \in PerPart
  BY <1>1 DEF StatusInv, StatusTyped, PerPart
<1>9. StatusTyped'
  <2>1. running' \in [G!Part -> G!Fiber \cup {None}]
    <3>1. G!Without(x) \in [G!Part -> G!Fiber \cup {None}]
      BY DEF StatusInv, StatusTyped, G!Without
    <3> QED
      BY <1>1, <1>4, <3>1
  <2>2. events' \in [Client -> PerPart]
    BY <1>2, <1>8 DEF StatusInv, StatusTyped
  <2>3. cached' \in PerPart
    BY <1>1, <1>2 DEF StatusInv, StatusTyped, PerPart
  <2>4. /\ at' \in [G!Fiber -> G!Place] /\ read' \in [G!Fiber -> Status \cup {None}]
        /\ silent' \in BOOLEAN
    BY <1>1, <1>2, <1>3, <1>4, Fibers DEF StatusInv, StatusTyped
  <2> QED
    BY <1>3, <2>1, <2>2, <2>3, <2>4 DEF StatusInv, StatusTyped
<1>10. StreamsAreCounted'
  BY <1>3, <1>5, SameStreams DEF StatusInv
<1>11. ASSUME NEW c \in Client PROVE InTune(c)'
  <2>1. /\ InTune(c) /\ at'[c] = at[c] /\ copy'[c] = copy[c]
        /\ events[c] \in PerPart /\ cached \in PerPart
        /\ (G!Nothing)' = G!Nothing
    BY <1>3, <1>5 DEF StatusInv, StatusTyped, G!Nothing
  <2>2. p \in {"local", "remote"}
    BY <1>1, Fibers
  <2>3. CASE cached[p] = v
    <3>1. cached' = cached /\ events'[c] = events[c] /\ silent' = silent
      <4>1. cached' = cached
        BY <1>2, <2>1, <2>3 DEF PerPart
      <4>2. silent' = silent
        BY <1>2, <2>3 DEF StatusInv, StatusTyped
      <4> QED
        BY <4>1, <4>2, <1>6, <2>3
    <3> QED
      BY <2>1, <3>1, SameTune
  <2>4. CASE cached[p] # v /\ at[c] \notin {"local", "on"}
    <3>1. events'[c] = events[c] /\ events[c] = G!Nothing
      BY <1>6, <2>1, <2>4 DEF InTune
    <3> QED
      BY <2>1, <2>4, <3>1, Fibers DEF InTune
  <2>5. CASE cached[p] # v /\ at[c] \in {"local", "on"}
    <3>1. /\ events'[c][p] = v
          /\ \A q \in {"local", "remote"} \ {p} : events'[c][q] = events[c][q]
      BY <1>1, <1>6, <2>1, <2>5, Fibers DEF PerPart
    <3>2. /\ cached'[p] = v
          /\ \A q \in {"local", "remote"} \ {p} : cached'[q] = cached[q]
      BY <1>7, Fibers
    <3>3. CASE p = "local"
      BY <1>1, <2>1, <2>5, <3>1, <3>2, <3>3 DEF InTune
    <3>4. CASE p = "remote"
      <4>1. silent' = silent
        BY <1>2, <3>4 DEF StatusInv, StatusTyped
      <4> QED
        BY <1>1, <2>1, <2>5, <3>1, <3>2, <3>4, <4>1 DEF InTune
    <3> QED
      BY <2>2, <3>3, <3>4
  <2> QED
    BY <2>3, <2>4, <2>5
<1> QED
  BY <1>9, <1>10, <1>11 DEF StatusInv

-----------------------------------------------------------------------------
LEMMA StatusStep == StatusInv /\ [G!Next]_(G!vars) => StatusInv'
<1> SUFFICES ASSUME StatusInv, [G!Next]_(G!vars) PROVE StatusInv'
  OBVIOUS
<1>1. ASSUME NEW r \in RefreshCall, G!Refresh(r) PROVE StatusInv'
  <2>1. /\ G!Waits(r, "local", r) /\ running' = [running EXCEPT !["local"] = r]
        /\ UNCHANGED <<repository, cached, subscribers, events, copy, silent>>
    BY <1>1 DEF G!Refresh, G!bounds
  <2> QED
    BY <2>1, LookupStep, Fibers
<1>2. CASE G!Wake
  <2>1. /\ G!Waits(Poller, "remote", Poller)
        /\ running' = [running EXCEPT !["remote"] = Poller]
        /\ UNCHANGED <<repository, cached, subscribers, events, copy, silent>>
    BY <1>2 DEF G!Wake, G!bounds
  <2> QED
    BY <2>1, LookupStep, Fibers
<1>3. ASSUME NEW r \in RefreshCall, G!Leave(r) PROVE StatusInv'
  <2>1. /\ at[r] \in G!Part /\ G!Abandon(r, "done")
        /\ UNCHANGED <<repository, cached, subscribers, copy, silent>>
    BY <1>3 DEF G!Leave, G!bounds
  <2> QED
    BY <2>1, AbandonStep, Fibers
<1>4. ASSUME NEW x \in G!Fiber, G!Fail(x) PROVE StatusInv'
  <2>1. PICK place \in {"off", "asleep", "done"} :
          G!Abandon(x, place) /\ (x \in Client => place = "off")
    BY <1>4, Fibers DEF G!Fail
  <2>2. /\ at[x] \in G!Part
        /\ UNCHANGED <<repository, cached, subscribers, copy, silent>>
    BY <1>4 DEF G!Fail
  <2> QED
    BY <2>1, <2>2, AbandonStep
<1>5. ASSUME UNCHANGED <<cached, subscribers, at, source, read, events, copy, silent>>,
             repository' \in [G!Part -> Status],
             running' \in [G!Part -> G!Fiber \cup {None}]
      PROVE  StatusInv'
  <2>1. StatusTyped'
    BY <1>5 DEF StatusInv, StatusTyped
  <2> QED
    BY <1>5, <2>1, SameStreams, SameTune DEF StatusInv
<1>6. CASE G!Invalidate
  BY <1>5, <1>6 DEF G!Invalidate, G!lookup, G!bounds, StatusInv, StatusTyped
<1>7. ASSUME NEW p \in G!Part, NEW v \in Status, G!Change(p, v) PROVE StatusInv'
  BY <1>5, <1>7 DEF G!Change, G!lookup, StatusInv, StatusTyped
<1>8. CASE UNCHANGED G!vars
  BY <1>5, <1>8 DEF G!vars, G!lookup, StatusInv, StatusTyped
<1>9. CASE G!Next
  BY <1>1, <1>2, <1>3, <1>4, <1>6, <1>7, <1>9, OpenStep, LoadedStep, CloseStep,
     DeliverStep, RefreshedStep, ReadStep DEF G!Next
<1> QED
  BY <1>8, <1>9

LEMMA StatusInvariant == G!Spec => []StatusInv
  BY StatusInit, StatusStep, PTL DEF G!Spec

(* Every reachable state of the broadcaster is well-typed.                 *)
THEOREM StatusTypeCorrect == G!Spec => []G!TypeOK
<1>1. StatusInv => G!TypeOK
  BY DEF StatusInv, StatusTyped, G!TypeOK, PerPart
<1> QED
  BY <1>1, StatusInvariant, PTL

(* Whatever lookups overlap, fail or are abandoned and whoever comes and   *)
(* goes: every open stream shows the cached status or is about to, unless  *)
(* a load has overwritten the local part.                                  *)
THEOREM StreamsFollow == G!Spec => []StreamsFollowTheCache
<1>1. StatusInv => StreamsFollowTheCache
  BY Fibers
     DEF StatusInv, InTune, StreamsFollowTheCache, G!StreamsFollowTheCache, G!Expected
<1> QED
  BY <1>1, StatusInvariant, PTL
=============================================================================
