--------------------------- MODULE WorkersProofs ---------------------------
(***************************************************************************)
(* Theorems of the two workers of packages/shared, for any keys, requests  *)
(* and items, after the facts about sequences that they rest on.           *)
(***************************************************************************)
EXTENDS MCWorkers, SequenceTheorems, TLAPS


(* Appending to the second part of a concatenation appends to the whole.   *)
LEMMA AppendToConcat ==
    ASSUME NEW S, NEW s \in Seq(S), NEW t \in Seq(S), NEW e \in S
    PROVE  s \o Append(t, e) = Append(s \o t, e)
<1>1. Append(t, e) = t \o <<e>>
  BY AppendIsConcat
<1>2. s \o t \in Seq(S)
  BY ConcatProperties
<1>3. Append(s \o t, e) = (s \o t) \o <<e>>
  BY <1>2, AppendIsConcat
<1>4. <<e>> \in Seq(S)
  OBVIOUS
<1>5. (s \o t) \o <<e>> = s \o (t \o <<e>>)
  BY <1>4, ConcatAssociative
<1> QED
  BY <1>1, <1>3, <1>5

(* The first part of a concatenation is a prefix of it.                    *)
LEMMA PrefixOfConcatenation ==
    ASSUME NEW S, NEW s \in Seq(S), NEW t \in Seq(S)
    PROVE  /\ SubSeq(s \o t, 1, Len(s)) = s
           /\ Len(s \o t) = Len(s) + Len(t)
           /\ Len(s) \in Nat /\ Len(t) \in Nat
<1> DEFINE a == SubSeq(s \o t, 1, Len(s))
<1>1. /\ Len(s) \in Nat /\ Len(t) \in Nat
      /\ s \o t \in Seq(S) /\ Len(s \o t) = Len(s) + Len(t)
      /\ \A i \in 1..(Len(s) + Len(t)) :
            (s \o t)[i] = IF i <= Len(s) THEN s[i] ELSE t[i - Len(s)]
  BY ConcatProperties, LenProperties
<1>2. \A i \in 1..Len(s) : (s \o t)[i] \in S
  <2>1. \A i \in 1..Len(s) : s[i] \in S
    BY ElementOfSeq
  <2> QED
    BY <2>1, <1>1
<1>3. /\ a \in Seq(S)
      /\ Len(a) = IF 1 <= Len(s) THEN Len(s) - 1 + 1 ELSE 0
      /\ \A i \in 1..(Len(s) - 1 + 1) : a[i] = (s \o t)[1 + i - 1]
  BY <1>1, <1>2, SubSeqProperties
<1> HIDE DEF a
<1>4. Len(a) = Len(s)
  BY <1>1, <1>3
<1>5. \A i \in 1..Len(a) : a[i] = s[i]
  BY <1>1, <1>3, <1>4
<1>6. a = s
  BY <1>3, <1>4, <1>5, SeqEqual
<1> QED
  BY <1>1, <1>6 DEF a

(* A non-empty sequence is its head followed by its tail.                  *)
LEMMA HeadThenTail ==
    ASSUME NEW S, NEW s \in Seq(S), s # <<>>
    PROVE  <<Head(s)>> \o Tail(s) = s
<1> DEFINE a == <<Head(s)>> \o Tail(s)
           h == <<Head(s)>>
<1>1. /\ Head(s) = s[1] /\ Len(s) \in Nat \ {0} /\ s[1] \in S
      /\ Tail(s) \in Seq(S) /\ Len(Tail(s)) = Len(s) - 1
      /\ \A i \in 1..Len(Tail(s)) : Tail(s)[i] = s[i + 1]
  BY HeadTailProperties, EmptySeq
<1>2. h \in Seq(S) /\ Len(h) = 1 /\ h[1] = s[1]
  BY <1>1
<1> HIDE DEF h
<1>3. /\ h \o Tail(s) \in Seq(S) /\ Len(h \o Tail(s)) = Len(h) + Len(Tail(s))
      /\ \A i \in 1..(Len(h) + Len(Tail(s))) :
            (h \o Tail(s))[i] = IF i <= Len(h) THEN h[i]
                                ELSE Tail(s)[i - Len(h)]
  BY <1>1, <1>2, ConcatProperties
<1>4. /\ a \in Seq(S) /\ Len(a) = Len(s)
      /\ \A i \in 1..Len(s) :
            a[i] = IF i <= 1 THEN s[1] ELSE Tail(s)[i - 1]
  BY <1>1, <1>2, <1>3 DEF h
<1> HIDE DEF a
<1>5. \A i \in 1..Len(a) : a[i] = s[i]
  BY <1>1, <1>4
<1>6. a = s
  BY <1>4, <1>5, SeqEqual
<1> QED
  BY <1>6 DEF a, h

(* Concatenation is associative and has <<>> as its unit.                  *)
LEMMA Concatenation ==
    ASSUME NEW S, NEW s \in Seq(S), NEW t \in Seq(S), NEW u \in Seq(S)
    PROVE  /\ (s \o t) \o u = s \o (t \o u)
           /\ s \o t \in Seq(S)
           /\ s \o <<>> = s /\ <<>> \o s = s
<1>1. s \o t \in Seq(S)
  BY ConcatProperties
<1>2. (s \o t) \o u = s \o (t \o u)
  BY ConcatAssociative
<1>3. s \o <<>> = s /\ <<>> \o s = s
  BY ConcatEmptySeq
<1> QED
  BY <1>1, <1>2, <1>3
-----------------------------------------------------------------------------
(* The keyed coalescing worker: a request is never lost.                   *)


WorkerInv == TypeOK /\ NothingLost /\ PendingIsScheduled /\ DrainIsHonest

(* What NothingLost says of one key, with the types of its parts.          *)
LEMMA KeyFacts ==
    ASSUME TypeOK, NEW k \in Key
    PROVE  /\ latest[k] \in Seq(Request) /\ handled[k] \in Seq(Request)
           /\ accepted[k] \in Seq(Request) /\ InHand(k) \in Seq(Request)
           /\ Len(handled[k]) \in Nat /\ Len(accepted[k]) \in Nat
<1>1. latest[k] \in Seq(Request) /\ handled[k] \in Seq(Request)
      /\ accepted[k] \in Seq(Request)
  BY DEF TypeOK
<1>2. value \in Seq(Request) /\ <<>> \in Seq(Request)
  BY DEF TypeOK
<1>3. InHand(k) \in Seq(Request)
  BY <1>2 DEF InHand
<1> QED
  BY <1>1, <1>3, LenProperties

-----------------------------------------------------------------------------
(* Types.                                                                  *)

LEMMA TypeInit == Init => TypeOK
  BY WorkerAssumption DEF Init, TypeOK, Place

LEMMA TypeStep == TypeOK /\ [Next]_vars => TypeOK'
<1> SUFFICES ASSUME TypeOK, [Next]_vars PROVE TypeOK'
  OBVIOUS
<1> USE WorkerAssumption DEF Place
<1>1. ASSUME NEW k \in Key, NEW r \in Request, Enqueue(k, r) PROVE TypeOK'
  <2>1. Append(latest[k], r) \in Seq(Request)
        /\ Append(accepted[k], r) \in Seq(Request)
        /\ Append(queue, k) \in Seq(Key)
    BY DEF TypeOK
  <2>2. queue' \in Seq(Key) /\ queued' \subseteq Key
    BY <1>1, <2>1 DEF Enqueue, TypeOK
  <2>3. /\ latest' \in [Key -> Seq(Request)]
        /\ accepted' \in [Key -> Seq(Request)]
    BY <1>1, <2>1 DEF Enqueue, TypeOK
  <2> QED
    BY <1>1, <2>2, <2>3 DEF Enqueue, TypeOK, fiber
<1>2. ASSUME Take PROVE TypeOK'
  <2>1. Head(queue) \in Key /\ Tail(queue) \in Seq(Key)
    BY <1>2, HeadTailProperties DEF Take, TypeOK
  <2> QED
    BY <1>2, <2>1 DEF Take, TypeOK, state
<1>3. ASSUME Claim PROVE TypeOK'
  <2>1. held \in Key /\ <<>> \in Seq(Request)
    BY <1>3 DEF Claim, TypeOK
  <2>2. CASE latest[held] = <<>>
    BY <1>3, <2>1, <2>2 DEF Claim, TypeOK
  <2>3. CASE latest[held] # <<>>
    <3>1. /\ value' \in Seq(Request) /\ value' # <<>>
          /\ latest' \in [Key -> Seq(Request)]
          /\ active' \subseteq Key /\ queued' \subseteq Key
      <4>1. /\ value' = latest[held]
            /\ latest' = [latest EXCEPT ![held] = <<>>]
            /\ active' = active \cup {held} /\ queued' = queued \ {held}
        BY <1>3, <2>3 DEF Claim
      <4>2. latest \in [Key -> Seq(Request)] /\ latest[held] \in Seq(Request)
        BY <2>1 DEF TypeOK
      <4>3. active' \subseteq Key /\ queued' \subseteq Key
        BY <2>1, <4>1 DEF TypeOK
      <4>4. latest' \in [Key -> Seq(Request)]
        BY <2>1, <4>1, <4>2
      <4> QED
        BY <2>3, <4>1, <4>2, <4>3, <4>4
    <3>2. /\ at' = "processing" /\ held' = held /\ held # NoKey
          /\ UNCHANGED <<queue, accepted, handled, told>>
      BY <1>3, <2>1, <2>3 DEF Claim
    <3> QED
      BY <2>1, <3>1, <3>2 DEF TypeOK
  <2> QED
    BY <2>2, <2>3
<1>4. ASSUME at = "processing" PROVE held \in Key /\ <<>> \in Seq(Request)
      /\ [handled EXCEPT ![held] = @ \o value] \in [Key -> Seq(Request)]
  <2>1. held \in Key
    BY <1>4 DEF TypeOK
  <2>2. handled[held] \o value \in Seq(Request)
    BY <2>1, ConcatProperties DEF TypeOK
  <2> QED
    BY <2>1, <2>2 DEF TypeOK
<1>5. ASSUME Succeed PROVE TypeOK'
  <2>1. at = "processing"
    BY <1>5 DEF Succeed
  <2>2. handled' \in [Key -> Seq(Request)]
    BY <1>5, <2>1, <1>4 DEF Succeed
  <2>3. CASE latest[held] = <<>>
    BY <1>5, <2>1, <1>4, <2>2, <2>3 DEF Succeed, TypeOK
  <2>4. CASE latest[held] # <<>>
    <3>1. /\ value' \in Seq(Request) /\ value' # <<>>
          /\ latest' \in [Key -> Seq(Request)]
      <4>1. value' = latest[held] /\ latest' = [latest EXCEPT ![held] = <<>>]
        BY <1>5, <2>4 DEF Succeed
      <4>2. /\ latest \in [Key -> Seq(Request)] /\ latest[held] \in Seq(Request)
            /\ held \in Key /\ <<>> \in Seq(Request)
        BY <2>1, <1>4 DEF TypeOK
      <4>3. latest' \in [Key -> Seq(Request)]
        BY <4>1, <4>2
      <4> QED
        BY <2>4, <4>1, <4>2, <4>3
    <3>2. UNCHANGED <<active, at, held, queued, queue, accepted, told>>
      BY <1>5, <2>4 DEF Succeed
    <3> QED
      BY <2>1, <2>2, <3>1, <3>2 DEF TypeOK
  <2> QED
    BY <2>3, <2>4
<1>6. ASSUME Fail PROVE TypeOK'
  <2>1. at = "processing"
    BY <1>6 DEF Fail
  <2>2. handled' \in [Key -> Seq(Request)]
    BY <1>6, <2>1, <1>4 DEF Fail
  <2> QED
    BY <1>6, <2>1, <1>4, <2>2 DEF Fail, TypeOK
<1>7. ASSUME Requeue PROVE TypeOK'
  <2>1. held \in Key
    BY <1>7 DEF Requeue, TypeOK
  <2>2. Append(queue, held) \in Seq(Key)
    BY <2>1 DEF TypeOK
  <2> QED
    BY <1>7, <2>2 DEF Requeue, TypeOK, state
<1>8. ASSUME NEW k \in Key, DrainKey(k) PROVE TypeOK'
  <2>1. Len(accepted[k]) \in Nat
    BY LenProperties DEF TypeOK
  <2> QED
    BY <1>8, <2>1 DEF DrainKey, TypeOK, state, fiber
<1>9. CASE UNCHANGED vars
  BY <1>9 DEF TypeOK, vars, state, fiber
<1> QED
  BY <1>1, <1>2, <1>3, <1>5, <1>6, <1>7, <1>8, <1>9 DEF Next, Fiber

-----------------------------------------------------------------------------
(* Where a pending key waits.                                              *)

LEMMA ScheduledStep ==
    TypeOK /\ TypeOK' /\ PendingIsScheduled /\ [Next]_vars
        => PendingIsScheduled'
<1> SUFFICES ASSUME TypeOK, TypeOK', PendingIsScheduled, [Next]_vars
             PROVE  PendingIsScheduled'
  OBVIOUS
<1> DEFINE InQueue(k) == \E i \in 1..Len(queue) : queue[i] = k
<1>0. Len(queue) \in Nat /\ queue \in Seq(Key)
  BY LenProperties DEF TypeOK
<1>1. ASSUME NEW k \in Key, ~ InQueue(k), queue' = Append(queue, k)
      PROVE  /\ \A i, j \in 1..Len(queue') : queue'[i] = queue'[j] => i = j
             /\ \A q \in Key : (\E i \in 1..Len(queue') : queue'[i] = q)
                                  <=> InQueue(q) \/ q = k
  <2>1. /\ Len(queue') = Len(queue) + 1
        /\ \A i \in 1..Len(queue) : queue'[i] = queue[i]
        /\ queue'[Len(queue) + 1] = k
    BY <1>0, <1>1, AppendProperties
  <2>2. \A i, j \in 1..Len(queue) : queue[i] = queue[j] => i = j
    BY DEF PendingIsScheduled
  <2>3. \A i \in 1..Len(queue) : queue[i] # k
    BY <1>1
  <2>4. \A i, j \in 1..Len(queue') : queue'[i] = queue'[j] => i = j
    <3> SUFFICES ASSUME NEW i \in 1..Len(queue'), NEW j \in 1..Len(queue'),
                        queue'[i] = queue'[j]
                 PROVE  i = j
      OBVIOUS
    <3>1. i \in 1..Len(queue) \/ i = Len(queue) + 1
      BY <1>0, <2>1
    <3>2. j \in 1..Len(queue) \/ j = Len(queue) + 1
      BY <1>0, <2>1
    <3> QED
      BY <2>1, <2>2, <2>3, <3>1, <3>2
  <2>5. ASSUME NEW q \in Key
        PROVE (\E i \in 1..Len(queue') : queue'[i] = q) <=> InQueue(q) \/ q = k
    <3>1. \A i \in 1..Len(queue') : i \in 1..Len(queue) \/ i = Len(queue) + 1
      BY <1>0, <2>1
    <3>2. /\ \A i \in 1..Len(queue) : i \in 1..Len(queue')
          /\ Len(queue) + 1 \in 1..Len(queue')
      BY <1>0, <2>1
    <3> QED
      BY <2>1, <3>1, <3>2
  <2> QED
    BY <2>4, <2>5
<1>2. ASSUME NEW k \in Key, NEW r \in Request, Enqueue(k, r)
      PROVE  PendingIsScheduled'
  <2>1. /\ latest' = [latest EXCEPT ![k] = Append(@, r)]
        /\ UNCHANGED <<active, at, held>>
    BY <1>2 DEF Enqueue, fiber
  <2>2. latest'[k] # <<>> /\ \A q \in Key \ {k} : latest'[q] = latest[q]
    <3>1. latest'[k] = Append(latest[k], r) /\ latest[k] \in Seq(Request)
      BY <2>1 DEF TypeOK
    <3>2. Len(latest'[k]) = Len(latest[k]) + 1 /\ Len(latest[k]) \in Nat
      BY <3>1, AppendProperties, LenProperties
    <3>3. latest'[k] # <<>>
      BY <3>2
    <3> QED
      BY <2>1, <3>3 DEF TypeOK
  <2>3. CASE k \in queued \cup active
    <3>1. UNCHANGED <<queued, queue>>
      BY <1>2, <2>3 DEF Enqueue
    <3> QED
      BY <2>1, <2>2, <2>3, <3>1 DEF PendingIsScheduled
  <2>4. CASE k \notin queued \cup active
    <3>1. queued' = queued \cup {k} /\ queue' = Append(queue, k)
      BY <1>2, <2>4 DEF Enqueue
    <3>2. ~ InQueue(k) /\ ~ (held = k /\ at \in {"claiming", "requeueing"})
      BY <2>4 DEF PendingIsScheduled
    <3>3. /\ \A i, j \in 1..Len(queue') : queue'[i] = queue'[j] => i = j
          /\ \A q \in Key : (\E i \in 1..Len(queue') : queue'[i] = q)
                               <=> InQueue(q) \/ q = k
      BY <1>1, <3>1, <3>2
    <3>4. \A i \in 1..Len(queue') :
             ~ (held' = queue'[i] /\ at' \in {"claiming", "requeueing"})
      <4> SUFFICES ASSUME NEW i \in 1..Len(queue'), held' = queue'[i],
                          at' \in {"claiming", "requeueing"}
                   PROVE  FALSE
        OBVIOUS
      <4>1. held' \in Key
        BY DEF TypeOK
      <4>2. InQueue(held') \/ held' = k
        BY <4>1, <3>3
      <4> QED
        BY <4>2, <3>2, <2>1 DEF PendingIsScheduled
    <3>5. \A q \in Key :
             /\ latest'[q] # <<>> => q \in queued' \cup active'
             /\ q \in queued' => latest'[q] # <<>>
             /\ q \in active' <=> held' = q /\ at' = "processing"
      BY <2>1, <2>2, <3>1 DEF PendingIsScheduled
    <3>6. \A q \in Key : q \in queued' <=>
             \/ \E i \in 1..Len(queue') : queue'[i] = q
             \/ held' = q /\ at' \in {"claiming", "requeueing"}
      BY <2>1, <3>1, <3>3 DEF PendingIsScheduled
    <3>7. queued' \cap active' = {}
      BY <2>1, <2>4, <3>1 DEF PendingIsScheduled
    <3> QED
      BY <3>3, <3>4, <3>5, <3>6, <3>7 DEF PendingIsScheduled
  <2> QED
    BY <2>3, <2>4
<1>3. ASSUME Take PROVE PendingIsScheduled'
  <2>1. /\ at = "taking" /\ at' = "claiming" /\ queue # <<>>
        /\ held' = Head(queue) /\ queue' = Tail(queue)
        /\ UNCHANGED <<latest, queued, active>>
    BY <1>3 DEF Take, state
  <2>2. /\ Head(queue) = queue[1] /\ 1 \in 1..Len(queue)
        /\ Len(queue') = Len(queue) - 1
        /\ \A i \in 1..Len(queue') : queue'[i] = queue[i + 1]
    BY <1>0, <2>1, HeadTailProperties, EmptySeq
  <2>3. \A i \in 1..Len(queue') : i + 1 \in 1..Len(queue) /\ i + 1 # 1
    BY <1>0, <2>2
  <2>4. \A i, j \in 1..Len(queue) : queue[i] = queue[j] => i = j
    BY DEF PendingIsScheduled
  <2>5. \A i, j \in 1..Len(queue') : queue'[i] = queue'[j] => i = j
    <3> SUFFICES ASSUME NEW i \in 1..Len(queue'), NEW j \in 1..Len(queue'),
                        queue'[i] = queue'[j]
                 PROVE  i = j
      OBVIOUS
    <3>1. i + 1 = j + 1
      BY <2>2, <2>3, <2>4
    <3> QED
      BY <3>1, <1>0, <2>2
  <2>6. \A i \in 1..Len(queue') : queue'[i] # held'
    BY <2>1, <2>2, <2>3, <2>4
  <2>7. \A q \in Key : InQueue(q) <=>
           (\E i \in 1..Len(queue') : queue'[i] = q) \/ q = held'
    <3> SUFFICES ASSUME NEW q \in Key
                 PROVE  InQueue(q) <=>
                           (\E i \in 1..Len(queue') : queue'[i] = q) \/ q = held'
      OBVIOUS
    <3>1. ASSUME NEW i \in 1..Len(queue), queue[i] = q
          PROVE  (\E j \in 1..Len(queue') : queue'[j] = q) \/ q = held'
      <4>1. CASE i = 1
        BY <4>1, <3>1, <2>1, <2>2
      <4>2. CASE i # 1
        <5>1. i - 1 \in 1..Len(queue') /\ (i - 1) + 1 = i
          BY <4>2, <1>0, <2>2
        <5> QED
          BY <5>1, <3>1, <2>2
      <4> QED
        BY <4>1, <4>2
    <3>2. ASSUME NEW j \in 1..Len(queue'), queue'[j] = q PROVE InQueue(q)
      BY <3>2, <2>2, <2>3
    <3> QED
      BY <3>1, <3>2, <2>1, <2>2
  <2> QED
    BY <2>1, <2>5, <2>6, <2>7 DEF PendingIsScheduled
<1>4. ASSUME Claim PROVE PendingIsScheduled'
  <2>1. held \in Key /\ held \in queued /\ held \notin active
    BY <1>4 DEF Claim, TypeOK, PendingIsScheduled
  <2>2. latest[held] # <<>>
    BY <2>1 DEF PendingIsScheduled
  <2>3. /\ queued' = queued \ {held} /\ at' = "processing"
        /\ latest' = [latest EXCEPT ![held] = <<>>]
        /\ active' = active \cup {held} /\ UNCHANGED <<held, queue>>
        /\ at = "claiming"
    BY <1>4, <2>2 DEF Claim
  <2>4. latest'[held] = <<>> /\ \A q \in Key \ {held} : latest'[q] = latest[q]
    BY <2>1, <2>3 DEF TypeOK
  <2> QED
    BY <2>1, <2>3, <2>4 DEF PendingIsScheduled
<1>5. ASSUME Succeed PROVE PendingIsScheduled'
  <2>1. /\ at = "processing" /\ held \in Key /\ held \in active
        /\ held \notin queued /\ UNCHANGED <<queued, queue>>
    BY <1>5 DEF Succeed, TypeOK, PendingIsScheduled
  <2>2. CASE latest[held] = <<>>
    <3>1. /\ active' = active \ {held} /\ at' = "taking" /\ held' = NoKey
          /\ UNCHANGED latest
      BY <1>5, <2>2 DEF Succeed
    <3> QED
      BY <2>1, <2>2, <3>1, WorkerAssumption DEF PendingIsScheduled
  <2>3. CASE latest[held] # <<>>
    <3>1. /\ latest' = [latest EXCEPT ![held] = <<>>]
          /\ UNCHANGED <<active, at, held>>
      BY <1>5, <2>3 DEF Succeed
    <3>2. latest'[held] = <<>> /\ \A q \in Key \ {held} : latest'[q] = latest[q]
      BY <2>1, <3>1 DEF TypeOK
    <3> QED
      BY <2>1, <3>1, <3>2 DEF PendingIsScheduled
  <2> QED
    BY <2>2, <2>3
<1>6. ASSUME Fail PROVE PendingIsScheduled'
  <2>1. /\ at = "processing" /\ held \in Key /\ held \in active
        /\ held \notin queued /\ UNCHANGED <<latest, queue>>
        /\ active' = active \ {held}
    BY <1>6 DEF Fail, TypeOK, PendingIsScheduled
  <2>2. CASE latest[held] = <<>>
    <3>1. at' = "taking" /\ held' = NoKey /\ UNCHANGED queued
      BY <1>6, <2>2 DEF Fail
    <3> QED
      BY <2>1, <2>2, <3>1, WorkerAssumption DEF PendingIsScheduled
  <2>3. CASE latest[held] # <<>>
    <3>1. /\ queued' = queued \cup {held} /\ at' = "requeueing"
          /\ UNCHANGED held
      BY <1>6, <2>1, <2>3 DEF Fail
    <3>2. \A i \in 1..Len(queue) : queue[i] # held
      BY <2>1 DEF PendingIsScheduled
    <3> QED
      BY <2>1, <2>3, <3>1, <3>2 DEF PendingIsScheduled
  <2> QED
    BY <2>2, <2>3
<1>7. ASSUME Requeue PROVE PendingIsScheduled'
  <2>1. /\ at = "requeueing" /\ at' = "taking" /\ held \in Key
        /\ held' = NoKey /\ queue' = Append(queue, held)
        /\ UNCHANGED <<latest, queued, active>>
    BY <1>7 DEF Requeue, state, TypeOK
  <2>2. ~ InQueue(held)
    BY <2>1 DEF PendingIsScheduled
  <2>3. /\ \A i, j \in 1..Len(queue') : queue'[i] = queue'[j] => i = j
        /\ \A q \in Key : (\E i \in 1..Len(queue') : queue'[i] = q)
                             <=> InQueue(q) \/ q = held
    BY <1>1, <2>1, <2>2
  <2> QED
    BY <2>1, <2>3, WorkerAssumption DEF PendingIsScheduled
<1>8. ASSUME NEW k \in Key, DrainKey(k) PROVE PendingIsScheduled'
  BY <1>8 DEF DrainKey, state, fiber, PendingIsScheduled
<1>9. CASE UNCHANGED vars
  BY <1>9 DEF vars, state, fiber, PendingIsScheduled
<1> QED
  BY <1>2, <1>3, <1>4, <1>5, <1>6, <1>7, <1>8, <1>9 DEF Next, Fiber

-----------------------------------------------------------------------------
(* Nothing is lost.                                                        *)

LEMMA NothingLostStep ==
    TypeOK /\ TypeOK' /\ PendingIsScheduled /\ NothingLost /\ [Next]_vars
        => NothingLost'
<1> SUFFICES ASSUME TypeOK, TypeOK', PendingIsScheduled, NothingLost,
                    [Next]_vars, NEW k \in Key
             PROVE  accepted'[k] = (handled'[k] \o InHand(k)') \o latest'[k]
  BY DEF NothingLost
<1> DEFINE Before == (handled[k] \o InHand(k)) \o latest[k]
<1>0. accepted[k] = Before
  BY DEF NothingLost
<1>t. /\ latest[k] \in Seq(Request) /\ handled[k] \in Seq(Request)
      /\ InHand(k) \in Seq(Request) /\ <<>> \in Seq(Request)
      /\ handled[k] \o InHand(k) \in Seq(Request)
      /\ value \in Seq(Request)
  BY SMTT(30), KeyFacts, Concatenation DEF TypeOK
<1>1. ASSUME NEW q \in Key, NEW r \in Request, Enqueue(q, r)
      PROVE  accepted'[k] = (handled'[k] \o InHand(k)') \o latest'[k]
  <2>1. UNCHANGED <<handled, at, held, value>> /\ InHand(k)' = InHand(k)
    BY <1>1 DEF Enqueue, fiber, InHand
  <2>2. CASE q = k
    <3>1. /\ accepted'[k] = Append(accepted[k], r)
          /\ latest'[k] = Append(latest[k], r)
      BY <1>1, <2>2 DEF Enqueue, TypeOK
    <3>2. Append(Before, r)
             = (handled[k] \o InHand(k)) \o Append(latest[k], r)
      <4>1. \A s, t \in Seq(Request) : s \o Append(t, r) = Append(s \o t, r)
        BY AppendToConcat
      <4> QED
        BY <4>1, <1>t
    <3> QED
      BY <2>1, <3>1, <3>2, <1>0
  <2>3. CASE q # k
    <3>1. accepted'[k] = accepted[k] /\ latest'[k] = latest[k]
      BY <1>1, <2>3 DEF Enqueue, TypeOK
    <3> QED
      BY <2>1, <3>1, <1>0
  <2> QED
    BY <2>2, <2>3
<1>2. ASSUME UNCHANGED <<accepted, handled, latest>>, InHand(k)' = InHand(k)
      PROVE  accepted'[k] = (handled'[k] \o InHand(k)') \o latest'[k]
  BY <1>2, <1>0
<1>3. CASE Take
  <2>1. InHand(k)' = InHand(k)
    BY <1>3 DEF Take, InHand
  <2> QED
    BY <1>2, <1>3, <2>1 DEF Take, state
<1>4. CASE Claim
  <2>1. held \in Key /\ held \in queued
    BY <1>4 DEF Claim, TypeOK, PendingIsScheduled
  <2>2. latest[held] # <<>>
    BY <2>1 DEF PendingIsScheduled
  <2>3. /\ at = "claiming" /\ at' = "processing" /\ held' = held
        /\ value' = latest[held] /\ latest' = [latest EXCEPT ![held] = <<>>]
        /\ UNCHANGED <<accepted, handled>>
    BY <1>4, <2>2 DEF Claim
  <2>4. InHand(k) = <<>>
    BY <2>3 DEF InHand
  <2>5. CASE k = held
    <3>1. InHand(k)' = latest[k] /\ latest'[k] = <<>>
      BY <2>3, <2>5 DEF InHand, TypeOK
    <3>2. /\ handled[k] \o <<>> = handled[k]
          /\ handled[k] \o latest[k] \in Seq(Request)
      BY <1>t, Concatenation
    <3>3. (handled[k] \o latest[k]) \o <<>> = handled[k] \o latest[k]
      BY <3>2, <1>t, Concatenation
    <3> QED
      BY <2>3, <2>4, <3>1, <3>2, <3>3, <1>0
  <2>6. CASE k # held
    <3>1. InHand(k)' = <<>> /\ latest'[k] = latest[k]
      BY <2>3, <2>6 DEF InHand, TypeOK
    <3> QED
      BY <2>3, <2>4, <3>1, <1>0
  <2> QED
    BY <2>5, <2>6
<1>5. ASSUME at = "processing", UNCHANGED accepted,
             handled' = [handled EXCEPT ![held] = @ \o value],
             \/ latest'[k] = latest[k] /\ InHand(k)' = <<>>
             \/ /\ k = held /\ latest'[k] = <<>>
                /\ InHand(k)' = latest[k]
      PROVE  accepted'[k] = (handled'[k] \o InHand(k)') \o latest'[k]
  <2>1. held \in Key
    BY <1>5 DEF TypeOK
  <2>2. CASE k = held
    <3>1. handled'[k] = handled[k] \o InHand(k)
      BY <1>5, <2>1, <2>2 DEF InHand, TypeOK
    <3>2. /\ handled'[k] \in Seq(Request) /\ handled'[k] \o <<>> = handled'[k]
          /\ handled'[k] \o latest[k] \in Seq(Request)
      BY <3>1, <1>t, Concatenation
    <3>3. (handled'[k] \o latest[k]) \o <<>> = handled'[k] \o latest[k]
      BY <3>2, <1>t, Concatenation
    <3> QED
      BY <1>5, <3>1, <3>2, <3>3, <1>0
  <2>3. CASE k # held
    <3>1. /\ handled'[k] = handled[k] /\ InHand(k) = <<>>
          /\ latest'[k] = latest[k] /\ InHand(k)' = <<>>
      BY <1>5, <2>1, <2>3 DEF InHand, TypeOK
    <3> QED
      BY <1>5, <3>1, <1>0
  <2> QED
    BY <2>2, <2>3
<1>6. CASE Succeed
  <2>1. /\ at = "processing" /\ UNCHANGED accepted /\ held \in Key
        /\ handled' = [handled EXCEPT ![held] = @ \o value]
    BY <1>6 DEF Succeed, TypeOK
  <2>2. CASE latest[held] = <<>>
    <3>1. UNCHANGED latest /\ at' = "taking"
      BY <1>6, <2>2 DEF Succeed
    <3>2. latest'[k] = latest[k] /\ InHand(k)' = <<>>
      BY <3>1 DEF InHand
    <3> QED
      BY <1>5, <2>1, <3>2
  <2>3. CASE latest[held] # <<>>
    <3>1. /\ value' = latest[held] /\ UNCHANGED <<at, held>>
          /\ latest' = [latest EXCEPT ![held] = <<>>]
      BY <1>6, <2>3 DEF Succeed
    <3>2. CASE k = held
      <4>1. latest'[k] = <<>> /\ InHand(k)' = latest[k]
        BY <2>1, <3>1, <3>2 DEF InHand, TypeOK
      <4> QED
        BY <1>5, <2>1, <3>2, <4>1
    <3>3. CASE k # held
      <4>1. latest'[k] = latest[k] /\ InHand(k)' = <<>>
        BY <2>1, <3>1, <3>3 DEF InHand, TypeOK
      <4> QED
        BY <1>5, <2>1, <4>1
    <3> QED
      BY <3>2, <3>3
  <2> QED
    BY <2>2, <2>3
<1>7. CASE Fail
  <2>1. /\ at = "processing" /\ UNCHANGED <<accepted, latest>>
        /\ handled' = [handled EXCEPT ![held] = @ \o value]
        /\ at' \in {"taking", "requeueing"}
    BY <1>7 DEF Fail
  <2>2. InHand(k)' = <<>>
    BY <2>1 DEF InHand
  <2> QED
    BY <1>5, <2>1, <2>2
<1>8. CASE Requeue
  <2>1. InHand(k)' = InHand(k)
    BY <1>8 DEF Requeue, InHand
  <2> QED
    BY <1>2, <1>8, <2>1 DEF Requeue, state
<1>9. ASSUME NEW q \in Key, DrainKey(q)
      PROVE  accepted'[k] = (handled'[k] \o InHand(k)') \o latest'[k]
  <2>1. InHand(k)' = InHand(k)
    BY <1>9 DEF DrainKey, fiber, InHand
  <2> QED
    BY <1>2, <1>9, <2>1 DEF DrainKey, state
<1>10. CASE UNCHANGED vars
  <2>1. InHand(k)' = InHand(k)
    BY <1>10 DEF vars, fiber, InHand
  <2> QED
    BY <1>2, <1>10, <2>1 DEF vars, state
<1> QED
  BY <1>1, <1>3, <1>4, <1>6, <1>7, <1>8, <1>9, <1>10 DEF Next, Fiber

-----------------------------------------------------------------------------
(* A quiet key has been handled in full.                                   *)
LEMMA QuietIsHandled ==
    ASSUME TypeOK, PendingIsScheduled, NothingLost, NEW k \in Key, DrainKey(k)
    PROVE  handled[k] = accepted[k]
<1>1. latest[k] = <<>> /\ k \notin active
  BY DEF DrainKey
<1>2. InHand(k) = <<>>
  BY <1>1 DEF InHand, PendingIsScheduled
<1>3. handled[k] \in Seq(Request) /\ handled[k] \o <<>> = handled[k]
  BY KeyFacts, Concatenation
<1> QED
  BY <1>1, <1>2, <1>3 DEF NothingLost

(* The history of handled requests grows only by what is in hand.          *)
LEMMA HandledStep ==
    TypeOK /\ [Next]_vars
        => \/ UNCHANGED handled
           \/ /\ at = "processing" /\ held \in Key
              /\ handled' = [handled EXCEPT ![held] = @ \o value]
  BY DEF Next, Fiber, Enqueue, DrainKey, Take, Claim, Succeed, Fail, Requeue,
         vars, TypeOK

LEMMA DrainStep ==
    WorkerInv /\ [Next]_vars => DrainIsHonest'
<1> SUFFICES ASSUME WorkerInv, [Next]_vars, NEW k \in Key
             PROVE  told'[k] <= Len(handled'[k])
  BY DEF DrainIsHonest
<1>1. /\ told[k] <= Len(handled[k]) /\ told[k] \in Nat
      /\ Len(handled[k]) \in Nat
  BY KeyFacts DEF WorkerInv, DrainIsHonest, TypeOK
<1>2. ASSUME NEW q \in Key, DrainKey(q) PROVE told'[k] <= Len(handled'[k])
  <2>1. handled' = handled /\ told' = [told EXCEPT ![q] = Len(accepted[q])]
    BY <1>2 DEF DrainKey
  <2>2. CASE k = q
    <3>1. handled[k] = accepted[k]
      BY <1>2, <2>2, QuietIsHandled DEF WorkerInv
    <3> QED
      BY <2>1, <2>2, <3>1, <1>1 DEF WorkerInv, TypeOK
  <2>3. CASE k # q
    BY <2>1, <2>3, <1>1 DEF WorkerInv, TypeOK
  <2> QED
    BY <2>2, <2>3
<1>3. CASE UNCHANGED told
  <2>1. CASE UNCHANGED handled
    BY <2>1, <1>3, <1>1
  <2>2. CASE /\ at = "processing" /\ held \in Key
             /\ handled' = [handled EXCEPT ![held] = @ \o value]
    <3>1. CASE k = held
      <4>1. handled'[k] = handled[k] \o value
        BY <2>2, <3>1 DEF WorkerInv, TypeOK
      <4>2. /\ Len(handled[k] \o value) = Len(handled[k]) + Len(value)
            /\ Len(value) \in Nat
        BY PrefixOfConcatenation, KeyFacts DEF WorkerInv, TypeOK
      <4> QED
        BY <4>1, <4>2, <1>1, <1>3
    <3>2. CASE k # held
      BY <2>2, <3>2, <1>1, <1>3 DEF WorkerInv, TypeOK
    <3> QED
      BY <3>1, <3>2
  <2>3. TypeOK
    BY DEF WorkerInv
  <2>4. \/ UNCHANGED handled
        \/ /\ at = "processing" /\ held \in Key
           /\ handled' = [handled EXCEPT ![held] = @ \o value]
    BY <2>3, HandledStep
  <2> QED
    BY <2>1, <2>2, <2>4
<1>4. UNCHANGED told \/ \E q \in Key : DrainKey(q)
  BY DEF Next, Fiber, Enqueue, Take, Claim, Succeed, Fail, Requeue, vars
<1> QED
  BY <1>2, <1>3, <1>4

-----------------------------------------------------------------------------
LEMMA WorkerInit == Init => WorkerInv
<1> SUFFICES ASSUME Init PROVE WorkerInv
  OBVIOUS
<1>1. TypeOK
  BY TypeInit
<1>2. <<>> \in Seq(Request) /\ <<>> \o <<>> = <<>> /\ Len(<<>>) = 0
  BY Concatenation, EmptySeq
<1>3. NothingLost
  BY <1>2 DEF Init, NothingLost, InHand
<1>4. PendingIsScheduled
  BY WorkerAssumption DEF Init, PendingIsScheduled
<1>5. DrainIsHonest
  <2> SUFFICES ASSUME NEW k \in Key PROVE told[k] <= Len(handled[k])
    BY DEF DrainIsHonest
  <2>1. told[k] = 0 /\ handled[k] = <<>>
    BY DEF Init
  <2>2. Len(handled[k]) = 0
    BY <2>1, <1>2
  <2> QED
    BY <2>1, <2>2
<1> QED
  BY <1>1, <1>3, <1>4, <1>5 DEF WorkerInv

LEMMA WorkerStep == WorkerInv /\ [Next]_vars => WorkerInv'
  BY TypeStep, ScheduledStep, NothingLostStep, DrainStep DEF WorkerInv

LEMMA WorkerInvariant == Spec => []WorkerInv
<1>1. Init => WorkerInv
  BY WorkerInit
<1>2. WorkerInv /\ [Next]_vars => WorkerInv'
  BY WorkerStep
<1> QED
  BY <1>1, <1>2, PTL DEF Spec

(* No request is lost, doubled or overtaken, whatever fails.               *)
THEOREM WorkerLosesNothing == Spec => []NothingLost
<1>1. WorkerInv => NothingLost
  BY DEF WorkerInv
<1> QED
  BY <1>1, WorkerInvariant, PTL

(* A pending value is always scheduled, and once.                          *)
THEOREM WorkerSchedules == Spec => []PendingIsScheduled
<1>1. WorkerInv => PendingIsScheduled
  BY DEF WorkerInv
<1> QED
  BY <1>1, WorkerInvariant, PTL

(* drainKey vouches only for requests that have been handled.              *)
THEOREM DrainKeyIsHonest == Spec => []DrainIsHonest
<1>1. WorkerInv => DrainIsHonest
  BY DEF WorkerInv
<1> QED
  BY <1>1, WorkerInvariant, PTL

-----------------------------------------------------------------------------
(* Refinement.                                                             *)

LEMMA LedgerInit == Init => Ledger!Init
  BY DEF Init, Ledger!Init

(* Processing ends: the ledger handles the requests of the value.          *)
LEMMA LedgerHandle ==
    ASSUME WorkerInv, at = "processing", held \in Key,
           handled' = [handled EXCEPT ![held] = @ \o value],
           UNCHANGED <<accepted, told>>
    PROVE  Ledger!Handle(held)
<1> DEFINE h == handled[held]
           a == accepted[held]
           n == Len(h \o value)
<1>1. /\ h \in Seq(Request) /\ value \in Seq(Request) /\ value # <<>>
      /\ latest[held] \in Seq(Request) /\ h \o value \in Seq(Request)
  BY KeyFacts, Concatenation DEF WorkerInv, TypeOK
<1>2. a = (h \o value) \o latest[held]
  BY DEF WorkerInv, NothingLost, InHand
<1>3. SubSeq(a, 1, n) = h \o value /\ Len(a) = n + Len(latest[held])
      /\ n \in Nat /\ Len(latest[held]) \in Nat
  BY <1>1, <1>2, PrefixOfConcatenation
<1>4. n = Len(h) + Len(value) /\ Len(h) \in Nat /\ Len(value) \in Nat \ {0}
  BY <1>1, PrefixOfConcatenation, EmptySeq
<1>5. handled' = [handled EXCEPT ![held] = SubSeq(a, 1, n)]
  BY <1>3
<1> HIDE DEF n, h, a
<1>6. n \in (Len(h) + 1)..Len(a)
  <2>1. \A x, y, z, w \in Nat :
           y # 0 /\ x = z + y => x \in (z + 1)..(x + w)
    OBVIOUS
  <2> QED
    BY <2>1, <1>3, <1>4
<1> QED
  BY <1>5, <1>6 DEF Ledger!Handle, h, a

LEMMA LedgerStep == WorkerInv /\ [Next]_vars => [Ledger!Next]_(Ledger!vars)
<1> SUFFICES ASSUME WorkerInv, [Next]_vars
             PROVE  [Ledger!Next]_(Ledger!vars)
  OBVIOUS
<1>1. ASSUME NEW k \in Key, NEW r \in Request, Enqueue(k, r)
      PROVE  Ledger!Next
  <2>1. Ledger!Submit(k, r)
    BY <1>1 DEF Enqueue, Ledger!Submit
  <2> QED
    BY <2>1 DEF Ledger!Next
<1>2. ASSUME NEW k \in Key, DrainKey(k) PROVE Ledger!Next
  <2>1. handled[k] = accepted[k]
    BY <1>2, QuietIsHandled DEF WorkerInv
  <2>2. Ledger!Vouch(k)
    BY <1>2, <2>1 DEF DrainKey, Ledger!Vouch
  <2> QED
    BY <2>2 DEF Ledger!Next
<1>3. CASE Succeed \/ Fail
  <2>1. /\ at = "processing" /\ held \in Key
        /\ handled' = [handled EXCEPT ![held] = @ \o value]
        /\ UNCHANGED <<accepted, told>>
    BY <1>3 DEF Succeed, Fail, WorkerInv, TypeOK
  <2>2. Ledger!Handle(held)
    BY <2>1, LedgerHandle
  <2> QED
    BY <2>1, <2>2 DEF Ledger!Next
<1>4. CASE Take \/ Claim \/ Requeue \/ UNCHANGED vars
  BY <1>4 DEF Take, Claim, Requeue, vars, Ledger!vars
<1> QED
  BY <1>1, <1>2, <1>3, <1>4 DEF Next, Fiber

(* The worker implements the ledger, for any keys, requests and failures.  *)
THEOREM WorkerImplementsLedger == Spec => ImplementsLedger
<1>1. Init => Ledger!Init
  BY LedgerInit
<1>2. WorkerInv /\ [Next]_vars => [Ledger!Next]_(Ledger!vars)
  BY LedgerStep
<1> QED
  BY <1>1, <1>2, WorkerInvariant, PTL DEF Spec, ImplementsLedger, Ledger!Spec
-----------------------------------------------------------------------------
DrainableInv == D!TypeOK /\ D!CountIsExact /\ D!DrainIsHonest

(* Concatenation of items.                                                 *)
LEMMA ItemsAssociate ==
    ASSUME NEW s \in Seq(Item), NEW t \in Seq(Item), NEW u \in Seq(Item)
    PROVE  (s \o t) \o u = s \o (t \o u)
  BY SMTT(30), ConcatAssociative

LEMMA OneMore ==
    ASSUME NEW s \in Seq(Item), NEW t \in Seq(Item), Len(t) = 1
    PROVE  s \o t \in Seq(Item) /\ Len(s \o t) = Len(s) + 1
<1>1. s \o t \in Seq(Item)
  BY Concatenation
<1>2. Len(s \o t) = Len(s) + Len(t)
  BY PrefixOfConcatenation
<1> QED
  BY <1>1, <1>2

LEMMA DrainableTypes ==
    ASSUME D!TypeOK
    PROVE  /\ items \in Seq(Item) /\ done \in Seq(Item)
           /\ offered \in Seq(Item) /\ item \in Seq(Item)
           /\ <<>> \in Seq(Item) /\ Len(<<>>) = 0
           /\ Len(items) \in Nat /\ Len(done) \in Nat
           /\ Len(offered) \in Nat /\ outstanding \in Nat /\ vouched \in Nat
  BY LenProperties, EmptySeq DEF D!TypeOK

LEMMA DrainableInit == D!Init => DrainableInv
<1> SUFFICES ASSUME D!Init PROVE DrainableInv
  OBVIOUS
<1>1. <<>> \in Seq(Item) /\ <<>> \o <<>> = <<>> /\ Len(<<>>) = 0
  BY Concatenation, EmptySeq
<1>2. D!TypeOK
  BY <1>1 DEF D!Init, D!TypeOK, D!Place
<1>3. D!CountIsExact
  BY <1>1 DEF D!Init, D!CountIsExact
<1>4. D!DrainIsHonest
  BY <1>1 DEF D!Init, D!DrainIsHonest
<1> QED
  BY <1>2, <1>3, <1>4 DEF DrainableInv

-----------------------------------------------------------------------------
(* What each action does to the log of items.                              *)

LEMMA ItemEnqueued ==
    ASSUME DrainableInv, NEW a \in Item, D!Enqueue(a) PROVE DrainableInv'
<1> USE DEF DrainableInv
<1>1. /\ items' = Append(items, a) /\ offered' = Append(offered, a)
      /\ outstanding' = outstanding + 1 /\ UNCHANGED <<place, item, done, vouched>>
  BY DEF D!Enqueue
<1>2. /\ items' \in Seq(Item) /\ offered' \in Seq(Item)
      /\ Len(items') = Len(items) + 1
  BY <1>1, DrainableTypes, AppendProperties
<1>3. D!TypeOK'
  BY <1>1, <1>2, DrainableTypes DEF D!TypeOK
<1>5. (done \o item) \o Append(items, a)
         = Append((done \o item) \o items, a)
  <2>1. done \o item \in Seq(Item) /\ items \in Seq(Item)
    BY DrainableTypes, ConcatProperties
  <2> QED
    BY <2>1, AppendToConcat
<1>6. offered' = (done' \o item') \o items'
  BY <1>1, <1>5 DEF D!CountIsExact
<1>7. outstanding' = Len(items')
         + (IF place' \in {"processing", "counting", "dying"} THEN 1 ELSE 0)
  BY <1>1, <1>2, DrainableTypes DEF D!CountIsExact
<1> QED
  BY <1>1, <1>3, <1>6, <1>7 DEF D!CountIsExact, D!DrainIsHonest

LEMMA ItemTaken == ASSUME DrainableInv, D!Take PROVE DrainableInv'
<1> USE DEF DrainableInv
<1>1. /\ place = "taking" /\ place' = "processing" /\ items # <<>>
      /\ item' = <<Head(items)>> /\ items' = Tail(items)
      /\ UNCHANGED <<outstanding, offered, done, vouched>>
  BY DEF D!Take
<1>2. /\ Head(items) \in Item
      /\ items' \in Seq(Item) /\ Len(items') = Len(items) - 1
      /\ item' \o items' = items
  BY <1>1, DrainableTypes, HeadTailProperties, HeadThenTail
<1>3. item' \in Seq(Item) /\ Len(item') = 1
  BY <1>1, <1>2
<1>4. D!TypeOK'
  BY <1>1, <1>2, <1>3 DEF D!TypeOK, D!Place
<1>5. offered' = (done' \o item') \o items'
  <2>1. item = <<>>
    BY <1>1, DrainableTypes, EmptySeq DEF D!TypeOK
  <2>2. offered = (done \o <<>>) \o items /\ done \o <<>> = done
    BY <2>1, DrainableTypes, Concatenation DEF D!CountIsExact
  <2>3. (done \o item') \o items' = done \o (item' \o items')
    <3>1. item' \in Seq(Item) /\ items' \in Seq(Item) /\ done \in Seq(Item)
      BY <1>2, <1>3, DrainableTypes
    <3> QED
      BY ONLY <3>1, ItemsAssociate
  <2> QED
    BY <1>1, <1>2, <2>2, <2>3
<1>6. outstanding' = Len(items')
         + (IF place' \in {"processing", "counting", "dying"} THEN 1 ELSE 0)
  <2>1. outstanding = Len(items) + 0
    BY <1>1 DEF D!CountIsExact
  <2> QED
    BY <2>1, <1>1, <1>2, DrainableTypes
<1> QED
  BY <1>1, <1>4, <1>5, <1>6 DEF D!CountIsExact, D!DrainIsHonest

LEMMA ItemFinished ==
    ASSUME DrainableInv, NEW next \in {"counting", "dying"}, D!Finish(next)
    PROVE  DrainableInv'
<1> USE DEF DrainableInv
<1>1. /\ place = "processing" /\ place' = next /\ item' = <<>>
      /\ done' = done \o item
      /\ UNCHANGED <<items, outstanding, offered, vouched>>
  BY DEF D!Finish
<1>2. item \in Seq(Item) /\ Len(item) = 1
  BY <1>1 DEF D!TypeOK
<1>3. done' \in Seq(Item) /\ Len(done') = Len(done) + 1
  BY <1>1, <1>2, DrainableTypes, OneMore
<1>4. D!TypeOK'
  BY <1>1, <1>3, DrainableTypes DEF D!TypeOK, D!Place
<1>6. done' \o <<>> = done'
  BY <1>3, Concatenation
<1>7. offered' = (done' \o item') \o items'
  BY <1>1, <1>6 DEF D!CountIsExact
<1>8. outstanding' = Len(items')
         + (IF place' \in {"processing", "counting", "dying"} THEN 1 ELSE 0)
  BY <1>1 DEF D!CountIsExact
<1>9. vouched' <= Len(done')
  BY <1>1, <1>3, DrainableTypes DEF D!DrainIsHonest
<1> QED
  BY <1>4, <1>7, <1>8, <1>9 DEF D!CountIsExact, D!DrainIsHonest

LEMMA ItemCounted == ASSUME DrainableInv, D!Count PROVE DrainableInv'
<1> USE DEF DrainableInv
<1>1. /\ place \in {"counting", "dying"} /\ place' \in {"taking", "dead"}
      /\ outstanding' = outstanding - 1
      /\ UNCHANGED <<items, item, offered, done, vouched>>
  BY DEF D!Count
<1>2. outstanding = Len(items) + 1
  BY <1>1 DEF D!CountIsExact
<1>3. D!TypeOK'
  BY <1>1, <1>2, DrainableTypes DEF D!TypeOK, D!Place
<1> QED
  BY <1>1, <1>2, <1>3, DrainableTypes DEF D!CountIsExact, D!DrainIsHonest

(* When drain returns everything accepted has been handled.                *)
LEMMA ItemsQuiet ==
    ASSUME DrainableInv, D!Drain PROVE done = offered
<1> USE DEF DrainableInv
<1>1. outstanding <= 0
  BY DEF D!Drain
<1>2. /\ Len(items) = 0
      /\ place \notin {"processing", "counting", "dying"}
  BY <1>1, DrainableTypes DEF D!CountIsExact
<1>3. items = <<>> /\ item = <<>>
  BY <1>2, DrainableTypes, EmptySeq DEF D!TypeOK
<1>4. done \o <<>> = done
  BY DrainableTypes, Concatenation
<1> QED
  BY <1>3, <1>4 DEF D!CountIsExact

LEMMA DrainReturnsStep == ASSUME DrainableInv, D!Drain PROVE DrainableInv'
<1> USE DEF DrainableInv
<1>1. /\ vouched' = Len(offered)
      /\ UNCHANGED <<items, outstanding, place, item, offered, done>>
  BY DEF D!Drain
<1>2. done = offered
  BY ItemsQuiet
<1>3. D!TypeOK'
  BY <1>1, DrainableTypes DEF D!TypeOK
<1> QED
  BY <1>1, <1>2, <1>3, DrainableTypes DEF D!CountIsExact, D!DrainIsHonest

LEMMA DrainableStep == DrainableInv /\ [D!Next]_(D!vars) => DrainableInv'
<1> SUFFICES ASSUME DrainableInv, [D!Next]_(D!vars) PROVE DrainableInv'
  OBVIOUS
<1>1. ASSUME NEW a \in Item, D!Enqueue(a) PROVE DrainableInv'
  BY <1>1, ItemEnqueued
<1>2. CASE D!Take
  BY <1>2, ItemTaken
<1>3. CASE D!Succeed \/ D!Fail
  <2>1. PICK next \in {"counting", "dying"} : D!Finish(next)
    BY <1>3 DEF D!Succeed, D!Fail
  <2> QED
    BY <2>1, ItemFinished
<1>4. CASE D!Count
  BY <1>4, ItemCounted
<1>5. CASE D!Drain
  BY <1>5, DrainReturnsStep
<1>6. CASE UNCHANGED D!vars
  BY <1>6 DEF D!vars, DrainableInv, D!TypeOK, D!CountIsExact, D!DrainIsHonest
<1> QED
  BY <1>1, <1>2, <1>3, <1>4, <1>5, <1>6 DEF D!Next, D!Fiber

LEMMA DrainableInvariant == D!Spec => []DrainableInv
<1>1. D!Init => DrainableInv
  BY DrainableInit
<1>2. DrainableInv /\ [D!Next]_(D!vars) => DrainableInv'
  BY DrainableStep
<1> QED
  BY <1>1, <1>2, PTL DEF D!Spec

(* Items are processed in order and once, and the count is exact.          *)
THEOREM DrainableCountsExactly == D!Spec => []D!CountIsExact
<1>1. DrainableInv => D!CountIsExact
  BY DEF DrainableInv
<1> QED
  BY <1>1, DrainableInvariant, PTL

(* drain vouches only for items that have been processed.                  *)
THEOREM DrainIsAlwaysHonest == D!Spec => []D!DrainIsHonest
<1>1. DrainableInv => D!DrainIsHonest
  BY DEF DrainableInv
<1> QED
  BY <1>1, DrainableInvariant, PTL

-----------------------------------------------------------------------------
(* Refinement.                                                             *)

LEMMA DrainableLedgerStep == DrainableInv /\ [D!Next]_(D!vars) => [D!Ledger!Next]_(D!Ledger!vars)
<1> SUFFICES ASSUME DrainableInv, [D!Next]_(D!vars)
             PROVE  [D!Ledger!Next]_(D!Ledger!vars)
  OBVIOUS
<1>1. ASSUME NEW a \in Item, D!Enqueue(a) PROVE D!Ledger!Next
  <2>1. offered' = Append(offered, a) /\ UNCHANGED <<done, vouched>>
    BY <1>1 DEF D!Enqueue
  <2>2. D!Ledger!Submit("all", a)
    BY <2>1 DEF D!Ledger!Submit
  <2> QED
    BY <2>2 DEF D!Ledger!Next
<1>2. CASE D!Drain
  <2>1. done = offered
    BY <1>2, ItemsQuiet
  <2>2. D!Ledger!Vouch("all")
    BY <1>2, <2>1 DEF D!Drain, D!Ledger!Vouch
  <2> QED
    BY <2>2 DEF D!Ledger!Next
<1>3. CASE D!Succeed \/ D!Fail
  <2>1. /\ place = "processing" /\ done' = done \o item
        /\ UNCHANGED <<offered, vouched>>
    BY <1>3 DEF D!Succeed, D!Fail, D!Finish
  <2>2. /\ item \in Seq(Item) /\ Len(item) = 1
        /\ done \in Seq(Item) /\ items \in Seq(Item)
    BY <2>1, DrainableTypes DEF DrainableInv, D!TypeOK
  <2>3. done' \in Seq(Item) /\ Len(done') = Len(done) + 1
    BY <2>1, <2>2, OneMore
  <2>4. offered = done' \o items
    BY <2>1 DEF DrainableInv, D!CountIsExact
  <2>5. /\ SubSeq(offered, 1, Len(done')) = done'
        /\ Len(offered) = Len(done') + Len(items)
        /\ Len(done') \in Nat /\ Len(items) \in Nat /\ Len(done) \in Nat
    BY <2>2, <2>3, <2>4, PrefixOfConcatenation, LenProperties
  <2>6. Len(done') \in (Len(done) + 1)..Len(offered)
    BY <2>3, <2>5
  <2>7. D!Ledger!Handle("all")
    BY <2>1, <2>5, <2>6 DEF D!Ledger!Handle
  <2> QED
    BY <2>7 DEF D!Ledger!Next
<1>4. CASE D!Take \/ D!Count \/ UNCHANGED D!vars
  BY <1>4 DEF D!Take, D!Count, D!vars, D!Ledger!vars
<1> QED
  BY <1>1, <1>2, <1>3, <1>4 DEF D!Next, D!Fiber

(* The worker implements the ledger, for any items and failures.           *)
THEOREM DrainableImplementsLedger == D!Spec => D!ImplementsLedger
<1>1. D!Init => D!Ledger!Init
  BY DEF D!Init, D!Ledger!Init
<1>2. DrainableInv /\ [D!Next]_(D!vars) => [D!Ledger!Next]_(D!Ledger!vars)
  BY DrainableLedgerStep
<1> QED
  BY <1>1, <1>2, DrainableInvariant, PTL DEF D!Spec, D!ImplementsLedger, D!Ledger!Spec
=============================================================================
