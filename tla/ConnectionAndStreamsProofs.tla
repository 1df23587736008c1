---------------------- MODULE ConnectionAndStreamsProofs ----------------------
(***************************************************************************)
(* Theorems of LiveStreams, for any number of events, commands and faults; *)
(* and, in the last part, of EnvironmentConnection, for any number of      *)
(* waiters and reconnects, and of streams that fail.                       *)
(***************************************************************************)
EXTENDS LiveStreams, MCEnvironmentConnection, SequenceTheorems, FiniteSetTheorems,
        WellFoundedInduction, TLAPS

-----------------------------------------------------------------------------
(* Numbers and sequences.                                                  *)

LEMMA LeastOf ==
    ASSUME NEW T \in SUBSET Nat, T # {}
    PROVE  \E x \in T : \A y \in T : x <= y
<1> DEFINE R == OpToRel(<, Nat)
<1>1. \E x \in T : \A y \in T : ~ (<<y, x>> \in R)
  <2>1. IsWellFoundedOn(R, Nat)
    BY NatLessThanWellFounded
  <2> HIDE DEF R
  <2> QED
    BY <2>1, WFMin
<1>2. \A x, y \in Nat : ~ (<<y, x>> \in R) => x <= y
  BY DEF OpToRel
<1> QED
  BY <1>1, <1>2

LEMMA LargestOf ==
    ASSUME NEW n \in Nat, NEW S \in SUBSET (0..n), S # {}
    PROVE  /\ Max(S) \in S
           /\ \A x \in S : Max(S) >= x
<1> DEFINE T == {n - x : x \in S}
<1>1. T \in SUBSET Nat /\ T # {}
  <2>1. \A x \in S : x \in 0..n /\ n - x \in Nat
    OBVIOUS
  <2>2. \A y \in T : y \in Nat
    BY <2>1
  <2>3. \E x \in S : n - x \in T
    OBVIOUS
  <2> QED
    BY <2>2, <2>3
<1>2. PICK y \in T : \A z \in T : y <= z
  BY <1>1, LeastOf
<1>3. PICK m \in S : y = n - m
  BY <1>2
<1>4. \A x \in S : m >= x
  <2> SUFFICES ASSUME NEW x \in S PROVE m >= x
    OBVIOUS
  <2>1. n - x \in T
    OBVIOUS
  <2>2. n - m <= n - x
    BY <2>1, <1>2, <1>3
  <2> QED
    BY <2>2
<1> QED
  BY <1>4 DEF Max

LEMMA WiderSeq ==
    ASSUME NEW S, NEW T, S \subseteq T
    PROVE  Seq(S) \subseteq Seq(T)
<1> SUFFICES ASSUME NEW s \in Seq(S) PROVE s \in Seq(T)
  OBVIOUS
<1>1. Len(s) \in Nat /\ \A i \in 1..Len(s) : s[i] \in T
  BY ElementOfSeq, LenProperties
<1>2. s = [i \in 1..Len(s) |-> s[i]]
  OBVIOUS
<1> QED
  BY <1>1, <1>2, SeqDef

-----------------------------------------------------------------------------
(* What the tables hold.                                                   *)

History(l) == l \in Seq({"text", "session"})

(* The last session event is the last.                                     *)
LEMMA LatestSession ==
    ASSUME History(log), NEW n \in 0..Len(log)
    PROVE  /\ SessionAt(n) \in 0..n
           /\ SessionAt(n) # 0 => log[SessionAt(n)] = "session"
           /\ \A e \in 1..n : log[e] = "session" => e <= SessionAt(n)
<1> DEFINE S == Are("session", n) \cup {0}
<1>1. n \in Nat
  BY DEF History
<1>2. S \in SUBSET (0..n) /\ S # {}
  BY <1>1 DEF Are
<1>3. Max(S) \in S /\ \A x \in S : Max(S) >= x
  BY <1>1, <1>2, LargestOf
<1>4. SessionAt(n) = Max(S)
  BY DEF SessionAt
<1> HIDE DEF S
<1>5. SessionAt(n) \in S /\ SessionAt(n) \in 0..n
  BY <1>2, <1>3, <1>4
<1>6. \A e \in 1..n : log[e] = "session" => e \in S
  BY DEF S, Are
<1>7. \A x \in S : x # 0 => log[x] = "session"
  BY DEF S, Are
<1> QED
  BY <1>1, <1>2, <1>3, <1>4, <1>5, <1>6, <1>7

(* There is a text, and it is the pieces in their order.                   *)
InOrder(t) == \A i, j \in DOMAIN t : i < j => t[i] < t[j]
TextOf(t, S) ==
    /\ t \in [1..Cardinality(S) -> S] /\ ToSet(t) = S /\ InOrder(t)

LEMMA OneMore ==
    ASSUME NEW n \in Nat, NEW S \in SUBSET (1..n), IsFiniteSet(S),
           NEW t, TextOf(t, S)
    PROVE  \E u : TextOf(u, S \cup {n + 1})
<1> DEFINE c == Cardinality(S)
           T == S \cup {n + 1}
           u == [i \in 1..(c + 1) |-> IF i = c + 1 THEN n + 1 ELSE t[i]]
<1>1. c \in Nat /\ Cardinality(T) = c + 1
  <2>1. n + 1 \notin S
    OBVIOUS
  <2> QED
    BY <2>1, FS_CardinalityType, FS_AddElement
<1>2. /\ DOMAIN t = 1..c /\ \A i \in 1..c : t[i] \in S
      /\ \A x \in S : \E i \in 1..c : t[i] = x
      /\ \A i, j \in 1..c : i < j => t[i] < t[j]
  BY DEF TextOf, InOrder, ToSet
<1> HIDE DEF c
<1>3. u \in [1..(c + 1) -> T]
  BY <1>1, <1>2
<1>4. \A i \in 1..c : u[i] = t[i]
  BY <1>1
<1>5. u[c + 1] = n + 1 /\ DOMAIN u = 1..(c + 1)
  BY <1>1
<1> HIDE DEF u
<1>6. ToSet(u) = T
  <2>1. \A x \in T : \E i \in DOMAIN u : u[i] = x
    <3> SUFFICES ASSUME NEW x \in T PROVE \E i \in DOMAIN u : u[i] = x
      OBVIOUS
    <3>1. CASE x = n + 1
      BY <3>1, <1>1, <1>5
    <3>2. CASE x \in S
      <4>1. PICK i \in 1..c : t[i] = x
        BY <3>2, <1>2
      <4>2. i \in DOMAIN u /\ u[i] = x
        BY <4>1, <1>1, <1>4, <1>5
      <4> QED
        BY <4>2
    <3> QED
      BY <3>1, <3>2
  <2> QED
    BY <2>1, <1>3, <1>5 DEF ToSet
<1>7. InOrder(u)
  <2> SUFFICES ASSUME NEW i \in 1..(c + 1), NEW j \in 1..(c + 1), i < j
               PROVE  u[i] < u[j]
    BY <1>5 DEF InOrder
  <2>1. i \in 1..c
    BY <1>1
  <2>2. u[i] = t[i] /\ t[i] \in 1..n
    BY <2>1, <1>2, <1>4
  <2>3. CASE j = c + 1
    BY <2>2, <2>3, <1>5
  <2>4. CASE j \in 1..c
    BY <2>1, <2>2, <2>4, <1>2, <1>4
  <2> QED
    BY <2>3, <2>4, <1>1
<1> QED
  BY <1>1, <1>3, <1>6, <1>7 DEF TextOf

LEMMA TextExists ==
    ASSUME History(log)
    PROVE  \A n \in 0..Len(log) : \E t : TextOf(t, Are("text", n))
<1>1. Len(log) \in Nat
  BY DEF History
<1> DEFINE Bad == {n \in 0..Len(log) : ~ \E t : TextOf(t, Are("text", n))}
<1> SUFFICES ASSUME Bad # {} PROVE FALSE
  OBVIOUS
<1>2. Bad \in SUBSET Nat
  BY <1>1
<1>3. PICK m \in Bad : \A y \in Bad : m <= y
  BY <1>2, LeastOf
<1>4. m # 0
  <2>1. Are("text", 0) = {}
    BY DEF Are
  <2>2. Cardinality({}) = 0
    BY FS_EmptySet
  <2>3. TextOf(<<>>, {})
    BY <2>2 DEF TextOf, InOrder, ToSet
  <2> QED
    BY <2>1, <2>3, <1>3
<1> DEFINE n == m - 1
<1>5. n \in 0..Len(log) /\ n \notin Bad /\ n \in Nat /\ n + 1 = m
  <2>1. m \in 0..Len(log) /\ m \in Nat
    BY <1>1
  <2>2. n \in 0..Len(log) /\ n \in Nat /\ n + 1 = m
    BY <1>1, <1>4, <2>1
  <2>3. n \in Bad => m <= n
    BY <1>3
  <2> QED
    BY <2>1, <2>2, <2>3
<1>6. PICK t : TextOf(t, Are("text", n))
  BY <1>5
<1> HIDE DEF n
<1>7. Are("text", n) \in SUBSET (1..n) /\ IsFiniteSet(Are("text", n))
  <2>1. Are("text", n) \in SUBSET (1..n)
    BY DEF Are
  <2>2. IsFiniteSet(1..n)
    BY <1>5, FS_Interval
  <2> QED
    BY <2>1, <2>2, FS_Subset
<1>8. Are("text", m) \in {Are("text", n), Are("text", n) \cup {n + 1}}
  <2>1. 1..m = (1..n) \cup {n + 1}
    BY <1>5
  <2>2. CASE log[m] = "text"
    BY <2>1, <2>2, <1>5 DEF Are
  <2>3. CASE log[m] # "text"
    BY <2>1, <2>3, <1>5 DEF Are
  <2> QED
    BY <2>2, <2>3
<1>9. \E u : TextOf(u, Are("text", n) \cup {n + 1})
  BY <1>5, <1>6, <1>7, OneMore
<1> QED
  BY <1>3, <1>6, <1>8, <1>9

LEMMA TextIsThere ==
    ASSUME History(log), NEW n \in 0..Len(log)
    PROVE  /\ TextAt(n) \in Seq(1..n)
           /\ ToSet(TextAt(n)) = Are("text", n)
           /\ InOrder(TextAt(n))
<1> DEFINE S == Are("text", n)
           P(t) == ToSet(t) = S /\ \A i, j \in DOMAIN t : i < j => t[i] < t[j]
<1>1. \E t \in [1..Cardinality(S) -> S] : P(t)
  BY TextExists DEF TextOf, InOrder
<1>2. TextAt(n) \in [1..Cardinality(S) -> S] /\ P(TextAt(n))
  BY <1>1 DEF TextAt
<1>3. S \subseteq 1..n /\ n \in Nat
  BY DEF Are, History
<1>4. Cardinality(S) \in Nat
  <2>1. IsFiniteSet(1..n)
    BY <1>3, FS_Interval
  <2>2. IsFiniteSet(S)
    BY <1>3, <2>1, FS_Subset
  <2> QED
    BY <2>2, FS_CardinalityType
<1> HIDE DEF S
<1>5. TextAt(n) \in [1..Cardinality(S) -> 1..n]
  BY <1>2, <1>3
<1>6. TextAt(n) \in Seq(1..n)
  BY <1>4, <1>5, SeqDef
<1> QED
  BY <1>2, <1>6 DEF InOrder, S

-----------------------------------------------------------------------------
(* Queues.                                                                 *)

LEMMA Pushed ==
    ASSUME NEW S, NEW f \in [Stream -> Seq(S)], NEW s \in Stream, NEW x \in S,
           NEW g, g = [f EXCEPT ![s] = Append(@, x)]
    PROVE  /\ g \in [Stream -> Seq(S)]
           /\ Len(g[s]) = Len(f[s]) + 1 /\ Len(f[s]) \in Nat
           /\ \A i \in 1..Len(f[s]) : g[s][i] = f[s][i]
           /\ g[s][Len(f[s]) + 1] = x
           /\ \A r \in Stream \ {s} : g[r] = f[r]
<1>1. g[s] = Append(f[s], x) /\ f[s] \in Seq(S)
  OBVIOUS
<1>2. g[s] \in Seq(S)
  BY <1>1, AppendProperties
<1>3. /\ Len(g[s]) = Len(f[s]) + 1 /\ Len(f[s]) \in Nat
      /\ \A i \in 1..Len(f[s]) : g[s][i] = f[s][i]
      /\ g[s][Len(f[s]) + 1] = x
  BY <1>1, AppendProperties, LenProperties
<1> QED
  BY <1>2, <1>3

LEMMA Popped ==
    ASSUME NEW S, NEW f \in [Stream -> Seq(S)], NEW s \in Stream, f[s] # <<>>,
           NEW g, g = [f EXCEPT ![s] = Tail(@)]
    PROVE  /\ g \in [Stream -> Seq(S)]
           /\ Len(g[s]) = Len(f[s]) - 1 /\ Len(f[s]) \in Nat \ {0}
           /\ \A i \in 1..Len(g[s]) : g[s][i] = f[s][i + 1]
           /\ Head(f[s]) = f[s][1] /\ f[s][1] \in S
           /\ \A r \in Stream \ {s} : g[r] = f[r]
<1>1. g[s] = Tail(f[s]) /\ f[s] \in Seq(S)
  OBVIOUS
<1>2. /\ g[s] \in Seq(S) /\ Len(g[s]) = Len(f[s]) - 1
      /\ Len(f[s]) \in Nat \ {0} /\ Head(f[s]) = f[s][1] /\ f[s][1] \in S
  BY <1>1, HeadTailProperties, LenProperties, EmptySeq
<1>3. \A i \in 1..Len(g[s]) : g[s][i] = f[s][i + 1]
  BY <1>1, <1>2
<1> QED
  BY <1>2, <1>3

-----------------------------------------------------------------------------
(* Types, without the bounds.                                              *)

ItemOf(n) ==
    [kind : {"shell"}, session : 0..n]
      \cup [kind : {"event"}, event : 1..n]
      \cup [kind : {"detail"}, session : 0..n, text : Seq(1..n)]

EngineTyped ==
    /\ History(log) /\ published \in 0..Len(log)
    /\ handler \in [Stream -> HandlerPlace]
    /\ seen \in [Query -> 0..Len(log)]
    /\ missed \in [Stream -> SUBSET (1..published)]
QueuesTyped ==
    /\ backlog \in [Stream -> Seq(1..published)]
    /\ wire \in [Stream -> Seq(ItemOf(Len(log)))]
CopyTyped ==
    /\ text \in Seq(1..Len(log))
    /\ session \in 0..Len(log) /\ sidebar \in 0..Len(log)
Typed == EngineTyped /\ QueuesTyped /\ CopyTyped

LEMMA ItemsGrow ==
    ASSUME NEW n \in Nat, NEW m \in Nat, n <= m
    PROVE  ItemOf(n) \subseteq ItemOf(m)
<1>1. 0..n \subseteq 0..m /\ 1..n \subseteq 1..m
  OBVIOUS
<1>2. Seq(1..n) \subseteq Seq(1..m)
  BY <1>1, WiderSeq
<1> QED
  BY <1>1, <1>2 DEF ItemOf

LEMMA QueuesGrow ==
    ASSUME NEW S, NEW T, S \subseteq T, NEW f \in [Stream -> Seq(S)]
    PROVE  f \in [Stream -> Seq(T)]
  BY WiderSeq

LEMMA Streams == Stream = {"shell", "detail"} /\ "shell" \in Stream /\ "detail" \in Stream
  BY DEF Stream

(* One command's events are added to the log.                              *)
LEMMA CommitGrows ==
    ASSUME Typed, Commit
    PROVE  /\ History(log') /\ Len(log) \in Nat /\ Len(log') \in Nat
           /\ Len(log') > Len(log)
           /\ \A e \in 1..Len(log) : log'[e] = log[e]
           /\ published = Len(log)
           /\ UNCHANGED <<published, handler, seen, backlog, wire, text, session,
                          sidebar, missed>>
<1>1. PICK n \in 1..MaxBatch : \E batch \in [1..n -> {"text", "session"}] :
                                  log' = log \o batch
  BY DEF Commit
<1>2. n \in Nat \ {0}
  BY LiveAssumption
<1>3. PICK batch \in [1..n -> {"text", "session"}] : log' = log \o batch
  BY <1>1
<1>4. batch \in Seq({"text", "session"}) /\ Len(batch) = n
  BY <1>2, SeqDef
<1>5. log \in Seq({"text", "session"})
  BY DEF Typed, EngineTyped, History
<1>6. /\ log' \in Seq({"text", "session"}) /\ Len(log') = Len(log) + n
      /\ \A e \in 1..Len(log) : log'[e] = log[e]
      /\ Len(log) \in Nat
  <2> DEFINE S == {"text", "session"}
  <2>1. log \in Seq(S) /\ batch \in Seq(S)
    BY <1>4, <1>5
  <2>2. Len(log) \in Nat
    BY <2>1, LenProperties
  <2> HIDE DEF S
  <2>3. /\ log \o batch \in Seq(S) /\ Len(log \o batch) = Len(log) + n
        /\ \A e \in 1..Len(log) : (log \o batch)[e] = log[e]
    <3> DEFINE c == log \o batch
    <3>1. /\ c \in Seq(S) /\ Len(c) = Len(log) + Len(batch)
          /\ \A i \in 1..(Len(log) + Len(batch)) :
                c[i] = IF i <= Len(log) THEN log[i] ELSE batch[i - Len(log)]
      BY <2>1, ConcatProperties
    <3> HIDE DEF c
    <3>2. \A e \in 1..Len(log) : e \in 1..(Len(log) + Len(batch)) /\ e <= Len(log)
      BY <1>2, <1>4, <2>2
    <3> QED
      BY <1>4, <3>1, <3>2 DEF c
  <2> QED
    BY <1>3, <2>2, <2>3 DEF S
<1> QED
  BY <1>2, <1>6 DEF Commit, copy, History

LEMMA TypedSame ==
    ASSUME Typed, UNCHANGED <<log, published, handler, seen, backlog, wire, text,
                              session, sidebar, missed>>
    PROVE  Typed'
  BY DEF Typed, EngineTyped, QueuesTyped, CopyTyped, History

LEMMA TypedCommit == ASSUME Typed, Commit PROVE Typed'
<1>1. /\ History(log') /\ Len(log) \in Nat /\ Len(log') \in Nat
      /\ Len(log') > Len(log)
      /\ UNCHANGED <<published, handler, seen, backlog, wire, text, session,
                     sidebar, missed>>
  BY CommitGrows
<1>2. 0..Len(log) \subseteq 0..Len(log') /\ 1..Len(log) \subseteq 1..Len(log')
  BY <1>1
<1>3. EngineTyped'
  <2>1. seen' \in [Query -> 0..Len(log')]
    BY <1>1, <1>2 DEF Typed, EngineTyped
  <2> QED
    BY <2>1, <1>1, <1>2 DEF Typed, EngineTyped
<1>4. QueuesTyped'
  <2>1. ItemOf(Len(log)) \subseteq ItemOf(Len(log'))
    BY <1>1, ItemsGrow
  <2>2. wire \in [Stream -> Seq(ItemOf(Len(log')))]
    BY <2>1, QueuesGrow DEF Typed, QueuesTyped
  <2> QED
    BY <2>2, <1>1 DEF Typed, QueuesTyped
<1>5. CopyTyped'
  <2>1. text \in Seq(1..Len(log'))
    BY <1>2, WiderSeq DEF Typed, CopyTyped
  <2> QED
    BY <2>1, <1>1, <1>2 DEF Typed, CopyTyped
<1> QED
  BY <1>3, <1>4, <1>5 DEF Typed

(* An event goes to the streams that listen, or is missed.                 *)
LEMMA PublishEffect ==
    ASSUME Typed, Publish
    PROVE  /\ published \in Nat /\ published' = published + 1
           /\ published' <= Len(log) /\ Len(log) \in Nat
           /\ \A s \in Stream :
                 /\ handler[s] = "live" => backlog'[s] = Append(backlog[s], published')
                 /\ handler[s] # "live" => backlog'[s] = backlog[s]
                 /\ missed'[s] =
                       IF Overlooks(s, published') THEN missed[s] \cup {published'}
                       ELSE missed[s]
           /\ UNCHANGED <<log, handler, seen, wire, text, session, sidebar>>
           /\ Typed'
<1>1. /\ published' = published + 1 /\ published < Len(log)
      /\ backlog' = [s \in Stream |->
                       IF handler[s] = "live" THEN Append(backlog[s], published')
                       ELSE backlog[s]]
      /\ missed' = [s \in Stream |->
                      missed[s] \cup {x \in {published'} : Overlooks(s, x)}]
      /\ UNCHANGED <<log, handler, seen, wire, text, session, sidebar>>
  BY DEF Publish, copy
<1>2. /\ published \in Nat /\ Len(log) \in Nat /\ History(log)
      /\ missed \in [Stream -> SUBSET (1..published)]
      /\ backlog \in [Stream -> Seq(1..published)]
  BY DEF Typed, EngineTyped, QueuesTyped, History
<1>3. 1..published \subseteq 1..published' /\ published' \in 1..published'
  BY <1>1, <1>2
<1>4. backlog' \in [Stream -> Seq(1..published')]
  <2>1. backlog \in [Stream -> Seq(1..published')]
    BY <1>2, <1>3, QueuesGrow
  <2>2. \A s \in Stream : Append(backlog[s], published') \in Seq(1..published')
    BY <2>1, <1>3, AppendProperties
  <2> QED
    BY <2>1, <2>2, <1>1
<1>5. \A s \in Stream :
        missed'[s] = IF Overlooks(s, published') THEN missed[s] \cup {published'}
                     ELSE missed[s]
  <2> SUFFICES ASSUME NEW s \in Stream
               PROVE  missed'[s] = IF Overlooks(s, published')
                                   THEN missed[s] \cup {published'} ELSE missed[s]
    OBVIOUS
  <2>1. missed'[s] = missed[s] \cup {x \in {published'} : Overlooks(s, x)}
    BY <1>1
  <2>2. CASE Overlooks(s, published')
    BY <2>1, <2>2
  <2>3. CASE ~ Overlooks(s, published')
    BY <2>1, <2>3
  <2> QED
    BY <2>2, <2>3
<1>6. missed' \in [Stream -> SUBSET (1..published')]
  <2>1. \A s \in Stream : missed'[s] \subseteq 1..published'
    BY <1>2, <1>3, <1>5
  <2>2. missed' = [s \in Stream |-> missed'[s]]
    BY <1>1
  <2> QED
    BY <2>1, <2>2
<1>7. published' \in 0..Len(log)
  BY <1>1, <1>2
<1>8. Typed'
  BY <1>1, <1>2, <1>4, <1>6, <1>7
     DEF Typed, EngineTyped, QueuesTyped, CopyTyped
<1> QED
  BY <1>1, <1>2, <1>5, <1>7, <1>8

LEMMA RequestEffect ==
    ASSUME Typed, NEW s \in Stream, Request(s)
    PROVE  /\ handler[s] = "idle" /\ handler'[s] = "asked" /\ missed'[s] = {}
           /\ \A r \in Stream \ {s} : handler'[r] = handler[r] /\ missed'[r] = missed[r]
           /\ UNCHANGED <<log, published, seen, backlog, wire, text, session, sidebar>>
           /\ Typed'
<1>1. /\ handler[s] = "idle" /\ handler' = [handler EXCEPT ![s] = "asked"]
      /\ missed' = [missed EXCEPT ![s] = {}]
      /\ UNCHANGED <<log, published, seen, backlog, wire, text, session, sidebar>>
  BY DEF Request, copy
<1>2. /\ handler \in [Stream -> HandlerPlace]
      /\ missed \in [Stream -> SUBSET (1..published)]
  BY DEF Typed, EngineTyped
<1>3. /\ handler' \in [Stream -> HandlerPlace] /\ handler'[s] = "asked"
      /\ missed' \in [Stream -> SUBSET (1..published)] /\ missed'[s] = {}
      /\ \A r \in Stream \ {s} : handler'[r] = handler[r] /\ missed'[r] = missed[r]
  BY <1>1, <1>2 DEF HandlerPlace
<1>4. Typed'
  BY <1>1, <1>3 DEF Typed, EngineTyped, QueuesTyped, CopyTyped, History
<1> QED
  BY <1>1, <1>3, <1>4

LEMMA ListenEffect ==
    ASSUME Typed, NEW s \in Stream, Listen(s)
    PROVE  /\ handler[s] = "sent" /\ handler'[s] = "live"
           /\ \A r \in Stream \ {s} : handler'[r] = handler[r]
           /\ UNCHANGED <<log, published, seen, backlog, wire, text, session, sidebar,
                          missed>>
           /\ Typed'
<1>1. /\ handler[s] = "sent" /\ handler' = [handler EXCEPT ![s] = "live"]
      /\ UNCHANGED <<log, published, seen, backlog, wire, text, session, sidebar,
                     missed>>
  BY DEF Listen, copy
<1>2. handler \in [Stream -> HandlerPlace]
  BY DEF Typed, EngineTyped
<1>3. /\ handler' \in [Stream -> HandlerPlace] /\ handler'[s] = "live"
      /\ \A r \in Stream \ {s} : handler'[r] = handler[r]
  BY <1>1, <1>2 DEF HandlerPlace
<1>4. Typed'
  BY <1>1, <1>3 DEF Typed, EngineTyped, QueuesTyped, CopyTyped, History
<1> QED
  BY <1>1, <1>3, <1>4

(* An item is sent.                                                        *)
LEMMA SendEffect ==
    ASSUME Typed, NEW s \in Stream, NEW item \in ItemOf(Len(log)),
           wire' = [wire EXCEPT ![s] = Append(@, item)], log' = log
    PROVE  /\ wire' \in [Stream -> Seq(ItemOf(Len(log')))]
           /\ Len(wire[s]) \in Nat /\ Len(wire'[s]) = Len(wire[s]) + 1
           /\ \A i \in 1..Len(wire[s]) : wire'[s][i] = wire[s][i]
           /\ wire'[s][Len(wire[s]) + 1] = item
           /\ \A r \in Stream \ {s} : wire'[r] = wire[r]
<1> DEFINE S == ItemOf(Len(log))
<1>1. wire \in [Stream -> Seq(S)] /\ item \in S
  BY DEF Typed, QueuesTyped
<1> HIDE DEF S
<1>2. /\ wire' \in [Stream -> Seq(S)]
      /\ Len(wire[s]) \in Nat /\ Len(wire'[s]) = Len(wire[s]) + 1
      /\ \A i \in 1..Len(wire[s]) : wire'[s][i] = wire[s][i]
      /\ wire'[s][Len(wire[s]) + 1] = item
      /\ \A r \in Stream \ {s} : wire'[r] = wire[r]
  BY <1>1, Pushed
<1> QED
  BY <1>2 DEF S

LEMMA ShellItem ==
    ASSUME Typed
    PROVE  [kind |-> "shell", session |-> SessionAt(Len(log))] \in ItemOf(Len(log))
<1>1. Len(log) \in 0..Len(log) /\ History(log)
  BY DEF Typed, EngineTyped, History
<1>2. SessionAt(Len(log)) \in 0..Len(log)
  BY <1>1, LatestSession
<1> QED
  BY <1>2 DEF ItemOf

LEMMA ShellSnapshotEffect ==
    ASSUME Typed, ShellSnapshot
    PROVE  /\ handler["shell"] = "asked" /\ handler'["shell"] = "sent"
           /\ handler'["detail"] = handler["detail"]
           /\ seen'["shell"] = Len(log)
           /\ \A q \in {"text", "session"} : seen'[q] = seen[q]
           /\ wire' = [wire EXCEPT !["shell"] =
                  Append(@, [kind |-> "shell", session |-> SessionAt(Len(log))])]
           /\ UNCHANGED <<log, published, backlog, text, session, sidebar, missed>>
           /\ Typed'
<1>1. /\ handler["shell"] = "asked" /\ handler' = [handler EXCEPT !["shell"] = "sent"]
      /\ seen' = [seen EXCEPT !["shell"] = Len(log)]
      /\ wire' = [wire EXCEPT !["shell"] =
                  Append(@, [kind |-> "shell", session |-> SessionAt(Len(log))])]
      /\ UNCHANGED <<log, published, backlog, text, session, sidebar, missed>>
  BY DEF ShellSnapshot, copy
<1>2. /\ handler \in [Stream -> HandlerPlace] /\ seen \in [Query -> 0..Len(log)]
      /\ Len(log) \in 0..Len(log)
  BY DEF Typed, EngineTyped, History
<1>3. /\ handler' \in [Stream -> HandlerPlace] /\ handler'["shell"] = "sent"
      /\ handler'["detail"] = handler["detail"]
  BY <1>1, <1>2 DEF HandlerPlace, Stream
<1>4. /\ seen' \in [Query -> 0..Len(log)] /\ seen'["shell"] = Len(log)
      /\ \A q \in {"text", "session"} : seen'[q] = seen[q]
  BY <1>1, <1>2 DEF Query
<1>5. wire' \in [Stream -> Seq(ItemOf(Len(log')))]
  BY <1>1, ShellItem, SendEffect, Streams
<1>6. Typed'
  BY <1>1, <1>3, <1>4, <1>5 DEF Typed, EngineTyped, QueuesTyped, CopyTyped, History
<1> QED
  BY <1>1, <1>3, <1>4, <1>6

LEMMA ReadEffect ==
    ASSUME Typed, ReadMessages
    PROVE  /\ handler["detail"] = "asked" /\ handler'["detail"] = "half"
           /\ handler'["shell"] = handler["shell"]
           /\ seen'["text"] = Len(log)
           /\ \A q \in {"shell", "session"} : seen'[q] = seen[q]
           /\ UNCHANGED <<log, published, backlog, wire, text, session, sidebar,
                          missed>>
           /\ Typed'
<1>1. /\ handler["detail"] = "asked"
      /\ handler' = [handler EXCEPT !["detail"] = "half"]
      /\ seen' = [seen EXCEPT !["text"] = Len(log)]
      /\ UNCHANGED <<log, published, backlog, wire, text, session, sidebar, missed>>
  BY DEF ReadMessages, copy
<1>2. /\ handler \in [Stream -> HandlerPlace] /\ seen \in [Query -> 0..Len(log)]
      /\ Len(log) \in 0..Len(log)
  BY DEF Typed, EngineTyped, History
<1>3. /\ handler' \in [Stream -> HandlerPlace] /\ handler'["detail"] = "half"
      /\ handler'["shell"] = handler["shell"]
  BY <1>1, <1>2 DEF HandlerPlace, Stream
<1>4. /\ seen' \in [Query -> 0..Len(log)] /\ seen'["text"] = Len(log)
      /\ \A q \in {"shell", "session"} : seen'[q] = seen[q]
  BY <1>1, <1>2 DEF Query
<1>5. Typed'
  BY <1>1, <1>3, <1>4 DEF Typed, EngineTyped, QueuesTyped, CopyTyped, History
<1> QED
  BY <1>1, <1>3, <1>4, <1>5

LEMMA DetailItem ==
    ASSUME Typed
    PROVE  [kind |-> "detail", text |-> TextAt(seen["text"]),
            session |-> SessionAt(Len(log))] \in ItemOf(Len(log))
<1>1. /\ Len(log) \in 0..Len(log) /\ Len(log) \in Nat /\ History(log)
      /\ seen["text"] \in 0..Len(log)
  BY DEF Typed, EngineTyped, History, Query
<1>2. SessionAt(Len(log)) \in 0..Len(log)
  BY <1>1, LatestSession
<1>3. TextAt(seen["text"]) \in Seq(1..Len(log))
  <2>1. TextAt(seen["text"]) \in Seq(1..seen["text"])
    BY <1>1, TextIsThere
  <2>2. 1..seen["text"] \subseteq 1..Len(log)
    BY <1>1
  <2> QED
    BY <2>1, <2>2, WiderSeq
<1> QED
  BY <1>2, <1>3 DEF ItemOf

LEMMA DetailSnapshotEffect ==
    ASSUME Typed, DetailSnapshot
    PROVE  /\ handler["detail"] = "half" /\ handler'["detail"] = "sent"
           /\ handler'["shell"] = handler["shell"]
           /\ seen'["session"] = Len(log)
           /\ \A q \in {"shell", "text"} : seen'[q] = seen[q]
           /\ wire' = [wire EXCEPT !["detail"] =
                  Append(@, [kind |-> "detail", text |-> TextAt(seen["text"]),
                             session |-> SessionAt(Len(log))])]
           /\ UNCHANGED <<log, published, backlog, text, session, sidebar, missed>>
           /\ Typed'
<1>1. /\ handler["detail"] = "half"
      /\ handler' = [handler EXCEPT !["detail"] = "sent"]
      /\ seen' = [seen EXCEPT !["session"] = Len(log)]
      /\ wire' = [wire EXCEPT !["detail"] =
                  Append(@, [kind |-> "detail", text |-> TextAt(seen["text"]),
                             session |-> SessionAt(Len(log))])]
      /\ UNCHANGED <<log, published, backlog, text, session, sidebar, missed>>
  BY DEF DetailSnapshot, copy
<1>2. /\ handler \in [Stream -> HandlerPlace] /\ seen \in [Query -> 0..Len(log)]
      /\ Len(log) \in 0..Len(log)
  BY DEF Typed, EngineTyped, History
<1>3. /\ handler' \in [Stream -> HandlerPlace] /\ handler'["detail"] = "sent"
      /\ handler'["shell"] = handler["shell"]
  BY <1>1, <1>2 DEF HandlerPlace, Stream
<1>4. /\ seen' \in [Query -> 0..Len(log)] /\ seen'["session"] = Len(log)
      /\ \A q \in {"shell", "text"} : seen'[q] = seen[q]
  BY <1>1, <1>2 DEF Query
<1>5. wire' \in [Stream -> Seq(ItemOf(Len(log')))]
  BY <1>1, DetailItem, SendEffect, Streams
<1>6. Typed'
  BY <1>1, <1>3, <1>4, <1>5 DEF Typed, EngineTyped, QueuesTyped, CopyTyped, History
<1> QED
  BY <1>1, <1>3, <1>4, <1>6

(* The oldest event of a hub subscription is taken.                        *)
LEMMA HubEffect ==
    ASSUME Typed, NEW s \in Stream, backlog[s] # <<>>,
           backlog' = [backlog EXCEPT ![s] = Tail(@)], published' = published
    PROVE  /\ backlog' \in [Stream -> Seq(1..published')]
           /\ Len(backlog'[s]) = Len(backlog[s]) - 1
           /\ Len(backlog[s]) \in Nat \ {0}
           /\ \A i \in 1..Len(backlog'[s]) : backlog'[s][i] = backlog[s][i + 1]
           /\ Head(backlog[s]) = backlog[s][1] /\ backlog[s][1] \in 1..published
           /\ \A r \in Stream \ {s} : backlog'[r] = backlog[r]
<1> DEFINE S == 1..published
<1>1. backlog \in [Stream -> Seq(S)]
  BY DEF Typed, QueuesTyped
<1> HIDE DEF S
<1>2. /\ backlog' \in [Stream -> Seq(S)]
      /\ Len(backlog'[s]) = Len(backlog[s]) - 1
      /\ Len(backlog[s]) \in Nat \ {0}
      /\ \A i \in 1..Len(backlog'[s]) : backlog'[s][i] = backlog[s][i + 1]
      /\ Head(backlog[s]) = backlog[s][1] /\ backlog[s][1] \in S
      /\ \A r \in Stream \ {s} : backlog'[r] = backlog[r]
  BY <1>1, Popped
<1> QED
  BY <1>2 DEF S

LEMMA ForwardEventEffect ==
    ASSUME Typed, ForwardEvent
    PROVE  LET item == [kind |-> "event", event |-> backlog["detail"][1]] IN
           /\ backlog["detail"] # <<>>
           /\ backlog' = [backlog EXCEPT !["detail"] = Tail(@)]
           /\ wire' = [wire EXCEPT !["detail"] = Append(@, item)]
           /\ item \in ItemOf(Len(log))
           /\ UNCHANGED <<log, published, handler, seen, text, session, sidebar,
                          missed>>
           /\ Typed'
<1> DEFINE item == [kind |-> "event", event |-> backlog["detail"][1]]
<1>1. /\ backlog["detail"] # <<>>
      /\ backlog' = [backlog EXCEPT !["detail"] = Tail(@)]
      /\ wire' = [wire EXCEPT !["detail"] =
                     Append(@, [kind |-> "event", event |-> Head(backlog["detail"])])]
      /\ UNCHANGED <<log, published, handler, seen, text, session, sidebar, missed>>
  BY DEF ForwardEvent, copy
<1>2. /\ backlog' \in [Stream -> Seq(1..published')]
      /\ Head(backlog["detail"]) = backlog["detail"][1]
      /\ backlog["detail"][1] \in 1..published
  BY <1>1, HubEffect, Streams
<1>3. item \in ItemOf(Len(log))
  <2>1. backlog["detail"][1] \in 1..Len(log)
    BY <1>2 DEF Typed, EngineTyped, History
  <2> QED
    BY <2>1 DEF ItemOf
<1>4. wire' = [wire EXCEPT !["detail"] = Append(@, item)]
  BY <1>1, <1>2
<1> HIDE DEF item
<1>5. wire' \in [Stream -> Seq(ItemOf(Len(log')))]
  BY <1>1, <1>3, <1>4, SendEffect, Streams
<1>6. Typed'
  BY <1>1, <1>2, <1>5 DEF Typed, EngineTyped, QueuesTyped, CopyTyped, History
<1> QED
  BY <1>1, <1>3, <1>4, <1>6 DEF item

LEMMA ForwardShellEffect ==
    ASSUME Typed, ForwardShell
    PROVE  /\ backlog["shell"] # <<>>
           /\ backlog' = [backlog EXCEPT !["shell"] = Tail(@)]
           /\ wire' = [wire EXCEPT !["shell"] =
                  Append(@, [kind |-> "shell", session |-> SessionAt(Len(log))])]
           /\ missed'["shell"] = {} /\ missed'["detail"] = missed["detail"]
           /\ UNCHANGED <<log, published, handler, seen, text, session, sidebar>>
           /\ Typed'
<1>1. /\ backlog["shell"] # <<>>
      /\ backlog' = [backlog EXCEPT !["shell"] = Tail(@)]
      /\ wire' = [wire EXCEPT !["shell"] =
                  Append(@, [kind |-> "shell", session |-> SessionAt(Len(log))])]
      /\ missed' = [missed EXCEPT !["shell"] = {}]
      /\ UNCHANGED <<log, published, handler, seen, text, session, sidebar>>
  BY DEF ForwardShell, copy
<1>2. backlog' \in [Stream -> Seq(1..published')]
  BY <1>1, HubEffect, Streams
<1>3. wire' \in [Stream -> Seq(ItemOf(Len(log')))]
  BY <1>1, ShellItem, SendEffect, Streams
<1>4. /\ missed' \in [Stream -> SUBSET (1..published)]
      /\ missed'["shell"] = {} /\ missed'["detail"] = missed["detail"]
  BY <1>1 DEF Typed, EngineTyped, Stream
<1>5. Typed'
  BY <1>1, <1>2, <1>3, <1>4 DEF Typed, EngineTyped, QueuesTyped, CopyTyped, History
<1> QED
  BY <1>1, <1>4, <1>5

LEMMA ForwardFailsEffect ==
    ASSUME Typed, ForwardFails
    PROVE  /\ backlog["shell"] # <<>>
           /\ backlog' = [backlog EXCEPT !["shell"] = Tail(@)]
           /\ missed'["shell"] = missed["shell"] \cup {backlog["shell"][1]}
           /\ missed'["detail"] = missed["detail"]
           /\ UNCHANGED <<log, published, handler, seen, wire, text, session, sidebar>>
           /\ Typed'
<1>1. /\ backlog["shell"] # <<>>
      /\ backlog' = [backlog EXCEPT !["shell"] = Tail(@)]
      /\ missed' = [missed EXCEPT !["shell"] = @ \cup {Head(backlog["shell"])}]
      /\ UNCHANGED <<log, published, handler, seen, wire, text, session, sidebar>>
  BY DEF ForwardFails, copy
<1>2. /\ backlog' \in [Stream -> Seq(1..published')]
      /\ Head(backlog["shell"]) = backlog["shell"][1]
      /\ backlog["shell"][1] \in 1..published
  BY <1>1, HubEffect, Streams
<1>3. /\ missed' \in [Stream -> SUBSET (1..published)]
      /\ missed'["shell"] = missed["shell"] \cup {backlog["shell"][1]}
      /\ missed'["detail"] = missed["detail"]
  BY <1>1, <1>2 DEF Typed, EngineTyped, Stream
<1>4. Typed'
  BY <1>1, <1>2, <1>3 DEF Typed, EngineTyped, QueuesTyped, CopyTyped, History
<1> QED
  BY <1>1, <1>3, <1>4

LEMMA EndEffect ==
    ASSUME Typed, NEW S \in SUBSET Stream, End(S)
    PROVE  /\ \A s \in S : handler'[s] = "idle" /\ backlog'[s] = <<>> /\ wire'[s] = <<>>
           /\ \A s \in Stream \ S : /\ handler'[s] = handler[s]
                                    /\ backlog'[s] = backlog[s]
                                    /\ wire'[s] = wire[s]
           /\ UNCHANGED <<log, published, seen, text, session, sidebar, missed>>
           /\ Typed'
<1>1. /\ handler' = [s \in Stream |-> IF s \in S THEN "idle" ELSE handler[s]]
      /\ backlog' = [s \in Stream |-> IF s \in S THEN <<>> ELSE backlog[s]]
      /\ wire' = [s \in Stream |-> IF s \in S THEN <<>> ELSE wire[s]]
      /\ UNCHANGED <<log, published, seen, text, session, sidebar, missed>>
  BY DEF End, copy
<1>2. \A T : <<>> \in Seq(T)
  BY EmptySeq
<1>3. /\ handler' \in [Stream -> HandlerPlace]
      /\ backlog' \in [Stream -> Seq(1..published)]
      /\ wire' \in [Stream -> Seq(ItemOf(Len(log)))]
  BY <1>1, <1>2 DEF Typed, EngineTyped, QueuesTyped, HandlerPlace
<1>4. Typed'
  BY <1>1, <1>3 DEF Typed, EngineTyped, QueuesTyped, CopyTyped, History
<1> QED
  BY <1>1, <1>4

(* The client takes an item.                                               *)
LEMMA ReceiveEffect ==
    ASSUME Typed, NEW s \in Stream, Receive(s)
    PROVE  LET item == wire[s][1] IN
           /\ wire[s] # <<>>
           /\ Len(wire'[s]) = Len(wire[s]) - 1 /\ Len(wire[s]) \in Nat \ {0}
           /\ \A i \in 1..Len(wire'[s]) : wire'[s][i] = wire[s][i + 1]
           /\ \A r \in Stream \ {s} : wire'[r] = wire[r]
           /\ item \in ItemOf(Len(log))
           /\ \/ /\ item.kind = "shell" /\ text' = text
                 /\ session' = item.session /\ sidebar' = item.session
              \/ /\ item.kind = "detail" /\ sidebar' = sidebar
                 /\ session' = item.session /\ text' = item.text
              \/ /\ item.kind = "event" /\ sidebar' = sidebar
                 /\ log[item.event] = "text" /\ session' = session
                 /\ text' = Append(text, item.event)
              \/ /\ item.kind = "event" /\ sidebar' = sidebar
                 /\ log[item.event] # "text" /\ session' = item.event
                 /\ text' = text
           /\ UNCHANGED <<log, published, handler, seen, backlog, missed>>
           /\ Typed'
<1> DEFINE item == wire[s][1]
           T == ItemOf(Len(log))
<1>1. /\ wire[s] # <<>> /\ wire' = [wire EXCEPT ![s] = Tail(@)]
      /\ wire \in [Stream -> Seq(T)]
  BY DEF Receive, Typed, QueuesTyped
<1> HIDE DEF T
<1>2. /\ wire' \in [Stream -> Seq(T)]
      /\ Len(wire'[s]) = Len(wire[s]) - 1 /\ Len(wire[s]) \in Nat \ {0}
      /\ \A i \in 1..Len(wire'[s]) : wire'[s][i] = wire[s][i + 1]
      /\ Head(wire[s]) = item /\ item \in T
      /\ \A r \in Stream \ {s} : wire'[r] = wire[r]
  BY <1>1, Popped
<1>3. UNCHANGED <<log, published, handler, seen, backlog, missed>>
  BY DEF Receive, server
<1>4. ApplyShell(item) \/ ApplyDetail(item) \/ ApplyEvent(item)
  BY <1>2 DEF Receive
<1> HIDE DEF item
<1> DEFINE Effect ==
              \/ /\ item.kind = "shell" /\ text' = text
                 /\ session' = item.session /\ sidebar' = item.session
              \/ /\ item.kind = "detail" /\ sidebar' = sidebar
                 /\ session' = item.session /\ text' = item.text
              \/ /\ item.kind = "event" /\ sidebar' = sidebar
                 /\ log[item.event] = "text" /\ session' = session
                 /\ text' = Append(text, item.event)
              \/ /\ item.kind = "event" /\ sidebar' = sidebar
                 /\ log[item.event] # "text" /\ session' = item.event
                 /\ text' = text
<1>5. Effect
  BY <1>4 DEF ApplyShell, ApplyDetail, ApplyEvent
<1>6. CopyTyped'
  <2>1. /\ item.kind = "shell" => item.session \in 0..Len(log)
        /\ item.kind = "detail" => /\ item.session \in 0..Len(log)
                                   /\ item.text \in Seq(1..Len(log))
        /\ item.kind = "event" => item.event \in 1..Len(log)
    BY <1>2 DEF T, ItemOf
  <2>2. item.kind = "event" => /\ Append(text, item.event) \in Seq(1..Len(log))
                               /\ item.event \in 0..Len(log)
    BY <2>1, AppendProperties DEF Typed, CopyTyped
  <2>3. log' = log
    BY <1>3
  <2> QED
    BY <1>5, <2>1, <2>2, <2>3 DEF Typed, CopyTyped
<1>7. Typed'
  <2>1. EngineTyped'
    BY <1>3 DEF Typed, EngineTyped, History
  <2>2. QueuesTyped'
    BY <1>2, <1>3 DEF Typed, QueuesTyped, T
  <2> QED
    BY <2>1, <2>2, <1>6 DEF Typed
<1> HIDE DEF Effect
<1>8. item \in ItemOf(Len(log))
  BY <1>2 DEF T
<1> QED
  BY <1>1, <1>2, <1>3, <1>5, <1>7, <1>8 DEF Effect, item

-----------------------------------------------------------------------------
(* The newest session event, and the pieces of text.                       *)

Latest == SessionAt(Len(log))
Pieces == Are("text", Len(log))
LastIn(l) == Max({e \in 1..Len(l) : l[e] = "session"} \cup {0})

LEMMA LastInIs ==
    ASSUME NEW l, History(l)
    PROVE  /\ LastIn(l) \in 0..Len(l) /\ Len(l) \in Nat
           /\ LastIn(l) # 0 => l[LastIn(l)] = "session"
           /\ \A e \in 1..Len(l) : l[e] = "session" => e <= LastIn(l)
<1> DEFINE S == {e \in 1..Len(l) : l[e] = "session"} \cup {0}
           n == Len(l)
<1>1. n \in Nat
  BY DEF History
<1>2. S \in SUBSET (0..n) /\ S # {}
  BY <1>1
<1>3. \A x \in S : x # 0 => l[x] = "session"
  OBVIOUS
<1>4. \A e \in 1..n : l[e] = "session" => e \in S
  OBVIOUS
<1>5. LastIn(l) = Max(S)
  BY DEF LastIn
<1> HIDE DEF S
<1>6. Max(S) \in S /\ \A x \in S : Max(S) >= x
  BY <1>1, <1>2, LargestOf
<1> QED
  BY <1>1, <1>2, <1>3, <1>4, <1>5, <1>6

LEMMA LatestIs ==
    /\ Latest = LastIn(log) /\ Latest' = LastIn(log')
    /\ Pieces = {e \in 1..Len(log) : log[e] = "text"}
    /\ Pieces' = {e \in 1..Len(log') : log'[e] = "text"}
  BY DEF Latest, SessionAt, Are, LastIn, Pieces

LEMMA LatestTyped ==
    ASSUME Typed
    PROVE  /\ Latest \in 0..Len(log) /\ Latest \in Nat /\ Len(log) \in Nat
           /\ published \in 0..Len(log) /\ published \in Nat
           /\ Latest # 0 => log[Latest] = "session"
           /\ \A e \in 1..Len(log) : log[e] = "session" => e <= Latest
           /\ \A e \in 1..Len(log) : log[e] = "text" <=> e \in Pieces
           /\ Pieces \subseteq 1..Len(log) /\ Latest \notin Pieces
           /\ \A e \in 1..Len(log) : log[e] \in {"text", "session"}
<1>1. /\ History(log) /\ published \in 0..Len(log)
      /\ \A e \in 1..Len(log) : log[e] \in {"text", "session"}
  BY ElementOfSeq DEF Typed, EngineTyped, History
<1>2. /\ Latest \in 0..Len(log) /\ Len(log) \in Nat
      /\ Latest # 0 => log[Latest] = "session"
      /\ \A e \in 1..Len(log) : log[e] = "session" => e <= Latest
  BY <1>1, LastInIs, LatestIs
<1>3. Pieces = {e \in 1..Len(log) : log[e] = "text"}
  BY LatestIs
<1> QED
  BY <1>1, <1>2, <1>3

LEMMA LatestGrows ==
    ASSUME Typed, Commit
    PROVE  /\ Latest' = Latest \/ Latest' > Len(log)
           /\ Latest \in 0..Len(log) /\ Latest' \in Nat /\ Latest <= Latest'
           /\ \A e \in 1..Len(log) : e \in Pieces' <=> e \in Pieces
           /\ Pieces \subseteq Pieces' /\ Pieces' \subseteq Nat
           /\ \A e \in Pieces' : e \in Pieces \/ e > Len(log)
<1>1. /\ History(log') /\ Len(log) \in Nat /\ Len(log') \in Nat
      /\ Len(log') > Len(log) /\ History(log)
      /\ \A e \in 1..Len(log) : log'[e] = log[e]
  BY CommitGrows DEF Typed, EngineTyped
<1>2. /\ Latest \in 0..Len(log)
      /\ Latest # 0 => log[Latest] = "session"
      /\ \A e \in 1..Len(log) : log[e] = "session" => e <= Latest
  BY <1>1, LastInIs, LatestIs
<1>3. /\ Latest' \in 0..Len(log')
      /\ Latest' # 0 => log'[Latest'] = "session"
      /\ \A e \in 1..Len(log') : log'[e] = "session" => e <= Latest'
  BY <1>1, LastInIs, LatestIs
<1>4. Latest <= Latest'
  BY <1>1, <1>2, <1>3
<1>5. Latest' = Latest \/ Latest' > Len(log)
  BY <1>1, <1>2, <1>3, <1>4
<1>6. /\ Pieces = {e \in 1..Len(log) : log[e] = "text"}
      /\ Pieces' = {e \in 1..Len(log') : log'[e] = "text"}
  BY LatestIs
<1>7. /\ \A e \in 1..Len(log) : e \in Pieces' <=> e \in Pieces
      /\ Pieces \subseteq Pieces' /\ Pieces' \subseteq Nat
      /\ \A e \in Pieces' : e \in Pieces \/ e > Len(log)
  BY <1>1, <1>6
<1> QED
  BY <1>1, <1>2, <1>3, <1>4, <1>5, <1>7

LEMMA LatestSame ==
    ASSUME log' = log PROVE Latest' = Latest /\ Pieces' = Pieces
  BY LatestIs

-----------------------------------------------------------------------------
(* The shell stream.                                                       *)

(* The session that its last item brings, or has brought.                  *)
Shown ==
    IF wire["shell"] = <<>> THEN sidebar
    ELSE wire["shell"][Len(wire["shell"])].session

(* Its items go on from what the sidebar shows, and never back.            *)
ShellRises ==
    LET w == wire["shell"] IN
    /\ \A i \in 1..Len(w) : /\ w[i] \in [kind : {"shell"}, session : 0..Latest]
                            /\ sidebar <= w[i].session
    /\ \A i, j \in 1..Len(w) : i <= j => w[i].session <= w[j].session
    /\ sidebar <= Latest

(* A stream that follows the thread shows its session, or an event about   *)
(* it is still to come, or was missed.                                     *)
ShellSettles ==
    /\ handler["shell"] # "live" => backlog["shell"] = <<>>
    /\ handler["shell"] \in {"sent", "live"} =>
          \/ Shown = Latest
          \/ Latest \in missed["shell"]
          \/ Latest > published
          \/ \E i \in 1..Len(backlog["shell"]) : backlog["shell"][i] = Latest
    /\ handler["shell"] = "sent" /\ Latest <= seen["shell"] => Shown = Latest

ShellInv == ShellRises /\ ShellSettles

LEMMA ShellSame ==
    ASSUME ShellInv, log' = log, published' = published, sidebar' = sidebar,
           handler'["shell"] = handler["shell"], seen'["shell"] = seen["shell"],
           backlog'["shell"] = backlog["shell"], wire'["shell"] = wire["shell"],
           missed'["shell"] = missed["shell"]
    PROVE  ShellInv'
<1>1. Latest' = Latest /\ Shown' = Shown
  BY LatestSame DEF Shown
<1> QED
  BY <1>1 DEF ShellInv, ShellRises, ShellSettles

(* The tables are read and sent.                                           *)
LEMMA ShellSends ==
    ASSUME Typed, ShellRises, log' = log, sidebar' = sidebar,
           wire' = [wire EXCEPT !["shell"] =
                  Append(@, [kind |-> "shell", session |-> SessionAt(Len(log))])]
    PROVE  ShellRises' /\ Shown' = Latest' /\ Latest' = Latest
<1> DEFINE item == [kind |-> "shell", session |-> Latest]
           w == wire["shell"]
           v == wire'["shell"]
<1>1. Latest' = Latest /\ Latest \in Nat
  BY LatestSame, LatestTyped
<1>2. item \in ItemOf(Len(log)) /\ wire' = [wire EXCEPT !["shell"] = Append(@, item)]
  BY ShellItem DEF Latest
<1>3. /\ item \in [kind : {"shell"}, session : 0..Latest] /\ item.session = Latest
  BY <1>1
<1> HIDE DEF item
<1>4. /\ Len(w) \in Nat /\ Len(v) = Len(w) + 1
      /\ \A i \in 1..Len(w) : v[i] = w[i]
      /\ v[Len(w) + 1] = item
  BY <1>2, SendEffect, Streams
<1>5. /\ \A i \in 1..Len(w) : /\ w[i] \in [kind : {"shell"}, session : 0..Latest]
                              /\ sidebar <= w[i].session
      /\ \A i, j \in 1..Len(w) : i <= j => w[i].session <= w[j].session
      /\ sidebar <= Latest
  BY DEF ShellRises
<1> HIDE DEF w, v
<1>6. \A i \in 1..Len(v) : \/ i \in 1..Len(w) /\ v[i] = w[i]
                           \/ i = Len(w) + 1 /\ v[i] = item
  BY <1>4
<1>7. \A i \in 1..Len(v) : /\ v[i] \in [kind : {"shell"}, session : 0..Latest]
                           /\ sidebar <= v[i].session
                           /\ v[i].session <= Latest
  BY <1>1, <1>3, <1>5, <1>6
<1>8. \A i, j \in 1..Len(v) : i <= j => v[i].session <= v[j].session
  <2> SUFFICES ASSUME NEW i \in 1..Len(v), NEW j \in 1..Len(v), i <= j
               PROVE  v[i].session <= v[j].session
    OBVIOUS
  <2>1. CASE j \in 1..Len(w) /\ v[j] = w[j]
    <3>1. i \in 1..Len(w) /\ v[i] = w[i]
      BY <2>1, <1>4, <1>6
    <3> QED
      BY <2>1, <3>1, <1>5
  <2>2. CASE v[j] = item
    BY <2>2, <1>3, <1>7
  <2> QED
    BY <2>1, <2>2, <1>6
<1>9. ShellRises'
  BY <1>1, <1>5, <1>7, <1>8 DEF ShellRises, v
<1>10. Shown' = Latest
  <2>1. v # <<>> /\ v[Len(v)] = item
    BY <1>4
  <2> QED
    BY <2>1, <1>3 DEF Shown, v
<1> QED
  BY <1>1, <1>9, <1>10

LEMMA ShellCommit == ASSUME Typed, ShellInv, Commit PROVE ShellInv'
<1>1. /\ Latest' = Latest \/ Latest' > Len(log)
      /\ Latest \in 0..Len(log) /\ Latest' \in Nat /\ Latest <= Latest'
  BY LatestGrows
<1>2. /\ Len(log) \in Nat /\ published = Len(log)
      /\ UNCHANGED <<published, handler, seen, backlog, wire, sidebar, missed>>
      /\ seen["shell"] \in 0..Len(log) /\ sidebar \in Nat
  BY CommitGrows DEF Typed, EngineTyped, CopyTyped, Query
<1>3. ShellRises'
  <2>1. [kind : {"shell"}, session : 0..Latest]
          \subseteq [kind : {"shell"}, session : 0..Latest']
    BY <1>1
  <2>2. sidebar <= Latest'
    BY <1>1, <1>2 DEF ShellInv, ShellRises
  <2> QED
    BY <1>2, <2>1, <2>2 DEF ShellInv, ShellRises
<1>4. Shown' = Shown
  BY <1>2 DEF Shown
<1>5. ShellSettles'
  <2>1. CASE Latest' = Latest
    BY <2>1, <1>2, <1>4 DEF ShellInv, ShellSettles
  <2>2. CASE Latest' > Len(log)
    <3>1. Latest' > published' /\ ~ (Latest' <= seen'["shell"])
      BY <2>2, <1>1, <1>2
    <3> QED
      BY <3>1, <1>2 DEF ShellInv, ShellSettles
  <2> QED
    BY <2>1, <2>2, <1>1
<1> QED
  BY <1>3, <1>5 DEF ShellInv

LEMMA ShellPublish == ASSUME Typed, ShellInv, Publish PROVE ShellInv'
<1>1. /\ published \in Nat /\ published' = published + 1
      /\ handler["shell"] = "live" =>
            backlog'["shell"] = Append(backlog["shell"], published')
      /\ handler["shell"] # "live" => backlog'["shell"] = backlog["shell"]
      /\ missed'["shell"] =
            IF Overlooks("shell", published') THEN missed["shell"] \cup {published'}
            ELSE missed["shell"]
      /\ UNCHANGED <<log, handler, seen, wire, sidebar>>
  BY PublishEffect, Streams
<1>2. Latest' = Latest /\ Shown' = Shown /\ Latest \in Nat
  BY <1>1, LatestSame, LatestTyped DEF Shown
<1>3. ShellRises'
  BY <1>1, <1>2 DEF ShellInv, ShellRises
<1>4. backlog["shell"] \in Seq(1..published)
  BY Streams DEF Typed, QueuesTyped
<1>5. CASE handler["shell"] = "live"
  <2>1. backlog'["shell"] = Append(backlog["shell"], published')
    BY <1>1, <1>5
  <2>2. /\ Len(backlog'["shell"]) = Len(backlog["shell"]) + 1
        /\ Len(backlog["shell"]) \in Nat
        /\ \A i \in 1..Len(backlog["shell"]) :
              backlog'["shell"][i] = backlog["shell"][i]
        /\ backlog'["shell"][Len(backlog["shell"]) + 1] = published'
    <3> DEFINE b == backlog["shell"]
               S == 1..published'
    <3>1. b \in Seq(S) /\ published' \in S
      <4>1. 1..published \subseteq S /\ published' \in S
        BY <1>1
      <4> QED
        BY <4>1, <1>4, WiderSeq
    <3>2. backlog'["shell"] = Append(b, published')
      BY <2>1
    <3> HIDE DEF S, b
    <3>3. /\ Len(backlog'["shell"]) = Len(b) + 1
          /\ Len(b) \in Nat
          /\ \A i \in 1..Len(b) : backlog'["shell"][i] = b[i]
          /\ backlog'["shell"][Len(b) + 1] = published'
      BY <3>1, <3>2, AppendProperties, LenProperties
    <3> QED
      BY <3>3 DEF b
  <2>3. \/ Shown = Latest \/ Latest \in missed["shell"] \/ Latest > published
        \/ \E i \in 1..Len(backlog["shell"]) : backlog["shell"][i] = Latest
    BY <1>5 DEF ShellInv, ShellSettles
  <2>4. CASE Latest > published
    <3>1. Latest > published' \/ Latest = published'
      BY <2>4, <1>1, <1>2
    <3>2. Len(backlog["shell"]) + 1 \in 1..Len(backlog'["shell"])
      BY <2>2
    <3> QED
      BY <1>1, <1>2, <1>3, <1>5, <2>2, <3>1, <3>2 DEF ShellInv, ShellSettles
  <2>5. CASE \E i \in 1..Len(backlog["shell"]) : backlog["shell"][i] = Latest
    <3>1. \E i \in 1..Len(backlog'["shell"]) : backlog'["shell"][i] = Latest
      BY <2>2, <2>5
    <3> QED
      BY <1>1, <1>2, <1>3, <1>5, <3>1 DEF ShellInv, ShellSettles
  <2>6. CASE Shown = Latest \/ Latest \in missed["shell"]
    BY <1>1, <1>2, <1>3, <1>5, <2>6 DEF ShellInv, ShellSettles
  <2> QED
    BY <2>3, <2>4, <2>5, <2>6
<1>6. CASE handler["shell"] # "live"
  <2>1. backlog["shell"] = <<>> /\ backlog'["shell"] = <<>>
    BY <1>1, <1>6 DEF ShellInv, ShellSettles
  <2>2. CASE handler["shell"] = "sent"
    <3>1. Overlooks("shell", published') <=> published' > seen["shell"]
      BY <2>2 DEF Overlooks
    <3>2. \/ Shown = Latest \/ Latest \in missed["shell"] \/ Latest > published
      BY <2>1, <2>2 DEF ShellInv, ShellSettles
    <3>3. Latest <= seen["shell"] => Shown = Latest
      BY <2>2 DEF ShellInv, ShellSettles
    <3>4. seen["shell"] \in Nat
      BY DEF Typed, EngineTyped, Query, History
    <3>5. Shown = Latest \/ Latest \in missed'["shell"] \/ Latest > published'
      BY <1>1, <1>2, <3>1, <3>2, <3>3, <3>4
    <3> QED
      BY <1>1, <1>2, <1>3, <2>1, <3>3, <3>5 DEF ShellInv, ShellSettles
  <2>3. CASE handler["shell"] # "sent"
    BY <1>1, <1>3, <1>6, <2>1, <2>3 DEF ShellInv, ShellSettles
  <2> QED
    BY <2>2, <2>3
<1> QED
  BY <1>5, <1>6

LEMMA ShellReceives ==
    ASSUME Typed, ShellInv, Receive("shell") PROVE ShellInv' /\ sidebar' >= sidebar
                                                    /\ wire["shell"][1].kind = "shell"
<1> DEFINE w == wire["shell"]
           v == wire'["shell"]
<1>1. /\ w # <<>> /\ Len(v) = Len(w) - 1 /\ Len(w) \in Nat \ {0}
      /\ \A i \in 1..Len(v) : v[i] = w[i + 1]
      /\ w[1].kind = "shell" => sidebar' = w[1].session
      /\ UNCHANGED <<log, published, handler, seen, backlog, missed>>
  BY ReceiveEffect, Streams
<1>2. Latest' = Latest /\ Latest \in Nat
  BY <1>1, LatestSame, LatestTyped
<1>3. /\ \A i \in 1..Len(w) : /\ w[i] \in [kind : {"shell"}, session : 0..Latest]
                              /\ sidebar <= w[i].session
      /\ \A i, j \in 1..Len(w) : i <= j => w[i].session <= w[j].session
      /\ sidebar <= Latest
  BY DEF ShellInv, ShellRises
<1>4. Shown = w[Len(w)].session
  BY <1>1 DEF Shown
<1>5. Shown' = IF v = <<>> THEN sidebar' ELSE v[Len(v)].session
  BY DEF Shown
<1>6. v = <<>> <=> Len(v) = 0
  <2>1. v \in Seq(ItemOf(Len(log')))
    BY ReceiveEffect, Streams DEF Typed, QueuesTyped
  <2> QED
    BY <2>1, EmptySeq
<1> HIDE DEF w, v
<1>7. 1 \in 1..Len(w) /\ \A i \in 1..Len(v) : i + 1 \in 1..Len(w) /\ 1 <= i + 1
  BY <1>1
<1>8. sidebar' = w[1].session /\ sidebar' \in 0..Latest /\ sidebar <= sidebar'
      /\ w[1].kind = "shell"
  BY <1>1, <1>3, <1>7
<1>9. \A i \in 1..Len(v) : /\ v[i] \in [kind : {"shell"}, session : 0..Latest]
                           /\ sidebar' <= v[i].session
  BY <1>1, <1>3, <1>7, <1>8
<1>10. \A i, j \in 1..Len(v) : i <= j => v[i].session <= v[j].session
  BY <1>1, <1>3, <1>7
<1>11. ShellRises'
  BY <1>2, <1>8, <1>9, <1>10 DEF ShellRises, v
<1>12. Shown' = Shown
  <2>1. CASE Len(v) = 0
    <3>1. Len(w) = 1 /\ v = <<>>
      BY <2>1, <1>1, <1>6
    <3>2. Shown = w[1].session
      BY <3>1, <1>4
    <3>3. Shown' = sidebar'
      BY <3>1, <1>5
    <3> QED
      BY <3>2, <3>3, <1>8
  <2>2. CASE Len(v) # 0
    <3>1. Len(v) \in 1..Len(v) /\ Len(v) + 1 = Len(w)
      BY <2>2, <1>1
    <3> QED
      BY <2>2, <3>1, <1>1, <1>4, <1>5, <1>6
  <2> QED
    BY <2>1, <2>2
<1>13. ShellSettles'
  BY <1>1, <1>2, <1>12 DEF ShellInv, ShellSettles
<1>14. sidebar' >= sidebar
  BY <1>2, <1>8 DEF Typed, CopyTyped
<1> QED
  BY <1>8, <1>11, <1>13, <1>14 DEF ShellInv, w

LEMMA ShellForwards ==
    ASSUME Typed, ShellInv, ForwardShell \/ ForwardFails PROVE ShellInv'
<1> DEFINE b == backlog["shell"]
           c == backlog'["shell"]
<1>1. /\ handler' = handler /\ published' = published /\ seen' = seen
      /\ log' = log /\ sidebar' = sidebar
      /\ b # <<>> /\ backlog' = [backlog EXCEPT !["shell"] = Tail(@)]
  BY ForwardShellEffect, ForwardFailsEffect
<1>2. /\ Len(c) = Len(b) - 1 /\ Len(b) \in Nat \ {0}
      /\ \A i \in 1..Len(c) : c[i] = b[i + 1]
  BY <1>1, HubEffect, Streams
<1>3. handler["shell"] = "live"
  BY <1>1 DEF ShellInv, ShellSettles
<1>4. CASE ForwardShell
  <2>1. wire' = [wire EXCEPT !["shell"] =
                  Append(@, [kind |-> "shell", session |-> SessionAt(Len(log))])]
    BY <1>4, ForwardShellEffect
  <2>2. ShellRises' /\ Shown' = Latest'
    BY <2>1, <1>1, ShellSends DEF ShellInv
  <2> QED
    BY <2>2, <1>1, <1>3 DEF ShellInv, ShellSettles
<1>5. CASE ForwardFails
  <2>1. missed'["shell"] = missed["shell"] \cup {b[1]} /\ wire' = wire
    BY <1>5, ForwardFailsEffect
  <2>2. Latest' = Latest /\ Shown' = Shown
    BY <1>1, <2>1, LatestSame DEF Shown
  <2>3. ShellRises'
    BY <1>1, <2>1, <2>2 DEF ShellInv, ShellRises
  <2>4. \/ Shown = Latest \/ Latest \in missed["shell"] \/ Latest > published
        \/ \E i \in 1..Len(b) : b[i] = Latest
    BY <1>3 DEF ShellInv, ShellSettles
  <2> HIDE DEF b, c
  <2>5. ASSUME NEW i \in 1..Len(b), b[i] = Latest
        PROVE  Latest \in missed'["shell"] \/ \E j \in 1..Len(c) : c[j] = Latest
    <3>1. CASE i = 1
      BY <2>1, <2>5, <3>1
    <3>2. CASE i # 1
      <4>1. i - 1 \in 1..Len(c) /\ (i - 1) + 1 = i
        BY <3>2, <1>2
      <4> QED
        BY <4>1, <1>2, <2>5
    <3> QED
      BY <3>1, <3>2
  <2>6. \/ Shown = Latest \/ Latest \in missed'["shell"] \/ Latest > published
        \/ \E i \in 1..Len(c) : c[i] = Latest
    BY <2>1, <2>4, <2>5
  <2> QED
    BY <1>1, <1>3, <2>2, <2>3, <2>6 DEF ShellInv, ShellSettles, c
<1> QED
  BY <1>4, <1>5

LEMMA ShellInit == Init => ShellInv
<1> SUFFICES ASSUME Init PROVE ShellInv
  OBVIOUS
<1>1. /\ log = <<>> /\ wire["shell"] = <<>> /\ sidebar = 0
      /\ handler["shell"] = "idle" /\ backlog["shell"] = <<>>
  BY DEF Init, Stream
<1>2. Latest \in 0..Len(log) /\ Len(log) = 0
  BY <1>1, LastInIs, LatestIs, EmptySeq DEF History
<1>3. ShellRises
  BY <1>1, <1>2 DEF ShellRises
<1> QED
  BY <1>1, <1>3 DEF ShellInv, ShellSettles

-----------------------------------------------------------------------------
(* The detail stream: its place in the log.                                *)

(* A snapshot is under way; the text that the client has, or will have     *)
(* with it; and up to which event that is.                                 *)
Coming == wire["detail"] # <<>> /\ wire["detail"][1].kind = "detail"
Has == IF Coming THEN wire["detail"][1].text ELSE text
Applied ==
    published - Len(backlog["detail"]) - Len(wire["detail"])
       + (IF Coming THEN 1 ELSE 0)

(* After a snapshot the stream is the events, one after the other.         *)
InLine ==
    LET b == backlog["detail"]
        w == wire["detail"]
        h == handler["detail"]
    IN  /\ h # "live" => b = <<>>
        /\ h \notin {"sent", "live"} => w = <<>>
        /\ h = "sent" => w = <<>> \/ (Coming /\ Len(w) = 1)
        /\ \A i \in 1..Len(b) : b[i] = published - Len(b) + i
        /\ \A i \in 1..Len(w) :
              \/ i = 1 /\ Coming
              \/ w[i] = [kind |-> "event", event |-> published - Len(b) - Len(w) + i]
        /\ Applied >= 0

LEMMA InLineSame ==
    ASSUME InLine, published' = published, handler'["detail"] = handler["detail"],
           backlog'["detail"] = backlog["detail"], wire'["detail"] = wire["detail"]
    PROVE  InLine' /\ Applied' = Applied /\ Coming' = Coming
  BY DEF InLine, Applied, Coming

LEMMA QueueTypes ==
    ASSUME Typed
    PROVE  /\ backlog["detail"] \in Seq(1..published)
           /\ wire["detail"] \in Seq(ItemOf(Len(log)))
           /\ Len(backlog["detail"]) \in Nat /\ Len(wire["detail"]) \in Nat
           /\ published \in Nat
           /\ wire["detail"] = <<>> <=> Len(wire["detail"]) = 0
           /\ backlog["detail"] = <<>> <=> Len(backlog["detail"]) = 0
           /\ Applied \in Int
<1>1. /\ backlog["detail"] \in Seq(1..published)
      /\ wire["detail"] \in Seq(ItemOf(Len(log)))
      /\ published \in Nat
  BY Streams DEF Typed, QueuesTyped, EngineTyped, History
<1>2. \A S, s : s \in Seq(S) => Len(s) \in Nat /\ (s = <<>> <=> Len(s) = 0)
  BY LenProperties, EmptySeq
<1> QED
  BY <1>1, <1>2 DEF Applied

(* It begins with an item that is no shell item.                           *)
LEMMA FirstItem ==
    ASSUME Typed, InLine, wire["detail"] # <<>>
    PROVE  \/ /\ Coming /\ wire["detail"][1].kind = "detail"
              /\ wire["detail"][1].session \in 0..Len(log)
              /\ wire["detail"][1].text \in Seq(1..Len(log))
           \/ /\ ~ Coming /\ wire["detail"][1].kind = "event"
              /\ wire["detail"][1].event = Applied + 1
              /\ Applied + 1 <= published
<1> DEFINE w == wire["detail"]
<1>1. Len(w) \in Nat \ {0} /\ Len(backlog["detail"]) \in Nat /\ published \in Nat
  BY QueueTypes
<1>2. w[1] \in ItemOf(Len(log))
  BY <1>1, QueueTypes, ElementOfSeq
<1>3. CASE Coming
  BY <1>2, <1>3 DEF ItemOf, Coming
<1>4. CASE ~ Coming
  <2> DEFINE m == Len(backlog["detail"])
             n == Len(w)
  <2>1. \A i \in 1..n :
           \/ i = 1 /\ Coming
           \/ w[i] = [kind |-> "event", event |-> published - m - n + i]
    BY DEF InLine
  <2>2. Applied = published - m - n + 0
    BY <1>4 DEF Applied
  <2>3. m \in Nat /\ n \in Nat \ {0} /\ published \in Nat
    BY <1>1
  <2> HIDE DEF m, n, w
  <2>4. w[1] = [kind |-> "event", event |-> published - m - n + 1]
    BY <1>4, <2>1, <2>3
  <2>5. Applied + 1 = published - m - n + 1 /\ Applied + 1 <= published
    BY <2>2, <2>3
  <2> QED
    BY <1>4, <2>4, <2>5 DEF w
<1> QED
  BY <1>3, <1>4

LEMMA InLinePublish ==
    ASSUME Typed, InLine, Publish
    PROVE  /\ InLine' /\ Coming' = Coming
           /\ handler["detail"] = "live" => Applied' = Applied
           /\ handler["detail"] = "sent" => Applied' = published' /\ Applied = published
<1> DEFINE b == backlog["detail"]
           c == backlog'["detail"]
           w == wire["detail"]
<1>1. /\ published \in Nat /\ published' = published + 1
      /\ handler["detail"] = "live" => c = Append(b, published')
      /\ handler["detail"] # "live" => c = b
      /\ UNCHANGED <<handler, wire>>
  BY PublishEffect, Streams
<1>2. Coming' = Coming
  BY <1>1 DEF Coming
<1>3. Len(b) \in Nat /\ Len(w) \in Nat /\ (w = <<>> <=> Len(w) = 0)
  BY QueueTypes
<1>a. /\ \A i \in 1..Len(b) : b[i] = published - Len(b) + i
      /\ \A i \in 1..Len(w) :
            \/ i = 1 /\ Coming
            \/ w[i] = [kind |-> "event", event |-> published - Len(b) - Len(w) + i]
      /\ Applied >= 0 /\ (w = <<>> => ~ Coming)
      /\ Applied = published - Len(b) - Len(w) + (IF Coming THEN 1 ELSE 0)
  BY DEF InLine, Applied, Coming
<1>b. Applied' = published' - Len(c) - Len(w) + (IF Coming THEN 1 ELSE 0)
  BY <1>1, <1>2 DEF Applied
<1>4. CASE handler["detail"] = "live"
  <2>1. /\ Len(c) = Len(b) + 1
        /\ \A i \in 1..Len(b) : c[i] = b[i]
        /\ c[Len(b) + 1] = published'
    <3> DEFINE S == 1..published'
    <3>1. 1..published \subseteq S /\ published' \in S
      BY <1>1
    <3>2. b \in Seq(S)
      BY <3>1, QueueTypes, WiderSeq
    <3>3. c = Append(b, published')
      BY <1>1, <1>4
    <3> HIDE DEF S, b, c
    <3> QED
      BY <3>1, <3>2, <3>3, AppendProperties
  <2> HIDE DEF b, c, w
  <2>2. /\ published' - Len(c) = published - Len(b)
        /\ \A i \in 1..Len(b) : b[i] = published - Len(b) + i
    BY <1>1, <1>3, <1>a, <2>1
  <2>3. \A i \in 1..Len(c) : c[i] = published' - Len(c) + i
    <3> SUFFICES ASSUME NEW i \in 1..Len(c) PROVE c[i] = published' - Len(c) + i
      OBVIOUS
    <3>1. CASE i \in 1..Len(b)
      BY <3>1, <2>1, <2>2
    <3>2. CASE i = Len(b) + 1
      <4>1. published' - Len(c) + i = published'
        BY <3>2, <1>1, <1>3, <2>1
      <4> QED
        BY <3>2, <2>1, <4>1
    <3> QED
      BY <3>1, <3>2, <1>3, <2>1
  <2>4. Applied' = Applied
    BY <1>1, <1>3, <1>a, <1>b, <2>1
  <2>5. InLine'
    <3>1. \A i \in 1..Len(w) :
             \/ i = 1 /\ Coming
             \/ w[i] = [kind |-> "event",
                        event |-> published' - Len(c) - Len(w) + i]
      BY <1>a, <2>2
    <3>2. Applied' >= 0
      BY <1>a, <2>4
    <3> QED
      BY <1>1, <1>2, <1>4, <2>3, <3>1, <3>2 DEF InLine, b, c, w
  <2> QED
    BY <1>2, <1>4, <2>4, <2>5
<1>5. CASE handler["detail"] # "live"
  <2>1. b = <<>> /\ c = <<>> /\ Len(b) = 0
    BY <1>1, <1>5, QueueTypes DEF InLine
  <2>2. handler["detail"] = "sent" => (w = <<>> \/ (Coming /\ Len(w) = 1))
    BY <1>5 DEF InLine
  <2>a. handler["detail"] # "sent" => w = <<>>
    BY <1>5 DEF InLine
  <2>3. Applied = published /\ Applied' = published'
    <3> HIDE DEF b, c, w
    <3>1. Len(w) = (IF Coming THEN 1 ELSE 0)
      BY <1>3, <1>a, <2>2, <2>a
    <3> QED
      BY <1>1, <1>a, <1>b, <2>1, <3>1
  <2>4. InLine'
    <3>1. \A i \in 1..Len(w) : i = 1 /\ Coming
      <4> HIDE DEF b, c, w
      <4>1. CASE Len(w) = 0
        BY <4>1
      <4>2. CASE Len(w) = 1 /\ Coming
        BY <4>2
      <4> QED
        BY <1>3, <2>2, <2>a, <4>1, <4>2
    <3>2. Applied' >= 0 /\ \A i \in 1..Len(c) : FALSE
      BY <1>1, <2>1, <2>3
    <3>3. /\ handler["detail"] \notin {"sent", "live"} => w = <<>>
          /\ handler["detail"] = "sent" => w = <<>> \/ (Coming /\ Len(w) = 1)
      BY DEF InLine
    <3> QED
      BY <1>1, <1>2, <1>5, <2>1, <3>1, <3>2, <3>3 DEF InLine
  <2> QED
    BY <1>2, <1>5, <2>3, <2>4
<1> QED
  BY <1>4, <1>5

(* The snapshot is the first item of its stream.                           *)
LEMMA InLineSnapshot ==
    ASSUME Typed, InLine, DetailSnapshot
    PROVE  /\ InLine' /\ Coming' /\ Applied' = published
           /\ wire'["detail"][1].text = TextAt(seen["text"])
           /\ wire'["detail"][1].session = Latest
<1> DEFINE item == [kind |-> "detail", text |-> TextAt(seen["text"]),
                    session |-> SessionAt(Len(log))]
           w == wire["detail"]
           v == wire'["detail"]
<1>1. /\ handler["detail"] = "half" /\ handler'["detail"] = "sent"
      /\ wire' = [wire EXCEPT !["detail"] = Append(@, item)]
      /\ UNCHANGED <<log, published, backlog>>
  BY DetailSnapshotEffect
<1>2. item \in ItemOf(Len(log)) /\ item.kind = "detail"
      /\ item.text = TextAt(seen["text"]) /\ item.session = Latest
  BY DetailItem DEF Latest
<1> HIDE DEF item
<1>3. w = <<>> /\ backlog["detail"] = <<>>
  BY <1>1 DEF InLine
<1>4. /\ Len(v) = Len(w) + 1 /\ v[Len(w) + 1] = item
  BY <1>1, <1>2, SendEffect, Streams
<1>5. Len(w) = 0 /\ Len(backlog["detail"]) = 0 /\ published \in Nat
  BY <1>3, QueueTypes
<1>6. Len(v) = 1 /\ v[1] = item /\ v # <<>>
  BY <1>4, <1>5
<1>7. Coming'
  BY <1>2, <1>6 DEF Coming
<1>8. Applied' = published
  BY <1>1, <1>5, <1>6, <1>7 DEF Applied
<1>9. InLine'
  <2>1. /\ backlog'["detail"] = <<>> /\ \A i \in 1..Len(backlog'["detail"]) : FALSE
        /\ Applied' >= 0
    BY <1>1, <1>3, <1>5, <1>8
  <2>2. \A i \in 1..Len(v) : i = 1 /\ Coming'
    BY <1>6, <1>7
  <2> QED
    BY <1>1, <1>6, <1>7, <2>1, <2>2 DEF InLine
<1> QED
  BY <1>2, <1>6, <1>7, <1>8, <1>9

LEMMA InLineForward ==
    ASSUME Typed, InLine, ForwardEvent
    PROVE  /\ InLine' /\ Coming' = Coming /\ Applied' = Applied /\ Has' = Has
           /\ handler["detail"] = "live"
           /\ Coming => wire'["detail"][1] = wire["detail"][1]
<1> DEFINE b == backlog["detail"]
           c == backlog'["detail"]
           w == wire["detail"]
           v == wire'["detail"]
           item == [kind |-> "event", event |-> b[1]]
<1>1. /\ b # <<>> /\ backlog' = [backlog EXCEPT !["detail"] = Tail(@)]
      /\ wire' = [wire EXCEPT !["detail"] = Append(@, item)]
      /\ item \in ItemOf(Len(log))
      /\ UNCHANGED <<log, published, handler, text>>
  BY ForwardEventEffect
<1>2. /\ Len(c) = Len(b) - 1 /\ Len(b) \in Nat \ {0} /\ published \in Nat
      /\ \A i \in 1..Len(c) : c[i] = b[i + 1]
  BY <1>1, HubEffect, Streams, QueueTypes
<1>3. /\ Len(w) \in Nat /\ Len(v) = Len(w) + 1
      /\ \A i \in 1..Len(w) : v[i] = w[i]
      /\ v[Len(w) + 1] = item
  BY <1>1, SendEffect, Streams
<1>4. handler["detail"] = "live"
  BY <1>1 DEF InLine
<1>5. w = <<>> <=> Len(w) = 0
  BY QueueTypes
<1>a. /\ \A i \in 1..Len(b) : b[i] = published - Len(b) + i
      /\ \A i \in 1..Len(w) :
            \/ i = 1 /\ Coming
            \/ w[i] = [kind |-> "event", event |-> published - Len(b) - Len(w) + i]
      /\ Applied >= 0
      /\ Applied = published - Len(b) - Len(w) + (IF Coming THEN 1 ELSE 0)
  BY DEF InLine, Applied
<1>b. Applied' = published - Len(c) - Len(v) + (IF Coming' THEN 1 ELSE 0)
  BY <1>1 DEF Applied
<1>6. b[1] = published - Len(b) + 1
  <2> HIDE DEF b
  <2> QED
    BY <1>2, <1>a
<1>7. v # <<>> /\ (w = <<>> => v[1].kind = "event") /\ (w # <<>> => v[1] = w[1])
  BY <1>3, <1>5
<1>8. Coming' = Coming /\ Has' = Has /\ (Coming => v[1] = w[1])
  BY <1>1, <1>7 DEF Coming, Has
<1> HIDE DEF item
<1> HIDE DEF b, c, w, v
<1>9. Applied' = Applied
  BY <1>2, <1>3, <1>8, <1>a, <1>b
<1>10. \A i \in 1..Len(c) : c[i] = published - Len(c) + i
  <2>1. \A i \in 1..Len(c) : i + 1 \in 1..Len(b)
    BY <1>2
  <2>2. \A i \in 1..Len(c) : published - Len(b) + (i + 1) = published - Len(c) + i
    BY <1>2
  <2> QED
    BY <1>2, <1>a, <2>1, <2>2
<1>11. \A i \in 1..Len(v) :
          \/ i = 1 /\ Coming
          \/ v[i] = [kind |-> "event", event |-> published - Len(c) - Len(v) + i]
  <2> SUFFICES ASSUME NEW i \in 1..Len(v)
               PROVE  \/ i = 1 /\ Coming
                      \/ v[i] = [kind |-> "event",
                                 event |-> published - Len(c) - Len(v) + i]
    OBVIOUS
  <2>1. published - Len(c) - Len(v) = published - Len(b) - Len(w)
    BY <1>2, <1>3
  <2>2. CASE i \in 1..Len(w)
    BY <1>3, <1>a, <2>1, <2>2
  <2>3. CASE i = Len(w) + 1
    <3>1. published - Len(c) - Len(v) + i = b[1]
      BY <1>2, <1>3, <1>6, <2>3
    <3> QED
      BY <1>3, <2>3, <3>1 DEF item
  <2> QED
    BY <1>3, <2>2, <2>3
<1>12. InLine'
  <2>1. Applied' >= 0
    BY <1>9, <1>a
  <2> QED
    BY <1>1, <1>4, <1>8, <1>10, <1>11, <2>1 DEF InLine, b, c, w, v
<1> QED
  BY <1>4, <1>8, <1>9, <1>12 DEF v, w

(* The client takes the snapshot, or the next event.                       *)
LEMMA InLineReceive ==
    ASSUME Typed, InLine, Receive("detail")
    PROVE  /\ InLine' /\ ~ Coming'
           /\ Coming => Applied' = Applied
           /\ ~ Coming => Applied' = Applied + 1 /\ handler["detail"] = "live"
<1> DEFINE b == backlog["detail"]
           w == wire["detail"]
           v == wire'["detail"]
<1>1. /\ w # <<>> /\ Len(v) = Len(w) - 1 /\ Len(w) \in Nat \ {0}
      /\ \A i \in 1..Len(v) : v[i] = w[i + 1]
      /\ UNCHANGED <<published, handler, backlog>>
  BY ReceiveEffect, Streams
<1>2. Len(b) \in Nat /\ published \in Nat
  BY QueueTypes
<1>3. v = <<>> <=> Len(v) = 0
  <2>1. v \in Seq(ItemOf(Len(log')))
    BY ReceiveEffect, Streams DEF Typed, QueuesTyped
  <2> QED
    BY <2>1, EmptySeq
<1>a. /\ \A i \in 1..Len(w) :
            \/ i = 1 /\ Coming
            \/ w[i] = [kind |-> "event", event |-> published - Len(b) - Len(w) + i]
      /\ Applied >= 0
      /\ Applied = published - Len(b) - Len(w) + (IF Coming THEN 1 ELSE 0)
  BY DEF InLine, Applied
<1>b. Applied' = published - Len(b) - Len(v) + (IF Coming' THEN 1 ELSE 0)
  BY <1>1 DEF Applied
<1>4. \A i \in 1..Len(v) :
         v[i] = [kind |-> "event", event |-> published - Len(b) - Len(v) + i]
  <2> SUFFICES ASSUME NEW i \in 1..Len(v)
               PROVE  v[i] = [kind |-> "event",
                              event |-> published - Len(b) - Len(v) + i]
    OBVIOUS
  <2>1. i + 1 \in 1..Len(w) /\ i + 1 # 1
        /\ published - Len(b) - Len(v) + i = published - Len(b) - Len(w) + (i + 1)
    BY <1>1, <1>2
  <2> HIDE DEF w, b, v
  <2>2. w[i + 1] = [kind |-> "event",
                    event |-> published - Len(b) - Len(w) + (i + 1)]
    BY <2>1, <1>a
  <2> QED
    BY <1>1, <2>1, <2>2
<1>5. ~ Coming'
  <2> SUFFICES ASSUME v # <<>>, v[1].kind = "detail" PROVE FALSE
    BY DEF Coming
  <2>1. 1 \in 1..Len(v)
    <3> HIDE DEF v, w
    <3> QED
      BY <1>1, <1>3
  <2>2. v[1] = [kind |-> "event", event |-> published - Len(b) - Len(v) + 1]
    <3> HIDE DEF v, b
    <3> QED
      BY <1>4, <2>1
  <2>3. v[1].kind = "event"
    BY <2>2
  <2> QED
    BY <2>3
<1>8. /\ Coming => Applied' = Applied
      /\ ~ Coming => Applied' = Applied + 1
  <2> HIDE DEF b, v, w
  <2> QED
    BY <1>1, <1>2, <1>5, <1>a, <1>b
<1>9. ~ Coming => handler["detail"] = "live"
  BY <1>1 DEF InLine
<1>10. handler["detail"] = "sent" => Len(v) = 0
  BY <1>1 DEF InLine
<1>11. InLine'
  <2>1. Applied' >= 0
    <3>1. Applied \in Int
      BY QueueTypes
    <3> QED
      BY <3>1, <1>8, <1>a
  <2>2. handler["detail"] \in {"sent", "live"}
    BY <1>1 DEF InLine
  <2> QED
    BY <1>1, <1>3, <1>4, <1>10, <2>1, <2>2 DEF InLine
<1> QED
  BY <1>5, <1>8, <1>9, <1>11

-----------------------------------------------------------------------------
(* The detail stream: what the client's text is.                           *)

(* The text t does not go on, at position i, with the next of pieces P.    *)
SeamIn(P, t, i) ==
    /\ i = 1 => \E e \in P : e < t[1]
    /\ i > 1 => \/ t[i] <= t[i - 1]
                \/ \E e \in P : t[i - 1] < e /\ e < t[i]
Seamless(P, t) == \A i \in 1..Len(t) : ~ SeamIn(P, t, i)
AtMostOneSeam(P, t) == \E a \in 0..Len(t) : \A i \in 1..Len(t) : SeamIn(P, t, i) => i = a

(* With event n the text t goes on where it ends.                          *)
GoesOn(P, t, n) ==
    /\ t # <<>> /\ t[Len(t)] <= n
    /\ \A e \in P : e <= t[Len(t)] \/ e > n

Sewn ==
    /\ AtMostOneSeam(Pieces, text)
    /\ Coming \/ handler["detail"] = "sent" => Seamless(Pieces, Has)
    /\ handler["detail"] = "live" /\ ~ Coming =>
          Seamless(Pieces, text) \/ GoesOn(Pieces, text, Applied)

(* What was missed is what the text lacks, as far as the stream has come.  *)
Lost ==
    LET h == handler["detail"] IN
    /\ h = "asked" => missed["detail"] = {}
    /\ h \in {"half", "sent"} =>
          \A e \in Pieces :
             e <= published => (e \in missed["detail"] <=> e > seen["text"])
    /\ h = "sent" => \A e \in Pieces : e \in ToSet(Has) <=> e <= seen["text"]
    /\ h = "live" =>
          /\ \A e \in Pieces :
                e <= Applied => (e \in missed["detail"] <=> e \notin ToSet(Has))
          /\ \A e \in missed["detail"] : e <= Applied

(* Where this stream was the last to set the session, or is about to, the  *)
(* session is the newest.                                                  *)
SetsIt ==
    IF Coming THEN wire["detail"][1].session = Latest
    ELSE session \in {sidebar, Latest}
DetailSettles ==
    LET h == handler["detail"] IN
    /\ h = "sent" => \/ SetsIt
                     \/ /\ Latest > seen["session"]
                        /\ Latest \in missed["detail"] \/ Latest > published
    /\ h = "live" => \/ SetsIt
                     \/ Latest \in missed["detail"]
                     \/ Latest > Applied

DetailInv == InLine /\ Sewn /\ Lost /\ DetailSettles

LEMMA SeamlessHasNone ==
    ASSUME NEW P, NEW t, Len(t) \in Nat, Seamless(P, t)
    PROVE  AtMostOneSeam(P, t)
<1>1. 0 \in 0..Len(t)
  OBVIOUS
<1> QED
  BY <1>1 DEF AtMostOneSeam, Seamless

(* New pieces come after every text there is.                              *)
LEMMA SeamsStay ==
    ASSUME NEW n \in Nat, NEW t \in Seq(1..n), NEW P, NEW Q,
           P \subseteq Q, Q \subseteq Nat, \A e \in Q : e \in P \/ e > n
    PROVE  /\ \A i \in 1..Len(t) : SeamIn(Q, t, i) <=> SeamIn(P, t, i)
           /\ Seamless(Q, t) <=> Seamless(P, t)
           /\ AtMostOneSeam(Q, t) <=> AtMostOneSeam(P, t)
<1>1. ASSUME NEW i \in 1..Len(t) PROVE SeamIn(Q, t, i) <=> SeamIn(P, t, i)
  <2>1. Len(t) \in Nat /\ \A j \in 1..Len(t) : t[j] \in 1..n
    BY LenProperties, ElementOfSeq
  <2>2. i \in Nat /\ t[i] \in 1..n
    BY <2>1
  <2>3. i = 1 => ((\E e \in Q : e < t[1]) <=> (\E e \in P : e < t[1]))
    <3> SUFFICES ASSUME i = 1
                 PROVE  (\E e \in Q : e < t[1]) <=> (\E e \in P : e < t[1])
      OBVIOUS
    <3>1. t[1] \in 1..n
      BY <2>2
    <3>2. \A e \in Q : e < t[1] => e \in P
      BY <3>1
    <3> QED
      BY <3>2
  <2> QED
    BY <2>2 DEF SeamIn
<1> QED
  BY <1>1 DEF Seamless, AtMostOneSeam

(* What the queries read is the text of the events they saw.               *)
LEMMA TextIsSeamless ==
    ASSUME History(log), NEW n \in 0..Len(log)
    PROVE  /\ Seamless(Pieces, TextAt(n))
           /\ \A e \in Pieces : e \in ToSet(TextAt(n)) <=> e <= n
<1> DEFINE t == TextAt(n)
<1>1. /\ t \in Seq(1..n) /\ ToSet(t) = Are("text", n)
      /\ \A i, j \in DOMAIN t : i < j => t[i] < t[j]
  BY TextIsThere DEF InOrder
<1>2. Len(log) \in Nat /\ n \in Nat
  BY LenProperties DEF History
<1>3. /\ Pieces \subseteq 1..Len(log)
      /\ \A e \in Pieces : e \in Are("text", n) <=> e <= n
  BY <1>2 DEF Pieces, Are
<1>4. /\ DOMAIN t = 1..Len(t) /\ Len(t) \in Nat
      /\ \A j \in 1..Len(t) : t[j] \in 1..n
      /\ \A e \in ToSet(t) : \E j \in 1..Len(t) : e = t[j]
  BY <1>1, LenProperties, ElementOfSeq DEF ToSet
<1> HIDE DEF t
<1>o. \A i, j \in 1..Len(t) : i < j => t[i] < t[j]
  BY <1>1, <1>4
<1>i. \A i \in 1..Len(t) : t[i] \in Int
  BY <1>2, <1>4
<1>5. \A e \in Pieces : e \in ToSet(t) <=> e <= n
  BY <1>1, <1>3
<1>6. ASSUME NEW e \in Pieces, NEW i \in 1..Len(t), e < t[i]
      PROVE  \E j \in 1..Len(t) : e = t[j] /\ j < i
  <2>1. e <= n
    BY <1>2, <1>3, <1>4, <1>6
  <2>2. PICK j \in 1..Len(t) : e = t[j]
    BY <1>4, <1>5, <2>1
  <2>3. ~ (i < j) /\ i # j
    <3>1. t[i] \in Int /\ t[j] \in Int /\ t[j] < t[i]
      BY <1>i, <1>6, <2>2
    <3>2. i < j => t[i] < t[j]
      BY <1>o, <2>2
    <3> HIDE DEF t
    <3> QED
      BY <3>1, <3>2
  <2> QED
    BY <1>4, <2>2, <2>3
<1>7. ASSUME NEW i \in 1..Len(t) PROVE ~ SeamIn(Pieces, t, i)
  <2>1. CASE i = 1
    <3>1. ASSUME NEW e \in Pieces, e < t[1] PROVE FALSE
      <4>1. PICK j \in 1..Len(t) : e = t[j] /\ j < i
        BY <1>6, <2>1, <3>1
      <4> QED
        BY <1>4, <2>1, <4>1
    <3> QED
      BY <2>1, <3>1 DEF SeamIn
  <2>2. CASE i > 1
    <3>1. i - 1 \in 1..Len(t) /\ i - 1 < i
      BY <1>4, <2>2
    <3>2. t[i - 1] < t[i] /\ t[i - 1] \in Int /\ t[i] \in Int
      BY <1>o, <1>i, <3>1
    <3>3. ASSUME NEW e \in Pieces, t[i - 1] < e, e < t[i] PROVE FALSE
      <4>1. PICK j \in 1..Len(t) : e = t[j] /\ j < i
        BY <1>6, <3>3
      <4>2. t[j] \in Int /\ t[i - 1] \in Int /\ t[i - 1] < t[j]
        BY <1>i, <3>1, <3>3, <4>1
      <4>3. j < i - 1 => t[j] < t[i - 1]
        BY <1>o, <3>1, <4>1
      <4>4. ~ (j < i - 1) /\ j # i - 1
        BY <4>2, <4>3
      <4> QED
        BY <1>4, <4>1, <4>4
    <3> QED
      BY <2>2, <3>2, <3>3 DEF SeamIn
  <2> QED
    BY <1>4, <2>1, <2>2
<1>8. Seamless(Pieces, t)
  BY <1>7 DEF Seamless
<1> QED
  BY <1>5, <1>8 DEF t

(* One more event is taken by a text that is whole, or that goes on.       *)
LEMMA TextGrows ==
    ASSUME NEW n \in Nat, NEW t \in Seq(1..n), NEW P \in SUBSET Nat, NEW x \in Nat \ {0},
           AtMostOneSeam(P, t), Seamless(P, t) \/ GoesOn(P, t, x - 1),
           NEW u, u = Append(t, x)
    PROVE  AtMostOneSeam(P, u) /\ GoesOn(P, u, x) /\ ToSet(u) = ToSet(t) \cup {x}
<1>1. /\ t \in Seq(Nat) /\ Len(t) \in Nat /\ \A i \in 1..Len(t) : t[i] \in Nat
      /\ x \in Nat /\ DOMAIN t = 1..Len(t) /\ (t = <<>> <=> Len(t) = 0)
  <2>1. 1..n \subseteq Nat
    OBVIOUS
  <2>2. t \in Seq(Nat)
    BY <2>1, WiderSeq
  <2> QED
    BY <2>2, ElementOfSeq, LenProperties, EmptySeq
<1>2. /\ Len(u) = Len(t) + 1 /\ u[Len(t) + 1] = x
      /\ \A i \in 1..Len(t) : u[i] = t[i]
      /\ DOMAIN u = 1..Len(u)
  BY <1>1, AppendProperties, LenProperties
<1>3. ASSUME NEW i \in 1..Len(t) PROVE SeamIn(P, u, i) <=> SeamIn(P, t, i)
  <2>1. u[i] = t[i] /\ (i = 1 => u[1] = t[1])
    BY <1>2
  <2>2. i > 1 => i - 1 \in 1..Len(t)
    BY <1>1
  <2>3. i > 1 => u[i - 1] = t[i - 1]
    BY <1>2, <2>2
  <2> QED
    BY <2>1, <2>3 DEF SeamIn
<1>4. AtMostOneSeam(P, u)
  <2>1. CASE Seamless(P, t)
    <3>1. \A i \in 1..Len(u) : SeamIn(P, u, i) => i = Len(u)
      <4>1. ASSUME NEW i \in 1..Len(u), i # Len(u) PROVE ~ SeamIn(P, u, i)
        <5>1. i \in 1..Len(t)
          BY <1>1, <1>2, <4>1
        <5> QED
          BY <1>3, <2>1, <5>1 DEF Seamless
      <4> QED
        BY <4>1
    <3>2. Len(u) \in 0..Len(u)
      BY <1>1, <1>2
    <3> QED
      BY <3>1, <3>2 DEF AtMostOneSeam
  <2>2. CASE GoesOn(P, t, x - 1)
    <3>1. PICK a \in 0..Len(t) : \A i \in 1..Len(t) : SeamIn(P, t, i) => i = a
      BY DEF AtMostOneSeam
    <3>2. /\ Len(t) > 0 /\ t[Len(t)] \in Nat /\ t[Len(t)] <= x - 1
          /\ \A e \in P : e <= t[Len(t)] \/ e > x - 1
      <4>1. Len(t) > 0 /\ Len(t) \in 1..Len(t)
        BY <1>1, <2>2 DEF GoesOn
      <4> QED
        BY <1>1, <2>2, <4>1 DEF GoesOn
    <3>3. ~ SeamIn(P, u, Len(t) + 1)
      <4>1. /\ Len(t) + 1 > 1 /\ (Len(t) + 1) - 1 = Len(t)
            /\ u[Len(t) + 1] = x /\ u[Len(t)] = t[Len(t)]
        <5>1. Len(t) \in 1..Len(t) /\ Len(t) + 1 > 1 /\ (Len(t) + 1) - 1 = Len(t)
          BY <1>1, <3>2
        <5> QED
          BY <1>2, <5>1
      <4>2. ~ (x <= t[Len(t)])
        BY <1>1, <3>2
      <4>3. \A e \in P : e \in Int /\ ~ (t[Len(t)] < e /\ e < x)
        BY <1>1, <3>2
      <4>4. ~ (Len(t) + 1 = 1) /\ Len(t) \in Nat
        BY <1>1, <3>2
      <4> QED
        BY <4>1, <4>2, <4>3, <4>4 DEF SeamIn
    <3>4. \A i \in 1..Len(u) : SeamIn(P, u, i) => i = a
      <4>1. \A i \in 1..Len(u) : i \in 1..Len(t) \/ i = Len(t) + 1
        BY <1>1, <1>2
      <4> QED
        BY <1>3, <3>1, <3>3, <4>1
    <3>5. a \in 0..Len(u)
      BY <1>1, <1>2
    <3> QED
      BY <3>4, <3>5 DEF AtMostOneSeam
  <2> QED
    BY <2>1, <2>2
<1>5. GoesOn(P, u, x)
  <2>1. u # <<>> /\ u[Len(u)] = x
    <3>1. Len(u) # 0 /\ Len(<<>>) = 0
      BY <1>1, <1>2
    <3> QED
      BY <3>1, <1>2
  <2>2. \A e \in P : e <= x \/ e > x
    BY <1>1
  <2> QED
    BY <1>1, <2>1, <2>2 DEF GoesOn
<1>6. ToSet(u) = ToSet(t) \cup {x}
  <2>1. \A i \in 1..Len(u) : u[i] \in ToSet(t) \cup {x}
    <3>1. \A i \in 1..Len(u) : i \in 1..Len(t) \/ i = Len(t) + 1
      BY <1>1, <1>2
    <3>2. \A i \in 1..Len(t) : t[i] \in ToSet(t)
      BY <1>1 DEF ToSet
    <3> QED
      BY <1>2, <3>1, <3>2
  <2>2. \A y \in ToSet(t) : \E i \in 1..Len(u) : y = u[i]
    <3>1. \A i \in 1..Len(t) : i \in 1..Len(u)
      BY <1>1, <1>2
    <3> QED
      BY <1>1, <1>2, <3>1 DEF ToSet
  <2>3. \E i \in 1..Len(u) : x = u[i]
    BY <1>1, <1>2
  <2>4. ToSet(u) = {u[i] : i \in 1..Len(u)}
    BY <1>2 DEF ToSet
  <2>5. \A y \in ToSet(u) : y \in ToSet(t) \cup {x}
    BY <2>1, <2>4
  <2>6. \A y \in ToSet(t) \cup {x} : y \in ToSet(u)
    BY <2>2, <2>3, <2>4
  <2> QED
    BY <2>5, <2>6
<1> QED
  BY <1>4, <1>5, <1>6

(* What the parts of this invariant speak of.                              *)
LEMMA DetailFacts ==
    ASSUME Typed, InLine
    PROVE  /\ Applied \in Nat /\ Applied <= published
           /\ published \in Nat /\ Len(log) \in Nat /\ published <= Len(log)
           /\ \A q \in Query : seen[q] \in Nat /\ seen[q] <= Len(log)
           /\ missed["detail"] \subseteq 1..published
           /\ text \in Seq(1..Len(log)) /\ Has \in Seq(1..Len(log))
           /\ \A e \in ToSet(Has) : e \in Nat /\ e <= Len(log)
           /\ Pieces \subseteq 1..Len(log) /\ Latest \in 0..Len(log)
<1>1. /\ published \in Nat /\ Len(log) \in Nat /\ published <= Len(log)
      /\ Pieces \subseteq 1..Len(log) /\ Latest \in 0..Len(log)
  BY LatestTyped
<1>2. /\ \A q \in Query : seen[q] \in 0..Len(log)
      /\ missed["detail"] \subseteq 1..published
      /\ text \in Seq(1..Len(log))
  BY Streams DEF Typed, EngineTyped, CopyTyped
<1>3. Has \in Seq(1..Len(log))
  <2>1. CASE Coming
    <3>1. wire["detail"] # <<>>
      BY <2>1 DEF Coming
    <3> QED
      BY <2>1, <3>1, FirstItem DEF Has
  <2> QED
    BY <1>2, <2>1 DEF Has
<1>4. \A e \in ToSet(Has) : e \in 1..Len(log)
  <2>1. DOMAIN Has = 1..Len(Has)
    BY <1>3, LenProperties
  <2> QED
    BY <1>3, <2>1, ElementOfSeq DEF ToSet
<1>5. Applied \in Nat /\ Applied <= published
  <2>1. /\ Len(wire["detail"]) \in Nat /\ Len(backlog["detail"]) \in Nat
        /\ (Coming => Len(wire["detail"]) # 0) /\ Applied \in Int
    BY QueueTypes DEF Coming
  <2>2. /\ Applied = published - Len(backlog["detail"]) - Len(wire["detail"])
                       + (IF Coming THEN 1 ELSE 0)
        /\ Applied >= 0
    BY DEF Applied, InLine
  <2> DEFINE m == Len(wire["detail"])
             n == Len(backlog["detail"])
  <2> HIDE DEF m, n
  <2>3. Applied <= published
    <3>1. CASE Coming
      <4>1. m \in Nat /\ m # 0 /\ n \in Nat
        BY <2>1, <3>1 DEF m, n
      <4>2. Applied = published - n - m + 1
        BY <2>2, <3>1 DEF m, n
      <4> QED
        BY <1>1, <4>1, <4>2
    <3>2. CASE ~ Coming
      <4>1. m \in Nat /\ n \in Nat
        BY <2>1 DEF m, n
      <4>2. Applied = published - n - m + 0
        BY <2>2, <3>2 DEF m, n
      <4> QED
        BY <1>1, <4>1, <4>2
    <3> QED
      BY <3>1, <3>2
  <2> QED
    BY <2>1, <2>2, <2>3
<1> QED
  BY <1>1, <1>2, <1>3, <1>4, <1>5

LEMMA HasSame ==
    ASSUME text' = text, wire'["detail"] = wire["detail"]
    PROVE  Has' = Has /\ Coming' = Coming
  BY DEF Has, Coming

(* The shell stream's steps: all they change here is that its item sets    *)
(* both sessions.                                                          *)
LEMMA DetailSame ==
    ASSUME DetailInv, log' = log, published' = published, text' = text,
           handler'["detail"] = handler["detail"], seen'["text"] = seen["text"],
           seen'["session"] = seen["session"],
           backlog'["detail"] = backlog["detail"], wire'["detail"] = wire["detail"],
           missed'["detail"] = missed["detail"],
           (session' = session /\ sidebar' = sidebar) \/ session' = sidebar'
    PROVE  DetailInv'
<1>1. /\ Latest' = Latest /\ Pieces' = Pieces
      /\ Has' = Has /\ Coming' = Coming /\ InLine' /\ Applied' = Applied
  BY LatestSame, HasSame, InLineSame DEF DetailInv
<1>2. Sewn'
  BY <1>1 DEF DetailInv, Sewn
<1>3. Lost'
  BY <1>1 DEF DetailInv, Lost
<1>4. SetsIt => SetsIt'
  BY <1>1 DEF SetsIt
<1>5. DetailSettles'
  BY <1>1, <1>4 DEF DetailInv, DetailSettles
<1> QED
  BY <1>1, <1>2, <1>3, <1>5 DEF DetailInv

LEMMA DetailCommit == ASSUME Typed, DetailInv, Commit PROVE DetailInv'
<1>1. /\ Latest' = Latest \/ Latest' > Len(log)
      /\ Latest' \in Nat
      /\ Pieces \subseteq Pieces' /\ Pieces' \subseteq Nat
      /\ \A e \in Pieces' : e \in Pieces \/ e > Len(log)
  BY LatestGrows
<1>2. /\ published = Len(log)
      /\ UNCHANGED <<published, handler, seen, backlog, wire, text, session,
                     sidebar, missed>>
  BY CommitGrows
<1>3. Has' = Has /\ Coming' = Coming /\ InLine' /\ Applied' = Applied
  BY <1>2, HasSame, InLineSame DEF DetailInv
<1>4. /\ Applied \in Nat /\ Applied <= Len(log) /\ Len(log) \in Nat
      /\ seen["text"] \in Nat /\ seen["text"] <= Len(log)
      /\ seen["session"] \in Nat /\ seen["session"] <= Len(log)
      /\ text \in Seq(1..Len(log)) /\ Has \in Seq(1..Len(log))
      /\ \A e \in ToSet(Has) : e \in Nat /\ e <= Len(log)
      /\ \A e \in missed["detail"] : e \in Nat /\ e <= Len(log)
  BY <1>2, DetailFacts DEF DetailInv, Query
<1>5. Sewn'
  <2>1. /\ AtMostOneSeam(Pieces', text) <=> AtMostOneSeam(Pieces, text)
        /\ Seamless(Pieces', text) <=> Seamless(Pieces, text)
        /\ Seamless(Pieces', Has) <=> Seamless(Pieces, Has)
    BY <1>1, <1>4, SeamsStay
  <2>2. GoesOn(Pieces, text, Applied) => GoesOn(Pieces', text, Applied)
    <3> SUFFICES ASSUME GoesOn(Pieces, text, Applied)
                 PROVE  GoesOn(Pieces', text, Applied)
      OBVIOUS
    <3>1. /\ text # <<>> /\ text[Len(text)] <= Applied
          /\ \A e \in Pieces : e <= text[Len(text)] \/ e > Applied
      BY DEF GoesOn
    <3>2. \A e \in Pieces' : e \in Pieces \/ e > Applied
      BY <1>1, <1>4
    <3> QED
      BY <3>1, <3>2 DEF GoesOn
  <2> QED
    BY <1>2, <1>3, <2>1, <2>2 DEF DetailInv, Sewn
<1>6. Lost'
  <2>1. handler["detail"] = "asked" => missed'["detail"] = {}
    BY <1>2 DEF DetailInv, Lost
  <2>2. ASSUME handler["detail"] \in {"half", "sent"}, NEW e \in Pieces',
               e <= published
        PROVE  e \in missed["detail"] <=> e > seen["text"]
    BY <1>1, <1>2, <1>4, <2>2 DEF DetailInv, Lost
  <2>3. ASSUME handler["detail"] = "sent", NEW e \in Pieces'
        PROVE  e \in ToSet(Has) <=> e <= seen["text"]
    <3>1. CASE e \in Pieces
      BY <2>3, <3>1 DEF DetailInv, Lost
    <3>2. CASE e > Len(log)
      BY <1>1, <1>4, <3>2
    <3> QED
      BY <1>1, <3>1, <3>2
  <2>4. ASSUME handler["detail"] = "live"
        PROVE  /\ \A e \in Pieces' :
                     e <= Applied => (e \in missed["detail"] <=> e \notin ToSet(Has))
               /\ \A e \in missed["detail"] : e <= Applied
    <3>1. \A e \in Pieces' : e <= Applied => e \in Pieces
      BY <1>1, <1>4
    <3> QED
      BY <2>4, <3>1 DEF DetailInv, Lost
  <2> QED
    BY <1>2, <1>3, <2>1, <2>2, <2>3, <2>4 DEF Lost
<1>7. DetailSettles'
  <2>1. CASE Latest' = Latest
    <3>1. SetsIt => SetsIt'
      BY <1>2, <1>3, <2>1 DEF SetsIt
    <3> QED
      BY <1>2, <1>3, <2>1, <3>1 DEF DetailInv, DetailSettles
  <2>2. CASE Latest' > Len(log)
    BY <1>1, <1>2, <1>3, <1>4, <2>2 DEF DetailSettles
  <2> QED
    BY <1>1, <2>1, <2>2
<1> QED
  BY <1>3, <1>5, <1>6, <1>7 DEF DetailInv

LEMMA DetailPublish == ASSUME Typed, DetailInv, Publish PROVE DetailInv'
<1> DEFINE e == published + 1
           h == handler["detail"]
<1>1. /\ published' = e /\ published' <= Len(log)
      /\ missed'["detail"] = IF Overlooks("detail", e) THEN missed["detail"] \cup {e}
                             ELSE missed["detail"]
      /\ UNCHANGED <<log, handler, seen, wire, text, session, sidebar>>
  BY PublishEffect, Streams
<1>2. /\ Has' = Has /\ Coming' = Coming /\ Latest' = Latest /\ Pieces' = Pieces
      /\ SetsIt' = SetsIt
  BY <1>1, HasSame, LatestSame DEF SetsIt
<1>3. /\ InLine' /\ (h = "live" => Applied' = Applied)
  BY InLinePublish DEF DetailInv
<1>4. /\ published \in Nat /\ seen["text"] \in Nat /\ seen["session"] \in Nat
      /\ missed["detail"] \subseteq 1..published
      /\ Pieces \subseteq 1..Len(log) /\ Latest \in 0..Len(log) /\ Len(log) \in Nat
  BY DetailFacts DEF DetailInv, Query
<1>5. /\ e \in 1..Len(log) /\ (e \in Pieces <=> log[e] = "text")
      /\ (e = Latest => log[e] = "session")
  BY <1>1, <1>4, LatestTyped
<1>6. Overlooks("detail", e)
         <=> e > seen[log[e]] /\ (h = "sent" \/ (h = "half" /\ log[e] = "text"))
  BY DEF Overlooks
<1>7. Sewn'
  BY <1>1, <1>2, <1>3 DEF DetailInv, Sewn
<1>8. Lost'
  <2>1. h = "asked" => missed'["detail"] = {}
    BY <1>1, <1>6 DEF DetailInv, Lost
  <2>2. ASSUME h \in {"half", "sent"}, NEW x \in Pieces, x <= published'
        PROVE  x \in missed'["detail"] <=> x > seen["text"]
    <3>1. CASE x = e
      <4>1. log[e] = "text" /\ e \notin missed["detail"]
        BY <1>4, <1>5, <3>1
      <4> HIDE DEF e
      <4> QED
        BY <1>1, <1>6, <2>2, <3>1, <4>1
    <3>2. CASE x # e
      <4>1. x <= published
        BY <1>1, <1>4, <2>2, <3>2
      <4>2. x \in missed["detail"] <=> x > seen["text"]
        BY <2>2, <4>1 DEF DetailInv, Lost
      <4> HIDE DEF e
      <4> QED
        BY <1>1, <3>2, <4>2
    <3> QED
      BY <3>1, <3>2
  <2>3. h = "sent" => \A x \in Pieces : x \in ToSet(Has) <=> x <= seen["text"]
    BY DEF DetailInv, Lost
  <2>4. h = "live" => /\ missed'["detail"] = missed["detail"] /\ Applied' = Applied
    BY <1>1, <1>3, <1>6
  <2>5. h = "live" =>
          /\ \A x \in Pieces :
                x <= Applied => (x \in missed["detail"] <=> x \notin ToSet(Has))
          /\ \A x \in missed["detail"] : x <= Applied
    BY DEF DetailInv, Lost
  <2> QED
    BY <1>1, <1>2, <2>1, <2>2, <2>3, <2>4, <2>5 DEF Lost
<1>9. DetailSettles'
  <2>1. ASSUME h = "sent", ~ SetsIt
        PROVE  /\ Latest > seen["session"]
               /\ Latest \in missed'["detail"] \/ Latest > published'
    <3>1. /\ Latest > seen["session"]
          /\ Latest \in missed["detail"] \/ Latest > published
      BY <2>1 DEF DetailInv, DetailSettles
    <3>2. CASE Latest = e
      <4>1. log[e] = "session"
        BY <1>5, <3>2
      <4> HIDE DEF e
      <4> QED
        BY <1>1, <1>6, <2>1, <3>1, <3>2, <4>1
    <3>3. CASE Latest # e
      <4>1. Latest \in missed["detail"] \/ Latest > published'
        BY <1>1, <1>4, <3>1, <3>3
      <4> QED
        BY <1>1, <3>1, <4>1
    <3> QED
      BY <3>2, <3>3
  <2>2. ASSUME h = "live", ~ SetsIt
        PROVE  Latest \in missed'["detail"] \/ Latest > Applied'
    BY <1>1, <1>3, <2>2 DEF DetailInv, DetailSettles
  <2> QED
    BY <1>1, <1>2, <2>1, <2>2 DEF DetailSettles
<1> QED
  BY <1>3, <1>7, <1>8, <1>9 DEF DetailInv

(* The stream begins again: nothing is missed by it.                       *)
LEMMA DetailRequest ==
    ASSUME Typed, DetailInv, Request("detail") PROVE DetailInv'
<1>1. /\ handler["detail"] = "idle" /\ handler'["detail"] = "asked"
      /\ missed'["detail"] = {}
      /\ UNCHANGED <<log, published, backlog, wire, text>>
  BY RequestEffect, Streams
<1>2. Has' = Has /\ Coming' = Coming /\ Latest' = Latest /\ Pieces' = Pieces
  BY <1>1, HasSame, LatestSame
<1>3. /\ backlog["detail"] = <<>> /\ wire["detail"] = <<>> /\ ~ Coming
      /\ InLine'
  BY <1>1 DEF DetailInv, InLine, Coming, Applied
<1>4. Sewn'
  BY <1>1, <1>2, <1>3 DEF DetailInv, Sewn
<1>5. Lost' /\ DetailSettles'
  BY <1>1 DEF Lost, DetailSettles
<1> QED
  BY <1>3, <1>4, <1>5 DEF DetailInv

LEMMA DetailReads ==
    ASSUME Typed, DetailInv, ReadMessages PROVE DetailInv'
<1>1. /\ handler["detail"] = "asked" /\ handler'["detail"] = "half"
      /\ seen'["text"] = Len(log)
      /\ UNCHANGED <<log, published, backlog, wire, text, missed>>
  BY ReadEffect
<1>2. Has' = Has /\ Coming' = Coming /\ Latest' = Latest /\ Pieces' = Pieces
  BY <1>1, HasSame, LatestSame
<1>3. /\ backlog["detail"] = <<>> /\ wire["detail"] = <<>> /\ ~ Coming
      /\ InLine'
  BY <1>1 DEF DetailInv, InLine, Coming, Applied
<1>4. Sewn'
  BY <1>1, <1>2, <1>3 DEF DetailInv, Sewn
<1>5. Lost'
  <2>1. /\ missed'["detail"] = {} /\ Pieces \subseteq 1..Len(log) /\ Len(log) \in Nat
    BY <1>1, DetailFacts DEF DetailInv, Lost
  <2>2. \A e \in Pieces : ~ (e > Len(log))
    BY <2>1
  <2> QED
    BY <1>1, <1>2, <2>1, <2>2 DEF Lost
<1>6. DetailSettles'
  BY <1>1 DEF DetailSettles
<1> QED
  BY <1>3, <1>4, <1>5, <1>6 DEF DetailInv

(* The messages are those that the first query saw, the session is newer.  *)
LEMMA DetailSnaps ==
    ASSUME Typed, DetailInv, DetailSnapshot PROVE DetailInv'
<1>1. /\ handler["detail"] = "half" /\ handler'["detail"] = "sent"
      /\ seen'["text"] = seen["text"]
      /\ UNCHANGED <<log, published, text, missed>>
  BY DetailSnapshotEffect
<1>2. /\ InLine' /\ Coming'
      /\ wire'["detail"][1].text = TextAt(seen["text"])
      /\ wire'["detail"][1].session = Latest
  BY InLineSnapshot DEF DetailInv
<1>3. Latest' = Latest /\ Pieces' = Pieces
  BY <1>1, LatestSame
<1>4. Has' = TextAt(seen["text"])
  BY <1>2 DEF Has
<1>5. /\ Seamless(Pieces, Has')
      /\ \A e \in Pieces : e \in ToSet(Has') <=> e <= seen["text"]
  <2>1. History(log) /\ seen["text"] \in 0..Len(log)
    BY DEF Typed, EngineTyped, Query
  <2> QED
    BY <2>1, <1>4, TextIsSeamless
<1>6. Sewn'
  BY <1>1, <1>2, <1>3, <1>5 DEF DetailInv, Sewn
<1>7. Lost'
  BY <1>1, <1>3, <1>5 DEF DetailInv, Lost
<1>8. DetailSettles'
  BY <1>1, <1>2, <1>3 DEF DetailSettles, SetsIt
<1> QED
  BY <1>2, <1>6, <1>7, <1>8 DEF DetailInv

(* From here on what is published comes along.                             *)
LEMMA DetailListens ==
    ASSUME Typed, DetailInv, Listen("detail") PROVE DetailInv'
<1>1. /\ handler["detail"] = "sent" /\ handler'["detail"] = "live"
      /\ UNCHANGED <<log, published, seen, backlog, wire, text, session, sidebar,
                     missed>>
  BY ListenEffect, Streams
<1>2. Has' = Has /\ Coming' = Coming /\ Latest' = Latest /\ Pieces' = Pieces
  BY <1>1, HasSame, LatestSame
<1>3. /\ backlog["detail"] = <<>>
      /\ wire["detail"] = <<>> \/ (Coming /\ Len(wire["detail"]) = 1)
      /\ InLine'
  BY <1>1, <1>2 DEF DetailInv, InLine, Applied
<1>4. Applied = published /\ Applied' = published
  <2>1. Applied' = Applied
    BY <1>1, <1>2 DEF Applied
  <2>2. /\ published \in Nat /\ Len(backlog["detail"]) = 0
        /\ (wire["detail"] = <<>> => Len(wire["detail"]) = 0 /\ ~ Coming)
    BY <1>3, QueueTypes DEF Coming
  <2>3. CASE wire["detail"] = <<>>
    BY <2>1, <2>2, <2>3 DEF Applied
  <2>4. CASE Coming /\ Len(wire["detail"]) = 1
    <3>1. Applied = published - 0 - 1 + 1
      BY <2>2, <2>4 DEF Applied
    <3> QED
      BY <2>1, <2>2, <3>1
  <2> QED
    BY <1>3, <2>3, <2>4
<1>5. Sewn'
  <2>1. ~ Coming => Has = text
    BY DEF Has
  <2> QED
    BY <1>1, <1>2, <2>1 DEF DetailInv, Sewn
<1>6. Lost'
  <2>1. /\ missed["detail"] \subseteq 1..published /\ published \in Nat
        /\ Pieces \subseteq 1..Len(log) /\ seen["text"] \in Nat
    BY DetailFacts DEF DetailInv, Query
  <2>2. \A e \in missed["detail"] : e <= published
    BY <2>1
  <2>3. ASSUME NEW e \in Pieces, e <= published
        PROVE  e \in missed["detail"] <=> e \notin ToSet(Has)
    <3>1. /\ e \in missed["detail"] <=> e > seen["text"]
          /\ e \in ToSet(Has) <=> e <= seen["text"]
      BY <1>1, <2>3 DEF DetailInv, Lost
    <3>2. e \in Nat
      BY <2>1
    <3> QED
      BY <2>1, <3>1, <3>2
  <2> QED
    BY <1>1, <1>2, <1>4, <2>2, <2>3 DEF Lost
<1>7. DetailSettles'
  <2>1. SetsIt' = SetsIt
    BY <1>1, <1>2 DEF SetsIt
  <2> QED
    BY <1>1, <1>2, <1>4, <2>1 DEF DetailInv, DetailSettles
<1> QED
  BY <1>3, <1>5, <1>6, <1>7 DEF DetailInv

LEMMA DetailForwards ==
    ASSUME Typed, DetailInv, ForwardEvent PROVE DetailInv'
<1>1. UNCHANGED <<log, published, handler, seen, text, session, sidebar, missed>>
  BY ForwardEventEffect
<1>2. /\ InLine' /\ Coming' = Coming /\ Applied' = Applied /\ Has' = Has
      /\ Coming => wire'["detail"][1] = wire["detail"][1]
      /\ Latest' = Latest /\ Pieces' = Pieces
  BY <1>1, InLineForward, LatestSame DEF DetailInv
<1>3. Sewn'
  BY <1>1, <1>2 DEF DetailInv, Sewn
<1>4. Lost'
  BY <1>1, <1>2 DEF DetailInv, Lost
<1>5. DetailSettles'
  <2>1. SetsIt' <=> SetsIt
    BY <1>1, <1>2 DEF SetsIt
  <2> QED
    BY <1>1, <1>2, <2>1 DEF DetailInv, DetailSettles
<1> QED
  BY <1>2, <1>3, <1>4, <1>5 DEF DetailInv

LEMMA DetailEnds ==
    ASSUME Typed, DetailInv, NEW S \in SUBSET Stream, "detail" \in S, End(S)
    PROVE  DetailInv'
<1>1. /\ handler'["detail"] = "idle" /\ backlog'["detail"] = <<>>
      /\ wire'["detail"] = <<>>
      /\ UNCHANGED <<log, published, text>>
  BY EndEffect
<1>2. ~ Coming' /\ Latest' = Latest /\ Pieces' = Pieces
  BY <1>1, LatestSame DEF Coming
<1>3. InLine'
  <2>1. published \in Nat /\ Len(<<>>) = 0
    BY DetailFacts DEF DetailInv
  <2>2. Applied' = published
    BY <1>1, <1>2, <2>1 DEF Applied
  <2>3. \A i \in 1..Len(<<>>) : FALSE
    BY <2>1
  <2> QED
    BY <1>1, <2>1, <2>2, <2>3 DEF InLine
<1>4. Sewn'
  BY <1>1, <1>2 DEF DetailInv, Sewn
<1>5. Lost' /\ DetailSettles'
  BY <1>1 DEF Lost, DetailSettles
<1> QED
  BY <1>3, <1>4, <1>5 DEF DetailInv

(* The client takes the snapshot.                                          *)
LEMMA DetailTakesSnapshot ==
    ASSUME Typed, DetailInv, Receive("detail"), Coming
    PROVE  DetailInv' /\ sidebar' = sidebar
<1> DEFINE item == wire["detail"][1]
<1>1. item.kind = "detail"
  BY DEF Coming
<1>2. /\ text' = item.text /\ session' = item.session /\ sidebar' = sidebar
      /\ UNCHANGED <<log, published, handler, seen, missed>>
  BY <1>1, ReceiveEffect, Streams
<1>3. InLine' /\ ~ Coming' /\ Applied' = Applied
  BY InLineReceive DEF DetailInv
<1>4. Latest' = Latest /\ Pieces' = Pieces
  BY <1>2, LatestSame
<1>5. text' = Has /\ Has' = Has
  BY <1>2, <1>3 DEF Has
<1>6. SetsIt => SetsIt'
  BY <1>2, <1>3, <1>4 DEF SetsIt
<1>7. Sewn'
  <2>1. Seamless(Pieces, Has)
    BY DEF DetailInv, Sewn
  <2>2. Len(Has) \in Nat
    BY DetailFacts, LenProperties DEF DetailInv
  <2>3. AtMostOneSeam(Pieces, Has)
    BY <2>1, <2>2, SeamlessHasNone
  <2> QED
    BY <1>3, <1>4, <1>5, <2>1, <2>3 DEF Sewn
<1>8. Lost'
  BY <1>2, <1>3, <1>4, <1>5 DEF DetailInv, Lost
<1>9. DetailSettles'
  BY <1>2, <1>3, <1>4, <1>6 DEF DetailInv, DetailSettles
<1> QED
  BY <1>2, <1>3, <1>7, <1>8, <1>9 DEF DetailInv

(* The client takes the next event.                                        *)
LEMMA DetailTakesEvent ==
    ASSUME Typed, DetailInv, Receive("detail"), ~ Coming
    PROVE  DetailInv' /\ sidebar' = sidebar
<1> DEFINE e == Applied + 1
<1>1. /\ wire["detail"] # <<>>
      /\ UNCHANGED <<log, published, handler, seen, missed>>
  BY ReceiveEffect, Streams
<1>2. /\ wire["detail"][1].kind = "event" /\ wire["detail"][1].event = e
      /\ e <= published
  BY <1>1, FirstItem DEF DetailInv
<1>3. /\ sidebar' = sidebar
      /\ \/ log[e] = "text" /\ session' = session /\ text' = Append(text, e)
         \/ log[e] # "text" /\ session' = e /\ text' = text
  BY <1>2, ReceiveEffect, Streams
<1>4. InLine' /\ ~ Coming' /\ Applied' = e /\ handler["detail"] = "live"
  BY InLineReceive DEF DetailInv
<1>5. Latest' = Latest /\ Pieces' = Pieces /\ Has = text /\ Has' = text'
  BY <1>1, <1>4, LatestSame DEF Has
<1>6. /\ Applied \in Nat /\ published \in Nat /\ Len(log) \in Nat
      /\ published <= Len(log)
      /\ Pieces \subseteq 1..Len(log) /\ Latest \in 0..Len(log)
      /\ text \in Seq(1..Len(log))
      /\ \A x \in missed["detail"] : x <= Applied
  BY <1>4, DetailFacts DEF DetailInv, Lost
<1>7. /\ e \in 1..Len(log) /\ e \in Nat \ {0} /\ e - 1 = Applied
      /\ (e \in Pieces <=> log[e] = "text")
      /\ (log[e] = "session" => e <= Latest)
      /\ (Latest = e => log[e] = "session")
      /\ log[e] \in {"text", "session"}
  BY <1>2, <1>6, LatestTyped
<1>8. \A x \in Pieces : x \in Nat /\ (x <= e <=> x <= Applied \/ x = e)
  BY <1>6
<1>9. e \notin missed["detail"]
  BY <1>6
<1>10. /\ AtMostOneSeam(Pieces, text)
       /\ Seamless(Pieces, text) \/ GoesOn(Pieces, text, Applied)
       /\ \A x \in Pieces :
             x <= Applied => (x \in missed["detail"] <=> x \notin ToSet(text))
       /\ SetsIt \/ Latest \in missed["detail"] \/ Latest > Applied
  BY <1>4, <1>5 DEF DetailInv, Sewn, Lost, DetailSettles
<1> HIDE DEF e
<1>11. CASE log[e] = "text"
  <2>1. text' = Append(text, e) /\ session' = session
    BY <1>3, <1>11
  <2>2. /\ AtMostOneSeam(Pieces, text') /\ GoesOn(Pieces, text', e)
        /\ ToSet(text') = ToSet(text) \cup {e}
    <3>1. Pieces \in SUBSET Nat
      BY <1>6
    <3>2. Seamless(Pieces, text) \/ GoesOn(Pieces, text, e - 1)
      BY <1>7, <1>10
    <3> QED
      BY <1>6, <1>7, <1>10, <2>1, <3>1, <3>2, TextGrows
  <2>3. Sewn'
    BY <1>1, <1>4, <1>5, <2>2 DEF Sewn
  <2>4. Lost'
    <3>1. \A x \in Pieces :
             x <= e => (x \in missed["detail"] <=> x \notin ToSet(text'))
      BY <1>8, <1>9, <1>10, <2>2
    <3>2. \A x \in missed["detail"] : x <= e
      <4>1. missed["detail"] \subseteq 1..published
        BY DetailFacts DEF DetailInv
      <4> QED
        BY <1>6, <1>7, <4>1
    <3> QED
      BY <1>1, <1>4, <1>5, <3>1, <3>2 DEF Lost
  <2>5. SetsIt => SetsIt'
    BY <1>3, <1>4, <1>5, <2>1 DEF SetsIt
  <2>6. Latest # e
    BY <1>7, <1>11
  <2>7. Latest > Applied => Latest > e
    BY <1>6, <1>7, <2>6
  <2>8. DetailSettles'
    BY <1>1, <1>4, <1>5, <1>10, <2>5, <2>7 DEF DetailSettles
  <2> QED
    BY <1>3, <1>4, <2>3, <2>4, <2>8 DEF DetailInv
<1>12. CASE log[e] # "text"
  <2>1. text' = text /\ session' = e /\ log[e] = "session" /\ e \notin Pieces
    BY <1>3, <1>7, <1>12
  <2>2. \A x \in Pieces : x <= e <=> x <= Applied
    BY <1>8, <2>1
  <2>3. GoesOn(Pieces, text, Applied) => GoesOn(Pieces, text, e)
    <3> SUFFICES ASSUME GoesOn(Pieces, text, Applied)
                 PROVE  GoesOn(Pieces, text, e)
      OBVIOUS
    <3>1. /\ text # <<>> /\ text[Len(text)] <= Applied
          /\ \A x \in Pieces : x <= text[Len(text)] \/ x > Applied
      BY DEF GoesOn
    <3>2. text[Len(text)] \in Nat
      <4>1. Len(text) \in 1..Len(text)
        BY <1>6, <3>1, EmptySeq, LenProperties
      <4> QED
        BY <1>6, <4>1, ElementOfSeq
    <3>3. text[Len(text)] <= e
      BY <1>6, <1>7, <3>1, <3>2
    <3>4. \A x \in Pieces : x <= text[Len(text)] \/ x > e
      BY <1>6, <1>7, <1>8, <2>2, <3>1
    <3> QED
      BY <3>1, <3>3, <3>4 DEF GoesOn
  <2>4. Sewn'
    BY <1>1, <1>4, <1>5, <1>10, <2>1, <2>3 DEF Sewn
  <2>5. Lost'
    <3>1. \A x \in Pieces :
             x <= e => (x \in missed["detail"] <=> x \notin ToSet(text))
      BY <1>10, <2>2
    <3>2. \A x \in missed["detail"] : x <= e
      <4>1. missed["detail"] \subseteq 1..published
        BY DetailFacts DEF DetailInv
      <4> QED
        BY <1>6, <1>7, <4>1
    <3> QED
      BY <1>1, <1>4, <1>5, <2>1, <3>1, <3>2 DEF Lost
  <2>6. e = Latest \/ Latest > e
    BY <1>6, <1>7, <2>1
  <2>7. e = Latest => SetsIt'
    BY <1>4, <1>5, <2>1 DEF SetsIt
  <2>8. DetailSettles'
    BY <1>1, <1>4, <1>5, <2>6, <2>7 DEF DetailSettles
  <2> QED
    BY <1>3, <1>4, <2>4, <2>5, <2>8 DEF DetailInv
<1> QED
  BY <1>11, <1>12

LEMMA DetailReceives ==
    ASSUME Typed, DetailInv, Receive("detail")
    PROVE  DetailInv' /\ sidebar' = sidebar
  BY DetailTakesSnapshot, DetailTakesEvent

-----------------------------------------------------------------------------
(* The streams together.                                                   *)

(* The steps that are left of the shell stream.                            *)
LEMMA ShellKeeps ==
    ASSUME Typed, ShellInv,
           \/ ShellSnapshot \/ ReadMessages \/ DetailSnapshot \/ ForwardEvent
           \/ \E s \in Stream : Request(s) \/ Listen(s)
           \/ End({"detail"}) \/ End(Stream)
    PROVE  ShellInv' /\ sidebar' = sidebar
<1>1. CASE ShellSnapshot
  <2>1. /\ handler'["shell"] = "sent" /\ handler["shell"] = "asked"
        /\ UNCHANGED <<log, backlog, sidebar>>
    BY <1>1, ShellSnapshotEffect
  <2>2. ShellRises' /\ Shown' = Latest'
    BY <1>1, <2>1, ShellSnapshotEffect, ShellSends DEF ShellInv
  <2>3. ShellSettles'
    BY <2>1, <2>2 DEF ShellInv, ShellSettles
  <2> QED
    BY <2>1, <2>2, <2>3 DEF ShellInv
<1>2. CASE ReadMessages
  <2>1. /\ seen'["shell"] = seen["shell"] /\ handler'["shell"] = handler["shell"]
        /\ UNCHANGED <<log, published, backlog, wire, sidebar, missed>>
    BY <1>2, ReadEffect
  <2> QED
    BY <2>1, ShellSame
<1>3. CASE DetailSnapshot
  <2>1. /\ seen'["shell"] = seen["shell"] /\ handler'["shell"] = handler["shell"]
        /\ UNCHANGED <<log, published, backlog, sidebar, missed>>
    BY <1>3, DetailSnapshotEffect
  <2>2. wire'["shell"] = wire["shell"]
    <3>1. wire \in [Stream -> Seq(ItemOf(Len(log)))]
      BY DEF Typed, QueuesTyped
    <3> QED
      BY <1>3, <3>1, Streams, DetailSnapshotEffect
  <2> QED
    BY <2>1, <2>2, ShellSame
<1>4. CASE ForwardEvent
  <2>1. UNCHANGED <<log, published, handler, seen, sidebar, missed>>
    BY <1>4, ForwardEventEffect
  <2>2. wire'["shell"] = wire["shell"] /\ backlog'["shell"] = backlog["shell"]
    <3>1. /\ wire \in [Stream -> Seq(ItemOf(Len(log)))]
          /\ backlog \in [Stream -> Seq(1..published)]
      BY DEF Typed, QueuesTyped
    <3> QED
      BY <1>4, <3>1, Streams, ForwardEventEffect
  <2> QED
    BY <2>1, <2>2, ShellSame
<1>5. ASSUME NEW s \in Stream, Request(s)
      PROVE  ShellInv' /\ sidebar' = sidebar
  <2>1. /\ handler[s] = "idle" /\ handler'[s] = "asked"
        /\ \A r \in Stream \ {s} : handler'[r] = handler[r] /\ missed'[r] = missed[r]
        /\ UNCHANGED <<log, published, seen, backlog, wire, sidebar>>
    BY <1>5, RequestEffect
  <2>2. CASE s = "shell"
    <3>1. Latest' = Latest /\ Shown' = Shown
      BY <2>1, LatestSame DEF Shown
    <3> QED
      BY <2>1, <2>2, <3>1 DEF ShellInv, ShellRises, ShellSettles
  <2>3. CASE s # "shell"
    BY <2>1, <2>3, Streams, ShellSame
  <2> QED
    BY <2>2, <2>3
<1>6. ASSUME NEW s \in Stream, Listen(s)
      PROVE  ShellInv' /\ sidebar' = sidebar
  <2>1. /\ handler[s] = "sent" /\ handler'[s] = "live"
        /\ \A r \in Stream \ {s} : handler'[r] = handler[r]
        /\ UNCHANGED <<log, published, seen, backlog, wire, sidebar, missed>>
    BY <1>6, ListenEffect
  <2>2. CASE s = "shell"
    <3>1. Latest' = Latest /\ Shown' = Shown
      BY <2>1, LatestSame DEF Shown
    <3> QED
      BY <2>1, <2>2, <3>1 DEF ShellInv, ShellRises, ShellSettles
  <2>3. CASE s # "shell"
    BY <2>1, <2>3, Streams, ShellSame
  <2> QED
    BY <2>2, <2>3
<1>7. ASSUME NEW S \in SUBSET Stream, End(S)
      PROVE  ShellInv' /\ sidebar' = sidebar
  <2>1. /\ \A s \in S : handler'[s] = "idle" /\ backlog'[s] = <<>> /\ wire'[s] = <<>>
        /\ \A s \in Stream \ S : /\ handler'[s] = handler[s]
                                 /\ backlog'[s] = backlog[s] /\ wire'[s] = wire[s]
        /\ UNCHANGED <<log, published, seen, sidebar, missed>>
    BY <1>7, EndEffect
  <2>2. CASE "shell" \in S
    <3>1. /\ handler'["shell"] = "idle" /\ backlog'["shell"] = <<>>
          /\ wire'["shell"] = <<>> /\ Latest' = Latest
      BY <2>1, <2>2, LatestSame
    <3>2. \A i \in 1..Len(<<>>) : FALSE
      BY EmptySeq
    <3> QED
      BY <2>1, <3>1, <3>2 DEF ShellInv, ShellRises, ShellSettles
  <2>3. CASE "shell" \notin S
    BY <2>1, <2>3, Streams, ShellSame
  <2> QED
    BY <2>2, <2>3
<1>8. {"detail"} \in SUBSET Stream /\ Stream \in SUBSET Stream
  BY Streams
<1> QED
  BY <1>1, <1>2, <1>3, <1>4, <1>5, <1>6, <1>7, <1>8

(* ... and of the detail stream.                                           *)
LEMMA DetailKeeps ==
    ASSUME Typed, ShellInv, DetailInv,
           \/ ShellSnapshot \/ ForwardShell \/ ForwardFails
           \/ Request("shell") \/ Listen("shell") \/ Receive("shell")
    PROVE  DetailInv'
<1> USE DEF Query
<1>1. CASE ShellSnapshot
  <2>1. /\ handler'["detail"] = handler["detail"]
        /\ \A q \in {"text", "session"} : seen'[q] = seen[q]
        /\ UNCHANGED <<log, published, backlog, text, session, sidebar, missed>>
    BY <1>1, ShellSnapshotEffect
  <2>2. wire'["detail"] = wire["detail"]
    <3>1. wire \in [Stream -> Seq(ItemOf(Len(log)))]
      BY DEF Typed, QueuesTyped
    <3> QED
      BY <1>1, <3>1, Streams, ShellSnapshotEffect
  <2> QED
    BY <2>1, <2>2, DetailSame
<1>2. CASE ForwardShell \/ ForwardFails
  <2>1. /\ missed'["detail"] = missed["detail"]
        /\ UNCHANGED <<log, published, handler, seen, text, session, sidebar>>
    BY <1>2, ForwardShellEffect, ForwardFailsEffect
  <2>2. wire'["detail"] = wire["detail"] /\ backlog'["detail"] = backlog["detail"]
    <3>1. /\ wire \in [Stream -> Seq(ItemOf(Len(log)))]
          /\ backlog \in [Stream -> Seq(1..published)]
      BY DEF Typed, QueuesTyped
    <3>2. CASE ForwardShell
      BY <3>1, <3>2, Streams, ForwardShellEffect
    <3>3. CASE ForwardFails
      BY <3>1, <3>3, Streams, ForwardFailsEffect
    <3> QED
      BY <1>2, <3>2, <3>3
  <2> QED
    BY <2>1, <2>2, DetailSame
<1>3. CASE Request("shell")
  <2>1. /\ \A r \in Stream \ {"shell"} :
               handler'[r] = handler[r] /\ missed'[r] = missed[r]
        /\ UNCHANGED <<log, published, seen, backlog, wire, text, session, sidebar>>
    BY <1>3, Streams, RequestEffect
  <2> QED
    BY <2>1, Streams, DetailSame
<1>4. CASE Listen("shell")
  <2>1. /\ \A r \in Stream \ {"shell"} : handler'[r] = handler[r]
        /\ UNCHANGED <<log, published, seen, backlog, wire, text, session, sidebar,
                       missed>>
    BY <1>4, Streams, ListenEffect
  <2> QED
    BY <2>1, Streams, DetailSame
<1>5. CASE Receive("shell")
  <2>1. wire["shell"][1].kind = "shell"
    BY <1>5, ShellReceives
  <2>2. /\ text' = text /\ session' = sidebar'
        /\ \A r \in Stream \ {"shell"} : wire'[r] = wire[r]
        /\ UNCHANGED <<log, published, handler, seen, backlog, missed>>
    BY <1>5, <2>1, Streams, ReceiveEffect
  <2> QED
    BY <2>2, Streams, DetailSame
<1> QED
  BY <1>1, <1>2, <1>3, <1>4, <1>5

(* The inductive invariant.                                                *)
Inv == Typed /\ Len(log) <= MaxEvents /\ ShellInv /\ DetailInv

LEMMA InitHolds == Init => Inv
<1> SUFFICES ASSUME Init PROVE Inv
  OBVIOUS
<1>1. /\ log = <<>> /\ published = 0 /\ text = <<>> /\ session = 0 /\ sidebar = 0
      /\ handler = [s \in Stream |-> "idle"]
      /\ seen = [q \in Query |-> 0]
      /\ backlog = [s \in Stream |-> <<>>]
      /\ wire = [s \in Stream |-> <<>>]
      /\ missed = [s \in Stream |-> {}]
  BY DEF Init
<1>2. Len(log) = 0 /\ \A S : <<>> \in Seq(S)
  BY <1>1, EmptySeq
<1>3. Typed
  BY <1>1, <1>2
     DEF Typed, EngineTyped, QueuesTyped, CopyTyped, History, HandlerPlace
<1>4. DetailInv
  <2>1. /\ backlog["detail"] = <<>> /\ wire["detail"] = <<>>
        /\ handler["detail"] = "idle" /\ ~ Coming /\ Len(<<>>) = 0
    BY <1>1, Streams, EmptySeq DEF Coming
  <2>2. InLine
    <3>1. Applied = 0
      BY <1>1, <2>1 DEF Applied
    <3>2. \A i \in 1..Len(<<>>) : FALSE
      BY <2>1
    <3> QED
      BY <2>1, <3>1, <3>2 DEF InLine
  <2>3. Sewn
    <3>1. Seamless(Pieces, <<>>)
      BY <2>1 DEF Seamless
    <3> QED
      BY <1>1, <2>1, <3>1, SeamlessHasNone DEF Sewn
  <2>4. Lost /\ DetailSettles
    BY <2>1 DEF Lost, DetailSettles
  <2> QED
    BY <2>2, <2>3, <2>4 DEF DetailInv
<1> QED
  BY <1>2, <1>3, <1>4, ShellInit, LiveAssumption DEF Inv

LEMMA Bounded ==
    ASSUME Typed, Len(log) <= MaxEvents, [Next]_vars
    PROVE  Len(log') <= MaxEvents
<1>1. CASE Commit
  <2>1. PICK n \in 1..MaxBatch :
           \E batch \in [1..n -> {"text", "session"}] :
              Len(log) + n <= MaxEvents /\ log' = log \o batch
    BY <1>1 DEF Commit
  <2>2. PICK batch \in [1..n -> {"text", "session"}] :
           Len(log) + n <= MaxEvents /\ log' = log \o batch
    BY <2>1
  <2>3. batch \in Seq({"text", "session"}) /\ n \in Nat
    BY <2>1, LiveAssumption, SeqDef
  <2>4. Len(batch) = n
    BY <2>2, <2>3, LenProperties
  <2>5. log \in Seq({"text", "session"})
    BY DEF Typed, EngineTyped, History
  <2>6. Len(log \o batch) = Len(log) + Len(batch)
    BY <2>3, <2>5, ConcatProperties
  <2> QED
    BY <2>2, <2>4, <2>6
<1>2. CASE ~ Commit
  <2>1. log' = log
    BY <1>2 DEF Next, vars, server, Publish, ShellSnapshot, ReadMessages,
                DetailSnapshot, ForwardEvent, ForwardShell, ForwardFails, Request,
                Listen, Receive, End
  <2> QED
    BY <2>1
<1> QED
  BY <1>1, <1>2

LEMMA NextHolds ==
    ASSUME Inv, [Next]_vars PROVE Inv' /\ sidebar' >= sidebar
<1> USE DEF Inv
<1>0. sidebar \in Nat
  BY LatestTyped DEF Typed, CopyTyped
<1>b. Len(log') <= MaxEvents
  BY Bounded
<1>1. CASE Commit
  <2>1. sidebar' = sidebar
    BY <1>1, CommitGrows
  <2> QED
    BY <1>0, <1>b, <1>1, <2>1, TypedCommit, ShellCommit, DetailCommit
<1>2. CASE Publish
  <2>1. sidebar' = sidebar /\ Typed'
    BY <1>2, PublishEffect
  <2> QED
    BY <1>0, <1>b, <1>2, <2>1, ShellPublish, DetailPublish
<1>3. CASE ShellSnapshot
  BY <1>0, <1>b, <1>3, ShellSnapshotEffect, ShellKeeps, DetailKeeps
<1>4. CASE ReadMessages
  BY <1>0, <1>b, <1>4, ReadEffect, ShellKeeps, DetailReads
<1>5. CASE DetailSnapshot
  BY <1>0, <1>b, <1>5, DetailSnapshotEffect, ShellKeeps, DetailSnaps
<1>6. CASE ForwardEvent
  BY <1>0, <1>b, <1>6, ForwardEventEffect, ShellKeeps, DetailForwards
<1>7. CASE ForwardShell
  <2>1. sidebar' = sidebar /\ Typed'
    BY <1>7, ForwardShellEffect
  <2> QED
    BY <1>0, <1>b, <1>7, <2>1, ShellForwards, DetailKeeps
<1>8. CASE ForwardFails
  <2>1. sidebar' = sidebar /\ Typed'
    BY <1>8, ForwardFailsEffect
  <2> QED
    BY <1>0, <1>b, <1>8, <2>1, ShellForwards, DetailKeeps
<1>9. ASSUME NEW s \in Stream, Request(s) PROVE Inv' /\ sidebar' >= sidebar
  <2>1. Typed' /\ ShellInv' /\ sidebar' = sidebar
    BY <1>9, RequestEffect, ShellKeeps
  <2>2. DetailInv'
    BY <1>9, Streams, DetailRequest, DetailKeeps
  <2> QED
    BY <1>0, <1>b, <2>1, <2>2
<1>10. ASSUME NEW s \in Stream, Listen(s) PROVE Inv' /\ sidebar' >= sidebar
  <2>1. Typed' /\ ShellInv' /\ sidebar' = sidebar
    BY <1>10, ListenEffect, ShellKeeps
  <2>2. DetailInv'
    BY <1>10, Streams, DetailListens, DetailKeeps
  <2> QED
    BY <1>0, <1>b, <2>1, <2>2
<1>11. CASE Receive("shell")
  <2>1. Typed'
    BY <1>11, Streams, ReceiveEffect
  <2> QED
    BY <1>b, <1>11, <2>1, ShellReceives, DetailKeeps
<1>12. CASE Receive("detail")
  <2>1. Typed'
    BY <1>12, Streams, ReceiveEffect
  <2>2. DetailInv' /\ sidebar' = sidebar
    BY <1>12, DetailReceives
  <2>3. /\ UNCHANGED <<log, published, handler, seen, backlog, missed>>
        /\ \A r \in Stream \ {"detail"} : wire'[r] = wire[r]
    BY <1>12, Streams, ReceiveEffect
  <2>4. ShellInv'
    BY <2>2, <2>3, Streams, ShellSame
  <2> QED
    BY <1>0, <1>b, <2>1, <2>2, <2>4
<1>13. ASSUME NEW S \in SUBSET Stream, "detail" \in S, End(S)
       PROVE  Typed' /\ DetailInv'
  BY <1>13, EndEffect, DetailEnds
<1>14. CASE End({"detail"}) \/ End(Stream)
  <2>1. ShellInv' /\ sidebar' = sidebar
    BY <1>14, ShellKeeps
  <2>2. Typed' /\ DetailInv'
    BY <1>13, <1>14, Streams
  <2> QED
    BY <1>0, <1>b, <2>1, <2>2
<1>15. CASE UNCHANGED vars
  <2>1. UNCHANGED <<log, published, handler, seen, backlog, wire, text, session,
                    sidebar, missed>>
    BY <1>15 DEF vars, server, copy
  <2>2. Typed' /\ ShellInv' /\ DetailInv'
    BY <2>1, TypedSame, ShellSame, DetailSame
  <2> QED
    BY <1>0, <1>b, <2>1, <2>2
<1>16. \A s \in Stream : Receive(s) => Receive("shell") \/ Receive("detail")
  BY Streams
<1> QED
  BY <1>1, <1>2, <1>3, <1>4, <1>5, <1>6, <1>7, <1>8, <1>9, <1>10, <1>11, <1>12,
     <1>14, <1>15, <1>16 DEF Next

-----------------------------------------------------------------------------
(* Every variable of the streams has its type, and only a handler that     *)
(* listens has a hub subscription (ws.ts, store.ts).                       *)
THEOREM StreamsTyped == Spec => []TypeOK
<1>1. Inv => TypeOK
  <2> SUFFICES ASSUME Inv PROVE TypeOK
    OBVIOUS
  <2>1. \A s \in Stream : handler[s] # "live" => backlog[s] = <<>>
    BY Streams DEF Inv, ShellInv, ShellSettles, DetailInv, InLine
  <2>2. \A s \in Stream : wire[s] \in Seq(Item)
    <3>1. Len(log) \in Nat /\ MaxEvents \in Nat /\ Len(log) <= MaxEvents
      BY LatestTyped, LiveAssumption DEF Inv
    <3>2. ItemOf(Len(log)) \subseteq Item
      BY <3>1, ItemsGrow DEF Item, ItemOf
    <3> QED
      BY <3>2, WiderSeq DEF Inv, Typed, QueuesTyped
  <2> QED
    BY <2>1, <2>2
       DEF Inv, Typed, EngineTyped, QueuesTyped, CopyTyped, History, TypeOK
<1> QED
  BY <1>1, InitHolds, NextHolds, PTL DEF Spec

(* The client's text is a beginning of the thread's text and one stretch   *)
(* of it: the live part loses, repeats and reorders nothing (ws.ts         *)
(* subscribeThread, store.ts).                                             *)
THEOREM TextHasOneSeam == Spec => []OneSeam
<1>1. Inv => OneSeam
  <2> SUFFICES ASSUME Inv PROVE OneSeam
    OBVIOUS
  <2>1. Seams = {i \in 1..Len(text) : SeamIn(Pieces, text, i)}
    BY DEF Seams, SeamIn, Pieces
  <2>2. PICK a \in 0..Len(text) :
           \A i \in 1..Len(text) : SeamIn(Pieces, text, i) => i = a
    BY DEF Inv, DetailInv, Sewn, AtMostOneSeam
  <2>3. Seams \subseteq {a}
    BY <2>1, <2>2
  <2>4. IsFiniteSet({a}) /\ Cardinality({a}) = 1
    BY FS_Singleton
  <2>5. IsFiniteSet(Seams) /\ Cardinality(Seams) <= Cardinality({a})
    BY <2>3, <2>4, FS_Subset
  <2> QED
    BY <2>4, <2>5 DEF OneSeam
<1> QED
  BY <1>1, InitHolds, NextHolds, PTL DEF Spec

LEMMA AllApplied ==
    ASSUME Inv, published = Len(log), Delivered("detail")
    PROVE  ~ Coming /\ Applied = Len(log) /\ Has = text /\ handler["detail"] = "live"
           /\ Len(log) \in Nat /\ Pieces \subseteq 1..Len(log) /\ Latest \in 0..Len(log)
<1>1. /\ wire["detail"] = <<>> /\ backlog["detail"] = <<>>
      /\ handler["detail"] = "live"
  BY DEF Delivered
<1>2. /\ Len(log) \in Nat /\ Len(wire["detail"]) = 0 /\ Len(backlog["detail"]) = 0
      /\ Pieces \subseteq 1..Len(log) /\ Latest \in 0..Len(log)
  BY <1>1, QueueTypes, DetailFacts DEF Inv, DetailInv
<1> QED
  BY <1>1, <1>2 DEF Coming, Applied, Has

(* Once all is delivered the text lacks exactly the pieces published       *)
(* between the snapshot's query and the subscription to the hub (ws.ts     *)
(* subscribeThread).                                                       *)
THEOREM OnlyTheGapIsLost == Spec => []LossIsTheGap
<1>1. Inv => LossIsTheGap
  <2> SUFFICES ASSUME Inv, published = Len(log), Delivered("detail")
               PROVE  Pieces \ ToSet(text) = missed["detail"] \cap Pieces
    BY DEF LossIsTheGap, Pieces
  <2>1. /\ Applied = Len(log) /\ Has = text /\ handler["detail"] = "live"
        /\ Len(log) \in Nat /\ Pieces \subseteq 1..Len(log)
    BY AllApplied
  <2>2. \A e \in Pieces : e <= Applied
    BY <2>1
  <2>3. \A e \in Pieces : e \in missed["detail"] <=> e \notin ToSet(text)
    BY <2>1, <2>2 DEF Inv, DetailInv, Lost
  <2> QED
    BY <2>3
<1> QED
  BY <1>1, InitHolds, NextHolds, PTL DEF Spec

(* Two streams write the session in an order nobody fixes; once all is     *)
(* delivered both copies are current unless a stream was not there for the *)
(* event that set it (store.ts writeThreadShellState, ws.ts).              *)
THEOREM SessionsAgree == Spec => []SessionsSettle
<1>1. ASSUME Inv, published = Len(log), Delivered("shell"),
             Latest \notin missed["shell"]
      PROVE  sidebar = Latest
  <2>1. /\ handler["shell"] = "live" /\ backlog["shell"] = <<>>
        /\ wire["shell"] = <<>> /\ Len(<<>>) = 0
    BY <1>1, EmptySeq DEF Delivered
  <2>2. ~ (Latest > published)
    BY <1>1, LatestTyped DEF Inv
  <2>3. ~ \E i \in 1..Len(backlog["shell"]) : backlog["shell"][i] = Latest
    BY <2>1
  <2>4. Shown = Latest
    BY <1>1, <2>1, <2>2, <2>3 DEF Inv, ShellInv, ShellSettles
  <2> QED
    BY <2>1, <2>4 DEF Shown
<1>2. ASSUME Inv, Quiet, Latest \notin missed["shell"] \cup missed["detail"]
      PROVE  session = Latest
  <2>1. published = Len(log) /\ Delivered("shell") /\ Delivered("detail")
    BY <1>2, Streams DEF Quiet
  <2>2. sidebar = Latest
    BY <1>1, <1>2, <2>1
  <2>3. /\ ~ Coming /\ Applied = Len(log) /\ handler["detail"] = "live"
        /\ Len(log) \in Nat /\ Latest \in 0..Len(log)
    BY <1>2, <2>1, AllApplied
  <2>4. ~ (Latest > Applied)
    BY <2>3
  <2>5. SetsIt
    BY <1>2, <2>3, <2>4 DEF Inv, DetailInv, DetailSettles
  <2> QED
    BY <2>2, <2>3, <2>5 DEF SetsIt
<1>3. Inv => SessionsSettle
  BY <1>1, <1>2 DEF SessionsSettle, Latest
<1> QED
  BY <1>3, InitHolds, NextHolds, PTL DEF Spec

(* The sidebar's session never goes back: not by a snapshot ahead of the   *)
(* events that follow it, nor by a new subscription (ws.ts subscribeShell, *)
(* store.ts).                                                              *)
THEOREM SidebarAdvances == Spec => SidebarNeverGoesBack
<1>1. Inv /\ [Next]_vars => [sidebar' >= sidebar]_vars
  BY NextHolds
<1>2. Inv /\ [Next]_vars => Inv'
  BY NextHolds
<1> QED
  BY <1>1, <1>2, InitHolds, PTL DEF Spec, SidebarNeverGoesBack

-----------------------------------------------------------------------------
(* The connection: no session is left open, and no reconnect returns on an *)
(* old snapshot.                                                           *)

(* What the arguments need of the types.                                   *)
ConnectionTyped ==
    /\ current \in Nat
    /\ pc \in [C!Caller -> C!CallerPlace]
    /\ gate \in {"pending", "resolved", "rejected"}

(* A resolved gate is news to nobody who has called reconnect: the call    *)
(* resets the gate, so a snapshot has come since.                          *)
GateIsFresh ==
    \A r \in Reconnector :
        ((gate = "resolved" /\ pc[r] # "idle") \/ pc[r] = "returned") => r \in fresh

(* The two ways a step changes the gate.                                   *)
LEMMA ResetTyped ==
    ASSUME NEW p \in [C!Caller -> C!CallerPlace], C!Reset(p)
    PROVE  /\ gate' = "pending" /\ pc' \in [C!Caller -> C!CallerPlace]
           /\ \A x \in C!Caller : pc'[x] \in {p[x], "orphaned"}
  BY DEF C!Reset, C!CallerPlace

LEMMA SettleTyped ==
    ASSUME NEW p \in [C!Caller -> C!CallerPlace], NEW as \in {"resolved", "rejected"},
           NEW place \in C!CallerPlace, C!Settle(as, place, p),
           gate \in {"pending", "resolved", "rejected"}
    PROVE  /\ gate' = (IF gate = "pending" THEN as ELSE gate)
           /\ pc' \in [C!Caller -> C!CallerPlace]
           /\ \A x \in C!Caller : pc'[x] \in {p[x], place}
<1>1. CASE gate = "pending"
  BY <1>1 DEF C!Settle, C!CallerPlace
<1>2. CASE gate # "pending"
  BY <1>2 DEF C!Settle
<1> QED
  BY <1>1, <1>2

LEMMA WaitingPlace ==
    ASSUME gate \in {"pending", "resolved", "rejected"}
    PROVE  /\ C!Waiting \in C!CallerPlace /\ C!Waiting # "idle"
           /\ C!Waiting = "returned" => gate = "resolved"
  BY DEF C!Waiting, C!CallerPlace

(* A step of the gate's callers that fails a call.                         *)
LEMMA FailTyped ==
    ASSUME ConnectionTyped, NEW r \in Reconnector, C!FailCall(r)
    PROVE  /\ gate' \in {gate, "rejected"} /\ pc' \in [C!Caller -> C!CallerPlace]
           /\ \A x \in C!Caller : pc'[x] \in {pc[x], "failed"}
<1> DEFINE p == [pc EXCEPT ![r] = "failed"]
<1>1. /\ p \in [C!Caller -> C!CallerPlace]
      /\ \A x \in C!Caller : p[x] \in {pc[x], "failed"}
  BY DEF ConnectionTyped, C!CallerPlace
<1>2. C!Settle("rejected", "failed", p) /\ "failed" \in C!CallerPlace
  BY DEF C!FailCall, C!CallerPlace
<1> HIDE DEF p
<1>3. /\ gate' = (IF gate = "pending" THEN "rejected" ELSE gate)
      /\ pc' \in [C!Caller -> C!CallerPlace]
      /\ \A x \in C!Caller : pc'[x] \in {p[x], "failed"}
  BY <1>1, <1>2, SettleTyped DEF ConnectionTyped
<1> QED
  BY <1>1, <1>3

LEMMA ConnectionInit == C!Init => ConnectionTyped /\ C!SessionsAreClosed /\ GateIsFresh
  BY DEF C!Init, ConnectionTyped, C!CallerPlace, C!SessionsAreClosed, GateIsFresh, C!Caller

-----------------------------------------------------------------------------
(* Only a swap makes a session and only a disposal or a swap closes one.   *)
LEMMA SessionStep ==
    ConnectionTyped /\ C!SessionsAreClosed /\ [C!Next]_(C!vars)
      => current' \in Nat /\ C!SessionsAreClosed'
<1> SUFFICES ASSUME ConnectionTyped, C!SessionsAreClosed, [C!Next]_(C!vars)
             PROVE  current' \in Nat /\ C!SessionsAreClosed'
  OBVIOUS
<1>1. current \in Nat
  BY DEF ConnectionTyped
<1>2. CASE UNCHANGED C!client
  BY <1>1, <1>2 DEF C!client, C!SessionsAreClosed
<1>3. ASSUME NEW r \in Reconnector, C!Swap(r), ~ UNCHANGED C!client
      PROVE  current' \in Nat /\ C!SessionsAreClosed'
  <2>1. /\ ~ disposed /\ disposed' = disposed
        /\ current' = current + 1 /\ closing' = closing \cup {current}
    BY <1>3 DEF C!Swap, C!FailCall
  <2>2. closing = 0..(current - 1)
    BY <2>1 DEF C!SessionsAreClosed
  <2>3. (0..(current - 1)) \cup {current} = 0..current
    BY <1>1
  <2> QED
    BY <1>1, <2>1, <2>2, <2>3 DEF C!SessionsAreClosed
<1>4. CASE C!Dispose
  <2>1. /\ ~ disposed /\ disposed' /\ current' = current
        /\ closing' = closing \cup {current}
    BY <1>4 DEF C!Dispose
  <2>2. (0..(current - 1)) \cup {current} = 0..current
    BY <1>1
  <2> QED
    BY <1>1, <2>1, <2>2 DEF C!SessionsAreClosed
<1>5. ASSUME NEW w \in Waiter, C!Ensure(w) PROVE UNCHANGED C!client
  BY <1>5 DEF C!Ensure
<1>6. ASSUME NEW r \in Reconnector, C!Reconnect(r) \/ C!Closed(r) \/ C!Metadata(r)
      PROVE  UNCHANGED C!client
  BY <1>6 DEF C!Reconnect, C!Closed, C!Metadata
<1>7. CASE C!Stream
  BY <1>2, <1>7 DEF C!Stream, C!Attempt, C!Snapshot, C!SessionGone, C!Wake, C!Over
<1>8. CASE C!Breaks \/ C!Completes \/ C!Refused
  BY <1>2, <1>8 DEF C!Breaks, C!Completes, C!Refused, C!Over
<1>9. CASE UNCHANGED C!vars
  BY <1>2, <1>9 DEF C!vars
<1> QED
  BY <1>2, <1>3, <1>4, <1>5, <1>6, <1>7, <1>8, <1>9 DEF C!Next, C!Call

(* Callers and gate.                                                       *)
LEMMA GateStep ==
    ConnectionTyped /\ GateIsFresh /\ [C!Next]_(C!vars)
      => /\ pc' \in [C!Caller -> C!CallerPlace]
         /\ gate' \in {"pending", "resolved", "rejected"}
         /\ GateIsFresh'
<1> DEFINE Goal == /\ pc' \in [C!Caller -> C!CallerPlace]
                   /\ gate' \in {"pending", "resolved", "rejected"}
                   /\ GateIsFresh'
<1> SUFFICES ASSUME ConnectionTyped, GateIsFresh, [C!Next]_(C!vars) PROVE Goal
  OBVIOUS
<1>1. /\ pc \in [C!Caller -> C!CallerPlace] /\ Reconnector \subseteq C!Caller
      /\ gate \in {"pending", "resolved", "rejected"}
  BY DEF ConnectionTyped, C!Caller
<1>2. ASSUME UNCHANGED <<gate, pc, fresh>> PROVE Goal
  BY <1>1, <1>2 DEF GateIsFresh
<1>3. ASSUME NEW w \in Waiter, C!Ensure(w) PROVE Goal
  <2>1. /\ pc[w] = "idle" /\ w \in C!Caller /\ UNCHANGED <<gate, fresh>>
        /\ pc' = [pc EXCEPT ![w] = C!Waiting]
    BY <1>3 DEF C!Ensure, C!Caller
  <2>2. pc' \in [C!Caller -> C!CallerPlace]
    BY <1>1, <2>1, WaitingPlace
  <2>3. w \notin Reconnector
    BY ConnectionAssumption
  <2>4. \A r \in Reconnector : pc'[r] = pc[r]
    BY <1>1, <2>1, <2>3
  <2> QED
    BY <1>1, <2>1, <2>2, <2>4 DEF GateIsFresh
<1>4. ASSUME NEW r \in Reconnector, C!Reconnect(r) PROVE Goal
  <2> DEFINE p == [pc EXCEPT ![r] = "chained"]
  <2>1. C!Reset(p) /\ fresh' = fresh \ {r}
    BY <1>4 DEF C!Reconnect
  <2>2. /\ p \in [C!Caller -> C!CallerPlace] /\ p[r] = "chained"
        /\ \A x \in C!Caller \ {r} : p[x] = pc[x]
    BY <1>1 DEF C!CallerPlace
  <2> HIDE DEF p
  <2>3. /\ gate' = "pending" /\ pc' \in [C!Caller -> C!CallerPlace]
        /\ \A x \in C!Caller : pc'[x] \in {p[x], "orphaned"}
    BY <2>1, <2>2, ResetTyped
  <2>4. \A q \in Reconnector : pc'[q] = "returned" => q # r /\ pc[q] = "returned"
    BY <1>1, <2>2, <2>3
  <2> QED
    BY <2>1, <2>3, <2>4 DEF GateIsFresh
<1>5. ASSUME NEW r \in Reconnector, C!FailCall(r), fresh' = fresh, pc[r] # "idle"
      PROVE  Goal
  <2>1. /\ gate' \in {gate, "rejected"} /\ pc' \in [C!Caller -> C!CallerPlace]
        /\ \A x \in C!Caller : pc'[x] \in {pc[x], "failed"}
    BY <1>5, FailTyped
  <2>2. \A q \in Reconnector : pc'[q] # "idle" /\ gate' = "resolved" => q \in fresh
    <3> SUFFICES ASSUME NEW q \in Reconnector, pc'[q] # "idle", gate' = "resolved",
                        pc[q] = "idle"
                 PROVE  FALSE
      BY <2>1 DEF GateIsFresh
    <3>1. gate = "resolved"
      BY <2>1
    <3>2. pc' = [pc EXCEPT ![r] = "failed"]
      BY <1>5, <3>1 DEF C!FailCall, C!Settle
    <3> QED
      BY <1>1, <1>5, <3>2
  <2>3. \A q \in Reconnector : pc'[q] = "returned" => q \in fresh
    BY <1>1, <2>1 DEF GateIsFresh
  <2> QED
    BY <1>1, <1>5, <2>1, <2>2, <2>3 DEF GateIsFresh
<1>6. ASSUME NEW r \in Reconnector, C!Swap(r) \/ C!Closed(r) PROVE Goal
  <2>1. CASE C!Swap(r) /\ disposed
    BY <1>5, <2>1 DEF C!Swap
  <2>2. CASE (C!Swap(r) /\ ~ disposed) \/ (C!Closed(r) /\ ~ C!FailCall(r))
    <3>1. /\ pc[r] \in {"chained", "closing"} /\ UNCHANGED <<gate, fresh>>
          /\ \E to \in {"closing", "metadata"} : pc' = [pc EXCEPT ![r] = to]
      BY <2>2 DEF C!Swap, C!Closed
    <3>2. pc' \in [C!Caller -> C!CallerPlace]
      BY <1>1, <3>1 DEF C!CallerPlace
    <3>3. \A q \in Reconnector : /\ pc'[q] # "idle" => pc[q] # "idle"
                                 /\ pc'[q] = "returned" => pc[q] = "returned"
      BY <1>1, <3>1
    <3> QED
      BY <1>1, <3>1, <3>2, <3>3 DEF GateIsFresh
  <2>3. CASE C!Closed(r) /\ C!FailCall(r)
    BY <1>5, <2>3 DEF C!Closed
  <2> QED
    BY <1>6, <2>1, <2>2, <2>3
<1>7. ASSUME NEW r \in Reconnector, C!Metadata(r) PROVE Goal
  <2>1. CASE C!FailCall(r)
    BY <1>5, <1>7, <2>1 DEF C!Metadata
  <2>2. CASE pc' = [pc EXCEPT ![r] = C!Waiting] /\ UNCHANGED gate
    <3>1. pc[r] = "metadata" /\ fresh' = fresh
      BY <1>7 DEF C!Metadata
    <3>2. pc' \in [C!Caller -> C!CallerPlace]
      BY <1>1, <2>2, WaitingPlace
    <3>3. \A q \in Reconnector : /\ pc'[q] # "idle" => pc[q] # "idle"
                                 /\ pc'[q] = "returned" =>
                                       \/ pc[q] = "returned"
                                       \/ q = r /\ gate = "resolved"
      BY <1>1, <2>2, <3>1, WaitingPlace
    <3> QED
      BY <1>1, <2>2, <3>1, <3>2, <3>3 DEF GateIsFresh
  <2> QED
    BY <1>7, <2>1, <2>2 DEF C!Metadata
<1>8. CASE C!Attempt
  <2>1. CASE C!Reset(pc)
    <3>1. /\ gate' = "pending" /\ pc' \in [C!Caller -> C!CallerPlace]
          /\ \A x \in C!Caller : pc'[x] \in {pc[x], "orphaned"}
      BY <1>1, <2>1, ResetTyped
    <3>2. \A q \in Reconnector : pc'[q] = "returned" => pc[q] = "returned"
      BY <1>1, <3>1
    <3>3. fresh' = fresh
      BY <1>8 DEF C!Attempt
    <3> QED
      BY <3>1, <3>2, <3>3 DEF GateIsFresh
  <2> QED
    BY <1>2, <1>8, <2>1 DEF C!Attempt
<1>9. CASE C!Snapshot
  <2>1. CASE disposed
    BY <1>2, <1>9, <2>1 DEF C!Snapshot
  <2>2. CASE ~ disposed
    <3>1. C!Settle("resolved", "returned", pc) /\ fresh' = Reconnector
      BY <1>9, <2>2 DEF C!Snapshot
    <3>2. "returned" \in C!CallerPlace
      BY DEF C!CallerPlace
    <3>3. /\ pc' \in [C!Caller -> C!CallerPlace]
          /\ gate' = (IF gate = "pending" THEN "resolved" ELSE gate)
      BY <1>1, <3>1, <3>2, SettleTyped
    <3> QED
      BY <1>1, <3>1, <3>3 DEF GateIsFresh
  <2> QED
    BY <2>1, <2>2
<1>10. CASE C!SessionGone \/ C!Wake \/ C!Breaks \/ C!Completes \/ C!Refused
  BY <1>2, <1>10 DEF C!SessionGone, C!Wake, C!Breaks, C!Completes, C!Refused,
                   C!Over, C!callers
<1>11. CASE C!Dispose \/ UNCHANGED C!vars
  BY <1>2, <1>11 DEF C!Dispose, C!vars, C!callers
<1> HIDE DEF Goal
<1> QED
  BY <1>3, <1>4, <1>6, <1>7, <1>8, <1>9, <1>10, <1>11 DEF C!Next, C!Call, C!Stream

-----------------------------------------------------------------------------
LEMMA ConnectionKeeps ==
    ConnectionTyped /\ C!SessionsAreClosed /\ GateIsFresh /\ [C!Next]_(C!vars)
      => (ConnectionTyped /\ C!SessionsAreClosed /\ GateIsFresh)'
  BY SessionStep, GateStep DEF ConnectionTyped

(* Whatever order disposals and queued reconnects come in, every session   *)
(* that was replaced is closed, and after a disposal the last one too.     *)
THEOREM SessionsClosed == C!Spec => []SessionsAreClosed
  BY ConnectionInit, ConnectionKeeps, PTL DEF C!Spec, SessionsAreClosed

(* However resubscriptions, failures and other reconnects come between: a  *)
(* reconnect that returns has seen a snapshot since it was called.         *)
THEOREM ReconnectIsFresh == C!Spec => []ReconnectSawSnapshot
<1>1. GateIsFresh => ReconnectSawSnapshot
  BY DEF GateIsFresh, C!ReconnectSawSnapshot, ReconnectSawSnapshot
<1> QED
  BY <1>1, ConnectionInit, ConnectionKeeps, PTL DEF C!Spec
===============================================================================
