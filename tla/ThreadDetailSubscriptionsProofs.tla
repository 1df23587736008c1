------------------ MODULE ThreadDetailSubscriptionsProofs ------------------
(***************************************************************************)
(* Theorems of ThreadDetailSubscriptions, for any threads, environments,   *)
(* consumers, generations and capacity.                                    *)
(***************************************************************************)
EXTENDS ThreadDetailSubscriptions, FiniteSetTheorems, TLAPS

(* A consumer holds one entry; an entry is held by finitely many.          *)
Holders(e) == {c \in Consumer : held[c] = e}
HoldersAreCounted ==
    \A e \in Entry :
        /\ IsFiniteSet(Holders(e))
        /\ refs[e] = Cardinality(Holders(e))
        /\ e \in timed => refs[e] = 0

(* The streams and the listeners are those of cached entries.              *)
LinksAreCached ==
    /\ \A e, f \in cached : ThreadOf(e) = ThreadOf(f) => e = f
    /\ link.attached \subseteq cached
    /\ link.listening \subseteq cached
    /\ \A e \in link.attached : EnvironmentOf[ThreadOf(e)] \in connected

CacheInv == TypeOK /\ HoldersAreCounted /\ LinksAreCached

Links == [attached : SUBSET Entry, listening : SUBSET Entry]

-----------------------------------------------------------------------------
(* The operators on links.                                                 *)

LEMMA EntryThreads == \A e \in Entry : ThreadOf(e) \in Thread
  BY DEF Entry, ThreadOf

LEMMA Attaching ==
    ASSUME NEW l \in Links, NEW e \in Entry
    PROVE  LET x == AttachOrWatch(l, e) IN
           /\ x \in Links
           /\ x.attached \subseteq l.attached \cup {e}
           /\ x.listening \subseteq l.listening \cup {e}
           /\ \A f \in x.attached :
                 f \in l.attached \/ EnvironmentOf[ThreadOf(f)] \in connected
<1> DEFINE Good(x) ==
             /\ x \in Links
             /\ x.attached \subseteq l.attached \cup {e}
             /\ x.listening \subseteq l.listening \cup {e}
             /\ \A f \in x.attached :
                   f \in l.attached \/ EnvironmentOf[ThreadOf(f)] \in connected
<1>1. ASSUME NEW x \in Links, Good(x)
      PROVE  Good(Attach(x, e)) /\ Good(Watch(x, e))
  BY <1>1 DEF Links, Attach, Watch
<1>2. Good(l)
  OBVIOUS
<1>3. Good(Attach(l, e))
  BY <1>1, <1>2
<1>4. Good(Watch(Attach(l, e), e))
  BY <1>1, <1>3
<1> HIDE DEF Good
<1>5. Good(AttachOrWatch(l, e))
  BY <1>3, <1>4 DEF AttachOrWatch
<1> QED
  BY <1>5 DEF Good

LEMMA Unlinking ==
    ASSUME NEW l \in Links, NEW D
    PROVE  /\ Unlink(l, D) \in Links
           /\ Unlink(l, D).attached = l.attached \ D
           /\ Unlink(l, D).listening = l.listening \ D
  BY DEF Links, Unlink

LEMMA Emitting ==
    ASSUME NEW l \in Links, NEW conn
    PROVE  /\ Emit(l, conn) \in Links
           /\ Emit(l, conn).attached =
                 l.attached \cup {e \in l.listening :
                                    EnvironmentOf[ThreadOf(e)] \in conn}
           /\ Emit(l, conn).listening = {}
  BY DEF Links, Emit

(* The timers after an entry's were set anew.                              *)
LEMMA Timers ==
    ASSUME NEW R \in SUBSET Entry, NEW tm \in SUBSET Entry, NEW r, NEW s, NEW d
    PROVE  /\ Rescheduled(R, tm, r, s, d) \subseteq Entry
           /\ \A e \in Rescheduled(R, tm, r, s, d) : r[e] = 0 \/ e \in tm
  BY DEF Rescheduled, Evictable

(* What the capacity takes is idle.                                        *)
LEMMA OverCapacity ==
    ASSUME NEW S, NEW r, NEW s, NEW d, NEW D \in ToCapacity(S, r, s, d)
    PROVE  D \subseteq {e \in S : r[e] = 0 /\ ThreadOf(e) \notin s \cup d}
  BY DEF ToCapacity, Evictable

-----------------------------------------------------------------------------
(* The holders of an entry.                                                *)

(* A consumer that held nothing takes entry e.                             *)
LEMMA OneMoreHolder ==
    ASSUME TypeOK, HoldersAreCounted, NEW c \in Consumer, NEW e \in Entry,
           held[c] = NoEntry, held' = [held EXCEPT ![c] = e]
    PROVE  /\ held' \in [Consumer -> Entry \cup {NoEntry}]
           /\ \A f \in Entry : f # e => Holders(f)' = Holders(f)
           /\ IsFiniteSet(Holders(e)')
           /\ Cardinality(Holders(e)') = refs[e] + 1
<1>1. held \in [Consumer -> Entry \cup {NoEntry}] /\ NoEntry \notin Entry
  BY SubscriptionsAssumption DEF TypeOK
<1>2. held' \in [Consumer -> Entry \cup {NoEntry}]
  BY <1>1
<1>3. \A f \in Entry : f # e => Holders(f)' = Holders(f)
  BY <1>1 DEF Holders
<1>4. Holders(e)' = Holders(e) \cup {c} /\ c \notin Holders(e)
  BY <1>1 DEF Holders
<1>5. IsFiniteSet(Holders(e)) /\ refs[e] = Cardinality(Holders(e))
  BY DEF HoldersAreCounted
<1>6. /\ IsFiniteSet(Holders(e) \cup {c})
      /\ Cardinality(Holders(e) \cup {c}) = Cardinality(Holders(e)) + 1
  BY <1>4, <1>5, FS_AddElement
<1> QED
  BY <1>2, <1>3, <1>4, <1>5, <1>6

(* A consumer lets go of its entry.                                        *)
LEMMA OneHolderLess ==
    ASSUME TypeOK, HoldersAreCounted, NEW c \in Consumer, held[c] # NoEntry,
           held' = [held EXCEPT ![c] = NoEntry]
    PROVE  /\ held[c] \in Entry
           /\ held' \in [Consumer -> Entry \cup {NoEntry}]
           /\ \A f \in Entry : f # held[c] => Holders(f)' = Holders(f)
           /\ IsFiniteSet(Holders(held[c]))
           /\ IsFiniteSet({x \in Consumer : held'[x] = held[c]})
           /\ Cardinality({x \in Consumer : held'[x] = held[c]})
                 = refs[held[c]] - 1
           /\ refs[held[c]] \in Nat \ {0}
<1> DEFINE e == held[c]
           left == {x \in Consumer : held'[x] = held[c]}
<1>1. held \in [Consumer -> Entry \cup {NoEntry}] /\ NoEntry \notin Entry
  BY SubscriptionsAssumption DEF TypeOK
<1>2. e \in Entry /\ held' \in [Consumer -> Entry \cup {NoEntry}]
  BY <1>1
<1>3. \A f \in Entry : f # e => Holders(f)' = Holders(f)
  BY <1>1 DEF Holders
<1>4. left = Holders(e) \ {c} /\ c \in Holders(e)
  BY <1>1, <1>2 DEF Holders
<1>5. /\ IsFiniteSet(Holders(e)) /\ refs[e] = Cardinality(Holders(e))
      /\ refs[e] \in Nat
  BY <1>2 DEF HoldersAreCounted, TypeOK
<1>6. /\ IsFiniteSet(Holders(e) \ {c})
      /\ Cardinality(Holders(e) \ {c}) = Cardinality(Holders(e)) - 1
  BY <1>4, <1>5, FS_RemoveElement
<1>7. refs[e] # 0
  BY <1>4, <1>5, FS_EmptySet
<1> QED
  BY <1>2, <1>3, <1>4, <1>5, <1>6, <1>7

-----------------------------------------------------------------------------
(* The steps.                                                              *)

(* The type of the store's part, and of all the rest.                      *)
StoreTyped == known \subseteq Thread /\ sidebar \subseteq known /\ detail \subseteq known
RestTyped ==
    /\ connected \subseteq Environment
    /\ cached \subseteq Entry
    /\ link \in Links
    /\ refs \in [Entry -> Nat]
    /\ held \in [Consumer -> Entry \cup {NoEntry}]
    /\ timed \subseteq Entry
    /\ lost \in [Thread -> Nat]

LEMMA Typed == TypeOK <=> StoreTyped /\ RestTyped
  BY DEF TypeOK, StoreTyped, RestTyped, Links

LEMMA TypedNext == StoreTyped' /\ RestTyped' => TypeOK'
  BY DEF TypeOK, StoreTyped, RestTyped, Links

LEMMA CacheInit == Init => CacheInv
<1> SUFFICES ASSUME Init PROVE CacheInv
  OBVIOUS
<1>1. StoreTyped /\ RestTyped
  BY DEF Init, StoreTyped, RestTyped, Links
<1>2. \A e \in Entry : Holders(e) = {}
  BY SubscriptionsAssumption DEF Init, Holders
<1>3. HoldersAreCounted
  BY <1>2, FS_EmptySet DEF Init, HoldersAreCounted
<1>4. LinksAreCached
  BY DEF Init, LinksAreCached
<1> QED
  BY <1>1, <1>3, <1>4, Typed DEF CacheInv

(* Steps that leave the holders alone: only the timers matter.             *)
LEMMA SameHolders ==
    ASSUME HoldersAreCounted, UNCHANGED <<held, refs>>,
           \A e \in timed' : refs[e] = 0 \/ e \in timed
    PROVE  HoldersAreCounted'
<1>1. \A e \in Entry : Holders(e)' = Holders(e)
  BY DEF Holders
<1> QED
  BY <1>1 DEF HoldersAreCounted

(* Steps that only drop entries and links.                                 *)
LEMMA FewerLinks ==
    ASSUME RestTyped, LinksAreCached, NEW D,
           cached' = cached \ D, link' = Unlink(link, D), connected' = connected
    PROVE  LinksAreCached' /\ cached' \subseteq Entry /\ link' \in Links
<1>1. /\ link \in Links
      /\ link' \in Links
      /\ link'.attached = link.attached \ D
      /\ link'.listening = link.listening \ D
  BY Unlinking DEF RestTyped
<1>2. LinksAreCached'
  <2>1. \A e, f \in cached' : ThreadOf(e) = ThreadOf(f) => e = f
    BY DEF LinksAreCached
  <2>2. link'.attached \subseteq cached' /\ link'.listening \subseteq cached'
    BY <1>1 DEF LinksAreCached
  <2>3. \A e \in link'.attached : EnvironmentOf[ThreadOf(e)] \in connected'
    BY <1>1 DEF LinksAreCached
  <2> QED
    BY <2>1, <2>2, <2>3 DEF LinksAreCached
<1> QED
  BY <1>1, <1>2 DEF RestTyped

LEMMA RetainCachedStep ==
    ASSUME CacheInv, NEW c \in Consumer, NEW e \in Entry, RetainCached(c, e)
    PROVE  CacheInv'
<1>1. /\ held[c] = NoEntry /\ e \in cached
      /\ held' = [held EXCEPT ![c] = e]
      /\ refs' = [refs EXCEPT ![e] = @ + 1]
      /\ timed' = timed \ {e}
      /\ link' = AttachOrWatch(link, e)
      /\ UNCHANGED <<connected, known, sidebar, detail, cached, lost>>
  BY DEF RetainCached, store
<1>2. TypeOK /\ HoldersAreCounted /\ LinksAreCached /\ StoreTyped /\ RestTyped
  BY Typed DEF CacheInv
<1>3. /\ held' \in [Consumer -> Entry \cup {NoEntry}]
      /\ \A f \in Entry : f # e => Holders(f)' = Holders(f)
      /\ IsFiniteSet(Holders(e)')
      /\ Cardinality(Holders(e)') = refs[e] + 1
  BY <1>1, <1>2, OneMoreHolder
<1>4. refs \in [Entry -> Nat] /\ refs' \in [Entry -> Nat] /\ refs'[e] = refs[e] + 1
      /\ \A f \in Entry : f # e => refs'[f] = refs[f]
  BY <1>1, <1>2 DEF RestTyped
<1>5. /\ link' \in Links
      /\ link'.attached \subseteq link.attached \cup {e}
      /\ link'.listening \subseteq link.listening \cup {e}
      /\ \A f \in link'.attached :
            f \in link.attached \/ EnvironmentOf[ThreadOf(f)] \in connected
  BY <1>1, <1>2, Attaching DEF RestTyped
<1>6. StoreTyped' /\ RestTyped'
  BY <1>1, <1>2, <1>3, <1>4, <1>5 DEF StoreTyped, RestTyped
<1>7. HoldersAreCounted'
  BY <1>1, <1>2, <1>3, <1>4 DEF HoldersAreCounted
<1>8. LinksAreCached'
  BY <1>1, <1>2, <1>5 DEF LinksAreCached
<1> QED
  BY <1>6, <1>7, <1>8, TypedNext DEF CacheInv

LEMMA RetainNewStep ==
    ASSUME CacheInv, NEW c \in Consumer, NEW e \in Entry, RetainNew(c, e)
    PROVE  CacheInv'
<1>1. PICK D \in ToCapacity(cached \cup {e}, refs', sidebar, detail) :
         /\ cached' = (cached \cup {e}) \ D
         /\ timed' = timed \ D
         /\ link' = Unlink(AttachOrWatch(link, e), D)
  BY DEF RetainNew
<1>2. /\ held[c] = NoEntry
      /\ \A f \in cached : ThreadOf(f) # ThreadOf(e)
      /\ e \notin timed /\ \A x \in Consumer : held[x] # e
      /\ held' = [held EXCEPT ![c] = e]
      /\ refs' = [refs EXCEPT ![e] = 1]
      /\ UNCHANGED <<connected, known, sidebar, detail, lost>>
  BY DEF RetainNew, Unused, CachedFor, store
<1>3. TypeOK /\ HoldersAreCounted /\ LinksAreCached /\ StoreTyped /\ RestTyped
  BY Typed DEF CacheInv
<1>4. /\ held' \in [Consumer -> Entry \cup {NoEntry}]
      /\ \A f \in Entry : f # e => Holders(f)' = Holders(f)
      /\ IsFiniteSet(Holders(e)')
      /\ Cardinality(Holders(e)') = refs[e] + 1
  BY <1>2, <1>3, OneMoreHolder
<1>5. refs[e] = 0
  <2>1. Holders(e) = {}
    BY <1>2 DEF Holders
  <2> QED
    BY <2>1, <1>3, FS_EmptySet DEF HoldersAreCounted
<1>6. refs \in [Entry -> Nat] /\ refs' \in [Entry -> Nat] /\ refs'[e] = 1
      /\ \A f \in Entry : f # e => refs'[f] = refs[f]
  BY <1>2, <1>3 DEF RestTyped
<1> DEFINE l == AttachOrWatch(link, e)
<1>7. /\ l \in Links
      /\ l.attached \subseteq link.attached \cup {e}
      /\ l.listening \subseteq link.listening \cup {e}
      /\ \A f \in l.attached :
            f \in link.attached \/ EnvironmentOf[ThreadOf(f)] \in connected
  BY <1>3, Attaching DEF RestTyped
<1>8. /\ link' \in Links
      /\ link'.attached = l.attached \ D
      /\ link'.listening = l.listening \ D
  BY <1>1, <1>7, Unlinking
<1> HIDE DEF l
<1>9. StoreTyped' /\ RestTyped'
  BY <1>1, <1>2, <1>3, <1>4, <1>6, <1>8 DEF StoreTyped, RestTyped
<1>10. HoldersAreCounted'
  <2>1. 0 + 1 = 1
    OBVIOUS
  <2> QED
    BY <1>1, <1>2, <1>3, <1>4, <1>5, <1>6, <2>1 DEF HoldersAreCounted
<1>11. LinksAreCached'
  <2>1. \A f, g \in cached' : ThreadOf(f) = ThreadOf(g) => f = g
    BY <1>1, <1>2, <1>3 DEF LinksAreCached
  <2>2. link'.attached \subseteq cached' /\ link'.listening \subseteq cached'
    BY <1>1, <1>3, <1>7, <1>8 DEF LinksAreCached
  <2>3. \A f \in link'.attached : EnvironmentOf[ThreadOf(f)] \in connected'
    BY <1>2, <1>3, <1>7, <1>8 DEF LinksAreCached
  <2> QED
    BY <2>1, <2>2, <2>3 DEF LinksAreCached
<1> QED
  BY <1>9, <1>10, <1>11, TypedNext DEF CacheInv

LEMMA ReleaseStep ==
    ASSUME CacheInv, NEW c \in Consumer, Release(c)
    PROVE  CacheInv'
<1> DEFINE e == held[c]
<1>1. /\ held[c] # NoEntry
      /\ held' = [held EXCEPT ![c] = NoEntry]
      /\ refs' = [refs EXCEPT ![e] = @ - 1]
      /\ UNCHANGED <<connected, known, sidebar, detail, lost>>
  BY DEF Release, store
<1>2. \/ /\ refs'[e] = 0
         /\ \E D \in ToCapacity(cached, refs', sidebar, detail) :
               /\ cached' = cached \ D
               /\ timed' = Rescheduled({e}, timed, refs', sidebar, detail) \ D
               /\ link' = Unlink(link, D)
      \/ refs'[e] # 0 /\ UNCHANGED <<cached, timed, link>>
  BY DEF Release
<1>3. TypeOK /\ HoldersAreCounted /\ LinksAreCached /\ StoreTyped /\ RestTyped
  BY Typed DEF CacheInv
<1>4. /\ e \in Entry
      /\ held' \in [Consumer -> Entry \cup {NoEntry}]
      /\ \A f \in Entry : f # e => Holders(f)' = Holders(f)
      /\ IsFiniteSet({x \in Consumer : held'[x] = e})
      /\ Cardinality({x \in Consumer : held'[x] = e}) = refs[e] - 1
      /\ refs[e] \in Nat \ {0}
  BY <1>1, <1>3, OneHolderLess
<1> HIDE DEF e
<1>5. refs \in [Entry -> Nat] /\ refs' \in [Entry -> Nat] /\ refs'[e] = refs[e] - 1
      /\ \A f \in Entry : f # e => refs'[f] = refs[f]
  BY <1>1, <1>3, <1>4 DEF RestTyped
<1>6. e \notin timed
  BY <1>3, <1>4 DEF HoldersAreCounted
<1>7. /\ timed' \subseteq Entry
      /\ \A f \in timed' : refs'[f] = 0 \/ (f # e /\ f \in timed)
  <2>1. timed \subseteq Entry
    BY <1>3 DEF RestTyped
  <2> DEFINE r == Rescheduled({e}, timed, refs', sidebar, detail)
  <2>2. r \subseteq Entry /\ \A f \in r : refs'[f] = 0 \/ f \in timed
    BY <2>1, <1>4, Timers
  <2> HIDE DEF r
  <2>3. CASE refs'[e] = 0
    <3>1. PICK D : timed' = r \ D
      BY <1>2, <2>3 DEF r
    <3> QED
      BY <3>1, <2>2, <1>6
  <2>4. CASE refs'[e] # 0
    BY <1>2, <2>4, <2>1, <1>6
  <2> QED
    BY <2>3, <2>4
<1>8. LinksAreCached' /\ cached' \subseteq Entry /\ link' \in Links
  <2>1. CASE refs'[e] = 0
    <3>1. PICK D : cached' = cached \ D /\ link' = Unlink(link, D)
      BY <1>2, <2>1
    <3> QED
      BY <3>1, <1>1, <1>3, FewerLinks
  <2>2. CASE refs'[e] # 0
    BY <1>1, <1>2, <1>3, <2>2 DEF LinksAreCached, RestTyped
  <2> QED
    BY <2>1, <2>2
<1>9. StoreTyped' /\ RestTyped'
  BY <1>1, <1>3, <1>4, <1>5, <1>7, <1>8 DEF StoreTyped, RestTyped
<1>10. HoldersAreCounted'
  <2> SUFFICES ASSUME NEW f \in Entry
               PROVE  /\ IsFiniteSet({x \in Consumer : held'[x] = f})
                      /\ refs'[f] = Cardinality({x \in Consumer : held'[x] = f})
                      /\ f \in timed' => refs'[f] = 0
    BY DEF HoldersAreCounted, Holders
  <2>1. CASE f = e
    BY <2>1, <1>4, <1>5, <1>7
  <2>2. CASE f # e
    <3>1. Holders(f)' = Holders(f) /\ refs'[f] = refs[f]
      BY <2>2, <1>4, <1>5
    <3>2. Holders(f)' = {x \in Consumer : held'[x] = f}
      BY DEF Holders
    <3> QED
      BY <3>1, <3>2, <1>3, <1>7 DEF HoldersAreCounted
  <2> QED
    BY <2>1, <2>2
<1> QED
  BY <1>8, <1>9, <1>10, TypedNext DEF CacheInv

(* The cached entries of a thread are one at most.                         *)
LEMMA OneCached ==
    ASSUME RestTyped, LinksAreCached, NEW t \in Thread, NEW S
    PROVE  Cardinality(S \cap CachedFor(t)) \in Nat
<1>1. PICK e : CachedFor(t) \subseteq {e}
  <2>1. \A e, f \in CachedFor(t) : e = f
    BY DEF LinksAreCached, CachedFor
  <2> QED
    BY <2>1
<1>2. IsFiniteSet({e})
  BY FS_Singleton
<1>3. IsFiniteSet(S \cap CachedFor(t))
  BY <1>1, <1>2, FS_Subset
<1> QED
  BY <1>3, FS_CardinalityType

LEMMA ElapseStep ==
    ASSUME CacheInv, NEW t \in Thread, NEW tm \in SUBSET timed, NEW l \in Nat,
           Elapse(t, tm, l)
    PROVE  CacheInv'
<1> DEFINE out == {e \in CachedFor(t) : Evictable(e, refs, sidebar, detail)}
<1>1. /\ timed' = tm \ CachedFor(t)
      /\ lost' = [lost EXCEPT ![t] = l + Cardinality(tm \cap CachedFor(t))]
      /\ cached' = cached \ out
      /\ link' = Unlink(link, out)
      /\ UNCHANGED <<connected, known, sidebar, detail, refs, held>>
  BY DEF Elapse, store
<1> HIDE DEF out
<1>2. TypeOK /\ HoldersAreCounted /\ LinksAreCached /\ StoreTyped /\ RestTyped
  BY Typed DEF CacheInv
<1>3. Cardinality(tm \cap CachedFor(t)) \in Nat
  BY <1>2, OneCached
<1>4. lost' \in [Thread -> Nat]
  BY <1>1, <1>2, <1>3 DEF RestTyped
<1>5. LinksAreCached' /\ cached' \subseteq Entry /\ link' \in Links
  BY <1>1, <1>2, FewerLinks
<1>6. HoldersAreCounted'
  BY <1>1, <1>2, SameHolders
<1>7. StoreTyped' /\ RestTyped'
  BY <1>1, <1>2, <1>4, <1>5 DEF StoreTyped, RestTyped
<1> QED
  BY <1>5, <1>6, <1>7, TypedNext DEF CacheInv

LEMMA RegisterStep ==
    ASSUME CacheInv, NEW env \in Environment, Register(env)
    PROVE  CacheInv'
<1>1. /\ connected' = connected \cup {env}
      /\ link' = Emit(link, connected')
      /\ UNCHANGED <<known, sidebar, detail, cached, refs, held, timed, lost>>
  BY DEF Register, store
<1>2. TypeOK /\ HoldersAreCounted /\ LinksAreCached /\ StoreTyped /\ RestTyped
  BY Typed DEF CacheInv
<1>3. /\ link' \in Links
      /\ link'.attached = link.attached \cup
            {e \in link.listening : EnvironmentOf[ThreadOf(e)] \in connected'}
      /\ link'.listening = {}
  BY <1>1, <1>2, Emitting DEF RestTyped
<1>4. HoldersAreCounted'
  BY <1>1, <1>2, SameHolders
<1>5. LinksAreCached'
  BY <1>1, <1>2, <1>3 DEF LinksAreCached
<1>6. StoreTyped' /\ RestTyped'
  BY <1>1, <1>2, <1>3 DEF StoreTyped, RestTyped
<1> QED
  BY <1>4, <1>5, <1>6, TypedNext DEF CacheInv

LEMMA RemoveStep ==
    ASSUME CacheInv, NEW env \in Environment, Remove(env)
    PROVE  CacheInv'
<1> DEFINE u == Unlink(link, CachedIn(env))
<1>1. /\ connected' = connected \ {env}
      /\ cached' = cached \ CachedIn(env)
      /\ timed' = timed \ CachedIn(env)
      /\ link' = Emit(u, connected')
      /\ UNCHANGED <<known, sidebar, detail, refs, held, lost>>
  BY DEF Remove, store
<1>2. TypeOK /\ HoldersAreCounted /\ LinksAreCached /\ StoreTyped /\ RestTyped
  BY Typed DEF CacheInv
<1>3. /\ u \in Links
      /\ u.attached = link.attached \ CachedIn(env)
      /\ u.listening = link.listening \ CachedIn(env)
  BY <1>2, Unlinking DEF RestTyped
<1> HIDE DEF u
<1>4. /\ link' \in Links
      /\ link'.attached = u.attached \cup
            {e \in u.listening : EnvironmentOf[ThreadOf(e)] \in connected'}
      /\ link'.listening = {}
  BY <1>1, <1>3, Emitting
<1>5. HoldersAreCounted'
  BY <1>1, <1>2, SameHolders
<1>6. \A e \in cached : EnvironmentOf[ThreadOf(e)] = env => e \in CachedIn(env)
  BY <1>2, EntryThreads DEF CachedIn, Of, RestTyped
<1>7. LinksAreCached'
  <2>1. \A e, f \in cached' : ThreadOf(e) = ThreadOf(f) => e = f
    BY <1>1, <1>2 DEF LinksAreCached
  <2>2. link'.attached \subseteq cached' /\ link'.listening \subseteq cached'
    BY <1>1, <1>2, <1>3, <1>4 DEF LinksAreCached
  <2>3. \A e \in link'.attached : EnvironmentOf[ThreadOf(e)] \in connected'
    BY <1>1, <1>2, <1>3, <1>4, <1>6 DEF LinksAreCached
  <2> QED
    BY <2>1, <2>2, <2>3 DEF LinksAreCached
<1>8. StoreTyped' /\ RestTyped'
  BY <1>1, <1>2, <1>4 DEF StoreTyped, RestTyped
<1> QED
  BY <1>5, <1>7, <1>8, TypedNext DEF CacheInv

-----------------------------------------------------------------------------
(* The handlers of the streams.                                            *)

LEMMA SettleStep ==
    ASSUME CacheInv, StoreTyped', NEW G \in SUBSET Entry, NEW R \in SUBSET Entry,
           Settle(G, R)
    PROVE  CacheInv'
<1>1. PICK D \in ToCapacity(cached \ G, refs, sidebar', detail') :
         /\ cached' = (cached \ G) \ D
         /\ timed' = Rescheduled(R \ G, timed \ G, refs, sidebar', detail') \ D
         /\ link' = Unlink(link, G \cup D)
         /\ UNCHANGED <<connected, refs, held, lost>>
  BY DEF Settle
<1>2. TypeOK /\ HoldersAreCounted /\ LinksAreCached /\ StoreTyped /\ RestTyped
  BY Typed DEF CacheInv
<1>3. cached' = cached \ (G \cup D)
  BY <1>1
<1>4. LinksAreCached' /\ cached' \subseteq Entry /\ link' \in Links
  BY <1>1, <1>2, <1>3, FewerLinks
<1> DEFINE r == Rescheduled(R \ G, timed \ G, refs, sidebar', detail')
<1>5. r \subseteq Entry /\ \A e \in r : refs[e] = 0 \/ e \in timed \ G
  <2>1. R \ G \in SUBSET Entry /\ timed \ G \in SUBSET Entry
    BY <1>2 DEF RestTyped
  <2> QED
    BY <2>1, Timers
<1> HIDE DEF r
<1>6. timed' \subseteq r
  BY <1>1 DEF r
<1>7. HoldersAreCounted'
  BY <1>1, <1>2, <1>5, <1>6, SameHolders
<1>8. RestTyped'
  BY <1>1, <1>2, <1>4, <1>5, <1>6 DEF RestTyped
<1> QED
  BY <1>4, <1>7, <1>8, TypedNext DEF CacheInv

LEMMA PutTyped ==
    ASSUME StoreTyped, NEW T \in SUBSET Thread, NEW K \in SUBSET T, NEW S, NEW D,
           Put(T, K, S, D)
    PROVE  StoreTyped'
  BY DEF StoreTyped, Put

LEMMA StreamStep ==
    ASSUME CacheInv, NEW t \in Thread,
           \/ ShellUpsert(t) \/ ShellRemove(t)
           \/ DetailSnapshot(t) \/ DetailEvent(t)
    PROVE  CacheInv'
<1>1. TypeOK /\ HoldersAreCounted /\ LinksAreCached /\ StoreTyped /\ RestTyped
  BY Typed DEF CacheInv
<1>2. /\ {} \in SUBSET Entry /\ CachedFor(t) \in SUBSET Entry
      /\ \A env : CachedIn(env) \in SUBSET Entry
  BY <1>1 DEF RestTyped, CachedFor, CachedIn
<1>3. CASE ShellUpsert(t)
  <2>1. PICK S, D \in SUBSET {t} : Put({t}, {t}, S, D)
    BY <1>3 DEF ShellUpsert
  <2>2. StoreTyped'
    BY <2>1, <1>1, PutTyped
  <2>3. Settle({}, CachedFor(t))
    BY <1>3 DEF ShellUpsert
  <2> QED
    BY <2>2, <2>3, <1>2, SettleStep
<1>4. CASE ShellRemove(t)
  <2>1. /\ Put({t}, {}, {}, {})
        /\ cached' = cached \ CachedFor(t)
        /\ timed' = timed \ CachedFor(t)
        /\ link' = Unlink(link, CachedFor(t))
        /\ UNCHANGED <<connected, refs, held, lost>>
    BY <1>4 DEF ShellRemove
  <2>2. StoreTyped'
    BY <2>1, <1>1, PutTyped
  <2>3. LinksAreCached' /\ cached' \subseteq Entry /\ link' \in Links
    BY <2>1, <1>1, FewerLinks
  <2>4. HoldersAreCounted'
    BY <2>1, <1>1, SameHolders
  <2>5. RestTyped'
    BY <2>1, <2>3, <1>1 DEF RestTyped
  <2> QED
    BY <2>2, <2>3, <2>4, <2>5, TypedNext DEF CacheInv
<1>5. CASE DetailSnapshot(t)
  <2>1. /\ known' = known \cup {t}
        /\ \E D \in SUBSET {t} : detail' = (detail \ {t}) \cup D
        /\ UNCHANGED <<connected, sidebar, cached, link, refs, held, timed, lost>>
    BY <1>5 DEF DetailSnapshot
  <2>2. StoreTyped'
    BY <2>1, <1>1 DEF StoreTyped
  <2>3. HoldersAreCounted'
    BY <2>1, <1>1, SameHolders
  <2>4. LinksAreCached' /\ RestTyped'
    BY <2>1, <1>1 DEF LinksAreCached, RestTyped
  <2> QED
    BY <2>2, <2>3, <2>4, TypedNext DEF CacheInv
<1>6. CASE DetailEvent(t)
  <2>1. /\ \E D \in SUBSET ({t} \cap known) : detail' = (detail \ {t}) \cup D
        /\ UNCHANGED <<known, sidebar>>
        /\ Settle({}, CachedIn(EnvironmentOf[t]))
    BY <1>6 DEF DetailEvent
  <2>2. StoreTyped'
    BY <2>1, <1>1 DEF StoreTyped
  <2> QED
    BY <2>1, <2>2, <1>2, SettleStep
<1> QED
  BY <1>3, <1>4, <1>5, <1>6

LEMMA ShellSnapshotStep ==
    ASSUME CacheInv, NEW env \in Environment, ShellSnapshot(env)
    PROVE  CacheInv'
<1>1. TypeOK /\ StoreTyped /\ RestTyped
  BY Typed DEF CacheInv
<1>2. PICK K \in SUBSET Of(env) :
        \E S, D \in SUBSET K :
          /\ Put(Of(env), K, S, D)
          /\ Settle({e \in CachedIn(env) : ThreadOf(e) \notin K}, CachedIn(env))
  BY DEF ShellSnapshot
<1>3. StoreTyped'
  <2>1. Of(env) \in SUBSET Thread
    BY DEF Of
  <2> QED
    BY <2>1, <1>1, <1>2, PutTyped
<1>4. /\ {e \in CachedIn(env) : ThreadOf(e) \notin K} \in SUBSET Entry
      /\ CachedIn(env) \in SUBSET Entry
  BY <1>1 DEF RestTyped, CachedIn
<1> QED
  BY <1>2, <1>3, <1>4, SettleStep

LEMMA CacheStep == CacheInv /\ [Next]_vars => CacheInv'
<1> SUFFICES ASSUME CacheInv, [Next]_vars PROVE CacheInv'
  OBVIOUS
<1>1. ASSUME NEW e \in Entry, Fire(e) PROVE CacheInv'
  <2>1. /\ ThreadOf(e) \in Thread /\ timed \ {e} \in SUBSET timed
        /\ lost[ThreadOf(e)] \in Nat
    BY EntryThreads DEF CacheInv, TypeOK
  <2>2. Elapse(ThreadOf(e), timed \ {e}, lost[ThreadOf(e)])
    BY <1>1 DEF Fire
  <2> QED
    BY <2>1, <2>2, ElapseStep
<1>2. ASSUME NEW t \in Thread, FireLost(t) PROVE CacheInv'
  <2>1. timed \in SUBSET timed /\ lost[t] - 1 \in Nat
    BY <1>2 DEF CacheInv, TypeOK, FireLost
  <2>2. Elapse(t, timed, lost[t] - 1)
    BY <1>2 DEF FireLost
  <2> QED
    BY <2>1, <2>2, ElapseStep
<1>3. CASE UNCHANGED vars
  <2>1. HoldersAreCounted'
    BY <1>3, SameHolders DEF CacheInv, vars
  <2> QED
    BY <1>3, <2>1 DEF CacheInv, TypeOK, LinksAreCached, vars, store
<1>4. CASE Next
  BY <1>1, <1>2, <1>4, RetainCachedStep, RetainNewStep, ReleaseStep,
     RegisterStep, RemoveStep, ShellSnapshotStep, StreamStep DEF Next
<1> QED
  BY <1>3, <1>4

LEMMA CacheInvariant == Spec => []CacheInv
  BY CacheInit, CacheStep, PTL DEF Spec

(* A step drops an entry only if it is idle, disconnected or unknown.      *)
DropsAreJustified ==
    \A e \in cached \ cached' :
          \/ refs'[e] = 0 /\ ThreadOf(e) \notin sidebar' \cup detail'
          \/ EnvironmentOf[ThreadOf(e)] \notin connected'
          \/ ThreadOf(e) \notin known'

LEMMA SettleDrops ==
    ASSUME NEW G, NEW R, Settle(G, R),
           \A e \in G : ThreadOf(e) \notin known'
    PROVE  DropsAreJustified
<1>1. PICK D \in ToCapacity(cached \ G, refs, sidebar', detail') :
         cached' = (cached \ G) \ D /\ refs' = refs
  BY DEF Settle
<1>2. D \subseteq {e \in cached \ G : refs[e] = 0
                                       /\ ThreadOf(e) \notin sidebar' \cup detail'}
  BY OverCapacity
<1> QED
  BY <1>1, <1>2 DEF DropsAreJustified

LEMMA ConsumerDrops ==
    ASSUME TypeOK, NEW c \in Consumer,
           \/ Release(c)
           \/ \E e \in Entry : RetainCached(c, e) \/ RetainNew(c, e)
    PROVE  DropsAreJustified
<1>1. UNCHANGED <<sidebar, detail>>
  BY DEF Release, RetainCached, RetainNew, store
<1>2. ASSUME NEW S, cached \subseteq S,
             NEW D \in ToCapacity(S, refs', sidebar, detail), cached' = S \ D
      PROVE  DropsAreJustified
  <2>1. D \subseteq {e \in S : refs'[e] = 0 /\ ThreadOf(e) \notin sidebar \cup detail}
    BY OverCapacity
  <2> QED
    BY <1>1, <1>2, <2>1 DEF DropsAreJustified
<1>3. CASE cached' = cached
  BY <1>3 DEF DropsAreJustified
<1>4. CASE Release(c)
  <2>1. \/ cached' = cached
        \/ \E D \in ToCapacity(cached, refs', sidebar, detail) :
              cached' = cached \ D
    BY <1>4 DEF Release
  <2> QED
    BY <2>1, <1>2, <1>3
<1>5. ASSUME NEW e \in Entry, RetainNew(c, e) PROVE DropsAreJustified
  <2>1. \E D \in ToCapacity(cached \cup {e}, refs', sidebar, detail) :
           cached' = (cached \cup {e}) \ D
    BY <1>5 DEF RetainNew
  <2> QED
    BY <2>1, <1>2
<1>6. ASSUME NEW e \in Entry, RetainCached(c, e) PROVE DropsAreJustified
  BY <1>3, <1>6 DEF RetainCached
<1> QED
  BY <1>4, <1>5, <1>6

LEMMA StickyStep == TypeOK /\ [Next]_vars => [DropsAreJustified]_vars
<1> SUFFICES ASSUME TypeOK, Next PROVE DropsAreJustified
  OBVIOUS
<1>1. ASSUME NEW t, NEW tm, NEW l, Elapse(t, tm, l) PROVE DropsAreJustified
  BY <1>1 DEF Elapse, Evictable, store, DropsAreJustified
<1>2. ASSUME NEW env \in Environment, Register(env) \/ Remove(env)
      PROVE  DropsAreJustified
  BY <1>2 DEF Register, Remove, CachedIn, Of, DropsAreJustified
<1>3. ASSUME NEW env \in Environment, ShellSnapshot(env) PROVE DropsAreJustified
  <2>1. PICK K \in SUBSET Of(env) :
          /\ known' = (known \ Of(env)) \cup K
          /\ Settle({e \in CachedIn(env) : ThreadOf(e) \notin K}, CachedIn(env))
    BY <1>3 DEF ShellSnapshot, Put
  <2>2. \A e \in CachedIn(env) : ThreadOf(e) \notin K => ThreadOf(e) \notin known'
    BY <2>1 DEF CachedIn
  <2> QED
    BY <2>1, <2>2, SettleDrops
<1>4. ASSUME NEW t \in Thread, ShellUpsert(t) \/ DetailEvent(t)
      PROVE  DropsAreJustified
  <2>1. \E R : Settle({}, R)
    BY <1>4 DEF ShellUpsert, DetailEvent
  <2> QED
    BY <2>1, SettleDrops
<1>5. ASSUME NEW t \in Thread, ShellRemove(t) PROVE DropsAreJustified
  BY <1>5 DEF ShellRemove, Put, CachedFor, DropsAreJustified
<1>6. ASSUME NEW t \in Thread, DetailSnapshot(t) PROVE DropsAreJustified
  BY <1>6 DEF DetailSnapshot, DropsAreJustified
<1>7. ASSUME NEW e \in Entry, Fire(e) PROVE DropsAreJustified
  BY <1>1, <1>7 DEF Fire
<1>8. ASSUME NEW t \in Thread, FireLost(t) PROVE DropsAreJustified
  BY <1>1, <1>8 DEF FireLost
<1> QED
  BY <1>2, <1>3, <1>4, <1>5, <1>6, <1>7, <1>8, ConsumerDrops DEF Next

-----------------------------------------------------------------------------
(* Every variable has its type in every reachable state.                   *)
THEOREM TypeCorrect == Spec => []TypeOK
<1>1. CacheInv => TypeOK
  BY DEF CacheInv
<1> QED
  BY <1>1, CacheInvariant, PTL

(* refCount counts the consumers that hold an entry, cached or disposed,   *)
(* and a held entry has no timer.                                          *)
THEOREM CountsAreExact == Spec => []RefCountIsExact
<1>1. CacheInv => RefCountIsExact
  BY DEF CacheInv, HoldersAreCounted, Holders, RefCountIsExact
<1> QED
  BY <1>1, CacheInvariant, PTL

(* A stream is open only for the one cached entry of its thread, and only  *)
(* while the environment is connected.                                     *)
THEOREM NothingLeaks == Spec => []NoLeakedSubscription
<1>1. CacheInv => NoLeakedSubscription
  BY DEF CacheInv, LinksAreCached, NoLeakedSubscription
<1> QED
  BY <1>1, CacheInvariant, PTL

(* An entry that a consumer holds or whose thread is busy is dropped only  *)
(* with its connection or its thread.                                      *)
THEOREM BusyIsSticky == Spec => StickyWhileActive
<1>1. CacheInv => TypeOK
  BY DEF CacheInv
<1> QED
  BY <1>1, StickyStep, CacheInvariant, PTL
     DEF Spec, StickyWhileActive, DropsAreJustified
=============================================================================
