------------------------- MODULE DirtyTrackerProofs -------------------------
(***************************************************************************)
(* Proofs about DirtyTracker, for every set of pages, regions and hosts    *)
(* and every bound.                                                        *)
(***************************************************************************)
EXTENDS DirtyTracker, TLAPS

\* Every step keeps each counter a natural number and each set inside its
\* universe, through all sections of a harvest.
LEMMA TypeStep == TypeOK /\ [Next]_vars => TypeOK'
<1> USE TrackerAssumption
<1> SUFFICES ASSUME TypeOK, [Next]_vars
             PROVE  TypeOK'
  OBVIOUS
<1> USE DEF TypeOK, setVars, harvestVars, machineVars, readerVars
<1>1. ASSUME NEW P \in SUBSET Page, Track(P)
      PROVE  TypeOK'
  <2> DEFINE t == next_token + 1
  <2>1. t \in Token /\ t \in 0..MaxToken /\ harvests + 1 \in Nat
    BY <1>1 DEF Track, Token
  <2>2. NoPages \in [Page -> Nat]
    BY DEF NoPages
  <2>3. /\ next_token' = t
        /\ live' = live \cup {t}
        /\ pages' = [pages EXCEPT ![t] = P]
        /\ page_gen' = [page_gen EXCEPT ![t] = NoPages]
        /\ gen' = [gen EXCEPT ![t] = 0]
        /\ arm_at' = [arm_at EXCEPT ![t] = harvests + 1]
    BY <1>1 DEF Track
  <2> HIDE DEF t
  <2>4. QED
    BY <1>1, <2>1, <2>2, <2>3 DEF Track
<1>2. ASSUME NEW t \in Token, Untrack(t)
      PROVE  TypeOK'
  BY <1>2 DEF Untrack, NoPages
<1>3. ASSUME NEW t \in Token, Stamp(t)
      PROVE  TypeOK'
  <2>1. copying' \in BOOLEAN /\ reads' \in BOOLEAN
    BY <1>3, Zenon DEF Stamp
  <2>2. hand' \in [Page -> Nat]
    BY <1>3 DEF Stamp, NoPages
  <2>3. stamp' \in [Token -> Nat] /\ seen' \in [Token -> [Page -> Nat]]
    BY <1>3 DEF Stamp
  <2>4. QED
    BY <1>3, <2>1, <2>2, <2>3 DEF Stamp
<1>c. CASE Copy
  <2>1. copying' \in BOOLEAN
    BY <1>c, Zenon DEF Copy
  <2>2. QED
    BY <1>c, <2>1 DEF Copy
<1>n. CASE StampNothing
  <2>1. copying' \in BOOLEAN
    BY <1>n, Zenon DEF StampNothing
  <2>2. hand' \in [Page -> Nat]
    BY <1>n DEF StampNothing, NoPages
  <2>3. QED
    BY <1>n, <2>1, <2>2 DEF StampNothing
<1>4. ASSUME NEW t \in Token, Compare(t)
      PROVE  TypeOK'
  BY <1>4 DEF Compare
<1>5. ASSUME NEW t \in Token, NEW max \in 0..Cardinality(Page), AskWritten(t, max)
      PROVE  TypeOK'
  BY <1>5 DEF AskWritten
<1>6. CASE HarvestBegin
  BY <1>6 DEF HarvestBegin
<1>7. CASE HarvestSync
  BY <1>7 DEF HarvestSync
<1>8. CASE HarvestLock
  <2>1. reads' \in BOOLEAN
    BY <1>8, Zenon DEF HarvestLock
  <2>2. harvests' \in Nat
    BY <1>8 DEF HarvestLock
  <2>3. QED
    BY <1>8, <2>1, <2>2 DEF HarvestLock
<1>9. ASSUME NEW t \in Token, HarvestSet(t)
      PROVE  TypeOK'
  <2>1. ArmAt(t) \in Nat /\ NextGen(t) \in Nat
    BY DEF ArmAt, NextGen
  <2>2. NextPageGen(t) \in [Page -> Nat]
    BY <2>1 DEF NextPageGen
  <2>3. BitSet(t) \subseteq Page /\ {RegionOf[p] : p \in Unlogged(t)} \subseteq Region
    BY DEF BitSet, Unlogged
  <2>4. QED
    BY <1>9, <2>1, <2>2, <2>3 DEF HarvestSet
<1>10. CASE HarvestUnlock
  BY <1>10 DEF HarvestUnlock
<1>11. ASSUME NEW p \in Page, HarvestClear(p)
       PROVE  TypeOK'
  BY <1>11 DEF HarvestClear
<1>12. CASE HarvestEnd
  BY <1>12 DEF HarvestEnd
<1>13. CASE Free
  BY <1>13 DEF Free
<1>14. ASSUME NEW p \in Page, GuestStore(p)
       PROVE  TypeOK'
  <2>1. mem' \in [Page -> Nat]
    BY <1>14 DEF GuestStore
  <2>2. bitmap' \subseteq Page /\ log' \subseteq Page
    BY <1>14 DEF GuestStore
  <2>3. QED
    BY <1>14, <2>1, <2>2 DEF GuestStore
<1>15. ASSUME NEW p \in Remappable, Remap(p)
       PROVE  TypeOK'
  BY <1>15 DEF Remap
<1>16. CASE UNCHANGED vars
  BY <1>16 DEF vars
<1>17. QED
  BY <1>1, <1>2, <1>3, <1>c, <1>n, <1>4, <1>5, <1>6, <1>7, <1>8, <1>9, <1>10, <1>11,
     <1>12, <1>13, <1>14, <1>15, <1>16 DEF Next, Reader, Harvest, Machine

\* The initial state is type correct.
LEMMA TypeInit == Init => TypeOK
<1> USE TrackerAssumption
<1> SUFFICES ASSUME Init
             PROVE  TypeOK
  OBVIOUS
<1>1. NoPages \in [Page -> Nat]
  BY DEF NoPages
<1>2. reads \in BOOLEAN /\ alive \in BOOLEAN /\ copying \in BOOLEAN
  BY Zenon DEF Init
<1>3. QED
  BY <1>1, <1>2 DEF Init, TypeOK

\* Type correctness of the tracker, the machine around it and its readers.
THEOREM TypeCorrect == Spec => []TypeOK
<1>1. Init => TypeOK
  BY TypeInit
<1>2. TypeOK /\ [Next]_vars => TypeOK'
  BY TypeStep
<1>3. QED
  BY <1>1, <1>2, PTL DEF Spec

\* The generation a visit leaves behind: an armed set moves on by at most one,
\* by exactly one when some page was hit, and a hit page carries the new value.
LEMMA VisitMovesGen ==
    ASSUME TypeOK, Bookkeeping, NEW t \in live
    PROVE  /\ gen[t] # 0 => NextGen(t) = IF Hit(t) # {} THEN gen[t] + 1 ELSE gen[t]
           /\ NextGen(t) >= gen[t]
           /\ ArmAt(t) <= harvests \/ NextGen(t) = 0
           /\ \A p \in Hit(t) : gen[t] # 0 => NextPageGen(t)[p] = gen[t] + 1
<1>1. t \in Token /\ gen[t] \in Nat /\ arm_at[t] \in Nat /\ harvests \in Nat
  BY DEF TypeOK
<1>2. gen[t] # 0 => ArmAt(t) = arm_at[t] /\ arm_at[t] <= harvests
  BY DEF ArmAt, Bookkeeping
<1>3. ArmAt(t) \in Nat
  BY <1>1 DEF ArmAt
<1>4. gen[t] # 0 => NextGen(t) = IF Hit(t) # {} THEN gen[t] + 1 ELSE gen[t]
  BY <1>1, <1>2 DEF NextGen
<1>5. NextGen(t) >= gen[t]
  BY <1>1, <1>4 DEF NextGen
<1>6. ArmAt(t) <= harvests \/ NextGen(t) = 0
  BY <1>1, <1>3 DEF NextGen
<1>7. Hit(t) \subseteq Page
  BY <1>1 DEF Hit, NoSlice, Unlogged, BitSet, TypeOK
<1>8. ASSUME NEW p \in Hit(t), gen[t] # 0
      PROVE  NextPageGen(t)[p] = gen[t] + 1
  BY <1>1, <1>4, <1>7, <1>8 DEF NextPageGen
<1>9. QED
  BY <1>4, <1>5, <1>6, <1>8

\* Bookkeeping is inductive on every host, whatever the readers do between the
\* sections of a harvest.
LEMMA BookkeepingStep == TypeOK /\ Bookkeeping /\ [Next]_vars => Bookkeeping'
<1> SUFFICES ASSUME TypeOK, Bookkeeping, [Next]_vars
             PROVE  Bookkeeping'
  OBVIOUS
<1> USE TrackerAssumption
<1> USE DEF setVars, harvestVars, machineVars, readerVars
<1>1. ASSUME NEW P \in SUBSET Page, Track(P)
      PROVE  Bookkeeping'
  <2> DEFINE n == next_token + 1
  <2>1. n \in Token /\ n \notin live /\ n > next_token
    BY <1>1 DEF Track, Token, TypeOK, Bookkeeping
  <2>2. alive /\ stamp[n] = 0 /\ pc # "fold"
    BY <1>1, <2>1 DEF Track, ReaderMayRun, Bookkeeping
  <2>3. /\ next_token' = n
        /\ live' = live \cup {n}
        /\ gen' = [gen EXCEPT ![n] = 0]
        /\ arm_at' = [arm_at EXCEPT ![n] = harvests + 1]
        /\ UNCHANGED <<alive, pc, todo, written, needs_log, stamp, harvests, covered,
                       mem, ram>>
    BY <1>1 DEF Track
  <2> HIDE DEF n
  <2>4. \A t \in live' : stamp'[t] <= gen'[t]
    BY <2>1, <2>2, <2>3 DEF TypeOK, Bookkeeping
  <2>5. \A t \in live' : gen'[t] # 0 => arm_at'[t] <= harvests'
    BY <2>1, <2>2, <2>3 DEF TypeOK, Bookkeeping
  <2>6. \A t \in live' : t <= next_token'
    BY <2>1, <2>3 DEF TypeOK, Bookkeeping, Token
  <2>7. QED
    BY <2>1, <2>2, <2>3, <2>4, <2>5, <2>6 DEF Bookkeeping
<1>2. ASSUME NEW t \in Token, Untrack(t)
      PROVE  Bookkeeping'
  <2>1. /\ live' = live \ {t}
        /\ gen' = [gen EXCEPT ![t] = 0]
        /\ arm_at' = [arm_at EXCEPT ![t] = 0]
        /\ stamp' = [stamp EXCEPT ![t] = 0]
        /\ UNCHANGED <<next_token, alive, pc, todo, written, needs_log, harvests,
                       covered, mem, ram>>
        /\ alive /\ pc # "fold"
    BY <1>2 DEF Untrack, ReaderMayRun
  <2>2. \A u \in live' : stamp'[u] <= gen'[u] /\ (gen'[u] # 0 => arm_at'[u] <= harvests')
    BY <2>1 DEF TypeOK, Bookkeeping
  <2>3. \A u \in Token \ live' : stamp'[u] = 0
    BY <2>1 DEF TypeOK, Bookkeeping
  <2>4. QED
    BY <2>1, <2>2, <2>3 DEF Bookkeeping
<1>3. ASSUME NEW t \in Token, Stamp(t)
      PROVE  Bookkeeping'
  <2>1. /\ t \in live
        /\ stamp' = [stamp EXCEPT ![t] = gen[t]]
        /\ UNCHANGED <<live, gen, arm_at, next_token, alive, pc, todo, written,
                       needs_log, harvests, covered, mem, ram>>
    BY <1>3 DEF Stamp
  <2>2. \A u \in live : stamp'[u] <= gen[u]
    BY <2>1 DEF TypeOK, Bookkeeping
  <2>3. alive => \A u \in Token \ live : stamp'[u] = 0
    BY <2>1 DEF TypeOK, Bookkeeping
  <2>4. QED
    BY <2>1, <2>2, <2>3 DEF Bookkeeping
<1>c. CASE Copy
  BY <1>c DEF Copy, Bookkeeping
<1>n. CASE StampNothing
  BY <1>n DEF StampNothing, Bookkeeping
<1>4. ASSUME NEW t \in Token, Compare(t)
      PROVE  Bookkeeping'
  BY <1>4 DEF Compare, Bookkeeping
<1>5. ASSUME NEW t \in Token, NEW max \in 0..Cardinality(Page), AskWritten(t, max)
      PROVE  Bookkeeping'
  BY <1>5 DEF AskWritten, Bookkeeping
<1>6. CASE HarvestBegin
  BY <1>6 DEF HarvestBegin, Bookkeeping, TypeOK
<1>7. CASE HarvestSync
  BY <1>7 DEF HarvestSync, Bookkeeping
<1>8. CASE HarvestLock
  <2>1. \A t \in live : gen[t] # 0 => arm_at[t] <= harvests + 1
    BY DEF TypeOK, Bookkeeping
  <2>2. QED
    BY <1>8, <2>1 DEF HarvestLock, Bookkeeping
<1>9. ASSUME NEW t \in Token, HarvestSet(t)
      PROVE  Bookkeeping'
  <2>1. /\ t \in live
        /\ pc = "fold"
        /\ todo' = todo \ {t}
        /\ arm_at' = [arm_at EXCEPT ![t] = ArmAt(t)]
        /\ gen' = [gen EXCEPT ![t] = NextGen(t)]
        /\ UNCHANGED <<live, next_token, alive, pc, stamp, harvests, covered, mem, ram>>
    BY <1>9 DEF HarvestSet, Bookkeeping
  <2>2. /\ NextGen(t) >= gen[t]
        /\ ArmAt(t) <= harvests \/ NextGen(t) = 0
    BY <2>1, VisitMovesGen
  <2>3. ArmAt(t) \in Nat /\ NextGen(t) \in Nat
    BY DEF ArmAt, NextGen, TypeOK
  <2>4. \A u \in live : stamp[u] <= gen'[u]
    BY <2>1, <2>2, <2>3 DEF TypeOK, Bookkeeping
  <2>5. \A u \in live : gen'[u] # 0 => arm_at'[u] <= harvests
    BY <2>1, <2>2, <2>3 DEF TypeOK, Bookkeeping
  <2>6. QED
    BY <2>1, <2>4, <2>5 DEF Bookkeeping
<1>10. CASE HarvestUnlock
  BY <1>10 DEF HarvestUnlock, Bookkeeping
<1>11. ASSUME NEW p \in Page, HarvestClear(p)
       PROVE  Bookkeeping'
  BY <1>11 DEF HarvestClear, Bookkeeping
<1>12. CASE HarvestEnd
  BY <1>12 DEF HarvestEnd, Bookkeeping
<1>13. CASE Free
  BY <1>13 DEF Free, Bookkeeping
<1>14. ASSUME NEW p \in Page, GuestStore(p)
       PROVE  Bookkeeping'
  <2>1. \A q \in Page : covered[q] <= mem'[q]
    BY <1>14 DEF GuestStore, TypeOK, Bookkeeping
  <2>2. QED
    BY <1>14, <2>1 DEF GuestStore, Bookkeeping
<1>15. ASSUME NEW p \in Remappable, Remap(p)
       PROVE  Bookkeeping'
  BY <1>15 DEF Remap, Bookkeeping
<1>16. CASE UNCHANGED vars
  BY <1>16 DEF vars, Bookkeeping
<1>17. QED
  BY <1>1, <1>2, <1>3, <1>c, <1>n, <1>4, <1>5, <1>6, <1>7, <1>8, <1>9, <1>10, <1>11,
     <1>12, <1>13, <1>14, <1>15, <1>16 DEF Next, Reader, Harvest, Machine

\* A host on which the readers hold the BQL runs none of them during a harvest,
\* and one whose bitmap moves only at a sync records a store in the log.
LEMMA SafeHostFacts ==
    ASSUME SafeHost
    PROVE  /\ ReaderMayRun => alive /\ pc = "idle"
           /\ ~BitmapIsLive
BY DEF SafeHost, ReaderMayRun

\* Under the BQL a copy gets its generation before the next harvest begins, and
\* nothing but a store moves the pages under it.
LEMMA HandStep == TypeOK /\ HandLine /\ [Next]_vars => HandLine'
<1> SUFFICES ASSUME TypeOK, HandLine, [Next]_vars
             PROVE  HandLine'
  OBVIOUS
<1> USE TrackerAssumption
<1> USE DEF setVars, harvestVars, machineVars, readerVars
<1>h. host' = host => (ReadersHoldBQL' <=> ReadersHoldBQL)
  BY DEF ReadersHoldBQL
<1>1. ASSUME UNCHANGED <<mem, copying, hand, host, pc>>
      PROVE  HandLine'
  BY <1>1, <1>h DEF HandLine
<1>2. CASE Copy
  <2>1. \A p \in Page : mem[p] <= mem[p]
    BY DEF TypeOK
  <2>2. /\ hand' = mem
        /\ UNCHANGED <<mem, host, pc>>
        /\ ReadersHoldBQL => pc = "idle"
    BY <1>2 DEF Copy
  <2>3. QED
    BY <1>h, <2>1, <2>2 DEF HandLine
<1>3. ASSUME (\E t \in Token : Stamp(t)) \/ StampNothing
      PROVE  HandLine'
  <2>1. /\ ~copying' /\ hand' = NoPages
        /\ UNCHANGED <<mem, host, pc>>
    BY <1>3 DEF Stamp, StampNothing
  <2>2. \A p \in Page : NoPages[p] <= mem[p]
    BY DEF TypeOK, NoPages
  <2>3. QED
    BY <2>1, <2>2 DEF HandLine
<1>4. CASE HarvestBegin
  BY <1>4, <1>h DEF HarvestBegin, HandLine
<1>5. ASSUME HarvestSync \/ HarvestLock \/ HarvestUnlock
      PROVE  HandLine'
  BY <1>5, <1>h DEF HarvestSync, HarvestLock, HarvestUnlock, HandLine
<1>6. CASE HarvestEnd
  BY <1>6, <1>h DEF HarvestEnd, HandLine
<1>7. ASSUME NEW p \in Page, GuestStore(p)
      PROVE  HandLine'
  <2>1. \A q \in Page : hand[q] <= mem'[q]
    BY <1>7 DEF GuestStore, TypeOK, HandLine
  <2>2. UNCHANGED <<copying, hand, host, pc>>
    BY <1>7 DEF GuestStore
  <2>3. QED
    BY <1>h, <2>1, <2>2 DEF HandLine
<1>8. QED
  BY <1>1, <1>2, <1>3, <1>4, <1>5, <1>6, <1>7 DEF Next, Reader, Harvest, Machine, Track,
     Untrack, Compare, AskWritten, HarvestSet, HarvestClear, Free, Remap, vars

\* The copy in hand: nothing but a store can put it out of date, and the store leaves
\* its mark.
LEMMA HandWatchStep ==
    ASSUME IndInv, TypeOK', [Next]_vars, SafeHost
    PROVE  HandIsWatched'
<1> USE TrackerAssumption
<1> USE DEF setVars, harvestVars, machineVars, readerVars
<1>t. TypeOK /\ Bookkeeping /\ HandLine /\ HandIsWatched
  BY DEF IndInv
<1>a. copying => /\ pc = "idle"
                 /\ \A p \in Page : hand[p] >= covered[p]
                 /\ \A p \in Page : hand[p] < mem[p] => ReportPending(p)
  BY <1>t DEF HandLine, HandIsWatched, SafeHost
<1>1. CASE ~copying'
  BY <1>1 DEF HandIsWatched
<1>2. CASE Copy
  <2>1. hand' = mem /\ UNCHANGED <<mem, covered>>
    BY <1>2 DEF Copy
  <2>2. \A p \in Page : mem[p] >= covered[p] /\ ~(mem[p] < mem[p])
    BY <1>t DEF TypeOK, Bookkeeping
  <2>3. QED
    BY <2>1, <2>2 DEF HandIsWatched
<1>3. ASSUME NEW p \in Page, GuestStore(p), copying
      PROVE  HandIsWatched'
  <2>1. /\ mem' = [mem EXCEPT ![p] = @ + 1]
        /\ log \subseteq log' /\ bitmap' = bitmap
        /\ RegionOf[p] \in logged => p \in log'
        /\ UNCHANGED <<logged, hand, covered>>
    BY <1>3, SafeHostFacts DEF GuestStore
  <2>2. \A q \in Page : q # p => mem'[q] = mem[q]
    BY <1>t, <2>1 DEF TypeOK
  <2>3. \A q \in Page : ReportPending(q) => ReportPending(q)'
    BY <2>1 DEF ReportPending
  <2>4. ReportPending(p)'
    BY <2>1 DEF ReportPending
  <2>5. QED
    BY <1>a, <1>3, <2>1, <2>2, <2>3, <2>4 DEF HandIsWatched
<1>4. ASSUME UNCHANGED <<mem, log, bitmap, logged, copying, hand, covered>>, copying
      PROVE  HandIsWatched'
  BY <1>4, <1>a DEF HandIsWatched, ReportPending
<1>5. QED
  <2>1. CASE copying' /\ ~Copy
    <3>1. copying
      BY <2>1 DEF Next, Reader, Harvest, Machine, Track, Untrack, Stamp, StampNothing, Compare,
         AskWritten, HarvestBegin, HarvestSync, HarvestLock, HarvestSet, HarvestUnlock,
         HarvestClear, HarvestEnd, Free, GuestStore, Remap, vars
    <3>2. pc = "idle" /\ ReadersHoldBQL
      BY <1>a, <3>1 DEF SafeHost
    <3>3. ~Harvest /\ ~Free
      BY <1>t, <3>1, <3>2 DEF Harvest, HarvestBegin, HarvestSync, HarvestLock, HarvestSet,
         HarvestUnlock, HarvestClear, HarvestEnd, Free
    <3>4. QED
      BY <1>3, <1>4, <2>1, <3>1, <3>3 DEF Next, Reader, Machine, Track, Untrack, Stamp,
         StampNothing, Compare, AskWritten, Remap, vars
  <2>2. QED
    BY <1>1, <1>2, <2>1

\* The heart of the argument: one step keeps every out-of-date copy that is
\* reported current with a report on its way.
LEMMA SafeStep ==
    ASSUME IndInv, TypeOK', [Next]_vars, SafeHost
    PROVE  NoStoreLost' /\ VisitedIsTold' /\ FoundOut'
<1> USE TrackerAssumption
<1> DEFINE Lost(t, p) == ReportedCurrent(t, p) /\ seen[t][p] < mem[p]
<1> DEFINE Goal == NoStoreLost' /\ VisitedIsTold' /\ FoundOut'
<1>t. TypeOK /\ Bookkeeping
  BY DEF IndInv
<1>h. host' = host => (SafeHost' <=> SafeHost)
  BY DEF SafeHost, ReadersHoldBQL, BitmapIsLive
<1>a. /\ \A t \in live : \A p \in pages[t] : Lost(t, p) => ReportPending(p)
      /\ pc = "fold" => written \subseteq bitmap
      /\ \A t \in Visited : \A p \in pages[t] :
           ReportedCurrent(t, p) =>
              /\ p \in ram
              /\ RegionOf[p] \in logged
              /\ p \notin written
              /\ pc = "fold" => p \notin bitmap
      /\ \A t \in live : \A p \in pages[t] :
           ReportedCurrent(t, p) /\ seen[t][p] < covered[p] =>
              \/ pc = "begun"
              \/ /\ pc \in {"synced", "fold"}
                 /\ t \notin Visited
                 /\ RegionOf[p] \notin logged \/ p \in bitmap
  BY DEF IndInv, NoStoreLost, VisitedIsTold, FoundOut
<1> USE DEF setVars, harvestVars, machineVars, readerVars
<1>1. ASSUME NEW P \in SUBSET Page, Track(P)
      PROVE  Goal
  <2> DEFINE n == next_token + 1
  <2>1. n \in Token /\ n \notin live
    BY <1>1, <1>t DEF Track, Token, TypeOK, Bookkeeping
  <2>2. pc = "idle" /\ stamp[n] = 0
    BY <1>1, <1>t, <2>1, SafeHostFacts DEF Track, Bookkeeping
  <2>3. /\ live' = live \cup {n}
        /\ pages' = [pages EXCEPT ![n] = P]
        /\ page_gen' = [page_gen EXCEPT ![n] = NoPages]
        /\ UNCHANGED <<logged, pc, todo, written, host, ram, mem, log, bitmap, stamp,
                       seen, covered>>
    BY <1>1 DEF Track
  <2> HIDE DEF n
  <2>4. \A t \in live : page_gen'[t] = page_gen[t] /\ pages'[t] = pages[t]
    BY <1>t, <2>1, <2>3 DEF TypeOK
  <2>5. \A t \in live', p \in Page : ReportedCurrent(t, p)' => t \in live
    BY <2>2, <2>3 DEF ReportedCurrent
  <2>6. QED
    BY <1>a, <2>2, <2>3, <2>4, <2>5 DEF NoStoreLost, VisitedIsTold, FoundOut,
       Visited, ReportedCurrent, ReportPending, TypeOK
<1>2. ASSUME NEW t \in Token, Untrack(t)
      PROVE  Goal
  <2>1. /\ pc = "idle"
        /\ live' = live \ {t}
        /\ pages' = [pages EXCEPT ![t] = {}]
        /\ page_gen' = [page_gen EXCEPT ![t] = NoPages]
        /\ stamp' = [stamp EXCEPT ![t] = 0]
        /\ seen' = [seen EXCEPT ![t] = NoPages]
        /\ UNCHANGED <<logged, pc, todo, written, host, ram, mem, log, bitmap, covered>>
    BY <1>2, SafeHostFacts DEF Untrack
  <2>2. \A u \in live' : /\ pages'[u] = pages[u]
                         /\ page_gen'[u] = page_gen[u]
                         /\ stamp'[u] = stamp[u]
                         /\ seen'[u] = seen[u]
    BY <1>t, <2>1 DEF TypeOK
  <2>3. QED
    BY <1>a, <2>1, <2>2 DEF NoStoreLost, VisitedIsTold, FoundOut,
       Visited, ReportedCurrent, ReportPending
<1>3. ASSUME NEW t \in Token, Stamp(t)
      PROVE  Goal
  <2>1. /\ pc = "idle" /\ copying
        /\ stamp' = [stamp EXCEPT ![t] = gen[t]]
        /\ seen' = [seen EXCEPT ![t] = hand]
        /\ UNCHANGED <<live, pages, page_gen, logged, pc, todo, written, host, ram,
                       mem, log, bitmap, covered>>
    BY <1>3, SafeHostFacts DEF Stamp
  <2>2. \A u \in live : u # t => stamp'[u] = stamp[u] /\ seen'[u] = seen[u]
    BY <1>t, <2>1 DEF TypeOK
  <2>3. seen'[t] = hand
    BY <1>t, <2>1 DEF TypeOK
  <2>4. \A u \in live : \A p \in pages[u] : p \in Page
    BY <1>t DEF TypeOK
  <2>5. \A p \in Page : /\ hand[p] < mem[p] => ReportPending(p)
                        /\ ~(hand[p] < covered[p])
    <3>1. \A p \in Page : hand[p] \in Nat /\ covered[p] \in Nat
      BY <1>t DEF TypeOK
    <3>2. QED
      BY <2>1, <3>1 DEF IndInv, HandIsWatched
  <2>6. QED
    BY <1>a, <2>1, <2>2, <2>3, <2>4, <2>5 DEF NoStoreLost, VisitedIsTold, FoundOut,
       Visited, ReportedCurrent, ReportPending
<1>c. CASE Copy
  BY <1>a, <1>c DEF Copy, NoStoreLost, VisitedIsTold, FoundOut,
     Visited, ReportedCurrent, ReportPending
<1>n. CASE StampNothing
  BY <1>a, <1>n DEF StampNothing, NoStoreLost, VisitedIsTold, FoundOut,
     Visited, ReportedCurrent, ReportPending
<1>4. ASSUME NEW t \in Token, Compare(t)
      PROVE  Goal
  BY <1>a, <1>4 DEF Compare, NoStoreLost, VisitedIsTold, FoundOut,
     Visited, ReportedCurrent, ReportPending
<1>5. ASSUME NEW t \in Token, NEW max \in 0..Cardinality(Page), AskWritten(t, max)
      PROVE  Goal
  BY <1>a, <1>5 DEF AskWritten, NoStoreLost, VisitedIsTold, FoundOut,
     Visited, ReportedCurrent, ReportPending
<1>6. CASE HarvestBegin
  BY <1>a, <1>6 DEF HarvestBegin, NoStoreLost, VisitedIsTold, FoundOut,
     Visited, ReportedCurrent, ReportPending
<1>7. CASE HarvestSync
  <2>1. /\ pc = "begun" /\ pc' = "synced"
        /\ bitmap' = bitmap \cup log
        /\ UNCHANGED <<live, pages, page_gen, logged, todo, written, host, ram, mem,
                       log, stamp, seen, covered>>
    BY <1>7 DEF HarvestSync
  <2>2. \A t \in live : \A p \in pages[t] : seen[t][p] < covered[p] => seen[t][p] < mem[p]
    BY <1>t DEF TypeOK, Bookkeeping
  <2>3. QED
    BY <1>a, <2>1, <2>2 DEF NoStoreLost, VisitedIsTold, FoundOut,
       Visited, ReportedCurrent, ReportPending
<1>8. CASE HarvestLock
  <2>1. written = {}
    BY <1>8, <1>t DEF HarvestLock, Bookkeeping
  <2>2. QED
    BY <1>a, <1>8, <2>1 DEF HarvestLock, NoStoreLost, VisitedIsTold, FoundOut,
       Visited, ReportedCurrent, ReportPending
<1>9. ASSUME NEW t \in Token, HarvestSet(t)
      PROVE  Goal
  <2>1. /\ t \in live /\ t \in todo
        /\ pc = "fold"
        /\ todo' = todo \ {t}
        /\ page_gen' = [page_gen EXCEPT ![t] = NextPageGen(t)]
        /\ written' = written \cup BitSet(t)
        /\ UNCHANGED <<live, pages, logged, pc, host, ram, mem, log, bitmap, stamp, seen,
                       covered>>
    BY <1>9, <1>t DEF HarvestSet, Bookkeeping
  <2>2. /\ page_gen'[t] = NextPageGen(t)
        /\ \A u \in live : u # t => page_gen'[u] = page_gen[u]
    BY <1>t, <2>1 DEF TypeOK
  <2>3. ASSUME NEW p \in pages[t], ReportedCurrent(t, p)'
        PROVE  /\ ReportedCurrent(t, p)
               /\ p \in ram /\ RegionOf[p] \in logged /\ p \notin bitmap
    <3>1. stamp[t] # 0 /\ NextPageGen(t)[p] <= stamp[t]
      BY <2>1, <2>2, <2>3 DEF ReportedCurrent
    <3>2. p \in Page /\ stamp[t] \in Nat /\ gen[t] \in Nat /\ stamp[t] <= gen[t]
      BY <1>t, <2>1 DEF TypeOK, Bookkeeping
    <3>3. gen[t] # 0
      BY <3>1, <3>2
    <3>4. p \notin Hit(t)
      <4>1. ASSUME p \in Hit(t)
            PROVE  FALSE
        <5>1. NextPageGen(t)[p] = gen[t] + 1
          BY <1>t, <2>1, <3>3, <4>1, VisitMovesGen
        <5>2. QED
          BY <3>1, <3>2, <5>1
      <4>2. QED
        BY <4>1
    <3>5. NextPageGen(t)[p] = page_gen[t][p]
      BY <3>2, <3>4 DEF NextPageGen
    <3>6. QED
      BY <3>1, <3>4, <3>5 DEF ReportedCurrent, Hit, NoSlice, Unlogged, BitSet
  <2>4. BitSet(t) \subseteq bitmap
    BY DEF BitSet
  <2>5. \A u \in live : u # t => \A p \in pages[u] :
           ReportedCurrent(u, p)' <=> ReportedCurrent(u, p)
    BY <2>1, <2>2 DEF ReportedCurrent
  <2>6. NoStoreLost'
    BY <1>a, <2>1, <2>3, <2>5 DEF NoStoreLost, ReportPending
  <2>7. Visited = live \ todo /\ Visited' = Visited \cup {t} /\ t \notin Visited
    BY <2>1 DEF Visited
  <2>8. VisitedIsTold'
    BY <1>a, <2>1, <2>3, <2>4, <2>5, <2>7 DEF VisitedIsTold
  <2>9. FoundOut'
    BY <1>a, <2>1, <2>3, <2>5, <2>7 DEF FoundOut
  <2>10. QED
    BY <2>6, <2>8, <2>9
<1>10. CASE HarvestUnlock
  <2>1. Visited = live /\ Visited' = live /\ pc = "fold" /\ pc' = "clear"
    BY <1>10 DEF HarvestUnlock, Visited
  <2>2. QED
    BY <1>a, <1>10, <2>1 DEF HarvestUnlock, NoStoreLost, VisitedIsTold, FoundOut,
       ReportedCurrent, ReportPending
<1>11. ASSUME NEW p \in Page, HarvestClear(p)
       PROVE  Goal
  <2>1. /\ pc = "clear" /\ p \in written
        /\ written' = written \ {p}
        /\ bitmap' = bitmap \ {p}
        /\ log' = log \ {p}
        /\ UNCHANGED <<live, pages, page_gen, logged, pc, todo, host, ram, mem, stamp,
                       seen, covered>>
    BY <1>11 DEF HarvestClear
  <2>2. Visited = live /\ Visited' = live
    BY <2>1 DEF Visited
  <2>3. \A t \in live : p \in pages[t] => ~ReportedCurrent(t, p)
    BY <1>a, <2>1, <2>2
  <2>4. QED
    BY <1>a, <2>1, <2>2, <2>3 DEF NoStoreLost, VisitedIsTold, FoundOut,
       ReportedCurrent, ReportPending
<1>12. CASE HarvestEnd
  <2>1. /\ pc = "clear" /\ pc' = "idle"
        /\ log \subseteq log'
        /\ UNCHANGED <<live, pages, page_gen, todo, written, host, ram, mem, bitmap,
                       stamp, seen, covered>>
    BY <1>12 DEF HarvestEnd
  <2>2. Visited = live /\ Visited' = {}
    BY <2>1 DEF Visited
  <2>3. logged \subseteq logged'
    BY <1>12 DEF HarvestEnd
  <2>4. \A t \in live : \A q \in pages[t] : ReportedCurrent(t, q) => RegionOf[q] \in logged
    BY <1>a, <2>2
  <2>5. QED
    BY <1>a, <2>1, <2>2, <2>3, <2>4 DEF NoStoreLost, VisitedIsTold, FoundOut,
       ReportedCurrent, ReportPending
<1>13. CASE Free
  BY <1>13 DEF Free, NoStoreLost, VisitedIsTold, FoundOut, Visited
<1>14. ASSUME NEW p \in Page, GuestStore(p)
       PROVE  Goal
  <2>1. /\ mem' = [mem EXCEPT ![p] = @ + 1]
        /\ bitmap' = bitmap
        /\ log \subseteq log'
        /\ RegionOf[p] \in logged => p \in log'
        /\ UNCHANGED <<live, pages, page_gen, logged, pc, todo, written, host, ram,
                       stamp, seen, covered>>
    BY <1>14, SafeHostFacts DEF GuestStore
  <2>2. \A q \in Page : q # p => mem'[q] = mem[q]
    BY <1>t, <2>1 DEF TypeOK
  <2>3. \A t \in live : \A q \in pages[t] : q \in Page
    BY <1>t DEF TypeOK
  <2>4. QED
    BY <1>a, <2>1, <2>2, <2>3 DEF NoStoreLost, VisitedIsTold, FoundOut,
       Visited, ReportedCurrent, ReportPending
<1>15. ASSUME NEW p \in Remappable, Remap(p)
       PROVE  Goal
  BY <1>a, <1>15 DEF Remap, NoStoreLost, VisitedIsTold, FoundOut,
     Visited, ReportedCurrent, ReportPending
<1>16. CASE UNCHANGED vars
  BY <1>a, <1>16 DEF vars, NoStoreLost, VisitedIsTold, FoundOut,
     Visited, ReportedCurrent, ReportPending
<1>17. QED
  BY <1>1, <1>2, <1>3, <1>c, <1>n, <1>4, <1>5, <1>6, <1>7, <1>8, <1>9, <1>10, <1>11,
     <1>12, <1>13, <1>14, <1>15, <1>16 DEF Next, Reader, Harvest, Machine

\* No action ever changes which host this is.
LEMMA HostIsFixed == [Next]_vars => host' = host
<1> USE DEF setVars, harvestVars, machineVars, readerVars, vars
<1>1. Reader => host' = host
  BY DEF Reader, Track, Untrack, Copy, Stamp, StampNothing, Compare, AskWritten
<1>2. Harvest => host' = host
  BY DEF Harvest, HarvestBegin, HarvestSync, HarvestLock, HarvestSet, HarvestUnlock,
         HarvestClear, HarvestEnd
<1>3. Free \/ Machine => host' = host
  BY DEF Free, Machine, GuestStore, Remap
<1>4. QED
  BY <1>1, <1>2, <1>3 DEF Next

\* The inductive invariant holds in every reachable state, on every host.
THEOREM Invariance == Spec => []IndInv
<1>1. Init => IndInv
  <2> SUFFICES ASSUME Init
               PROVE  IndInv
    OBVIOUS
  <2>1. TypeOK
    BY TypeInit
  <2>2. \A p \in Page : covered[p] <= mem[p] /\ hand[p] <= mem[p]
    BY DEF Init, NoPages
  <2>3. live = {} /\ todo = {} /\ written = {} /\ needs_log = {} /\ pc = "idle" /\ alive
    BY DEF Init
  <2>4. \A t \in Token : stamp[t] = 0
    BY DEF Init
  <2>5. Page \ Remappable \subseteq ram
    BY DEF Init
  <2>6. Bookkeeping
    BY <2>2, <2>3, <2>4, <2>5 DEF Bookkeeping
  <2>7. NoStoreLost /\ VisitedIsTold /\ FoundOut
    BY <2>3 DEF NoStoreLost, VisitedIsTold, FoundOut, Visited
  <2>8. HandLine /\ HandIsWatched
    BY <2>2 DEF Init, HandLine, HandIsWatched
  <2>9. QED
    BY <2>1, <2>6, <2>7, <2>8 DEF IndInv
<1>2. IndInv /\ [Next]_vars => IndInv'
  <2> SUFFICES ASSUME IndInv, [Next]_vars
               PROVE  IndInv'
    OBVIOUS
  <2>1. TypeOK'
    BY TypeStep DEF IndInv
  <2>2. Bookkeeping'
    BY BookkeepingStep DEF IndInv
  <2>h. HandLine'
    BY HandStep DEF IndInv
  <2>3. CASE SafeHost
    BY <2>1, <2>2, <2>h, <2>3, SafeStep, HandWatchStep DEF IndInv
  <2>4. CASE ~SafeHost
    <3>1. ~SafeHost'
      BY <2>4, HostIsFixed DEF SafeHost, ReadersHoldBQL, BitmapIsLive
    <3>2. NoStoreLost' /\ VisitedIsTold' /\ FoundOut' /\ HandIsWatched'
      BY <3>1 DEF NoStoreLost, VisitedIsTold, FoundOut, HandIsWatched
    <3>3. QED
      BY <2>1, <2>2, <2>h, <3>2 DEF IndInv
  <2>5. QED
    BY <2>3, <2>4
<1>3. QED
  BY <1>1, <1>2, PTL DEF Spec

\* The tracker loses no guest store to any reader, on every host where readers
\* hold the BQL and the bitmap moves only at a sync: whatever page sets overlap,
\* whenever regions are logged and however stores fall into a harvest.
THEOREM StoresAreNeverLost == Spec => []NoStoreLost
<1>1. IndInv => NoStoreLost
  BY DEF IndInv
<1>2. QED
  BY <1>1, Invariance, PTL

\* A harvest that was not skipped exposes every copy that misses a store made
\* before its doorbell, by the time it returns.
THEOREM HarvestDelivers == Spec => []HandoffObserved
<1>1. IndInv => HandoffObserved
  <2> SUFFICES ASSUME IndInv, SafeHost, pc = "idle",
                      NEW t \in live, NEW p \in pages[t], ReportedCurrent(t, p)
               PROVE  seen[t][p] >= covered[p]
    BY DEF HandoffObserved
  <2>1. ~(seen[t][p] < covered[p])
    BY DEF IndInv, FoundOut
  <2>2. seen[t][p] \in Nat /\ covered[p] \in Nat
    BY DEF IndInv, TypeOK
  <2>3. QED
    BY <2>1, <2>2
<1>2. QED
  BY <1>1, Invariance, PTL

\* On every host, with readers on any thread, the generation of a live token is
\* monotone and in particular never returns to 0.
THEOREM GenerationsAreMonotone == Spec => GenNeverGoesBack
<1>1. IndInv /\ [Next]_vars => [\A t \in live \cap live' : gen'[t] >= gen[t]]_vars
  <2> SUFFICES ASSUME IndInv, [Next]_vars, NEW t \in live \cap live'
               PROVE  gen'[t] >= gen[t]
    OBVIOUS
  <2> USE TrackerAssumption
  <2> USE DEF setVars, harvestVars, machineVars, readerVars
  <2>t. TypeOK /\ Bookkeeping /\ t \in Token /\ gen[t] \in Nat
    BY DEF IndInv, TypeOK
  <2>1. ASSUME NEW P \in SUBSET Page, Track(P)
        PROVE  gen'[t] >= gen[t]
    <3>1. gen' = [gen EXCEPT ![next_token + 1] = 0] /\ t # next_token + 1
      BY <2>1, <2>t DEF Track, Bookkeeping, TypeOK, Token
    <3>2. QED
      BY <3>1, <2>t DEF TypeOK
  <2>2. ASSUME NEW u \in Token, Untrack(u)
        PROVE  gen'[t] >= gen[t]
    BY <2>2, <2>t DEF Untrack, TypeOK
  <2>3. ASSUME NEW u \in Token, HarvestSet(u)
        PROVE  gen'[t] >= gen[t]
    <3>1. u \in live /\ gen' = [gen EXCEPT ![u] = NextGen(u)]
      BY <2>3, <2>t DEF HarvestSet, Bookkeeping
    <3>2. NextGen(u) >= gen[u]
      BY <2>t, <3>1, VisitMovesGen
    <3>3. QED
      BY <2>t, <3>1, <3>2 DEF TypeOK
  <2>4. ASSUME gen' = gen
        PROVE  gen'[t] >= gen[t]
    BY <2>4, <2>t
  <2>5. QED
    BY <2>1, <2>2, <2>3, <2>4 DEF Next, Reader, Harvest, Machine, Copy, Stamp,
       StampNothing, Compare, AskWritten, HarvestBegin, HarvestSync, HarvestLock, HarvestUnlock, HarvestClear,
       HarvestEnd, Free, GuestStore, Remap, vars
<1>2. QED
  BY <1>1, Invariance, PTL DEF Spec, GenNeverGoesBack

\* On every host no set arms before logging covers its pages, even when readers
\* track pages between the sections of a harvest.
THEOREM ArmingWaitsForLogging == Spec => []ArmedIsLogged
<1>1. Init => ArmedIsLogged
  BY DEF Init, ArmedIsLogged
<1>2. IndInv /\ ArmedIsLogged /\ [Next]_vars => ArmedIsLogged'
  <2> SUFFICES ASSUME IndInv, ArmedIsLogged, [Next]_vars
               PROVE  ArmedIsLogged'
    OBVIOUS
  <2> USE TrackerAssumption
  <2> USE DEF setVars, harvestVars, machineVars, readerVars
  <2>t. TypeOK /\ Bookkeeping
    BY DEF IndInv
  <2>1. ASSUME NEW P \in SUBSET Page, Track(P)
        PROVE  ArmedIsLogged'
    <3> DEFINE n == next_token + 1
    <3>1. /\ n \in Token
          /\ live' = live \cup {n}
          /\ pages' = [pages EXCEPT ![n] = P]
          /\ gen' = [gen EXCEPT ![n] = 0]
          /\ UNCHANGED logged
      BY <2>1, <2>t DEF Track, Token, TypeOK
    <3> HIDE DEF n
    <3>2. gen'[n] = 0
      BY <3>1, <2>t DEF TypeOK
    <3>3. \A t \in live : t # n => gen'[t] = gen[t] /\ pages'[t] = pages[t]
      BY <3>1, <2>t DEF TypeOK
    <3>4. QED
      BY <3>1, <3>2, <3>3 DEF ArmedIsLogged
  <2>2. ASSUME NEW u \in Token, Untrack(u)
        PROVE  ArmedIsLogged'
    BY <2>2, <2>t DEF Untrack, TypeOK, ArmedIsLogged
  <2>3. ASSUME NEW u \in Token, HarvestSet(u)
        PROVE  ArmedIsLogged'
    <3>1. /\ u \in live
          /\ gen' = [gen EXCEPT ![u] = NextGen(u)]
          /\ UNCHANGED <<live, pages, logged>>
      BY <2>3, <2>t DEF HarvestSet, Bookkeeping
    <3>2. gen[u] = 0 /\ Unlogged(u) # {} => NextGen(u) = 0
      BY <2>t DEF NextGen, ArmAt, TypeOK
    <3>3. Unlogged(u) = {} => \A p \in pages[u] \ Remappable : RegionOf[p] \in logged
      BY <2>t DEF Unlogged, Bookkeeping, TypeOK
    <3>4. gen'[u] = NextGen(u) /\ \A t \in live : t # u => gen'[t] = gen[t]
      BY <2>t, <3>1 DEF TypeOK
    <3>5. QED
      BY <3>1, <3>2, <3>3, <3>4 DEF ArmedIsLogged
  <2>4. CASE HarvestEnd
    BY <2>4 DEF HarvestEnd, ArmedIsLogged
  <2>5. CASE Free
    BY <2>5 DEF Free, ArmedIsLogged
  <2>6. ASSUME UNCHANGED <<live, pages, gen, logged>>
        PROVE  ArmedIsLogged'
    BY <2>6 DEF ArmedIsLogged
  <2>7. QED
    BY <2>1, <2>2, <2>3, <2>4, <2>5, <2>6 DEF Next, Reader, Harvest, Machine, Copy,
       Stamp, StampNothing, Compare, AskWritten, HarvestBegin, HarvestSync, HarvestLock, HarvestUnlock,
       HarvestClear, GuestStore, Remap, vars
<1>3. QED
  BY <1>1, <1>2, Invariance, PTL DEF Spec
=============================================================================
