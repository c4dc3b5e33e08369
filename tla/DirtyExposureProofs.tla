------------------------ MODULE DirtyExposureProofs ------------------------
(***************************************************************************)
(* Proofs about DirtyExposure: on every host, a store is lost only through *)
(* one of the windows recorded there.                                      *)
(***************************************************************************)
EXTENDS DirtyExposure, DirtyTrackerProofs

\* The record of the windows allows no step the tracker does not have.
LEMMA ExposedStepIsAStep == [ExposedNext]_exposureVars => [Next]_vars
BY DEF ExposedNext, exposureVars, ExposedCopy, ExposedVisit, ExposedStamp,
       ExposedStampNothing, ExposedUntrack, ExposedStore, Unexposing, Next, Reader,
       Harvest, Machine

\* The history variables only watch: whatever ExposedSpec does, the tracker may do,
\* so all that is proved of the tracker holds here.
THEOREM ExposureOnlyWatches == ExposedSpec => Spec
<1>1. ExposedInit => Init
  BY DEF ExposedInit
<1>2. QED
  BY <1>1, ExposedStepIsAStep, PTL DEF ExposedSpec, Spec

\* The sheltered pages of a copy are pages of its set.
LEMMA ShelteredPages ==
    ASSUME TypeOK, NEW t \in live
    PROVE  t \in Token /\ Sheltered(t) \subseteq pages[t] /\ pages[t] \subseteq Page
BY DEF TypeOK, Sheltered

\* The record stays a record of pages; the first two windows open only for readers off
\* the BQL, and the third only where stores set bits themselves.
LEMMA WindowsStep ==
    ASSUME TypeOK, Bookkeeping, HandLine, Sections, [ExposedNext]_exposureVars
    PROVE  /\ raced' \in [Token -> SUBSET Page]
           /\ late' \in [Token -> SUBSET Page]
           /\ overtaken' \in [Token -> SUBSET Page]
           /\ handRaced' \subseteq Page /\ handLate' \subseteq Page
           /\ ReadersHoldBQL =>
                /\ handRaced' = {} /\ handLate' = {}
                /\ \A t \in Token : raced'[t] = {} /\ late'[t] = {}
           /\ ~BitmapIsLive => \A t \in Token : overtaken'[t] = {}
<1> USE DEF windowVars
<1> DEFINE Goal == /\ raced' \in [Token -> SUBSET Page]
                   /\ late' \in [Token -> SUBSET Page]
                   /\ overtaken' \in [Token -> SUBSET Page]
                   /\ handRaced' \subseteq Page /\ handLate' \subseteq Page
                   /\ ReadersHoldBQL =>
                        /\ handRaced' = {} /\ handLate' = {}
                        /\ \A t \in Token : raced'[t] = {} /\ late'[t] = {}
                   /\ ~BitmapIsLive => \A t \in Token : overtaken'[t] = {}
<1>s. /\ raced \in [Token -> SUBSET Page]
      /\ late \in [Token -> SUBSET Page]
      /\ overtaken \in [Token -> SUBSET Page]
      /\ handRaced \subseteq Page /\ handLate \subseteq Page
      /\ ReadersHoldBQL =>
           /\ handRaced = {} /\ handLate = {}
           /\ \A t \in Token : raced[t] = {} /\ late[t] = {}
      /\ ~BitmapIsLive => \A t \in Token : overtaken[t] = {}
  BY DEF Sections
<1>1. CASE ExposedCopy
  <2>1. ReadersHoldBQL => written = {}
    BY <1>1 DEF ExposedCopy, Copy, Bookkeeping
  <2>2. QED
    BY <1>1, <1>s, <2>1 DEF ExposedCopy, TypeOK
<1>2. ASSUME NEW t \in Token, ExposedVisit(t)
      PROVE  Goal
  <2>1. Hit(t) \subseteq Page
    BY DEF TypeOK, Hit, NoSlice, Unlogged, BitSet
  <2>2. ReadersHoldBQL => ~copying
    BY <1>2 DEF ExposedVisit, HarvestSet, HandLine
  <2>3. QED
    BY <1>2, <1>s, <2>1, <2>2 DEF ExposedVisit
<1>3. ASSUME NEW t \in Token, ExposedStamp(t)
      PROVE  Goal
  <2>1. /\ Stamped(t, handRaced) \subseteq Page /\ Stamped(t, handLate) \subseteq Page
        /\ handRaced = {} => Stamped(t, handRaced) = {}
        /\ handLate = {} => Stamped(t, handLate) = {}
    BY <1>s DEF Stamped
  <2>2. QED
    BY <1>3, <1>s, <2>1 DEF ExposedStamp
<1>4. CASE ExposedStampNothing
  BY <1>4, <1>s DEF ExposedStampNothing
<1>5. ASSUME NEW t \in Token, ExposedUntrack(t)
      PROVE  Goal
  BY <1>5, <1>s DEF ExposedUntrack
<1>6. ASSUME NEW p \in Page, ExposedStore(p)
      PROVE  Goal
  <2>1. ~BitmapIsLive => Overtaken(p) = {}
    BY DEF Overtaken
  <2>2. QED
    BY <1>6, <1>s, <2>1 DEF ExposedStore
<1>7. CASE UNCHANGED windowVars
  BY <1>7, <1>s
<1>8. QED
  BY <1>1, <1>2, <1>3, <1>4, <1>5, <1>6, <1>7 DEF ExposedNext, Unexposing, exposureVars

\* The first part of the invariant, on every host: a harvest clears only what it read,
\* and only where logging is on.
LEMMA SectionsStep ==
    ASSUME TypeOK, Bookkeeping, HandLine, Sections, [ExposedNext]_exposureVars
    PROVE  Sections'
<1> USE TrackerAssumption
<1> USE DEF setVars, harvestVars, machineVars, readerVars
<1>h. host' = host
  BY ExposedStepIsAStep, HostIsFixed
<1>s. /\ ReadersHoldBQL' <=> ReadersHoldBQL
      /\ BitmapIsLive' <=> BitmapIsLive
  BY <1>h DEF ReadersHoldBQL, BitmapIsLive
<1> DEFINE Bits == /\ \A p \in Page : alive /\ RegionOf[p] \notin logged => p \in bitmap
                   /\ pc = "fold" => written \subseteq bitmap
                   /\ \A p \in written : RegionOf[p] \in logged
<1>b. Bits
  BY DEF Sections
<1>r. ASSUME Reader
      PROVE  Bits'
  BY <1>r, <1>b DEF Reader, Track, Untrack, Copy, Stamp, StampNothing, Compare,
     AskWritten
<1>1. ASSUME HarvestBegin \/ HarvestSync \/ HarvestUnlock
      PROVE  Bits'
  BY <1>1, <1>b DEF HarvestBegin, HarvestSync, HarvestUnlock
<1>2. ASSUME HarvestLock
      PROVE  Bits'
  BY <1>2, <1>b DEF HarvestLock, Bookkeeping
<1>3. ASSUME NEW t \in Token, HarvestSet(t)
      PROVE  Bits'
  BY <1>3, <1>b DEF HarvestSet, BitSet
<1>4. ASSUME NEW p \in Page, HarvestClear(p)
      PROVE  Bits'
  BY <1>4, <1>b DEF HarvestClear
<1>5. ASSUME HarvestEnd
      PROVE  Bits'
  BY <1>5, <1>b DEF HarvestEnd
<1>6. ASSUME Free
      PROVE  Bits'
  BY <1>6, <1>b DEF Free, Bookkeeping
<1>7. ASSUME NEW p \in Page, GuestStore(p)
      PROVE  Bits'
  BY <1>7, <1>b DEF GuestStore
<1>8. ASSUME NEW p \in Remappable, Remap(p)
      PROVE  Bits'
  BY <1>8, <1>b DEF Remap
<1>9. ASSUME UNCHANGED vars
      PROVE  Bits'
  BY <1>9, <1>b DEF vars
<1>10. [Next]_vars
  BY ExposedStepIsAStep
<1>11. Bits'
  BY <1>r, <1>1, <1>2, <1>3, <1>4, <1>5, <1>6, <1>7, <1>8, <1>9, <1>10
     DEF Next, Harvest, Machine
<1>12. QED
  BY <1>s, <1>11, WindowsStep DEF Sections

\* A page that its visit leaves reported current was called current before, lies in a
\* logged region, and had no bit set.
LEMMA VisitTells ==
    ASSUME TypeOK, Bookkeeping, NEW t \in live, NEW p \in pages[t],
           stamp[t] # 0, NextPageGen(t)[p] <= stamp[t]
    PROVE  /\ ReportedCurrent(t, p)
           /\ RegionOf[p] \in logged /\ p \notin bitmap
<1>1. p \in Page /\ stamp[t] \in Nat /\ gen[t] \in Nat /\ stamp[t] <= gen[t]
  BY DEF TypeOK, Bookkeeping
<1>2. gen[t] # 0
  BY <1>1
<1>3. p \notin Hit(t)
  <2>1. ASSUME p \in Hit(t)
        PROVE  FALSE
    <3>1. NextPageGen(t)[p] = gen[t] + 1
      BY <1>2, <2>1, VisitMovesGen
    <3>2. QED
      BY <1>1, <3>1
  <2>2. QED
    BY <2>1
<1>4. NextPageGen(t)[p] = page_gen[t][p]
  BY <1>1, <1>3 DEF NextPageGen
<1>5. QED
  BY <1>3, <1>4 DEF ReportedCurrent, Hit, NoSlice, Unlogged, BitSet

\* The heart of the argument: one step, on any host, keeps every sheltered page of an
\* out-of-date copy that is reported current with a report on its way.
LEMMA ShelterStep ==
    ASSUME TypeOK, TypeOK', Bookkeeping, ExposureInv, Sections',
           [ExposedNext]_exposureVars
    PROVE  NoStoreLostUnexposed' /\ ShelteredIsTold' /\ ShelteredIsFoundOut'
<1> USE TrackerAssumption
<1> USE DEF setVars, harvestVars, machineVars, readerVars, windowVars
<1> DEFINE Goal == NoStoreLostUnexposed' /\ ShelteredIsTold' /\ ShelteredIsFoundOut'
<1>h. host' = host /\ (BitmapIsLive' <=> BitmapIsLive)
  BY ExposedStepIsAStep, HostIsFixed DEF BitmapIsLive
<1>a. /\ \A t \in live : \A p \in Sheltered(t) :
           ReportedCurrent(t, p) /\ seen[t][p] < mem[p] => ReportPending(p)
      /\ \A t \in Visited : \A p \in Sheltered(t) : ReportedCurrent(t, p) =>
           /\ p \notin written
           /\ pc = "fold" => p \notin bitmap \/ \A u \in todo : p \notin pages[u]
      /\ \A t \in live : \A p \in Sheltered(t) :
           ReportedCurrent(t, p) /\ seen[t][p] < covered[p] =>
              \/ pc = "begun"
              \/ /\ pc \in {"synced", "fold"}
                 /\ t \notin Visited
                 /\ RegionOf[p] \notin logged \/ p \in bitmap
  BY DEF ExposureInv, NoStoreLostUnexposed, Lost, ShelteredIsTold, ShelteredIsFoundOut
<1>s. Sections
  BY DEF ExposureInv
<1>1. ASSUME NEW P \in SUBSET Page, Track(P), UNCHANGED windowVars
      PROVE  Goal
  <2> DEFINE n == next_token + 1
  <2>1. n \in Token /\ n \notin live
    BY <1>1 DEF Track, Token, TypeOK, Bookkeeping
  <2>2. pc # "fold" /\ stamp[n] = 0
    BY <1>1, <2>1 DEF Track, ReaderMayRun, Bookkeeping
  <2>3. /\ live' = live \cup {n}
        /\ pages' = [pages EXCEPT ![n] = P]
        /\ page_gen' = [page_gen EXCEPT ![n] = NoPages]
        /\ UNCHANGED <<logged, pc, todo, written, host, ram, mem, log, bitmap, stamp,
                       seen, covered>>
    BY <1>1 DEF Track
  <2> HIDE DEF n
  <2>4. \A t \in live : /\ page_gen'[t] = page_gen[t]
                        /\ Sheltered(t)' = Sheltered(t)
                        /\ t \in Visited' <=> t \in Visited
    BY <1>1, <2>1, <2>2, <2>3 DEF TypeOK, Sheltered, Visited
  <2>5. \A t \in live', p \in Page : ReportedCurrent(t, p)' => t \in live
    BY <2>2, <2>3 DEF ReportedCurrent
  <2>6. \A t \in live' : Sheltered(t)' \subseteq Page
    BY DEF TypeOK, Sheltered
  <2>7. \A t \in Visited' : t \in live'
    BY <2>2, <2>3 DEF Visited
  <2>8. \A t \in live, p \in Page : ReportedCurrent(t, p)' <=> ReportedCurrent(t, p)
    BY <2>3, <2>4 DEF ReportedCurrent
  <2>9. \A p \in Page : ReportPending(p)' <=> ReportPending(p)
    BY <2>3 DEF ReportPending
  <2>10. NoStoreLostUnexposed'
    BY <1>a, <2>3, <2>4, <2>5, <2>6, <2>8, <2>9 DEF NoStoreLostUnexposed, Lost
  <2>11. ShelteredIsTold'
    BY <1>a, <2>2, <2>3, <2>4, <2>5, <2>6, <2>7, <2>8 DEF ShelteredIsTold
  <2>12. ShelteredIsFoundOut'
    BY <1>a, <2>3, <2>4, <2>5, <2>6, <2>8 DEF ShelteredIsFoundOut
  <2>13. QED
    BY <2>10, <2>11, <2>12
<1>2. ASSUME NEW t \in Token, ExposedUntrack(t)
      PROVE  Goal
  <2>1. /\ pc # "fold"
        /\ live' = live \ {t}
        /\ pages' = [pages EXCEPT ![t] = {}]
        /\ page_gen' = [page_gen EXCEPT ![t] = NoPages]
        /\ stamp' = [stamp EXCEPT ![t] = 0]
        /\ seen' = [seen EXCEPT ![t] = NoPages]
        /\ raced' = [raced EXCEPT ![t] = {}]
        /\ late' = [late EXCEPT ![t] = {}]
        /\ overtaken' = [overtaken EXCEPT ![t] = {}]
        /\ UNCHANGED <<logged, pc, todo, written, host, ram, mem, log, bitmap, covered>>
    BY <1>2 DEF ExposedUntrack, Untrack, ReaderMayRun
  <2>2. \A u \in live' : /\ Sheltered(u)' = Sheltered(u)
                         /\ page_gen'[u] = page_gen[u]
                         /\ stamp'[u] = stamp[u]
                         /\ seen'[u] = seen[u]
                         /\ u \in live /\ (u \in Visited' <=> u \in Visited)
    BY <1>s, <2>1 DEF TypeOK, Sections, Sheltered, Visited
  <2>3. Visited' \subseteq live'
    BY <2>1 DEF Visited
  <2>4. QED
    BY <1>a, <2>1, <2>2, <2>3 DEF NoStoreLostUnexposed, Lost, ShelteredIsTold,
       ShelteredIsFoundOut, ReportedCurrent, ReportPending
<1>3. ASSUME NEW t \in Token, ExposedStamp(t)
      PROVE  Goal
  <2>1. /\ pc # "fold" /\ t \in live /\ copying
        /\ stamp' = [stamp EXCEPT ![t] = gen[t]]
        /\ seen' = [seen EXCEPT ![t] = hand]
        /\ raced' = [raced EXCEPT ![t] = Stamped(t, handRaced)]
        /\ late' = [late EXCEPT ![t] = Stamped(t, handLate)]
        /\ overtaken' = [overtaken EXCEPT ![t] = {}]
        /\ UNCHANGED <<live, pages, page_gen, logged, pc, todo, written, host, ram,
                       mem, log, bitmap, covered>>
    BY <1>3 DEF ExposedStamp, Stamp, ReaderMayRun
  <2>2. \A u \in live : u # t => /\ stamp'[u] = stamp[u]
                                 /\ seen'[u] = seen[u]
                                 /\ Sheltered(u)' = Sheltered(u)
    BY <1>s, <2>1 DEF TypeOK, Sections, Sheltered
  <2>3. /\ seen'[t] = hand /\ stamp'[t] = gen[t]
        /\ Sheltered(t)' = pages[t] \ (Stamped(t, handRaced) \cup Stamped(t, handLate))
    BY <1>s, <2>1 DEF TypeOK, Sections, Sheltered
  <2>k. ASSUME NEW p \in Sheltered(t)', ReportedCurrent(t, p)'
        PROVE  gen[t] # 0 /\ p \in pages[t] /\ p \in Page /\ p \in HandSheltered
    <3>1. gen[t] # 0 /\ p \in pages[t] /\ p \in Page
      BY <2>1, <2>3, <2>k DEF ReportedCurrent, TypeOK
    <3>2. QED
      BY <2>3, <2>k, <3>1 DEF Stamped, HandSheltered
  <2>4. \A p \in Sheltered(t)' : ReportedCurrent(t, p)' =>
           /\ seen'[t][p] < mem'[p] => ReportPending(p)
           /\ seen'[t][p] < covered'[p] =>
                /\ pc \in {"begun", "synced"}
                /\ pc = "begun" \/ RegionOf[p] \notin logged \/ p \in bitmap
    BY <2>1, <2>3, <2>k DEF ExposureInv, HandIsSheltered
  <2>5. \A p \in Sheltered(t)' : ReportedCurrent(t, p)' => p \notin written
    BY <2>1, <2>k DEF ExposureInv, HandIsSheltered
  <2>6. Visited' = Visited /\ Visited \subseteq live /\ (pc # "clear" => Visited = {})
    BY <2>1 DEF Visited
  <2>7. \A u \in live, p \in Page : u # t => (ReportedCurrent(u, p)' <=> ReportedCurrent(u, p))
    BY <2>1, <2>2 DEF ReportedCurrent
  <2>8. \A u \in live : Sheltered(u) \subseteq Page
    BY ShelteredPages
  <2>9. \A p \in Page : ReportPending(p)' <=> ReportPending(p)
    BY <2>1 DEF ReportPending
  <2>10. NoStoreLostUnexposed'
    BY <1>a, <2>1, <2>2, <2>k, <2>4, <2>7, <2>8, <2>9 DEF NoStoreLostUnexposed, Lost
  <2>11. ShelteredIsTold'
    BY <1>a, <2>1, <2>2, <2>5, <2>6, <2>7, <2>8 DEF ShelteredIsTold
  <2>12. ShelteredIsFoundOut'
    BY <1>a, <2>1, <2>2, <2>4, <2>6, <2>7, <2>8 DEF ShelteredIsFoundOut
  <2>13. QED
    BY <2>10, <2>11, <2>12
<1>4. ASSUME \/ ExposedCopy \/ ExposedStampNothing
             \/ /\ \/ \E t \in Token : Compare(t)
                   \/ \E t \in Token, max \in 0..Cardinality(Page) : AskWritten(t, max)
                /\ UNCHANGED windowVars
      PROVE  Goal
  <2>1. UNCHANGED <<live, pages, page_gen, logged, pc, todo, written, host, ram, mem, log,
                    bitmap, stamp, seen, covered, raced, late, overtaken>>
    BY <1>4 DEF ExposedCopy, Copy, ExposedStampNothing, StampNothing, Compare, AskWritten
  <2>2. QED
    BY <1>a, <2>1 DEF NoStoreLostUnexposed, Lost, ShelteredIsTold, ShelteredIsFoundOut,
     Sheltered, Visited, ReportedCurrent, ReportPending
<1>5. ASSUME HarvestBegin, UNCHANGED windowVars
      PROVE  Goal
  BY <1>a, <1>5 DEF HarvestBegin, NoStoreLostUnexposed, Lost, ShelteredIsTold, ShelteredIsFoundOut,
     Sheltered, Visited, ReportedCurrent, ReportPending
<1>6. ASSUME HarvestSync, UNCHANGED windowVars
      PROVE  Goal
  <2>1. /\ pc = "begun" /\ pc' = "synced"
        /\ bitmap' = bitmap \cup log
        /\ UNCHANGED <<live, pages, page_gen, logged, todo, written, host, ram, mem,
                       log, stamp, seen, covered>>
    BY <1>6 DEF HarvestSync
  <2>2. \A t \in live : \A p \in Sheltered(t) :
           seen[t][p] < covered[p] => seen[t][p] < mem[p]
    BY DEF TypeOK, Bookkeeping, Sheltered
  <2>3. QED
    BY <1>a, <1>6, <2>1, <2>2 DEF NoStoreLostUnexposed, Lost, ShelteredIsTold, ShelteredIsFoundOut,
     Sheltered, Visited, ReportedCurrent, ReportPending
<1>7. ASSUME HarvestLock, UNCHANGED windowVars
      PROVE  Goal
  BY <1>a, <1>7 DEF HarvestLock, NoStoreLostUnexposed, Lost, ShelteredIsTold, ShelteredIsFoundOut,
     Sheltered, Visited, ReportedCurrent, ReportPending
<1>8. ASSUME NEW t \in Token, ExposedVisit(t)
      PROVE  Goal
  <2>1. /\ t \in live /\ t \in todo
        /\ pc = "fold"
        /\ todo' = todo \ {t}
        /\ page_gen' = [page_gen EXCEPT ![t] = NextPageGen(t)]
        /\ written' = written \cup BitSet(t)
        /\ UNCHANGED <<live, pages, logged, pc, host, ram, mem, log, bitmap, stamp, seen,
                       covered>>
    BY <1>8 DEF ExposedVisit, HarvestSet, Bookkeeping
  <2>2. /\ page_gen'[t] = NextPageGen(t)
        /\ \A u \in live : u # t => page_gen'[u] = page_gen[u]
    BY <2>1 DEF TypeOK
  <2>3. ASSUME NEW p \in pages[t], ReportedCurrent(t, p)'
        PROVE  /\ ReportedCurrent(t, p)
               /\ RegionOf[p] \in logged /\ p \notin bitmap
    <3>1. stamp[t] # 0 /\ NextPageGen(t)[p] <= stamp[t]
      BY <2>1, <2>2, <2>3 DEF ReportedCurrent
    <3>2. QED
      BY <2>1, <3>1, VisitTells
  <2>4. BitSet(t) \subseteq bitmap /\ BitSet(t) \subseteq pages[t]
    BY DEF BitSet
  <2>5. \A u \in live : u # t => \A p \in pages[u] :
           ReportedCurrent(u, p)' <=> ReportedCurrent(u, p)
    BY <2>1, <2>2 DEF ReportedCurrent
  <2>6. \A u \in live : Sheltered(u)' = Sheltered(u) /\ Sheltered(u) \subseteq pages[u]
    BY <1>8, <2>1 DEF ExposedVisit, Sheltered
  <2>7. Visited = live \ todo /\ Visited' = Visited \cup {t} /\ t \notin Visited
    BY <2>1 DEF Visited
  <2>8. NoStoreLostUnexposed'
    BY <1>a, <2>1, <2>3, <2>5, <2>6 DEF NoStoreLostUnexposed, Lost, ReportPending
  <2>9. written \subseteq bitmap
    BY <1>s, <2>1 DEF Sections
  <2>10. ShelteredIsTold'
    BY <1>a, <2>1, <2>3, <2>4, <2>5, <2>6, <2>7, <2>9 DEF ShelteredIsTold
  <2>11. ShelteredIsFoundOut'
    BY <1>a, <2>1, <2>3, <2>5, <2>6, <2>7 DEF ShelteredIsFoundOut
  <2>12. QED
    BY <2>8, <2>10, <2>11
<1>9. ASSUME HarvestUnlock, UNCHANGED windowVars
      PROVE  Goal
  BY <1>a, <1>9 DEF HarvestUnlock, NoStoreLostUnexposed, Lost, ShelteredIsTold, ShelteredIsFoundOut,
     Sheltered, Visited, ReportedCurrent, ReportPending
<1>10. ASSUME NEW p \in Page, HarvestClear(p), UNCHANGED windowVars
       PROVE  Goal
  <2>1. /\ pc = "clear" /\ p \in written
        /\ written' = written \ {p}
        /\ bitmap' = bitmap \ {p}
        /\ log' = log \ {p}
        /\ UNCHANGED <<live, pages, page_gen, logged, pc, todo, host, ram, mem, stamp,
                       seen, covered>>
    BY <1>10 DEF HarvestClear
  <2>2. Visited = live /\ Visited' = live
    BY <2>1 DEF Visited
  <2>3. \A t \in live : p \in Sheltered(t) => ~ReportedCurrent(t, p)
    BY <1>a, <2>1, <2>2
  <2>4. \A t \in live : Sheltered(t)' = Sheltered(t)
    BY <1>10, <2>1 DEF Sheltered
  <2>5. QED
    BY <1>a, <2>1, <2>2, <2>3, <2>4 DEF NoStoreLostUnexposed, Lost, ShelteredIsTold,
       ShelteredIsFoundOut, ReportedCurrent, ReportPending
<1>11. ASSUME HarvestEnd, UNCHANGED windowVars
       PROVE  Goal
  <2>1. /\ pc = "clear" /\ pc' = "idle"
        /\ log \subseteq log'
        /\ UNCHANGED <<live, pages, page_gen, todo, written, host, ram, mem, bitmap,
                       stamp, seen, covered, alive>>
    BY <1>11 DEF HarvestEnd
  <2>2. Visited = live /\ Visited' = {}
    BY <2>1 DEF Visited
  <2>3. alive
    BY <2>1 DEF Bookkeeping
  <2>4. \A p \in Page : ReportPending(p) => ReportPending(p)'
    BY <1>s, <2>1, <2>3 DEF ReportPending, Sections
  <2>5. \A t \in live : Sheltered(t)' = Sheltered(t) /\ Sheltered(t) \subseteq Page
    BY <1>11, <2>1, ShelteredPages DEF Sheltered
  <2>6. \A t \in live, p \in Page : ReportedCurrent(t, p)' <=> ReportedCurrent(t, p)
    BY <2>1 DEF ReportedCurrent
  <2>7. NoStoreLostUnexposed'
    BY <1>a, <2>1, <2>4, <2>5, <2>6 DEF NoStoreLostUnexposed, Lost
  <2>8. ShelteredIsTold' /\ ShelteredIsFoundOut'
    BY <1>a, <2>1, <2>2, <2>5, <2>6 DEF ShelteredIsTold, ShelteredIsFoundOut
  <2>9. QED
    BY <2>7, <2>8
<1>12. ASSUME Free, UNCHANGED windowVars
       PROVE  Goal
  BY <1>12 DEF Free, NoStoreLostUnexposed, Lost, ShelteredIsTold, ShelteredIsFoundOut, Visited
<1>13. ASSUME NEW p \in Page, ExposedStore(p)
       PROVE  Goal
  <2>1. /\ mem' = [mem EXCEPT ![p] = @ + 1]
        /\ bitmap \subseteq bitmap' /\ bitmap' \subseteq bitmap \cup {p}
        /\ ~BitmapIsLive => bitmap' = bitmap
        /\ log \subseteq log'
        /\ RegionOf[p] \in logged => p \in bitmap' \cup log'
        /\ UNCHANGED <<live, pages, page_gen, logged, pc, todo, written, host, ram,
                       stamp, seen, covered>>
    BY <1>13 DEF ExposedStore, GuestStore
  <2>2. \A q \in Page : q # p => mem'[q] = mem[q]
    BY <2>1 DEF TypeOK
  <2>3. \A t \in live : /\ Sheltered(t)' \subseteq Sheltered(t)
                        /\ Sheltered(t) \subseteq Page
                        /\ t \in Overtaken(p) => p \notin Sheltered(t)'
    <3>1. /\ raced' = raced /\ late' = late
          /\ \A t \in live : t \in Token /\ overtaken'[t] = IF t \in Overtaken(p)
                                       THEN overtaken[t] \cup {p} ELSE overtaken[t]
      BY <1>13 DEF ExposedStore, TypeOK
    <3>2. QED
      BY <2>1, <3>1, ShelteredPages DEF Sheltered
  <2>4. \A t \in live, q \in Page : ReportedCurrent(t, q)' <=> ReportedCurrent(t, q)
    BY <2>1 DEF ReportedCurrent
  <2>5. Visited' = Visited /\ Visited \subseteq live
    BY <2>1 DEF Visited
  <2>6. ReportPending(p)' /\ \A q \in Page : ReportPending(q) => ReportPending(q)'
    BY <2>1 DEF ReportPending
  <2>7. NoStoreLostUnexposed'
    BY <1>a, <2>1, <2>2, <2>3, <2>4, <2>6 DEF NoStoreLostUnexposed, Lost
  <2>8. ShelteredIsTold'
    <3> SUFFICES ASSUME NEW t \in Visited, NEW q \in Sheltered(t)', ReportedCurrent(t, q)'
                 PROVE  /\ q \notin written
                        /\ pc = "fold" =>
                             q \notin bitmap' \/ \A u \in todo : q \notin pages[u]
      BY <2>1, <2>5 DEF ShelteredIsTold
    <3>1. t \in live /\ q \in Sheltered(t) /\ q \in Page /\ ReportedCurrent(t, q)
      BY <2>3, <2>4, <2>5
    <3>2. CASE q \in bitmap' /\ q \notin bitmap /\ pc = "fold"
      <4>1. q = p /\ BitmapIsLive /\ q \in pages[t]
        BY <2>1, <3>1, <3>2 DEF Sheltered
      <4>2. t \notin Overtaken(p)
        BY <2>3, <3>1, <4>1
      <4>3. \A u \in todo : q \notin pages[u]
        BY <3>1, <3>2, <4>1, <4>2 DEF Overtaken
      <4>4. QED
        BY <1>a, <3>1, <4>3
    <3>3. QED
      BY <1>a, <2>1, <3>1, <3>2
  <2>9. ShelteredIsFoundOut'
    BY <1>a, <2>1, <2>3, <2>4, <2>5 DEF ShelteredIsFoundOut
  <2>10. QED
    BY <2>7, <2>8, <2>9
<1>14. ASSUME NEW p \in Remappable, Remap(p), UNCHANGED windowVars
       PROVE  Goal
  BY <1>a, <1>14 DEF Remap, NoStoreLostUnexposed, Lost, ShelteredIsTold, ShelteredIsFoundOut,
     Sheltered, Visited, ReportedCurrent, ReportPending
<1>15. ASSUME UNCHANGED exposureVars
       PROVE  Goal
  BY <1>a, <1>15 DEF exposureVars, vars, NoStoreLostUnexposed, Lost, ShelteredIsTold, ShelteredIsFoundOut,
     Sheltered, Visited, ReportedCurrent, ReportPending
<1>16. QED
  BY <1>1, <1>2, <1>3, <1>4, <1>5, <1>6, <1>7, <1>8, <1>9, <1>10, <1>11, <1>12, <1>13,
     <1>14, <1>15 DEF ExposedNext, Unexposing, Harvest

\* The copy in hand, one step at a time: nothing of it that is sheltered is cleared, and
\* a store it misses keeps its report until a set asked for the generation could tell.
LEMMA HandShelterStep ==
    ASSUME TypeOK, TypeOK', Bookkeeping, Sections, HandIsSheltered,
           [ExposedNext]_exposureVars
    PROVE  HandIsSheltered'
<1> USE TrackerAssumption
<1> USE DEF setVars, harvestVars, machineVars, readerVars, windowVars
<1> SUFFICES ASSUME copying'
             PROVE  HandIsSheltered'
  BY DEF HandIsSheltered
<1>a. ASSUME copying
      PROVE  /\ \A p \in written : p \notin HandSheltered
             /\ \A p \in HandSheltered : hand[p] < mem[p] => ReportPending(p)
             /\ \A p \in HandSheltered : hand[p] < covered[p] =>
                  \/ pc = "begun"
                  \/ /\ RegionOf[p] \notin logged \/ p \in bitmap
                     /\ \A t \in live : p \in pages[t] =>
                          \/ gen[t] = 0
                          \/ pc = "synced"
                          \/ pc = "fold" /\ t \in todo
  BY <1>a DEF HandIsSheltered
<1>p. HandSheltered \subseteq Page
  BY DEF HandSheltered
<1>1. CASE ExposedCopy
  <2>1. /\ hand' = mem /\ handRaced' = written /\ handLate' = {}
        /\ UNCHANGED <<mem, covered, written>>
    BY <1>1 DEF ExposedCopy, Copy
  <2>2. HandSheltered' = Page \ written
    BY <2>1 DEF HandSheltered
  <2>3. \A p \in Page : ~(mem[p] < mem[p]) /\ ~(mem[p] < covered[p])
    BY DEF TypeOK, Bookkeeping
  <2>4. QED
    BY <2>1, <2>2, <2>3 DEF HandIsSheltered
<1>2. ASSUME NEW t \in Token, ExposedVisit(t)
      PROVE  HandIsSheltered'
  <2>1. /\ copying /\ t \in live /\ t \in todo /\ pc = "fold"
        /\ todo' = todo \ {t}
        /\ gen' = [gen EXCEPT ![t] = NextGen(t)]
        /\ written' = written \cup BitSet(t)
        /\ handLate' = handLate \cup Hit(t)
        /\ UNCHANGED <<live, pages, logged, pc, host, ram, mem, log, bitmap, hand,
                       covered, handRaced>>
    BY <1>2 DEF ExposedVisit, HarvestSet, Bookkeeping
  <2>2. HandSheltered' = HandSheltered \ Hit(t) /\ BitSet(t) \subseteq Hit(t)
    BY <2>1 DEF HandSheltered, Hit
  <2>3. \A p \in pages[t] : p \notin Hit(t) => RegionOf[p] \in logged /\ p \notin bitmap
    BY DEF Hit, NoSlice, Unlogged, BitSet
  <2>4. \A u \in live : u # t => gen'[u] = gen[u]
    BY <2>1 DEF TypeOK
  <2>5. \A p \in written' : p \notin HandSheltered'
    BY <1>a, <2>1, <2>2
  <2>6. \A p \in Page : ReportPending(p)' <=> ReportPending(p)
    BY <2>1 DEF ReportPending
  <2>7. \A p \in HandSheltered' : hand'[p] < mem'[p] => ReportPending(p)'
    BY <1>a, <1>p, <2>1, <2>2, <2>6
  <2>8. ASSUME NEW p \in HandSheltered', hand'[p] < covered'[p]
        PROVE  /\ RegionOf[p] \notin logged' \/ p \in bitmap'
               /\ \A u \in live' : p \in pages'[u] =>
                    gen'[u] = 0 \/ (pc' = "fold" /\ u \in todo')
    <3>1. /\ RegionOf[p] \notin logged \/ p \in bitmap
          /\ \A u \in live : p \in pages[u] => gen[u] = 0 \/ u \in todo
      BY <1>a, <2>1, <2>2, <2>8
    <3>2. p \notin pages[t]
      BY <2>2, <2>3, <2>8, <3>1
    <3>3. QED
      BY <2>1, <2>4, <3>1, <3>2
  <2>9. QED
    BY <2>5, <2>7, <2>8 DEF HandIsSheltered
<1>3. ASSUME NEW p \in Page, ExposedStore(p)
      PROVE  HandIsSheltered'
  <2>1. /\ copying
        /\ mem' = [mem EXCEPT ![p] = @ + 1]
        /\ bitmap \subseteq bitmap' /\ log \subseteq log'
        /\ RegionOf[p] \in logged => p \in bitmap' \cup log'
        /\ UNCHANGED <<live, pages, gen, logged, pc, todo, written, hand, covered,
                       handRaced, handLate>>
    BY <1>3 DEF ExposedStore, GuestStore
  <2>2. \A q \in Page : q # p => mem'[q] = mem[q]
    BY <2>1 DEF TypeOK
  <2>3. ReportPending(p)' /\ \A q \in Page : ReportPending(q) => ReportPending(q)'
    BY <2>1 DEF ReportPending
  <2>4. HandSheltered' = HandSheltered
    BY <2>1 DEF HandSheltered
  <2>5. \A q \in HandSheltered' : hand'[q] < mem'[q] => ReportPending(q)'
    BY <1>a, <1>p, <2>1, <2>2, <2>3, <2>4
  <2>6. QED
    BY <1>a, <2>1, <2>4, <2>5 DEF HandIsSheltered
<1>4. ASSUME NEW P \in SUBSET Page, Track(P), UNCHANGED windowVars
      PROVE  HandIsSheltered'
  <2> DEFINE n == next_token + 1
  <2>1. n \in Token
    BY <1>4 DEF Track, Token, TypeOK
  <2>2. /\ copying /\ pc # "fold"
        /\ live' = live \cup {n}
        /\ pages' = [pages EXCEPT ![n] = P]
        /\ gen' = [gen EXCEPT ![n] = 0]
        /\ UNCHANGED <<logged, pc, todo, written, mem, log, bitmap, hand, covered>>
    BY <1>4 DEF Track, ReaderMayRun
  <2> HIDE DEF n
  <2>3. gen'[n] = 0 /\ \A u \in live : u # n => gen'[u] = gen[u] /\ pages'[u] = pages[u]
    BY <2>1, <2>2 DEF TypeOK
  <2>4. HandSheltered' = HandSheltered
    BY <1>4 DEF HandSheltered
  <2>5. QED
    BY <1>a, <2>2, <2>3, <2>4 DEF HandIsSheltered, ReportPending
<1>5. ASSUME NEW t \in Token, ExposedUntrack(t)
      PROVE  HandIsSheltered'
  <2>1. /\ copying
        /\ live' = live \ {t}
        /\ pages' = [pages EXCEPT ![t] = {}]
        /\ gen' = [gen EXCEPT ![t] = 0]
        /\ UNCHANGED <<logged, pc, todo, written, mem, log, bitmap, hand, covered,
                       handRaced, handLate>>
    BY <1>5 DEF ExposedUntrack, Untrack
  <2>2. \A u \in live' : u \in live /\ gen'[u] = gen[u] /\ pages'[u] = pages[u]
    BY <2>1 DEF TypeOK
  <2>3. HandSheltered' = HandSheltered
    BY <2>1 DEF HandSheltered
  <2>4. QED
    BY <1>a, <2>1, <2>2, <2>3 DEF HandIsSheltered, ReportPending
<1>6. ASSUME HarvestBegin, UNCHANGED windowVars
      PROVE  HandIsSheltered'
  BY <1>a, <1>6 DEF HarvestBegin, HandIsSheltered, HandSheltered, ReportPending
<1>7. ASSUME HarvestSync, UNCHANGED windowVars
      PROVE  HandIsSheltered'
  <2>1. /\ copying /\ pc = "begun" /\ pc' = "synced" /\ bitmap' = bitmap \cup log
        /\ UNCHANGED <<live, pages, gen, logged, todo, written, mem, log, hand, covered>>
    BY <1>7 DEF HarvestSync
  <2>2. \A p \in HandSheltered : hand[p] < covered[p] => hand[p] < mem[p]
    BY <1>p DEF TypeOK, Bookkeeping
  <2>3. HandSheltered' = HandSheltered
    BY <1>7 DEF HandSheltered
  <2>4. QED
    BY <1>a, <2>1, <2>2, <2>3 DEF HandIsSheltered, ReportPending
<1>8. ASSUME HarvestLock \/ HarvestUnlock, UNCHANGED windowVars
      PROVE  HandIsSheltered'
  BY <1>a, <1>8 DEF HarvestLock, HarvestUnlock, HandIsSheltered, HandSheltered, ReportPending
<1>9. ASSUME NEW p \in Page, HarvestClear(p), UNCHANGED windowVars
      PROVE  HandIsSheltered'
  <2>1. /\ copying /\ pc = "clear" /\ p \in written /\ written' = written \ {p}
        /\ bitmap' = bitmap \ {p} /\ log' = log \ {p}
        /\ UNCHANGED <<live, pages, gen, logged, pc, todo, mem, hand, covered>>
    BY <1>9 DEF HarvestClear
  <2>2. HandSheltered' = HandSheltered /\ p \notin HandSheltered
    BY <1>a, <1>9, <2>1 DEF HandSheltered
  <2>3. QED
    BY <1>a, <2>1, <2>2 DEF HandIsSheltered, ReportPending
<1>10. ASSUME HarvestEnd, UNCHANGED windowVars
       PROVE  HandIsSheltered'
  <2>1. /\ copying /\ pc = "clear" /\ pc' = "idle" /\ log \subseteq log'
        /\ UNCHANGED <<live, pages, gen, todo, written, mem, bitmap, hand, covered>>
    BY <1>10 DEF HarvestEnd
  <2>2. alive
    BY <2>1 DEF Bookkeeping
  <2>3. \A p \in Page : /\ ReportPending(p) => ReportPending(p)'
                        /\ RegionOf[p] \notin logged \/ p \in bitmap => p \in bitmap'
    BY <2>1, <2>2 DEF ReportPending, Sections
  <2>4. HandSheltered' = HandSheltered
    BY <1>10 DEF HandSheltered
  <2>5. QED
    BY <1>a, <1>p, <2>1, <2>3, <2>4 DEF HandIsSheltered
<1>11. ASSUME NEW p \in Remappable, Remap(p), UNCHANGED windowVars
       PROVE  HandIsSheltered'
  BY <1>a, <1>11 DEF Remap, HandIsSheltered, HandSheltered, ReportPending
<1>12. ASSUME \/ \E t \in Token : Compare(t)
              \/ \E t \in Token, max \in 0..Cardinality(Page) : AskWritten(t, max),
              UNCHANGED windowVars
       PROVE  HandIsSheltered'
  <2>1. UNCHANGED <<live, pages, gen, logged, pc, todo, written, mem, log, bitmap,
                    copying, hand, covered>>
    BY <1>12 DEF Compare, AskWritten
  <2>2. QED
    BY <1>a, <1>12, <2>1 DEF HandIsSheltered, HandSheltered, ReportPending
<1>13. ASSUME UNCHANGED exposureVars
       PROVE  HandIsSheltered'
  BY <1>a, <1>13 DEF exposureVars, vars, HandIsSheltered, HandSheltered, ReportPending
<1>14. ASSUME \/ Free \/ ExposedStampNothing
              \/ \E t \in Token : ExposedStamp(t)
       PROVE  FALSE
  BY <1>14 DEF Free, ExposedStampNothing, StampNothing, ExposedStamp, Stamp
<1>15. QED
  BY <1>1, <1>2, <1>3, <1>4, <1>5, <1>6, <1>7, <1>8, <1>9, <1>10, <1>11, <1>12, <1>13,
     <1>14 DEF ExposedNext, Unexposing

\* The invariant holds in every reachable state of every host.
THEOREM ExposureInvariance == ExposedSpec => []ExposureInv
<1>1. ExposedInit => ExposureInv
  <2> SUFFICES ASSUME ExposedInit
               PROVE  ExposureInv
    OBVIOUS
  <2>1. live = {} /\ written = {} /\ pc = "idle" /\ bitmap = Page /\ copying = FALSE
    BY DEF ExposedInit, Init
  <2>2. /\ raced = NoWindow /\ late = NoWindow /\ overtaken = NoWindow
        /\ handRaced = {} /\ handLate = {}
    BY DEF ExposedInit
  <2>3. Sections
    BY <2>1, <2>2 DEF Sections, NoWindow
  <2>4. QED
    BY <2>1, <2>3 DEF ExposureInv, NoStoreLostUnexposed, ShelteredIsTold,
       ShelteredIsFoundOut, HandIsSheltered, Visited
<1>2. IndInv /\ IndInv' /\ ExposureInv /\ [ExposedNext]_exposureVars => ExposureInv'
  <2> SUFFICES ASSUME IndInv, IndInv', ExposureInv, [ExposedNext]_exposureVars
               PROVE  ExposureInv'
    OBVIOUS
  <2>1. TypeOK /\ TypeOK' /\ Bookkeeping /\ HandLine
    BY DEF IndInv
  <2>2. Sections'
    BY <2>1, SectionsStep DEF ExposureInv
  <2>3. QED
    BY <2>1, <2>2, ShelterStep, HandShelterStep DEF ExposureInv
<1>3. QED
  BY <1>1, <1>2, ExposureOnlyWatches, Invariance, PTL DEF ExposedSpec

\* On every host, with any page sets, regions and bounds, a store is lost to a copy only
\* if the copy was made of a page waiting to be cleared, or the page was reported between
\* the copy and the reading of its generation, or the store overtook the visit of its set.
THEOREM LostOnlyInAWindow == ExposedSpec => []NoStoreLostUnexposed
<1>1. ExposureInv => NoStoreLostUnexposed
  BY DEF ExposureInv
<1>2. QED
  BY <1>1, ExposureInvariance, PTL

\* Every harvest that is not skipped delivers, on every host, to every copy that met
\* none of the windows.
THEOREM HarvestDeliversUnexposed == ExposedSpec => []HandoffObservedUnexposed
<1>1. TypeOK /\ ExposureInv => HandoffObservedUnexposed
  <2> SUFFICES ASSUME TypeOK, ExposureInv, pc = "idle",
                      NEW t \in live, NEW p \in Sheltered(t), ReportedCurrent(t, p)
               PROVE  seen[t][p] >= covered[p]
    BY DEF HandoffObservedUnexposed
  <2>1. ~(seen[t][p] < covered[p])
    BY DEF ExposureInv, ShelteredIsFoundOut
  <2>2. seen[t][p] \in Nat /\ covered[p] \in Nat
    BY ShelteredPages DEF TypeOK
  <2>3. QED
    BY <2>1, <2>2
<1>2. IndInv => TypeOK
  BY DEF IndInv
<1>3. QED
  BY <1>1, <1>2, ExposureInvariance, ExposureOnlyWatches, Invariance, PTL

\* Each window needs its kind of host: where the readers hold the BQL no copy meets the
\* first two, where the bitmap moves only at a sync none meets the third, and where both
\* hold there is no window at all.
THEOREM WindowsNeedTheirHost ==
    ExposedSpec => []( /\ ReadersHoldBQL => \A t \in Token : raced[t] = {} /\ late[t] = {}
                       /\ ~BitmapIsLive => \A t \in Token : overtaken[t] = {} )
<1>1. ExposureInv =>
        /\ ReadersHoldBQL => \A t \in Token : raced[t] = {} /\ late[t] = {}
        /\ ~BitmapIsLive => \A t \in Token : overtaken[t] = {}
  BY DEF ExposureInv, Sections
<1>2. QED
  BY <1>1, ExposureInvariance, PTL
=============================================================================
