------------------------- MODULE WriteWitnessProofs -------------------------
(***************************************************************************)
(* The tracker implements WriteWitness wherever the readers hold the BQL   *)
(* and the bitmap moves only at a sync: the argument of DirtyTrackerProofs *)
(* carried over to an abstract specification.                              *)
(***************************************************************************)
EXTENDS DirtyTrackerProofs

\* What is current for a token depends on four fields of it alone.
LEMMA CurrentPagesOf ==
    ASSUME NEW t \in Token
    PROVE  CurrentPages[t] = {p \in pages[t] : t \in live /\ ReportedCurrent(t, p)}
BY DEF CurrentPages

\* A step that touches neither the sets, nor the stamps, nor a page stamp leaves
\* every report as it was.
LEMMA CurrentPagesFrame ==
    ASSUME UNCHANGED <<live, pages, page_gen, stamp>>
    PROVE  CurrentPages' = CurrentPages
BY DEF CurrentPages, ReportedCurrent

\* A step that touches one token changes what is current for that token only.
LEMMA CurrentPagesOfOthers ==
    ASSUME NEW t \in Token,
           \A u \in Token \ {t} : /\ u \in live' <=> u \in live
                                  /\ pages'[u] = pages[u]
                                  /\ page_gen'[u] = page_gen[u]
                                  /\ stamp'[u] = stamp[u]
    PROVE  CurrentPages' = [CurrentPages EXCEPT ![t] = CurrentPages'[t]]
<1>1. \A u \in Token \ {t} : CurrentPages'[u] = CurrentPages[u]
  BY DEF CurrentPages, ReportedCurrent
<1>2. DOMAIN CurrentPages = Token /\ DOMAIN CurrentPages' = Token
  BY DEF CurrentPages
<1>3. CurrentPages = [u \in Token |-> CurrentPages[u]]
  BY DEF CurrentPages
<1>4. CurrentPages' = [u \in Token |-> CurrentPages'[u]]
  BY DEF CurrentPages
<1>5. QED
  BY <1>1, <1>2, <1>3, <1>4

\* Visiting a set never makes a page of its copy current again: the stamp a page
\* gets is later than any generation a reader can have recorded.
LEMMA VisitOnlyReports ==
    ASSUME TypeOK, Bookkeeping, NEW t \in Token, HarvestSet(t)
    PROVE  CurrentPages'[t] \subseteq CurrentPages[t]
<1> USE DEF setVars, harvestVars, machineVars, readerVars
<1>1. /\ t \in live
      /\ page_gen' = [page_gen EXCEPT ![t] = NextPageGen(t)]
      /\ UNCHANGED <<live, pages, stamp>>
  BY DEF HarvestSet, Bookkeeping
<1>2. page_gen'[t] = NextPageGen(t)
  BY <1>1 DEF TypeOK
<1>3. ASSUME NEW p \in pages[t], stamp[t] # 0, NextPageGen(t)[p] <= stamp[t]
      PROVE  page_gen[t][p] <= stamp[t]
  <2>1. p \in Page /\ stamp[t] \in Nat /\ gen[t] \in Nat /\ stamp[t] <= gen[t]
    BY <1>1 DEF TypeOK, Bookkeeping
  <2>2. gen[t] # 0
    BY <1>3, <2>1
  <2>3. ASSUME p \in Hit(t)
        PROVE  FALSE
    <3>1. NextPageGen(t)[p] = gen[t] + 1
      BY <1>1, <2>2, <2>3, VisitMovesGen
    <3>2. QED
      BY <1>3, <2>1, <3>1
  <2>4. NextPageGen(t)[p] = page_gen[t][p]
    BY <2>1, <2>3 DEF NextPageGen
  <2>5. QED
    BY <1>3, <2>4
<1>4. CurrentPages'[t] = {p \in pages[t] : stamp[t] # 0 /\ NextPageGen(t)[p] <= stamp[t]}
  BY <1>1, <1>2 DEF CurrentPages, ReportedCurrent
<1>5. CurrentPages[t] = {p \in pages[t] : stamp[t] # 0 /\ page_gen[t][p] <= stamp[t]}
  BY <1>1 DEF CurrentPages, ReportedCurrent
<1>6. QED
  BY <1>3, <1>4, <1>5

\* A freshly started tracker is a freshly started witness.
LEMMA WitnessInit == Init => Witness!Init
<1> SUFFICES ASSUME Init
             PROVE  Witness!Init
  OBVIOUS
<1>1. CurrentPages = [t \in Token |-> {}]
  BY DEF Init, CurrentPages
<1>2. QED
  BY <1>1 DEF Init, NoPages, Witness!Init, Witness!Untouched

\* One step of the tracker is one step of the witness, or leaves it alone.
LEMMA WitnessStep ==
    ASSUME IndInv, SafeHost, [Next]_vars
    PROVE  [Witness!Next]_(Witness!vars)
<1> USE TrackerAssumption
<1> USE DEF setVars, harvestVars, machineVars, readerVars
<1>t. TypeOK /\ Bookkeeping
  BY DEF IndInv
<1>c. CurrentPages \in [Token -> SUBSET Page]
  BY <1>t DEF CurrentPages, TypeOK
<1>s. ASSUME UNCHANGED <<live, pages, page_gen, stamp, mem, seen, covered>>,
             (pc # "idle")' <=> (pc # "idle")
      PROVE  UNCHANGED Witness!vars
  BY <1>s, CurrentPagesFrame DEF Witness!vars
<1>1. ASSUME NEW P \in SUBSET Page, Track(P)
      PROVE  UNCHANGED Witness!vars
  <2> DEFINE n == next_token + 1
  <2>1. n \in Token /\ n \notin live /\ stamp[n] = 0
    BY <1>1, <1>t DEF Track, Token, TypeOK, Bookkeeping, ReaderMayRun
  <2>2. /\ live' = live \cup {n}
        /\ pages' = [pages EXCEPT ![n] = P]
        /\ page_gen' = [page_gen EXCEPT ![n] = NoPages]
        /\ UNCHANGED <<stamp, mem, seen, covered, pc>>
    BY <1>1 DEF Track
  <2> HIDE DEF n
  <2>3. CurrentPages[n] = {} /\ CurrentPages'[n] = {}
    BY <2>1, <2>2 DEF CurrentPages, ReportedCurrent
  <2>4. \A u \in Token \ {n} : /\ u \in live' <=> u \in live
                               /\ pages'[u] = pages[u]
                               /\ page_gen'[u] = page_gen[u]
                               /\ stamp'[u] = stamp[u]
    BY <1>t, <2>1, <2>2 DEF TypeOK
  <2>5. CurrentPages' = CurrentPages
    <3>1. CurrentPages' = [CurrentPages EXCEPT ![n] = CurrentPages'[n]]
      BY <2>1, <2>4, CurrentPagesOfOthers
    <3>2. CurrentPages' = [CurrentPages EXCEPT ![n] = CurrentPages[n]]
      BY <2>3, <3>1
    <3>3. QED
      BY <1>c, <2>1, <3>2
  <2>6. QED
    BY <2>2, <2>5 DEF Witness!vars
<1>2. ASSUME NEW t \in Token, Untrack(t)
      PROVE  Witness!Drop(t)
  <2>1. /\ pc = "idle"
        /\ live' = live \ {t}
        /\ pages' = [pages EXCEPT ![t] = {}]
        /\ page_gen' = [page_gen EXCEPT ![t] = NoPages]
        /\ stamp' = [stamp EXCEPT ![t] = 0]
        /\ seen' = [seen EXCEPT ![t] = NoPages]
        /\ UNCHANGED <<mem, covered, pc>>
    BY <1>2, SafeHostFacts DEF Untrack
  <2>2. CurrentPages'[t] = {}
    BY <2>1 DEF CurrentPages
  <2>3. \A u \in Token \ {t} : /\ u \in live' <=> u \in live
                               /\ pages'[u] = pages[u]
                               /\ page_gen'[u] = page_gen[u]
                               /\ stamp'[u] = stamp[u]
    BY <1>t, <2>1 DEF TypeOK
  <2>4. CurrentPages' = [CurrentPages EXCEPT ![t] = {}]
    BY <2>2, <2>3, CurrentPagesOfOthers
  <2>5. QED
    BY <2>1, <2>4 DEF Witness!Drop, Witness!Untouched, NoPages
<1>3. ASSUME NEW t \in Token, Stamp(t)
      PROVE  \E P \in SUBSET Page : Witness!Take(t, P)
  <2>1. /\ pc = "idle" /\ copying
        /\ stamp' = [stamp EXCEPT ![t] = gen[t]]
        /\ seen' = [seen EXCEPT ![t] = hand]
        /\ UNCHANGED <<live, pages, page_gen, mem, covered, pc>>
    BY <1>3, SafeHostFacts DEF Stamp
  <2>2. \A u \in Token \ {t} : /\ u \in live' <=> u \in live
                               /\ pages'[u] = pages[u]
                               /\ page_gen'[u] = page_gen[u]
                               /\ stamp'[u] = stamp[u]
    BY <1>t, <2>1 DEF TypeOK
  <2>3. CurrentPages' = [CurrentPages EXCEPT ![t] = CurrentPages'[t]]
    BY <2>2, CurrentPagesOfOthers
  <2>4. CurrentPages'[t] \subseteq pages[t] /\ pages[t] \subseteq Page
    BY <1>t, <2>1 DEF CurrentPages, TypeOK
  <2>5. hand \in Witness!Recent
    <3> DEFINE V == UNION {covered[p]..mem[p] : p \in Page}
    <3>1. \A p \in Page : hand[p] \in covered[p]..mem[p]
      <4>1. \A p \in Page : hand[p] >= covered[p] /\ hand[p] <= mem[p]
        BY <2>1 DEF IndInv, HandLine, HandIsWatched
      <4>2. QED
        BY <1>t, <4>1 DEF TypeOK
    <3>2. \A p \in Page : hand[p] \in V
      BY <3>1
    <3>3. hand = [p \in Page |-> hand[p]]
      BY <1>t DEF TypeOK
    <3>4. hand \in [Page -> V]
      BY <3>2, <3>3
    <3>5. QED
      BY <3>1, <3>4 DEF Witness!Recent
  <2>6. Witness!Take(t, CurrentPages'[t])
    BY <2>1, <2>3, <2>5 DEF Witness!Take
  <2>7. QED
    BY <2>4, <2>6
<1>4. ASSUME NEW t \in Token, Compare(t)
      PROVE  UNCHANGED Witness!vars
  BY <1>4, <1>s DEF Compare
<1>5. ASSUME NEW t \in Token, NEW max \in 0..Cardinality(Page), AskWritten(t, max)
      PROVE  UNCHANGED Witness!vars
  BY <1>5, <1>s DEF AskWritten
<1>6. CASE HarvestBegin
  <2>1. /\ pc = "idle" /\ pc' = "begun" /\ covered' = mem
        /\ UNCHANGED <<live, pages, page_gen, stamp, mem, seen>>
    BY <1>6 DEF HarvestBegin
  <2>2. Witness!Ring
    BY <2>1, CurrentPagesFrame DEF Witness!Ring
  <2>3. QED
    BY <2>2 DEF Witness!Next
<1>7. CASE HarvestSync
  BY <1>7, <1>s DEF HarvestSync
<1>8. CASE HarvestLock
  BY <1>8, <1>s DEF HarvestLock
<1>9. ASSUME NEW t \in Token, HarvestSet(t)
      PROVE  \E P \in SUBSET Page : Witness!Report(t, P)
  <2>1. /\ pc = "fold"
        /\ page_gen' = [page_gen EXCEPT ![t] = NextPageGen(t)]
        /\ UNCHANGED <<live, pages, stamp, mem, seen, covered, pc>>
    BY <1>9 DEF HarvestSet
  <2>2. \A u \in Token \ {t} : /\ u \in live' <=> u \in live
                               /\ pages'[u] = pages[u]
                               /\ page_gen'[u] = page_gen[u]
                               /\ stamp'[u] = stamp[u]
    BY <1>t, <2>1 DEF TypeOK
  <2>3. CurrentPages' = [CurrentPages EXCEPT ![t] = CurrentPages'[t]]
    BY <2>2, CurrentPagesOfOthers
  <2> DEFINE P == CurrentPages[t] \ CurrentPages'[t]
  <2>4. CurrentPages'[t] = CurrentPages[t] \ P /\ P \subseteq Page
    BY <1>t, <1>c, <1>9, VisitOnlyReports
  <2>5. Witness!Report(t, P)
    BY <1>c, <2>1, <2>3, <2>4 DEF Witness!Report
  <2>6. QED
    BY <2>4, <2>5
<1>10. CASE HarvestUnlock
  BY <1>10, <1>s DEF HarvestUnlock
<1>11. ASSUME NEW p \in Page, HarvestClear(p)
       PROVE  UNCHANGED Witness!vars
  BY <1>11, <1>s DEF HarvestClear
<1>12. CASE HarvestEnd
  <2>1. /\ pc = "clear" /\ pc' = "idle"
        /\ UNCHANGED <<live, pages, page_gen, stamp, mem, seen, covered>>
    BY <1>12 DEF HarvestEnd
  <2>2. ASSUME NEW t \in Token, NEW p \in CurrentPages[t]
        PROVE  seen[t][p] >= covered[p]
    <3>1. t \in live /\ p \in pages[t] /\ ReportedCurrent(t, p)
      BY <2>2, CurrentPagesOf
    <3>2. ~(seen[t][p] < covered[p])
      BY <2>1, <3>1 DEF IndInv, FoundOut
    <3>3. seen[t][p] \in Nat /\ covered[p] \in Nat
      BY <1>t, <3>1 DEF TypeOK
    <3>4. QED
      BY <3>2, <3>3
  <2>3. Witness!Finish
    BY <2>1, <2>2, CurrentPagesFrame DEF Witness!Finish, Witness!Settled
  <2>4. QED
    BY <2>3 DEF Witness!Next
<1>13. CASE Free
  <2>1. pc = "idle" /\ live' = {} /\ UNCHANGED <<mem, seen, covered, pc>>
    BY <1>13 DEF Free
  <2>2. CurrentPages' = [t \in Token |-> {}]
    BY <2>1 DEF CurrentPages
  <2>3. Witness!Stop
    BY <2>1, <2>2 DEF Witness!Stop
  <2>4. QED
    BY <2>3 DEF Witness!Next
<1>14. ASSUME NEW p \in Page, GuestStore(p)
       PROVE  Witness!Store(p)
  <2>1. /\ mem' = [mem EXCEPT ![p] = @ + 1]
        /\ UNCHANGED <<live, pages, page_gen, stamp, seen, covered, pc>>
    BY <1>14 DEF GuestStore
  <2>2. QED
    BY <2>1, CurrentPagesFrame DEF Witness!Store
<1>15. ASSUME NEW p \in Remappable, Remap(p)
       PROVE  UNCHANGED Witness!vars
  BY <1>15, <1>s DEF Remap
<1>16. CASE Copy \/ StampNothing
  BY <1>16, <1>s DEF Copy, StampNothing
<1>17. CASE UNCHANGED vars
  BY <1>17, <1>s DEF vars
<1>18. QED
  BY <1>1, <1>2, <1>3, <1>4, <1>5, <1>6, <1>7, <1>8, <1>9, <1>10, <1>11, <1>12,
     <1>13, <1>14, <1>15, <1>16, <1>17 DEF Next, Reader, Harvest, Machine, Witness!Next

\* On every host where the readers hold the BQL and the bitmap moves only at a
\* sync, the tracker does what its readers are promised: no handoff ends while a
\* copy missing one of its stores is still reported current.
THEOREM TrackerImplementsWitness == Spec /\ SafeHost => ImplementsWitness
<1>1. Init => Witness!Init
  BY WitnessInit
<1>2. SafeHost /\ [Next]_vars => SafeHost'
  BY HostIsFixed DEF SafeHost, ReadersHoldBQL, BitmapIsLive
<1>3. IndInv /\ SafeHost /\ [Next]_vars => [Witness!Next]_(Witness!vars)
  BY WitnessStep
<1>4. QED
  BY <1>1, <1>2, <1>3, Invariance, PTL DEF Spec, ImplementsWitness, Witness!Spec

\* Every generation past the first was moved by pages that now carry it, on every
\* host: a reader asking page by page is never told less than one comparing
\* generations.
THEOREM MovesAreNamed == Spec => []MovedGenNamesPages
<1>1. Init => MovedGenNamesPages
  BY DEF Init, MovedGenNamesPages
<1>2. IndInv /\ MovedGenNamesPages /\ [Next]_vars => MovedGenNamesPages'
  <2> SUFFICES ASSUME IndInv, MovedGenNamesPages, [Next]_vars
               PROVE  MovedGenNamesPages'
    OBVIOUS
  <2> USE TrackerAssumption
  <2> USE DEF setVars, harvestVars, machineVars, readerVars
  <2>t. TypeOK /\ Bookkeeping
    BY DEF IndInv
  <2>1. ASSUME NEW P \in SUBSET Page, Track(P)
        PROVE  MovedGenNamesPages'
    <3> DEFINE n == next_token + 1
    <3>1. /\ n \in Token
          /\ live' = live \cup {n}
          /\ pages' = [pages EXCEPT ![n] = P]
          /\ page_gen' = [page_gen EXCEPT ![n] = NoPages]
          /\ gen' = [gen EXCEPT ![n] = 0]
      BY <2>1, <2>t DEF Track, Token, TypeOK
    <3> HIDE DEF n
    <3>2. gen'[n] = 0
      BY <3>1, <2>t DEF TypeOK
    <3>3. \A t \in live : t # n => /\ gen'[t] = gen[t]
                                   /\ pages'[t] = pages[t]
                                   /\ page_gen'[t] = page_gen[t]
      BY <3>1, <2>t DEF TypeOK
    <3>4. QED
      BY <3>1, <3>2, <3>3 DEF MovedGenNamesPages
  <2>2. ASSUME NEW u \in Token, Untrack(u)
        PROVE  MovedGenNamesPages'
    BY <2>2, <2>t DEF Untrack, TypeOK, MovedGenNamesPages
  <2>3. ASSUME NEW u \in Token, HarvestSet(u)
        PROVE  MovedGenNamesPages'
    <3>1. /\ u \in live
          /\ gen' = [gen EXCEPT ![u] = NextGen(u)]
          /\ page_gen' = [page_gen EXCEPT ![u] = NextPageGen(u)]
          /\ UNCHANGED <<live, pages>>
      BY <2>3, <2>t DEF HarvestSet, Bookkeeping
    <3>2. /\ gen'[u] = NextGen(u) /\ page_gen'[u] = NextPageGen(u)
          /\ \A t \in live : t # u => gen'[t] = gen[t] /\ page_gen'[t] = page_gen[t]
      BY <2>t, <3>1 DEF TypeOK
    <3>3. gen[u] \in Nat /\ Hit(u) \subseteq pages[u] /\ pages[u] \subseteq Page
      BY <2>t, <3>1 DEF TypeOK, Hit, NoSlice, Unlogged, BitSet
    <3>4. ASSUME NextGen(u) > 1
          PROVE  \E p \in pages[u] : NextPageGen(u)[p] = NextGen(u)
      <4>1. gen[u] # 0
        BY <3>4, <2>t, <3>1 DEF NextGen, ArmAt, TypeOK
      <4>2. NextGen(u) = IF Hit(u) # {} THEN gen[u] + 1 ELSE gen[u]
        BY <2>t, <3>1, <4>1, VisitMovesGen
      <4>3. CASE Hit(u) # {}
        <5>1. PICK p \in Hit(u) : TRUE
          BY <4>3
        <5>2. NextPageGen(u)[p] = gen[u] + 1
          BY <2>t, <3>1, <4>1, <5>1, VisitMovesGen
        <5>3. QED
          BY <3>3, <4>2, <4>3, <5>1, <5>2
      <4>4. CASE Hit(u) = {}
        <5>1. NextGen(u) = gen[u]
          BY <4>2, <4>4
        <5>2. PICK p \in pages[u] : page_gen[u][p] = gen[u]
          BY <3>1, <3>4, <5>1 DEF MovedGenNamesPages
        <5>3. NextPageGen(u)[p] = page_gen[u][p]
          BY <3>3, <4>4, <5>2 DEF NextPageGen
        <5>4. QED
          BY <5>1, <5>2, <5>3
      <4>5. QED
        BY <4>3, <4>4
    <3>5. QED
      BY <3>1, <3>2, <3>4 DEF MovedGenNamesPages
  <2>4. CASE Free
    BY <2>4 DEF Free, MovedGenNamesPages
  <2>5. ASSUME UNCHANGED <<live, pages, gen, page_gen>>
        PROVE  MovedGenNamesPages'
    BY <2>5 DEF MovedGenNamesPages
  <2>6. QED
    BY <2>1, <2>2, <2>3, <2>4, <2>5 DEF Next, Reader, Harvest, Machine, Copy,
       Stamp, StampNothing, Compare, AskWritten, HarvestBegin, HarvestSync, HarvestLock, HarvestUnlock,
       HarvestClear, HarvestEnd, GuestStore, Remap, vars
<1>3. QED
  BY <1>1, <1>2, Invariance, PTL DEF Spec
=============================================================================
