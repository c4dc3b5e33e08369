--------------------------- MODULE DirtyExposure ---------------------------
(***************************************************************************)
(* The tracker on every host, with a record of the copies it may fail.     *)
(*                                                                         *)
(* Three windows can cost a reader a store:                                *)
(*                                                                         *)
(*   - the copy is made of a page the running harvest found written and    *)
(*     has not cleared yet: the clear takes a later store with it;         *)
(*   - the page is reported between the copy and the reading of its        *)
(*     generation: the stamp is a generation that already counts a store   *)
(*     the copy misses;                                                    *)
(*   - where stores set bitmap bits themselves, a store falls between the  *)
(*     visits of two sets that share the page.                             *)
(*                                                                         *)
(* The first two need a reader off the BQL.  History variables remember    *)
(* which pages of which copy met which window.  They change nothing the    *)
(* tracker does; the properties say that a store is lost nowhere else in   *)
(* this model.                                                             *)
(***************************************************************************)
EXTENDS DirtyTracker

VARIABLES
    \* of the copy that has no generation yet
    handRaced,   \* the pages that were waiting to be cleared when it was made
    handLate,    \* the pages reported since it was made
    \* for each token, the pages of its copy that met
    raced,       \* the first window
    late,        \* the second
    overtaken    \* the third

windowVars   == <<handRaced, handLate, raced, late, overtaken>>
exposureVars == <<vars, windowVars>>

NoWindow == [t \in Token |-> {}]

ExposedInit ==
    /\ Init
    /\ handRaced = {} /\ handLate = {}
    /\ raced = NoWindow /\ late = NoWindow /\ overtaken = NoWindow

\* The sets that called their copy of page p current in this visit and will not hear
\* of a store to it now, while one that shares it will, and has it cleared.
Overtaken(p) ==
    {t \in Visited : /\ BitmapIsLive
                     /\ pc = "fold"
                     /\ p \in pages[t]
                     /\ ReportedCurrent(t, p)
                     /\ \E u \in todo : p \in pages[u]}

ExposedCopy ==
    /\ Copy
    /\ handRaced' = written
    /\ handLate' = {}
    /\ UNCHANGED <<raced, late, overtaken>>

\* A report reaches the copy in hand whichever set it was made for.
ExposedVisit(t) ==
    /\ HarvestSet(t)
    /\ handLate' = IF copying THEN handLate \cup Hit(t) ELSE {}
    /\ UNCHANGED <<handRaced, raced, late, overtaken>>

\* A recorded copy starts with what it met in hand.  A set that is not armed gives no
\* stamp to compare.
Stamped(t, P) == {p \in pages[t] \cap P : gen[t] # 0}

ExposedStamp(t) ==
    /\ Stamp(t)
    /\ raced' = [raced EXCEPT ![t] = Stamped(t, handRaced)]
    /\ late' = [late EXCEPT ![t] = Stamped(t, handLate)]
    /\ overtaken' = [overtaken EXCEPT ![t] = {}]
    /\ handRaced' = {} /\ handLate' = {}

ExposedStampNothing ==
    /\ StampNothing
    /\ handRaced' = {} /\ handLate' = {}
    /\ UNCHANGED <<raced, late, overtaken>>

\* An old copy is forgotten with its set.
ExposedUntrack(t) ==
    /\ Untrack(t)
    /\ raced' = [raced EXCEPT ![t] = {}]
    /\ late' = [late EXCEPT ![t] = {}]
    /\ overtaken' = [overtaken EXCEPT ![t] = {}]
    /\ UNCHANGED <<handRaced, handLate>>

ExposedStore(p) ==
    /\ GuestStore(p)
    /\ overtaken' = [t \in Token |-> IF t \in Overtaken(p) THEN overtaken[t] \cup {p}
                                                           ELSE overtaken[t]]
    /\ UNCHANGED <<handRaced, handLate, raced, late>>

\* What opens no window.
Unexposing ==
    /\ \/ \E P \in SUBSET Page : Track(P)
       \/ \E t \in Token : Compare(t)
       \/ \E t \in Token, max \in 0..Cardinality(Page) : AskWritten(t, max)
       \/ HarvestBegin
       \/ HarvestSync
       \/ HarvestLock
       \/ HarvestUnlock
       \/ \E p \in Page : HarvestClear(p)
       \/ HarvestEnd
       \/ Free
       \/ \E p \in Remappable : Remap(p)
    /\ UNCHANGED windowVars

ExposedNext == \/ ExposedCopy
               \/ \E t \in Token : \/ ExposedVisit(t)
                                   \/ ExposedStamp(t)
                                   \/ ExposedUntrack(t)
               \/ ExposedStampNothing
               \/ \E p \in Page : ExposedStore(p)
               \/ Unexposing

ExposedSpec == ExposedInit /\ [][ExposedNext]_exposureVars

----------------------------------------------------------------------------
(***************************************************************************)
(* Properties.                                                             *)
(***************************************************************************)

\* The store a copy misses is lost to it: the copy is reported current, and no
\* report is on its way.
Lost(t, p) == ReportedCurrent(t, p) /\ seen[t][p] < mem[p] /\ ~ReportPending(p)

\* The pages a copy was taken of that met none of the windows.
Sheltered(t) == pages[t] \ (raced[t] \cup late[t] \cup overtaken[t])

\* Whatever the host, the readers' threads, the gap between a copy and its
\* generation and the stores in the middle of a harvest, a copy that is out of date
\* and still reported current has a report on its way, unless it met a window.
NoStoreLostUnexposed ==
    \A t \in live : \A p \in Sheltered(t) : ~Lost(t, p)

\* The promise of the handoff on every host: when a harvest that was not skipped has
\* returned, no copy is reported current that misses a store from before its
\* doorbell, unless the copy met a window.
HandoffObservedUnexposed ==
    pc = "idle" =>
      \A t \in live : \A p \in Sheltered(t) :
         ReportedCurrent(t, p) => seen[t][p] >= covered[p]

\* The first window costs nothing: "every write is observed by some later read", of
\* a copy made between a harvest's reading of a bit and its clearing it.
NoStoreLostToTheClear ==
    \A t \in live : \A p \in pages[t] \ (late[t] \cup overtaken[t]) : ~Lost(t, p)

\* The second window costs nothing: the moment after a surface write, when the
\* generation is read, "is the moment the copy's currency can be pinned".
NoStoreLostToALateStamp ==
    \A t \in live : \A p \in pages[t] \ (raced[t] \cup overtaken[t]) : ~Lost(t, p)

----------------------------------------------------------------------------
(***************************************************************************)
(* The inductive strengthening the proofs use.                             *)
(***************************************************************************)

\* What the harvest carries from section to section on every host.  A RAM block
\* starts with every bit set, and only what is logged is ever cleared.
Sections ==
    /\ raced \in [Token -> SUBSET Page]
    /\ late \in [Token -> SUBSET Page]
    /\ overtaken \in [Token -> SUBSET Page]
    /\ handRaced \subseteq Page /\ handLate \subseteq Page
    /\ ReadersHoldBQL =>
         /\ handRaced = {} /\ handLate = {}
         /\ \A t \in Token : raced[t] = {} /\ late[t] = {}
    /\ ~BitmapIsLive => \A t \in Token : overtaken[t] = {}
    /\ \A p \in Page : alive /\ RegionOf[p] \notin logged => p \in bitmap
    /\ pc = "fold" => written \subseteq bitmap
    /\ \A p \in written : RegionOf[p] \in logged

\* The pages the copy in hand is still owed a report of.
HandSheltered == Page \ (handRaced \cup handLate)

\* A copy in hand that misses a store to a sheltered page will be told of it, whether
\* or not the store is older than the doorbell; and nothing sheltered will be cleared.
HandIsSheltered ==
    copying =>
      /\ \A p \in written : p \notin HandSheltered
      /\ \A p \in HandSheltered : hand[p] < mem[p] => ReportPending(p)
      /\ \A p \in HandSheltered : hand[p] < covered[p] =>
           \/ pc = "begun"
           \/ /\ RegionOf[p] \notin logged \/ p \in bitmap
              /\ \A t \in live : p \in pages[t] =>
                   \/ gen[t] = 0
                   \/ pc = "synced"
                   \/ pc = "fold" /\ t \in todo

\* A set that was visited was told of every page that will be cleared, and no set
\* visited later will add one.
ShelteredIsTold ==
    \A t \in Visited : \A p \in Sheltered(t) : ReportedCurrent(t, p) =>
       /\ p \notin written
       /\ pc = "fold" => p \notin bitmap \/ \A u \in todo : p \notin pages[u]

\* A copy that misses a store older than the doorbell is found out by the time its
\* set is visited.
ShelteredIsFoundOut ==
    \A t \in live : \A p \in Sheltered(t) :
       ReportedCurrent(t, p) /\ seen[t][p] < covered[p] =>
          \/ pc = "begun"
          \/ /\ pc \in {"synced", "fold"}
             /\ t \notin Visited
             /\ RegionOf[p] \notin logged \/ p \in bitmap

ExposureInv ==
    /\ Sections /\ HandIsSheltered
    /\ NoStoreLostUnexposed /\ ShelteredIsTold /\ ShelteredIsFoundOut
=============================================================================
