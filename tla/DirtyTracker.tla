---------------------------- MODULE DirtyTracker ----------------------------
(***************************************************************************)
(* The guest-write tracker of hw/display/reims-vgpu-dirty.c.               *)
(*                                                                         *)
(* Host code that keeps a copy of guest pages registers them as a set      *)
(* (track), records the set's generation next to its copy (gen), and later *)
(* compares generations to decide whether the copy is still current.  A    *)
(* harvest, run under the BQL where the guest rings a doorbell, folds the  *)
(* accelerator's dirty log into the generations.                           *)
(*                                                                         *)
(* The harvest takes and drops the tracker's lock, and guest vCPUs store   *)
(* to memory all the while, so it is one action per section between lock   *)
(* operations, and one per set inside the locked section: a bitmap bit is  *)
(* read once for every set holding the page.  A set's own pages are read   *)
(* in one step: stores to different pages commute, so no interleaving is   *)
(* lost.                                                                   *)
(*                                                                         *)
(* A reader takes its copy and records the generation in two steps: the    *)
(* backend first copies the pages or writes them, and asks for the         *)
(* generation afterwards.                                                  *)
(*                                                                         *)
(* Abstractions: a page is an opaque value of one size; its contents are   *)
(* the number of guest stores it has received; reads_since_harvest is kept *)
(* as "is it non-zero", the only question the code asks of it.             *)
(***************************************************************************)
EXTENDS Integers, FiniteSets

CONSTANTS Page,         \* guest pages
          Region,       \* MemoryRegions that back them
          RegionOf,     \* the region a page lies in, when it resolves at all
          Remappable,   \* pages whose range may leave and rejoin the FlatView
          Hosts,        \* the host set-ups to consider
          MaxToken,     \* bound: calls of track
          MaxHarvests,  \* bound: harvests that are not skipped
          MaxStores     \* bound: guest stores to one page

HostKinds == {"mmio_kvm", "mmio_tcg", "pci_kvm", "pci_tcg"}

ASSUME TrackerAssumption ==
    /\ RegionOf \in [Page -> Region]
    /\ Remappable \subseteq Page
    /\ Hosts \subseteq HostKinds
    /\ MaxToken \in Nat
    /\ MaxHarvests \in Nat
    /\ MaxStores \in Nat

Token == 1..MaxToken

VARIABLES
    \* struct ReimsVgpuDirty
    live,        \* the keys of the hash table sets
    pages,       \* sets[t]->pages
    page_gen,    \* sets[t]->page_gen
    gen,         \* sets[t]->gen
    arm_at,      \* sets[t]->arm_at
    next_token,
    logged,      \* regions this device turned dirty logging on for
    harvests,
    reads,       \* reads_since_harvest # 0
    alive,       \* between reims_vgpu_dirty_new and _free
    \* one call of reims_vgpu_dirty_harvest
    pc,          \* how far it has got
    todo,        \* sets the hash-table iterator has still to visit
    written,     \* pages recorded for the clear pass
    needs_log,   \* regions with a slice marked needs_log
    \* the machine around it
    host,        \* which of Hosts this is
    ram,         \* pages that resolve to a RAM range of the FlatView
    mem,         \* page contents: how many stores the guest has made
    log,         \* the accelerator's own dirty log, before a sync
    bitmap,      \* the DIRTY_MEMORY_VGA bitmap
    \* readers: the copy kept for a token, and the doorbells
    stamp,       \* the generation recorded next to the copy, 0 for none
    seen,        \* the contents the copy was taken from
    copying,     \* a copy has been taken that has no generation yet
    hand,        \* the contents that copy was taken from
    covered      \* the contents at the last doorbell whose harvest was not skipped

setVars     == <<live, pages, page_gen, gen, arm_at, next_token>>
harvestVars == <<pc, todo, written, needs_log>>
machineVars == <<host, ram, mem, log, bitmap>>
readerVars  == <<stamp, seen, copying, hand>>
vars == <<setVars, logged, harvests, reads, alive, harvestVars, machineVars,
          readerVars, covered>>

(***************************************************************************)
(* The MMIO shim drains the device in a bottom half, under the BQL; the    *)
(* PCI shim drains it on a thread of its own.  TCG stores set the bitmap   *)
(* bit themselves; KVM keeps its own log until memory_global_dirty_log_sync*)
(* copies it, and with manual dirty-log protection drops an entry only     *)
(* when the bitmap bit is reset.                                           *)
(***************************************************************************)
ReadersHoldBQL == host \in {"mmio_kvm", "mmio_tcg"}
BitmapIsLive   == host \in {"mmio_tcg", "pci_tcg"}
SafeHost       == ReadersHoldBQL /\ ~BitmapIsLive

\* The lock is held only while the sets are visited; a harvest keeps the BQL
\* from its first step to its last.
ReaderMayRun == /\ alive
                /\ pc # "fold"
                /\ ReadersHoldBQL => pc = "idle"

NoPages == [p \in Page |-> 0]

Init ==
    /\ live = {}
    /\ pages = [t \in Token |-> {}]
    /\ page_gen = [t \in Token |-> NoPages]
    /\ gen = [t \in Token |-> 0]
    /\ arm_at = [t \in Token |-> 0]
    /\ next_token = 0
    /\ logged = {}
    /\ harvests = 0
    /\ reads = FALSE
    /\ alive = TRUE
    /\ pc = "idle"
    /\ todo = {}
    /\ written = {}
    /\ needs_log = {}
    /\ host \in Hosts
    /\ ram \in {R \in SUBSET Page : Page \ Remappable \subseteq R}
    /\ mem = NoPages
    /\ log = {}
    /\ bitmap = Page    \* a RAM block starts with every bit set
    /\ stamp = [t \in Token |-> 0]
    /\ seen = [t \in Token |-> NoPages]
    /\ copying = FALSE
    /\ hand = NoPages
    /\ covered = NoPages

----------------------------------------------------------------------------
(***************************************************************************)
(* The entry points that are safe from any thread.                         *)
(***************************************************************************)

\* reims_vgpu_dirty_track.  Its argument checks return 0 and change nothing.
Track(P) ==
    /\ ReaderMayRun
    /\ P # {}
    /\ next_token < MaxToken
    /\ LET t == next_token + 1
       IN  /\ next_token' = t
           /\ live' = live \cup {t}
           /\ pages' = [pages EXCEPT ![t] = P]
           /\ page_gen' = [page_gen EXCEPT ![t] = NoPages]
           /\ gen' = [gen EXCEPT ![t] = 0]
           /\ arm_at' = [arm_at EXCEPT ![t] = harvests + 1]
    /\ UNCHANGED <<logged, harvests, reads, alive, harvestVars, machineVars,
                   readerVars, covered>>

\* reims_vgpu_dirty_untrack: the set is freed, and its owner drops the stamp it
\* kept with the token.
Untrack(t) ==
    /\ ReaderMayRun
    /\ t \in live
    /\ live' = live \ {t}
    /\ pages' = [pages EXCEPT ![t] = {}]
    /\ page_gen' = [page_gen EXCEPT ![t] = NoPages]
    /\ gen' = [gen EXCEPT ![t] = 0]
    /\ arm_at' = [arm_at EXCEPT ![t] = 0]
    /\ stamp' = [stamp EXCEPT ![t] = 0]
    /\ seen' = [seen EXCEPT ![t] = NoPages]
    /\ UNCHANGED <<next_token, logged, harvests, reads, alive, harvestVars,
                   machineVars, copying, hand, covered>>

\* A writer that publishes a surface makes its own copy and the guest pages agree.
\* It needs no lock of the tracker, and off the BQL no part of a harvest excludes it.
Copy ==
    /\ alive
    /\ ReadersHoldBQL => pc = "idle"
    /\ ~copying
    /\ copying' = TRUE
    /\ hand' = mem
    /\ UNCHANGED <<setVars, logged, harvests, reads, alive, harvestVars, machineVars,
                   stamp, seen, covered>>

\* Variant: a reader that stores the "cannot tell" answer of written_since, -1, as
\* if it were a generation.
Stamp_KeepsCannotTell(t) ==
    /\ ReaderMayRun
    /\ t \in live
    /\ copying
    /\ stamp' = [stamp EXCEPT ![t] = IF gen[t] = 0 THEN -1 ELSE gen[t]]
    /\ seen' = [seen EXCEPT ![t] = hand]
    /\ copying' = FALSE
    /\ hand' = NoPages
    /\ reads' = TRUE
    /\ UNCHANGED <<setVars, logged, harvests, alive, harvestVars, machineVars,
                   covered>>

\* stamp_guest_write_gen: the generation is read for the copy made before, and
\* recorded next to it.  Registering the pages, when that is still to be done, is a
\* Track of its own.
Stamp(t) ==
    /\ ReaderMayRun
    /\ t \in live
    /\ copying
    /\ stamp' = [stamp EXCEPT ![t] = gen[t]]
    /\ seen' = [seen EXCEPT ![t] = hand]
    /\ copying' = FALSE
    /\ hand' = NoPages
    /\ reads' = TRUE
    /\ UNCHANGED <<setVars, logged, harvests, alive, harvestVars, machineVars,
                   covered>>

\* stamp_guest_write_gen where the host cannot watch the pages: generation 0 is
\* recorded, and the tracker is not asked.
StampNothing ==
    /\ alive
    /\ ReadersHoldBQL => pc = "idle"
    /\ copying
    /\ copying' = FALSE
    /\ hand' = NoPages
    /\ UNCHANGED <<setVars, logged, harvests, reads, alive, harvestVars, machineVars,
                   stamp, seen, covered>>

\* reims_vgpu_dirty_gen, by a reader that compares: the copy is reused when the
\* generation has not moved.  Only the read is an effect, and it is counted for a
\* token that is gone as well.
Compare(t) ==
    /\ ReaderMayRun
    /\ t <= next_token
    /\ reads' = TRUE
    /\ UNCHANGED <<setVars, logged, harvests, alive, harvestVars, machineVars,
                   readerVars, covered>>

\* The pages reims_vgpu_dirty_written_since reports, when it can answer.
WrittenSince(t, since) == {p \in pages[t] : page_gen[t][p] > since}

\* reims_vgpu_dirty_written_since.  Every -1 leaves the tracker as it was, the
\* truncated answer included, so the call has an effect only when it answers.
AskWritten(t, max) ==
    /\ ReaderMayRun
    /\ t \in live
    /\ gen[t] # 0
    /\ stamp[t] # 0
    /\ Cardinality(WrittenSince(t, stamp[t])) <= max
    /\ reads' = TRUE
    /\ UNCHANGED <<setVars, logged, harvests, alive, harvestVars, machineVars,
                   readerVars, covered>>

----------------------------------------------------------------------------
(***************************************************************************)
(* reims_vgpu_dirty_harvest, called under the BQL at every doorbell.       *)
(***************************************************************************)

\* With nothing tracked, or nothing read since the last harvest, the call returns
\* at once and changes nothing.
Skipped == live = {} \/ ~reads

HarvestBegin ==
    /\ alive
    /\ pc = "idle"
    /\ ReadersHoldBQL => ~copying
    /\ ~Skipped
    /\ harvests < MaxHarvests
    /\ pc' = "begun"
    /\ covered' = mem
    /\ UNCHANGED <<setVars, logged, harvests, reads, alive, todo, written,
                   needs_log, machineVars, readerVars>>

\* Variant: the slice table is built but the accelerator's log is not copied.
HarvestSync_NoLogSync ==
    /\ pc = "begun"
    /\ pc' = "synced"
    /\ UNCHANGED <<setVars, logged, harvests, reads, alive, todo, written,
                   needs_log, machineVars, readerVars, covered>>

\* The slice table is built and the accelerator's log copied into the bitmap.
HarvestSync ==
    /\ pc = "begun"
    /\ pc' = "synced"
    /\ bitmap' = bitmap \cup log
    /\ UNCHANGED <<setVars, logged, harvests, reads, alive, todo, written,
                   needs_log, host, ram, mem, log, readerVars, covered>>

\* Take the lock for the visit of every set.
HarvestLock ==
    /\ pc = "synced"
    /\ pc' = "fold"
    /\ harvests' = harvests + 1
    /\ reads' = FALSE
    /\ todo' = live
    /\ UNCHANGED <<setVars, logged, alive, written, needs_log, machineVars,
                   readerVars, covered>>

\* A page outside every RAM range, and one whose region was not logged at the
\* sync, cannot be called unwritten; any other answers by its bitmap bit.
NoSlice(t)  == pages[t] \ ram
Unlogged(t) == {p \in pages[t] \cap ram : RegionOf[p] \notin logged}
BitSet(t)   == {p \in pages[t] \cap ram : RegionOf[p] \in logged /\ p \in bitmap}
Hit(t)      == NoSlice(t) \cup Unlogged(t) \cup BitSet(t)

\* Variants: a set waits for one harvest whatever that harvest found; and an armed
\* set is sent back through its startup window.
ArmAt_NeverPushed(t) == arm_at[t]
ArmAt_PushesArmed(t) == IF Unlogged(t) # {} THEN harvests + 1 ELSE arm_at[t]

\* A set still waiting waits again when some page was not yet recorded.
ArmAt(t) == IF gen[t] = 0 /\ Unlogged(t) # {} THEN harvests + 1 ELSE arm_at[t]

NextGen(t) ==
    IF harvests < ArmAt(t) THEN 0
    ELSE IF gen[t] = 0     THEN 1
    ELSE IF Hit(t) # {}    THEN gen[t] + 1
                           ELSE gen[t]

\* Variant: only pages with a bitmap bit are stamped.
NextPageGen_BitsOnly(t) ==
    [p \in Page |-> IF NextGen(t) # 0 /\ p \in BitSet(t) THEN NextGen(t)
                                                         ELSE page_gen[t][p]]

\* Pages are stamped only once the generation is readable.
NextPageGen(t) ==
    [p \in Page |-> IF NextGen(t) # 0 /\ p \in Hit(t) THEN NextGen(t)
                                                      ELSE page_gen[t][p]]

\* Variant: a bit is reset as it is read, so the first set visited consumes the
\* report of every set sharing the page.
HarvestSet_ConsumesBits(t) ==
    /\ pc = "fold"
    /\ t \in todo
    /\ todo' = todo \ {t}
    /\ arm_at' = [arm_at EXCEPT ![t] = ArmAt(t)]
    /\ gen' = [gen EXCEPT ![t] = NextGen(t)]
    /\ page_gen' = [page_gen EXCEPT ![t] = NextPageGen(t)]
    /\ bitmap' = bitmap \ BitSet(t)
    /\ log' = log \ BitSet(t)
    /\ needs_log' = needs_log \cup {RegionOf[p] : p \in Unlogged(t)}
    /\ UNCHANGED <<live, pages, next_token, logged, harvests, reads, alive, pc,
                   written, host, ram, mem, readerVars, covered>>

\* One set of the visit: read its bits, then move its generation and its stamps.
HarvestSet(t) ==
    /\ pc = "fold"
    /\ t \in todo
    /\ todo' = todo \ {t}
    /\ arm_at' = [arm_at EXCEPT ![t] = ArmAt(t)]
    /\ gen' = [gen EXCEPT ![t] = NextGen(t)]
    /\ page_gen' = [page_gen EXCEPT ![t] = NextPageGen(t)]
    /\ written' = written \cup BitSet(t)
    /\ needs_log' = needs_log \cup {RegionOf[p] : p \in Unlogged(t)}
    /\ UNCHANGED <<live, pages, next_token, logged, harvests, reads, alive, pc,
                   machineVars, readerVars, covered>>

HarvestUnlock ==
    /\ pc = "fold"
    /\ todo = {}
    /\ pc' = "clear"
    /\ UNCHANGED <<setVars, logged, harvests, reads, alive, todo, written,
                   needs_log, machineVars, readerVars, covered>>

\* Reset one page that came back written, in the bitmap and in the log under it.
HarvestClear(p) ==
    /\ pc = "clear"
    /\ p \in written
    /\ written' = written \ {p}
    /\ bitmap' = bitmap \ {p}
    /\ log' = log \ {p}
    /\ UNCHANGED <<setVars, logged, harvests, reads, alive, pc, todo, needs_log,
                   host, ram, mem, readerVars, covered>>

\* Turn logging on where a tracked page asked for it; the call returns.  The
\* accelerator may start a log with every page set or with none.
HarvestEnd ==
    /\ pc = "clear"
    /\ written = {}
    /\ pc' = "idle"
    /\ logged' = logged \cup needs_log
    /\ needs_log' = {}
    /\ log' \in {log, log \cup {p \in Page : RegionOf[p] \in needs_log \ logged}}
    /\ UNCHANGED <<setVars, harvests, reads, alive, todo, written, host, ram, mem,
                   bitmap, readerVars, covered>>

\* reims_vgpu_dirty_free, under the BQL with the readers stopped: logging off and
\* the sets destroyed.  The behaviour ends there.
Free ==
    /\ alive
    /\ pc = "idle"
    /\ ~copying
    /\ alive' = FALSE
    /\ logged' = {}
    /\ live' = {}
    /\ UNCHANGED <<pages, page_gen, gen, arm_at, next_token, harvests, reads,
                   harvestVars, machineVars, readerVars, covered>>

----------------------------------------------------------------------------
(***************************************************************************)
(* The machine: vCPU stores need no lock, the FlatView changes under BQL.  *)
(***************************************************************************)

GuestStore(p) ==
    /\ alive
    /\ p \in ram
    /\ mem[p] < MaxStores
    /\ mem' = [mem EXCEPT ![p] = @ + 1]
    /\ bitmap' = IF BitmapIsLive THEN bitmap \cup {p} ELSE bitmap
    /\ log' = IF ~BitmapIsLive /\ RegionOf[p] \in logged THEN log \cup {p} ELSE log
    /\ UNCHANGED <<setVars, logged, harvests, reads, alive, harvestVars, host, ram,
                   readerVars, covered>>

Remap(p) ==
    /\ alive
    /\ pc = "idle"
    /\ ReadersHoldBQL => ~copying
    /\ p \in Remappable
    /\ ram' = IF p \in ram THEN ram \ {p} ELSE ram \cup {p}
    /\ UNCHANGED <<setVars, logged, harvests, reads, alive, harvestVars, host, mem,
                   log, bitmap, readerVars, covered>>

----------------------------------------------------------------------------
Reader == \/ \E P \in SUBSET Page : Track(P)
          \/ \E t \in Token : Untrack(t)
          \/ Copy
          \/ \E t \in Token : Stamp(t)
          \/ StampNothing
          \/ \E t \in Token : Compare(t)
          \/ \E t \in Token, max \in 0..Cardinality(Page) : AskWritten(t, max)

Harvest == \/ HarvestBegin
           \/ HarvestSync
           \/ HarvestLock
           \/ \E t \in Token : HarvestSet(t)
           \/ HarvestUnlock
           \/ \E p \in Page : HarvestClear(p)
           \/ HarvestEnd

Machine == \/ \E p \in Page : GuestStore(p)
           \/ \E p \in Remappable : Remap(p)

Next == Reader \/ Harvest \/ Free \/ Machine

Spec == Init /\ [][Next]_vars

----------------------------------------------------------------------------
(***************************************************************************)
(* Properties.                                                             *)
(***************************************************************************)

\* Every field has its type.
TypeOK ==
    /\ live \subseteq Token
    /\ pages \in [Token -> SUBSET Page]
    /\ page_gen \in [Token -> [Page -> Nat]]
    /\ gen \in [Token -> Nat]
    /\ arm_at \in [Token -> Nat]
    /\ next_token \in 0..MaxToken
    /\ logged \subseteq Region
    /\ harvests \in Nat
    /\ reads \in BOOLEAN
    /\ alive \in BOOLEAN
    /\ pc \in {"idle", "begun", "synced", "fold", "clear"}
    /\ todo \subseteq Token
    /\ written \subseteq Page
    /\ needs_log \subseteq Region
    /\ host \in HostKinds
    /\ ram \subseteq Page
    /\ mem \in [Page -> Nat]
    /\ log \subseteq Page
    /\ bitmap \subseteq Page
    /\ stamp \in [Token -> Nat]
    /\ seen \in [Token -> [Page -> Nat]]
    /\ copying \in BOOLEAN
    /\ hand \in [Page -> Nat]
    /\ covered \in [Page -> Nat]

\* The copy of page p kept for t is reported current: its stamp is readable and
\* the page carries no later one.
ReportedCurrent(t, p) == stamp[t] # 0 /\ page_gen[t][p] <= stamp[t]

\* The next harvest that is not skipped will find p written.
ReportPending(p) == RegionOf[p] \notin logged \/ p \in bitmap \cup log

\* No guest store is ever lost to a reader: a copy that is out of date and still
\* reported current has a report on its way.  This is the promise every witness
\* of the tracker rests on ("every write is observed by some later read"), and
\* each of shared pages, the clear pass, re-tracking, a region logged late and
\* an unmapped range could break it.  It holds where the readers hold the BQL
\* and the bitmap only moves at a sync.
NoStoreLost ==
    SafeHost =>
      \A t \in live : \A p \in pages[t] :
         ReportedCurrent(t, p) /\ seen[t][p] < mem[p] => ReportPending(p)

\* When a harvest that was not skipped has returned, no copy is reported current
\* that misses a store the guest made before the doorbell which ran it.
HandoffObserved ==
    SafeHost /\ pc = "idle" =>
      \A t \in live : \A p \in pages[t] :
         ReportedCurrent(t, p) => seen[t][p] >= covered[p]

\* A harvest is skipped only when it has nothing to tell: the comment on
\* reads_since_harvest says a harvest nothing has consumed since the previous one
\* "cannot tell any reader something it does not already know", and the header
\* promises that every store ordered before a doorbell is observed before the
\* work runs.
SkipTellsNothing ==
    alive /\ pc = "idle" /\ Skipped =>
      \A t \in live : \A p \in pages[t] :
         ReportedCurrent(t, p) => seen[t][p] >= mem[p]

\* The same promise as NoStoreLost, on a host where readers run on a thread of
\* their own or stores set bitmap bits while the sets are visited.
NoStoreLostAnywhere ==
    \A t \in live : \A p \in pages[t] :
       ReportedCurrent(t, p) /\ seen[t][p] < mem[p] => ReportPending(p)

\* A set whose generation is readable lies in logged regions, whatever the
\* readers do while a harvest runs: no set arms on the harvest that had to turn
\* logging on for it, nor before a harvest that covered it.
ArmedIsLogged ==
    \A t \in live : \A p \in pages[t] \ Remappable :
       gen[t] # 0 => RegionOf[p] \in logged

\* The generation of a live token never goes back, so a recorded generation is
\* never reached twice; in particular an armed set never re-enters its startup
\* window when a page of it turns out to be unlogged.
GenNeverGoesBack ==
    [][\A t \in live \cap live' : gen'[t] >= gen[t]]_vars

\* A generation that moves always says which pages moved it: no per-page reader
\* is told less than a reader of the whole set.
MovedGenNamesPages ==
    \A t \in live : gen[t] > 1 =>
       \E p \in pages[t] : page_gen[t][p] = gen[t]

----------------------------------------------------------------------------
(***************************************************************************)
(* The inductive strengthening the proofs use.                             *)
(***************************************************************************)

\* What ties the fields together on every host.
Bookkeeping ==
    /\ ~alive => pc = "idle" /\ live = {}
    /\ \A t \in live : t <= next_token
    /\ alive => \A t \in Token \ live : stamp[t] = 0
    /\ \A t \in live : stamp[t] <= gen[t]
    /\ \A t \in live : gen[t] # 0 => arm_at[t] <= harvests
    /\ todo \subseteq live
    /\ pc # "fold" => todo = {}
    /\ pc \notin {"fold", "clear"} => written = {} /\ needs_log = {}
    /\ \A p \in Page : covered[p] <= mem[p]
    /\ Page \ Remappable \subseteq ram

\* The sets the running harvest has brought up to date.
Visited == IF pc = "fold" THEN live \ todo
           ELSE IF pc = "clear" THEN live ELSE {}

\* A set that was visited has been told of every page that will be cleared, and
\* of every page whose region will be logged only from now on.
VisitedIsTold ==
    SafeHost =>
      /\ pc = "fold" => written \subseteq bitmap
      /\ \A t \in Visited : \A p \in pages[t] :
           ReportedCurrent(t, p) =>
              /\ p \in ram
              /\ RegionOf[p] \in logged
              /\ p \notin written
              /\ pc = "fold" => p \notin bitmap

\* A copy that misses a store older than the doorbell is found out by the time
\* its set is visited.
FoundOut ==
    SafeHost =>
      \A t \in live : \A p \in pages[t] :
         ReportedCurrent(t, p) /\ seen[t][p] < covered[p] =>
            \/ pc = "begun"
            \/ /\ pc \in {"synced", "fold"}
               /\ t \notin Visited
               /\ RegionOf[p] \notin logged \/ p \in bitmap

\* A copy that is still without its generation holds nothing newer than the pages,
\* and under the BQL no harvest runs before it has one.
HandLine ==
    /\ \A p \in Page : hand[p] <= mem[p]
    /\ ReadersHoldBQL /\ copying => pc = "idle"

\* So there it was made since the last harvest returned, and no report it needs has
\* been made yet.
HandIsWatched ==
    SafeHost /\ copying =>
      \A p \in Page : /\ hand[p] >= covered[p]
                      /\ hand[p] < mem[p] => ReportPending(p)

IndInv == /\ TypeOK /\ Bookkeeping /\ HandLine
          /\ NoStoreLost /\ VisitedIsTold /\ FoundOut /\ HandIsWatched
----------------------------------------------------------------------------
(***************************************************************************)
(* The tracker implements WriteWitness: a reader is a token, and the pages *)
(* of its copy reported current are the ones written_since would leave     *)
(* out.                                                                    *)
(***************************************************************************)

CurrentPages ==
    [t \in Token |-> {p \in pages[t] : t \in live /\ ReportedCurrent(t, p)}]

Witness == INSTANCE WriteWitness WITH
              Reader  <- Token,
              copy    <- seen,
              current <- CurrentPages,
              handed  <- covered,
              handing <- (pc # "idle")

\* Every behaviour of the tracker is one the abstract witness allows: between
\* doorbells a copy is called written only while a harvest runs, and a harvest
\* returns only when each copy missing a store from before its doorbell has been
\* reported, whatever the lock sections, the log and the bitmap do in between.
ImplementsWitness == Witness!Spec
=============================================================================
