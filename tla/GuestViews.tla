----------------------------- MODULE GuestViews -----------------------------
(***************************************************************************)
(* The lifetime of a host view of guest pages, from the shim that maps it  *)
(* to the GPU that reads through it.                                       *)
(*                                                                         *)
(* map_pages of hw/display/reims-vgpu-pci.c gives the device a pointer:    *)
(* into a RAMBlock, or to pages it maps together at a fresh address.  The  *)
(* device caches the pointer with what it is for, imports the memory into  *)
(* Vulkan, and draws through the import.  When the guest moves the pages   *)
(* the view is retired: the import may still be read by submissions and be *)
(* the parent of images, so the address goes back to the shim, through a   *)
(* list of released aliases, only after their fences.  munmap makes the    *)
(* address free for the next view.                                         *)
(*                                                                         *)
(* Who runs: the drain thread works packets under the device lock; the     *)
(* heartbeat, when it gets that lock, advances the engine and returns      *)
(* released aliases; fences, window presents and a lost device are noticed *)
(* under the engine's own lock, at any time.  A packet is several steps,   *)
(* because between resolving an import and binding it others are resolved. *)
(*                                                                         *)
(* Abstractions: every view has one length, so a pointer stands for the    *)
(* pair the code compares.  A view is numbered; the code sees its pointer  *)
(* and, as an import lives and dies with the one view it was made for, the *)
(* number is also the import's id.  Submissions may finish in any order.   *)
(* What a caller does after a refusal is no step of this module.           *)
(***************************************************************************)
EXTENDS Naturals

CONSTANTS Mapping,   \* mappings, with contig_ptr and contig_import
          Span,      \* entries of gva_host_views
          Packed,    \* entries of bound_buffers.packed
          Addr,      \* where mmap may put a constructed view
          Ram,       \* a pointer into a RAMBlock
          Slot,      \* bits of a SlotMask: the submission ring, and
          Window,    \*   WINDOW_PRESENT_SLOT
          Image,     \* child images the engine may have at once
          MaxView    \* bound: successful calls of map_pages

View   == 1..MaxView
Holder == Mapping \cup Span \cup Packed
Ptr    == Addr \cup {Ram}
Ring   == Slot \ {Window}

ASSUME ViewsAssumption ==
    /\ MaxView \in Nat
    /\ Ram \notin Addr
    /\ Window \in Slot
    /\ Mapping \cap Span = {} /\ (Mapping \cup Span) \cap Packed = {}

VARIABLES
    \* the shim
    page_views,   \* the view at each address, 0 for none
    made,         \* how many views there have been
    ptr,          \* the pointer a view was given
    \* DeviceState
    held,         \* the view a holder has cached, 0 for none
    import,       \* a view's GuestRamImport: "none", "live" or "retired"
    retired_views, retired_guest_imports,
    packet,       \* the import the packet has resolved and not bound, 0 for none
    \* the engine
    live,         \* HostRamImports.live
    ended,        \* those of them with retired set
    owner,        \* the import an image is a child of, 0 for no such image
    parent_wait, barrier_wait, image_wait,   \* the graveyard, by kind of handle
    batch,        \* the slot of open_batch, {} for none
    open,         \* slots with a batch or a submission
    reads,        \* the imports those read
    released,     \* RELEASED_HOST_ALIASES
    lost          \* a device was lost: "never", "since" or "before" the last reset

shimVars  == <<page_views, made, ptr>>
stateVars == <<held, import, retired_views, retired_guest_imports, packet>>
waitVars  == <<parent_wait, barrier_wait, image_wait>>
slotVars  == <<batch, open, reads>>
poolVars  == <<live, ended, owner, waitVars, slotVars>>
vars == <<shimVars, stateVars, poolVars, released, lost>>

Init ==
    /\ page_views = [a \in Addr |-> 0]
    /\ made = 0
    /\ ptr = [v \in View |-> Ram]
    /\ held = [h \in Holder |-> 0]
    /\ import = [v \in View |-> "none"]
    /\ retired_views = {} /\ retired_guest_imports = {}
    /\ packet = 0
    /\ live = {} /\ ended = {}
    /\ owner = [g \in Image |-> 0]
    /\ parent_wait = [v \in View |-> {}]
    /\ barrier_wait = [v \in View |-> {}]
    /\ image_wait = [g \in Image |-> {}]
    /\ batch = {}
    /\ open = {}
    /\ reads = [r \in Slot |-> {}]
    /\ released = {}
    /\ lost = "never"

----------------------------------------------------------------------------
(***************************************************************************)
(* flush_retired_views.  The imports are retired first, and the views they *)
(* alias are left to the engine; every other retired view is unmapped, and *)
(* so is what the engine has released.                                     *)
(***************************************************************************)

\* unmap_pages on each pointer of U, a no-op where there is no view.
Unmap(U) == [a \in Addr |-> IF a \in U THEN 0 ELSE page_views[a]]

Children(v) == {g \in Image : owner[g] = v}

\* What HostRamImports::retire answers for the retired imports: Ready, or
\* WaitingForChildren.  Any other was never imported.
Ready   == {v \in retired_guest_imports \cap live : Children(v) = {}}
Waiting == {v \in retired_guest_imports \cap live : Children(v) # {}}

\* dispose destroys at once what no open slot can be reading.
Disposed == IF open = {} THEN {ptr[v] : v \in Ready} ELSE {}

Flushed ==
    released \cup Disposed
        \cup (retired_views \ {ptr[v] : v \in retired_guest_imports \cap live})

\* Variant: the aliases are read and left on the list.
Flush_KeepsReleased ==
    /\ live' = live \ Ready
    /\ ended' = ended \cup Waiting
    /\ parent_wait' = [v \in View |-> IF v \in Ready THEN open ELSE parent_wait[v]]
    /\ barrier_wait' = [v \in View |-> IF v \in Waiting THEN open ELSE barrier_wait[v]]
    /\ retired_views' = {} /\ retired_guest_imports' = {}
    /\ released' = released \cup Disposed

\* Everything but the unmapping itself.  A parked handle waits for the slots open
\* now; with none open the barrier is behind it at once.
Flush ==
    /\ live' = live \ Ready
    /\ ended' = ended \cup Waiting
    /\ parent_wait' = [v \in View |-> IF v \in Ready THEN open ELSE parent_wait[v]]
    /\ barrier_wait' = [v \in View |-> IF v \in Waiting THEN open ELSE barrier_wait[v]]
    /\ retired_views' = {} /\ retired_guest_imports' = {}
    /\ released' = {}

----------------------------------------------------------------------------
(***************************************************************************)
(* The drain thread, in a packet.                                          *)
(***************************************************************************)

\* A successful map_pages: a RAMBlock pointer leaves no entry, a constructed view
\* gets a free address.  views is what the flush before it has left.
MapPages(p, views) ==
    /\ made < MaxView
    /\ made' = made + 1
    /\ ptr' = [ptr EXCEPT ![made + 1] = p]
    /\ p \in Addr => views[p] = 0
    /\ page_views' = [a \in Addr |-> IF a = p THEN made + 1 ELSE views[a]]

\* ensure_contig_view_with_pages and ensure_gva_view, with a view to build.
EnsureView(h, p) ==
    /\ h \in Mapping \cup Span
    /\ held[h] = 0
    /\ Flush
    /\ MapPages(p, Unmap(Flushed))
    /\ held' = [held EXCEPT ![h] = made + 1]
    /\ UNCHANGED <<import, packet, owner, image_wait, slotVars, lost>>

\* ensure_packed_resource, with a view to build.  It does not flush.  A RAMBlock
\* pointer is covered by the RAMBlock's own import, and nothing is imported.
EnsurePacked(h, p) ==
    /\ h \in Packed
    /\ held[h] = 0
    /\ MapPages(p, page_views)
    /\ held' = [held EXCEPT ![h] = made + 1]
    /\ import' = IF p = Ram THEN import ELSE [import EXCEPT ![made + 1] = "live"]
    /\ UNCHANGED <<retired_views, retired_guest_imports, packet, poolVars, released,
                   lost>>

\* Either of the first two with the view already there, or refused: the flush.
FlushOnly ==
    /\ Flush
    /\ page_views' = Unmap(Flushed)
    /\ UNCHANGED <<made, ptr, held, import, packet, owner, image_wait, slotVars, lost>>

\* ensure_contig_import_with_footprint, the view being there: it flushes, and makes
\* the import unless there is one.
ResolveMapping(h) ==
    /\ h \in Mapping
    /\ held[h] # 0
    /\ Flush
    /\ page_views' = Unmap(Flushed)
    /\ import' = [import EXCEPT ![held[h]] = "live"]
    /\ packet' = held[h]
    /\ UNCHANGED <<made, ptr, held, owner, image_wait, slotVars, lost>>

ResolvePacked(h) ==
    /\ h \in Packed
    /\ held[h] # 0
    /\ import[held[h]] = "live"
    /\ packet' = held[h]
    /\ UNCHANGED <<shimVars, held, import, retired_views, retired_guest_imports,
                   poolVars, released, lost>>

\* Record a read of import v: into the open batch, or a new one in a free slot.
Record(v) ==
    \E r \in Ring :
       /\ IF batch = {} THEN r \notin open ELSE r \in batch
       /\ batch' = {r}
       /\ open' = open \cup {r}
       /\ reads' = [reads EXCEPT ![r] = @ \cup {v}]

\* HostRamImports::bind, which refuses a retired import, and a draw that reads the
\* bound range.
Bind ==
    /\ packet # 0
    /\ import[packet] = "live"
    /\ packet' = 0
    /\ live' = live \cup {packet}
    /\ Record(packet)
    /\ UNCHANGED <<shimVars, held, import, retired_views, retired_guest_imports, ended,
                   owner, waitVars, released, lost>>

\* The same through a child image, which retains the parent.
BindImage(g) ==
    /\ packet # 0
    /\ import[packet] = "live"
    /\ owner[g] = 0
    /\ packet' = 0
    /\ live' = live \cup {packet}
    /\ owner' = [owner EXCEPT ![g] = packet]
    /\ Record(packet)
    /\ UNCHANGED <<shimVars, held, import, retired_views, retired_guest_imports, ended,
                   waitVars, released, lost>>

Resident(g) == owner[g] # 0 /\ image_wait[g] = {}

\* Variant: the image is not looked up first.
DrawImage_NotResident(g) ==
    /\ Record(owner[g])
    /\ UNCHANGED <<shimVars, stateVars, live, ended, owner, waitVars, released, lost>>

\* A draw through an image that is resident, whose parent may have ended.
DrawImage(g) ==
    /\ Resident(g)
    /\ Record(owner[g])
    /\ UNCHANGED <<shimVars, stateVars, live, ended, owner, waitVars, released, lost>>

\* The packet is over, or its import was refused.
EndPacket ==
    /\ packet # 0
    /\ packet' = 0
    /\ UNCHANGED <<shimVars, held, import, retired_views, retired_guest_imports,
                   poolVars, released, lost>>

\* The page list of a mapping changed: take_mapping_view, or what plan adoption
\* does in its place.
RetireMapping(h) ==
    /\ h \in Mapping
    /\ held[h] # 0
    /\ held' = [held EXCEPT ![h] = 0]
    /\ retired_views' = retired_views \cup {ptr[held[h]]}
    /\ \/ /\ import[held[h]] = "none"
          /\ UNCHANGED <<import, retired_guest_imports>>
       \/ /\ import[held[h]] # "none"
          /\ import' = [import EXCEPT ![held[h]] = "retired"]
          /\ retired_guest_imports' = retired_guest_imports \cup {held[h]}
    /\ UNCHANGED <<shimVars, packet, poolVars, released, lost>>

\* retire_task_gva_views, retire_gva_views_overlapping, and a stale span.
RetireSpan(h) ==
    /\ h \in Span
    /\ held[h] # 0
    /\ held' = [held EXCEPT ![h] = 0]
    /\ retired_views' = retired_views \cup {ptr[held[h]]}
    /\ UNCHANGED <<shimVars, import, retired_guest_imports, packet, poolVars, released,
                   lost>>

\* bound_buffers' retire_task, retire_ref and retire_range, and an entry replaced.
DropPacked(h) ==
    /\ h \in Packed
    /\ held[h] # 0
    /\ held' = [held EXCEPT ![h] = 0]
    /\ UNCHANGED <<shimVars, import, retired_views, retired_guest_imports, packet,
                   poolVars, released, lost>>

----------------------------------------------------------------------------
(***************************************************************************)
(* The engine: slots, fences and the graveyard.                            *)
(***************************************************************************)

\* Images destroyed, and parents freed, when the bits S are given back: a parked
\* parent that waits for nothing else, and an ended one whose barrier is behind it
\* and whose last child is gone.
Gone(S) == {g \in Image : image_wait[g] # {} /\ image_wait[g] \subseteq S}

\* Variant: the last child frees its ended parent, wherever the barrier is.
Freed_NoBarrier(S) ==
    {v \in View : parent_wait[v] # {} /\ parent_wait[v] \subseteq S}
       \cup {v \in ended : Children(v) \subseteq Gone(S)}

Freed(S) ==
    {v \in View : parent_wait[v] # {} /\ parent_wait[v] \subseteq S}
       \cup {v \in ended : barrier_wait[v] \subseteq S /\ Children(v) \subseteq Gone(S)}

\* release_graveyard
GiveBack(S) ==
    /\ parent_wait'  = [v \in View |-> parent_wait[v] \ S]
    /\ barrier_wait' = [v \in View |-> barrier_wait[v] \ S]
    /\ image_wait'   = [g \in Image |-> image_wait[g] \ S]
    /\ owner' = [g \in Image |-> IF g \in Gone(S) THEN 0 ELSE owner[g]]
    /\ live' = live \ Freed(S)
    /\ ended' = ended \ Freed(S)

\* Slots S have retired.
Retired(S) ==
    /\ open' = open \ S
    /\ reads' = [r \in Slot |-> IF r \in S THEN {} ELSE reads[r]]

\* retire_slot, from begin_entry or retire_signaled_slots.
RetireSlot(r) ==
    /\ r \in open \ ({Window} \cup batch)
    /\ Retired({r})
    /\ GiveBack({r})
    /\ released' = released \cup {ptr[v] : v \in Freed({r})}
    /\ UNCHANGED <<shimVars, stateVars, batch, lost>>

\* batch_flush
Seal ==
    /\ batch # {}
    /\ batch' = {}
    /\ UNCHANGED <<shimVars, stateVars, live, ended, owner, waitVars, open, reads,
                   released, lost>>

\* retire_all: the ring is idle, and every bit no longer open is swept.
RetireAll ==
    /\ batch' = {}
    /\ Retired(Ring)
    /\ LET bits == Slot \ (open \cap {Window})
       IN  /\ GiveBack(bits)
           /\ released' = released \cup {ptr[v] : v \in Freed(bits)}
    /\ UNCHANGED <<shimVars, stateVars, lost>>

\* An image leaves the registry or the sampled cache: dispose.
Evict(g) ==
    /\ Resident(g)
    /\ \/ /\ open # {}
          /\ image_wait' = [image_wait EXCEPT ![g] = open]
          /\ UNCHANGED <<owner, live, ended, released>>
       \/ /\ open = {}
          /\ owner' = [owner EXCEPT ![g] = 0]
          /\ LET done == {v \in ended : barrier_wait[v] = {} /\ Children(v) = {g}}
             IN  /\ live' = live \ done
                 /\ ended' = ended \ done
                 /\ released' = released \cup {ptr[v] : v \in done}
          /\ UNCHANGED image_wait
    /\ UNCHANGED <<shimVars, stateVars, parent_wait, barrier_wait, slotVars, lost>>

\* The window's own submissions: begin_ and end_present_in_flight.
Present(g) ==
    /\ Resident(g)
    /\ open' = open \cup {Window}
    /\ reads' = [reads EXCEPT ![Window] = @ \cup {owner[g]}]
    /\ UNCHANGED <<shimVars, stateVars, live, ended, owner, waitVars, batch, released,
                   lost>>

PresentDone ==
    /\ Window \in open
    /\ Retired({Window})
    /\ UNCHANGED <<shimVars, stateVars, live, ended, owner, waitVars, batch, released,
                   lost>>

\* The heartbeat with the device lock: advance_graveyard_maintenance, finding S
\* signalled, then drain_deferred_unmaps.
Heartbeat(S) ==
    /\ packet = 0
    /\ S \subseteq open \ {Window}
    /\ batch' = {}
    /\ Retired(S)
    /\ LET bits == S \cup ({Window} \ open)
       IN  /\ GiveBack(bits)
           /\ page_views' = Unmap(released \cup {ptr[v] : v \in Freed(bits)})
    /\ released' = {}
    /\ UNCHANGED <<made, ptr, stateVars, lost>>

\* ResourcePools::destroy_all: every image, every parked handle and every import
\* is destroyed.
DestroyAll ==
    /\ live' = {} /\ ended' = {}
    /\ owner' = [g \in Image |-> 0]
    /\ parent_wait' = [v \in View |-> {}]
    /\ barrier_wait' = [v \in View |-> {}]
    /\ image_wait' = [g \in Image |-> {}]
    /\ batch' = {}
    /\ open' = {}
    /\ reads' = [r \in Slot |-> {}]

Destroyed == {ptr[v] : v \in live \cup {u \in View : parent_wait[u] # {}}}

\* on_device_lost: the pools go, and with them the imports of views that the
\* device goes on using.
DeviceLost ==
    /\ DestroyAll
    /\ released' = released \cup Destroyed
    /\ lost' = "since"
    /\ UNCHANGED <<shimVars, stateVars>>

\* The views take_all_host_views detaches.
Taken == {held[h] : h \in {k \in Mapping \cup Span : held[k] # 0}}

\* Variant: the state is reset before its views are flushed.
Reset_StateFirst ==
    /\ packet = 0
    /\ DestroyAll
    /\ page_views' = Unmap(released \cup Destroyed)
    /\ held' = [h \in Holder |-> 0]
    /\ import' = [v \in View |-> IF v \in Taken /\ import[v] # "none" THEN "retired"
                                                               ELSE import[v]]
    /\ retired_views' = {} /\ retired_guest_imports' = {}
    /\ released' = {}
    /\ lost' = IF lost = "since" THEN "before" ELSE lost
    /\ UNCHANGED <<made, ptr, packet>>

\* reset_with_host: the engine's guest state goes first, then every view of the
\* mappings and spans is taken and flushed, then the state is replaced.
Reset ==
    /\ packet = 0
    /\ DestroyAll
    /\ page_views' = Unmap(retired_views \cup released \cup Destroyed
                             \cup {ptr[v] : v \in Taken})
    /\ held' = [h \in Holder |-> 0]
    /\ import' = [v \in View |-> IF v \in Taken /\ import[v] # "none" THEN "retired"
                                                               ELSE import[v]]
    /\ retired_views' = {} /\ retired_guest_imports' = {}
    /\ released' = {}
    /\ lost' = IF lost = "since" THEN "before" ELSE lost
    /\ UNCHANGED <<made, ptr, packet>>

----------------------------------------------------------------------------
Drain == \/ \E h \in Holder, p \in Ptr : EnsureView(h, p) \/ EnsurePacked(h, p)
         \/ FlushOnly
         \/ \E h \in Holder : ResolveMapping(h) \/ ResolvePacked(h)
         \/ Bind
         \/ \E g \in Image : BindImage(g) \/ DrawImage(g)
         \/ EndPacket
         \/ \E h \in Holder : RetireMapping(h) \/ RetireSpan(h) \/ DropPacked(h)

Engine == \/ \E r \in Slot : RetireSlot(r)
          \/ Seal \/ RetireAll
          \/ \E g \in Image : Evict(g) \/ Present(g)
          \/ PresentDone
          \/ DeviceLost

Next == Drain \/ Engine \/ Reset \/ \E S \in SUBSET Ring : Heartbeat(S)

Spec == Init /\ [][Next]_vars

----------------------------------------------------------------------------
(***************************************************************************)
(* Properties.                                                             *)
(***************************************************************************)

\* Every variable has its type.
TypeOK ==
    /\ page_views \in [Addr -> 0..MaxView]
    /\ made \in 0..MaxView
    /\ ptr \in [View -> Ptr]
    /\ held \in [Holder -> 0..MaxView]
    /\ import \in [View -> {"none", "live", "retired"}]
    /\ retired_views \subseteq Ptr
    /\ retired_guest_imports \subseteq View
    /\ packet \in 0..MaxView
    /\ live \subseteq View /\ ended \subseteq live
    /\ owner \in [Image -> 0..MaxView]
    /\ parent_wait \in [View -> SUBSET Slot]
    /\ barrier_wait \in [View -> SUBSET Slot]
    /\ image_wait \in [Image -> SUBSET Slot]
    /\ batch \subseteq Ring
    /\ open \subseteq Slot
    /\ reads \in [Slot -> SUBSET View]
    /\ released \subseteq Ptr
    /\ lost \in {"never", "since", "before"}

\* The pages of view v are where its pointer says.
Mapped(v) == ptr[v] \in Addr => page_views[ptr[v]] = v

\* No submission reads a view that is gone: unless the device was lost and not yet
\* reset, what an open slot or the window reads stays mapped until its fence,
\* however the view is retired, its images evicted and its address handed out
\* again.
NoReadAfterUnmap ==
    lost # "since" => \A r \in open : \A v \in reads[r] : Mapped(v)

\* A cached pointer is good: unless the device was lost and not yet reset, no alias
\* the engine or an earlier view released takes away the view a holder has cached.
CachedViewIsMapped ==
    lost # "since" => \A h \in Holder : held[h] # 0 => Mapped(held[h])

\* The same whatever happens to the device.  host.rs says the pointer of a stable
\* view "remains valid until its matching unmap_pages call", and state.rs that a
\* mapping's view is "Retired (never freed in place) whenever page_entries change".
CachedViewIsAlwaysMapped ==
    \A h \in Holder : held[h] # 0 => Mapped(held[h])

\* Every alias on its way back to the shim names the view it was given for: unless
\* the device was lost and not yet reset, it is on one list only, its view is still
\* mapped, and nobody has that view cached or imports it.  A list that named it
\* twice would unmap the next view that mmap puts there.
AliasNamesItsView ==
    lost # "since" =>
      \A a \in Addr \cap (released \cup retired_views) :
        /\ page_views[a] # 0
        /\ a \notin released \/ a \notin retired_views
        /\ \A h \in Holder : held[h] # page_views[a]
        /\ a \in released => page_views[a] \notin live /\ parent_wait[page_views[a]] = {}

\* Somebody will return the view at address a to the shim.
Owned(a) ==
    \/ \E h \in Holder : held[h] = page_views[a]
    \/ a \in retired_views \cup released
    \/ page_views[a] \in live
    \/ parent_wait[page_views[a]] # {}

\* No view is forgotten: one that is still mapped is cached, waits to be unmapped,
\* or belongs to the engine, which releases it.  The view of a packed resource is
\* the exception: dropping it retires nothing, so its import stays live.
NoViewForgotten ==
    lost = "never" =>
      \A a \in Addr : LET v == page_views[a] IN v # 0 =>
        Owned(a) \/ import[v] = "live"

----------------------------------------------------------------------------
(***************************************************************************)
(* The inductive strengthening the proofs use.                             *)
(***************************************************************************)

\* The engine has view v imported, alive or parked.
Imported(v) == v \in live \/ parent_wait[v] # {}

\* A pointer to v may be used from now on.
InUse(v) == \/ \E h \in Holder : held[h] = v
            \/ packet = v /\ import[v] = "live"

\* No view has a number that has not been given out, no two holders share one, and
\* only mappings and packed resources have an import.
Numbering ==
    /\ \A a \in Addr : page_views[a] <= made
    /\ \A a \in Addr : page_views[a] # 0 => ptr[page_views[a]] = a
    /\ \A h \in Holder : held[h] <= made
    /\ \A h, k \in Holder : held[h] = held[k] /\ held[h] # 0 => h = k
    /\ packet <= made
    /\ \A v \in View : import[v] # "none" => v <= made
    /\ \A h \in Packed : held[h] # 0 /\ ptr[held[h]] \in Addr => import[held[h]] = "live"
    /\ \A h \in Span : held[h] # 0 => import[held[h]] = "none"

\* Where a retired import is: on the list, ended, parked, or gone.
Retirement ==
    /\ \A v \in live : import[v] # "none"
    /\ \A h \in Holder : held[h] # 0 => import[held[h]] # "retired"
    /\ \A v \in retired_guest_imports : import[v] = "retired"
    /\ \A v \in ended : import[v] = "retired"
    /\ retired_guest_imports \cap ended = {}
    /\ \A v \in View : parent_wait[v] # {} =>
          /\ v \notin live \cup retired_guest_imports
          /\ import[v] = "retired"

\* What keeps import v from being freed before slot r has retired.
KeptFor(v, r) ==
    \/ v \in live \ ended
    \/ v \in ended /\ r \in barrier_wait[v]
    \/ v \in ended /\ \E g \in Image : owner[g] = v /\ (image_wait[g] = {} \/ r \in image_wait[g])
    \/ r \in parent_wait[v]

\* An import outlives what reads it and the images bound into it.
Fencing ==
    /\ \A r \in Slot \ open : reads[r] = {}
    /\ batch \subseteq open
    /\ \A g \in Image : owner[g] # 0 => owner[g] \in live
    /\ \A g \in Image : owner[g] = 0 => image_wait[g] = {}
    /\ \A r \in Slot : \A v \in reads[r] : KeptFor(v, r)

\* The view behind an import or a cached pointer is mapped, and on no list that
\* would unmap it behind its user's back.
Backed ==
    lost # "since" =>
      /\ \A v \in View : Imported(v) \/ InUse(v) => Mapped(v)
      /\ \A v \in View : Imported(v) \/ InUse(v) => ptr[v] \notin Addr \cap released
      /\ \A v \in View : (Imported(v) /\ v \notin retired_guest_imports) \/ InUse(v)
                            => ptr[v] \notin Addr \cap retired_views
      /\ \A a \in Addr \cap (released \cup retired_views) : page_views[a] # 0
      /\ released \cap retired_views \cap Addr = {}

IndInv == TypeOK /\ Numbering /\ Retirement /\ Fencing /\ Backed
=============================================================================
