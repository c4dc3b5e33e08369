# A formal model of orchard's device code

orchard boots macOS guests in QEMU. It consists of a fork of QEMU with a GPU device
(`qemu/hw/display/reims-vgpu-*`), the VMApple machine (`qemu/hw/vmapple`), a few
changes to the Arm target, the Rust GPU backend it links (`reims-vgpu`), and the
scripts that fetch, patch and launch images. This directory holds TLA+ modules for
the parts of it where several actors share state, TLC configurations that check
them, and TLAPS proofs.

Paths below are relative to the repository; `dirty.c`, `pci.c` and `mmio.c` are
`qemu/hw/display/reims-vgpu-{dirty,pci,mmio}.c`, `bdif.c` is
`qemu/hw/vmapple/bdif.c`; Rust paths are below
`reims-vgpu/crates/reims-vgpu/src/`, and `engine/` is `backend/vulkan/engine/` there.

## 1. Inventory

| Component | State | Operations | Who it meets |
|---|---|---|---|
| Guest-write tracker (`dirty.c`) | token -> page set with generation, per-page stamps and `arm_at`; logged regions; harvest count | track, untrack, gen, written_since from any thread; harvest and free under the BQL | the accelerator's dirty log, guest vCPUs, backend readers |
| PCI shim (`pci.c`) | `drain_pending`, two stop flags, the action bottom half, backend handle, console state | register writes, drain worker, heartbeat, bottom half, display refresh, reset, shutdown, exit | backend through a table of callbacks, in both directions |
| MMIO shim (`mmio.c`) | the same with one-shot bottom halves and a timer | the same, all under the BQL | as above |
| Backend queues (`device/mod.rs`, `device/display_surface.rs`, `runtime/drain/mod.rs`, `runtime/mmio.rs`) | device lock, ingress queue, root FIFO, lock-free doorbell word, open channels, channel mask, two action queues, present handshake | gfx_write, drain, poll, pop_action, scanout_copy, reset | the shims |
| Page views (`pci.c`, `runtime/mapper/mod.rs`, `runtime/gva_view.rs`, `runtime/bound_buffers.rs`, `model/state.rs`) | live aliases of guest pages; the pointer and import cached by each mapping, task span and packed resource; two lists of retired ones | map_pages, unmap_pages, build, retire, flush, reset | FlatView, the import pool |
| Host RAM imports and graveyard (`engine/host_ram.rs`, `engine/pools/`, `engine/window_present.rs`) | live imports and their children, handles parked under a mask of open slots, the open batch, the list of released aliases | bind, retire, release, submit, retire a slot, present, maintenance, device loss | page views, the GPU, the host window |
| Guest RAM spans (`reims-vgpu-shim.c`) | none | coalescing FlatView ranges | backend |
| Virtual USB (`bdif.c`) | queue number, posted and stashed buffer, completion, input bytes | QUEUE, CMD and BUSY registers, character-device callbacks, reset | guest driver, peer on a character device |
| Backdoor block device (`bdif.c`) | the AUX and ROOT images | vblk_cmd | block layer; the guest's NVRAM is on AUX |
| Hypercalls (`hvc.c`, `smccc.c`, `psci.c`) | pointer-authentication keys | HVC, CPU_ON | CPUs |
| AES engine (`aes.c`) | command FIFO, key slots, interrupt status | register access | guest driver |
| Configuration device, virtio-blk wrapper, machine, GICv2m | tables and wiring | realize | |
| Load/store emulation (`emulate-ldst.c`) | none | decode and perform one instruction | the accelerator's exit handler |
| Scripts (`scripts/`) | files | fetch, extract, patch, build, launch | |

What is hard here is concurrency and ordering. Generations are read on threads that
do not hold the BQL while a harvest that does hold it drops its own lock twice. A
worker, a heartbeat, backend threads and the main loop wake each other with flags that
are taken before the work is done. The present handshake makes the worker wait for
the main loop and the main loop for the worker. Teardown runs against all of them.
The USB queue has three parties who can each act between two steps of another. A view
of guest pages is unmapped when the guest moves the pages, while submissions and
presents still read it; its address is then handed out again, and lists that name
addresses go on existing; and the device may be lost in between.
`PROJECT.json` lists each hazard at its line, with the properties aimed at it.

## 2. Modules

| Module | Models |
|---|---|
| `DirtyTracker` | the write tracker with the accelerator, vCPUs and readers around it |
| `MCDirtyTracker` | its small instances: RAM in one region, a RAM BAR in another |
| `DirtyTrackerProofs` | theorems about it |
| `WriteWitness` | what the tracker promises, with no log, bitmap, generation or lock |
| `WriteWitnessProofs` | `DirtyTracker` implements it |
| `DirtyExposure` | the tracker with a record of the copies that met one of three windows |
| `MCDirtyExposure` | the small instances of `MCDirtyTracker` with that record |
| `DirtyExposureProofs` | in this model a store is lost only to a copy that met one of them |
| `PciShim` | the threads of the PCI shim composed with the part of the backend they meet |
| `PciShimProofs` | theorems about it |
| `BdifUsb` | the virtual USB receive queue with its guest and its peer |
| `MCBdifUsb` | the streams the peer sends |
| `BdifUsbProofs` | theorems about it |
| `FrameMailbox` | what the receive queue promises, with no input buffer, room or register |
| `FrameMailboxProofs` | `BdifUsb` implements it |
| `GuestViews` | the life of a view of guest pages: shim, device state, import pool, GPU |
| `GuestViewsProofs` | theorems about it |

Names ending in a suffix after an underscore, introduced by a comment "Variant", are
wrong forms of the definition that follows them. They are used only to see that a
property notices the mistake.

### DirtyTracker

The fields of `struct ReimsVgpuDirty` and of its sets keep their names. `track`,
`untrack`, `gen`, `written_since` and `free` are one action each, because each is one
critical section; `gen` is two, since a reader either records the generation next to a
copy (`Stamp`) or compares it (`Compare`). A reader makes its copy first and reads the
generation afterwards (`runtime/mapping_write/mod.rs:1108-1138` and every other caller of
`stamp_guest_write_gen`), so `Copy` and `Stamp` are two steps: `hand` is the copy that has
no generation yet. On the MMIO shim both happen under one hold of the BQL, so no harvest
falls between them; on the PCI shim whole harvests may. There is one copy in hand at a
time, since the backend's readers work under the device lock. `StampNothing` is a stamp
where the host cannot watch the pages. The harvest is one action for each section
between lock operations: `HarvestBegin` (the skip test), `HarvestSync` (slice table
and log sync, unlocked), `HarvestLock`, one `HarvestSet` per set, `HarvestUnlock`, one
`HarvestClear` per page, and `HarvestEnd`, which turns logging on where a page asked for
it. Stores by vCPUs fall between any two of them. Within one set the pages are read
in one step; stores to different pages commute, so nothing is lost by it.

A page's content is the number of stores made to it, and a copy records that
number, so "out of date" is a comparison. `host` tells four set-ups apart: with the
MMIO shim readers run in a bottom half and hold the BQL, with the PCI shim they run on
the drain thread; under KVM a store reaches the bitmap only at a sync, under TCG at
once. KVM's log with manual protection, the bitmap and the FlatView are modelled from
QEMU's own code as the tracker uses it. Left out: the merging of adjacent pages into
one clear call, growth of the slice table, page sizes that differ.

### WriteWitness

The promise of `reims-vgpu-dirty.h` as a specification: readers take copies, the guest
stores at any time, a doorbell hands over what was stored so far, and the handoff is
over only when every copy that misses such a store has been reported. Reports may name
pages that did not change, never leave out one that did. `DirtyTracker!Witness` is the
instance: a reader is a token, `current` is what `written_since` would leave out of its
answer (`CurrentPages`), `handed` is the content at the last harvest that was not
skipped, and the handoff lasts while the harvest's program counter is not idle. A
doorbell whose harvest is skipped is no handoff here; finding 1 is about those.

### DirtyExposure

On which copies can a store be lost, on any host? Five history variables have, for each
copy, the pages of it that met one of three windows:

- `raced`: the copy was made of a page that the harvest under way had found written and
  still had to clear (finding 2);
- `late`: the page was reported between the copy and the reading of its generation, so
  the copy is stamped with a generation that already counts a store it misses;
- `overtaken`: a store fell between the visits of two sets that share the page, where
  stores set bitmap bits themselves (finding 3).

`handRaced` and `handLate` keep the first two for the copy that has no generation yet. The
actions are the tracker's own with the record kept beside them, and nothing reads it
(`ExposureOnlyWatches`). The pages of a copy that met no window are `Sheltered`, and the
properties make for them, on every host, the promises that `NoStoreLost` and
`HandoffObserved` make on the safe one.

Each of the three is needed: with any left out TLC finds a lost store. For the second,
check `NoStoreLostToALateStamp` with the constants of `DirtyClearRace.cfg`: copy, store,
harvest, stamp, and the copy is reported current for good. The comment at
`runtime/mapping_write/mod.rs:1131` calls the moment after the write the one where "the
copy's currency can be pinned"; with the PCI shim's readers it is too late by whatever
was harvested since. That the three are all is a statement about this model, with its
one copy in hand and its set of steps, not about code it leaves out. A region whose
logging this harvest is about to turn on is no window: it has no history, and stores made
to it meanwhile are not logged, but a RAM block starts with every bit set, only logged
pages are ever cleared, and so the first harvest that covers the region reports each of
its pages.

### PciShim

One program counter for each thread (`drain`, `heartbeat`, `notifier`) and one, `bql`,
for whatever runs under the BQL, since that lock admits one activity at a time. `inner`
is the holder of the backend's device lock. A step ends where a lock is released or
another thread can observe a difference. The guest has the root FIFO and one child
channel: `root` and `fifo` count the work in them, `main_drain` and `pending` mark them
for the next drain. Packets of the root FIFO define the channel and free it
(`DrainMain`, `MayDefineOrFree`); `open` is `open_child_mask`, and nothing but a definition
sets it. A doorbell takes one of the three routes of `device_gfx_write`: the root FIFO's is
applied under the device lock (`GfxWriteDirect`) or queued behind it (`GfxWriteQueued`),
the channel's is lock-free (`GfxRing`). `Poll` is `device_poll` with
`publish_stranded_fifos`: it marks a root FIFO that is not empty and every open channel,
and schedules a drain if there is one. `scanout` and `prompt` say that an action of each queue is
waiting; equal actions coalesce. With `window` true the host window is the display.
What other packets do is reduced to: one may raise an interrupt, and one of the channel
may be a present, which ends the pass.

The guest is assumed to put work on a channel only after its definition was executed,
and to free a channel only when nothing is left on it. The first is what
`runtime/drain/mod.rs:7949-7953` measures and relies on: a channel that was rung and never
defined is not published again by the rescue. `control_fifo` is taken to be on.

Left out: page views, mode setting, cursor, the framebuffer copy itself, translation
holds, parked positions, the surface ring (`iosfc`), more than one channel (which is why a
refill after the only channel ran finds nothing else to do), and the error paths of
realize.

### BdifUsb

All handlers run under the BQL and are one action each, with `vusb_try_deliver` part of
the action that calls it. The stream is a sequence of units: a length word is one unit,
a payload byte is one, so a length word cut in two by the transport is not
distinguished from one that has not come yet; the code treats both alike. A unit
records whether the peer meant it as a length word; the device looks only at the value.
`CanReceive` and `Receive` are separate, as in the character layer: the answer of the
first is used by the second later. `usb_enabled` asks whether a character device is
configured, which does not change, so it is taken to hold. CMD with an unreadable
descriptor or a length out of range changes nothing and is not an action. Queue 1
(transmit) keeps no state. The peer is assumed to send frames (`Framed`): behind as many
units as a length word says comes another length word. It may announce too long a
payload, and the device may fall out of step with it.

### FrameMailbox

The promise of the receive side: one line of units, at most two buffers in a queue, and a
flag that the first is full. A handler may take the frame at the head of the line, whole,
into the first buffer; give up a length no frame may have; or leave things as they are.
A break loses the buffers and some of the line. `BdifUsb!Mailbox` is the instance: the
line is `usb_input` with `stream` behind it, so that receiving is a stutter unless it
completes a frame, and the buffers are the posted one and the stashed one. When a frame
that is within reach must be taken is not part of it; `NoIdleFrame` says that.

### GuestViews

Three layers, each with its variables. The shim: `page_views` has the view at each
address mmap may choose. The device state: `held` is what a mapping (`contig_ptr`), a
task span (`gva_host_views`) or a packed resource has cached, `import` the state of its
`GuestRamImport`, `retired_views` and `retired_guest_imports` the two lists that
`flush_retired_views` empties. The engine: `live` and `ended` are the imports of
`HostRamImports`, `owner` the images bound into one, the three `_wait` variables the
graveyard's masks by kind of handle, `batch`, `open` and `reads` the submission ring with
the window's bit, `released` the list of released aliases.

The drain thread works packets under the device lock: `EnsureView`, `EnsurePacked`,
`ResolveMapping`, `ResolvePacked`, `Bind`, `BindImage`, `DrawImage`, and the three ways a
view is retired. Resolving an import and binding it are two steps, because a packet
resolves others in between, and each resolution flushes. `Heartbeat` runs when no packet
does. Fences, evictions, presents and a lost device come at any time. `Reset` is
`reset_with_host` as a whole, in its order.

Every view has one length, so a pointer stands for the pair of pointer and length the
code compares. An import is made for one view and dies with it, so the number of a view
is also the id of its import. Submissions finish in any order, which allows more than
one queue does. Left out: the other kinds of handle in the graveyard and their
recycling, a batch whose submission fails, and a packed resource refused after its
view was mapped. So is a footprint refused after `map_pages` (`runtime/mapper/mod.rs:2006`),
which returns without caching the pointer; it takes an empty page list or a page size
that is no power of two. A `map_pages` that fails leaves nothing behind and is not an action.

## 3. Runs

| Run | Instance | Question and answer |
|---|---|---|
| `dirty_tracker` | two pages in two regions, one of them remappable, two tokens, three harvests, one store per page; host mmio_kvm | `NoStoreLost`, `HandoffObserved`, `MovedGenNamesPages`, `GenNeverGoesBack`, `TypeOK` hold, and so does `ImplementsWitness`: `DirtyTracker` implements `WriteWitness` |
| `dirty_exposure` | two pages in two regions, two tokens, three harvests, one store per page; host pci_tcg | `NoStoreLostUnexposed`, `HandoffObservedUnexposed`, `ArmedIsLogged` hold, under `ExposedSpec` |
| `dirty_skip` | one page, one token | `SkipTellsNothing` fails: finding 1 |
| `dirty_clear_race` | one page, one token, pci_kvm, under `ExposedSpec` | `NoStoreLostToTheClear` fails: finding 2 |
| `dirty_shared_page` | one page, two tokens, mmio_tcg | `NoStoreLostAnywhere` fails: finding 3 |
| `pci_shim` | four doorbells, one backend thread, display refresh, window or not | `NoWakeLost`, `NoActionStranded`, `PaintIsComing`, `ThreadsEndFirst`, `JoinsCanReturn`, `OnlyTheRefillForgets`, `TypeOK` hold |
| `pci_shim_live` | three doorbells, no refresh and no backend thread, window or not | `WorkIsDrained`, `PresentIsPainted`, `StopEnds` hold under `Fairness` |
| `pci_refill` | three doorbells, no window | `RefillHasSeenTheWork` fails: finding 4 |
| `pci_notify` | one backend thread | `NotifyFindsBH` fails: finding 5 |
| `bdif_usb` | packets of up to two bytes, buffers at two writable addresses and a hole, two frames of every length from empty to too long, then one of a single byte; payload bytes that, read as a length, are empty, full or too long | `StashIsPromoted`, `NoIdleFrame`, `RoomIsKept`, `FramesStayWhole`, `ReadyStaysIntact`, `TypeOK` hold, `ImplementsMailbox` holds, and `StreamIsTaken` under `Fairness` |
| `guest_views` | one mapping, one span, one packed resource, two addresses, one ring slot and the window, one image, two views | `NoReadAfterUnmap`, `CachedViewIsMapped`, `AliasNamesItsView`, `NoViewForgotten`, `TypeOK` hold |
| `guest_views_lost` | one mapping, one address, one ring slot and the window, one image, two views | `CachedViewIsAlwaysMapped` fails: finding 6 |

Bounds. Two tokens over two pages give sets that are disjoint, equal or overlapping;
arming takes two harvests (one to turn logging on, one that covers the set), so the
third is the first that can report, and a second store to a page cannot be told from the
first by a reader that has not looked. Host pci_tcg is the one that allows most: readers
run at any time, and stores set bits at once. The safety theorems about the tracker drop
all of these bounds. For the shim, one doorbell is spent on defining the channel; two more
suffice for one to arrive at each point of a drain of the other, and the fourth gives a
queued write behind a queued write, or a definition after a free;
counts above that only repeat. The liveness run drops the refresh and the backend
thread, which can only help delivery. For USB a packet limit of two has empty, partial,
exact and too long frames for a buffer of one or two bytes, and six units of room, so
that the input fills up; payload bytes are what a device out of step reads as
lengths. For the views, two are enough for the second to get the address of the
first or to have one beside it, and the ring slot and the window are two readers whose
fences come in either order; the proofs drop these bounds. Larger instances,
checked once and without error: the tracker with its record and both inductive invariants
on all four hosts, with one page, two tokens, four harvests and two stores (813,782
states), three views at one address (2,710,481 states) and last frames of one or three
bytes (418,564 states).

Deadlock is checked in `bdif_usb`, where something can always happen. The tracker's
runs end in `Free` and at the bounds, the shim's after `Exit`, and the views' when no
view is left to build: they really stop.

Fairness of the USB queue (`BdifUsb!Fairness`). The character device asks for room and
hands over what it has, which is the main loop's polling. The guest returns to queue 0,
consumes a frame that is ready, and posts buffers of full size that can be written:
an assumption about the guest's driver, without which nothing can be delivered. Resets,
buffers that are too short or unwritable and frames out of step may come any number of
times.

Fairness of the shim (`PciShim!Fairness`). Each thread takes its steps, which the host scheduler
gives. A thread that waits for the device lock gets it in the end (strong fairness on
`DrainLock` and on a paint that waits): parking_lot's mutexes are eventually fair. The
main loop takes the BQL again and again and runs a scheduled bottom half, which need not
meet the device lock taken every time: whoever released the lock last is the one who
schedules the bottom half, and the heartbeat holds it for a small part of its 4 ms.
Nothing makes the guest ring, the display refresh, or anybody reset or stop. Without the
last assumption `pop_action`, which only tries the lock, may find it taken for ever; the
code has no bound on that.

## 4. Proofs

Each proof module extends its component and states theorems for every value of its
constants, under one named assumption each: `TrackerAssumption` (types of the constants,
`RegionOf` total), `ShimAssumption` (two Booleans, a natural number),
`UsbAssumption` (at least one byte and one address; streams are framed sequences of
units) and `ViewsAssumption` (a RAMBlock pointer is no address of a constructed view,
the window has a bit of its own, the three kinds of holder are disjoint). TLC evaluates
them in every run.

**The tracker.** `NoStoreLost` alone is not inductive: in the middle of a harvest a
report may already be on the list of pages to clear. `IndInv` adds `VisitedIsTold` (a
set the running harvest has visited was told of every page that will be cleared or whose
logging starts only now), `FoundOut` (a copy that misses a store from before the doorbell
is caught by the time its set is visited), and `Bookkeeping`. `VisitedIsTold` is where
the host matters: a reader or a store in the middle of the visit breaks it, which is
findings 2 and 3, so these parts are stated for the host where neither happens.
`HandoffObserved` follows from `FoundOut` once the harvest is over. `GenNeverGoesBack`
and `ArmedIsLogged` are proved on every host.

**The tracker on every host.** `ExposureInv` is the same argument without the host: its
parts speak of sheltered pages only, and the record takes the place of the host's
restraint. `ShelteredIsTold` says that a visited set was told of every page to be cleared,
and, while the visit goes on, that no set still to be visited can add a page of its own to
the list; a copy made in the clear pass and a store between two visits would break it, and
both are recorded instead. `HandIsSheltered` says it of the copy that has no generation
yet: no sheltered page of it will be cleared, and a store it misses has a report on its
way; a report that comes before the stamp moves the page to `handLate`.
`ShelteredIsFoundOut` is `FoundOut` for every host. `Sections` carries what the harvest
knows between its locks, in particular that what is not logged has its bit set. From it
follow `LostOnlyInAWindow` and `HarvestDeliversUnexposed`. `WindowsNeedTheirHost` says
which host can meet which window: the first two need a reader off the BQL, the third a
bitmap that stores set themselves; where readers hold the BQL and the bitmap moves at a
sync only, every page of every copy is sheltered, and the two theorems give back the ones
above.

`WriteWitnessProofs` shows that on the safe host every step of the tracker is a step of
`WriteWitness` or a stutter (`TrackerImplementsWitness`). The one step that needs an
argument is the end of the harvest, which must find every stale copy reported: that is
`FoundOut` of the invariant. `HarvestSet` maps to a `Report`, and logs, bitmaps and the
clear pass to stutters, since `CurrentPages` does not look at them. `MovesAreNamed` is
proved there too, on every host: a generation moves only together with the stamp of one
of its pages.

**The shim.** `IndInv` has `LockHolder` (who holds the device lock at which step),
`PresentLine` (a present that waits has its action queued or being painted),
`DoorbellLine` (what a tranche and a reset leave behind) and `StopLine` (the order of the
teardown). `NoWakeLost` needs `DoorbellLine` at the end of a tranche, where a doorbell
that came during it is dropped: it is safe to drop only because the flag has been raised
or the vCPU is about to raise it. It needs `LockHolder` in reset, which clears the flag
after the lock is free. `PaintIsComing` follows from `PresentLine`, `ThreadsEndFirst` from
`StopLine`, and `JoinsCanReturn` from `StopLine` and `LockHolder`: it is the part of
`StopEnds` that does not depend on fairness. `OnlyTheRefillForgets` is an action property,
proved step by step: whatever folds, moves or clears a doorbell, defines or frees the
channel, leaves the work in the FIFOs marked, except the mask of finding 4.

**The USB queue.** The invariants themselves, together, are inductive
(`IndInv`). `TryDeliver` states once what a delivery attempt leaves, for any input and
buffer, and every handler cites it. `ReadyStaysIntact` is proved from the invariant as
an action property.
`FramesStayWhole` is one too: input and stream together are a suffix of what they were
before, `Framed` holds of every suffix of a framed sequence, and a delivery takes
exactly one frame off the front, so what is then at the front is a length word again.

`FrameMailboxProofs` shows that every step of the queue is a step of `FrameMailbox` or a
stutter (`QueueImplementsMailbox`). `DeliverySettles` does it once for `vusb_try_deliver`,
for any caller whose input and stream together are the line: a frame that is whole in the
input is the frame at the head of the line, and what is behind it in the input is what is
behind it in the line (`HeadOfLine`). Two parts of the invariant are needed: `RoomIsKept`,
since a `Receive` that drops its units takes them out of the middle of the line, and
`StashIsPromoted`, without which posted and stashed buffer are no queue.

**The views.** None of the properties is inductive, and each needs the others'
state. `IndInv` has four parts besides the types. `Numbering`: mapped views have distinct
addresses, no two holders share a view, and numbers not given out appear nowhere.
`Retirement`: where a retired import may be, namely on the list, ended, parked, or gone.
`Fencing`: an import that an open slot reads is kept for that slot by one of four things,
an import in use, the fence barrier of an ended one, a child image not yet released
past that slot, or its own place in the graveyard; every step that gives one of them
up puts another in its place (`KeptFor`). `Backed`: whatever is imported or cached is
mapped, and its address is on no list that a flush would unmap; this is where reuse of an
address matters, since the lists name addresses. `Backed` is conditional on the device
not having been lost since the last reset, which is finding 6. `AliasNamesItsView` follows
from `Backed` and `Numbering`.

Only model-checked: liveness (`WorkIsDrained`, `PresentIsPainted`, `StopEnds`,
`StreamIsTaken`), since fairness is outside the prover's reach, and the six
counterexamples.

## 5. Findings

1. `dirty_skip`: a doorbell's harvest is skipped when no generation was read since the
   last one (`dirty.c:482`). A reader that recorded a generation before that last harvest
   may compare after the doorbell and be told its copy is current, although a store made
   before the doorbell is not in it. The comment at `dirty.c:84` says the skipped
   harvest could tell no reader anything new; the header promises that stores ordered
   before the doorbell are observed before the work runs.
2. `dirty_clear_race`: the lock is dropped before the clear pass (`dirty.c:606`). With the
   PCI shim a reader may make its copy and stamp it there; a store after it sets a bit that
   is about to be cleared, and no later read reports it. The run leaves out the copies that
   met another window, so that the clear alone is to blame.
3. `dirty_shared_page`: under TCG a store may set a page's bit after one set has read
   it and before another does. The page is cleared on the word of the second, and the
   first is never told, though the comment at `dirty.c:418` says the answer must be the
   same for every set.
4. `pci_refill`: a channel rung after its own pass reached the end of its ring, while the
   tranche goes on, has its doorbell folded and masked out (`runtime/drain/mod.rs:8044`);
   the comment says that work has been seen. It waits for the next doorbell or the
   heartbeat's rescue; `WorkIsDrained` shows that the rescue works for a channel the guest
   has defined, and `OnlyTheRefillForgets` that no other step loses one.
5. `pci_notify`: `notify_actions` tests `action_bh` and then uses it (`pci.c:449`), and
   `stop_backend` deletes it before the backend's own threads have ended.
6. `guest_views_lost`: `on_device_lost` destroys every import, those of views still in
   use included, and each puts its alias on the list of released ones
   (`engine/pools/teardown.rs:213`). The next flush or heartbeat unmaps the view, while
   the mapping goes on caching `contig_ptr` and `contig_import`; a later draw binds that
   address again. `model/state.rs:2026` says a mapping's view is "Retired (never freed in
   place) whenever `page_entries` change", and `engine/mod.rs:374` that every guest
   resource comes back by itself. Until the next reset `NoReadAfterUnmap` and
   `CachedViewIsMapped` therefore claim nothing; after it they hold again.

Seen while modelling, without a run of its own:

- A copy is stamped with a generation read after it was made, on the PCI shim without
  the BQL: the second window of `DirtyExposure`, where a store and the harvest that reports
  it fall between the two and the copy is current for good.
- The comment on `drain_pending` (`runtime/drain/mod.rs:7891-7897`) says that returning with
  `child_mask` set "leaves work that nothing re-arms", since "the 4 ms poll publishes
  *producer* state rather than noticing an already-set mask", and reports a freeze of 29 s.
  `publish_stranded_fifos` (7842-7871), which the poll calls, now publishes every open
  channel whatever its producer and schedules a drain, so in the code as it is the poll
  does re-arm such work, if the channel is defined. With a host window this is the
  ordinary case, not a rescue: the tranche acknowledges its own present, leaves the rest of
  the channel marked and wakes nobody (`device/mod.rs:648`). `WorkIsDrained` rests on it. With
  the poll as the comment describes it (`Poll_ProducerOnly`) TLC finds the stall the comment
  reports. Which of the two was true of the boot that froze cannot be told from the code.

Dropping a packed resource retires neither its view
nor its import (`runtime/bound_buffers.rs:347`), so such views accumulate until a reset,
while `pci.c:104` says constructed views leave when the mapping's lifetime ends;
`NoViewForgotten` makes the exception explicit. The comment at
`runtime/draw/vulkan.rs:2869` still says the PCI shim retains every alias until teardown.

## 6. Not modelled, and the plan

Done: the tracker with its abstract specification, the refinement and the record of its
three windows, the PCI shim with the backend's queues, the USB receive queue with its
abstract specification and the refinement, the views of guest pages with the import
pool, each with its safety proofs.

Not modelled, because they have no state that outlives a handler, or nothing that
interleaves with it:

- The MMIO shim. Every register handler, bottom half and timer runs to its end under the
  BQL, so it is the sequential case of `PciShim`, whose properties are about what happens
  between two locks. Its `map_pages_stable` is 0: its views are never imported, and the
  first flush after retirement unmaps them. Its two ways of using the tracker are hosts
  of `DirtyTracker`.
- The backdoor block device (`vblk_cmd`) and the USB transmit queue: one synchronous
  handler each, without state between calls.
- Guest RAM spans: a stateless walk of the FlatView, repeated on every call.
- Hypercalls: the boot CPU saves its keys before it starts another CPU, and only a reset
  clears them; one write before every read.
- The AES engine: a FIFO worked by one handler at a time, upstream code but for small
  fixes.
- Exit of the device (it is not hotpluggable, so exit ends the process) beyond the order
  of the teardown in `PciShim`, and the error paths of realize, which are early returns
  before any thread runs.
- A window that always has a present in flight keeps its bit set in every mask, and what
  was parked since then stays. Nothing in the code bounds that, so no liveness is claimed
  for the graveyard.

Out of reach or out of scope: what a GPU packet does, shader translation and rendering;
the configuration device, the machine and the GICv2m, which are tables and wiring; the
instruction decoder of `emulate-ldst.c`, a pure function on 32-bit words better served by
testing against an assembler; the scripts; and the rest of QEMU, which is upstream code.

Next, in this order:

1. A batch whose submission fails, in `GuestViews`: what was parked under its slot.
2. More than one channel in `PciShim`, so that a refill finds other work to do.
3. The composition of `PciShim` and `GuestViews`: the heartbeat's maintenance between the
   tranches of a drain.
