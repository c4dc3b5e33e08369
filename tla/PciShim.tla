------------------------------ MODULE PciShim ------------------------------
(***************************************************************************)
(* The threads of hw/display/reims-vgpu-pci.c around the device backend.   *)
(*                                                                         *)
(* Guest register writes arrive on a vCPU thread under the BQL; a worker   *)
(* thread drains the guest's FIFOs; a heartbeat thread polls the backend   *)
(* every 4 ms; a bottom half of the main loop applies the actions the      *)
(* backend queues; and the backend's own threads ask for that bottom half. *)
(* The BQL lets one vCPU or main-loop activity run at a time, so one       *)
(* program counter, bql, serves them all.                                  *)
(*                                                                         *)
(* The backend is modelled as the shim meets it: a device lock, the guest  *)
(* work still in its FIFOs, the ways a doorbell reaches it, and two queues *)
(* of actions.  The guest has the root FIFO and one child channel, which a *)
(* packet of the root FIFO defines and frees; work is counted, an          *)
(* interrupt pulse stands for every prompt action, and pulses coalesce.    *)
(***************************************************************************)
EXTENDS Integers

CONSTANTS Windows,    \* whether a host window may be the display: a set of BOOLEANs
          Refreshed,  \* whether a display client refreshes the QEMU console
          Notifiers,  \* the backend's own threads
          MaxRings    \* bound: doorbells the guest rings

ASSUME ShimAssumption ==
    /\ Windows \subseteq BOOLEAN
    /\ Refreshed \in BOOLEAN
    /\ MaxRings \in Nat

VARIABLES
    \* struct ReimsVGPUPCIState
    drain_pending, drain_stopping, heartbeat_stopping,
    action_bh,     \* the bottom half exists
    rust_handle,   \* the backend exists
    dirty,         \* the write tracker exists
    bh,            \* the bottom half is scheduled
    \* program counters
    drain, heartbeat, notifier, bql,
    fb,            \* fb_update: not running, delivering, or painting its feed
    \* the backend
    window,        \* a host window is the display
    inner,         \* holder of the device lock
    ingress,       \* register writes queued behind that lock
    root,          \* packets the guest has put in the root FIFO, not yet executed
    main_drain,    \* the root FIFO is marked for the next drain
    rung,          \* the lock-free child doorbell word is not zero
    fifo,          \* work the guest has put in the channel, not yet executed
    pending,       \* the channel is marked for the next drain
    open,          \* the channel is defined
    yield,         \* host_action_yield: a present waits for its paint
    present_action_pending,
    boundary,      \* present_boundary_seen
    scanout,       \* a ScanoutUpdate is queued
    prompt,        \* a prompt action is queued
    rings          \* doorbells rung so far

shimVars == <<drain_pending, drain_stopping, heartbeat_stopping, action_bh,
              rust_handle, dirty, bh>>
pcVars   == <<drain, heartbeat, notifier, bql, fb>>
rootVars == <<root, main_drain>>
doorVars == <<ingress, rootVars, rung, fifo, pending, open, rings>>
showVars == <<yield, present_action_pending, boundary, scanout, prompt>>
vars == <<shimVars, pcVars, window, inner, doorVars, showVars>>

\* A device that reims_vgpu_pci_realize has just brought up.
Init ==
    /\ drain_pending = FALSE /\ drain_stopping = FALSE /\ heartbeat_stopping = FALSE
    /\ action_bh = TRUE /\ rust_handle = TRUE /\ dirty = TRUE /\ bh = FALSE
    /\ drain = "check" /\ heartbeat = "check" /\ notifier = [n \in Notifiers |-> "idle"]
    /\ bql = "idle" /\ fb = "no"
    /\ window \in Windows
    /\ inner = "free"
    /\ ingress = 0 /\ root = 0 /\ main_drain = FALSE
    /\ rung = FALSE /\ fifo = 0 /\ pending = FALSE /\ open = FALSE
    /\ rings = 0
    /\ yield = FALSE /\ present_action_pending = FALSE /\ boundary = FALSE
    /\ scanout = FALSE /\ prompt = FALSE

----------------------------------------------------------------------------
(***************************************************************************)
(* The callbacks the backend wakes the shim with.                          *)
(***************************************************************************)

\* reims_vgpu_pci_schedule_bh, as seen by a caller that is not the worker: set the
\* flag and wake the worker if it sleeps on the condition.
schedule_bh ==
    /\ drain_pending' = TRUE
    /\ drain' = IF drain = "asleep" THEN "check" ELSE drain

\* The bottom half is marked; the main loop will run it.
qemu_bh_schedule == bh' = TRUE

\* The backend may queue an interrupt pulse, and then calls notify_actions.
MayInterrupt == \/ prompt' = TRUE /\ qemu_bh_schedule
                \/ UNCHANGED <<prompt, bh>>

----------------------------------------------------------------------------
(***************************************************************************)
(* reims_vgpu_pci_drain_thread.                                            *)
(***************************************************************************)

\* The predicate loop, under drain_mutex: stop first, then take the flag.
DrainCheck ==
    /\ drain = "check"
    /\ \/ /\ drain_stopping
          /\ drain' = "done"
          /\ UNCHANGED drain_pending
       \/ /\ ~drain_stopping /\ drain_pending
          /\ drain' = "enter"
          /\ drain_pending' = FALSE
       \/ /\ ~drain_stopping /\ ~drain_pending
          /\ drain' = "asleep"
          /\ UNCHANGED drain_pending
    /\ UNCHANGED <<drain_stopping, heartbeat_stopping, action_bh, rust_handle, dirty,
                   bh, heartbeat, notifier, bql, fb, window, inner, doorVars, showVars>>

\* device_drain looks at present_action_pending before it takes the lock, and
\* leaves the work where it is when a paint is owed.
DrainEnter ==
    /\ drain = "enter"
    /\ drain' = IF present_action_pending THEN "schedule" ELSE "lock"
    /\ UNCHANGED <<shimVars, heartbeat, notifier, bql, fb, window, inner, doorVars,
                   showVars>>

\* lock_for_drain: take the lock, apply the queued writes in order (each one asks
\* for another drain), fold the lock-free doorbells.
DrainLock ==
    /\ drain = "lock"
    /\ inner = "free"
    /\ inner' = "drain"
    /\ drain' = "tranche"
    /\ root' = root + ingress
    /\ main_drain' = (main_drain \/ ingress # 0)
    /\ pending' = (pending \/ rung)
    /\ drain_pending' = (drain_pending \/ ingress # 0)
    /\ ingress' = 0
    /\ rung' = FALSE
    /\ UNCHANGED <<drain_stopping, heartbeat_stopping, action_bh, rust_handle, dirty,
                   bh, heartbeat, notifier, bql, fb, window, fifo, open, rings,
                   showVars>>

\* The root packets may define the channel, or free it and perhaps define it again.  A
\* guest frees a channel it has nothing left on, and only a free takes the mark.
MayDefineOrFree ==
    \/ UNCHANGED <<open, pending>>
    \/ open' = TRUE /\ UNCHANGED pending
    \/ fifo = 0 /\ open' \in BOOLEAN /\ pending' = FALSE

\* drain_main_fifo, before any channel: every packet of the root FIFO.
DrainMain ==
    /\ drain = "tranche"
    /\ ~yield /\ main_drain
    /\ root' = 0
    /\ main_drain' = FALSE
    /\ IF root > 0 THEN MayDefineOrFree ELSE UNCHANGED <<open, pending>>
    /\ scanout' \in {scanout, scanout \/ ~boundary}
    /\ MayInterrupt
    /\ UNCHANGED <<drain_pending, drain_stopping, heartbeat_stopping, action_bh,
                   rust_handle, dirty, pcVars, window, inner, ingress, rung, fifo,
                   rings, yield, present_action_pending, boundary>>

\* drain_pending with nothing marked, or with a paint still owed, runs nothing.
DrainNothing ==
    /\ drain = "tranche"
    /\ yield \/ (~main_drain /\ ~pending)
    /\ drain' = "unserved"
    /\ UNCHANGED <<shimVars, heartbeat, notifier, bql, fb, window, inner, doorVars,
                   showVars>>

\* Variant: one packet is taken without a look at the tail of the ring.
DrainRun_PastTail ==
    /\ drain = "tranche"
    /\ ~yield /\ ~main_drain /\ pending
    /\ drain' = "served"
    /\ fifo' = fifo - 1
    /\ pending' = FALSE
    /\ MayInterrupt
    /\ UNCHANGED <<drain_pending, drain_stopping, heartbeat_stopping, action_bh,
                   rust_handle, dirty, heartbeat, notifier, bql, fb, window, inner,
                   ingress, rootVars, rung, open, rings, yield,
                   present_action_pending, boundary, scanout>>

\* One pass over the channel: to the end of the ring, or up to the first present,
\* which stops the pass and marks what is left.  Before the first present of a
\* boot an early frame may be queued without one.  Interrupts go out as they are
\* raised.
DrainRun ==
    /\ drain = "tranche"
    /\ ~yield /\ ~main_drain /\ pending
    /\ drain' = "served"
    /\ \/ /\ fifo' = 0
          /\ pending' = FALSE
          /\ scanout' \in {scanout, scanout \/ ~boundary}
          /\ UNCHANGED <<yield, boundary>>
       \/ /\ fifo > 0
          /\ fifo' \in 0..(fifo - 1)
          /\ pending' = (fifo' # 0)
          /\ yield' = TRUE
          /\ boundary' = TRUE
          /\ scanout' = (scanout \/ ~window)
    /\ MayInterrupt
    /\ UNCHANGED <<drain_pending, drain_stopping, heartbeat_stopping, action_bh,
                   rust_handle, dirty, heartbeat, notifier, bql, fb, window, inner,
                   ingress, rootVars, rung, open, rings, present_action_pending>>

\* The bounded refill: a doorbell that came in while nothing was running.
DrainRefill ==
    /\ drain = "unserved"
    /\ ~yield /\ rung
    /\ drain' = "tranche"
    /\ rung' = FALSE
    /\ pending' = TRUE
    /\ UNCHANGED <<shimVars, heartbeat, notifier, bql, fb, window, inner, ingress,
                   rootVars, fifo, open, rings, showVars>>

\* End of the tranche.  A doorbell of a channel that already ran is folded and
\* dropped; with a window the present is acknowledged here, without one the paint
\* is owed from now on; the lock is released.
DrainEnd ==
    /\ \/ drain = "served"
       \/ drain = "unserved" /\ (yield \/ ~rung)
    /\ drain' = "schedule"
    /\ inner' = "free"
    /\ rung' = (rung /\ yield)
    /\ yield' = (yield /\ ~window)
    /\ present_action_pending' = (present_action_pending \/ (yield /\ ~window))
    /\ UNCHANGED <<shimVars, heartbeat, notifier, bql, fb, window, ingress, rootVars,
                   fifo, pending, open, rings, boundary, scanout, prompt>>

\* Variant: the flag is cleared once more when the drain has returned.
DrainSchedule_ClearsFlag ==
    /\ drain = "schedule"
    /\ drain' = "check"
    /\ drain_pending' = FALSE
    /\ qemu_bh_schedule
    /\ UNCHANGED <<drain_stopping, heartbeat_stopping, action_bh, rust_handle, dirty,
                   heartbeat, notifier, bql, fb, window, inner, doorVars, showVars>>

\* The worker asks for the actions of its tranche to be delivered, and loops.
DrainSchedule ==
    /\ drain = "schedule"
    /\ drain' = "check"
    /\ qemu_bh_schedule
    /\ UNCHANGED <<drain_pending, drain_stopping, heartbeat_stopping, action_bh,
                   rust_handle, dirty, heartbeat, notifier, bql, fb, window, inner,
                   doorVars, showVars>>

----------------------------------------------------------------------------
(***************************************************************************)
(* reims_vgpu_pci_heartbeat_thread.                                        *)
(***************************************************************************)

\* Variant: the poll as the comment on drain_pending describes it, which publishes
\* what the guest has produced on the root FIFO and does not notice a channel.
Poll_ProducerOnly ==
    /\ rung' = FALSE
    /\ main_drain' = (main_drain \/ root > 0)
    /\ pending' = (pending \/ rung)
    /\ IF root > 0 THEN schedule_bh ELSE UNCHANGED <<drain_pending, drain>>
    /\ MayInterrupt

\* device_poll with the device lock: fold the lock-free doorbells, publish a root FIFO
\* that is not empty and every channel that is defined again, ask for a drain if there
\* is any (publish_stranded_fifos, the rescue of a doorbell that got lost), and pulse
\* the vblank when it is due.
Poll ==
    /\ rung' = FALSE
    /\ main_drain' = (main_drain \/ root > 0)
    /\ pending' = (pending \/ rung \/ open)
    /\ IF root > 0 \/ open THEN schedule_bh ELSE UNCHANGED <<drain_pending, drain>>
    /\ MayInterrupt

\* Stop, or sleep; both the 4 ms timeout and the signal of a stop end the sleep.
HeartbeatCheck ==
    /\ heartbeat = "check"
    /\ heartbeat' = IF heartbeat_stopping THEN "done" ELSE "asleep"
    /\ UNCHANGED <<shimVars, drain, notifier, bql, fb, window, inner, doorVars,
                   showVars>>

HeartbeatWake ==
    /\ heartbeat = "asleep"
    /\ heartbeat' = IF heartbeat_stopping THEN "done" ELSE "poll"
    /\ UNCHANGED <<shimVars, drain, notifier, bql, fb, window, inner, doorVars,
                   showVars>>

\* The poll takes the device lock only if it is free; it keeps it for a while.
HeartbeatPoll ==
    /\ heartbeat = "poll"
    /\ inner = "free"
    /\ inner' = "heartbeat"
    /\ heartbeat' = "polling"
    /\ Poll
    /\ UNCHANGED <<drain_stopping, heartbeat_stopping, action_bh, rust_handle, dirty,
                   notifier, bql, fb, window, ingress, root, fifo, open, rings, yield,
                   present_action_pending, boundary, scanout>>

\* Variant: a poll that raised nothing does not schedule the bottom half.
HeartbeatPolled_NoBH ==
    /\ heartbeat = "polling"
    /\ inner' = "free"
    /\ heartbeat' = "check"
    /\ UNCHANGED <<shimVars, drain, notifier, bql, fb, window, doorVars, showVars>>

\* The poll returns and the device lock is free again.
HeartbeatPolled ==
    /\ heartbeat = "polling"
    /\ inner' = "free"
    /\ heartbeat' = "schedule"
    /\ UNCHANGED <<shimVars, drain, notifier, bql, fb, window, doorVars, showVars>>

\* With the lock taken by somebody else only the vblank is pulsed.
HeartbeatContended ==
    /\ heartbeat = "poll"
    /\ inner # "free"
    /\ heartbeat' = "schedule"
    /\ MayInterrupt
    /\ UNCHANGED <<drain_pending, drain_stopping, heartbeat_stopping, action_bh,
                   rust_handle, dirty, drain, notifier, bql, fb, window, inner, doorVars,
                   yield, present_action_pending, boundary, scanout>>

HeartbeatSchedule ==
    /\ heartbeat = "schedule"
    /\ heartbeat' = "check"
    /\ qemu_bh_schedule
    /\ UNCHANGED <<drain_pending, drain_stopping, heartbeat_stopping, action_bh,
                   rust_handle, dirty, drain, notifier, bql, fb, window, inner,
                   doorVars, showVars>>

----------------------------------------------------------------------------
(***************************************************************************)
(* A thread of the backend (stamp completion, the host window) queues a    *)
(* prompt action and calls reims_vgpu_pci_notify_actions.                  *)
(***************************************************************************)

NotifierQueue(n) ==
    /\ notifier[n] = "idle"
    /\ rust_handle
    /\ notifier' = [notifier EXCEPT ![n] = "notify"]
    /\ prompt' = TRUE
    /\ UNCHANGED <<shimVars, drain, heartbeat, bql, fb, window, inner, doorVars,
                   yield, present_action_pending, boundary, scanout>>

\* The test of s->action_bh and the call that uses it are two reads.
NotifierTest(n) ==
    /\ notifier[n] = "notify"
    /\ notifier' = [notifier EXCEPT ![n] = IF action_bh THEN "call" ELSE "idle"]
    /\ UNCHANGED <<shimVars, drain, heartbeat, bql, fb, window, inner, doorVars,
                   showVars>>

NotifierCall(n) ==
    /\ notifier[n] = "call"
    /\ notifier' = [notifier EXCEPT ![n] = "idle"]
    /\ bh' = (bh \/ action_bh)
    /\ UNCHANGED <<drain_pending, drain_stopping, heartbeat_stopping, action_bh,
                   rust_handle, dirty, drain, heartbeat, bql, fb, window, inner,
                   doorVars, showVars>>

----------------------------------------------------------------------------
(***************************************************************************)
(* reims_vgpu_pci_gfx_write, on a vCPU thread under the BQL.               *)
(***************************************************************************)

\* A guest puts work on a channel that is defined and rings its doorbell: lock-free.
GfxRing ==
    /\ bql = "idle" /\ rust_handle
    /\ open
    /\ rings < MaxRings
    /\ rings' = rings + 1
    /\ fifo' = fifo + 1
    /\ rung' = TRUE
    /\ bql' = "wake"
    /\ UNCHANGED <<shimVars, drain, heartbeat, notifier, fb, window, inner, ingress,
                   rootVars, pending, open, showVars>>

\* A doorbell of the root FIFO is applied on the spot when no earlier write is queued
\* and the device lock is free; the handler marks the FIFO under that lock.
GfxWriteDirect ==
    /\ bql = "idle" /\ rust_handle
    /\ rings < MaxRings
    /\ ingress = 0 /\ inner = "free"
    /\ rings' = rings + 1
    /\ root' = root + 1
    /\ main_drain' = TRUE
    /\ inner' = "bql"
    /\ bql' = "wake"
    /\ UNCHANGED <<shimVars, drain, heartbeat, notifier, fb, window, ingress, rung, fifo,
                   pending, open, showVars>>

GfxWriteQueued ==
    /\ bql = "idle" /\ rust_handle
    /\ rings < MaxRings
    /\ ingress # 0 \/ inner # "free"
    /\ rings' = rings + 1
    /\ ingress' = ingress + 1
    /\ bql' = "wake"
    /\ UNCHANGED <<shimVars, drain, heartbeat, notifier, fb, window, inner, rootVars,
                   rung, fifo, pending, open, showVars>>

\* schedule_bh from the backend, then the residual actions are delivered.
GfxWake ==
    /\ bql = "wake"
    /\ bql' = "deliver"
    /\ inner' = IF inner = "bql" THEN "free" ELSE inner
    /\ schedule_bh
    /\ UNCHANGED <<drain_stopping, heartbeat_stopping, action_bh, rust_handle, dirty,
                   bh, heartbeat, notifier, fb, window, doorVars, showVars>>

----------------------------------------------------------------------------
(***************************************************************************)
(* The main loop: the bottom half, the display refresh, and the delivery   *)
(* both share with gfx_write.                                              *)
(***************************************************************************)

\* reims_vgpu_pci_bh
BottomHalf ==
    /\ bql = "idle"
    /\ bh /\ action_bh
    /\ bh' = FALSE
    /\ bql' = IF rust_handle THEN "deliver" ELSE "idle"
    /\ UNCHANGED <<drain_pending, drain_stopping, heartbeat_stopping, action_bh,
                   rust_handle, dirty, drain, heartbeat, notifier, fb, window, inner,
                   doorVars, showVars>>

\* reims_vgpu_pci_fb_update polls, delivers, and then paints the early console.
FbUpdate ==
    /\ Refreshed
    /\ bql = "idle" /\ rust_handle
    /\ bql' = "deliver"
    /\ fb' = "deliver"
    /\ \/ inner = "free" /\ Poll
       \/ /\ inner # "free"
          /\ MayInterrupt
          /\ UNCHANGED <<main_drain, rung, pending, drain_pending, drain>>
    /\ UNCHANGED <<drain_stopping, heartbeat_stopping, action_bh, rust_handle, dirty,
                   heartbeat, notifier, window, inner, ingress, root, fifo, open, rings,
                   yield, present_action_pending, boundary, scanout>>

\* pop_action: prompt actions come first and need no lock.
DeliverPrompt ==
    /\ bql = "deliver"
    /\ prompt
    /\ prompt' = FALSE
    /\ UNCHANGED <<shimVars, pcVars, window, inner, doorVars, yield,
                   present_action_pending, boundary, scanout>>

\* The others need the device lock, and are left alone when it is taken.
\* reims_vgpu_pci_apply_scanout then asks whether the present may paint; before
\* the boundary the answer may be no, and the action is spent.
DeliverScanout ==
    /\ bql = "deliver"
    /\ ~prompt
    /\ inner = "free" /\ scanout
    /\ scanout' = FALSE
    /\ bql' \in IF boundary THEN {"paint"} ELSE {"paint", "deliver"}
    /\ UNCHANGED <<shimVars, drain, heartbeat, notifier, fb, window, inner, doorVars,
                   yield, present_action_pending, boundary, prompt>>

\* Nothing left, or the lock taken.  fb_update then pulls the early frame again
\* when the backend names one.
DeliverEnd ==
    /\ bql = "deliver"
    /\ ~prompt
    /\ inner # "free" \/ ~scanout
    /\ \/ bql' = "idle" /\ fb' = "no"
       \/ fb = "deliver" /\ ~boundary /\ bql' = "paint" /\ fb' = "feed"
    /\ UNCHANGED <<shimVars, drain, heartbeat, notifier, window, inner, doorVars,
                   showVars>>

\* Where a paint returns to: the delivery loop, or the end of fb_update.
PaintReturns ==
    /\ bql' = IF fb = "feed" THEN "idle" ELSE "deliver"
    /\ fb' = IF fb = "feed" THEN "no" ELSE fb

\* Variant: a failed copy is not accounted for, whatever it was for.
Paint_FailureForgotten ==
    /\ bql = "paint"
    /\ inner = "free"
    /\ \/ /\ inner' = "bql"
          /\ bql' = "painted"
          /\ yield' = FALSE
          /\ present_action_pending' = FALSE
          /\ UNCHANGED fb
       \/ /\ PaintReturns
          /\ UNCHANGED <<inner, yield, present_action_pending>>
    /\ UNCHANGED <<shimVars, drain, heartbeat, notifier, window, doorVars,
                   boundary, scanout, prompt>>

\* scanout_copy waits for the lock when a present is owed its paint, and gives up
\* on a busy lock otherwise.  A copy that failed without a present to account
\* for leaves everything as it was.
Paint ==
    /\ bql = "paint"
    /\ inner = "free"
    /\ \/ /\ inner' = "bql"
          /\ bql' = "painted"
          /\ yield' = FALSE
          /\ present_action_pending' = FALSE
          /\ UNCHANGED fb
       \/ /\ ~present_action_pending
          /\ PaintReturns
          /\ UNCHANGED <<inner, yield, present_action_pending>>
    /\ UNCHANGED <<shimVars, drain, heartbeat, notifier, window, doorVars,
                   boundary, scanout, prompt>>

PaintContended ==
    /\ bql = "paint"
    /\ inner # "free" /\ ~present_action_pending
    /\ PaintReturns
    /\ UNCHANGED <<shimVars, drain, heartbeat, notifier, window, inner, doorVars,
                   showVars>>

\* The paint is accounted for: the worker may go on.
Painted ==
    /\ bql = "painted"
    /\ PaintReturns
    /\ inner' = "free"
    /\ schedule_bh
    /\ UNCHANGED <<drain_stopping, heartbeat_stopping, action_bh, rust_handle, dirty,
                   bh, heartbeat, notifier, window, doorVars, showVars>>

----------------------------------------------------------------------------
(***************************************************************************)
(* Reset and teardown, on the main loop.                                   *)
(***************************************************************************)

\* Variant: the reset empties the queues and forgets the paint that was owed.
ResetBackend_KeepsPresent ==
    /\ bql = "idle" /\ rust_handle
    /\ inner = "free"
    /\ bql' = "reset"
    /\ ingress' = 0 /\ root' = 0 /\ main_drain' = FALSE
    /\ rung' = FALSE /\ fifo' = 0 /\ pending' = FALSE /\ open' = FALSE
    /\ yield' = FALSE /\ boundary' = FALSE /\ scanout' = FALSE /\ prompt' = FALSE
    /\ IF ingress # 0 THEN schedule_bh ELSE UNCHANGED <<drain_pending, drain>>
    /\ UNCHANGED <<drain_stopping, heartbeat_stopping, action_bh, rust_handle, dirty,
                   bh, heartbeat, notifier, fb, window, inner, rings,
                   present_action_pending>>

\* reims_vgpu_pci_reset with the vCPUs paused: device_reset under the device lock,
\* every queue emptied, then the drain flag cleared in a step of its own.
ResetBackend ==
    /\ bql = "idle" /\ rust_handle
    /\ inner = "free"
    /\ bql' = "reset"
    /\ ingress' = 0 /\ root' = 0 /\ main_drain' = FALSE
    /\ rung' = FALSE /\ fifo' = 0 /\ pending' = FALSE /\ open' = FALSE
    /\ yield' = FALSE /\ present_action_pending' = FALSE /\ boundary' = FALSE
    /\ scanout' = FALSE /\ prompt' = FALSE
    /\ IF ingress # 0 THEN schedule_bh ELSE UNCHANGED <<drain_pending, drain>>
    /\ UNCHANGED <<drain_stopping, heartbeat_stopping, action_bh, rust_handle, dirty,
                   bh, heartbeat, notifier, fb, window, inner, rings>>

ResetFlag ==
    /\ bql = "reset" \/ (bql = "idle" /\ ~rust_handle /\ dirty)
    /\ bql' = "idle"
    /\ drain_pending' = FALSE
    /\ UNCHANGED <<drain_stopping, heartbeat_stopping, action_bh, rust_handle, dirty,
                   bh, drain, heartbeat, notifier, fb, window, inner, doorVars,
                   showVars>>

\* reims_vgpu_pci_stop_backend, from the shutdown notifier or from exit: one thread
\* is told to stop and joined, then the other.
StopHeartbeat ==
    /\ bql = "idle" /\ rust_handle
    /\ bql' = "join heartbeat"
    /\ heartbeat_stopping' = TRUE
    /\ UNCHANGED <<drain_pending, drain_stopping, action_bh, rust_handle, dirty, bh,
                   drain, heartbeat, notifier, fb, window, inner, doorVars, showVars>>

\* Variants: the heartbeat is told to stop and not joined; the worker is told to
\* stop without a signal.
StopDrain_NoJoin ==
    /\ bql = "join heartbeat"
    /\ bql' = "join drain"
    /\ drain_stopping' = TRUE
    /\ drain' = IF drain = "asleep" THEN "check" ELSE drain
    /\ UNCHANGED <<drain_pending, heartbeat_stopping, action_bh, rust_handle, dirty,
                   bh, heartbeat, notifier, fb, window, inner, doorVars, showVars>>

StopDrain_NoSignal ==
    /\ bql = "join heartbeat"
    /\ heartbeat = "done"
    /\ bql' = "join drain"
    /\ drain_stopping' = TRUE
    /\ UNCHANGED <<drain_pending, heartbeat_stopping, action_bh, rust_handle, dirty,
                   bh, drain, heartbeat, notifier, fb, window, inner, doorVars,
                   showVars>>

StopDrain ==
    /\ bql = "join heartbeat"
    /\ heartbeat = "done"
    /\ bql' = "join drain"
    /\ drain_stopping' = TRUE
    /\ drain' = IF drain = "asleep" THEN "check" ELSE drain
    /\ UNCHANGED <<drain_pending, heartbeat_stopping, action_bh, rust_handle, dirty,
                   bh, heartbeat, notifier, fb, window, inner, doorVars, showVars>>

\* Only then does the bottom half go,
DeleteBH ==
    /\ bql = "join drain"
    /\ drain = "done"
    /\ bql' = "destroy"
    /\ action_bh' = FALSE
    /\ bh' = FALSE
    /\ UNCHANGED <<drain_pending, drain_stopping, heartbeat_stopping, rust_handle,
                   dirty, drain, heartbeat, notifier, fb, window, inner, doorVars,
                   showVars>>

\* and the backend after it.
Destroy ==
    /\ bql = "destroy"
    /\ bql' = "idle"
    /\ rust_handle' = FALSE
    /\ UNCHANGED <<drain_pending, drain_stopping, heartbeat_stopping, action_bh, dirty,
                   bh, drain, heartbeat, notifier, fb, window, inner, doorVars,
                   showVars>>

\* The rest of reims_vgpu_pci_exit, once stop_backend has returned.
Exit ==
    /\ bql = "idle" /\ ~rust_handle
    /\ dirty
    /\ dirty' = FALSE
    /\ UNCHANGED <<drain_pending, drain_stopping, heartbeat_stopping, action_bh,
                   rust_handle, bh, pcVars, window, inner, doorVars, showVars>>

----------------------------------------------------------------------------
DrainThread == \/ DrainCheck \/ DrainEnter \/ DrainLock \/ DrainMain \/ DrainNothing
               \/ DrainRun \/ DrainRefill \/ DrainEnd \/ DrainSchedule

HeartbeatThread == \/ HeartbeatCheck \/ HeartbeatWake \/ HeartbeatPoll
                   \/ HeartbeatPolled \/ HeartbeatContended \/ HeartbeatSchedule

Notify == \E n \in Notifiers :
             NotifierQueue(n) \/ NotifierTest(n) \/ NotifierCall(n)

\* What a holder of the BQL does next, once it has begun.
Continue == \/ GfxWake \/ DeliverPrompt \/ DeliverScanout \/ DeliverEnd \/ Paint
            \/ PaintContended \/ Painted \/ (bql = "reset" /\ ResetFlag)
            \/ StopDrain \/ DeleteBH \/ Destroy

Begin == \/ GfxRing \/ GfxWriteDirect \/ GfxWriteQueued \/ BottomHalf \/ FbUpdate
         \/ ResetBackend \/ (bql = "idle" /\ ResetFlag) \/ StopHeartbeat \/ Exit

Next == DrainThread \/ HeartbeatThread \/ Notify \/ Continue \/ Begin

\* Every thread runs, the main loop gets the BQL again and again and runs a bottom
\* half that is scheduled, and a thread that waits for the device lock gets it in
\* the end.  The lock is free for most of a heartbeat's 4 ms, and the bottom half
\* is scheduled by whoever has just released it: so neither the bottom half nor a
\* step of the delivery meets it taken every single time.  Nothing makes the
\* guest ring, the display refresh, or anybody reset or stop.
Fairness ==
    /\ WF_vars(DrainThread) /\ SF_vars(DrainLock)
    /\ WF_vars(HeartbeatThread)
    /\ \A n \in Notifiers : WF_vars(NotifierTest(n) \/ NotifierCall(n))
    /\ WF_vars(Continue) /\ SF_vars(Paint \/ DeliverScanout)
    /\ SF_vars(inner = "free" /\ BottomHalf)
    /\ SF_vars(inner = "free" /\ DeliverPrompt)

Spec == Init /\ [][Next]_vars

FairSpec == Spec /\ Fairness

----------------------------------------------------------------------------
(***************************************************************************)
(* Properties.                                                             *)
(***************************************************************************)

\* The switches of the shim and of the backend.
Flags ==
    /\ drain_pending \in BOOLEAN /\ drain_stopping \in BOOLEAN
    /\ heartbeat_stopping \in BOOLEAN
    /\ action_bh \in BOOLEAN /\ rust_handle \in BOOLEAN /\ dirty \in BOOLEAN
    /\ bh \in BOOLEAN /\ window \in BOOLEAN
    /\ main_drain \in BOOLEAN
    /\ rung \in BOOLEAN /\ pending \in BOOLEAN /\ open \in BOOLEAN
    /\ yield \in BOOLEAN /\ present_action_pending \in BOOLEAN
    /\ boundary \in BOOLEAN /\ scanout \in BOOLEAN /\ prompt \in BOOLEAN

\* The doorbells and the work, counted.
Counters == ingress \in Nat /\ root \in Nat /\ fifo \in Nat /\ rings \in Nat

\* The program counters and the lock.
Places ==
    /\ drain \in {"check", "asleep", "enter", "lock", "tranche", "served", "unserved",
                  "schedule", "done"}
    /\ heartbeat \in {"check", "asleep", "poll", "polling", "schedule", "done"}
    /\ notifier \in [Notifiers -> {"idle", "notify", "call"}]
    /\ bql \in {"idle", "wake", "deliver", "paint", "painted", "reset",
                "join heartbeat", "join drain", "destroy"}
    /\ fb \in {"no", "deliver", "feed"}
    /\ inner \in {"free", "drain", "heartbeat", "bql"}

\* Every variable has its type.
TypeOK == Flags /\ Counters /\ Places

\* No teardown is under way.
Running == rust_handle /\ ~heartbeat_stopping

\* Somebody is bound to run the worker: the flag is up, the worker is on its way
\* through the backend, a caller is about to raise the flag, or a paint that will
\* raise it is owed.
DrainOwed ==
    \/ drain_pending
    \/ drain \in {"enter", "lock", "tranche", "served", "unserved"}
    \/ bql \in {"wake", "painted"}
    \/ present_action_pending

\* No doorbell is left with nobody due to serve it: not a queued write, not a marked
\* root FIFO, not a rung channel, not one marked for a drain (with a host window the
\* last is left to the heartbeat).  The flag taken before the drain, the skip while a
\* paint is owed and the late clear in reset could each lose one.
NoWakeLost ==
    Running => (ingress # 0 \/ main_drain \/ rung \/ (pending /\ ~window) => DrainOwed)

\* The delivery loop is running, or its caller is about to enter it.
Delivering ==
    \/ bql \in {"wake", "deliver"}
    \/ bql \in {"paint", "painted"} /\ fb # "feed"

\* No queued action is left with nobody due to deliver it: whoever made the bottom
\* half give up on a busy device lock schedules it again afterwards.
NoActionStranded ==
    Running /\ (scanout \/ prompt) =>
       \/ bh
       \/ Delivering
       \/ drain \notin {"check", "asleep", "done"}
       \/ heartbeat \notin {"check", "asleep", "done"}
       \/ \E n \in Notifiers : notifier[n] # "idle"

\* While a present waits for its paint the paint is on its way: its action is in
\* the queue, or is being applied.  Otherwise the worker would skip every drain
\* for good.
PaintIsComing ==
    present_action_pending /\ rust_handle => scanout \/ bql = "paint"

\* The threads of the shim have ended before the bottom half, the backend or the
\* write tracker they use goes away.
ThreadsEndFirst ==
    ~action_bh \/ ~rust_handle \/ ~dirty => drain = "done" /\ heartbeat = "done"

\* No join waits for a thread that waits for the joiner: the worker is not left
\* asleep on its condition, and the device lock it may need is held neither by the
\* thread that joins it nor by the heartbeat, which has ended.
JoinsCanReturn ==
    /\ bql \in {"join heartbeat", "join drain"} => inner # "bql"
    /\ bql = "join drain" => inner # "heartbeat" /\ drain # "asleep"

\* Work in a FIFO is marked for the next drain, or its doorbell is still up.
WorkIsMarked == /\ root > 0 => main_drain
                /\ fifo > 0 => rung \/ pending

\* The refill is the only place that forgets a doorbell: no fold, poll, partial pass,
\* channel definition, paint, reset or teardown leaves work in a FIFO without a mark,
\* save the end of a tranche that ran the channel and found it rung again.
OnlyTheRefillForgets ==
    [][WorkIsMarked =>
          WorkIsMarked' \/ (drain = "served" /\ drain' = "schedule" /\ rung /\ ~yield)]_vars

\* Work the guest has rung for is executed, unless the device is reset or stopped.
\* The doorbell the refill drops and the work left behind with a window depend for it
\* on the heartbeat, which publishes every defined channel again, and so on a guest
\* that puts no work on a channel it has not defined.
WorkIsDrained ==
    root + fifo + ingress > 0 ~> root + fifo + ingress = 0 \/ ~Running

\* A present gets its paint, however often the bottom half finds the device lock
\* taken, so the worker never stays away for good.
PresentIsPainted ==
    present_action_pending ~> ~present_action_pending \/ ~Running

\* Stopping the backend ends: both joins return whatever the threads were doing.
StopEnds ==
    heartbeat_stopping ~> ~rust_handle

\* A doorbell is never dropped while work is in the channel: the refill loop says a
\* channel rung again while its own drain was in flight "has had that work seen".
RefillHasSeenTheWork ==
    Running /\ ~window /\ fifo > 0 => rung \/ pending \/ DrainOwed

\* notify_actions may be called from any thread: what it calls still exists.
NotifyFindsBH == \A n \in Notifiers : notifier[n] = "call" => action_bh

----------------------------------------------------------------------------
(***************************************************************************)
(* The inductive strengthening the proofs use.                             *)
(***************************************************************************)

InTranche == drain \in {"tranche", "served", "unserved"}

\* Who holds the device lock.
LockHolder ==
    /\ inner = "drain" <=> InTranche
    /\ inner = "heartbeat" <=> heartbeat = "polling"
    /\ inner = "bql" => bql \in {"wake", "painted"}
    /\ bql = "painted" => inner = "bql"
    /\ fb = "feed" => bql \in {"paint", "painted"}

\* A present that waits has its action in the queue or under the brush, and only
\* the tranche that made it has not told the others yet.
PresentLine ==
    /\ present_action_pending => yield /\ ~window
    /\ yield => boundary
    /\ yield /\ window => drain = "served"
    /\ yield /\ ~window =>
         \/ present_action_pending /\ (scanout \/ bql = "paint")
         \/ drain = "served" /\ scanout

\* What a tranche has left behind, and what a reset has.
DoorbellLine ==
    /\ drain \in {"served", "unserved"} /\ ~yield => ~pending /\ ~main_drain
    /\ drain = "served" => ~main_drain
    /\ InTranche /\ (ingress # 0 \/ rung) => drain_pending \/ bql = "wake"
    /\ bql = "reset" => /\ ingress = 0 /\ root = 0 /\ ~main_drain
                        /\ ~rung /\ ~pending /\ ~open

\* The order of the teardown.
StopLine ==
    /\ bql \in {"join heartbeat", "join drain", "destroy"} => heartbeat_stopping
    /\ ~action_bh \/ ~rust_handle \/ drain_stopping => heartbeat_stopping
    /\ drain = "done" => drain_stopping
    /\ bql = "join drain" => drain_stopping
    /\ drain_stopping => drain # "asleep"
    /\ ~action_bh \/ ~rust_handle => drain = "done" /\ heartbeat = "done"
    /\ bql \in {"join drain", "destroy"} => heartbeat = "done"
    /\ bql = "destroy" => drain = "done"
    /\ ~dirty => ~rust_handle

IndInv == /\ TypeOK /\ LockHolder /\ PresentLine /\ DoorbellLine /\ StopLine
          /\ NoWakeLost /\ NoActionStranded
=============================================================================
