------------------------------ MODULE BdifUsb ------------------------------
(***************************************************************************)
(* The receive queue of the virtual USB device of hw/vmapple/bdif.c.       *)
(*                                                                         *)
(* A peer on a character device sends frames: a length word and as many    *)
(* bytes.  The guest posts one buffer at a time with a CMD write, which is *)
(* one-shot, and polls BUSY; a read that finds a frame ready consumes it.  *)
(* A buffer posted before that read is stashed.  Every handler runs under  *)
(* the BQL, the read side of the character device in two steps: it asks    *)
(* how much it may send, and sends that much at most later.                *)
(*                                                                         *)
(* What travels is a sequence of units.  The length word is one unit, a    *)
(* payload byte is one; a unit has a value, and knows whether the peer     *)
(* meant it as a length word.  The device does not know.                   *)
(***************************************************************************)
EXTENDS Integers, Sequences

CONSTANTS MaxPacket,   \* VUSB_MAX_PACKET
          Addr,        \* guest addresses a buffer may have
          Writable,    \* those a DMA write reaches
          Streams      \* what the peer may have to send

Unit == [val : Nat, head : BOOLEAN]

\* What the peer sends is frames: behind as many units as a length word says there
\* is a length word again.
Framed(s) ==
    \A i \in 1..Len(s) :
        s[i].head /\ i + s[i].val + 1 <= Len(s) => s[i + s[i].val + 1].head

ASSUME UsbAssumption ==
    /\ MaxPacket \in Nat \ {0}
    /\ Writable \subseteq Addr /\ Addr # {}
    /\ Streams \subseteq Seq(Unit)
    /\ \A s \in Streams : Framed(s)

VARIABLES
    usb_queue, usb_rx_ready, usb_rx_posted, usb_rx_pending,
    rx,          \* usb_rx_addr, usb_rx_len
    rx_pending,  \* usb_rx_pending_addr, usb_rx_pending_len
    usb_input,   \* received and not delivered
    mem,         \* what the last DMA left at each guest address
    max_size,    \* what the character device may still send at once
    stream       \* what the peer has left to send

guestVars == <<usb_queue, usb_rx_posted, usb_rx_pending, rx, rx_pending>>
vars == <<guestVars, usb_rx_ready, usb_input, mem, max_size, stream>>

Buffer == [addr : Addr, len : 0..MaxPacket]

\* A buffer as vusb_reset_state leaves it, its address of no importance.
NoBuffer == [addr |-> CHOOSE a \in Addr : TRUE, len |-> 0]

Init ==
    /\ usb_queue = 0
    /\ usb_rx_ready = FALSE /\ usb_rx_posted = FALSE /\ usb_rx_pending = FALSE
    /\ rx = NoBuffer /\ rx_pending = NoBuffer
    /\ usb_input = <<>>
    /\ mem = [a \in Addr |-> <<>>]
    /\ max_size = 0
    /\ stream \in Streams

----------------------------------------------------------------------------
(***************************************************************************)
(* vusb_try_deliver, called last by whoever may have made a delivery       *)
(* possible, with the state that caller has just left.                     *)
(***************************************************************************)

\* The whole frame at the head of the input is there.
Whole(in) == in # <<>> /\ Len(in) >= 1 + in[1].val

\* A length no frame may have.
BadLength(in) == in # <<>> /\ in[1].val > MaxPacket

\* A frame is there and the posted buffer can take it.
Fits(in, buf) == Whole(in) /\ ~BadLength(in) /\ in[1].val <= buf.len

\* Variant: the length word stays in the input.
AfterFrame_KeepsHead(in) == SubSeq(in, in[1].val + 1, Len(in))

\* What is behind the first frame.
AfterFrame(in) == SubSeq(in, in[1].val + 2, Len(in))

\* An empty frame completes at once.  A failed DMA write loses the frame and leaves
\* the buffer posted.
Deliver(in, buf) ==
    /\ usb_input' = AfterFrame(in)
    /\ usb_rx_ready' = (in[1].val = 0 \/ buf.addr \in Writable)
    /\ mem' = IF in[1].val = 0 \/ buf.addr \notin Writable THEN mem
              ELSE [mem EXCEPT ![buf.addr] = SubSeq(in, 2, in[1].val + 1)]

\* Variant: a length out of range is a frame that is not complete.
try_deliver_BadLengthWaits(in, posted, buf) ==
    \/ /\ posted /\ Fits(in, buf)
       /\ Deliver(in, buf)
    \/ /\ ~(posted /\ Fits(in, buf))
       /\ usb_input' = in
       /\ usb_rx_ready' = FALSE
       /\ UNCHANGED mem

\* A length out of range flushes the input.  A frame that is not complete, or too
\* long for the buffer, waits.
try_deliver(in, posted, buf) ==
    \/ /\ posted /\ Fits(in, buf)
       /\ Deliver(in, buf)
    \/ /\ ~(posted /\ Fits(in, buf))
       /\ usb_input' = IF posted /\ BadLength(in) THEN <<>> ELSE in
       /\ usb_rx_ready' = FALSE
       /\ UNCHANGED mem

----------------------------------------------------------------------------
(***************************************************************************)
(* The character device.                                                   *)
(***************************************************************************)

\* VUSB_MAX_RX: two of the largest frames.
MaxRx == 2 * (MaxPacket + 1)

\* Variant: the room is not what is left of it.
CanReceive_Whole ==
    /\ Len(usb_input) < MaxRx
    /\ max_size' = MaxRx
    /\ UNCHANGED <<guestVars, usb_rx_ready, usb_input, mem, stream>>

\* vusb_can_receive, when the character device polls.
CanReceive ==
    /\ Len(usb_input) < MaxRx
    /\ max_size' = MaxRx - Len(usb_input)
    /\ UNCHANGED <<guestVars, usb_rx_ready, usb_input, mem, stream>>

\* vusb_receive, with no more than was asked for; what does not fit is dropped
\* whole.
Receive(n) ==
    /\ n \in 1..max_size /\ n <= Len(stream)
    /\ stream' = SubSeq(stream, n + 1, Len(stream))
    /\ max_size' = 0
    /\ IF Len(usb_input) + n > MaxRx
       THEN UNCHANGED <<usb_input, usb_rx_ready, mem>>
       ELSE LET in == usb_input \o SubSeq(stream, 1, n)
            IN  IF usb_rx_ready THEN usb_input' = in /\ UNCHANGED <<usb_rx_ready, mem>>
                                ELSE try_deliver(in, usb_rx_posted, rx)
    /\ UNCHANGED guestVars

\* Variant: only the completion is forgotten.
Forget_KeepsPending ==
    /\ usb_rx_ready' = FALSE /\ usb_rx_posted' = FALSE
    /\ usb_input' = <<>>
    /\ UNCHANGED <<usb_rx_pending, rx_pending>>

\* What CLOSED, BREAK and reset have in common.
Forget ==
    /\ usb_rx_ready' = FALSE /\ usb_rx_posted' = FALSE /\ usb_rx_pending' = FALSE
    /\ rx_pending' = NoBuffer
    /\ usb_input' = <<>>

\* vusb_event.  A peer that closed the connection starts its next one with a frame;
\* after a break it goes on where it was.
Event ==
    /\ Forget
    /\ \/ UNCHANGED <<stream, max_size>>
       \/ /\ max_size' = 0
          /\ \E k \in 1..(Len(stream) + 1) :
                /\ k <= Len(stream) => stream[k].head
                /\ stream' = SubSeq(stream, k, Len(stream))
    /\ UNCHANGED <<usb_queue, rx, mem>>

----------------------------------------------------------------------------
(***************************************************************************)
(* The guest's registers.                                                  *)
(***************************************************************************)

\* REG_QUEUE
SetQueue(q) ==
    /\ usb_queue' = q
    /\ UNCHANGED <<usb_rx_posted, usb_rx_pending, rx, rx_pending, usb_rx_ready,
                   usb_input, mem, max_size, stream>>

\* Variant: a buffer always replaces the one that is posted.
Post_Replaces(buf) ==
    /\ usb_queue = 0
    /\ buf.len \in 1..MaxPacket
    /\ rx' = buf
    /\ usb_rx_posted' = TRUE
    /\ try_deliver(usb_input, TRUE, buf)
    /\ UNCHANGED <<usb_queue, usb_rx_pending, rx_pending, max_size, stream>>

\* Variant: the length of the buffer is not looked at.
Post_AnyLength(buf) ==
    /\ usb_queue = 0 /\ ~usb_rx_ready
    /\ rx' = buf
    /\ usb_rx_posted' = TRUE
    /\ try_deliver(usb_input, TRUE, buf)
    /\ UNCHANGED <<usb_queue, usb_rx_pending, rx_pending, max_size, stream>>

\* REG_CMD on queue 0, with a descriptor that could be read and a length in range:
\* stash the buffer while a frame waits to be consumed (the later of two wins),
\* post it otherwise.
Post(buf) ==
    /\ usb_queue = 0
    /\ buf.len \in 1..MaxPacket
    /\ \/ /\ usb_rx_ready
          /\ usb_rx_pending' = TRUE
          /\ rx_pending' = buf
          /\ UNCHANGED <<usb_rx_posted, rx, usb_rx_ready, usb_input, mem>>
       \/ /\ ~usb_rx_ready
          /\ rx' = buf
          /\ usb_rx_posted' = TRUE
          /\ try_deliver(usb_input, TRUE, buf)
          /\ UNCHANGED <<usb_rx_pending, rx_pending>>
    /\ UNCHANGED <<usb_queue, max_size, stream>>

\* Variant: the stashed buffer is promoted and nothing is delivered to it.
Consume_PromotesOnly ==
    /\ usb_queue = 0 /\ usb_rx_ready
    /\ usb_rx_posted' = usb_rx_pending
    /\ usb_rx_pending' = FALSE
    /\ rx' = IF usb_rx_pending THEN rx_pending ELSE rx
    /\ rx_pending' = IF usb_rx_pending THEN NoBuffer ELSE rx_pending
    /\ usb_rx_ready' = FALSE
    /\ UNCHANGED <<usb_queue, usb_input, mem, max_size, stream>>

\* REG_BUSY read on queue 0 with a frame ready: consume it, promote the stashed
\* buffer and deliver the next frame to it.
Consume ==
    /\ usb_queue = 0 /\ usb_rx_ready
    /\ usb_rx_posted' = usb_rx_pending
    /\ usb_rx_pending' = FALSE
    /\ rx' = IF usb_rx_pending THEN rx_pending ELSE rx
    /\ rx_pending' = IF usb_rx_pending THEN NoBuffer ELSE rx_pending
    /\ try_deliver(usb_input, usb_rx_pending, rx_pending)
    /\ UNCHANGED <<usb_queue, max_size, stream>>

\* vusb_reset_state: the peer is not told.
Reset ==
    /\ usb_queue' = 0
    /\ rx' = NoBuffer
    /\ Forget
    /\ UNCHANGED <<mem, max_size, stream>>

Guest == \/ \E q \in {0, 1} : SetQueue(q)
         \/ \E a \in Addr, n \in 0..(MaxPacket + 1) : Post([addr |-> a, len |-> n])
         \/ Consume

Peer == CanReceive \/ Event \/ \E n \in 1..MaxRx : Receive(n)

Next == Guest \/ Peer \/ Reset

Spec == Init /\ [][Next]_vars

\* The character device polls and hands over what the peer has for as long as it may.
\* The guest comes back to queue 0, consumes what is ready and posts a buffer that
\* takes any frame and can be written.  Nobody needs to reset or break anything, and
\* anybody may, again and again.
Fairness ==
    /\ WF_vars(CanReceive)
    /\ SF_vars(\E n \in 1..MaxRx : Receive(n))
    /\ WF_vars(SetQueue(0))
    /\ SF_vars(\E a \in Writable : Post([addr |-> a, len |-> MaxPacket]))
    /\ SF_vars(Consume)

FairSpec == Spec /\ Fairness

----------------------------------------------------------------------------
(***************************************************************************)
(* Properties.                                                             *)
(***************************************************************************)

\* Every variable has its type.
TypeOK ==
    /\ usb_queue \in {0, 1}
    /\ usb_rx_ready \in BOOLEAN /\ usb_rx_posted \in BOOLEAN
    /\ usb_rx_pending \in BOOLEAN
    /\ rx \in Buffer /\ rx_pending \in Buffer
    /\ usb_input \in Seq(Unit) /\ stream \in Seq(Unit)
    /\ mem \in [Addr -> Seq(Unit)]
    /\ max_size \in 0..MaxRx

\* A CMD is one-shot, so no buffer is forgotten: a stashed one has a completed one
\* before it, whose consumption promotes it, and a completed one is posted.
StashIsPromoted ==
    /\ usb_rx_pending => usb_rx_ready
    /\ usb_rx_ready => usb_rx_posted

\* The guest polls and nothing else will wake the device: a frame that the posted
\* buffer can take never stays in the input.  Only a buffer the DMA cannot write
\* keeps a frame waiting, the one behind the frame it lost.
NoIdleFrame ==
    usb_rx_posted /\ ~usb_rx_ready /\ rx.addr \in Writable => ~Fits(usb_input, rx)

\* The character device sends what it was allowed earlier, and nothing of it is
\* dropped: what the guest and a reset do in between only makes room.
RoomIsKept == Len(usb_input) + max_size <= MaxRx

\* The next unit the device will take for a length word is one.
Aligned(in, rest) == in \o rest # <<>> => (in \o rest)[1].head

\* A delivery takes exactly one frame of the peer out of the stream, whatever the
\* pieces it came in: once in step with the peer, the device is out of step only
\* after it threw away input, or refused a length.  (The exception also leaves out the
\* last frame of an input when its DMA write fails.)
FramesStayWhole ==
    [][Aligned(usb_input, stream) /\ ~(usb_input' = <<>> /\ ~usb_rx_ready')
          => Aligned(usb_input', stream')]_vars

\* What the guest was told is ready stays in its buffer until the guest consumes
\* it, the stream breaks or the device is reset, whatever is posted or received in
\* the meantime.
ReadyStaysIntact ==
    [][usb_rx_ready /\ usb_rx_ready' /\ ~Consume => mem' = mem /\ rx' = rx]_vars

\* The protocol has no way to find the next length word again, and the device needs
\* none to go on: in step with the peer or out of it, after a reset in the middle of
\* a frame, a frame lost to a failed DMA write, or a length no frame may have, the
\* peer is never held off for good.
StreamIsTaken == <>(stream = <<>>)

\* The buffers the guest has posted and not got back: the one being filled or full,
\* and the one stashed behind it.
Boxes == IF ~usb_rx_posted THEN <<>>
         ELSE IF usb_rx_pending THEN <<rx, rx_pending>> ELSE <<rx>>

Mailbox == INSTANCE FrameMailbox WITH line <- usb_input \o stream,
                                      boxes <- Boxes,
                                      full <- usb_rx_ready

\* However the stream is cut, asked for and handed over, and whenever the guest posts,
\* polls or selects a queue: the device is a mailbox that takes frames off one line,
\* in order and whole, each into the buffer posted for it, and lets go of input only
\* for a length no frame may have, a failed DMA write, a break or a reset.
ImplementsMailbox == Mailbox!Spec

\* What the proofs carry from step to step.
IndInv == TypeOK /\ StashIsPromoted /\ NoIdleFrame /\ RoomIsKept
=============================================================================
