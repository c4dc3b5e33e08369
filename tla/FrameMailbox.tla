---------------------------- MODULE FrameMailbox ----------------------------
(***************************************************************************)
(* What the receive side of the virtual USB device promises its guest and  *)
(* its peer (hw/vmapple/bdif.c).                                           *)
(*                                                                         *)
(* There is one line of units, whoever holds them at the moment, and at    *)
(* most two buffers: the one being filled and, behind a full one, the one  *)
(* to fill next.  No handler may do more than move on from here: take the  *)
(* frame at the head of the line into the first buffer, give up what has a *)
(* length no frame may have, or leave everything as it is.  Where the line *)
(* is cut between the device's input and the character device, how much    *)
(* room was promised and which queue is selected do not appear; BdifUsb is *)
(* shown to implement this module.                                         *)
(***************************************************************************)
EXTENDS Naturals, Sequences

CONSTANTS MaxPacket,   \* the longest frame
          Addr,        \* guest addresses
          Writable,    \* those a DMA write reaches
          Streams      \* what the peer may have to send

VARIABLES line,    \* what the guest has not got yet, in order
          boxes,   \* the guest's buffers, the one to fill first
          full,    \* the first buffer waits to be emptied
          mem      \* what the last DMA left at each guest address

vars == <<line, boxes, full, mem>>

Buffer == [addr : Addr, len : 1..MaxPacket]

Init ==
    /\ line \in Streams
    /\ boxes = <<>>
    /\ full = FALSE
    /\ mem = [a \in Addr |-> <<>>]

----------------------------------------------------------------------------
(***************************************************************************)
(* What may become of the line once the first buffer is not full.          *)
(***************************************************************************)

\* Nothing is delivered yet.
Wait(bs) ==
    /\ boxes' = bs
    /\ full' = FALSE
    /\ UNCHANGED <<line, mem>>

\* The frame at the head of the line is taken off it, the whole of it and nothing
\* else, and is in the first buffer; a buffer that cannot be written loses it and
\* stays empty.
Fill(bs) ==
    /\ line # <<>>
    /\ LET n == line[1].val
       IN  /\ n <= bs[1].len /\ n < Len(line)
           /\ line' = SubSeq(line, n + 2, Len(line))
           /\ full' = (n = 0 \/ bs[1].addr \in Writable)
           /\ mem' = IF n = 0 \/ bs[1].addr \notin Writable THEN mem
                     ELSE [mem EXCEPT ![bs[1].addr] = SubSeq(line, 2, n + 1)]
    /\ boxes' = bs

\* A length no frame may have is given up, with some of what is behind it.
Refuse(bs) ==
    /\ line # <<>> /\ line[1].val > MaxPacket
    /\ \E k \in 2..(Len(line) + 1) : line' = SubSeq(line, k, Len(line))
    /\ boxes' = bs
    /\ full' = FALSE
    /\ UNCHANGED mem

Settle(bs) == Wait(bs) \/ (bs # <<>> /\ (Fill(bs) \/ Refuse(bs)))

----------------------------------------------------------------------------
\* More of the line has come within reach.
Arrive == ~full /\ Settle(boxes)

\* The guest posts a buffer.  Behind a full one it waits, in place of any that did;
\* otherwise it is the one to fill.
Post(b) ==
    \/ /\ full
       /\ boxes' = <<boxes[1], b>>
       /\ UNCHANGED <<line, full, mem>>
    \/ /\ ~full
       /\ Settle(<<b>>)

\* The guest empties the full buffer, and the one behind it is the one to fill.
Take == full /\ Settle(Tail(boxes))

\* The connection breaks or the device is reset: the buffers go, and some of the
\* line may.
Break ==
    /\ boxes' = <<>>
    /\ full' = FALSE
    /\ \E k \in 1..(Len(line) + 1) : line' = SubSeq(line, k, Len(line))
    /\ UNCHANGED mem

Next == Arrive \/ (\E b \in Buffer : Post(b)) \/ Take \/ Break

Spec == Init /\ [][Next]_vars
=============================================================================
