------------------------ MODULE FrameMailboxProofs -------------------------
(***************************************************************************)
(* The receive queue implements FrameMailbox, for every frame size, every  *)
(* set of addresses and every stream a peer may send.                      *)
(*                                                                         *)
(* The line is the input and what the peer has left, read as one sequence. *)
(* Receiving moves the cut between the two and nothing else, as long as    *)
(* nothing is dropped for want of room, which RoomIsKept says.  A delivery *)
(* takes a frame off the front of the input, which is the front of the     *)
(* line.  StashIsPromoted makes the posted and the stashed buffer a queue. *)
(***************************************************************************)
EXTENDS BdifUsbProofs

\* A frame that is whole in the input is the frame at the head of the line.
LEMMA HeadOfLine ==
    ASSUME NEW in \in Seq(Unit), NEW st \in Seq(Unit), Whole(in)
    PROVE  /\ in \o st # <<>>
           /\ (in \o st)[1] = in[1]
           /\ in[1].val \in Nat
           /\ in[1].val < Len(in \o st)
           /\ SubSeq(in \o st, 2, in[1].val + 1) = SubSeq(in, 2, in[1].val + 1)
           /\ SubSeq(in \o st, in[1].val + 2, Len(in \o st)) = AfterFrame(in) \o st
<1> DEFINE w == in \o st
           n == in[1].val
<1>1. Len(in) \in Nat /\ Len(st) \in Nat
  OBVIOUS
<1>2. in # <<>> /\ in[1] \in Unit /\ Len(in) >= 1 + n
  BY DEF Whole
<1>3. n \in Nat
  BY <1>2 DEF Unit
<1>4. /\ w \in Seq(Unit) /\ Len(w) = Len(in) + Len(st)
      /\ \A i \in 1..(Len(in) + Len(st)) :
            w[i] = IF i <= Len(in) THEN in[i] ELSE st[i - Len(in)]
  BY ConcatProperties
<1> HIDE DEF w, n
<1>5. \A i \in 1..Len(in) : w[i] = in[i]
  BY <1>1, <1>4
<1>6. w # <<>> /\ w[1] = in[1] /\ n < Len(w)
  BY <1>1, <1>2, <1>3, <1>4, <1>5
<1>7. SubSeq(w, 2, n + 1) = SubSeq(in, 2, n + 1)
  <2>1. /\ \A i \in 2..(n + 1) : in[i] \in Unit /\ w[i] \in Unit /\ w[i] = in[i]
        /\ 2 \in Int /\ n + 1 \in Int
    BY <1>1, <1>2, <1>3, <1>4, <1>5
  <2>2. /\ SubSeq(in, 2, n + 1) \in Seq(Unit)
        /\ Len(SubSeq(in, 2, n + 1)) = IF 2 <= n + 1 THEN (n + 1) - 2 + 1 ELSE 0
        /\ \A i \in 1..((n + 1) - 2 + 1) : SubSeq(in, 2, n + 1)[i] = in[2 + i - 1]
    BY <2>1, SubSeqProperties
  <2>3. /\ SubSeq(w, 2, n + 1) \in Seq(Unit)
        /\ Len(SubSeq(w, 2, n + 1)) = IF 2 <= n + 1 THEN (n + 1) - 2 + 1 ELSE 0
        /\ \A i \in 1..((n + 1) - 2 + 1) : SubSeq(w, 2, n + 1)[i] = w[2 + i - 1]
    BY <2>1, SubSeqProperties
  <2>4. ASSUME NEW i \in 1..Len(SubSeq(w, 2, n + 1))
        PROVE  SubSeq(w, 2, n + 1)[i] = SubSeq(in, 2, n + 1)[i]
    <3>1. i \in 1..((n + 1) - 2 + 1) /\ 2 + i - 1 \in 2..(n + 1)
      BY <1>3, <2>3
    <3>2. QED
      BY <2>1, <2>2, <2>3, <3>1
  <2>5. QED
    BY <2>2, <2>3, <2>4, SeqEqual
<1>8. SubSeq(w, n + 2, Len(w)) = AfterFrame(in) \o st
  <2>1. n + 2 \in 1..(Len(in) + 1)
    BY <1>1, <1>2, <1>3
  <2>2. QED
    BY <2>1, Front DEF AfterFrame, w, n
<1>9. QED
  BY <1>3, <1>6, <1>7, <1>8 DEF w, n

\* Throwing the whole input away lets the line go up to what the peer still has.
LEMMA InputGone ==
    ASSUME NEW in \in Seq(Unit), NEW st \in Seq(Unit)
    PROVE  /\ in \o st \in Seq(Unit)
           /\ Len(in) + 1 \in 1..(Len(in \o st) + 1)
           /\ <<>> \o st = SubSeq(in \o st, Len(in) + 1, Len(in \o st))
<1>1. Len(in) \in Nat /\ Len(st) \in Nat
  OBVIOUS
<1>2. in \o st \in Seq(Unit) /\ Len(in \o st) = Len(in) + Len(st)
  BY ConcatProperties
<1>3. SubSeq(in, Len(in) + 1, Len(in)) = <<>>
  BY <1>1, SubSeqEmpty
<1>4. QED
  BY <1>1, <1>2, <1>3, Front

\* What vusb_try_deliver may do for any of its callers, whose line it is and whose
\* buffers are left, is what the mailbox may do.
LEMMA DeliverySettles ==
    ASSUME NEW in \in Seq(Unit), NEW st \in Seq(Unit), NEW posted \in BOOLEAN,
           NEW buf \in Buffer, NEW bs,
           bs = IF posted THEN <<buf>> ELSE <<>>,
           in \o st = usb_input \o stream, stream' = st, Boxes' = bs,
           try_deliver(in, posted, buf)
    PROVE  Mailbox!Settle(bs)
<1> DEFINE w == usb_input \o stream
<1>w. w = in \o st
  OBVIOUS
<1> HIDE DEF w
<1>1. CASE posted /\ Fits(in, buf) /\ Deliver(in, buf)
  <2>1. bs = <<buf>> /\ bs # <<>> /\ bs[1] = buf
    BY <1>1
  <2>2. Whole(in) /\ in[1].val <= buf.len
    BY <1>1 DEF Fits
  <2>3. /\ w # <<>> /\ w[1] = in[1] /\ in[1].val \in Nat /\ in[1].val < Len(w)
        /\ SubSeq(w, 2, in[1].val + 1) = SubSeq(in, 2, in[1].val + 1)
        /\ SubSeq(w, in[1].val + 2, Len(w)) = AfterFrame(in) \o st
    BY <1>w, <2>2, HeadOfLine
  <2>4. /\ usb_input' = AfterFrame(in)
        /\ usb_rx_ready' = (in[1].val = 0 \/ buf.addr \in Writable)
        /\ mem' = IF in[1].val = 0 \/ buf.addr \notin Writable THEN mem
                  ELSE [mem EXCEPT ![buf.addr] = SubSeq(in, 2, in[1].val + 1)]
    BY <1>1, Zenon DEF Deliver
  <2>5. (usb_input \o stream)' = SubSeq(w, w[1].val + 2, Len(w))
    BY <2>3, <2>4
  <2>6. w[1].val <= bs[1].len /\ w[1].val < Len(w)
    BY <2>1, <2>2, <2>3
  <2>7. usb_rx_ready' = (w[1].val = 0 \/ bs[1].addr \in Writable)
    BY <2>1, <2>3, <2>4, Zenon
  <2>8. mem' = IF w[1].val = 0 \/ bs[1].addr \notin Writable THEN mem
               ELSE [mem EXCEPT ![bs[1].addr] = SubSeq(w, 2, w[1].val + 1)]
    BY <2>1, <2>3, <2>4
  <2>9. Mailbox!Fill(bs)
    BY <2>3, <2>5, <2>6, <2>7, <2>8, Zenon DEF Mailbox!Fill, w
  <2>10. QED
    BY <2>1, <2>9 DEF Mailbox!Settle
<1>2. CASE usb_input' = in /\ usb_rx_ready' = FALSE /\ UNCHANGED mem
  <2>1. (usb_input \o stream)' = usb_input \o stream
    BY <1>2
  <2>2. Mailbox!Wait(bs)
    BY <1>2, <2>1, Zenon DEF Mailbox!Wait
  <2>3. QED
    BY <2>2 DEF Mailbox!Settle
<1>3. CASE /\ posted /\ BadLength(in)
           /\ usb_input' = <<>> /\ usb_rx_ready' = FALSE /\ UNCHANGED mem
  <2>1. bs # <<>>
    BY <1>3
  <2>2. in # <<>> /\ in[1].val > MaxPacket /\ Len(in) \in Nat /\ Len(in) >= 1
    BY <1>3 DEF BadLength
  <2>3. w # <<>> /\ w[1] = in[1]
    <3>1. /\ w \in Seq(Unit) /\ Len(w) = Len(in) + Len(st)
          /\ \A i \in 1..(Len(in) + Len(st)) :
                w[i] = IF i <= Len(in) THEN in[i] ELSE st[i - Len(in)]
      BY <1>w, ConcatProperties
    <3>2. Len(st) \in Nat
      OBVIOUS
    <3>3. QED
      BY <2>2, <3>1, <3>2
  <2>4. /\ Len(in) + 1 \in 1..(Len(w) + 1)
        /\ (usb_input \o stream)' = SubSeq(w, Len(in) + 1, Len(w))
    BY <1>3, <1>w, InputGone
  <2>5. Len(in) + 1 \in 2..(Len(w) + 1)
    BY <2>2, <2>4
  <2>6. Mailbox!Refuse(bs)
    BY <1>3, <2>2, <2>3, <2>4, <2>5, Zenon DEF Mailbox!Refuse, w
  <2>7. QED
    BY <2>1, <2>6 DEF Mailbox!Settle
<1>4. QED
  BY <1>1, <1>2, <1>3, Zenon DEF try_deliver

\* What CLOSED, BREAK and reset do, wherever the peer goes on from, breaks the
\* mailbox and leaves the guest's memory alone.
LEMMA ForgetBreaks ==
    ASSUME usb_input \in Seq(Unit), stream \in Seq(Unit), Forget, mem' = mem,
           NEW k \in 1..(Len(stream) + 1), stream' = SubSeq(stream, k, Len(stream))
    PROVE  Mailbox!Break
<1> DEFINE w == usb_input \o stream
           m == Len(usb_input) + k
<1>1. Boxes' = <<>> /\ usb_rx_ready' = FALSE /\ usb_input' = <<>>
  BY Zenon DEF Boxes, Forget
<1>2. Len(usb_input) \in Nat /\ Len(stream) \in Nat /\ k \in Nat \ {0}
  OBVIOUS
<1>3. /\ w \in Seq(Unit) /\ Len(w) = Len(usb_input) + Len(stream)
      /\ \A i \in 1..(Len(usb_input) + Len(stream)) :
            w[i] = IF i <= Len(usb_input) THEN usb_input[i]
                   ELSE stream[i - Len(usb_input)]
  BY ConcatProperties
<1>4. /\ stream' \in Seq(Unit) /\ Len(stream') = Len(stream) - k + 1
      /\ \A i \in 1..(Len(stream) - k + 1) : stream'[i] = stream[k + i - 1]
  <2>1. \A i \in k..Len(stream) : stream[i] \in Unit
    BY <1>2
  <2>2. QED
    BY <1>2, <2>1, SubSeqProperties
<1>5. (usb_input \o stream)' = stream'
  BY <1>1, <1>4, ConcatEmptySeq
<1>6. m \in 1..(Len(w) + 1)
  BY <1>2, <1>3
<1> HIDE DEF w
<1>7. /\ SubSeq(w, m, Len(w)) \in Seq(Unit)
      /\ Len(SubSeq(w, m, Len(w))) = Len(stream) - k + 1
      /\ \A i \in 1..(Len(stream) - k + 1) : SubSeq(w, m, Len(w))[i] = w[m + i - 1]
  <2>1. (\A i \in m..Len(w) : w[i] \in Unit) /\ m \in Int /\ Len(w) \in Int
    BY <1>2, <1>3
  <2>2. /\ SubSeq(w, m, Len(w)) \in Seq(Unit)
        /\ Len(SubSeq(w, m, Len(w))) = IF m <= Len(w) THEN Len(w) - m + 1 ELSE 0
        /\ \A i \in 1..(Len(w) - m + 1) : SubSeq(w, m, Len(w))[i] = w[m + i - 1]
    BY <2>1, SubSeqProperties
  <2>3. QED
    BY <1>2, <1>3, <2>2
<1>8. ASSUME NEW i \in 1..Len(stream')
      PROVE  stream'[i] = SubSeq(w, m, Len(w))[i]
  <2>1. /\ i \in 1..(Len(stream) - k + 1)
        /\ m + i - 1 \in 1..(Len(usb_input) + Len(stream))
        /\ ~(m + i - 1 <= Len(usb_input))
        /\ (m + i - 1) - Len(usb_input) = k + i - 1
    BY <1>2, <1>4
  <2>2. w[m + i - 1] = stream[k + i - 1]
    BY <1>3, <2>1
  <2>3. QED
    BY <1>4, <1>7, <2>1, <2>2
<1>9. stream' = SubSeq(w, m, Len(w))
  BY <1>4, <1>7, <1>8, SeqEqual
<1> HIDE DEF m
<1>10. QED
  BY <1>1, <1>5, <1>6, <1>9, Zenon DEF Mailbox!Break, w

\* A freshly started device is a mailbox without buffers.
LEMMA MailboxInit == Init => Mailbox!Init
<1> SUFFICES ASSUME Init
             PROVE  Mailbox!Init
  OBVIOUS
<1>1. Boxes = <<>> /\ usb_rx_ready = FALSE
  BY Zenon DEF Init, Boxes
<1>2. stream \in Streams /\ stream \in Seq(Unit) /\ usb_input = <<>>
  BY UsbAssumption DEF Init
<1>3. usb_input \o stream = stream
  BY <1>2, ConcatEmptySeq
<1>4. mem = [a \in Addr |-> <<>>]
  BY DEF Init
<1>5. QED
  BY <1>1, <1>2, <1>3, <1>4, Zenon DEF Mailbox!Init

\* One step of the device is one step of the mailbox, or leaves it alone.
LEMMA MailboxStep ==
    ASSUME IndInv, [Next]_vars
    PROVE  [Mailbox!Next]_(Mailbox!vars)
<1> DEFINE Goal == [Mailbox!Next]_(Mailbox!vars)
<1>0. /\ usb_input \in Seq(Unit) /\ stream \in Seq(Unit)
      /\ Len(usb_input) \in Nat /\ Len(stream) \in Nat
      /\ max_size \in 0..MaxRx /\ MaxRx \in Nat
      /\ Len(usb_input) + max_size <= MaxRx
      /\ rx \in Buffer /\ rx_pending \in Buffer
  BY UsbAssumption DEF IndInv, TypeOK, RoomIsKept, MaxRx
<1>b. /\ usb_rx_ready \in BOOLEAN /\ usb_rx_posted \in BOOLEAN
      /\ usb_rx_pending \in BOOLEAN
      /\ usb_rx_pending => usb_rx_ready
      /\ usb_rx_ready => usb_rx_posted
  BY Zenon DEF IndInv, TypeOK, StashIsPromoted
<1>1. ASSUME UNCHANGED <<guestVars, usb_rx_ready, mem>>,
             (usb_input \o stream)' = usb_input \o stream
      PROVE  Goal
  <2>1. Boxes' = Boxes
    BY <1>1, Zenon DEF Boxes, guestVars
  <2>2. QED
    BY <1>1, <2>1, Zenon DEF Mailbox!vars
<1>2. ASSUME NEW q \in {0, 1}, SetQueue(q)
      PROVE  Goal
  <2>1. Boxes' = Boxes
    BY <1>2, Zenon DEF Boxes, SetQueue
  <2>2. usb_rx_ready' = usb_rx_ready /\ mem' = mem /\ usb_input' = usb_input
        /\ stream' = stream
    BY <1>2, Zenon DEF SetQueue
  <2>3. QED
    BY <2>1, <2>2, Zenon DEF Mailbox!vars
<1>3. CASE CanReceive \/ UNCHANGED vars
  <2>1. /\ UNCHANGED <<guestVars, usb_rx_ready, mem>>
        /\ usb_input' = usb_input /\ stream' = stream
    BY <1>3, Zenon DEF CanReceive, vars
  <2>2. QED
    BY <1>1, <2>1
<1>4. ASSUME NEW a \in Addr, NEW n \in 0..(MaxPacket + 1), Post([addr |-> a, len |-> n])
      PROVE  Goal
  <2> DEFINE b == [addr |-> a, len |-> n]
  <2>1. n \in 1..MaxPacket /\ stream' = stream
    BY <1>4 DEF Post
  <2>2. b \in Mailbox!Buffer /\ b \in Buffer
    BY <2>1, UsbAssumption DEF Mailbox!Buffer, Buffer
  <2> HIDE DEF b
  <2>3. CASE /\ usb_rx_ready /\ usb_rx_pending' = TRUE /\ rx_pending' = b
             /\ UNCHANGED <<usb_rx_posted, rx, usb_rx_ready, usb_input, mem>>
    <3>1. Boxes' = <<rx, b>>
      BY <1>b, <2>3, Zenon DEF Boxes
    <3>2. Boxes[1] = rx
      BY <1>b, <2>3 DEF Boxes
    <3>3. (usb_input \o stream)' = usb_input \o stream
      BY <2>1, <2>3
    <3>4. Mailbox!Post(b)
      BY <2>3, <3>1, <3>2, <3>3, Zenon DEF Mailbox!Post
    <3>5. QED
      BY <2>2, <3>4, Zenon DEF Mailbox!Next
  <2>4. CASE /\ ~usb_rx_ready /\ rx' = b /\ usb_rx_posted' = TRUE
             /\ try_deliver(usb_input, TRUE, b)
             /\ UNCHANGED <<usb_rx_pending, rx_pending>>
    <3>1. Boxes' = <<b>>
      BY <1>b, <2>4, Zenon DEF Boxes
    <3>2. Mailbox!Settle(<<b>>)
      BY <1>0, <2>1, <2>2, <2>4, <3>1, DeliverySettles
    <3>3. QED
      BY <2>2, <2>4, <3>2, Zenon DEF Mailbox!Next, Mailbox!Post
  <2>5. QED
    BY <1>4, <2>3, <2>4, Zenon DEF Post, b
<1>5. CASE Consume
  <2>1. /\ usb_rx_ready /\ usb_rx_posted' = usb_rx_pending /\ usb_rx_pending' = FALSE
        /\ rx' = IF usb_rx_pending THEN rx_pending ELSE rx
        /\ try_deliver(usb_input, usb_rx_pending, rx_pending)
        /\ stream' = stream
    BY <1>5, Zenon DEF Consume
  <2> DEFINE bs == IF usb_rx_pending THEN <<rx_pending>> ELSE <<>>
  <2>2. Boxes' = bs
    BY <2>1, Zenon DEF Boxes
  <2>3. Tail(Boxes) = bs
    <3>1. CASE usb_rx_pending
      <4>1. Boxes = <<rx, rx_pending>>
        BY <1>b, <2>1, <3>1, Zenon DEF Boxes
      <4>2. QED
        BY <3>1, <4>1
    <3>2. CASE ~usb_rx_pending
      <4>1. Boxes = <<rx>>
        BY <1>b, <2>1, <3>2, Zenon DEF Boxes
      <4>2. QED
        BY <3>2, <4>1
    <3>3. QED
      BY <3>1, <3>2
  <2>4. Mailbox!Settle(bs)
    BY <1>0, <1>b, <2>1, <2>2, DeliverySettles
  <2> HIDE DEF bs
  <2>5. Mailbox!Take
    BY <2>1, <2>3, <2>4, Zenon DEF Mailbox!Take
  <2>6. QED
    BY <2>5 DEF Mailbox!Next
<1>6. ASSUME NEW n \in 1..MaxRx, Receive(n)
      PROVE  Goal
  <2> DEFINE in == usb_input \o SubSeq(stream, 1, n)
  <2>1. n \in 1..max_size /\ n <= Len(stream)
        /\ stream' = SubSeq(stream, n + 1, Len(stream))
        /\ UNCHANGED guestVars
    BY <1>6, Zenon DEF Receive
  <2>2. ~(Len(usb_input) + n > MaxRx) /\ n \in 0..Len(stream) /\ n + 1 \in Nat \ {0}
    BY <1>0, <2>1
  <2>3. in \in Seq(Unit) /\ stream' \in Seq(Unit)
    BY <1>0, <2>1, <2>2, Piece, ConcatProperties
  <2>4. in \o stream' = usb_input \o stream
    BY <1>0, <2>1, <2>2, Regroup
  <2>5. Boxes' = Boxes
    BY <2>1, Zenon DEF Boxes, guestVars
  <2> HIDE DEF in
  <2>6. CASE usb_input' = in /\ UNCHANGED <<usb_rx_ready, mem>>
    BY <1>1, <2>1, <2>4, <2>6
  <2>7. CASE ~usb_rx_ready /\ try_deliver(in, usb_rx_posted, rx)
    <3>1. Boxes = IF usb_rx_posted THEN <<rx>> ELSE <<>>
      BY <1>b, <2>7, Zenon DEF Boxes
    <3>2. Mailbox!Settle(Boxes)
      BY <1>0, <1>b, <2>3, <2>4, <2>5, <2>7, <3>1, DeliverySettles
    <3>3. QED
      BY <2>7, <3>2, Zenon DEF Mailbox!Next, Mailbox!Arrive
  <2>8. QED
    BY <1>6, <2>2, <2>6, <2>7, Zenon DEF Receive, in
<1>7. ASSUME Forget, mem' = mem, stream' = stream
      PROVE  Goal
  <2>1. 1 \in 1..(Len(stream) + 1) /\ stream' = SubSeq(stream, 1, Len(stream))
    BY <1>0, <1>7, SubSeqFull
  <2>2. QED
    BY <1>0, <1>7, <2>1, ForgetBreaks DEF Mailbox!Next
<1>8. CASE Event
  <2>1. Forget /\ mem' = mem
    BY <1>8 DEF Event
  <2>2. CASE stream' = stream
    BY <1>7, <2>1, <2>2
  <2>3. CASE \E k \in 1..(Len(stream) + 1) : stream' = SubSeq(stream, k, Len(stream))
    BY <1>0, <2>1, <2>3, ForgetBreaks DEF Mailbox!Next
  <2>4. QED
    BY <1>8, <2>2, <2>3, Zenon DEF Event
<1>9. CASE Reset
  BY <1>7, <1>9 DEF Reset
<1>10. QED
  BY <1>2, <1>3, <1>4, <1>5, <1>6, <1>8, <1>9 DEF Next, Guest, Peer

\* Every behaviour of the receive queue is one of the mailbox: whatever pieces the
\* peer's stream comes in and whatever the guest does in between, frames come off one
\* line in order and whole, each into the buffer posted for it.
THEOREM QueueImplementsMailbox == Spec => ImplementsMailbox
<1>1. Init => Mailbox!Init
  BY MailboxInit
<1>2. IndInv /\ [Next]_vars => [Mailbox!Next]_(Mailbox!vars)
  BY MailboxStep
<1>3. QED
  BY <1>1, <1>2, UsbInvariance, PTL DEF Spec, ImplementsMailbox, Mailbox!Spec
=============================================================================
