--------------------------- MODULE BdifUsbProofs ---------------------------
(***************************************************************************)
(* Proofs about BdifUsb, for every frame size, every set of addresses and  *)
(* every stream a peer may send.                                           *)
(***************************************************************************)
EXTENDS BdifUsb, SequenceTheorems, TLAPS

\* A piece of a sequence of units is one, and the rest of it is not longer.
LEMMA Piece ==
    ASSUME NEW s \in Seq(Unit), NEW m \in Nat \ {0}, NEW n \in 0..Len(s)
    PROVE  /\ SubSeq(s, m, n) \in Seq(Unit)
           /\ Len(SubSeq(s, m, n)) = IF m <= n THEN n - m + 1 ELSE 0
<1>1. Len(s) \in Nat /\ \A i \in m..n : s[i] \in Unit
  OBVIOUS
<1>2. m \in Int /\ n \in Int
  BY <1>1
<1>3. QED
  BY <1>1, <1>2, SubSeqProperties

\* What vusb_try_deliver promises to every caller: the input only shrinks, only a
\* posted buffer completes, and a writable one is not left with a frame it can take.
LEMMA TryDeliver ==
    ASSUME NEW in \in Seq(Unit), NEW posted \in BOOLEAN, NEW buf \in Buffer,
           mem \in [Addr -> Seq(Unit)],
           try_deliver(in, posted, buf)
    PROVE  /\ usb_input' \in Seq(Unit)
           /\ Len(usb_input') <= Len(in)
           /\ mem' \in [Addr -> Seq(Unit)]
           /\ usb_rx_ready' \in BOOLEAN
           /\ usb_rx_ready' => posted
           /\ posted /\ ~usb_rx_ready' /\ buf.addr \in Writable
                => ~Fits(usb_input', buf)
<1>1. CASE posted /\ Fits(in, buf) /\ Deliver(in, buf)
  <2>1. in # <<>> /\ in[1] \in Unit /\ Len(in) >= 1 + in[1].val
    BY <1>1 DEF Fits, Whole
  <2>2. in[1].val \in Nat /\ Len(in) \in Nat
    BY <2>1 DEF Unit
  <2>3. SubSeq(in, 2, in[1].val + 1) \in Seq(Unit)
    BY <2>1, <2>2, Piece
  <2>4. /\ AfterFrame(in) \in Seq(Unit)
        /\ Len(AfterFrame(in)) <= Len(in)
    BY <2>1, <2>2, Piece DEF AfterFrame
  <2>5. usb_rx_ready' \in BOOLEAN
    BY <1>1, Zenon DEF Deliver
  <2>6. mem' \in [Addr -> Seq(Unit)]
    BY <1>1, <2>3 DEF Deliver, Buffer
  <2>7. usb_input' = AfterFrame(in)
    BY <1>1 DEF Deliver
  <2>8. buf.addr \in Writable => usb_rx_ready'
    BY <1>1, Zenon DEF Deliver
  <2>9. QED
    BY <1>1, <2>4, <2>5, <2>6, <2>7, <2>8
<1>2. CASE /\ ~(posted /\ Fits(in, buf))
           /\ usb_input' = IF posted /\ BadLength(in) THEN <<>> ELSE in
           /\ usb_rx_ready' = FALSE
           /\ UNCHANGED mem
  <2>1. usb_rx_ready' \in BOOLEAN /\ ~usb_rx_ready'
    BY <1>2, Zenon
  <2>2. ~Fits(<<>>, buf)
    BY DEF Fits, Whole
  <2>3. usb_input' \in Seq(Unit) /\ Len(usb_input') <= Len(in)
    BY <1>2
  <2>4. posted => ~Fits(usb_input', buf)
    BY <1>2, <2>2
  <2>5. QED
    BY <1>2, <2>1, <2>3, <2>4
<1>3. QED
  BY <1>1, <1>2 DEF try_deliver

\* The initial state, a device that was just reset, satisfies the invariant.
LEMMA IndInit == Init => IndInv
<1> USE UsbAssumption
<1> SUFFICES ASSUME Init
             PROVE  IndInv
  OBVIOUS
<1>1. NoBuffer \in Buffer
  BY DEF NoBuffer, Buffer
<1>2. usb_rx_ready \in BOOLEAN /\ usb_rx_posted \in BOOLEAN /\ usb_rx_pending \in BOOLEAN
  BY Zenon DEF Init
<1>3. ~usb_rx_ready /\ ~usb_rx_posted /\ ~usb_rx_pending
  BY Zenon DEF Init
<1>4. 0 \in 0..MaxRx /\ Len(<<>>) + 0 <= MaxRx /\ <<>> \in Seq(Unit)
  BY DEF MaxRx
<1>5. TypeOK
  BY <1>1, <1>2, <1>4 DEF Init, TypeOK
<1>6. RoomIsKept
  BY <1>4 DEF Init, RoomIsKept
<1>7. QED
  BY <1>3, <1>5, <1>6 DEF IndInv, StashIsPromoted, NoIdleFrame

\* Everything a CLOSED or BREAK event and a reset forget is forgotten together.
LEMMA ForgetKeeps ==
    ASSUME IndInv, Forget,
           usb_queue' \in {0, 1}, rx' \in Buffer, mem' = mem,
           stream' \in Seq(Unit), max_size' = 0 \/ max_size' = max_size
    PROVE  IndInv'
<1> USE UsbAssumption
<1>1. NoBuffer \in Buffer
  BY DEF NoBuffer, Buffer
<1>2. /\ usb_rx_ready' \in BOOLEAN /\ usb_rx_posted' \in BOOLEAN
      /\ usb_rx_pending' \in BOOLEAN
  BY Zenon DEF Forget
<1>3. ~usb_rx_ready' /\ ~usb_rx_posted' /\ ~usb_rx_pending'
  BY Zenon DEF Forget
<1>4. usb_input' = <<>> /\ usb_input' \in Seq(Unit) /\ Len(usb_input') = 0
  BY DEF Forget
<1>5. /\ max_size' \in 0..MaxRx /\ MaxRx \in Nat
      /\ 0 + max_size' <= MaxRx
  <2>1. max_size \in 0..MaxRx /\ MaxRx \in Nat
    BY DEF IndInv, TypeOK, MaxRx
  <2>2. CASE max_size' = 0
    BY <2>1, <2>2
  <2>3. CASE max_size' = max_size
    BY <2>1, <2>3
  <2>4. QED
    BY <2>2, <2>3
<1>6. rx_pending' \in Buffer /\ mem' \in [Addr -> Seq(Unit)]
  BY <1>1 DEF Forget, IndInv, TypeOK
<1>7. TypeOK'
  BY <1>2, <1>4, <1>5, <1>6 DEF TypeOK, MaxRx
<1>8. RoomIsKept'
  BY <1>4, <1>5 DEF RoomIsKept
<1>9. QED
  BY <1>3, <1>7, <1>8 DEF IndInv, StashIsPromoted, NoIdleFrame

\* Every handler keeps the invariant.
LEMMA IndStep == IndInv /\ [Next]_vars => IndInv'
<1> USE UsbAssumption
<1> SUFFICES ASSUME IndInv, [Next]_vars
             PROVE  IndInv'
  OBVIOUS
<1>0. /\ TypeOK /\ StashIsPromoted /\ NoIdleFrame /\ RoomIsKept
      /\ Len(usb_input) \in Nat /\ Len(stream) \in Nat /\ MaxRx \in Nat
  BY DEF IndInv, TypeOK, MaxRx
<1>1. ASSUME NEW q \in {0, 1}, SetQueue(q)
      PROVE  IndInv'
  BY <1>0, <1>1 DEF SetQueue, IndInv, TypeOK, StashIsPromoted, NoIdleFrame, RoomIsKept,
     MaxRx
<1>2. ASSUME NEW a \in Addr, NEW n \in 0..(MaxPacket + 1), Post([addr |-> a, len |-> n])
      PROVE  IndInv'
  <2> DEFINE buf == [addr |-> a, len |-> n]
  <2>1. buf \in Buffer
    BY <1>2 DEF Post, Buffer
  <2>2. UNCHANGED <<usb_queue, max_size, stream>>
    BY <1>2 DEF Post
  <2>3. CASE usb_rx_ready
    <3>1. /\ rx_pending' = buf
          /\ UNCHANGED <<usb_rx_posted, rx, usb_rx_ready, usb_input, mem>>
      BY <1>2, <2>3, Zenon DEF Post
    <3>2. usb_rx_pending' \in BOOLEAN
      BY <1>2, <2>3, Zenon DEF Post
    <3>3. QED
      BY <1>0, <2>1, <2>2, <2>3, <3>1, <3>2 DEF IndInv, TypeOK, StashIsPromoted,
         NoIdleFrame, RoomIsKept, MaxRx
  <2>4. CASE ~usb_rx_ready
    <3>1. /\ rx' = buf /\ UNCHANGED <<usb_rx_pending, rx_pending>>
          /\ try_deliver(usb_input, TRUE, buf)
      BY <1>2, <2>4, Zenon DEF Post
    <3>2. usb_rx_posted' \in BOOLEAN /\ usb_rx_posted'
      BY <1>2, <2>4, Zenon DEF Post
    <3>3. usb_input \in Seq(Unit) /\ mem \in [Addr -> Seq(Unit)]
      BY <1>0 DEF TypeOK
    <3>4. /\ usb_input' \in Seq(Unit) /\ Len(usb_input') <= Len(usb_input)
          /\ mem' \in [Addr -> Seq(Unit)] /\ usb_rx_ready' \in BOOLEAN
          /\ ~usb_rx_ready' /\ buf.addr \in Writable => ~Fits(usb_input', buf)
      <4> HIDE DEF buf
      <4> QED
        BY <2>1, <3>1, <3>3, TryDeliver
    <3> HIDE DEF buf
    <3>5. TypeOK'
      BY <1>0, <2>1, <2>2, <3>1, <3>2, <3>4 DEF TypeOK, MaxRx
    <3>6. RoomIsKept'
      BY <1>0, <2>2, <3>4, <3>5 DEF TypeOK, RoomIsKept, MaxRx
    <3>7. StashIsPromoted'
      BY <1>0, <2>4, <3>1, <3>2 DEF StashIsPromoted
    <3>8. NoIdleFrame'
      BY <3>1, <3>4 DEF NoIdleFrame
    <3>9. QED
      BY <3>5, <3>6, <3>7, <3>8 DEF IndInv
  <2>5. QED
    BY <2>3, <2>4
<1>3. CASE Consume
  <2>1. /\ usb_rx_posted' = usb_rx_pending /\ UNCHANGED <<usb_queue, max_size, stream>>
        /\ rx' = IF usb_rx_pending THEN rx_pending ELSE rx
        /\ try_deliver(usb_input, usb_rx_pending, rx_pending)
    BY <1>3 DEF Consume
  <2>2. usb_rx_pending' \in BOOLEAN /\ ~usb_rx_pending'
    BY <1>3, Zenon DEF Consume
  <2>3. rx_pending' \in Buffer /\ rx' \in Buffer
    BY <1>0, <1>3 DEF Consume, TypeOK, NoBuffer, Buffer
  <2>4. /\ usb_input \in Seq(Unit) /\ mem \in [Addr -> Seq(Unit)]
        /\ usb_rx_pending \in BOOLEAN /\ rx_pending \in Buffer
    BY <1>0 DEF TypeOK
  <2>5. /\ usb_input' \in Seq(Unit) /\ Len(usb_input') <= Len(usb_input)
        /\ mem' \in [Addr -> Seq(Unit)] /\ usb_rx_ready' \in BOOLEAN
        /\ usb_rx_ready' => usb_rx_pending
        /\ usb_rx_pending /\ ~usb_rx_ready' /\ rx_pending.addr \in Writable
              => ~Fits(usb_input', rx_pending)
    BY <2>1, <2>4, TryDeliver
  <2>6. TypeOK'
    BY <1>0, <2>1, <2>2, <2>3, <2>4, <2>5 DEF TypeOK, MaxRx
  <2>7. RoomIsKept'
    BY <1>0, <2>1, <2>5, <2>6 DEF TypeOK, RoomIsKept, MaxRx
  <2>8. StashIsPromoted'
    BY <2>1, <2>2, <2>5 DEF StashIsPromoted
  <2>9. NoIdleFrame'
    BY <2>1, <2>5 DEF NoIdleFrame
  <2>10. QED
    BY <2>6, <2>7, <2>8, <2>9 DEF IndInv
<1>4. CASE CanReceive
  <2>1. max_size' \in 0..MaxRx /\ Len(usb_input) + max_size' <= MaxRx
    BY <1>0, <1>4 DEF CanReceive
  <2>2. QED
    BY <1>0, <1>4, <2>1 DEF CanReceive, guestVars, IndInv, TypeOK, StashIsPromoted,
       NoIdleFrame, RoomIsKept, MaxRx
<1>5. ASSUME NEW n \in 1..MaxRx, Receive(n)
      PROVE  IndInv'
  <2>1. /\ n <= Len(stream) /\ max_size' = 0 /\ UNCHANGED guestVars
        /\ stream' = SubSeq(stream, n + 1, Len(stream))
    BY <1>5 DEF Receive
  <2>2. /\ stream \in Seq(Unit) /\ usb_input \in Seq(Unit)
        /\ mem \in [Addr -> Seq(Unit)] /\ usb_rx_posted \in BOOLEAN /\ rx \in Buffer
    BY <1>0 DEF TypeOK
  <2>3. stream' \in Seq(Unit)
    BY <1>0, <2>1, <2>2, Piece
  <2>4. CASE UNCHANGED <<usb_input, usb_rx_ready, mem>>
    BY <1>0, <2>1, <2>3, <2>4 DEF guestVars, IndInv, TypeOK, StashIsPromoted, NoIdleFrame,
       RoomIsKept, MaxRx
  <2> DEFINE in == usb_input \o SubSeq(stream, 1, n)
  <2>5. in \in Seq(Unit) /\ Len(in) = Len(usb_input) + n
    BY <1>0, <2>1, <2>2, Piece, ConcatProperties
  <2> HIDE DEF in
  <2>6. CASE Len(usb_input) + n <= MaxRx /\ usb_rx_ready /\ usb_input' = in
             /\ UNCHANGED <<usb_rx_ready, mem>>
    BY <1>0, <2>1, <2>3, <2>5, <2>6 DEF guestVars, IndInv, TypeOK, StashIsPromoted,
       NoIdleFrame, RoomIsKept, MaxRx
  <2>7. CASE /\ Len(usb_input) + n <= MaxRx /\ ~usb_rx_ready
             /\ try_deliver(in, usb_rx_posted, rx)
    <3>1. /\ usb_input' \in Seq(Unit) /\ Len(usb_input') <= Len(in)
          /\ mem' \in [Addr -> Seq(Unit)] /\ usb_rx_ready' \in BOOLEAN
          /\ usb_rx_ready' => usb_rx_posted
          /\ usb_rx_posted /\ ~usb_rx_ready' /\ rx.addr \in Writable
                => ~Fits(usb_input', rx)
      BY <2>2, <2>5, <2>7, TryDeliver
    <3>2. TypeOK'
      BY <1>0, <2>1, <2>3, <3>1 DEF guestVars, TypeOK, MaxRx
    <3>3. RoomIsKept'
      BY <1>0, <2>1, <2>5, <2>7, <3>1 DEF RoomIsKept, MaxRx
    <3>4. StashIsPromoted' /\ NoIdleFrame'
      BY <1>0, <2>1, <2>7, <3>1 DEF guestVars, StashIsPromoted, NoIdleFrame
    <3>5. QED
      BY <3>2, <3>3, <3>4 DEF IndInv
  <2>8. QED
    BY <1>0, <1>5, <2>4, <2>6, <2>7 DEF Receive, in
<1>6. CASE Event
  <2>1. /\ Forget /\ UNCHANGED <<usb_queue, rx, mem>>
        /\ max_size' = 0 \/ max_size' = max_size
    BY <1>6 DEF Event
  <2>2. stream' \in Seq(Unit)
    <3>1. CASE UNCHANGED stream
      BY <1>0, <3>1 DEF TypeOK
    <3>2. ASSUME NEW k \in 1..(Len(stream) + 1), stream' = SubSeq(stream, k, Len(stream))
          PROVE  stream' \in Seq(Unit)
      BY <1>0, <3>2, Piece DEF TypeOK
    <3>3. QED
      BY <1>6, <3>1, <3>2 DEF Event
  <2>3. usb_queue' \in {0, 1} /\ rx' \in Buffer
    BY <1>0, <2>1 DEF TypeOK
  <2>4. QED
    BY <2>1, <2>2, <2>3, ForgetKeeps
<1>7. CASE Reset
  <2>1. /\ Forget /\ mem' = mem /\ (max_size' = 0 \/ max_size' = max_size)
        /\ usb_queue' \in {0, 1} /\ rx' \in Buffer /\ stream' \in Seq(Unit)
    BY <1>0, <1>7 DEF Reset, NoBuffer, Buffer, TypeOK
  <2>2. QED
    BY <2>1, ForgetKeeps
<1>8. CASE UNCHANGED vars
  BY <1>0, <1>8 DEF vars, guestVars, IndInv, TypeOK, StashIsPromoted, NoIdleFrame,
     RoomIsKept, MaxRx
<1>9. QED
  BY <1>1, <1>2, <1>3, <1>4, <1>5, <1>6, <1>7, <1>8 DEF Next, Guest, Peer

\* The inductive invariant holds in every reachable state.
THEOREM UsbInvariance == Spec => []IndInv
<1>1. Init => IndInv
  BY IndInit
<1>2. IndInv /\ [Next]_vars => IndInv'
  BY IndStep
<1>3. QED
  BY <1>1, <1>2, PTL DEF Spec

\* The receive queue is type correct for every packet size, peer and guest: in
\* particular the room given to the character device stays within the input's
\* limit and a buffer's length within one packet.
THEOREM UsbTypeCorrect == Spec => []TypeOK
<1>1. IndInv => TypeOK
  BY DEF IndInv
<1>2. QED
  BY <1>1, UsbInvariance, PTL

\* A buffer stashed before the completion is consumed is never orphaned: clearing
\* and promoting go together in the BUSY read, in the CLOSED and BREAK events and
\* in reset.
THEOREM StashIsNeverOrphaned == Spec => []StashIsPromoted
<1>1. IndInv => StashIsPromoted
  BY DEF IndInv
<1>2. QED
  BY <1>1, UsbInvariance, PTL

\* A frame the posted buffer can take has been delivered: each of receive, post and
\* promote tries, and nothing else can make a frame fit.
THEOREM FramesAreNotLeftIdle == Spec => []NoIdleFrame
<1>1. IndInv => NoIdleFrame
  BY DEF IndInv
<1>2. QED
  BY <1>1, UsbInvariance, PTL

\* The room vusb_can_receive has promised is still there when vusb_receive is called.
THEOREM PromisedRoomIsKept == Spec => []RoomIsKept
<1>1. IndInv => RoomIsKept
  BY DEF IndInv
<1>2. QED
  BY <1>1, UsbInvariance, PTL

\* A frame the guest was told of stays in its buffer until the guest consumes it.
THEOREM ReadyFrameStaysIntact == Spec => ReadyStaysIntact
<1>1. [Next]_vars => [usb_rx_ready /\ usb_rx_ready' /\ ~Consume
                        => mem' = mem /\ rx' = rx]_vars
  <2> SUFFICES ASSUME Next, usb_rx_ready, usb_rx_ready', ~Consume
               PROVE  mem' = mem /\ rx' = rx
    OBVIOUS
  <2>1. ASSUME NEW q \in {0, 1}, SetQueue(q)
        PROVE  mem' = mem /\ rx' = rx
    BY <2>1 DEF SetQueue
  <2>2. ASSUME NEW a \in Addr, NEW n \in 0..(MaxPacket + 1),
               Post([addr |-> a, len |-> n])
        PROVE  mem' = mem /\ rx' = rx
    BY <2>2, Zenon DEF Post
  <2>3. CASE CanReceive
    BY <2>3 DEF CanReceive, guestVars
  <2>4. ASSUME NEW n \in 1..MaxRx, Receive(n)
        PROVE  mem' = mem /\ rx' = rx
    <3>1. rx' = rx
      BY <2>4 DEF Receive, guestVars
    <3>2. mem' = mem
      BY <2>4, Zenon DEF Receive
    <3>3. QED
      BY <3>1, <3>2
  <2>5. ~Event /\ ~Reset
    BY Zenon DEF Event, Reset, Forget
  <2>6. QED
    BY <2>1, <2>2, <2>3, <2>4, <2>5 DEF Next, Guest, Peer
<1>2. QED
  BY <1>1, PTL DEF Spec, ReadyStaysIntact
----------------------------------------------------------------------------
(***************************************************************************)
(* Framing: what is in the input and what the peer has left to send are    *)
(* together a suffix of what it had, so that the length words are where    *)
(* they were; a delivery takes one frame from the front.                   *)
(***************************************************************************)

\* What is left of a stream behind any of its units is framed as it was.
LEMMA SuffixIsFramed ==
    ASSUME NEW s \in Seq(Unit), NEW k \in 1..(Len(s) + 1), Framed(s)
    PROVE  Framed(SubSeq(s, k, Len(s)))
<1> DEFINE t == SubSeq(s, k, Len(s))
<1>1. Len(s) \in Nat /\ k \in Nat \ {0}
  OBVIOUS
<1>2. \A i \in k..Len(s) : s[i] \in Unit
  BY <1>1
<1>3. /\ Len(t) = Len(s) - k + 1
      /\ \A i \in 1..(Len(s) - k + 1) : t[i] = s[k + i - 1]
  BY <1>1, <1>2, SubSeqProperties
<1> HIDE DEF t
<1>4. SUFFICES ASSUME NEW i \in 1..Len(t), t[i].head, i + t[i].val + 1 <= Len(t)
               PROVE  t[i + t[i].val + 1].head
  BY DEF Framed, t
<1>5. /\ t[i] = s[k + i - 1] /\ k + i - 1 \in 1..Len(s) /\ s[k + i - 1] \in Unit
      /\ i \in Nat
  BY <1>1, <1>2, <1>3
<1>6. t[i].val \in Nat
  BY <1>5 DEF Unit
<1>7. (k + i - 1) + t[i].val + 1 <= Len(s)
  BY <1>1, <1>3, <1>4, <1>5, <1>6
<1>8. s[(k + i - 1) + t[i].val + 1].head
  BY <1>4, <1>5, <1>7 DEF Framed
<1>9. t[i + t[i].val + 1] = s[(k + i - 1) + t[i].val + 1]
  <2> DEFINE j == i + t[i].val + 1
  <2>1. j \in 1..(Len(s) - k + 1) /\ k + j - 1 = (k + i - 1) + t[i].val + 1
    <3>1. \A n, m, x, v \in Nat : n + v + 1 <= m - x + 1 /\ x # 0 =>
             /\ n + v + 1 \in 1..(m - x + 1)
             /\ x + (n + v + 1) - 1 = (x + n - 1) + v + 1
      OBVIOUS
    <3>2. i + t[i].val + 1 <= Len(s) - k + 1
      BY <1>3, <1>4
    <3>3. i \in Nat /\ Len(s) \in Nat /\ k \in Nat /\ k # 0 /\ t[i].val \in Nat
      BY <1>1, <1>5, <1>6
    <3>4. QED
      BY <3>1, <3>2, <3>3
  <2> HIDE DEF j
  <2>2. t[j] = s[k + j - 1]
    BY <1>3, <2>1
  <2>3. QED
    BY <2>1, <2>2 DEF j
<1>10. QED
  BY <1>8, <1>9

\* Moving units from the stream to the input changes neither's order.
LEMMA Regroup ==
    ASSUME NEW in \in Seq(Unit), NEW st \in Seq(Unit), NEW n \in 0..Len(st)
    PROVE  (in \o SubSeq(st, 1, n)) \o SubSeq(st, n + 1, Len(st)) = in \o st
<1> DEFINE a == SubSeq(st, 1, n)
           b == SubSeq(st, n + 1, Len(st))
<1>1. Len(st) \in Nat /\ Len(in) \in Nat /\ n \in Nat
  OBVIOUS
<1>2. /\ a \in Seq(Unit) /\ Len(a) = n
      /\ \A i \in 1..n : a[i] = st[i]
  <2>1. \A i \in 1..n : st[i] \in Unit
    BY <1>1
  <2>2. QED
    BY <1>1, <2>1, SubSeqProperties
<1>3. /\ b \in Seq(Unit) /\ Len(b) = Len(st) - n
      /\ \A i \in 1..(Len(st) - n) : b[i] = st[n + i]
  <2>1. \A i \in (n + 1)..Len(st) : st[i] \in Unit
    BY <1>1
  <2>2. /\ b \in Seq(Unit)
        /\ Len(b) = IF n + 1 <= Len(st) THEN Len(st) - (n + 1) + 1 ELSE 0
        /\ \A i \in 1..(Len(st) - (n + 1) + 1) : b[i] = st[(n + 1) + i - 1]
    BY <1>1, <2>1, SubSeqProperties
  <2> HIDE DEF b
  <2>3. QED
    BY <1>1, <2>2
<1> HIDE DEF a, b
<1>4. a \o b = st
  <2>1. /\ a \o b \in Seq(Unit) /\ Len(a \o b) = Len(st)
        /\ \A i \in 1..Len(st) : (a \o b)[i] = IF i <= n THEN a[i] ELSE b[i - n]
    BY <1>1, <1>2, <1>3, ConcatProperties
  <2>2. ASSUME NEW i \in 1..Len(st)
        PROVE  (a \o b)[i] = st[i]
    BY <1>1, <1>2, <1>3, <2>1
  <2>3. QED
    BY <2>1, <2>2, SeqEqual
<1>5. (in \o a) \o b = in \o (a \o b)
  BY <1>2, <1>3, ConcatAssociative
<1>6. QED
  BY <1>4, <1>5 DEF a, b

\* Taking units from the front of the input takes them from the front of the whole,
\* and what is left of the stream alone is also the end of the whole.
LEMMA Front ==
    ASSUME NEW in \in Seq(Unit), NEW st \in Seq(Unit), NEW k \in 1..(Len(in) + 1)
    PROVE  SubSeq(in, k, Len(in)) \o st = SubSeq(in \o st, k, Len(in \o st))
<1> DEFINE a == SubSeq(in, k, Len(in))
           w == in \o st
           b == SubSeq(w, k, Len(w))
<1>1. Len(st) \in Nat /\ Len(in) \in Nat /\ k \in Nat \ {0}
  OBVIOUS
<1>2. /\ a \in Seq(Unit) /\ Len(a) = Len(in) - k + 1
      /\ \A i \in 1..(Len(in) - k + 1) : a[i] = in[k + i - 1]
  <2>1. \A i \in k..Len(in) : in[i] \in Unit
    BY <1>1
  <2>2. QED
    BY <1>1, <2>1, SubSeqProperties
<1>3. /\ w \in Seq(Unit) /\ Len(w) = Len(in) + Len(st)
      /\ \A i \in 1..(Len(in) + Len(st)) :
            w[i] = IF i <= Len(in) THEN in[i] ELSE st[i - Len(in)]
  BY ConcatProperties
<1> HIDE DEF a, w
<1>4. /\ b \in Seq(Unit) /\ Len(b) = Len(in) + Len(st) - k + 1
      /\ \A i \in 1..(Len(in) + Len(st) - k + 1) : b[i] = w[k + i - 1]
  <2>1. \A i \in k..Len(w) : w[i] \in Unit
    BY <1>1, <1>3
  <2>2. QED
    BY <1>1, <1>3, <2>1, SubSeqProperties
<1> HIDE DEF b
<1>5. /\ a \o st \in Seq(Unit) /\ Len(a \o st) = Len(in) - k + 1 + Len(st)
      /\ \A i \in 1..(Len(in) - k + 1 + Len(st)) :
            (a \o st)[i] = IF i <= Len(in) - k + 1 THEN a[i]
                           ELSE st[i - (Len(in) - k + 1)]
  <2>1. /\ a \o st \in Seq(Unit) /\ Len(a \o st) = Len(a) + Len(st)
        /\ \A i \in 1..(Len(a) + Len(st)) :
              (a \o st)[i] = IF i <= Len(a) THEN a[i] ELSE st[i - Len(a)]
    BY <1>2, ConcatProperties
  <2>2. QED
    BY <1>2, <2>1
<1>6. ASSUME NEW i \in 1..Len(b)
      PROVE  (a \o st)[i] = b[i]
  <2>1. /\ b[i] = w[k + i - 1] /\ k + i - 1 \in 1..(Len(in) + Len(st))
        /\ i \in 1..(Len(in) - k + 1 + Len(st)) /\ i \in Int
        /\ Len(in) - k + 1 \in Int
    BY <1>1, <1>4
  <2>2. CASE i <= Len(in) - k + 1
    <3>1. (a \o st)[i] = in[k + i - 1]
      <4>1. i \in 1..(Len(in) - k + 1)
        BY <2>1, <2>2
      <4>2. (a \o st)[i] = a[i] /\ a[i] = in[k + i - 1]
        BY <1>2, <1>5, <2>1, <2>2, <4>1
      <4>3. QED
        BY <4>2
    <3>2. w[k + i - 1] = in[k + i - 1]
      BY <1>1, <1>3, <2>1, <2>2
    <3>3. QED
      BY <2>1, <3>1, <3>2
  <2>3. CASE i > Len(in) - k + 1
    <3>1. (a \o st)[i] = st[i - (Len(in) - k + 1)]
      BY <1>5, <2>1, <2>3
    <3>2. w[k + i - 1] = st[(k + i - 1) - Len(in)]
      BY <1>1, <1>3, <2>1, <2>3
    <3>3. i - (Len(in) - k + 1) = (k + i - 1) - Len(in)
      BY <1>1, <2>1
    <3>4. QED
      BY <2>1, <3>1, <3>2, <3>3
  <2>4. i <= Len(in) - k + 1 \/ i > Len(in) - k + 1
    BY <1>1, <2>1
  <2>5. QED
    BY <2>2, <2>3, <2>4, Zenon
<1>7. Len(a \o st) = Len(b)
  BY <1>1, <1>4, <1>5
<1>8. a \o st = b
  BY <1>4, <1>5, <1>6, <1>7, SeqEqual
<1>9. QED
  BY <1>8 DEF a, b, w
\* A delivery takes exactly one frame from the front, whatever becomes of the
\* buffer; an attempt that delivers nothing takes nothing, or everything.
LEMMA DeliveryTakesAFrame ==
    ASSUME NEW in \in Seq(Unit), NEW st \in Seq(Unit), NEW posted, NEW buf,
           Framed(in \o st), try_deliver(in, posted, buf)
    PROVE  /\ Framed(usb_input' \o st)
           /\ Aligned(in, st) /\ ~(usb_input' = <<>> /\ ~usb_rx_ready')
                => Aligned(usb_input', st)
<1> DEFINE w == in \o st
<1>1. /\ w \in Seq(Unit) /\ Len(w) = Len(in) + Len(st)
      /\ \A i \in 1..(Len(in) + Len(st)) :
            w[i] = IF i <= Len(in) THEN in[i] ELSE st[i - Len(in)]
  BY ConcatProperties
<1>2. Len(in) \in Nat /\ Len(st) \in Nat
  OBVIOUS
<1>3. CASE Fits(in, buf) /\ Deliver(in, buf)
  <2>1. in # <<>> /\ in[1] \in Unit /\ Len(in) >= 1 + in[1].val
    BY <1>3 DEF Fits, Whole
  <2> DEFINE k == in[1].val + 2
  <2>2. in[1].val \in Nat /\ k \in 1..(Len(in) + 1) /\ k \in 1..(Len(w) + 1)
    BY <1>1, <1>2, <2>1 DEF Unit
  <2>3. usb_input' = SubSeq(in, k, Len(in))
    BY <1>3 DEF Deliver, AfterFrame
  <2> HIDE DEF k, w
  <2>4. usb_input' \o st = SubSeq(w, k, Len(w))
    BY <2>2, <2>3, Front DEF w
  <2>5. Framed(w)
    BY DEF w
  <2>6. Framed(usb_input' \o st)
    BY <1>1, <2>2, <2>4, <2>5, SuffixIsFramed
  <2>7. ASSUME Aligned(in, st), usb_input' \o st # <<>>
        PROVE  (usb_input' \o st)[1].head
    <3>1. w[1] = in[1] /\ 1 \in 1..Len(w)
      BY <1>1, <1>2, <2>1, <2>2
    <3>2. w # <<>>
      BY <1>1, <3>1
    <3>3. w[1].head
      BY <2>7, <3>2 DEF Aligned, w
    <3>4. \A i \in k..Len(w) : w[i] \in Unit
      BY <1>1, <1>2, <2>2
    <3>5. k \in Int /\ Len(w) \in Int
      BY <1>1, <1>2, <2>2
    <3>6. /\ Len(SubSeq(w, k, Len(w))) = IF k <= Len(w) THEN Len(w) - k + 1 ELSE 0
          /\ \A i \in 1..(Len(w) - k + 1) : SubSeq(w, k, Len(w))[i] = w[k + i - 1]
          /\ SubSeq(w, k, Len(w)) \in Seq(Unit)
      BY <3>4, <3>5, SubSeqProperties
    <3>7. k <= Len(w)
      BY <2>4, <2>7, <3>5, <3>6
    <3>8. SubSeq(w, k, Len(w))[1] = w[k]
      BY <3>5, <3>6, <3>7
    <3>9. 1 + w[1].val + 1 = k
      BY <2>2, <3>1 DEF k
    <3>10. w[1 + w[1].val + 1].head
      BY <2>5, <3>1, <3>3, <3>7, <3>9 DEF Framed
    <3>11. QED
      BY <2>4, <3>8, <3>9, <3>10
  <2>8. QED
    BY <2>6, <2>7 DEF Aligned
<1>4. CASE usb_input' = in
  BY <1>4
<1>5. CASE usb_input' = <<>> /\ ~usb_rx_ready'
  <2>1. <<>> \o st = SubSeq(w, Len(in) + 1, Len(w))
    <3>1. SubSeq(in, Len(in) + 1, Len(in)) = <<>>
      BY <1>2, SubSeqEmpty
    <3>2. QED
      BY <1>2, <3>1, Front
  <2>2. Len(in) + 1 \in 1..(Len(w) + 1)
    BY <1>1, <1>2
  <2>3. Framed(usb_input' \o st)
    BY <1>1, <1>5, <2>1, <2>2, SuffixIsFramed
  <2>4. QED
    BY <1>5, <2>3
<1>6. QED
  <2>1. CASE Fits(in, buf) /\ Deliver(in, buf)
    BY <1>3, <2>1
  <2>2. CASE /\ usb_input' = IF posted /\ BadLength(in) THEN <<>> ELSE in
             /\ usb_rx_ready' = FALSE
    BY <1>4, <1>5, <2>2, Zenon
  <2>3. QED
    BY <2>1, <2>2, Zenon DEF try_deliver

\* Every handler leaves input and stream framed, and moves the device out of step
\* with the peer only by throwing input away.
LEMMA FramingStep ==
    ASSUME IndInv, Framed(usb_input \o stream), [Next]_vars
    PROVE  /\ Framed(usb_input' \o stream')
           /\ Aligned(usb_input, stream) /\ ~(usb_input' = <<>> /\ ~usb_rx_ready')
                => Aligned(usb_input', stream')
<1> DEFINE Goal == /\ Framed(usb_input' \o stream')
                   /\ Aligned(usb_input, stream)
                        /\ ~(usb_input' = <<>> /\ ~usb_rx_ready')
                        => Aligned(usb_input', stream')
<1>0. /\ usb_input \in Seq(Unit) /\ stream \in Seq(Unit)
      /\ Len(usb_input) \in Nat /\ Len(stream) \in Nat
      /\ max_size \in 0..MaxRx /\ MaxRx \in Nat
      /\ Len(usb_input) + max_size <= MaxRx
  BY UsbAssumption DEF IndInv, TypeOK, RoomIsKept, MaxRx
<1>1. CASE UNCHANGED <<usb_input, stream>>
  BY <1>1
<1>2. ASSUME NEW a \in Addr, NEW n \in 0..(MaxPacket + 1), Post([addr |-> a, len |-> n])
      PROVE  Goal
  <2>1. CASE UNCHANGED usb_input
    BY <1>1, <1>2, <2>1 DEF Post
  <2>2. CASE try_deliver(usb_input, TRUE, [addr |-> a, len |-> n])
    <3>1. stream' = stream
      BY <1>2, Zenon DEF Post
    <3>2. QED
      BY <1>0, <2>2, <3>1, DeliveryTakesAFrame
  <2>3. QED
    BY <1>2, <2>1, <2>2, Zenon DEF Post
<1>3. CASE Consume
  <2>1. stream' = stream /\ try_deliver(usb_input, usb_rx_pending, rx_pending)
    BY <1>3, Zenon DEF Consume
  <2>2. QED
    BY <1>0, <2>1, DeliveryTakesAFrame
<1>4. ASSUME NEW n \in 1..MaxRx, Receive(n)
      PROVE  Goal
  <2> DEFINE in == usb_input \o SubSeq(stream, 1, n)
  <2>1. n \in 1..max_size /\ n <= Len(stream)
    BY <1>4, Zenon DEF Receive
  <2>2. ~(Len(usb_input) + n > MaxRx) /\ n \in 0..Len(stream) /\ n + 1 \in Nat \ {0}
    BY <1>0, <2>1
  <2>3. stream' = SubSeq(stream, n + 1, Len(stream))
    BY <1>4, Zenon DEF Receive
  <2>4. in \in Seq(Unit) /\ stream' \in Seq(Unit)
    BY <1>0, <2>2, <2>3, Piece, ConcatProperties
  <2>5. in \o stream' = usb_input \o stream
    BY <1>0, <2>2, <2>3, Regroup
  <2> HIDE DEF in
  <2>6. CASE usb_input' = in
    BY <2>5, <2>6 DEF Aligned
  <2>7. CASE try_deliver(in, usb_rx_posted, rx)
    <3>1. Framed(in \o stream')
      BY <2>5
    <3>2. /\ Framed(usb_input' \o stream')
          /\ Aligned(in, stream') /\ ~(usb_input' = <<>> /\ ~usb_rx_ready')
               => Aligned(usb_input', stream')
      BY <2>4, <2>7, <3>1, DeliveryTakesAFrame
    <3>3. Aligned(usb_input, stream) => Aligned(in, stream')
      BY <2>5 DEF Aligned
    <3>4. QED
      BY <3>2, <3>3
  <2>8. QED
    BY <1>4, <2>2, <2>6, <2>7, Zenon DEF Receive, in
<1>5. ASSUME NEW k \in 1..(Len(stream) + 1), stream' = SubSeq(stream, k, Len(stream)),
             usb_input' = <<>>, ~usb_rx_ready'
      PROVE  Goal
  <2>1. <<>> \o SubSeq(stream, k, Len(stream)) = SubSeq(stream, k, Len(stream))
    BY <1>0, Piece, ConcatEmptySeq
  <2>2. Framed(stream)
    <3>1. SubSeq(usb_input, Len(usb_input) + 1, Len(usb_input)) = <<>>
      BY <1>0, SubSeqEmpty
    <3>2. <<>> \o stream = SubSeq(usb_input \o stream, Len(usb_input) + 1,
                                  Len(usb_input \o stream))
      BY <1>0, <3>1, Front
    <3>3. usb_input \o stream \in Seq(Unit)
          /\ Len(usb_input) + 1 \in 1..(Len(usb_input \o stream) + 1)
      BY <1>0, ConcatProperties
    <3>4. <<>> \o stream = stream
      BY <1>0, ConcatEmptySeq
    <3>5. QED
      BY <3>2, <3>3, <3>4, SuffixIsFramed
  <2>3. Framed(usb_input' \o stream')
    BY <1>0, <1>5, <2>1, <2>2, SuffixIsFramed
  <2>4. QED
    BY <1>5, <2>3
<1>6. ASSUME Forget, stream' = stream
      PROVE  Goal
  <2>1. 1 \in 1..(Len(stream) + 1) /\ stream' = SubSeq(stream, 1, Len(stream))
    BY <1>0, <1>6, SubSeqFull
  <2>2. usb_input' = <<>> /\ ~usb_rx_ready'
    BY <1>6, Zenon DEF Forget
  <2>3. QED
    BY <1>5, <2>1, <2>2
<1>7. CASE Event
  <2>1. Forget /\ usb_input' = <<>> /\ ~usb_rx_ready'
    BY <1>7, Zenon DEF Event, Forget
  <2>2. CASE stream' = stream
    BY <1>6, <2>1, <2>2
  <2>3. CASE \E k \in 1..(Len(stream) + 1) : stream' = SubSeq(stream, k, Len(stream))
    BY <1>5, <2>1, <2>3
  <2>4. QED
    BY <1>7, <2>2, <2>3, Zenon DEF Event
<1>8. CASE Reset
  <2>1. Forget /\ stream' = stream
    BY <1>8 DEF Reset
  <2>2. QED
    BY <1>6, <2>1
<1>9. ASSUME (\E q \in {0, 1} : SetQueue(q)) \/ CanReceive \/ UNCHANGED vars
      PROVE  UNCHANGED <<usb_input, stream>>
  BY <1>9 DEF SetQueue, CanReceive, vars
<1>10. QED
  BY <1>1, <1>2, <1>3, <1>4, <1>7, <1>8, <1>9 DEF Next, Guest, Peer

\* Whatever pieces a stream of frames comes in, and whatever the guest posts and
\* consumes in between, a device in step with its peer stays in step until it throws
\* input away: vusb_try_deliver takes out one frame and nothing else.
THEOREM FramesAreTakenWhole == Spec => FramesStayWhole
<1>1. Init => Framed(usb_input \o stream)
  <2> SUFFICES ASSUME Init
               PROVE  Framed(usb_input \o stream)
    OBVIOUS
  <2>1. stream \in Seq(Unit) /\ Framed(stream) /\ usb_input = <<>>
    BY UsbAssumption DEF Init
  <2>2. QED
    BY <2>1, ConcatEmptySeq
<1>2. IndInv /\ Framed(usb_input \o stream) /\ [Next]_vars
        => /\ Framed(usb_input \o stream)'
           /\ [Aligned(usb_input, stream) /\ ~(usb_input' = <<>> /\ ~usb_rx_ready')
                  => Aligned(usb_input', stream')]_vars
  BY FramingStep
<1>3. QED
  BY <1>1, <1>2, UsbInvariance, PTL DEF Spec, FramesStayWhole
=============================================================================
