-------------------------- MODULE GuestViewsProofs --------------------------
(***************************************************************************)
(* Proofs about GuestViews, for any holders, addresses, slots and images,  *)
(* and for any number of views.                                            *)
(***************************************************************************)
EXTENDS GuestViews, TLAPS

----------------------------------------------------------------------------
(***************************************************************************)
(* Type correctness.  It needs Retirement: an import that ends was not on  *)
(* the list before, so what a flush destroys is not left among the ended.  *)
(***************************************************************************)

\* A view is a number from 1, so 0 is none.
LEMMA ViewNumbers ==
    /\ 0 \notin View
    /\ \A v \in View : v \in 0..MaxView
    /\ \A v \in 0..MaxView : v # 0 => v \in View
    /\ \A m \in 0..MaxView : m < MaxView => m + 1 \in View
  BY ViewsAssumption DEF View

\* A flush leaves what it touches well typed.
LEMMA FlushTypes ==
    ASSUME TypeOK, Retirement, Flush
    PROVE  /\ live' \subseteq View /\ ended' \subseteq live'
           /\ parent_wait' \in [View -> SUBSET Slot]
           /\ barrier_wait' \in [View -> SUBSET Slot]
           /\ retired_views' \subseteq Ptr
           /\ retired_guest_imports' \subseteq View
           /\ released' \subseteq Ptr
  <1>1. live' \subseteq View /\ ended' \subseteq live'
    BY DEF TypeOK, Retirement, Flush, Ready, Waiting
  <1>2. parent_wait' \in [View -> SUBSET Slot] /\ barrier_wait' \in [View -> SUBSET Slot]
    BY DEF TypeOK, Flush
  <1>3. QED
    BY <1>1, <1>2 DEF Flush

\* Unmapping leaves the shim's table well typed.
LEMMA UnmapTypes ==
    ASSUME TypeOK, NEW U
    PROVE  Unmap(U) \in [Addr -> 0..MaxView]
  BY ViewNumbers, ViewsAssumption DEF TypeOK, Unmap

\* So does mapping, after any flush.
LEMMA MapTypes ==
    ASSUME TypeOK, NEW p \in Ptr, NEW views \in [Addr -> 0..MaxView], MapPages(p, views)
    PROVE  /\ page_views' \in [Addr -> 0..MaxView]
           /\ made' \in 0..MaxView
           /\ ptr' \in [View -> Ptr]
           /\ made + 1 \in View /\ made + 1 \in 0..MaxView
  <1>1. made \in 0..MaxView /\ made < MaxView
    BY DEF TypeOK, MapPages
  <1>2. made + 1 \in View /\ made + 1 \in 0..MaxView
    BY <1>1, ViewNumbers
  <1>3. QED
    BY <1>1, <1>2 DEF TypeOK, MapPages

\* A recorded read leaves the slots well typed.
LEMMA RecordTypes ==
    ASSUME TypeOK, NEW v \in View, Record(v)
    PROVE  batch' \subseteq Ring /\ open' \subseteq Slot /\ reads' \in [Slot -> SUBSET View]
  BY DEF TypeOK, Record, Ring

\* The slots stay well typed when some of them retire.
LEMMA RetiredTypes ==
    ASSUME TypeOK, NEW S, Retired(S)
    PROVE  open' \subseteq Slot /\ reads' \in [Slot -> SUBSET View]
  BY DEF TypeOK, Retired

\* The graveyard stays well typed when bits are given back.
LEMMA GiveBackTypes ==
    ASSUME TypeOK, NEW S, GiveBack(S)
    PROVE  /\ live' \subseteq View /\ ended' \subseteq live'
           /\ owner' \in [Image -> 0..MaxView]
           /\ parent_wait' \in [View -> SUBSET Slot]
           /\ barrier_wait' \in [View -> SUBSET Slot]
           /\ image_wait' \in [Image -> SUBSET Slot]
           /\ {ptr[v] : v \in Freed(S)} \subseteq Ptr
  <1>1. 0 \in 0..MaxView
    BY ViewsAssumption
  <1>2. Freed(S) \subseteq View
    BY DEF TypeOK, Freed
  <1>3. live' \subseteq View /\ ended' \subseteq live'
    BY DEF TypeOK, GiveBack
  <1>4. owner' \in [Image -> 0..MaxView]
    BY <1>1 DEF TypeOK, GiveBack
  <1>5. /\ parent_wait' \in [View -> SUBSET Slot]
        /\ barrier_wait' \in [View -> SUBSET Slot]
        /\ image_wait' \in [Image -> SUBSET Slot]
    BY DEF TypeOK, GiveBack
  <1>6. {ptr[v] : v \in Freed(S)} \subseteq Ptr
    BY <1>2 DEF TypeOK
  <1>7. QED
    BY <1>3, <1>4, <1>5, <1>6

\* And after everything is destroyed.
LEMMA DestroyTypes ==
    ASSUME TypeOK, DestroyAll
    PROVE  /\ live' \subseteq View /\ ended' \subseteq live'
           /\ owner' \in [Image -> 0..MaxView]
           /\ parent_wait' \in [View -> SUBSET Slot]
           /\ barrier_wait' \in [View -> SUBSET Slot]
           /\ image_wait' \in [Image -> SUBSET Slot]
           /\ batch' \subseteq Ring /\ open' \subseteq Slot
           /\ reads' \in [Slot -> SUBSET View]
           /\ Destroyed \subseteq Ptr
  <1>1. 0 \in 0..MaxView
    BY ViewsAssumption
  <1>2. Destroyed \subseteq Ptr
    BY DEF TypeOK, Destroyed
  <1>3. QED
    BY <1>1, <1>2 DEF DestroyAll

\* Every step keeps the types.
LEMMA TypeStep ==
    ASSUME TypeOK, Retirement, Next
    PROVE  TypeOK'
<1> USE DEF shimVars, stateVars, waitVars, slotVars, poolVars
<1>1. ASSUME NEW h \in Holder, NEW p \in Ptr, EnsureView(h, p)
      PROVE  TypeOK'
  <2>1. Flush /\ MapPages(p, Unmap(Flushed))
    BY <1>1 DEF EnsureView
  <2>2. Unmap(Flushed) \in [Addr -> 0..MaxView]
    BY UnmapTypes
  <2>3. /\ page_views' \in [Addr -> 0..MaxView] /\ made' \in 0..MaxView
        /\ ptr' \in [View -> Ptr] /\ made + 1 \in 0..MaxView
    BY <2>1, <2>2, MapTypes
  <2>4. QED
    BY <1>1, <2>1, <2>3, FlushTypes DEF TypeOK, EnsureView
<1>2. ASSUME NEW h \in Holder, NEW p \in Ptr, EnsurePacked(h, p)
      PROVE  TypeOK'
  <2>1. MapPages(p, page_views) /\ page_views \in [Addr -> 0..MaxView]
    BY <1>2 DEF EnsurePacked, TypeOK
  <2>2. /\ page_views' \in [Addr -> 0..MaxView] /\ made' \in 0..MaxView
        /\ ptr' \in [View -> Ptr] /\ made + 1 \in 0..MaxView
    BY <2>1, MapTypes
  <2>3. import' \in [View -> {"none", "live", "retired"}]
    BY <1>2 DEF TypeOK, EnsurePacked
  <2>4. QED
    BY <1>2, <2>2, <2>3 DEF TypeOK, EnsurePacked
<1>3. CASE FlushOnly
  <2>1. page_views' \in [Addr -> 0..MaxView]
    BY <1>3, UnmapTypes DEF FlushOnly
  <2>2. QED
    BY <1>3, <2>1, FlushTypes DEF TypeOK, FlushOnly
<1>4. ASSUME NEW h \in Holder, ResolveMapping(h)
      PROVE  TypeOK'
  <2>1. page_views' \in [Addr -> 0..MaxView]
    BY <1>4, UnmapTypes DEF ResolveMapping
  <2>2. QED
    BY <1>4, <2>1, FlushTypes DEF TypeOK, ResolveMapping
<1>5. ASSUME NEW h \in Holder, ResolvePacked(h)
      PROVE  TypeOK'
  BY <1>5 DEF TypeOK, ResolvePacked
<1>6. CASE Bind
  <2>1. packet \in View /\ Record(packet) /\ packet' \in 0..MaxView
    BY <1>6, ViewNumbers, ViewsAssumption DEF Bind, TypeOK
  <2>2. QED
    BY <1>6, <2>1, RecordTypes DEF TypeOK, Bind
<1>7. ASSUME NEW g \in Image, BindImage(g)
      PROVE  TypeOK'
  <2>1. packet \in View /\ Record(packet) /\ packet' \in 0..MaxView
    BY <1>7, ViewNumbers, ViewsAssumption DEF BindImage, TypeOK
  <2>2. QED
    BY <1>7, <2>1, RecordTypes DEF TypeOK, BindImage
<1>8. ASSUME NEW g \in Image, DrawImage(g)
      PROVE  TypeOK'
  <2>1. owner[g] \in View /\ Record(owner[g])
    BY <1>8, ViewNumbers DEF DrawImage, Resident, TypeOK
  <2>2. QED
    BY <1>8, <2>1, RecordTypes DEF TypeOK, DrawImage
<1>9. CASE EndPacket
  <2>1. packet' \in 0..MaxView
    BY <1>9, ViewsAssumption DEF EndPacket
  <2>2. QED
    BY <1>9, <2>1 DEF TypeOK, EndPacket
<1>10. ASSUME NEW h \in Holder, RetireMapping(h) \/ RetireSpan(h) \/ DropPacked(h)
       PROVE  TypeOK'
  <2>1. held' \in [Holder -> 0..MaxView] /\ held[h] \in View
    BY <1>10, ViewNumbers, ViewsAssumption
       DEF TypeOK, RetireMapping, RetireSpan, DropPacked
  <2>2. QED
    BY <1>10, <2>1 DEF TypeOK, RetireMapping, RetireSpan, DropPacked
<1>11. ASSUME NEW r \in Slot, RetireSlot(r)
       PROVE  TypeOK'
  BY <1>11, RetiredTypes, GiveBackTypes DEF TypeOK, RetireSlot
<1>12. CASE Seal
  BY <1>12 DEF TypeOK, Seal
<1>13. CASE RetireAll
  BY <1>13, RetiredTypes, GiveBackTypes DEF TypeOK, RetireAll
<1>14. ASSUME NEW g \in Image, Evict(g)
       PROVE  TypeOK'
  <2>1. 0 \in 0..MaxView
    BY ViewsAssumption
  <2>2. QED
    BY <1>14, <2>1 DEF TypeOK, Evict
<1>15. ASSUME NEW g \in Image, Present(g)
       PROVE  TypeOK'
  <2>1. owner[g] \in View
    BY <1>15, ViewNumbers DEF Present, Resident, TypeOK
  <2>2. QED
    BY <1>15, <2>1, ViewsAssumption DEF TypeOK, Present
<1>16. CASE PresentDone
  BY <1>16, RetiredTypes DEF TypeOK, PresentDone
<1>17. ASSUME NEW S \in SUBSET Ring, Heartbeat(S)
       PROVE  TypeOK'
  <2>1. page_views' \in [Addr -> 0..MaxView]
    BY <1>17, UnmapTypes DEF Heartbeat
  <2>2. QED
    BY <1>17, <2>1, RetiredTypes, GiveBackTypes DEF TypeOK, Heartbeat
<1>18. CASE DeviceLost
  BY <1>18, DestroyTypes DEF TypeOK, DeviceLost
<1>19. CASE Reset
  <2>1. page_views' \in [Addr -> 0..MaxView]
    BY <1>19, UnmapTypes DEF Reset
  <2>2. held' \in [Holder -> 0..MaxView]
    BY <1>19, ViewsAssumption DEF Reset
  <2>3. import' \in [View -> {"none", "live", "retired"}]
    BY <1>19 DEF TypeOK, Reset
  <2>4. lost' \in {"never", "since", "before"}
    BY <1>19 DEF TypeOK, Reset
  <2>5. DestroyAll
    BY <1>19 DEF Reset
  <2>6. QED
    BY <1>19, <2>1, <2>2, <2>3, <2>4, <2>5, DestroyTypes DEF TypeOK, Reset
<1>20. QED
  BY <1>1, <1>2, <1>3, <1>4, <1>5, <1>6, <1>7, <1>8, <1>9, <1>10, <1>11, <1>12, <1>13,
     <1>14, <1>15, <1>16, <1>17, <1>18, <1>19 DEF Next, Drain, Engine
----------------------------------------------------------------------------
(***************************************************************************)
(* Numbering.                                                              *)
(***************************************************************************)

\* A step that unmaps views, lets go of cached ones, and gives no new import to a
\* view, keeps the numbering.
LEMMA NumberingFrame ==
    ASSUME TypeOK, Numbering, TypeOK',
           made' = made, ptr' = ptr,
           \A a \in Addr : page_views'[a] = page_views[a] \/ page_views'[a] = 0,
           \A h \in Holder : held'[h] = held[h] \/ held'[h] = 0,
           packet' = packet \/ packet' = 0 \/ \E h \in Holder : packet' = held[h],
           \A v \in View : import'[v] # "none" => import[v] # "none",
           \A h \in Packed : held'[h] # 0 /\ import[held[h]] = "live"
                                => import'[held[h]] = "live"
    PROVE  Numbering'
  <1>1. Packed \subseteq Holder /\ Span \subseteq Holder
    BY DEF Holder
  <1>2. \A h \in Holder : held'[h] # 0 => held[h] \in View /\ held'[h] = held[h]
    BY ViewNumbers DEF TypeOK
  <1>3. \A a \in Addr : page_views'[a] <= made' /\ (page_views'[a] # 0 => ptr'[page_views'[a]] = a)
    BY DEF TypeOK, Numbering
  <1>4. /\ \A h \in Holder : held'[h] <= made'
        /\ packet' <= made'
        /\ \A v \in View : import'[v] # "none" => v <= made'
    BY DEF TypeOK, Numbering
  <1>5. \A h, k \in Holder : held'[h] = held'[k] /\ held'[h] # 0 => h = k
    BY DEF Numbering
  <1>6. \A h \in Packed : held'[h] # 0 /\ ptr'[held'[h]] \in Addr
                            => import'[held'[h]] = "live"
    BY <1>1, <1>2 DEF Numbering
  <1>7. \A h \in Span : held'[h] # 0 => import'[held'[h]] = "none"
    BY <1>1, <1>2 DEF Numbering
  <1>8. QED
    BY <1>3, <1>4, <1>5, <1>6, <1>7 DEF Numbering

\* A step that gives holder h a new view keeps it, whatever was unmapped before.
LEMMA NumberingMap ==
    ASSUME TypeOK, Numbering, TypeOK',
           NEW h \in Holder, held[h] = 0,
           NEW p \in Ptr,
           NEW views \in [Addr -> 0..MaxView],
           \A a \in Addr : views[a] = page_views[a] \/ views[a] = 0,
           MapPages(p, views),
           held' = [held EXCEPT ![h] = made + 1],
           packet' = packet,
           \A v \in View : v # made + 1 => import'[v] = import[v],
           h \in Packed /\ p \in Addr => import'[made + 1] = "live",
           h \in Span => import'[made + 1] = import[made + 1]
    PROVE  Numbering'
  <1>1. Packed \subseteq Holder /\ Span \subseteq Holder
    BY DEF Holder
  <1>2. made \in Nat /\ made + 1 \in View /\ made' = made + 1
    BY MapTypes DEF MapPages, TypeOK
  <1>3. \A k \in Holder : k # h => held'[k] = held[k] /\ held[k] # made + 1
    <2>1. \A k \in Holder : held[k] \in Nat /\ held[k] <= made
      BY DEF TypeOK, Numbering
    <2>2. \A k \in Holder : held[k] # made + 1
      BY <2>1, <1>2
    <2>3. QED
      BY <2>2 DEF TypeOK
  <1>4. held'[h] = made + 1
    BY DEF TypeOK
  <1>5. import[made + 1] = "none"
    <2>1. ~(made + 1 <= made)
      BY <1>2
    <2>2. QED
      BY <1>2, <2>1 DEF Numbering
  <1>6. \A v \in View : v # made + 1 => ptr'[v] = ptr[v]
    BY DEF TypeOK, MapPages
  <1>7. \A a \in Addr : page_views'[a] <= made' /\ (page_views'[a] # 0 => ptr'[page_views'[a]] = a)
    <2> SUFFICES ASSUME NEW a \in Addr
                 PROVE  page_views'[a] <= made' /\ (page_views'[a] # 0 => ptr'[page_views'[a]] = a)
      OBVIOUS
    <2>1. CASE a = p
      <3>1. page_views'[a] = made + 1 /\ ptr'[made + 1] = a
        BY <1>2, <2>1 DEF MapPages, TypeOK
      <3>2. QED
        BY <1>2, <3>1
    <2>2. CASE a # p
      <3>1. page_views'[a] = page_views[a] \/ page_views'[a] = 0
        BY <2>2 DEF MapPages
      <3>2. page_views[a] \in Nat /\ page_views[a] <= made
        BY DEF TypeOK, Numbering
      <3>3. page_views'[a] <= made' /\ page_views[a] # made + 1
        BY <1>2, <3>1, <3>2
      <3>4. page_views[a] # 0 => page_views[a] \in View /\ ptr[page_views[a]] = a
        BY ViewNumbers DEF TypeOK, Numbering
      <3>5. QED
        BY <1>6, <3>1, <3>3, <3>4
    <2>3. QED
      BY <2>1, <2>2
  <1>8. \A k \in Holder : held'[k] <= made'
    <2>1. \A k \in Holder : held[k] \in Nat /\ held[k] <= made
      BY DEF TypeOK, Numbering
    <2>2. QED
      BY <1>2, <1>3, <1>4, <2>1
  <1>9. \A j, k \in Holder : held'[j] = held'[k] /\ held'[j] # 0 => j = k
    BY <1>3, <1>4 DEF Numbering
  <1>10. packet' <= made' /\ \A v \in View : import'[v] # "none" => v <= made'
    <2>1. packet \in Nat /\ packet <= made
      BY DEF TypeOK, Numbering
    <2>2. \A v \in View : v \in Nat
      BY DEF View
    <2>3. \A v \in View : v # made + 1 /\ import'[v] # "none" => v <= made
      BY DEF Numbering
    <2>4. QED
      BY <1>2, <2>1, <2>2, <2>3
  <1>11. \A k \in Packed : held'[k] # 0 /\ ptr'[held'[k]] \in Addr
                             => import'[held'[k]] = "live"
    <2>1. ptr'[made + 1] = p
      BY <1>2 DEF MapPages, TypeOK
    <2>2. \A k \in Holder : held[k] # 0 => held[k] \in View
      BY ViewNumbers DEF TypeOK
    <2>3. QED
      BY <1>1, <1>3, <1>4, <1>6, <2>1, <2>2 DEF Numbering
  <1>12. \A k \in Span : held'[k] # 0 => import'[held'[k]] = "none"
    <2>1. \A k \in Holder : held[k] # 0 => held[k] \in View
      BY ViewNumbers DEF TypeOK
    <2>2. QED
      BY <1>1, <1>3, <1>4, <1>5, <2>1 DEF Numbering
  <1>13. QED
    BY <1>7, <1>8, <1>9, <1>10, <1>11, <1>12 DEF Numbering

\* Every step keeps the numbering.
LEMMA NumberingStep ==
    ASSUME TypeOK, Numbering, TypeOK', Next
    PROVE  Numbering'
<1> USE DEF shimVars, stateVars, waitVars, slotVars, poolVars
<1>a. Packed \subseteq Holder /\ Span \subseteq Holder /\ Mapping \subseteq Holder
  BY DEF Holder
<1>b. \A U : \A a \in Addr : Unmap(U)[a] = page_views[a] \/ Unmap(U)[a] = 0
  BY DEF Unmap
<1>c. ASSUME UNCHANGED <<made, ptr, held, import>>,
             packet' = packet \/ packet' = 0 \/ \E h \in Holder : packet' = held[h],
             \A a \in Addr : page_views'[a] = page_views[a] \/ page_views'[a] = 0
      PROVE  Numbering'
  BY <1>c, NumberingFrame
<1>1. ASSUME NEW h \in Holder, NEW p \in Ptr, EnsureView(h, p)
      PROVE  Numbering'
  <2>1. Unmap(Flushed) \in [Addr -> 0..MaxView]
    BY UnmapTypes
  <2>2. h \notin Packed
    BY <1>1, ViewsAssumption DEF EnsureView
  <2>3. QED
    BY <1>1, <1>b, <2>1, <2>2, NumberingMap DEF EnsureView
<1>2. ASSUME NEW h \in Holder, NEW p \in Ptr, EnsurePacked(h, p)
      PROVE  Numbering'
  <2>1. made + 1 \in View
    BY <1>2, MapTypes DEF EnsurePacked, TypeOK
  <2>2. h \notin Span
    BY <1>2, ViewsAssumption DEF EnsurePacked
  <2>3. p \in Addr => import'[made + 1] = "live"
    BY <1>2, <2>1, ViewsAssumption DEF EnsurePacked, TypeOK
  <2>4. \A v \in View : v # made + 1 => import'[v] = import[v]
    BY <1>2 DEF EnsurePacked, TypeOK
  <2>5. page_views \in [Addr -> 0..MaxView]
    BY DEF TypeOK
  <2>6. QED
    BY <1>2, <2>2, <2>3, <2>4, <2>5, NumberingMap DEF EnsurePacked
<1>3. CASE FlushOnly
  BY <1>3, <1>b, <1>c DEF FlushOnly
<1>4. ASSUME NEW h \in Holder, ResolveMapping(h)
      PROVE  Numbering'
  <2>1. h \in Mapping /\ held[h] \in View
    BY <1>4, ViewNumbers DEF ResolveMapping, TypeOK
  <2>2. \A k \in Packed \cup Span : held[k] # 0 => held[k] # held[h]
    BY <1>a, <2>1, ViewsAssumption DEF Numbering
  <2>3. /\ import'[held[h]] = "live"
        /\ \A v \in View : v # held[h] => import'[v] = import[v]
    BY <1>4, <2>1 DEF ResolveMapping, TypeOK
  <2>4. UNCHANGED <<made, ptr, held>> /\ packet' = held[h]
    BY <1>4 DEF ResolveMapping
  <2>5. \A a \in Addr : page_views'[a] = page_views[a] \/ page_views'[a] = 0
    BY <1>4, <1>b DEF ResolveMapping
  <2>6. \A a \in Addr : page_views'[a] <= made' /\ (page_views'[a] # 0 => ptr'[page_views'[a]] = a)
    BY <2>4, <2>5 DEF TypeOK, Numbering
  <2>7. \A v \in View : import'[v] # "none" => v <= made'
    BY <2>1, <2>3, <2>4 DEF Numbering
  <2>8. \A k \in Holder : held[k] # 0 => held[k] \in View
    BY ViewNumbers DEF TypeOK
  <2>9. QED
    BY <1>a, <2>1, <2>2, <2>3, <2>4, <2>6, <2>7, <2>8 DEF Numbering
<1>5. ASSUME NEW h \in Holder, ResolvePacked(h)
      PROVE  Numbering'
  BY <1>5, <1>c DEF ResolvePacked
<1>6. CASE Bind \/ EndPacket \/ \E g \in Image : BindImage(g)
  BY <1>6, <1>c DEF Bind, EndPacket, BindImage
<1>7. ASSUME NEW h \in Holder, RetireMapping(h) \/ RetireSpan(h) \/ DropPacked(h)
      PROVE  Numbering'
  <2>1. held[h] \in View /\ UNCHANGED <<page_views, made, ptr, packet>>
    BY <1>7, ViewNumbers DEF TypeOK, RetireMapping, RetireSpan, DropPacked
  <2>2. held' = [held EXCEPT ![h] = 0]
    BY <1>7 DEF RetireMapping, RetireSpan, DropPacked
  <2>3. \A k \in Holder : held'[k] = held[k] \/ held'[k] = 0
    BY <2>2 DEF TypeOK
  <2>4. /\ \A v \in View : v # held[h] => import'[v] = import[v]
        /\ import'[held[h]] # "none" => import[held[h]] # "none"
    BY <1>7, <2>1 DEF TypeOK, RetireMapping, RetireSpan, DropPacked
  <2>5. \A k \in Holder : held'[k] # 0 => held[k] \in View /\ held[k] # held[h]
    <3>1. \A k \in Holder : held'[k] # 0 => k # h /\ held[k] = held'[k]
      BY <2>2 DEF TypeOK
    <3>2. \A k \in Holder : held[k] # 0 => held[k] \in View
      BY ViewNumbers DEF TypeOK
    <3>3. QED
      BY <3>1, <3>2 DEF Numbering
  <2>6. QED
    BY <1>a, <2>1, <2>3, <2>4, <2>5, NumberingFrame
<1>8. CASE \/ \E g \in Image : DrawImage(g) \/ Evict(g) \/ Present(g)
           \/ \E r \in Slot : RetireSlot(r)
           \/ Seal \/ RetireAll \/ PresentDone \/ DeviceLost
  BY <1>8, <1>c DEF DrawImage, Evict, Present, RetireSlot, Seal, RetireAll, PresentDone,
     DeviceLost
<1>9. ASSUME NEW S \in SUBSET Ring, Heartbeat(S)
      PROVE  Numbering'
  BY <1>9, <1>b, <1>c DEF Heartbeat
<1>10. CASE Reset
  <2>1. \A h \in Holder : held'[h] = 0
    BY <1>10 DEF Reset
  <2>2. \A v \in View : import'[v] # "none" => import[v] # "none"
    BY <1>10 DEF Reset, TypeOK
  <2>3. /\ UNCHANGED <<made, ptr, packet>>
        /\ \A a \in Addr : page_views'[a] = page_views[a] \/ page_views'[a] = 0
    BY <1>10, <1>b DEF Reset
  <2>4. QED
    BY <1>a, <2>1, <2>2, <2>3, NumberingFrame
<1>11. QED
  BY <1>1, <1>2, <1>3, <1>4, <1>5, <1>6, <1>7, <1>8, <1>9, <1>10
     DEF Next, Drain, Engine
----------------------------------------------------------------------------
(***************************************************************************)
(* Retirement.                                                             *)
(***************************************************************************)

\* A flush moves each import on the list to where its retirement continues.
LEMMA RetirementFlush ==
    ASSUME TypeOK, Retirement, TypeOK', Flush,
           \A v \in View : import[v] = "retired" => import'[v] = "retired",
           \A v \in View : import[v] # "none" => import'[v] # "none",
           \A h \in Holder : held'[h] # 0 => import'[held'[h]] # "retired"
    PROVE  Retirement'
  <1>1. \A v \in live' : import'[v] # "none"
    BY DEF Flush, TypeOK, Retirement
  <1>2. \A v \in ended' : import'[v] = "retired"
    BY DEF Flush, TypeOK, Retirement, Waiting
  <1>3. \A v \in View : parent_wait'[v] # {} =>
          v \notin live' \cup retired_guest_imports' /\ import'[v] = "retired"
    BY DEF Flush, TypeOK, Retirement, Ready
  <1>4. retired_guest_imports' = {}
    BY DEF Flush
  <1>5. QED
    BY <1>1, <1>2, <1>3, <1>4 DEF Retirement

\* A step that frees imports keeps it.
LEMMA RetirementFrame ==
    ASSUME TypeOK, Retirement, TypeOK',
           live' \subseteq live, ended' \subseteq ended,
           retired_guest_imports' = retired_guest_imports,
           import' = import,
           \A v \in View : parent_wait'[v] # {} => parent_wait[v] # {},
           \A h \in Holder : held'[h] = held[h] \/ held'[h] = 0
    PROVE  Retirement'
  BY DEF Retirement, TypeOK

\* Every step keeps Retirement.
LEMMA RetirementStep ==
    ASSUME TypeOK, Numbering, Retirement, TypeOK', Next
    PROVE  Retirement'
<1> USE DEF shimVars, stateVars, waitVars, slotVars, poolVars
<1>a. \A h \in Holder : held[h] # 0 => held[h] \in View
  BY ViewNumbers DEF TypeOK
<1>b. ASSUME NEW S, GiveBack(S), UNCHANGED <<retired_guest_imports, import, held>>
      PROVE  Retirement'
  <2>1. \A v \in View : parent_wait'[v] # {} => parent_wait[v] # {}
    BY <1>b DEF GiveBack
  <2>2. live' \subseteq live /\ ended' \subseteq ended
    BY <1>b DEF GiveBack
  <2>3. QED
    BY <1>b, <2>1, <2>2, RetirementFrame
<1>1. ASSUME NEW h \in Holder, NEW p \in Ptr, EnsureView(h, p)
      PROVE  Retirement'
  <2>1. made + 1 \in View /\ made \in Nat
    BY <1>1, MapTypes, UnmapTypes DEF EnsureView, TypeOK
  <2>2. import[made + 1] = "none"
    <3>1. ~(made + 1 <= made)
      BY <2>1
    <3>2. QED
      BY <2>1, <3>1 DEF Numbering
  <2>3. \A k \in Holder : held'[k] # 0 => import'[held'[k]] # "retired"
    BY <1>1, <2>2 DEF EnsureView, TypeOK, Retirement
  <2>4. QED
    BY <1>1, <2>3, RetirementFlush DEF EnsureView
<1>2. ASSUME NEW h \in Holder, NEW p \in Ptr, EnsurePacked(h, p)
      PROVE  Retirement'
  <2>1. made + 1 \in View /\ made \in Nat
    BY <1>2, MapTypes DEF EnsurePacked, TypeOK
  <2>2. import[made + 1] = "none"
    <3>1. ~(made + 1 <= made)
      BY <2>1
    <3>2. QED
      BY <2>1, <3>1 DEF Numbering
  <2>3. /\ import'[made + 1] # "retired"
        /\ \A v \in View : v # made + 1 => import'[v] = import[v]
    BY <1>2, <2>1, <2>2 DEF EnsurePacked, TypeOK
  <2>4. \A k \in Holder : held'[k] = made + 1 \/ held'[k] = held[k]
    BY <1>2 DEF EnsurePacked, TypeOK
  <2>5. UNCHANGED <<live, ended, retired_guest_imports, parent_wait>>
    BY <1>2 DEF EnsurePacked
  <2>6. \A v \in live \cup ended \cup retired_guest_imports : v # made + 1
    BY <2>2 DEF Retirement
  <2>7. \A v \in View : parent_wait[v] # {} => v # made + 1
    BY <2>2 DEF Retirement
  <2>8. QED
    BY <1>a, <2>3, <2>4, <2>5, <2>6, <2>7 DEF Retirement, TypeOK
<1>3. CASE FlushOnly
  BY <1>3, RetirementFlush DEF FlushOnly, Retirement, TypeOK
<1>4. ASSUME NEW h \in Holder, ResolveMapping(h)
      PROVE  Retirement'
  <2>1. held[h] \in View /\ import[held[h]] # "retired"
    BY <1>4, <1>a DEF ResolveMapping, Retirement
  <2>2. /\ import'[held[h]] = "live"
        /\ \A v \in View : v # held[h] => import'[v] = import[v]
        /\ held' = held
    BY <1>4, <2>1 DEF ResolveMapping, TypeOK
  <2>3. \A k \in Holder : held'[k] # 0 => import'[held'[k]] # "retired"
    BY <1>a, <2>2 DEF Retirement
  <2>4. QED
    BY <1>4, <2>1, <2>2, <2>3, RetirementFlush DEF ResolveMapping
<1>5. CASE \/ \E h \in Holder : ResolvePacked(h) \/ DropPacked(h) \/ RetireSpan(h)
           \/ \E g \in Image : DrawImage(g) \/ Evict(g) \/ Present(g)
           \/ EndPacket \/ Seal \/ PresentDone
  <2>1. \A h \in Holder : held'[h] = held[h] \/ held'[h] = 0
    BY <1>5 DEF TypeOK, ResolvePacked, DropPacked, RetireSpan, DrawImage, Evict, Present,
       EndPacket, Seal, PresentDone
  <2>2. live' \subseteq live /\ ended' \subseteq ended
    BY <1>5 DEF TypeOK, ResolvePacked, DropPacked, RetireSpan, DrawImage, Evict, Present,
       EndPacket, Seal, PresentDone
  <2>3. UNCHANGED <<retired_guest_imports, import, parent_wait>>
    BY <1>5 DEF ResolvePacked, DropPacked, RetireSpan, DrawImage, Evict, Present,
       EndPacket, Seal, PresentDone
  <2>4. QED
    BY <2>1, <2>2, <2>3, RetirementFrame
<1>6. CASE Bind \/ \E g \in Image : BindImage(g)
  <2>1. /\ packet \in View /\ import[packet] = "live" /\ live' = live \cup {packet}
        /\ UNCHANGED <<held, import, retired_guest_imports, ended, parent_wait>>
    BY <1>6, ViewNumbers DEF Bind, BindImage, TypeOK
  <2>2. QED
    BY <2>1 DEF Retirement
<1>7. ASSUME NEW h \in Holder, RetireMapping(h)
      PROVE  Retirement'
  <2>1. /\ held[h] \in View /\ import[held[h]] # "retired"
        /\ UNCHANGED <<live, ended, parent_wait>>
    BY <1>7, <1>a DEF RetireMapping, Retirement
  <2>2. \A k \in Holder : held'[k] # 0 => held'[k] = held[k] /\ held[k] # held[h]
    <3>1. \A k \in Holder : held'[k] # 0 => k # h /\ held'[k] = held[k]
      BY <1>7 DEF RetireMapping, TypeOK
    <3>2. QED
      BY <3>1 DEF Numbering
  <2>3. \A v \in View : v # held[h] => import'[v] = import[v]
    BY <1>7 DEF RetireMapping, TypeOK
  <2>4. \/ import' = import /\ retired_guest_imports' = retired_guest_imports
        \/ /\ import'[held[h]] = "retired"
           /\ retired_guest_imports' = retired_guest_imports \cup {held[h]}
    BY <1>7, <2>1 DEF RetireMapping, TypeOK
  <2>5. held[h] \notin ended /\ held[h] \notin retired_guest_imports /\ parent_wait[held[h]] = {}
    BY <2>1 DEF Retirement
  <2>6. QED
    BY <1>a, <2>1, <2>2, <2>3, <2>4, <2>5 DEF Retirement, TypeOK
<1>8. CASE \/ \E r \in Slot : RetireSlot(r)
           \/ RetireAll
           \/ \E S \in SUBSET Ring : Heartbeat(S)
  BY <1>8, <1>b DEF RetireSlot, RetireAll, Heartbeat
<1>9. CASE DeviceLost \/ Reset
  <2>1. live' = {} /\ ended' = {} /\ \A v \in View : parent_wait'[v] = {}
    BY <1>9 DEF DeviceLost, Reset, DestroyAll
  <2>2. CASE DeviceLost
    BY <2>1, <2>2 DEF DeviceLost, Retirement
  <2>3. CASE Reset
    BY <2>1, <2>3 DEF Reset, Retirement
  <2>4. QED
    BY <1>9, <2>2, <2>3
<1>10. QED
  BY <1>1, <1>2, <1>3, <1>4, <1>5, <1>6, <1>7, <1>8, <1>9 DEF Next, Drain, Engine

----------------------------------------------------------------------------
(***************************************************************************)
(* Fencing.                                                                *)
(***************************************************************************)

\* A flush parks a childless import behind every slot that may read it, and ends one
\* with children behind the same barrier.
LEMMA FencingFlush ==
    ASSUME TypeOK, Retirement, Fencing, TypeOK', Flush,
           UNCHANGED <<owner, image_wait, slotVars>>
    PROVE  Fencing'
<1> USE DEF slotVars
<1>1. \A g \in Image : owner'[g] # 0 => owner'[g] \in live'
  BY DEF Fencing, Flush, Ready, Children
<1>2. ASSUME NEW r \in Slot, NEW v \in reads'[r]
      PROVE  KeptFor(v, r)'
  <2>1. r \in open /\ v \in View /\ KeptFor(v, r)
    BY <1>2 DEF Fencing, TypeOK
  <2>2. CASE v \in Ready
    BY <2>1, <2>2 DEF KeptFor, Flush
  <2>3. CASE v \in Waiting
    <3>1. v \in ended' /\ r \in barrier_wait'[v]
      BY <2>1, <2>3 DEF Flush
    <3>2. QED
      BY <3>1 DEF KeptFor
  <2>4. CASE v \notin Ready \cup Waiting
    <3>1. parent_wait'[v] = parent_wait[v] /\ barrier_wait'[v] = barrier_wait[v]
      BY <2>1, <2>4 DEF Flush
    <3>2. (v \in ended' <=> v \in ended) /\ (v \in live' <=> v \in live)
      BY <2>4 DEF Flush
    <3>3. QED
      BY <2>1, <3>1, <3>2 DEF KeptFor
  <2>5. QED
    BY <2>2, <2>3, <2>4
<1>3. QED
  BY <1>1, <1>2 DEF Fencing

\* Giving back the bits S frees nothing that a slot outside S reads.
LEMMA FencingGiveBack ==
    ASSUME TypeOK, Retirement, Fencing, TypeOK',
           NEW S \in SUBSET Slot, GiveBack(S),
           batch' \subseteq open', open' \subseteq open,
           \A r \in Slot : reads'[r] = {} \/ (reads'[r] = reads[r] /\ r \in open' \ S)
    PROVE  Fencing'
<1>1. \A r \in Slot \ open' : reads'[r] = {}
  OBVIOUS
<1>2. \A g \in Image : owner'[g] # 0 => owner'[g] \in live'
  <2> SUFFICES ASSUME NEW g \in Image, owner'[g] # 0
               PROVE  owner'[g] \in live'
    OBVIOUS
  <2>1. g \notin Gone(S) /\ owner'[g] = owner[g] /\ owner[g] \in live
    BY DEF GiveBack, Fencing
  <2>2. owner[g] \notin Freed(S)
    BY <2>1 DEF Freed, Children, Retirement, TypeOK
  <2>3. QED
    BY <2>1, <2>2 DEF GiveBack
<1>3. \A g \in Image : owner'[g] = 0 => image_wait'[g] = {}
  BY DEF GiveBack, Fencing, Gone
<1>4. ASSUME NEW r \in Slot, NEW v \in reads'[r]
      PROVE  KeptFor(v, r)'
  <2>1. r \notin S /\ v \in View /\ KeptFor(v, r)
    BY <1>4 DEF Fencing, TypeOK
  <2>2. CASE v \in live \ ended
    <3>1. v \notin Freed(S)
      BY <2>2 DEF Freed, Retirement, TypeOK
    <3>2. QED
      BY <2>2, <3>1 DEF KeptFor, GiveBack
  <2>3. CASE v \in ended /\ r \in barrier_wait[v]
    <3>1. v \notin Freed(S)
      BY <2>1, <2>3 DEF Freed, Retirement, TypeOK
    <3>2. QED
      BY <2>1, <2>3, <3>1 DEF KeptFor, GiveBack
  <2>4. CASE v \in ended /\ \E g \in Image : owner[g] = v /\ (image_wait[g] = {} \/ r \in image_wait[g])
    <3>1. PICK g \in Image : owner[g] = v /\ (image_wait[g] = {} \/ r \in image_wait[g])
      BY <2>4
    <3>2. g \notin Gone(S) /\ g \in Children(v)
      BY <2>1, <3>1 DEF Gone, Children
    <3>3. v \notin Freed(S)
      BY <2>1, <2>4, <3>2 DEF Freed, Retirement, TypeOK
    <3>4. owner'[g] = v /\ (image_wait'[g] = {} \/ r \in image_wait'[g])
      BY <2>1, <3>1, <3>2 DEF GiveBack
    <3>5. v \in ended'
      BY <2>4, <3>3 DEF GiveBack
    <3>6. QED
      BY <3>4, <3>5 DEF KeptFor
  <2>5. CASE r \in parent_wait[v]
    BY <2>1, <2>5 DEF KeptFor, GiveBack
  <2>6. QED
    BY <2>1, <2>2, <2>3, <2>4, <2>5 DEF KeptFor
<1>5. QED
  BY <1>1, <1>2, <1>3, <1>4 DEF Fencing

\* A recorded read of an import that is kept leaves every other kept.
LEMMA FencingRecord ==
    ASSUME TypeOK, Fencing, TypeOK',
           NEW v \in View, Record(v),
           \A r \in Slot, u \in View : KeptFor(u, r) => KeptFor(u, r)',
           \A r \in Slot : KeptFor(v, r)',
           \A g \in Image : owner'[g] # 0 => owner'[g] \in live',
           \A g \in Image : owner'[g] = 0 => image_wait'[g] = {}
    PROVE  Fencing'
<1>1. PICK s \in Ring : /\ batch' = {s} /\ open' = open \cup {s}
                        /\ reads' = [reads EXCEPT ![s] = @ \cup {v}]
  BY DEF Record
<1>2. s \in Slot
  BY <1>1 DEF Ring
<1>3. /\ reads'[s] = reads[s] \cup {v}
      /\ \A r \in Slot : r # s => reads'[r] = reads[r]
  BY <1>1, <1>2 DEF TypeOK
<1>4. \A r \in Slot \ open' : reads'[r] = {}
  BY <1>1, <1>3 DEF Fencing
<1>5. ASSUME NEW r \in Slot, NEW u \in reads'[r]
      PROVE  KeptFor(u, r)'
  <2>1. u \in View /\ (u = v \/ KeptFor(u, r))
    BY <1>3, <1>5 DEF Fencing, TypeOK
  <2>2. QED
    BY <2>1
<1>6. QED
  BY <1>1, <1>4, <1>5 DEF Fencing

\* Every step keeps Fencing.
LEMMA FencingStep ==
    ASSUME TypeOK, Retirement, Fencing, TypeOK', Next
    PROVE  Fencing'
<1> USE DEF shimVars, stateVars, waitVars, slotVars, poolVars
<1>1. CASE \/ \E h \in Holder, p \in Ptr : EnsureView(h, p)
           \/ \E h \in Holder : ResolveMapping(h)
           \/ FlushOnly
  BY <1>1, FencingFlush DEF EnsureView, ResolveMapping, FlushOnly
<1>2. CASE \/ \E h \in Holder, p \in Ptr : EnsurePacked(h, p)
           \/ \E h \in Holder : ResolvePacked(h) \/ RetireMapping(h) \/ RetireSpan(h) \/ DropPacked(h)
           \/ EndPacket
  <2>1. UNCHANGED poolVars
    BY <1>2 DEF EnsurePacked, ResolvePacked, RetireMapping, RetireSpan, DropPacked, EndPacket
  <2>2. QED
    BY <2>1 DEF Fencing, KeptFor
<1>3. CASE Bind
  <2>1. /\ packet \in View /\ Record(packet) /\ live' = live \cup {packet}
        /\ UNCHANGED <<ended, owner, waitVars>> /\ import[packet] = "live"
    BY <1>3, ViewNumbers DEF Bind, TypeOK
  <2>2. packet \notin ended
    BY <2>1 DEF Retirement
  <2>3. QED
    BY <2>1, <2>2, FencingRecord DEF KeptFor, Fencing
<1>4. ASSUME NEW g \in Image, BindImage(g)
      PROVE  Fencing'
  <2>0. PICK v \in View : v = packet
    BY <1>4, ViewNumbers DEF BindImage, TypeOK
  <2>1. /\ Record(v) /\ live' = live \cup {v}
        /\ owner[g] = 0 /\ UNCHANGED <<ended, waitVars>> /\ import[v] = "live"
    BY <1>4, <2>0 DEF BindImage
  <2>2. v \notin ended
    BY <2>1 DEF Retirement
  <2>3. owner'[g] = v /\ \A f \in Image : f # g => owner'[f] = owner[f]
    BY <1>4, <2>0 DEF BindImage, TypeOK
  <2>4. \A r \in Slot, u \in View : KeptFor(u, r) => KeptFor(u, r)'
    BY <2>1, <2>2, <2>3, ViewNumbers DEF KeptFor
  <2>5. \A r \in Slot : KeptFor(v, r)'
    BY <2>1, <2>2 DEF KeptFor
  <2>6. \A f \in Image : (owner'[f] # 0 => owner'[f] \in live')
                      /\ (owner'[f] = 0 => image_wait'[f] = {})
    BY <2>1, <2>3, ViewNumbers DEF Fencing
  <2>7. QED
    BY <2>1, <2>4, <2>5, <2>6, FencingRecord
<1>5. ASSUME NEW g \in Image, DrawImage(g)
      PROVE  Fencing'
  <2>1. /\ owner[g] \in View /\ owner[g] \in live /\ image_wait[g] = {} /\ Record(owner[g])
        /\ UNCHANGED <<live, ended, owner, waitVars>>
    BY <1>5, ViewNumbers DEF DrawImage, Resident, TypeOK, Fencing
  <2>2. \A r \in Slot : KeptFor(owner[g], r)
    BY <2>1 DEF KeptFor
  <2>3. \A r \in Slot, u \in View : KeptFor(u, r)' <=> KeptFor(u, r)
    BY <2>1 DEF KeptFor
  <2>4. QED
    BY <2>1, <2>2, <2>3, FencingRecord DEF Fencing
<1>6. ASSUME NEW r \in Slot, RetireSlot(r)
      PROVE  Fencing'
  <2>1. GiveBack({r}) /\ batch' \subseteq open' /\ open' \subseteq open
    BY <1>6 DEF RetireSlot, Retired, Fencing
  <2>2. \A s \in Slot : reads'[s] = {} \/ (reads'[s] = reads[s] /\ s \in open' \ {r})
    BY <1>6 DEF RetireSlot, Retired, Fencing
  <2>3. QED
    BY <2>1, <2>2, FencingGiveBack
<1>7. CASE Seal
  BY <1>7 DEF Seal, Fencing, KeptFor
<1>8. CASE RetireAll
  <2> DEFINE bits == Slot \ (open \cap {Window})
  <2>1. GiveBack(bits) /\ batch' \subseteq open' /\ open' \subseteq open
    BY <1>8 DEF RetireAll, Retired
  <2>2. \A s \in Slot : reads'[s] = {} \/ (reads'[s] = reads[s] /\ s \in open' \ bits)
    BY <1>8 DEF RetireAll, Retired, Fencing, Ring
  <2>3. QED
    BY <2>1, <2>2, FencingGiveBack
<1>9. ASSUME NEW g \in Image, Evict(g)
      PROVE  Fencing'
  <2>1. CASE open # {}
    <3>1. /\ \A f \in Image : f # g => image_wait'[f] = image_wait[f]
          /\ image_wait'[g] = open /\ owner[g] # 0
          /\ UNCHANGED <<owner, live, ended, parent_wait, barrier_wait, slotVars>>
      BY <1>9, <2>1 DEF Evict, Resident, TypeOK
    <3>2. \A r \in open, u \in View : KeptFor(u, r) => KeptFor(u, r)'
      BY <3>1 DEF KeptFor
    <3>3. \A r \in Slot : \A u \in reads[r] : r \in open /\ u \in View
      BY DEF Fencing, TypeOK
    <3>4. QED
      BY <3>1, <3>2, <3>3 DEF Fencing
  <2>2. CASE open = {}
    <3> DEFINE done == {v \in ended : barrier_wait[v] = {} /\ Children(v) = {g}}
    <3>1. /\ live' = live \ done
          /\ UNCHANGED <<image_wait, slotVars>>
          /\ owner'[g] = 0 /\ image_wait[g] = {}
          /\ \A f \in Image : f # g => owner'[f] = owner[f]
      BY <1>9, <2>2 DEF Evict, Resident, TypeOK
    <3>2. \A f \in Image : f # g /\ owner[f] # 0 => owner[f] \notin done
      BY DEF Children
    <3>3. QED
      BY <2>2, <3>1, <3>2 DEF Fencing
  <2>3. QED
    BY <2>1, <2>2
<1>10. ASSUME NEW g \in Image, Present(g)
       PROVE  Fencing'
  <2>1. /\ owner[g] \in View /\ owner[g] \in live /\ image_wait[g] = {}
        /\ open' = open \cup {Window}
        /\ UNCHANGED <<live, ended, owner, waitVars, batch>>
    BY <1>10, ViewNumbers DEF Present, Resident, TypeOK, Fencing
  <2>2. \A r \in Slot : KeptFor(owner[g], r)
    BY <2>1 DEF KeptFor
  <2>3. \A r \in Slot, u \in View : KeptFor(u, r)' <=> KeptFor(u, r)
    BY <2>1 DEF KeptFor
  <2>4. /\ reads'[Window] = reads[Window] \cup {owner[g]}
        /\ \A r \in Slot : r # Window => reads'[r] = reads[r]
    BY <1>10, ViewsAssumption DEF Present, TypeOK
  <2>5. \A r \in Slot : \A u \in reads'[r] : u \in View /\ KeptFor(u, r)
    BY <2>2, <2>4, ViewsAssumption DEF Fencing, TypeOK
  <2>6. QED
    BY <2>1, <2>3, <2>4, <2>5 DEF Fencing
<1>11. CASE PresentDone
  <2>1. /\ batch' \subseteq open'
        /\ UNCHANGED <<live, ended, owner, waitVars>>
        /\ \A r \in Slot \ open' : reads'[r] = {}
        /\ \A r \in Slot : reads'[r] \subseteq reads[r]
    BY <1>11 DEF PresentDone, Retired, Fencing, TypeOK, Ring
  <2>2. \A r \in Slot, u \in View : KeptFor(u, r)' <=> KeptFor(u, r)
    BY <2>1 DEF KeptFor
  <2>3. \A r \in Slot : reads[r] \subseteq View
    BY DEF TypeOK
  <2>4. QED
    BY <2>1, <2>2, <2>3 DEF Fencing
<1>12. ASSUME NEW S \in SUBSET Ring, Heartbeat(S)
       PROVE  Fencing'
  <2> DEFINE bits == S \cup ({Window} \ open)
  <2>1. GiveBack(bits) /\ batch' \subseteq open' /\ open' \subseteq open
    BY <1>12 DEF Heartbeat, Retired
  <2>2. bits \in SUBSET Slot
    BY ViewsAssumption DEF Ring
  <2>3. \A s \in Slot : reads'[s] = {} \/ (reads'[s] = reads[s] /\ s \in open' \ bits)
    BY <1>12 DEF Heartbeat, Retired, Fencing
  <2>4. QED
    BY <2>1, <2>2, <2>3, FencingGiveBack
<1>13. CASE DeviceLost \/ Reset
  <2>1. DestroyAll
    BY <1>13 DEF DeviceLost, Reset
  <2>2. QED
    BY <2>1 DEF DestroyAll, Fencing
<1>14. QED
  BY <1>1, <1>2, <1>3, <1>4, <1>5, <1>6, <1>7, <1>8, <1>9, <1>10, <1>11, <1>12, <1>13
     DEF Next, Drain, Engine
----------------------------------------------------------------------------
(***************************************************************************)
(* Backed: two views that are mapped are at two addresses, so what is      *)
(* unmapped for one is never the pages of another.                         *)
(***************************************************************************)

\* What a flush unmaps is nobody's: not a view in use, nor one the engine keeps.
LEMMA FlushSpares ==
    ASSUME TypeOK, Retirement, Backed, lost # "since",
           NEW v \in View, ptr[v] \in Addr,
           \/ InUse(v)
           \/ Imported(v) /\ v \notin Ready
           \/ v \in Ready /\ open # {}
    PROVE  Unmap(Flushed)[ptr[v]] = v
<1>1. Mapped(v) /\ ptr[v] \notin released
  BY DEF Backed, Ready, Imported
<1>2. InUse(v) => v \notin retired_guest_imports
  BY ViewNumbers DEF InUse, Retirement
<1>3. ptr[v] \notin Disposed
  <2> SUFFICES ASSUME open = {}, NEW u \in Ready, ptr[u] = ptr[v]
               PROVE  FALSE
    BY DEF Disposed
  <2>1. u \in View /\ Imported(u) /\ u \in retired_guest_imports
    BY DEF Ready, Imported, TypeOK
  <2>2. Mapped(u)
    BY <2>1 DEF Backed
  <2>3. u = v
    BY <1>1, <2>2 DEF Mapped
  <2>4. QED
    BY <1>2, <2>1, <2>3
<1>4. ptr[v] \in retired_views => \E u \in retired_guest_imports \cap live : ptr[u] = ptr[v]
  <2>1. CASE v \in retired_guest_imports
    <3>1. v \in live
      BY <1>2, <2>1 DEF Imported, Retirement, Ready
    <3>2. QED
      BY <2>1, <3>1
  <2>2. CASE v \notin retired_guest_imports
    BY <2>2 DEF Backed, Ready
  <2>3. QED
    BY <2>1, <2>2
<1>5. ptr[v] \notin Flushed
  BY <1>1, <1>3, <1>4 DEF Flushed
<1>6. QED
  BY <1>1, <1>5 DEF Unmap, Mapped

\* So what is imported or in use after a flush is still mapped.
LEMMA FlushBacks ==
    ASSUME TypeOK, Retirement, Backed, lost # "since", Flush,
           NEW v \in View, ptr[v] \in Addr,
           v \in live' \/ parent_wait'[v] # {} \/ InUse(v)
    PROVE  Unmap(Flushed)[ptr[v]] = v
<1>1. \/ InUse(v)
      \/ Imported(v) /\ v \notin Ready
      \/ v \in Ready /\ open # {}
  BY DEF Flush, Imported
<1>2. QED
  BY <1>1, FlushSpares

\* A step that destroys the imports in F and hands their aliases to the list.
LEMMA BackedRelease ==
    ASSUME TypeOK, Backed, TypeOK',
           UNCHANGED <<page_views, ptr, lost, retired_views, retired_guest_imports>>,
           NEW F \in SUBSET View,
           \A v \in F : Imported(v) /\ v \notin retired_guest_imports,
           \A v \in F : ~ (Imported(v)' \/ InUse(v)'),
           released' = released \cup {ptr[v] : v \in F},
           \A v \in View : Imported(v)' => Imported(v) \/ InUse(v),
           \A v \in View : InUse(v)' => InUse(v)
    PROVE  Backed'
<1> SUFFICES ASSUME lost # "since"
             PROVE  Backed'
  BY DEF Backed
<1>1. \A v \in View : Imported(v)' \/ InUse(v)' => Mapped(v) /\ Mapped(v)'
  BY DEF Backed, Mapped
<1>2. \A v \in F : Mapped(v) /\ ptr[v] \notin Addr \cap retired_views
  BY DEF Backed
<1>3. \A v \in View, u \in F : Imported(v)' \/ InUse(v)' => ptr[v] \notin Addr \/ ptr[v] # ptr[u]
  BY <1>1, <1>2 DEF Mapped
<1>4. \A v \in View : Imported(v)' \/ InUse(v)' => ptr'[v] \notin Addr \cap released'
  BY <1>3 DEF Backed
<1>5. \A v \in View : (Imported(v)' /\ v \notin retired_guest_imports') \/ InUse(v)'
                        => ptr'[v] \notin Addr \cap retired_views'
  BY DEF Backed
<1>6. \A a \in Addr \cap (released' \cup retired_views') : page_views'[a] # 0
  BY <1>2, ViewNumbers DEF Backed, Mapped
<1>7. released' \cap retired_views' \cap Addr = {}
  BY <1>2 DEF Backed
<1>8. QED
  BY <1>1, <1>4, <1>5, <1>6, <1>7 DEF Backed

\* The same, with the list emptied into the shim at once, as the heartbeat does.
LEMMA BackedUnmap ==
    ASSUME TypeOK, Backed, TypeOK',
           UNCHANGED <<ptr, lost, retired_views, retired_guest_imports>>,
           NEW F \in SUBSET View,
           \A v \in F : Imported(v) /\ v \notin retired_guest_imports,
           \A v \in F : ~ (Imported(v)' \/ InUse(v)'),
           page_views' = Unmap(released \cup {ptr[v] : v \in F}),
           released' = {},
           \A v \in View : Imported(v)' => Imported(v),
           \A v \in View : InUse(v)' => InUse(v)
    PROVE  Backed'
<1> SUFFICES ASSUME lost # "since"
             PROVE  Backed'
  BY DEF Backed
<1>1. \A v \in View : Imported(v)' \/ InUse(v)' => Mapped(v) /\ ptr[v] \notin Addr \cap released
  BY DEF Backed
<1>2. \A v \in F : Mapped(v) /\ ptr[v] \notin Addr \cap retired_views
  BY DEF Backed
<1>3. \A v \in View, u \in F : Imported(v)' \/ InUse(v)' => ptr[v] \notin Addr \/ ptr[v] # ptr[u]
  BY <1>1, <1>2 DEF Mapped
<1>4. \A v \in View : Imported(v)' \/ InUse(v)' => Mapped(v)'
  BY <1>1, <1>3 DEF Mapped, Unmap
<1>5. \A v \in View : (Imported(v)' /\ v \notin retired_guest_imports') \/ InUse(v)'
                        => ptr'[v] \notin Addr \cap retired_views'
  BY DEF Backed
<1>6. \A a \in Addr \cap (released' \cup retired_views') : page_views'[a] # 0
  BY <1>2 DEF Backed, Unmap
<1>7. QED
  BY <1>4, <1>5, <1>6 DEF Backed

\* What is freed when bits are given back was imported, and is nobody's any more.
LEMMA FreedIsDone ==
    ASSUME TypeOK, Retirement, NEW S, GiveBack(S), UNCHANGED stateVars
    PROVE  /\ Freed(S) \in SUBSET View
           /\ \A v \in Freed(S) : Imported(v) /\ v \notin retired_guest_imports
           /\ \A v \in Freed(S) : ~ (Imported(v)' \/ InUse(v)')
           /\ \A v \in View : Imported(v)' => Imported(v)
           /\ \A v \in View : InUse(v)' <=> InUse(v)
<1>1. Freed(S) \in SUBSET View
  BY DEF TypeOK, Freed
<1>2. \A v \in Freed(S) : Imported(v) /\ v \notin retired_guest_imports /\ import[v] = "retired"
  BY <1>1 DEF Freed, Imported, Retirement, TypeOK
<1>3. \A v \in Freed(S) : ~ Imported(v)'
  BY <1>1 DEF Freed, Imported, Retirement, TypeOK, GiveBack
<1>4. \A v \in View : Imported(v)' => Imported(v)
  BY DEF Imported, GiveBack
<1>5. \A v \in View : InUse(v)' <=> InUse(v)
  BY DEF InUse, stateVars
<1>6. \A v \in Freed(S) : ~ InUse(v)
  BY <1>1, <1>2, ViewNumbers DEF InUse, Retirement
<1>7. QED
  BY <1>1, <1>2, <1>3, <1>4, <1>5, <1>6

\* Every step keeps Backed.
LEMMA BackedStep ==
    ASSUME TypeOK, Numbering, Retirement, Fencing, Backed, TypeOK', Next
    PROVE  Backed'
<1> USE DEF shimVars, stateVars, waitVars, slotVars, poolVars
<1>0. {} \in SUBSET View /\ \A v \in View : v # 0
  BY ViewNumbers
<1>a. ASSUME UNCHANGED <<page_views, ptr, lost, retired_views, retired_guest_imports, released>>,
             \A v \in View : Imported(v)' => Imported(v) \/ InUse(v),
             \A v \in View : InUse(v)' => InUse(v)
      PROVE  Backed'
  <2>1. released' = released \cup {ptr[v] : v \in {}}
    BY <1>a
  <2>2. QED
    BY <1>0, <1>a, <2>1, BackedRelease
<1>1. ASSUME NEW h \in Holder, NEW p \in Ptr, EnsureView(h, p)
      PROVE  Backed'
  <2> SUFFICES ASSUME lost # "since"
               PROVE  Backed'
    BY <1>1 DEF EnsureView, Backed
  <2>1. /\ Flush /\ MapPages(p, Unmap(Flushed))
        /\ UNCHANGED <<import, packet, lost>> /\ released' = {} /\ retired_views' = {}
        /\ held' = [held EXCEPT ![h] = made + 1]
    BY <1>1 DEF EnsureView, Flush
  <2>2. made + 1 \in View /\ ptr'[made + 1] = p /\ (p \in Addr => page_views'[p] = made + 1)
    BY <2>1, MapTypes, UnmapTypes DEF MapPages, TypeOK
  <2>3. ASSUME NEW v \in View, v # made + 1, Imported(v)' \/ InUse(v)'
        PROVE  Mapped(v)'
    <3>1. v \in live' \/ parent_wait'[v] # {} \/ InUse(v)
      <4>1. InUse(v)' => InUse(v)
        BY <2>1, <2>3 DEF InUse, TypeOK
      <4>2. QED
        BY <2>3, <4>1 DEF Imported
    <3>2. ptr'[v] = ptr[v]
      BY <2>1, <2>3 DEF MapPages, TypeOK
    <3>3. ptr[v] \in Addr => Unmap(Flushed)[ptr[v]] = v
      BY <2>1, <3>1, FlushBacks
    <3>4. ptr[v] \in Addr => ptr[v] # p
      BY <1>0, <2>1, <3>3 DEF MapPages
    <3>5. QED
      BY <2>1, <3>2, <3>3, <3>4 DEF MapPages, Mapped
  <2>4. \A v \in View : Imported(v)' \/ InUse(v)' => Mapped(v)'
    BY <2>2, <2>3 DEF Mapped
  <2>5. QED
    BY <2>1, <2>4 DEF Backed
<1>2. ASSUME NEW h \in Holder, NEW p \in Ptr, EnsurePacked(h, p)
      PROVE  Backed'
  <2> SUFFICES ASSUME lost # "since"
               PROVE  Backed'
    BY <1>2 DEF EnsurePacked, Backed
  <2>1. /\ MapPages(p, page_views)
        /\ UNCHANGED <<packet, poolVars, lost, released, retired_views, retired_guest_imports>>
        /\ held' = [held EXCEPT ![h] = made + 1]
    BY <1>2 DEF EnsurePacked
  <2>2. made + 1 \in View /\ ptr'[made + 1] = p /\ (p \in Addr => page_views'[p] = made + 1)
    BY <2>1, MapTypes DEF MapPages, TypeOK
  <2>3. p \in Addr => page_views[p] = 0
    BY <2>1 DEF MapPages
  <2>4. p \notin Addr \cap (released \cup retired_views)
    BY <2>3 DEF Backed
  <2>5. \A v \in View : v # made + 1 => ptr'[v] = ptr[v] /\ (InUse(v)' => InUse(v))
    <3>1. \A v \in View : v # made + 1 => ptr'[v] = ptr[v]
      BY <2>1 DEF MapPages, TypeOK
    <3>2. \A v \in View : v # made + 1 => import'[v] = import[v]
      BY <1>2 DEF EnsurePacked, TypeOK
    <3>3. \A v \in View : v # made + 1 => (InUse(v)' => InUse(v))
      BY <2>1, <3>2 DEF InUse, TypeOK
    <3>4. QED
      BY <3>1, <3>3
  <2>6. \A v \in View : Imported(v)' <=> Imported(v)
    BY <2>1 DEF Imported
  <2>7. \A v \in View : Imported(v)' \/ InUse(v)' => Mapped(v)'
    <3> SUFFICES ASSUME NEW v \in View, Imported(v)' \/ InUse(v)', ptr'[v] \in Addr
                 PROVE  page_views'[ptr'[v]] = v
      BY DEF Mapped
    <3>1. CASE v = made + 1
      BY <2>2, <3>1
    <3>2. CASE v # made + 1
      <4>1. ptr'[v] = ptr[v] /\ page_views[ptr[v]] = v
        BY <2>5, <2>6, <3>2 DEF Backed, Mapped
      <4>2. ptr[v] # p
        BY <1>0, <2>3, <4>1
      <4>3. QED
        BY <2>1, <4>1, <4>2 DEF MapPages
    <3>3. QED
      BY <3>1, <3>2
  <2>8. \A v \in View : Imported(v)' \/ InUse(v)' => ptr'[v] \notin Addr \cap released'
    BY <2>1, <2>2, <2>4, <2>5, <2>6 DEF Backed
  <2>9. \A v \in View : (Imported(v)' /\ v \notin retired_guest_imports') \/ InUse(v)'
                          => ptr'[v] \notin Addr \cap retired_views'
    BY <2>1, <2>2, <2>4, <2>5, <2>6 DEF Backed
  <2>10. \A a \in Addr \cap (released' \cup retired_views') : page_views'[a] # 0
    <3>1. \A a \in Addr : a # p => page_views'[a] = page_views[a]
      BY <2>1 DEF MapPages
    <3>2. QED
      BY <2>1, <2>4, <3>1 DEF Backed
  <2>11. QED
    BY <2>1, <2>7, <2>8, <2>9, <2>10 DEF Backed
<1>3. CASE FlushOnly \/ \E h \in Holder : ResolveMapping(h)
  <2> SUFFICES ASSUME lost # "since"
               PROVE  Backed'
    BY <1>3 DEF FlushOnly, ResolveMapping, Backed
  <2>1. /\ Flush /\ page_views' = Unmap(Flushed) /\ UNCHANGED <<ptr, held, lost>>
        /\ released' = {} /\ retired_views' = {}
    BY <1>3 DEF FlushOnly, ResolveMapping, Flush
  <2>2. \A v \in View : InUse(v)' => InUse(v)
    BY <1>3 DEF FlushOnly, ResolveMapping, InUse
  <2>3. \A v \in View : Imported(v)' \/ InUse(v)' => v \in live' \/ parent_wait'[v] # {} \/ InUse(v)
    BY <2>2 DEF Imported
  <2>4. \A v \in View : Imported(v)' \/ InUse(v)' => Mapped(v)'
    BY <2>1, <2>3, FlushBacks DEF Mapped
  <2>5. QED
    BY <2>1, <2>4 DEF Backed
<1>4. CASE \/ \E h \in Holder : ResolvePacked(h)
           \/ EndPacket \/ Seal \/ PresentDone
           \/ \E g \in Image : DrawImage(g) \/ Present(g)
  <2>1. UNCHANGED <<page_views, ptr, lost, retired_views, retired_guest_imports, released>>
    BY <1>4 DEF ResolvePacked, EndPacket, Seal, PresentDone, DrawImage, Present
  <2>2. \A v \in View : Imported(v)' => Imported(v)
    BY <1>4 DEF Imported, ResolvePacked, EndPacket, Seal, PresentDone, DrawImage, Present
  <2>3. \A v \in View : InUse(v)' => InUse(v)
    BY <1>0, <1>4 DEF InUse, ResolvePacked, EndPacket, Seal, PresentDone, DrawImage, Present
  <2>4. QED
    BY <1>a, <2>1, <2>2, <2>3
<1>5. CASE Bind \/ \E g \in Image : BindImage(g)
  <2>1. UNCHANGED <<page_views, ptr, lost, retired_views, retired_guest_imports, released>>
    BY <1>5 DEF Bind, BindImage
  <2>2. \A v \in View : Imported(v)' => Imported(v) \/ InUse(v)
    BY <1>5 DEF Imported, InUse, Bind, BindImage
  <2>3. \A v \in View : InUse(v)' => InUse(v)
    BY <1>0, <1>5 DEF InUse, Bind, BindImage
  <2>4. QED
    BY <1>a, <2>1, <2>2, <2>3
<1>6. ASSUME NEW h \in Holder, DropPacked(h)
      PROVE  Backed'
  <2>1. UNCHANGED <<page_views, ptr, lost, retired_views, retired_guest_imports, released>>
    BY <1>6 DEF DropPacked
  <2>2. \A v \in View : Imported(v)' => Imported(v)
    BY <1>6 DEF Imported, DropPacked
  <2>3. \A v \in View : InUse(v)' => InUse(v)
    BY <1>0, <1>6 DEF InUse, DropPacked, TypeOK
  <2>4. QED
    BY <1>a, <2>1, <2>2, <2>3
<1>7. ASSUME NEW h \in Holder, RetireMapping(h) \/ RetireSpan(h)
      PROVE  Backed'
  <2> SUFFICES ASSUME lost # "since"
               PROVE  Backed'
    BY <1>7 DEF RetireMapping, RetireSpan, Backed
  <2>0. PICK x \in View : x = held[h]
    BY <1>7, ViewNumbers DEF RetireMapping, RetireSpan, TypeOK
  <2>1. /\ held' = [held EXCEPT ![h] = 0]
        /\ retired_views' = retired_views \cup {ptr[x]}
        /\ UNCHANGED <<shimVars, packet, poolVars, released, lost>>
    BY <1>7, <2>0 DEF RetireMapping, RetireSpan
  <2>2. InUse(x) /\ Mapped(x) /\ ptr[x] \notin Addr \cap released
    BY <2>0 DEF InUse, Backed
  <2>3. /\ \A v \in View : v # x => import'[v] = import[v]
        /\ retired_guest_imports \subseteq retired_guest_imports'
        /\ import'[x] # "live"
        /\ x \in retired_guest_imports' \/ import[x] = "none"
    <3>1. CASE RetireMapping(h)
      BY <2>0, <3>1 DEF RetireMapping, TypeOK
    <3>2. CASE RetireSpan(h)
      <4>1. import[x] = "none"
        BY <1>0, <2>0, <3>2 DEF RetireSpan, Numbering
      <4>2. QED
        BY <3>2, <4>1 DEF RetireSpan
    <3>3. QED
      BY <1>7, <3>1, <3>2
  <2>4. ~ InUse(x)'
    <3>1. \A k \in Holder : held'[k] # x
      BY <1>0, <2>0, <2>1 DEF Numbering, TypeOK
    <3>2. QED
      BY <2>3, <3>1 DEF InUse
  <2>5. ~ Imported(x) \/ x \in retired_guest_imports'
    BY <2>3 DEF Imported, Retirement
  <2>6. \A v \in View : InUse(v)' => InUse(v)
    <3>1. \A k \in Holder : held'[k] = held[k] \/ held'[k] = 0
      BY <2>1 DEF TypeOK
    <3>2. QED
      BY <1>0, <2>1, <2>3, <2>4, <3>1 DEF InUse
  <2>7. \A v \in View : Imported(v)' <=> Imported(v)
    BY <2>1 DEF Imported
  <2>8. \A v \in View : Imported(v)' \/ InUse(v)' => Mapped(v) /\ Mapped(v)'
    BY <2>1, <2>6, <2>7 DEF Backed, Mapped
  <2>9. \A v \in View : v # x /\ (Imported(v)' \/ InUse(v)') => ptr[v] \notin Addr \/ ptr[v] # ptr[x]
    BY <2>2, <2>8 DEF Mapped
  <2>10. \A v \in View : (Imported(v)' /\ v \notin retired_guest_imports') \/ InUse(v)'
                           => ptr'[v] \notin Addr \cap retired_views'
    BY <2>1, <2>3, <2>4, <2>5, <2>6, <2>7, <2>9 DEF Backed
  <2>11. \A v \in View : Imported(v)' \/ InUse(v)' => ptr'[v] \notin Addr \cap released'
    BY <2>1, <2>6, <2>7 DEF Backed
  <2>12. \A a \in Addr \cap (released' \cup retired_views') : page_views'[a] # 0
    BY <1>0, <2>1, <2>2 DEF Backed, Mapped
  <2>13. released' \cap retired_views' \cap Addr = {}
    BY <2>1, <2>2 DEF Backed
  <2>14. QED
    BY <2>8, <2>10, <2>11, <2>12, <2>13 DEF Backed
<1>8. CASE RetireAll \/ \E r \in Slot : RetireSlot(r)
  <2>1. PICK S : /\ GiveBack(S)
                 /\ released' = released \cup {ptr[v] : v \in Freed(S)}
                 /\ UNCHANGED <<shimVars, stateVars, lost>>
    BY <1>8 DEF RetireAll, RetireSlot
  <2>2. QED
    BY <2>1, FreedIsDone, BackedRelease
<1>9. ASSUME NEW g \in Image, Evict(g)
      PROVE  Backed'
  <2>1. CASE open # {}
    <3>1. UNCHANGED <<shimVars, stateVars, live, parent_wait, released, lost>>
      BY <1>9, <2>1 DEF Evict
    <3>2. QED
      BY <3>1, <1>a DEF Imported, InUse
  <2>2. CASE open = {}
    <3> DEFINE done == {v \in ended : barrier_wait[v] = {} /\ Children(v) = {g}}
    <3>1. /\ UNCHANGED <<shimVars, stateVars, parent_wait, lost>>
          /\ live' = live \ done
          /\ released' = released \cup {ptr[v] : v \in done}
      BY <1>9, <2>2 DEF Evict
    <3>2. done \in SUBSET View
      BY DEF TypeOK
    <3>3. \A v \in done : /\ v \in live /\ v \notin retired_guest_imports
                          /\ import[v] = "retired" /\ parent_wait[v] = {}
      BY <3>2 DEF Retirement, TypeOK
    <3>4. \A v \in done : ~ InUse(v)
      BY <1>0, <3>2, <3>3 DEF InUse, Retirement
    <3>5. \A v \in View : (Imported(v)' => Imported(v)) /\ (InUse(v)' <=> InUse(v))
      BY <3>1 DEF Imported, InUse
    <3>6. \A v \in done : Imported(v) /\ ~ Imported(v)'
      BY <3>1, <3>2, <3>3 DEF Imported
    <3>7. QED
      BY <3>1, <3>2, <3>3, <3>4, <3>5, <3>6, BackedRelease
  <2>3. QED
    BY <2>1, <2>2
<1>10. ASSUME NEW S \in SUBSET Ring, Heartbeat(S)
       PROVE  Backed'
  <2> DEFINE bits == S \cup ({Window} \ open)
  <2>1. /\ GiveBack(bits)
        /\ page_views' = Unmap(released \cup {ptr[v] : v \in Freed(bits)})
        /\ released' = {}
        /\ UNCHANGED <<ptr, stateVars, lost>>
    BY <1>10 DEF Heartbeat
  <2> HIDE DEF bits
  <2>2. QED
    BY <2>1, FreedIsDone, BackedUnmap
<1>11. CASE DeviceLost
  BY <1>11 DEF DeviceLost, Backed
<1>12. CASE Reset
  <2>1. /\ \A v \in View : v \notin live' /\ parent_wait'[v] = {}
        /\ \A h \in Holder : held'[h] = 0
        /\ packet' = 0 /\ released' = {} /\ retired_views' = {}
    BY <1>12 DEF Reset, DestroyAll
  <2>2. \A v \in View : ~ Imported(v)' /\ ~ InUse(v)'
    BY <1>0, <2>1 DEF Imported, InUse
  <2>3. QED
    BY <2>1, <2>2 DEF Backed
<1>13. QED
  BY <1>1, <1>2, <1>3, <1>4, <1>5, <1>6, <1>7, <1>8, <1>9, <1>10, <1>11, <1>12
     DEF Next, Drain, Engine

----------------------------------------------------------------------------
(***************************************************************************)
(* The theorems.                                                           *)
(***************************************************************************)

\* Before the first view there is nothing to keep.
LEMMA ViewsInit == Init => IndInv /\ NoViewForgotten
<1> SUFFICES ASSUME Init
             PROVE  IndInv /\ NoViewForgotten
  OBVIOUS
<1>1. TypeOK
  BY ViewsAssumption DEF Init, TypeOK, View, Ptr, Ring
<1>2. Numbering
  <2>1. Packed \subseteq Holder /\ Span \subseteq Holder
    BY DEF Holder
  <2>2. QED
    BY <2>1 DEF Init, Numbering
<1>3. Retirement /\ Fencing
  BY DEF Init, Retirement, Fencing
<1>4. Backed
  BY ViewNumbers DEF Init, Backed, Imported, InUse
<1>5. NoViewForgotten
  BY DEF Init, NoViewForgotten
<1>6. QED
  BY <1>1, <1>2, <1>3, <1>4, <1>5 DEF IndInv

\* The five parts together are inductive.
LEMMA IndStep == IndInv /\ [Next]_vars => IndInv'
<1> SUFFICES ASSUME IndInv, [Next]_vars
             PROVE  IndInv'
  OBVIOUS
<1>0. TypeOK /\ Numbering /\ Retirement /\ Fencing /\ Backed
  BY DEF IndInv
<1>1. CASE Next
  <2>1. TypeOK'
    BY <1>0, <1>1, TypeStep
  <2>2. Numbering' /\ Retirement' /\ Fencing' /\ Backed'
    BY <1>0, <1>1, <2>1, NumberingStep, RetirementStep, FencingStep, BackedStep
  <2>3. QED
    BY <2>1, <2>2 DEF IndInv
<1>2. CASE UNCHANGED vars
  <2> USE DEF vars, shimVars, stateVars, waitVars, slotVars, poolVars
  <2>1. TypeOK'
    BY <1>0, <1>2 DEF TypeOK
  <2>2. Numbering' /\ Retirement'
    BY <1>0, <1>2 DEF Numbering, Retirement
  <2>3. Fencing'
    BY <1>0, <1>2 DEF Fencing, KeptFor
  <2>4. Backed'
    BY <1>0, <1>2 DEF Backed, Imported, InUse, Mapped
  <2>5. QED
    BY <2>1, <2>2, <2>3, <2>4 DEF IndInv
<1>3. QED
  BY <1>1, <1>2

\* The inductive invariant holds in every reachable state.
THEOREM ViewsInvariance == Spec => []IndInv
<1>1. Init => IndInv
  BY ViewsInit
<1>2. QED
  BY <1>1, IndStep, PTL DEF Spec

\* Type correctness: among the rest, an import that ended is still one of the
\* engine's, and a read is of a view that was handed out.
THEOREM ViewsTypeCorrect == Spec => []TypeOK
<1>1. IndInv => TypeOK
  BY DEF IndInv
<1>2. QED
  BY <1>1, ViewsInvariance, PTL

\* No submission reads a view that is gone, however many views, images and slots
\* there are: retiring a view leaves its pages to the engine, whose barriers wait
\* for every slot that may read them.
THEOREM ReadsAreBacked == Spec => []NoReadAfterUnmap
<1>1. IndInv => NoReadAfterUnmap
  <2> SUFFICES ASSUME IndInv, lost # "since", NEW r \in open, NEW v \in reads[r]
               PROVE  Mapped(v)
    BY DEF NoReadAfterUnmap
  <2>1. r \in Slot /\ v \in View /\ KeptFor(v, r)
    BY DEF IndInv, TypeOK, Fencing
  <2>2. Imported(v)
    BY <2>1 DEF IndInv, TypeOK, KeptFor, Imported
  <2>3. QED
    BY <2>1, <2>2 DEF IndInv, Backed
<1>2. QED
  BY <1>1, ViewsInvariance, PTL

\* A pointer a mapping, a span or a packed resource has cached is good: an alias on
\* its way back to the shim is never that of a view in use, although addresses are
\* reused and the list of released aliases names them by address only.
THEOREM CachedViewsAreMapped == Spec => []CachedViewIsMapped
<1>1. IndInv => CachedViewIsMapped
  <2> SUFFICES ASSUME IndInv, lost # "since", NEW h \in Holder, held[h] # 0
               PROVE  Mapped(held[h])
    BY DEF CachedViewIsMapped
  <2>1. held[h] \in View
    BY ViewNumbers DEF IndInv, TypeOK
  <2>2. InUse(held[h])
    BY DEF InUse
  <2>3. QED
    BY <2>1, <2>2 DEF IndInv, Backed
<1>2. QED
  BY <1>1, ViewsInvariance, PTL

\* An alias on its way back to the shim is the alias of one view, on one list, which
\* nobody uses any more: unmap_pages takes away what it was asked to and no view that
\* came after it.
THEOREM AliasesAreReturnedOnce == Spec => []AliasNamesItsView
<1>1. IndInv => AliasNamesItsView
  <2> SUFFICES ASSUME IndInv, lost # "since",
                      NEW a \in Addr \cap (released \cup retired_views)
               PROVE  /\ page_views[a] # 0
                      /\ a \notin released \/ a \notin retired_views
                      /\ \A h \in Holder : held[h] # page_views[a]
                      /\ a \in released => /\ page_views[a] \notin live
                                           /\ parent_wait[page_views[a]] = {}
    BY DEF AliasNamesItsView
  <2> DEFINE v == page_views[a]
  <2>1. v # 0 /\ (a \notin released \/ a \notin retired_views)
    BY DEF IndInv, Backed
  <2>2. v \in View /\ ptr[v] = a
    BY <2>1, ViewNumbers DEF IndInv, TypeOK, Numbering
  <2> HIDE DEF v
  <2>3. ~InUse(v)
    BY <2>2 DEF IndInv, Backed
  <2>4. a \in released => ~Imported(v)
    BY <2>2 DEF IndInv, Backed
  <2>5. QED
    BY <2>1, <2>3, <2>4 DEF InUse, Imported, v
<1>2. QED
  BY <1>1, ViewsInvariance, PTL

----------------------------------------------------------------------------
(***************************************************************************)
(* No view is forgotten.                                                   *)
(***************************************************************************)

\* What a flush leaves mapped is still somebody's.
LEMMA FlushForgetsNothing ==
    ASSUME IndInv, NoViewForgotten, lost = "never", Flush,
           NEW a \in Addr, Unmap(Flushed)[a] # 0
    PROVE  LET v == page_views[a]
           IN  /\ v \in View /\ ptr[v] = a /\ Unmap(Flushed)[a] = v
               /\ \/ \E h \in Holder : held[h] = v
                  \/ v \in live' \/ parent_wait'[v] # {}
                  \/ import[v] = "live"
<1> DEFINE v == page_views[a]
<1>1. a \notin Flushed /\ Unmap(Flushed)[a] = v /\ v # 0
  BY DEF Unmap
<1>2. v \in View /\ ptr[v] = a
  BY <1>1, ViewNumbers DEF IndInv, TypeOK, Numbering
<1>3. Owned(a) \/ import[v] = "live"
  BY <1>1 DEF NoViewForgotten
<1>4. ASSUME v \in live
      PROVE  v \in live' \/ parent_wait'[v] # {}
  <2>1. CASE v \notin Ready
    BY <1>4, <2>1 DEF Flush
  <2>2. CASE v \in Ready
    <3>1. open # {}
      BY <1>1, <1>2, <2>2 DEF Flushed, Disposed
    <3>2. QED
      BY <1>2, <2>2, <3>1 DEF Flush
  <2>3. QED
    BY <2>1, <2>2
<1>5. ASSUME parent_wait[v] # {}
      PROVE  parent_wait'[v] # {}
  <2>1. v \notin Ready
    BY <1>2, <1>5 DEF IndInv, Retirement, Ready
  <2>2. QED
    BY <1>2, <1>5, <2>1 DEF Flush
<1>6. a \notin released
  BY <1>1 DEF Flushed
<1>7. ASSUME a \in retired_views
      PROVE  v \in live
  <2>1. PICK u \in retired_guest_imports \cap live : ptr[u] = a
    BY <1>1, <1>7 DEF Flushed
  <2>2. u \in View /\ Mapped(u)
    BY <2>1 DEF IndInv, TypeOK, Backed, Imported
  <2>3. QED
    BY <2>1, <2>2 DEF Mapped
<1>8. QED
  BY <1>1, <1>2, <1>3, <1>4, <1>5, <1>6, <1>7 DEF Owned

\* Every step keeps track of every view.
LEMMA ForgottenStep ==
    ASSUME IndInv, NoViewForgotten, Next
    PROVE  NoViewForgotten'
<1> SUFFICES ASSUME lost' = "never", NEW a \in Addr, page_views'[a] # 0
             PROVE  Owned(a)' \/ import'[page_views'[a]] = "live"
  BY DEF NoViewForgotten
<1> USE DEF shimVars, stateVars, waitVars, slotVars, poolVars
<1> DEFINE v == page_views[a]
<1>a. v # 0 => v \in View /\ ptr[v] = a
  BY ViewNumbers DEF IndInv, TypeOK, Numbering
<1>b. TypeOK
  BY DEF IndInv
<1>1. ASSUME NEW h \in Holder, NEW p \in Ptr, EnsureView(h, p)
      PROVE  Owned(a)' \/ import'[page_views'[a]] = "live"
  <2>1. /\ Flush /\ lost = "never" /\ held[h] = 0 /\ import' = import
        /\ held' = [held EXCEPT ![h] = made + 1]
        /\ page_views'[a] = IF a = p THEN made + 1 ELSE Unmap(Flushed)[a]
    BY <1>1 DEF EnsureView, MapPages
  <2>2. CASE a = p
    <3>1. held'[h] = page_views'[a]
      BY <1>b, <2>1, <2>2 DEF TypeOK
    <3>2. QED
      BY <3>1 DEF Owned
  <2>3. CASE a # p
    <3>1. page_views'[a] = v /\ v \in View
      BY <2>1, <2>3, FlushForgetsNothing
    <3>2. \/ \E k \in Holder : held[k] = v
          \/ v \in live' \/ parent_wait'[v] # {}
          \/ import[v] = "live"
      BY <2>1, <2>3, FlushForgetsNothing
    <3>3. \A k \in Holder : held[k] = v => held'[k] = v
      BY <1>b, <2>1, <3>1, ViewNumbers DEF TypeOK
    <3>4. QED
      BY <2>1, <3>1, <3>2, <3>3 DEF Owned
  <2>4. QED
    BY <2>2, <2>3
<1>2. ASSUME NEW h \in Holder, NEW p \in Ptr, EnsurePacked(h, p)
      PROVE  Owned(a)' \/ import'[page_views'[a]] = "live"
  <2>1. /\ lost = "never" /\ held[h] = 0 /\ MapPages(p, page_views)
        /\ held' = [held EXCEPT ![h] = made + 1]
        /\ page_views'[a] = IF a = p THEN made + 1 ELSE v
        /\ UNCHANGED <<retired_views, released, live, parent_wait>>
    BY <1>2 DEF EnsurePacked, MapPages
  <2>2. CASE a = p
    <3>1. held'[h] = page_views'[a]
      BY <1>b, <2>1, <2>2 DEF TypeOK
    <3>2. QED
      BY <3>1 DEF Owned
  <2>3. CASE a # p
    <3>1. v # 0 /\ v \in View /\ page_views'[a] = v
      BY <1>a, <2>1, <2>3
    <3>2. \A k \in Holder : held[k] = v => held'[k] = v
      BY <1>b, <2>1, <3>1 DEF TypeOK
    <3>3. import[v] = "live" => import'[v] = "live"
      BY <1>2, <1>b, <3>1 DEF EnsurePacked, TypeOK
    <3>4. QED
      BY <2>1, <3>1, <3>2, <3>3 DEF Owned, NoViewForgotten
  <2>4. QED
    BY <2>2, <2>3
<1>3. CASE FlushOnly \/ \E h \in Holder : ResolveMapping(h)
  <2>1. Flush /\ lost = "never" /\ page_views' = Unmap(Flushed) /\ held' = held
    BY <1>3 DEF FlushOnly, ResolveMapping
  <2>2. /\ page_views'[a] = v /\ v \in View
        /\ \/ \E k \in Holder : held[k] = v
           \/ v \in live' \/ parent_wait'[v] # {}
           \/ import[v] = "live"
    BY <2>1, FlushForgetsNothing
  <2>3. import[v] = "live" => import'[v] = "live"
    BY <1>3, <1>b, <2>2 DEF FlushOnly, ResolveMapping, TypeOK
  <2>4. QED
    BY <2>1, <2>2, <2>3 DEF Owned
<1>4. CASE \/ \E h \in Holder : ResolvePacked(h)
           \/ EndPacket \/ Seal \/ PresentDone \/ Bind
           \/ \E g \in Image : DrawImage(g) \/ Present(g) \/ BindImage(g)
  <2>1. /\ UNCHANGED <<page_views, held, retired_views, released, parent_wait, import, lost>>
        /\ live \subseteq live'
    BY <1>4 DEF ResolvePacked, EndPacket, Seal, PresentDone, Bind, DrawImage, Present,
       BindImage
  <2>2. QED
    BY <2>1 DEF Owned, NoViewForgotten
<1>5. ASSUME NEW h \in Holder, RetireMapping(h) \/ RetireSpan(h) \/ DropPacked(h)
      PROVE  Owned(a)' \/ import'[page_views'[a]] = "live"
  <2>1. /\ held[h] # 0 /\ held' = [held EXCEPT ![h] = 0]
        /\ retired_views \subseteq retired_views'
        /\ UNCHANGED <<page_views, ptr, released, live, parent_wait, lost>>
    BY <1>5 DEF RetireMapping, RetireSpan, DropPacked
  <2>2. v # 0 /\ v \in View /\ ptr[v] = a /\ page_views'[a] = v
    BY <1>a, <2>1
  <2>3. CASE v = held[h]
    <3>1. CASE RetireMapping(h) \/ RetireSpan(h)
      <4>1. a \in retired_views'
        BY <2>2, <2>3, <3>1 DEF RetireMapping, RetireSpan
      <4>2. QED
        BY <4>1 DEF Owned
    <3>2. CASE DropPacked(h)
      <4>1. import[v] = "live" /\ import' = import
        BY <2>1, <2>2, <2>3, <3>2 DEF DropPacked, IndInv, Numbering
      <4>2. QED
        BY <2>2, <4>1
    <3>3. QED
      BY <1>5, <3>1, <3>2
  <2>4. CASE v # held[h]
    <3>1. import'[v] = import[v]
      BY <1>5, <1>b, <2>2, <2>4 DEF RetireMapping, RetireSpan, DropPacked, TypeOK
    <3>2. \A k \in Holder : held[k] = v => held'[k] = v
      BY <1>b, <2>1, <2>4 DEF TypeOK
    <3>3. QED
      BY <2>1, <2>2, <3>1, <3>2 DEF Owned, NoViewForgotten
  <2>5. QED
    BY <2>3, <2>4
<1>6. ASSUME NEW S, GiveBack(S), UNCHANGED <<ptr, stateVars, lost>>,
             \/ /\ page_views' = page_views
                /\ released' = released \cup {ptr[u] : u \in Freed(S)}
             \/ page_views' = Unmap(released \cup {ptr[u] : u \in Freed(S)})
      PROVE  Owned(a)' \/ import'[page_views'[a]] = "live"
  <2>1. page_views'[a] = v /\ v # 0 /\ v \in View /\ ptr[v] = a
    BY <1>6, <1>a DEF Unmap
  <2>2. CASE v \in Freed(S) \/ a \in released
    <3>1. a \in released'
      BY <1>6, <2>1, <2>2 DEF Unmap
    <3>2. QED
      BY <3>1 DEF Owned
  <2>3. CASE v \notin Freed(S) /\ a \notin released
    <3>1. v \in live => v \in live'
      BY <1>6, <2>3 DEF GiveBack
    <3>2. parent_wait[v] # {} => parent_wait'[v] # {}
      BY <1>6, <2>1, <2>3 DEF GiveBack, Freed
    <3>3. Owned(a) \/ import[v] = "live"
      BY <1>6, <2>1 DEF NoViewForgotten
    <3>4. QED
      BY <1>6, <2>1, <2>3, <3>1, <3>2, <3>3 DEF Owned
  <2>4. QED
    BY <2>2, <2>3
<1>7. CASE RetireAll \/ \E r \in Slot : RetireSlot(r)
  <2>1. PICK S : /\ GiveBack(S)
                 /\ released' = released \cup {ptr[u] : u \in Freed(S)}
                 /\ UNCHANGED <<shimVars, stateVars, lost>>
    BY <1>7 DEF RetireAll, RetireSlot
  <2>2. QED
    BY <1>6, <2>1
<1>8. ASSUME NEW S \in SUBSET Ring, Heartbeat(S)
      PROVE  Owned(a)' \/ import'[page_views'[a]] = "live"
  <2> DEFINE bits == S \cup ({Window} \ open)
  <2>1. /\ GiveBack(bits)
        /\ page_views' = Unmap(released \cup {ptr[u] : u \in Freed(bits)})
        /\ UNCHANGED <<ptr, stateVars, lost>>
    BY <1>8 DEF Heartbeat
  <2> HIDE DEF bits
  <2>2. QED
    BY <1>6, <2>1
<1>9. ASSUME NEW g \in Image, Evict(g)
      PROVE  Owned(a)' \/ import'[page_views'[a]] = "live"
  <2>1. /\ UNCHANGED <<shimVars, stateVars, parent_wait, lost>>
        /\ released \subseteq released'
        /\ \A u \in live : u \in live' \/ ptr[u] \in released'
    BY <1>9 DEF Evict
  <2>2. v # 0 /\ v \in View /\ ptr[v] = a /\ page_views'[a] = v
    BY <1>a, <2>1
  <2>3. QED
    BY <2>1, <2>2 DEF Owned, NoViewForgotten
<1>10. CASE DeviceLost
  BY <1>10 DEF DeviceLost
<1>11. CASE Reset
  <2>1. lost = "never"
    BY <1>11, <1>b DEF Reset, TypeOK
  <2>2. /\ a \notin retired_views \cup released \cup Destroyed \cup {ptr[u] : u \in Taken}
        /\ page_views'[a] = v
    BY <1>11 DEF Reset, Unmap
  <2>3. v # 0 /\ v \in View /\ ptr[v] = a
    BY <1>a, <2>2
  <2>4. v \notin Taken /\ v \notin live /\ parent_wait[v] = {}
    BY <2>2, <2>3 DEF Destroyed
  <2>5. import'[v] = import[v]
    BY <1>11, <2>3, <2>4 DEF Reset
  <2>6. import[v] = "live"
    <3>1. CASE \E h \in Holder : held[h] = v
      <4>1. PICK h \in Holder : held[h] = v
        BY <3>1
      <4>2. h \in Packed
        BY <2>3, <2>4, <4>1 DEF Taken, Holder
      <4>3. QED
        BY <2>3, <4>1, <4>2 DEF IndInv, Numbering
    <3>2. CASE ~ \E h \in Holder : held[h] = v
      BY <2>1, <2>2, <2>3, <2>4, <3>2 DEF Owned, NoViewForgotten
    <3>3. QED
      BY <3>1, <3>2
  <2>7. QED
    BY <2>2, <2>5, <2>6
<1>12. QED
  BY <1>1, <1>2, <1>3, <1>4, <1>5, <1>7, <1>8, <1>9, <1>10, <1>11
     DEF Next, Drain, Engine

\* While the device is not lost, every view that is mapped is returned to the shim
\* by its holder, by a list or by the engine; only a packed resource's view is left
\* to its import.
THEOREM NoViewIsForgotten == Spec => []NoViewForgotten
<1>1. Init => NoViewForgotten
  BY ViewsInit
<1>2. IndInv /\ NoViewForgotten /\ [Next]_vars => NoViewForgotten'
  <2> SUFFICES ASSUME IndInv, NoViewForgotten, UNCHANGED vars
               PROVE  NoViewForgotten'
    BY ForgottenStep
  <2> QED
    BY DEF NoViewForgotten, Owned, vars, shimVars, stateVars, waitVars, slotVars, poolVars
<1>3. QED
  BY <1>1, <1>2, ViewsInvariance, PTL DEF Spec
=============================================================================
