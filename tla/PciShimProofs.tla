--------------------------- MODULE PciShimProofs ---------------------------
(***************************************************************************)
(* Proofs about PciShim, for any backend threads, with or without a host   *)
(* window or a display client, and for any number of doorbells.            *)
(***************************************************************************)
EXTENDS PciShim, TLAPS

\* Every step leaves the program counters and the lock in range.
LEMMA PlacesStep == Places /\ [Next]_vars => Places'
<1> SUFFICES ASSUME Places, [Next]_vars
             PROVE  Places'
  OBVIOUS
<1> USE DEF Places, pcVars, schedule_bh
<1>1. CASE DrainThread
  BY <1>1 DEF DrainThread, DrainCheck, DrainEnter, DrainLock, DrainMain,
     DrainNothing, DrainRun,
     DrainRefill, DrainEnd, DrainSchedule
<1>2. CASE HeartbeatThread
  BY <1>2 DEF HeartbeatThread, HeartbeatCheck, HeartbeatWake, HeartbeatPoll,
     HeartbeatPolled, HeartbeatContended, HeartbeatSchedule, Poll
<1>3. CASE Notify
  BY <1>3 DEF Notify, NotifierQueue, NotifierTest, NotifierCall
<1>4. CASE Continue
  BY <1>4 DEF Continue, GfxWake, DeliverPrompt, DeliverScanout, DeliverEnd, Paint,
     PaintContended, Painted, PaintReturns, ResetFlag, StopDrain, DeleteBH, Destroy
<1>5. CASE Begin
  BY <1>5 DEF Begin, GfxRing, GfxWriteDirect, GfxWriteQueued, BottomHalf, FbUpdate,
     ResetBackend, ResetFlag, StopHeartbeat, Exit, Poll
<1>6. CASE UNCHANGED vars
  BY <1>6 DEF vars
<1>7. QED
  BY <1>1, <1>2, <1>3, <1>4, <1>5, <1>6 DEF Next

\* Every step leaves the counters natural numbers: the drain takes no more work
\* than there is.
LEMMA CountersStep == Counters /\ [Next]_vars => Counters'
<1> SUFFICES ASSUME Counters, [Next]_vars
             PROVE  Counters'
  OBVIOUS
<1> USE DEF Counters, doorVars, rootVars
<1>1. CASE DrainThread
  BY <1>1 DEF DrainThread, DrainCheck, DrainEnter, DrainLock, DrainMain,
     DrainNothing, DrainRun,
     DrainRefill, DrainEnd, DrainSchedule
<1>2. CASE HeartbeatThread
  BY <1>2 DEF HeartbeatThread, HeartbeatCheck, HeartbeatWake, HeartbeatPoll,
     HeartbeatPolled, HeartbeatContended, HeartbeatSchedule
<1>3. CASE Notify
  BY <1>3 DEF Notify, NotifierQueue, NotifierTest, NotifierCall
<1>4. CASE Continue
  BY <1>4 DEF Continue, GfxWake, DeliverPrompt, DeliverScanout, DeliverEnd, Paint,
     PaintContended, Painted, ResetFlag, StopDrain, DeleteBH, Destroy
<1>5. CASE Begin
  <2>1. CASE GfxRing
    BY <2>1 DEF GfxRing
  <2>2. CASE GfxWriteDirect
    BY <2>2 DEF GfxWriteDirect
  <2>3. CASE GfxWriteQueued
    BY <2>3 DEF GfxWriteQueued
  <2>4. CASE BottomHalf \/ FbUpdate \/ ResetBackend
    BY <2>4 DEF BottomHalf, FbUpdate, ResetBackend
  <2>5. CASE ResetFlag \/ StopHeartbeat \/ Exit
    BY <2>5 DEF ResetFlag, StopHeartbeat, Exit
  <2>6. QED
    BY <1>5, <2>1, <2>2, <2>3, <2>4, <2>5 DEF Begin
<1>6. CASE UNCHANGED vars
  BY <1>6 DEF vars
<1>7. QED
  BY <1>1, <1>2, <1>3, <1>4, <1>5, <1>6 DEF Next

\* Every step leaves each switch on or off.
LEMMA FlagsStep == Flags /\ [Next]_vars => Flags'
<1> SUFFICES ASSUME Flags, [Next]_vars
             PROVE  Flags'
  OBVIOUS
<1> USE DEF Flags, shimVars, doorVars, rootVars, showVars
<1>1. CASE DrainCheck
  <2>1. drain_pending' \in BOOLEAN
    BY <1>1, Zenon DEF DrainCheck
  <2>2. QED
    BY <1>1, <2>1 DEF DrainCheck
<1>2. CASE DrainEnter
  BY <1>2 DEF DrainEnter
<1>3. CASE DrainLock
  <2>1. pending' \in BOOLEAN
    BY <1>3, Zenon DEF DrainLock
  <2>2. drain_pending' \in BOOLEAN
    BY <1>3, Zenon DEF DrainLock
  <2>3. main_drain' \in BOOLEAN
    BY <1>3, Zenon DEF DrainLock
  <2>4. rung' \in BOOLEAN
    BY <1>3, Zenon DEF DrainLock
  <2>5. QED
    BY <1>3, <2>1, <2>2, <2>3, <2>4 DEF DrainLock
<1>4. CASE DrainNothing
  BY <1>4 DEF DrainNothing
<1>5. CASE DrainRun
  <2>1. pending' \in BOOLEAN
    BY <1>5, Zenon DEF DrainRun, MayInterrupt, qemu_bh_schedule
  <2>2. scanout' \in BOOLEAN
    BY <1>5, Zenon DEF DrainRun, MayInterrupt, qemu_bh_schedule
  <2>3. yield' \in BOOLEAN
    BY <1>5, Zenon DEF DrainRun, MayInterrupt, qemu_bh_schedule
  <2>4. boundary' \in BOOLEAN
    BY <1>5, Zenon DEF DrainRun, MayInterrupt, qemu_bh_schedule
  <2>5. prompt' \in BOOLEAN
    BY <1>5, Zenon DEF DrainRun, MayInterrupt, qemu_bh_schedule
  <2>6. bh' \in BOOLEAN
    BY <1>5, Zenon DEF DrainRun, MayInterrupt, qemu_bh_schedule
  <2>7. QED
    BY <1>5, <2>1, <2>2, <2>3, <2>4, <2>5, <2>6 DEF DrainRun, MayInterrupt,
       qemu_bh_schedule
<1>6. CASE DrainRefill
  <2>1. rung' \in BOOLEAN
    BY <1>6, Zenon DEF DrainRefill
  <2>2. pending' \in BOOLEAN
    BY <1>6, Zenon DEF DrainRefill
  <2>3. QED
    BY <1>6, <2>1, <2>2 DEF DrainRefill
<1>7. CASE DrainEnd
  <2>1. rung' \in BOOLEAN
    BY <1>7, Zenon DEF DrainEnd
  <2>2. yield' \in BOOLEAN
    BY <1>7, Zenon DEF DrainEnd
  <2>3. present_action_pending' \in BOOLEAN
    BY <1>7, Zenon DEF DrainEnd
  <2>4. QED
    BY <1>7, <2>1, <2>2, <2>3 DEF DrainEnd
<1>8. CASE DrainSchedule
  <2>1. bh' \in BOOLEAN
    BY <1>8, Zenon DEF DrainSchedule, qemu_bh_schedule
  <2>2. QED
    BY <1>8, <2>1 DEF DrainSchedule, qemu_bh_schedule
<1>9. CASE HeartbeatCheck
  BY <1>9 DEF HeartbeatCheck
<1>10. CASE HeartbeatWake
  BY <1>10 DEF HeartbeatWake
<1>11. CASE HeartbeatPoll
  <2>1. rung' \in BOOLEAN
    BY <1>11, Zenon DEF HeartbeatPoll, Poll, schedule_bh, MayInterrupt,
       qemu_bh_schedule
  <2>2. pending' \in BOOLEAN
    BY <1>11, Zenon DEF HeartbeatPoll, Poll, schedule_bh, MayInterrupt,
       qemu_bh_schedule
  <2>3. drain_pending' \in BOOLEAN
    BY <1>11, Zenon DEF HeartbeatPoll, Poll, schedule_bh, MayInterrupt,
       qemu_bh_schedule
  <2>4. prompt' \in BOOLEAN
    BY <1>11, Zenon DEF HeartbeatPoll, Poll, schedule_bh, MayInterrupt,
       qemu_bh_schedule
  <2>5. bh' \in BOOLEAN
    BY <1>11, Zenon DEF HeartbeatPoll, Poll, schedule_bh, MayInterrupt,
       qemu_bh_schedule
    <2>6. main_drain' \in BOOLEAN
    BY <1>11, Zenon DEF HeartbeatPoll, Poll, schedule_bh, MayInterrupt,
       qemu_bh_schedule
  <2>7. QED
    BY <1>11, <2>1, <2>2, <2>3, <2>4, <2>5, <2>6 DEF HeartbeatPoll, Poll, schedule_bh,
       MayInterrupt, qemu_bh_schedule
<1>12. CASE HeartbeatPolled
  BY <1>12 DEF HeartbeatPolled
<1>13. CASE HeartbeatContended
  <2>1. prompt' \in BOOLEAN
    BY <1>13, Zenon DEF HeartbeatContended, MayInterrupt, qemu_bh_schedule
  <2>2. bh' \in BOOLEAN
    BY <1>13, Zenon DEF HeartbeatContended, MayInterrupt, qemu_bh_schedule
  <2>3. QED
    BY <1>13, <2>1, <2>2 DEF HeartbeatContended, MayInterrupt, qemu_bh_schedule
<1>14. CASE HeartbeatSchedule
  <2>1. bh' \in BOOLEAN
    BY <1>14, Zenon DEF HeartbeatSchedule, qemu_bh_schedule
  <2>2. QED
    BY <1>14, <2>1 DEF HeartbeatSchedule, qemu_bh_schedule
<1>15. CASE Notify
  <2>1. PICK n \in Notifiers : NotifierQueue(n) \/ NotifierTest(n) \/ NotifierCall(n)
    BY <1>15 DEF Notify
  <2>2. CASE NotifierQueue(n)
    <3>1. prompt' \in BOOLEAN
      BY <2>2, Zenon DEF NotifierQueue
    <3>2. QED
      BY <2>2, <3>1 DEF NotifierQueue
  <2>3. CASE NotifierTest(n)
    BY <2>3 DEF NotifierTest
  <2>4. CASE NotifierCall(n)
    <3>1. bh' \in BOOLEAN
      BY <2>4, Zenon DEF NotifierCall, qemu_bh_schedule
    <3>2. QED
      BY <2>4, <3>1 DEF NotifierCall, qemu_bh_schedule
  <2>5. QED
    BY <2>1, <2>2, <2>3, <2>4
<1>16. CASE GfxWake
  <2>1. drain_pending' \in BOOLEAN
    BY <1>16, Zenon DEF GfxWake, schedule_bh
  <2>2. QED
    BY <1>16, <2>1 DEF GfxWake, schedule_bh
<1>17. CASE DeliverPrompt
  <2>1. prompt' \in BOOLEAN
    BY <1>17, Zenon DEF DeliverPrompt
  <2>2. QED
    BY <1>17, <2>1 DEF DeliverPrompt
<1>18. CASE DeliverScanout
  <2>1. scanout' \in BOOLEAN
    BY <1>18, Zenon DEF DeliverScanout
  <2>2. QED
    BY <1>18, <2>1 DEF DeliverScanout
<1>19. CASE DeliverEnd
  BY <1>19 DEF DeliverEnd
<1>20. CASE Paint
  <2>1. yield' \in BOOLEAN
    BY <1>20, Zenon DEF Paint
  <2>2. present_action_pending' \in BOOLEAN
    BY <1>20, Zenon DEF Paint
  <2>3. QED
    BY <1>20, <2>1, <2>2 DEF Paint
<1>21. CASE PaintContended
  BY <1>21 DEF PaintContended
<1>22. CASE Painted
  <2>1. drain_pending' \in BOOLEAN
    BY <1>22, Zenon DEF Painted, schedule_bh
  <2>2. QED
    BY <1>22, <2>1 DEF Painted, schedule_bh
<1>23. CASE ResetFlag
  <2>1. drain_pending' \in BOOLEAN
    BY <1>23, Zenon DEF ResetFlag
  <2>2. QED
    BY <1>23, <2>1 DEF ResetFlag
<1>24. CASE StopDrain
  <2>1. drain_stopping' \in BOOLEAN
    BY <1>24, Zenon DEF StopDrain
  <2>2. UNCHANGED <<drain_pending, heartbeat_stopping, action_bh, rust_handle,
     dirty, bh, window, main_drain, rung, pending, open, showVars>>
    BY <1>24 DEF StopDrain
  <2>3. QED
    BY <2>1, <2>2
<1>25. CASE DeleteBH
  <2>1. action_bh' \in BOOLEAN /\ bh' \in BOOLEAN
    BY <1>25, Zenon DEF DeleteBH
  <2>2. UNCHANGED <<drain_pending, drain_stopping, heartbeat_stopping, rust_handle,
     dirty, window, main_drain, rung, pending, open, showVars>>
    BY <1>25 DEF DeleteBH
  <2>3. QED
    BY <2>1, <2>2
<1>26. CASE Destroy
  <2>1. rust_handle' \in BOOLEAN
    BY <1>26, Zenon DEF Destroy
  <2>2. QED
    BY <1>26, <2>1 DEF Destroy
<1>27. CASE GfxRing
  <2>1. rung' \in BOOLEAN
    BY <1>27, Zenon DEF GfxRing
  <2>2. QED
    BY <1>27, <2>1 DEF GfxRing
<1>28. CASE GfxWriteDirect
  <2>1. main_drain' \in BOOLEAN
    BY <1>28, Zenon DEF GfxWriteDirect
  <2>2. QED
    BY <1>28, <2>1 DEF GfxWriteDirect
<1>29. CASE GfxWriteQueued
  BY <1>29 DEF GfxWriteQueued
<1>30. CASE BottomHalf
  <2>1. bh' \in BOOLEAN
    BY <1>30, Zenon DEF BottomHalf
  <2>2. QED
    BY <1>30, <2>1 DEF BottomHalf
<1>31. CASE FbUpdate
  <2>1. rung' \in BOOLEAN
    BY <1>31, Zenon DEF FbUpdate, Poll, schedule_bh, MayInterrupt, qemu_bh_schedule
  <2>2. pending' \in BOOLEAN
    BY <1>31, Zenon DEF FbUpdate, Poll, schedule_bh, MayInterrupt, qemu_bh_schedule
  <2>3. drain_pending' \in BOOLEAN
    BY <1>31, Zenon DEF FbUpdate, Poll, schedule_bh, MayInterrupt, qemu_bh_schedule
  <2>4. prompt' \in BOOLEAN
    BY <1>31, Zenon DEF FbUpdate, Poll, schedule_bh, MayInterrupt, qemu_bh_schedule
  <2>5. bh' \in BOOLEAN
    BY <1>31, Zenon DEF FbUpdate, Poll, schedule_bh, MayInterrupt, qemu_bh_schedule
    <2>6. main_drain' \in BOOLEAN
    BY <1>31, Zenon DEF FbUpdate, Poll, schedule_bh, MayInterrupt, qemu_bh_schedule
  <2>7. QED
    BY <1>31, <2>1, <2>2, <2>3, <2>4, <2>5, <2>6 DEF FbUpdate, Poll, schedule_bh,
       MayInterrupt, qemu_bh_schedule
<1>32. CASE ResetBackend
  <2>1. rung' \in BOOLEAN
    BY <1>32, Zenon DEF ResetBackend, schedule_bh
  <2>2. pending' \in BOOLEAN
    BY <1>32, Zenon DEF ResetBackend, schedule_bh
  <2>3. open' \in BOOLEAN
    BY <1>32, Zenon DEF ResetBackend, schedule_bh
  <2>4. yield' \in BOOLEAN
    BY <1>32, Zenon DEF ResetBackend, schedule_bh
  <2>5. present_action_pending' \in BOOLEAN
    BY <1>32, Zenon DEF ResetBackend, schedule_bh
  <2>6. boundary' \in BOOLEAN
    BY <1>32, Zenon DEF ResetBackend, schedule_bh
  <2>7. scanout' \in BOOLEAN
    BY <1>32, Zenon DEF ResetBackend, schedule_bh
  <2>8. prompt' \in BOOLEAN
    BY <1>32, Zenon DEF ResetBackend, schedule_bh
  <2>9. drain_pending' \in BOOLEAN
    BY <1>32, Zenon DEF ResetBackend, schedule_bh
  <2>10. main_drain' \in BOOLEAN
    BY <1>32, Zenon DEF ResetBackend, schedule_bh
  <2>11. QED
    BY <1>32, <2>1, <2>2, <2>3, <2>4, <2>5, <2>6, <2>7, <2>8, <2>9, <2>10 DEF
       ResetBackend, schedule_bh
<1>33. CASE StopHeartbeat
  <2>1. heartbeat_stopping' \in BOOLEAN
    BY <1>33, Zenon DEF StopHeartbeat
  <2>2. UNCHANGED <<drain_pending, drain_stopping, action_bh, rust_handle, dirty,
     bh, window, main_drain, rung, pending, open, showVars>>
    BY <1>33 DEF StopHeartbeat
  <2>3. QED
    BY <2>1, <2>2
<1>34. CASE Exit
  <2>1. dirty' \in BOOLEAN
    BY <1>34, Zenon DEF Exit
  <2>2. QED
    BY <1>34, <2>1 DEF Exit
<1>35. CASE UNCHANGED vars
  BY <1>35 DEF vars
<1>36. CASE DrainMain
  <2>1. main_drain' \in BOOLEAN
    BY <1>36, Zenon DEF DrainMain, MayDefineOrFree, MayInterrupt,
       qemu_bh_schedule
  <2>2. pending' \in BOOLEAN
    BY <1>36, Zenon DEF DrainMain, MayDefineOrFree, MayInterrupt,
       qemu_bh_schedule
  <2>3. open' \in BOOLEAN
    BY <1>36, Zenon DEF DrainMain, MayDefineOrFree, MayInterrupt,
       qemu_bh_schedule
  <2>4. scanout' \in BOOLEAN
    BY <1>36, Zenon DEF DrainMain, MayDefineOrFree, MayInterrupt,
       qemu_bh_schedule
  <2>5. prompt' \in BOOLEAN
    BY <1>36, Zenon DEF DrainMain, MayDefineOrFree, MayInterrupt,
       qemu_bh_schedule
  <2>6. bh' \in BOOLEAN
    BY <1>36, Zenon DEF DrainMain, MayDefineOrFree, MayInterrupt,
       qemu_bh_schedule
  <2>7. QED
    BY <1>36, <2>1, <2>2, <2>3, <2>4, <2>5, <2>6 DEF DrainMain, MayDefineOrFree, MayInterrupt,
       qemu_bh_schedule
<1>37. QED
  BY <1>1, <1>2, <1>3, <1>4, <1>5, <1>6, <1>7, <1>8, <1>9, <1>10, <1>11, <1>12,
     <1>13, <1>14, <1>15, <1>16, <1>17, <1>18, <1>19, <1>20, <1>21, <1>22, <1>23,
     <1>24, <1>25, <1>26, <1>27, <1>28, <1>29, <1>30, <1>31, <1>32, <1>33, <1>34,
     <1>35, <1>36 DEF Next, DrainThread, HeartbeatThread, Continue, Begin

\* A backend thread touches only its own program counter, the prompt queue and the
\* bottom half.
LEMMA NotifyKeeps ==
    Notify => UNCHANGED <<drain_pending, drain_stopping, heartbeat_stopping, action_bh,
                          rust_handle, dirty, drain, heartbeat, bql, fb, window, inner,
                          doorVars, yield, present_action_pending, boundary, scanout>>
<1> SUFFICES ASSUME NEW n \in Notifiers,
                    NotifierQueue(n) \/ NotifierTest(n) \/ NotifierCall(n)
             PROVE  UNCHANGED <<drain_pending, drain_stopping, heartbeat_stopping,
                       action_bh, rust_handle, dirty, drain, heartbeat, bql, fb, window,
                       inner, doorVars, yield, present_action_pending, boundary,
                       scanout>>
  BY DEF Notify
<1> QED
  BY DEF NotifierQueue, NotifierTest, NotifierCall, shimVars, showVars

\* Who holds the device lock stays in line with the program counters.
LEMMA LockHolderStep == Places /\ LockHolder /\ [Next]_vars => LockHolder'
<1> SUFFICES ASSUME Places, LockHolder, [Next]_vars
             PROVE  LockHolder'
  OBVIOUS
<1> USE DEF LockHolder, InTranche, Places, schedule_bh, pcVars
<1>1. CASE DrainThread
  BY <1>1 DEF DrainThread, DrainCheck, DrainEnter, DrainLock, DrainMain,
     DrainNothing, DrainRun, DrainRefill, DrainEnd, DrainSchedule
<1>2. CASE HeartbeatThread
  BY <1>2 DEF HeartbeatThread, HeartbeatCheck, HeartbeatWake, HeartbeatPoll,
     HeartbeatPolled, HeartbeatContended, HeartbeatSchedule, Poll
<1>3. CASE Notify
  BY <1>3 DEF Notify, NotifierQueue, NotifierTest, NotifierCall
<1>4. CASE Continue
  BY <1>4 DEF Continue, GfxWake, DeliverPrompt, DeliverScanout, DeliverEnd, Paint,
     PaintContended, Painted, PaintReturns, ResetFlag, StopDrain, DeleteBH, Destroy
<1>5. CASE Begin
  BY <1>5 DEF Begin, GfxRing, GfxWriteDirect, GfxWriteQueued, BottomHalf, FbUpdate,
     ResetBackend, ResetFlag, StopHeartbeat, Exit, Poll
<1>6. CASE UNCHANGED vars
  BY <1>6 DEF vars
<1>7. QED
  BY <1>1, <1>2, <1>3, <1>4, <1>5, <1>6 DEF Next

\* The order of the teardown is kept: nothing goes away before both joins, and a
\* thread that ended does not come back.
LEMMA StopLineStep ==
    Flags /\ Flags' /\ Places /\ LockHolder /\ StopLine /\ [Next]_vars
    => StopLine'
<1> SUFFICES ASSUME Flags, Flags', Places, LockHolder, StopLine, [Next]_vars
             PROVE  StopLine'
  OBVIOUS
<1> USE DEF StopLine, LockHolder, InTranche, Flags, Places, schedule_bh, pcVars,
            shimVars, doorVars, rootVars, showVars
<1>1. CASE DrainThread
  BY <1>1 DEF DrainThread, DrainCheck, DrainEnter, DrainLock, DrainMain,
     DrainNothing, DrainRun, DrainRefill, DrainEnd, DrainSchedule
<1>2. CASE HeartbeatThread
  BY <1>2 DEF HeartbeatThread, HeartbeatCheck, HeartbeatWake, HeartbeatPoll,
     HeartbeatPolled, HeartbeatContended, HeartbeatSchedule, Poll
<1>3. CASE Notify
  BY <1>3, NotifyKeeps
<1>4. CASE Continue
  <2>1. CASE GfxWake \/ Painted
    BY <2>1 DEF GfxWake, Painted, PaintReturns
  <2>2. CASE DeliverPrompt \/ DeliverScanout \/ DeliverEnd
    BY <2>2 DEF DeliverPrompt, DeliverScanout, DeliverEnd
  <2>3. CASE Paint \/ PaintContended
    BY <2>3 DEF Paint, PaintContended, PaintReturns
  <2>4. CASE ResetFlag
    BY <2>4 DEF ResetFlag
  <2>5. CASE StopDrain
    BY <2>5 DEF StopDrain
  <2>6. CASE DeleteBH
    BY <2>6 DEF DeleteBH
  <2>7. CASE Destroy
    BY <2>7 DEF Destroy
  <2>8. QED
    BY <1>4, <2>1, <2>2, <2>3, <2>4, <2>5, <2>6, <2>7 DEF Continue
<1>5. CASE Begin
  BY <1>5 DEF Begin, GfxRing, GfxWriteDirect, GfxWriteQueued, BottomHalf, FbUpdate,
     ResetBackend, ResetFlag, StopHeartbeat, Exit, Poll
<1>6. CASE UNCHANGED vars
  BY <1>6 DEF vars
<1>7. QED
  BY <1>1, <1>2, <1>3, <1>4, <1>5, <1>6 DEF Next

\* A present that waits keeps its action in the queue, or under the brush, until
\* the paint is accounted for or the device is reset.
LEMMA PresentLineStep ==
    Flags /\ Flags' /\ Places /\ LockHolder /\ PresentLine /\ [Next]_vars
    => PresentLine'
<1> SUFFICES ASSUME Flags, Flags', Places, LockHolder, PresentLine, [Next]_vars
             PROVE  PresentLine'
  OBVIOUS
<1> USE DEF PresentLine, LockHolder, InTranche, Flags, Places, schedule_bh, pcVars,
            shimVars, doorVars, rootVars, showVars
<1>1. CASE DrainThread
  BY <1>1 DEF DrainThread, DrainCheck, DrainEnter, DrainLock, DrainMain,
     DrainNothing, DrainRun, DrainRefill, DrainEnd, DrainSchedule
<1>2. CASE HeartbeatThread
  BY <1>2 DEF HeartbeatThread, HeartbeatCheck, HeartbeatWake, HeartbeatPoll,
     HeartbeatPolled, HeartbeatContended, HeartbeatSchedule, Poll
<1>3. CASE Notify
  BY <1>3, NotifyKeeps
<1>4. CASE Continue
  BY <1>4 DEF Continue, GfxWake, DeliverPrompt, DeliverScanout, DeliverEnd, Paint,
     PaintContended, Painted, PaintReturns, ResetFlag, StopDrain, DeleteBH, Destroy
<1>5. CASE Begin
  BY <1>5 DEF Begin, GfxRing, GfxWriteDirect, GfxWriteQueued, BottomHalf, FbUpdate,
     ResetBackend, ResetFlag, StopHeartbeat, Exit, Poll
<1>6. CASE UNCHANGED vars
  BY <1>6 DEF vars
<1>7. QED
  BY <1>1, <1>2, <1>3, <1>4, <1>5, <1>6 DEF Next

\* What reaches the backend while a tranche runs has asked for another drain, or
\* is about to.
LEMMA DoorbellLineStep ==
    Flags /\ Flags' /\ Places /\ LockHolder /\ StopLine /\ DoorbellLine /\
    [Next]_vars
    => DoorbellLine'
<1> SUFFICES ASSUME Flags, Flags', Places, LockHolder, StopLine, DoorbellLine,
                    [Next]_vars
             PROVE  DoorbellLine'
  OBVIOUS
<1> USE DEF DoorbellLine, StopLine, LockHolder, InTranche, Flags, Places, schedule_bh,
            pcVars, shimVars, doorVars, rootVars, showVars
<1>1. CASE DrainThread
  <2>1. CASE DrainCheck
    BY <2>1 DEF DrainCheck
  <2>2. CASE DrainEnter
    BY <2>2 DEF DrainEnter
  <2>3. CASE DrainLock
    <3>1. /\ drain' = "tranche" /\ ingress' = 0 /\ rung' = FALSE
          /\ UNCHANGED <<bql, open>>
          /\ pending' = (pending \/ rung)
      BY <2>3, Zenon DEF DrainLock
    <3>2. CASE bql = "reset"
      <4>1. ingress = 0 /\ root = 0 /\ ~main_drain
        BY <3>2
      <4>2. root' = 0
        <5>1. root' = root + ingress
          BY ONLY <2>3 DEF DrainLock
        <5>2. QED
          BY ONLY <4>1, <5>1
      <4>3. ~main_drain'
        BY <2>3, <4>1, Zenon DEF DrainLock
      <4>4. QED
        BY <3>1, <3>2, <4>2, <4>3
    <3>3. CASE bql # "reset"
      BY <3>1, <3>3
    <3>4. QED
      BY <3>2, <3>3
  <2>0. CASE DrainMain
    BY <2>0 DEF DrainMain, MayDefineOrFree
  <2>4. CASE DrainNothing
    BY <2>4 DEF DrainNothing
  <2>5. CASE DrainRun
    BY <2>5 DEF DrainRun
  <2>6. CASE DrainRefill
    BY <2>6 DEF DrainRefill
  <2>7. CASE DrainEnd
    BY <2>7 DEF DrainEnd
  <2>8. CASE DrainSchedule
    BY <2>8 DEF DrainSchedule
  <2>9. QED
    BY <1>1, <2>0, <2>1, <2>2, <2>3, <2>4, <2>5, <2>6, <2>7, <2>8 DEF DrainThread
<1>2. CASE HeartbeatThread
  <2>1. CASE HeartbeatCheck \/ HeartbeatWake
    BY <2>1 DEF HeartbeatCheck, HeartbeatWake
  <2>2. CASE HeartbeatPoll
    <3>1. ~InTranche /\ ~InTranche'
      BY <2>2 DEF HeartbeatPoll, Poll
    <3>2. CASE bql = "reset"
      <4>1. ~(root > 0)
        BY <3>2
      <4>2. ~main_drain' /\ ~pending'
        BY <2>2, <3>2, <4>1, Zenon DEF HeartbeatPoll, Poll
      <4>3. QED
        BY <2>2, <3>1, <3>2, <4>2 DEF HeartbeatPoll, Poll
    <3>3. CASE bql # "reset"
      BY <2>2, <3>1, <3>3 DEF HeartbeatPoll, Poll
    <3>4. QED
      BY <3>2, <3>3
  <2>3. CASE HeartbeatPolled
    BY <2>3 DEF HeartbeatPolled
  <2>4. CASE HeartbeatContended
    BY <2>4 DEF HeartbeatContended
  <2>5. CASE HeartbeatSchedule
    BY <2>5 DEF HeartbeatSchedule
  <2>6. QED
    BY <1>2, <2>1, <2>2, <2>3, <2>4, <2>5 DEF HeartbeatThread
<1>3. CASE Notify
  BY <1>3, NotifyKeeps
<1>4. CASE Continue
  <2>1. CASE GfxWake
    BY <2>1 DEF GfxWake
  <2>2. CASE DeliverPrompt \/ DeliverScanout \/ DeliverEnd
    BY <2>2 DEF DeliverPrompt, DeliverScanout, DeliverEnd
  <2>3. CASE Paint
    BY <2>3 DEF Paint, PaintReturns
  <2>4. CASE PaintContended
    BY <2>4 DEF PaintContended, PaintReturns
  <2>5. CASE Painted
    BY <2>5 DEF Painted, PaintReturns
  <2>6. CASE ResetFlag
    BY <2>6 DEF ResetFlag
  <2>7. CASE StopDrain
    BY <2>7 DEF StopDrain
  <2>8. CASE DeleteBH \/ Destroy
    BY <2>8 DEF DeleteBH, Destroy
  <2>9. QED
    BY <1>4, <2>1, <2>2, <2>3, <2>4, <2>5, <2>6, <2>7, <2>8 DEF Continue
<1>5. CASE Begin
  <2>1. CASE GfxRing
    BY <2>1 DEF GfxRing
  <2>2. CASE GfxWriteDirect
    BY <2>2 DEF GfxWriteDirect
  <2>3. CASE GfxWriteQueued
    BY <2>3 DEF GfxWriteQueued
  <2>4. CASE BottomHalf
    BY <2>4 DEF BottomHalf
  <2>5. CASE FbUpdate
    BY <2>5 DEF FbUpdate, Poll
  <2>6. CASE ResetBackend
    BY <2>6 DEF ResetBackend
  <2>7. CASE ResetFlag
    BY <2>7 DEF ResetFlag
  <2>8. CASE StopHeartbeat
    BY <2>8 DEF StopHeartbeat
  <2>9. CASE Exit
    BY <2>9 DEF Exit
  <2>10. QED
    BY <1>5, <2>1, <2>2, <2>3, <2>4, <2>5, <2>6, <2>7, <2>8, <2>9 DEF Begin
<1>6. CASE UNCHANGED vars
  BY <1>6 DEF vars
<1>7. QED
  BY <1>1, <1>2, <1>3, <1>4, <1>5, <1>6 DEF Next

\* No step takes the last reason to drain away from work that is still there.
LEMMA NoWakeLostStep ==
    Flags /\ Flags' /\ Places /\ LockHolder /\ DoorbellLine /\ StopLine /\
    PresentLine /\ NoWakeLost /\ [Next]_vars
    => NoWakeLost'
<1> SUFFICES ASSUME Flags, Flags', Places, LockHolder, DoorbellLine, StopLine,
                    PresentLine, NoWakeLost, [Next]_vars
             PROVE  NoWakeLost'
  OBVIOUS
<1> USE DEF NoWakeLost, Running, DrainOwed, DoorbellLine, StopLine, PresentLine,
            LockHolder, InTranche, Flags, Places, schedule_bh, pcVars, shimVars,
            doorVars, rootVars, showVars
<1>1. CASE DrainThread
  <2>1. CASE DrainCheck
    BY <2>1 DEF DrainCheck
  <2>2. CASE DrainEnter
    BY <2>2 DEF DrainEnter
  <2>3. CASE DrainLock
    BY <2>3 DEF DrainLock
  <2>0. CASE DrainMain
    BY <2>0 DEF DrainMain, MayDefineOrFree
  <2>4. CASE DrainNothing
    BY <2>4 DEF DrainNothing
  <2>5. CASE DrainRun
    BY <2>5 DEF DrainRun
  <2>6. CASE DrainRefill
    BY <2>6 DEF DrainRefill
  <2>7. CASE DrainEnd
    BY <2>7 DEF DrainEnd
  <2>8. CASE DrainSchedule
    BY <2>8 DEF DrainSchedule
  <2>9. QED
    BY <1>1, <2>0, <2>1, <2>2, <2>3, <2>4, <2>5, <2>6, <2>7, <2>8 DEF DrainThread
<1>2. CASE HeartbeatThread
  BY <1>2 DEF HeartbeatThread, HeartbeatCheck, HeartbeatWake, HeartbeatPoll,
     HeartbeatPolled, HeartbeatContended, HeartbeatSchedule, Poll
<1>3. CASE Notify
  BY <1>3, NotifyKeeps
<1>4. CASE Continue
  BY <1>4 DEF Continue, GfxWake, DeliverPrompt, DeliverScanout, DeliverEnd, Paint,
     PaintContended, Painted, PaintReturns, ResetFlag, StopDrain, DeleteBH, Destroy
<1>5. CASE Begin
  BY <1>5 DEF Begin, GfxRing, GfxWriteDirect, GfxWriteQueued, BottomHalf, FbUpdate,
     ResetBackend, ResetFlag, StopHeartbeat, Exit, Poll
<1>6. CASE UNCHANGED vars
  BY <1>6 DEF vars
<1>7. QED
  BY <1>1, <1>2, <1>3, <1>4, <1>5, <1>6 DEF Next

\* No step takes the last reason to deliver away from an action that is queued.
LEMMA NoActionStrandedStep ==
    Flags /\ Flags' /\ Places /\ LockHolder /\ StopLine /\ NoActionStranded /\
    [Next]_vars
    => NoActionStranded'
<1> SUFFICES ASSUME Flags, Flags', Places, LockHolder, StopLine, NoActionStranded,
                    [Next]_vars
             PROVE  NoActionStranded'
  OBVIOUS
<1> USE DEF NoActionStranded, Delivering, Running, StopLine, LockHolder, InTranche,
            Flags, Places, MayInterrupt, qemu_bh_schedule, schedule_bh, pcVars,
            shimVars, doorVars, rootVars, showVars
<1>1. CASE DrainThread
  BY <1>1 DEF DrainThread, DrainCheck, DrainEnter, DrainLock, DrainMain,
     DrainNothing, DrainRun, DrainRefill, DrainEnd, DrainSchedule
<1>2. CASE HeartbeatThread
  BY <1>2 DEF HeartbeatThread, HeartbeatCheck, HeartbeatWake, HeartbeatPoll,
     HeartbeatPolled, HeartbeatContended, HeartbeatSchedule, Poll
<1>3. CASE Notify
  <2>1. PICK n \in Notifiers : NotifierQueue(n) \/ NotifierTest(n) \/ NotifierCall(n)
    BY <1>3 DEF Notify
  <2>2. UNCHANGED <<drain, heartbeat, bql, fb, rust_handle, heartbeat_stopping,
                    action_bh, scanout>>
    BY <1>3, NotifyKeeps
  <2>3. CASE NotifierQueue(n)
    <3>1. notifier'[n] # "idle"
      BY <2>3 DEF NotifierQueue
    <3>2. QED
      BY <3>1
  <2>4. CASE NotifierTest(n)
    <3>1. ~action_bh \/ notifier'[n] # "idle"
      BY <2>4 DEF NotifierTest
    <3>2. QED
      BY <2>2, <3>1
  <2>5. CASE NotifierCall(n)
    <3>1. ~action_bh \/ bh'
      BY <2>5 DEF NotifierCall
    <3>2. QED
      BY <2>2, <3>1
  <2>6. QED
    BY <2>1, <2>3, <2>4, <2>5
<1>4. CASE Continue
  <2>1. CASE GfxWake
    BY <2>1 DEF GfxWake
  <2>2. CASE DeliverPrompt
    BY <2>2 DEF DeliverPrompt
  <2>3. CASE DeliverScanout
    BY <2>3 DEF DeliverScanout
  <2>4. CASE DeliverEnd
    BY <2>4 DEF DeliverEnd
  <2>5. CASE Paint
    BY <2>5 DEF Paint, PaintReturns
  <2>6. CASE PaintContended
    BY <2>6 DEF PaintContended, PaintReturns
  <2>7. CASE Painted
    BY <2>7 DEF Painted, PaintReturns
  <2>8. CASE ResetFlag
    BY <2>8 DEF ResetFlag
  <2>9. CASE StopDrain
    BY <2>9 DEF StopDrain
  <2>10. CASE DeleteBH
    BY <2>10 DEF DeleteBH
  <2>11. CASE Destroy
    BY <2>11 DEF Destroy
  <2>12. QED
    BY <1>4, <2>1, <2>2, <2>3, <2>4, <2>5, <2>6, <2>7, <2>8, <2>9, <2>10, <2>11 DEF
       Continue
<1>5. CASE Begin
  BY <1>5 DEF Begin, GfxRing, GfxWriteDirect, GfxWriteQueued, BottomHalf, FbUpdate,
     ResetBackend, ResetFlag, StopHeartbeat, Exit, Poll
<1>6. CASE UNCHANGED vars
  BY <1>6 DEF vars
<1>7. QED
  BY <1>1, <1>2, <1>3, <1>4, <1>5, <1>6 DEF Next

\* A device that realize has brought up satisfies every part of the invariant.
LEMMA IndInit == Init => IndInv
<1> SUFFICES ASSUME Init
             PROVE  IndInv
  OBVIOUS
<1>1. Flags
  BY ShimAssumption, Zenon DEF Init, Flags
<1>2. Counters
  BY DEF Init, Counters
<1>3. Places
  BY DEF Init, Places
<1>4. LockHolder
  BY DEF Init, LockHolder, InTranche
<1>5. PresentLine
  BY <1>1 DEF Init, PresentLine, Flags
<1>6. DoorbellLine /\ StopLine
  BY <1>1 DEF Init, DoorbellLine, StopLine, InTranche, Flags
<1>7. NoWakeLost
  BY <1>1 DEF Init, NoWakeLost, Flags
<1>8. NoActionStranded
  BY <1>1 DEF Init, NoActionStranded, Flags
<1>9. QED
  BY <1>1, <1>2, <1>3, <1>4, <1>5, <1>6, <1>7, <1>8 DEF IndInv, TypeOK

\* The invariant is inductive.
LEMMA IndStep == IndInv /\ [Next]_vars => IndInv'
<1> SUFFICES ASSUME IndInv, [Next]_vars
             PROVE  IndInv'
  OBVIOUS
<1>1. /\ Flags /\ Counters /\ Places /\ LockHolder /\ PresentLine /\ DoorbellLine
      /\ StopLine /\ NoWakeLost /\ NoActionStranded
  BY DEF IndInv, TypeOK
<1>2. Flags' /\ Counters' /\ Places'
  BY <1>1, FlagsStep, CountersStep, PlacesStep
<1>3. LockHolder' /\ StopLine'
  BY <1>1, <1>2, LockHolderStep, StopLineStep
<1>4. PresentLine' /\ DoorbellLine'
  BY <1>1, <1>2, PresentLineStep, DoorbellLineStep
<1>5. NoWakeLost' /\ NoActionStranded'
  BY <1>1, <1>2, NoWakeLostStep, NoActionStrandedStep
<1>6. QED
  BY <1>2, <1>3, <1>4, <1>5 DEF IndInv, TypeOK

\* The inductive invariant holds in every reachable state of the shim.
THEOREM ShimInvariance == Spec => []IndInv
<1>1. Init => IndInv
  BY IndInit
<1>2. IndInv /\ [Next]_vars => IndInv'
  BY IndStep
<1>3. QED
  BY <1>1, <1>2, PTL DEF Spec

\* Type correctness of the shim's flags, its threads and the backend it drives.
THEOREM ShimTypeCorrect == Spec => []TypeOK
<1>1. IndInv => TypeOK
  BY DEF IndInv
<1>2. QED
  BY <1>1, ShimInvariance, PTL

\* A doorbell is never left with nobody due to serve it, although the worker takes
\* drain_pending before it drains, skips the drain while a paint is owed, and reset
\* clears the flag after it has emptied the queues.
THEOREM WakeupsAreNotLost == Spec => []NoWakeLost
<1>1. IndInv => NoWakeLost
  BY DEF IndInv
<1>2. QED
  BY <1>1, ShimInvariance, PTL

\* An action the bottom half leaves because the device lock is taken is delivered
\* by a later one: somebody is always due to schedule it.
THEOREM ActionsAreNotStranded == Spec => []NoActionStranded
<1>1. IndInv => NoActionStranded
  BY DEF IndInv
<1>2. QED
  BY <1>1, ShimInvariance, PTL

\* The worker never skips its drains for a paint that nobody is going to do.
THEOREM OwedPaintIsComing == Spec => []PaintIsComing
<1>1. IndInv => PaintIsComing
  <2> SUFFICES ASSUME Flags, PresentLine
               PROVE  PaintIsComing
    BY DEF IndInv, TypeOK
  <2> QED
    BY DEF PaintIsComing, PresentLine, Flags
<1>2. QED
  BY <1>1, ShimInvariance, PTL

\* Teardown ends both threads before it deletes the bottom half, destroys the
\* backend or frees the write tracker.
THEOREM TeardownWaitsForThreads == Spec => []ThreadsEndFirst
<1>1. IndInv => ThreadsEndFirst
  <2> SUFFICES ASSUME Flags, StopLine
               PROVE  ThreadsEndFirst
    BY DEF IndInv, TypeOK
  <2> QED
    BY DEF ThreadsEndFirst, StopLine, Flags
<1>2. QED
  BY <1>1, ShimInvariance, PTL

\* A join never waits for a thread that waits for the joiner, whatever the threads
\* were doing when the backend was told to stop: this is why StopEnds needs no more
\* than that threads run.
THEOREM JoinsAreNotCircular == Spec => []JoinsCanReturn
<1>1. IndInv => JoinsCanReturn
  <2> SUFFICES ASSUME LockHolder, StopLine
               PROVE  JoinsCanReturn
    BY DEF IndInv
  <2> QED
    BY DEF JoinsCanReturn, LockHolder, StopLine
<1>2. QED
  BY <1>1, ShimInvariance, PTL

\* Every step leaves marked work marked, save the end of a tranche that found its
\* channel rung again.
LEMMA MarksStep ==
    ASSUME IndInv, WorkIsMarked, [Next]_vars
    PROVE  \/ WorkIsMarked'
           \/ drain = "served" /\ drain' = "schedule" /\ rung /\ ~yield
<1>0. Flags /\ Counters /\ DoorbellLine
  BY DEF IndInv, TypeOK
<1> USE DEF WorkIsMarked, Flags, doorVars, rootVars
<1>1. CASE DrainLock
  <2>1. root' > 0 => main_drain'
    <3>1. root' = root + ingress /\ main_drain' = (main_drain \/ ingress # 0)
      BY <1>1 DEF DrainLock
    <3>2. CASE ingress = 0
      <4>1. root' = root
        BY <1>0, <3>1, <3>2 DEF Counters
      <4>2. main_drain => main_drain'
        BY <3>1
      <4>3. QED
        BY <4>1, <4>2
    <3>3. CASE ingress # 0
      BY <3>1, <3>3
    <3>4. QED
      BY <3>2, <3>3
  <2>2. fifo' = fifo /\ pending' = (pending \/ rung)
    BY <1>1 DEF DrainLock
  <2>3. QED
    BY <1>0, <2>1, <2>2
<1>2. CASE DrainRun
  <2>0. UNCHANGED rootVars
    BY <1>2, Zenon DEF DrainRun
  <2>1. CASE fifo' = 0
    BY <1>0, <2>0, <2>1
  <2>2. CASE pending' = (fifo' # 0)
    <3>1. fifo' > 0 => fifo' # 0
      OBVIOUS
    <3>2. fifo' > 0 => pending'
      BY <2>2, <3>1, Zenon
    <3>3. QED
      BY <1>0, <2>0, <3>2
  <2>3. QED
    BY <1>2, <2>1, <2>2, Zenon DEF DrainRun
<1>12. CASE DrainMain
  <2>1. root' = 0 /\ UNCHANGED <<fifo, rung>>
    BY <1>12 DEF DrainMain
  <2>2. fifo = 0 \/ UNCHANGED pending
    BY <1>12, Zenon DEF DrainMain, MayDefineOrFree
  <2>3. QED
    BY <1>0, <2>1, <2>2
<1>3. CASE DrainRefill
  BY <1>0, <1>3 DEF DrainRefill
<1>4. CASE DrainEnd
  <2>1. /\ drain' = "schedule" /\ rung' = (rung /\ yield) /\ pending' = pending
        /\ fifo' = fifo /\ UNCHANGED rootVars
        /\ drain = "served" \/ (drain = "unserved" /\ (yield \/ ~rung))
    BY <1>4, Zenon DEF DrainEnd
  <2>2. CASE rung /\ ~yield
    BY <2>1, <2>2
  <2>3. CASE ~(rung /\ ~yield)
    BY <1>0, <2>1, <2>3
  <2>4. QED
    BY <2>2, <2>3
<1>5. CASE DrainCheck \/ DrainEnter \/ DrainNothing \/ DrainSchedule
  BY <1>0, <1>5 DEF DrainCheck, DrainEnter, DrainNothing, DrainSchedule
<1>6. CASE HeartbeatThread
  BY <1>0, <1>6 DEF HeartbeatThread, HeartbeatCheck, HeartbeatWake, HeartbeatPoll,
     HeartbeatPolled, HeartbeatContended, HeartbeatSchedule, Poll
<1>7. CASE Notify
  BY <1>0, <1>7 DEF Notify, NotifierQueue, NotifierTest, NotifierCall
<1>8. CASE Continue
  BY <1>0, <1>8 DEF Continue, GfxWake, DeliverPrompt, DeliverScanout, DeliverEnd, Paint,
     PaintContended, Painted, ResetFlag, StopDrain, DeleteBH, Destroy
<1>9. CASE Begin
  <2>1. CASE GfxRing
    BY <2>1 DEF GfxRing
  <2>2. CASE GfxWriteDirect
    BY <2>2 DEF GfxWriteDirect
  <2>3. CASE GfxWriteQueued \/ BottomHalf \/ StopHeartbeat \/ Exit \/ ResetFlag
    BY <1>0, <2>3 DEF GfxWriteQueued, BottomHalf, StopHeartbeat, Exit, ResetFlag
  <2>4. CASE FbUpdate
    BY <1>0, <2>4 DEF FbUpdate, Poll
  <2>5. CASE ResetBackend
    BY <2>5 DEF ResetBackend
  <2>6. QED
    BY <1>9, <2>1, <2>2, <2>3, <2>4, <2>5 DEF Begin
<1>10. CASE UNCHANGED vars
  BY <1>0, <1>10 DEF vars
<1>13. QED
  BY <1>1, <1>2, <1>3, <1>4, <1>5, <1>6, <1>7, <1>8, <1>9, <1>10, <1>12 DEF Next, DrainThread

\* Of everything that folds, moves or clears a doorbell, only the mask at the end of
\* a tranche can leave work in the channel with no mark.
THEOREM DoorbellsAreForgottenOnlyByTheRefill == Spec => OnlyTheRefillForgets
<1>1. IndInv /\ [Next]_vars =>
        [WorkIsMarked =>
           WorkIsMarked' \/ (drain = "served" /\ drain' = "schedule" /\ rung /\ ~yield)]_vars
  BY MarksStep
<1>2. QED
  BY <1>1, ShimInvariance, PTL DEF Spec, OnlyTheRefillForgets
=============================================================================
