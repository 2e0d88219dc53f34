-------------------------- MODULE BufferQueueTypes -------------------------
(***************************************************************************)
(* The types of BufferQueue are an invariant, for every number of slots,   *)
(* buffers, threads and frames, and every set of calls.                    *)
(***************************************************************************)
EXTENDS BufferQueue, FiniteSetTheorems, TLAPS

-----------------------------------------------------------------------------
(* What the helpers return. *)

\* notify_all leaves every thread at one of the places of the code.
LEMMA WokenType == pc \in [Producers -> PcValues] => Woken \in [Producers -> PcValues]
  BY DEF Woken, PcValues

\* A cleared slot is a slot.
LEMMA ClearedSlotType == ClearedSlot \in SlotRecord
  BY DEF ClearedSlot, SlotRecord

\* clearBufferSlotLocked keeps the types, and frames are not counted by it.
LEMMA ClearType ==
  ASSUME SlotTypes, FrameTypes, NEW S, clearBufferSlots(S)
  PROVE  SlotTypes' /\ mLastQueuedSlot' \in Slots \cup {NoSlot}
  BY ClearedSlotType DEF SlotTypes, FrameTypes, clearBufferSlots

\* The guarded decrement of a counter does not leave the naturals.
LEMMA LessNat == ASSUME NEW n \in Nat PROVE Less(n) \in Nat
  BY DEF Less

\* The transitions of BufferState keep the counters natural.
LEMMA SlotOpsType ==
  ASSUME NEW r \in SlotRecord
  PROVE  /\ dequeue(r) \in SlotRecord /\ queue(r) \in SlotRecord
         /\ cancel(r) \in SlotRecord /\ freeQueued(r) \in SlotRecord
         /\ acquireQueued(r) \in SlotRecord /\ acquireNotInQueue(r) \in SlotRecord
         /\ release(r) \in SlotRecord
<1>1. dequeue(r) \in SlotRecord
  BY DEF SlotRecord, dequeue
<1>2. queue(r) \in SlotRecord
  <2> DEFINE u == [r EXCEPT !.mDequeueCount = Less(r.mDequeueCount)]
  <2>1. u \in SlotRecord
    BY LessNat DEF SlotRecord
  <2>2. queue(r) = [u EXCEPT !.mQueueCount = u.mQueueCount + 1]
    BY Zenon DEF queue
  <2> HIDE DEF u
  <2> QED
    BY <2>1, <2>2 DEF SlotRecord
<1>3. cancel(r) \in SlotRecord
  BY DEF SlotRecord, cancel, Less
<1>4. freeQueued(r) \in SlotRecord
  BY DEF SlotRecord, freeQueued, Less
<1>5. acquireQueued(r) \in SlotRecord
  <2> DEFINE u == [r EXCEPT !.mQueueCount = Less(r.mQueueCount)]
  <2>1. u \in SlotRecord
    BY LessNat DEF SlotRecord
  <2>2. acquireQueued(r) = [u EXCEPT !.mAcquireCount = u.mAcquireCount + 1]
    BY Zenon DEF acquireQueued
  <2> HIDE DEF u
  <2> QED
    BY <2>1, <2>2 DEF SlotRecord
<1>6. acquireNotInQueue(r) \in SlotRecord
  BY DEF SlotRecord, acquireNotInQueue
<1>7. release(r) \in SlotRecord
  BY DEF SlotRecord, release, Less
<1> QED
  BY <1>1, <1>2, <1>3, <1>4, <1>5, <1>6, <1>7

\* The mark of a shared slot may go, nothing else.
LEMMA UnshareType == ASSUME NEW r \in SlotRecord PROVE Unshare(r) \in SlotRecord
  BY Zenon DEF Unshare, SlotRecord

\* The fields a call assigns one by one.
LEMMA SlotFieldsType ==
  ASSUME NEW r \in SlotRecord, NEW b \in Buffers \cup {NoBuffer}, NEW v \in BOOLEAN,
         NEW n \in Nat
  PROVE  /\ [r EXCEPT !.mGraphicBuffer = b] \in SlotRecord
         /\ [r EXCEPT !.mShared = v] \in SlotRecord
         /\ [r EXCEPT !.mRequestBufferCalled = v] \in SlotRecord
         /\ [r EXCEPT !.mAcquireCalled = v] \in SlotRecord
         /\ [r EXCEPT !.mNeedsReallocation = v] \in SlotRecord
         /\ [r EXCEPT !.mFrameNumber = n] \in SlotRecord
  BY DEF SlotRecord

\* adjustAvailableSlotsLocked keeps the types.
LEMMA AdjustType ==
  ASSUME SlotTypes, FrameTypes, NEW delta, adjustAvailableSlots(delta)
  PROVE  SlotTypes' /\ mLastQueuedSlot' \in Slots \cup {NoSlot}
<1>1. CASE \E n : AddSlots(n)
  BY <1>1 DEF AddSlots, SlotTypes, FrameTypes
<1>2. CASE \E n : DropSlots(n)
  <2>1. PICK n : DropSlots(n)
    BY <1>2
  <2>2. \E S : clearBufferSlots(S)
    BY <2>1, Zenon DEF DropSlots
  <2> QED
    BY <2>2, ClearType
<1>3. (\E n : AddSlots(n)) \/ (\E n : DropSlots(n))
  <2>1. CASE delta >= 0 /\ AddSlots(delta)
    BY <2>1, Zenon
  <2>2. CASE delta < 0 /\ DropSlots(-delta)
    BY <2>2, Zenon
  <2> QED
    BY <2>1, <2>2 DEF adjustAvailableSlots
<1> QED
  BY <1>1, <1>2, <1>3

\* Marking the items stale keeps them, and their number.
LEMMA StaleType ==
  ASSUME QueueTypes
  PROVE  /\ StaleQueue \in Seq(ItemRecord)
         /\ Len(StaleQueue) = Len(mQueue)
<1> USE DEF QueueTypes
<1> DEFINE stale(x) == [x EXCEPT !.mIsStale = TRUE, !.mAcquireCalled = FALSE]
<1>1. ASSUME NEW x \in ItemRecord PROVE stale(x) \in ItemRecord
  BY Zenon DEF ItemRecord
<1>2. Len(mQueue) \in Nat /\ DOMAIN mQueue = 1..Len(mQueue)
  OBVIOUS
<1>3. StaleQueue = [i \in 1..Len(mQueue) |-> stale(mQueue[i])]
  BY <1>2 DEF StaleQueue
<1>4. \A i \in 1..Len(mQueue) : mQueue[i] \in ItemRecord
  OBVIOUS
<1> HIDE DEF stale
<1> QED
  BY <1>1, <1>2, <1>3, <1>4

\* What queueBuffer puts into the FIFO is an item.
LEMMA BufferItemType ==
  ASSUME StateTypes, NEW s \in Slots, NEW ts \in Nat, NEW auto \in BOOLEAN
  PROVE  BufferItem(s, ts, auto) \in ItemRecord
<1>1. PICK drop \in BOOLEAN : BufferItem(s, ts, auto) =
        [mSlot |-> s, mFrameNumber |-> mFrameCounter + 1,
         mGraphicBuffer |-> mSlots[s].mGraphicBuffer, mAcquireCalled |-> mSlots[s].mAcquireCalled,
         mTimestamp |-> ts, mIsAutoTimestamp |-> auto, mIsDroppable |-> drop,
         mIsStale |-> FALSE]
  BY Zenon DEF BufferItem
<1> QED
  BY <1>1 DEF StateTypes, SlotTypes, FrameTypes, SlotRecord, ItemRecord

-----------------------------------------------------------------------------
(* Every variable but the lists keeps its type, whatever the calls.          *)

\* acquireBuffer looks at the items of the FIFO only while there is one.
DropHasQueue == acquire.pc = "drop" => mQueue # <<>>

TypeInv == StateTypes /\ DropHasQueue

\* A group of variables that does not change keeps its types.
LEMMA Kept ==
  /\ ConnTypes /\ UNCHANGED connVars => ConnTypes'
  /\ SlotTypes /\ UNCHANGED mSlots => SlotTypes'
  /\ QueueTypes /\ UNCHANGED mQueue => QueueTypes'
  /\ ModeTypes /\ UNCHANGED modeVars => ModeTypes'
  /\ CountTypes /\ UNCHANGED countVars => CountTypes'
  /\ FrameTypes /\ UNCHANGED frameVars => FrameTypes'
  /\ SharedTypes /\ UNCHANGED sharedVars => SharedTypes'
  /\ AllocTypes /\ UNCHANGED allocVars => AllocTypes'
  /\ TicketTypes /\ UNCHANGED ticketVars => TicketTypes'
  /\ ThreadTypes /\ UNCHANGED threadVars => ThreadTypes'
  /\ AcquireTypes /\ UNCHANGED acquire => AcquireTypes'
  /\ FaultTypes /\ UNCHANGED fault => FaultTypes'
  /\ HistoryTypes /\ UNCHANGED historyVars => HistoryTypes'
  /\ DropHasQueue /\ UNCHANGED <<mQueue, acquire>> => DropHasQueue'
<1>1. ConnTypes /\ UNCHANGED connVars => ConnTypes'
  BY DEF ConnTypes, connVars
<1>2. SlotTypes /\ UNCHANGED mSlots => SlotTypes'
  BY DEF SlotTypes
<1>3. QueueTypes /\ UNCHANGED mQueue => QueueTypes'
  BY DEF QueueTypes
<1>4. ModeTypes /\ UNCHANGED modeVars => ModeTypes'
  BY DEF ModeTypes, modeVars
<1>5. CountTypes /\ UNCHANGED countVars => CountTypes'
  BY DEF CountTypes, countVars
<1>6. FrameTypes /\ UNCHANGED frameVars => FrameTypes'
  BY DEF FrameTypes, frameVars
<1>7. SharedTypes /\ UNCHANGED sharedVars => SharedTypes'
  BY DEF SharedTypes, sharedVars
<1>8. AllocTypes /\ UNCHANGED allocVars => AllocTypes'
  BY DEF AllocTypes, allocVars
<1>9. TicketTypes /\ UNCHANGED ticketVars => TicketTypes'
  BY DEF TicketTypes, ticketVars
<1>10. ThreadTypes /\ UNCHANGED threadVars => ThreadTypes'
  BY DEF ThreadTypes, threadVars
<1>11. AcquireTypes /\ UNCHANGED acquire => AcquireTypes'
  BY DEF AcquireTypes
<1>12. FaultTypes /\ UNCHANGED fault => FaultTypes'
  BY DEF FaultTypes
<1>13. HistoryTypes /\ UNCHANGED historyVars => HistoryTypes'
  BY DEF HistoryTypes, historyVars
<1>14. DropHasQueue /\ UNCHANGED <<mQueue, acquire>> => DropHasQueue'
  BY DEF DropHasQueue
<1> QED
  BY <1>1, <1>2, <1>3, <1>4, <1>5, <1>6, <1>7, <1>8, <1>9, <1>10, <1>11, <1>12, <1>13, <1>14, Zenon

\* Waking the threads keeps their types.
LEMMA NotifyType == ThreadTypes /\ NotifyDequeue => ThreadTypes'
  BY WokenType DEF ThreadTypes, NotifyDequeue

\* A thread that moves on keeps its types.
LEMMA MoveType ==
  ASSUME ThreadTypes, NEW t, NEW place \in PcValues, pc' = [pc EXCEPT ![t] = place],
         UNCHANGED <<slotOf, timedWait>>
  PROVE  ThreadTypes'
  BY Zenon DEF ThreadTypes

\* The flag of the dequeueBuffer that waits for an allocation stays a flag.
LEMMA WaitingFlagType ==
  ASSUME AllocTypes, NEW t, WaitingForAllocationOver(t), UNCHANGED mIsAllocating
  PROVE  AllocTypes'
<1>1. mDequeueWaitingForAllocation' \in BOOLEAN
  BY Zenon DEF WaitingForAllocationOver
<1> QED
  BY <1>1 DEF AllocTypes

\* acquireBuffer takes the front item.
LEMMA TakeFrontType ==
  ASSUME TypeInv, mQueue # <<>>, TakeFront
  PROVE  TypeInv'
<1> USE DEF TypeInv, StateTypes
<1>1. Head(mQueue) \in ItemRecord /\ Tail(mQueue) \in Seq(ItemRecord)
  BY DEF QueueTypes
<1>2. Head(mQueue).mSlot \in Slots /\ Head(mQueue).mFrameNumber \in Nat
  BY <1>1 DEF ItemRecord
<1>3. SlotTypes'
  <2>1. CASE Head(mQueue).mIsStale
    BY <2>1 DEF TakeFront, SlotTypes
  <2>2. CASE ~Head(mQueue).mIsStale
    <3>1. PICK s \in Slots : mSlots' = [mSlots EXCEPT ![s] =
                               [acquireQueued(mSlots[s]) EXCEPT !.mAcquireCalled = TRUE]]
      BY <1>2, <2>2, Zenon DEF TakeFront
    <3>2. [acquireQueued(mSlots[s]) EXCEPT !.mAcquireCalled = TRUE] \in SlotRecord
      BY SlotOpsType, SlotFieldsType, Zenon DEF SlotTypes
    <3> QED
      BY <3>1, <3>2 DEF SlotTypes
  <2> QED
    BY <2>1, <2>2
<1>4. ThreadTypes'
  BY NotifyType DEF TakeFront
<1>5. AcquireTypes' /\ DropHasQueue'
  BY DEF TakeFront, IdleAcquire, AcquireTypes, DropHasQueue
<1>6. QueueTypes' /\ HistoryTypes'
  BY <1>1, <1>2 DEF TakeFront, QueueTypes, HistoryTypes
<1>7. UNCHANGED <<connVars, modeVars, countVars, frameVars, sharedVars, allocVars, ticketVars,
                  fault>>
  BY DEF TakeFront
<1> QED
  BY <1>3, <1>4, <1>5, <1>6, <1>7, Kept

\* queueBuffer appends the item, or replaces the last one and frees its slot.
LEMMA QueueBufferType ==
  ASSUME TypeInv, NEW t \in Producers, NEW s \in Slots, NEW ts \in Times, NEW auto \in BOOLEAN,
         QueueBuffer(t, s, ts, auto)
  PROVE  TypeInv'
<1> USE DEF TypeInv, StateTypes
<1> DEFINE item  == BufferItem(s, ts, auto)
           r     == [queue(mSlots[s]) EXCEPT !.mShared = @ \/ AdoptsShared,
                                             !.mFrameNumber = mFrameCounter + 1]
           slots == [mSlots EXCEPT ![s] = r]
           last  == mQueue[Len(mQueue)]
           freed == Unshare(freeQueued(slots[last.mSlot]))
<1>1. item \in ItemRecord
  BY BufferItemType, BoundsAssumption
<1>2. r \in SlotRecord
  <2>1. queue(mSlots[s]) \in SlotRecord
    BY SlotOpsType DEF SlotTypes
  <2>2. PICK v \in BOOLEAN : r = [queue(mSlots[s]) EXCEPT !.mShared = v,
                                                          !.mFrameNumber = mFrameCounter + 1]
    BY Zenon
  <2> DEFINE u == [queue(mSlots[s]) EXCEPT !.mShared = v]
  <2>3. u \in SlotRecord
    BY <2>1, SlotFieldsType, Zenon
  <2>4. r = [u EXCEPT !.mFrameNumber = mFrameCounter + 1]
    BY <2>2, Zenon
  <2> HIDE DEF r, u
  <2> QED
    BY <2>3, <2>4 DEF FrameTypes, SlotRecord
<1>3. slots \in [Slots -> SlotRecord]
  <2> HIDE DEF r
  <2> QED
    BY <1>2 DEF SlotTypes
<1>4. ASSUME mQueue # <<>> PROVE last.mSlot \in Slots /\ freed \in SlotRecord
  <2> HIDE DEF slots
  <2>1. last \in ItemRecord
    BY <1>4 DEF QueueTypes
  <2>2. last.mSlot \in Slots
    BY <2>1 DEF ItemRecord
  <2> QED
    BY <1>3, <2>2, SlotOpsType, UnshareType
<1>5. \/ mQueue' = Append(mQueue, item)
      \/ mQueue # <<>> /\ mQueue' = [mQueue EXCEPT ![Len(mQueue)] = item]
  BY Zenon DEF QueueBuffer
<1>6. \/ mSlots' = slots
      \/ mQueue # <<>> /\ mSlots' = [slots EXCEPT ![last.mSlot] = freed]
  BY Zenon DEF QueueBuffer
<1> HIDE DEF item, r, slots, last, freed
<1>7. QueueTypes'
  BY <1>1, <1>5 DEF QueueTypes
<1>8. SlotTypes'
  BY <1>3, <1>4, <1>6 DEF SlotTypes
<1>9. ThreadTypes'
  BY WokenType DEF QueueBuffer, ThreadTypes, PcValues
<1>10. FrameTypes' /\ SharedTypes'
  BY DEF QueueBuffer, FrameTypes, SharedTypes
<1>11. TicketTypes'
  BY DEF QueueBuffer, TakeTicket, TicketTypes, FrameTypes
<1>12. HistoryTypes'
  BY DEF QueueBuffer, HistoryTypes, historyVars
<1>13. DropHasQueue'
  BY DEF QueueBuffer, Unlocked, DropHasQueue
<1>14. UNCHANGED <<connVars, modeVars, countVars, allocVars, acquire, fault>>
  BY DEF QueueBuffer
<1> QED
  BY <1>7, <1>8, <1>9, <1>10, <1>11, <1>12, <1>13, <1>14, Kept

\* A step of a producer thread keeps the types.
LEMMA ProducerStepType ==
  ASSUME TypeInv, NEW t \in Producers, ProducerStep(t)
  PROVE  TypeInv'
<1> USE DEF TypeInv, StateTypes
<1>1. ASSUME DequeueBuffer(t)
      PROVE  TypeInv'
  <2>1. ThreadTypes'
    BY <1>1, MoveType, Zenon DEF DequeueBuffer, PcValues
  <2>2. UNCHANGED <<connVars, mSlots, mQueue, modeVars, countVars, frameVars, sharedVars,
                  allocVars, ticketVars, acquire, fault, historyVars>>
    BY <1>1 DEF DequeueBuffer
  <2> QED
    BY <2>1, <2>2, Kept
<1>2. ASSUME NEW s \in Slots, NEW ts \in Times, NEW auto \in BOOLEAN,
             QueueBuffer(t, s, ts, auto)
      PROVE  TypeInv'
  BY <1>2, QueueBufferType, Zenon
<1>3. ASSUME DequeueWaitForAllocation(t)
      PROVE  TypeInv'
  <2>1. ThreadTypes'
    BY <1>3, MoveType, Zenon DEF DequeueWaitForAllocation, PcValues
  <2>2. AllocTypes'
    BY <1>3 DEF DequeueWaitForAllocation, AllocTypes
  <2>3. UNCHANGED <<connVars, mSlots, mQueue, modeVars, countVars, frameVars, sharedVars,
                  ticketVars, acquire, fault, historyVars>>
    BY <1>3 DEF DequeueWaitForAllocation
  <2> QED
    BY <2>1, <2>2, <2>3, Kept
<1>4. ASSUME DequeueFails(t)
      PROVE  TypeInv'
  <2>1. ThreadTypes'
    BY <1>4, MoveType, Zenon DEF DequeueFails, PcValues
  <2>2. AllocTypes'
    BY <1>4, WaitingFlagType DEF DequeueFails, DequeueRuns
  <2>3. UNCHANGED <<connVars, mSlots, mQueue, modeVars, countVars, frameVars, sharedVars,
                  ticketVars, acquire, fault, historyVars>>
    BY <1>4 DEF DequeueFails
  <2> QED
    BY <2>1, <2>2, <2>3, Kept
<1>5. ASSUME DequeueBlocks(t)
      PROVE  TypeInv'
  <2>1. ThreadTypes'
    BY <1>5 DEF DequeueBlocks, ThreadTypes, PcValues
  <2>2. AllocTypes'
    BY <1>5, WaitingFlagType DEF DequeueBlocks, DequeueRuns
  <2>3. UNCHANGED <<connVars, mSlots, mQueue, modeVars, countVars, frameVars, sharedVars,
                  ticketVars, acquire, fault, historyVars>>
    BY <1>5 DEF DequeueBlocks
  <2> QED
    BY <2>1, <2>2, <2>3, Kept
<1>6. ASSUME DequeueDereferencesNull(t)
      PROVE  TypeInv'
  <2>1. AllocTypes'
    BY <1>6, WaitingFlagType DEF DequeueDereferencesNull, DequeueRuns
  <2>2. FaultTypes'
    BY <1>6 DEF DequeueDereferencesNull, FaultTypes
  <2>3. UNCHANGED <<connVars, mSlots, mQueue, modeVars, countVars, frameVars, sharedVars,
                  ticketVars, threadVars, acquire, historyVars>>
    BY <1>6 DEF DequeueDereferencesNull
  <2> QED
    BY <2>1, <2>2, <2>3, Kept
<1>7. ASSUME DequeueSharedMisfit(t)
      PROVE  TypeInv'
  <2>1. ThreadTypes'
    BY <1>7, MoveType, Zenon DEF DequeueSharedMisfit, PcValues
  <2>2. AllocTypes'
    BY <1>7, WaitingFlagType DEF DequeueSharedMisfit, DequeueRuns
  <2>3. UNCHANGED <<connVars, mSlots, mQueue, modeVars, countVars, frameVars, sharedVars,
                  ticketVars, acquire, fault, historyVars>>
    BY <1>7 DEF DequeueSharedMisfit
  <2> QED
    BY <2>1, <2>2, <2>3, Kept
<1>8. ASSUME DequeueDiscards(t)
      PROVE  TypeInv'
  <2>1. ThreadTypes'
    BY <1>8, MoveType, Zenon DEF DequeueDiscards, PcValues
  <2>2. AllocTypes'
    BY <1>8, WaitingFlagType DEF DequeueDiscards, DequeueRuns
  <2>3. SlotTypes' /\ FrameTypes'
    BY <1>8, ClearType DEF DequeueDiscards, FrameTypes
  <2>4. UNCHANGED <<connVars, mQueue, modeVars, countVars, sharedVars, ticketVars, acquire, fault,
                  historyVars>>
    BY <1>8 DEF DequeueDiscards
  <2> QED
    BY <2>1, <2>2, <2>3, <2>4, Kept
<1>9. ASSUME NEW s \in Slots, NEW misfit \in BOOLEAN, DequeueTakes(t, s, misfit)
      PROVE  TypeInv'
  <2>1. ThreadTypes'
    BY <1>9 DEF DequeueTakes, ThreadTypes, PcValues
  <2>2. dequeue(mSlots[s]) \in SlotRecord
    BY SlotOpsType DEF SlotTypes
  <2>3. \A v \in BOOLEAN : [dequeue(mSlots[s]) EXCEPT !.mNeedsReallocation = FALSE,
                                                       !.mShared = v] \in SlotRecord
    BY <2>2, Zenon DEF SlotRecord
  <2>4. \A r \in SlotRecord : [r EXCEPT !.mAcquireCalled = FALSE, !.mGraphicBuffer = NoBuffer,
                                      !.mRequestBufferCalled = FALSE] \in SlotRecord
    BY Zenon DEF SlotRecord
  <2>5. PICK r \in SlotRecord : mSlots' = [mSlots EXCEPT ![s] = r]
    BY <1>9, <2>2, <2>3, <2>4, Zenon DEF DequeueTakes
  <2>6. SlotTypes'
    BY <2>5 DEF SlotTypes
  <2>7. AllocTypes'
    <3>1. mIsAllocating' \in BOOLEAN
      BY <1>9, Zenon DEF DequeueTakes
    <3>2. mDequeueWaitingForAllocation' \in BOOLEAN
      BY <1>9, Zenon DEF DequeueTakes, DequeueRuns, WaitingForAllocationOver
    <3> QED
      BY <3>1, <3>2 DEF AllocTypes
  <2>8. SharedTypes'
    BY <1>9 DEF DequeueTakes, SharedTypes
  <2>9. HistoryTypes'
    BY <1>9 DEF DequeueTakes, HistoryTypes, Anomaly
  <2>10. UNCHANGED <<connVars, mQueue, modeVars, countVars, frameVars, ticketVars, acquire, fault>>
    BY <1>9 DEF DequeueTakes
  <2> QED
    BY <2>1, <2>6, <2>7, <2>8, <2>9, <2>10, Kept
<1>10. ASSUME WaitTimesOut(t)
       PROVE  TypeInv'
  <2>1. ThreadTypes'
    BY <1>10 DEF WaitTimesOut, ThreadTypes, PcValues
  <2>2. UNCHANGED <<connVars, mSlots, mQueue, modeVars, countVars, frameVars, sharedVars,
                  allocVars, ticketVars, acquire, fault, historyVars>>
    BY <1>10 DEF WaitTimesOut
  <2> QED
    BY <2>1, <2>2, Kept
<1>11. ASSUME NEW b \in Buffers, DequeueAllocated(t, b)
       PROVE  TypeInv'
  <2>1. ThreadTypes'
    BY <1>11 DEF DequeueAllocated, ThreadTypes, PcValues
  <2>2. SlotTypes'
    BY <1>11, SlotFieldsType, Zenon DEF DequeueAllocated, SlotTypes, ThreadTypes
  <2>3. AllocTypes'
    BY <1>11, Zenon DEF DequeueAllocated, AllocationOver, AllocTypes
  <2>4. UNCHANGED <<connVars, mQueue, modeVars, countVars, frameVars, sharedVars, ticketVars,
                  acquire, fault, historyVars>>
    BY <1>11 DEF DequeueAllocated
  <2> QED
    BY <2>1, <2>2, <2>3, <2>4, Kept
<1>12. ASSUME NEW failed \in BOOLEAN, DequeueNotAllocated(t, failed)
       PROVE  TypeInv'
  <2>1. ThreadTypes'
    BY <1>12 DEF DequeueNotAllocated, ThreadTypes, PcValues
  <2>2. SlotTypes' /\ FrameTypes'
    BY <1>12, ClearType DEF DequeueNotAllocated, FrameTypes
  <2>3. AllocTypes'
    BY <1>12, Zenon DEF DequeueNotAllocated, AllocationOver, AllocTypes
  <2>4. HistoryTypes'
    BY <1>12 DEF DequeueNotAllocated, HistoryTypes, Anomaly
  <2>5. UNCHANGED <<connVars, mQueue, modeVars, countVars, sharedVars, ticketVars, acquire, fault>>
    BY <1>12 DEF DequeueNotAllocated
  <2> QED
    BY <2>1, <2>2, <2>3, <2>4, <2>5, Kept
<1>13. ASSUME DetachNextWaits(t)
       PROVE  TypeInv'
  <2>1. ThreadTypes'
    BY <1>13, MoveType, Zenon DEF DetachNextWaits, PcValues
  <2>2. UNCHANGED <<connVars, mSlots, mQueue, modeVars, countVars, frameVars, sharedVars,
                  allocVars, ticketVars, acquire, fault, historyVars>>
    BY <1>13 DEF DetachNextWaits
  <2> QED
    BY <2>1, <2>2, Kept
<1>14. ASSUME detachNextBuffer(t)
       PROVE  TypeInv'
  <2>1. ThreadTypes'
    BY <1>14, MoveType, Zenon DEF detachNextBuffer, PcValues
  <2>2. SlotTypes' /\ FrameTypes'
    <3>1. CASE mFreeBuffers = <<>>
      BY <1>14, <3>1 DEF detachNextBuffer, SlotTypes, FrameTypes
    <3>2. CASE mFreeBuffers # <<>>
      BY <1>14, <3>2, ClearType DEF detachNextBuffer, FrameTypes
    <3> QED
      BY <3>1, <3>2
  <2>3. UNCHANGED <<connVars, mQueue, modeVars, countVars, sharedVars, allocVars, ticketVars,
                  acquire, fault, historyVars>>
    BY <1>14 DEF detachNextBuffer
  <2> QED
    BY <2>1, <2>2, <2>3, Kept
<1>15. ASSUME AttachWaitsForAllocation(t)
       PROVE  TypeInv'
  <2>1. ThreadTypes'
    BY <1>15, MoveType, Zenon DEF AttachWaitsForAllocation, PcValues
  <2>2. UNCHANGED <<connVars, mSlots, mQueue, modeVars, countVars, frameVars, sharedVars,
                  allocVars, ticketVars, acquire, fault, historyVars>>
    BY <1>15 DEF AttachWaitsForAllocation
  <2> QED
    BY <2>1, <2>2, Kept
<1>16. ASSUME AttachFails(t)
       PROVE  TypeInv'
  <2>1. ThreadTypes'
    BY <1>16, MoveType, Zenon DEF AttachFails, PcValues
  <2>2. UNCHANGED <<connVars, mSlots, mQueue, modeVars, countVars, frameVars, sharedVars,
                  allocVars, ticketVars, acquire, fault, historyVars>>
    BY <1>16 DEF AttachFails
  <2> QED
    BY <2>1, <2>2, Kept
<1>17. ASSUME AttachBlocks(t)
       PROVE  TypeInv'
  <2>1. ThreadTypes'
    BY <1>17 DEF AttachBlocks, ThreadTypes, PcValues
  <2>2. UNCHANGED <<connVars, mSlots, mQueue, modeVars, countVars, frameVars, sharedVars,
                  allocVars, ticketVars, acquire, fault, historyVars>>
    BY <1>17 DEF AttachBlocks
  <2> QED
    BY <2>1, <2>2, Kept
<1>18. ASSUME NEW s \in Slots, NEW b \in Buffers, AttachTakes(t, s, b)
       PROVE  TypeInv'
  <2>1. ThreadTypes'
    BY <1>18, MoveType, Zenon DEF AttachTakes, PcValues
  <2>2. dequeue(mSlots[s]) \in SlotRecord
    BY SlotOpsType DEF SlotTypes
  <2>3. SlotTypes'
    BY <1>18, <2>2, Zenon DEF AttachTakes, SlotTypes, SlotRecord
  <2>4. UNCHANGED <<connVars, mQueue, modeVars, countVars, frameVars, sharedVars, allocVars,
                  ticketVars, acquire, fault, historyVars>>
    BY <1>18 DEF AttachTakes
  <2> QED
    BY <2>1, <2>3, <2>4, Kept
<1>19. ASSUME QueueCallback(t)
       PROVE  TypeInv'
  <2>1. ThreadTypes'
    BY <1>19, MoveType, Zenon DEF QueueCallback, PcValues
  <2>2. TicketTypes'
    BY <1>19 DEF QueueCallback, TicketTypes
  <2>3. UNCHANGED <<connVars, mSlots, mQueue, modeVars, countVars, frameVars, sharedVars,
                  allocVars, acquire, fault, historyVars>>
    BY <1>19 DEF QueueCallback
  <2> QED
    BY <2>1, <2>2, <2>3, Kept
<1>20. ASSUME AllocateStart(t)
       PROVE  TypeInv'
  <2>1. ThreadTypes'
    BY <1>20 DEF AllocateStart, ThreadTypes, PcValues
  <2>2. AllocTypes'
    BY <1>20, Zenon DEF AllocateStart, AllocTypes
  <2>3. UNCHANGED <<connVars, mSlots, mQueue, modeVars, countVars, frameVars, sharedVars,
                  ticketVars, acquire, fault, historyVars>>
    BY <1>20 DEF AllocateStart
  <2> QED
    BY <2>1, <2>2, <2>3, Kept
<1>21. ASSUME NEW b \in Buffers, AllocateDone(t, b)
       PROVE  TypeInv'
  <2>1. ThreadTypes'
    BY <1>21, MoveType, Zenon DEF AllocateDone, PcValues
  <2>2. AllocTypes'
    BY <1>21, Zenon DEF AllocateDone, AllocationOver, AllocTypes
  <2>3. [ClearedSlot EXCEPT !.mGraphicBuffer = b] \in SlotRecord
    BY ClearedSlotType, SlotFieldsType, Zenon
  <2>4. SlotTypes' /\ FrameTypes'
    BY <1>21, <2>3, Zenon DEF AllocateDone, SlotTypes, FrameTypes
  <2>5. UNCHANGED <<connVars, mQueue, modeVars, countVars, sharedVars, ticketVars, acquire, fault,
                  historyVars>>
    BY <1>21 DEF AllocateDone
  <2> QED
    BY <2>1, <2>2, <2>4, <2>5, Kept
<1>22. ASSUME NEW failed \in BOOLEAN, AllocateRetries(t, failed)
       PROVE  TypeInv'
  <2>1. ThreadTypes'
    BY <1>22 DEF AllocateRetries, ThreadTypes, PcValues
  <2>2. AllocTypes'
    BY <1>22, Zenon DEF AllocateRetries, AllocationOver, AllocTypes
  <2>3. UNCHANGED <<connVars, mSlots, mQueue, modeVars, countVars, frameVars, sharedVars,
                  ticketVars, acquire, fault, historyVars>>
    BY <1>22 DEF AllocateRetries
  <2> QED
    BY <2>1, <2>2, <2>3, Kept
<1>23. ASSUME AllocateYields(t)
       PROVE  TypeInv'
  <2>1. ThreadTypes'
    BY <1>23, MoveType, Zenon DEF AllocateYields, PcValues
  <2>2. UNCHANGED <<connVars, mSlots, mQueue, modeVars, countVars, frameVars, sharedVars,
                  allocVars, ticketVars, acquire, fault, historyVars>>
    BY <1>23 DEF AllocateYields
  <2> QED
    BY <2>1, <2>2, Kept
<1> HIDE DEF TypeInv
<1> QED
  BY <1>1, <1>2, <1>3, <1>4, <1>5, <1>6, <1>7, <1>8, <1>9, <1>10, <1>11, <1>12, <1>13, <1>14,
     <1>15, <1>16, <1>17, <1>18, <1>19, <1>20, <1>21, <1>22, <1>23,
     BoundsAssumption, FlagsAssumption, Zenon
  DEF ProducerStep, DequeueStep, AutoTimestamps

\* The other calls of the producer interface keep the types.
LEMMA ProducerControlType ==
  ASSUME TypeInv, ProducerControl
  PROVE  TypeInv'
<1> USE DEF TypeInv, StateTypes
<1>1. ASSUME NEW s \in Slots, requestBuffer(s)
      PROVE  TypeInv'
  <2>1. SlotTypes'
    BY <1>1, SlotFieldsType, Zenon DEF requestBuffer, SlotTypes
  <2>2. UNCHANGED <<connVars, mQueue, modeVars, countVars, frameVars, sharedVars, allocVars,
                  ticketVars, threadVars, acquire, fault, historyVars>>
    BY <1>1 DEF requestBuffer
  <2> QED
    BY <2>1, <2>2, Kept
<1>2. ASSUME NEW s \in Slots, cancelBuffer(s)
      PROVE  TypeInv'
  <2>1. ThreadTypes'
    BY <1>2, NotifyType DEF cancelBuffer
  <2>2. SlotTypes'
    BY <1>2, SlotOpsType, UnshareType DEF cancelBuffer, SlotTypes
  <2>3. UNCHANGED <<connVars, mQueue, modeVars, countVars, frameVars, sharedVars, allocVars,
                  ticketVars, acquire, fault, historyVars>>
    BY <1>2 DEF cancelBuffer
  <2> QED
    BY <2>1, <2>2, <2>3, Kept
<1>3. ASSUME NEW s \in Slots, QueueBadCrop(s)
      PROVE  TypeInv'
  <2>1. SlotTypes'
    BY <1>3, SlotFieldsType, Zenon DEF QueueBadCrop, SlotTypes
  <2>2. SharedTypes'
    BY <1>3 DEF QueueBadCrop, SharedTypes
  <2>3. UNCHANGED <<connVars, mQueue, modeVars, countVars, frameVars, allocVars, ticketVars,
                  threadVars, acquire, fault, historyVars>>
    BY <1>3 DEF QueueBadCrop
  <2> QED
    BY <2>1, <2>2, <2>3, Kept
<1>4. ASSUME NEW s \in Slots, ProducerDetachBuffer(s)
      PROVE  TypeInv'
  <2>1. DetachSlot(s)
    BY <1>4 DEF ProducerDetachBuffer
  <2>2. ThreadTypes'
    BY <2>1, NotifyType DEF DetachSlot
  <2>3. SlotTypes' /\ FrameTypes'
    BY <2>1, ClearType DEF DetachSlot, FrameTypes
  <2>4. HistoryTypes'
    BY <2>1 DEF DetachSlot, HistoryTypes, Anomaly
  <2>5. UNCHANGED <<connVars, mQueue, modeVars, countVars, sharedVars, allocVars, ticketVars,
                  acquire, fault>>
    BY <2>1 DEF DetachSlot
  <2> QED
    BY <2>2, <2>3, <2>4, <2>5, Kept
<1>5. ASSUME NEW api \in Apis \cup {NoApi}, NEW byApp \in BOOLEAN, Connect(api, byApp)
      PROVE  TypeInv'
  <2>1. SlotTypes' /\ FrameTypes'
    BY <1>5, AdjustType, Zenon DEF Connect, FrameTypes
  <2>2. ConnTypes'
    BY <1>5 DEF Connect, ConnTypes
  <2>3. ModeTypes'
    <3>1. mDequeueBufferCannotBlock' \in BOOLEAN /\ mQueueBufferCanDrop' \in BOOLEAN
      BY <1>5, Zenon DEF Connect
    <3>2. mLegacyBufferDrop' = TRUE /\ mAllowAllocation' = TRUE /\ UNCHANGED <<mAsyncMode, mDequeueTimeout>>
      BY <1>5, Zenon DEF Connect
    <3> QED
      BY <3>1, <3>2 DEF ModeTypes
  <2>4. UNCHANGED <<mQueue, countVars, sharedVars, allocVars, ticketVars, threadVars, acquire,
                  fault, historyVars>>
    BY <1>5 DEF Connect
  <2> QED
    BY <2>1, <2>2, <2>3, <2>4, Kept
<1>6. ASSUME Disconnect
      PROVE  TypeInv'
  <2>1. ThreadTypes'
    BY <1>6, NotifyType DEF Disconnect
  <2>2. SlotTypes' /\ FrameTypes'
    BY <1>6, ClearType DEF Disconnect, freeAllBuffers, FrameTypes
  <2>3. ConnTypes' /\ SharedTypes'
    BY <1>6 DEF Disconnect, ConnTypes, SharedTypes
  <2>4. QueueTypes'
    BY <1>6, StaleType DEF Disconnect, QueueTypes
  <2>5. DropHasQueue'
    BY <1>6 DEF Disconnect, Unlocked, DropHasQueue
  <2>6. UNCHANGED <<modeVars, countVars, allocVars, ticketVars, acquire, fault, historyVars>>
    BY <1>6 DEF Disconnect
  <2> QED
    BY <2>1, <2>2, <2>3, <2>4, <2>5, <2>6, Kept
<1>7. ASSUME NEW n \in Nat, setMaxDequeuedBufferCount(n)
      PROVE  TypeInv'
  <2>1. SlotTypes' /\ FrameTypes'
    BY <1>7, AdjustType DEF setMaxDequeuedBufferCount, FrameTypes
  <2>2. ThreadTypes'
    BY <1>7, NotifyType DEF setMaxDequeuedBufferCount
  <2>3. CountTypes'
    BY <1>7 DEF setMaxDequeuedBufferCount, CountTypes
  <2>4. HistoryTypes'
    BY <1>7 DEF setMaxDequeuedBufferCount, HistoryTypes, Anomaly
  <2>5. UNCHANGED <<connVars, mQueue, modeVars, sharedVars, allocVars, ticketVars, acquire, fault>>
    BY <1>7 DEF setMaxDequeuedBufferCount
  <2> QED
    BY <2>1, <2>2, <2>3, <2>4, <2>5, Kept
<1>8. ASSUME NEW async \in BOOLEAN, setAsyncMode(async)
      PROVE  TypeInv'
  <2>1. SlotTypes' /\ FrameTypes'
    BY <1>8, AdjustType DEF setAsyncMode, FrameTypes
  <2>2. ThreadTypes'
    BY <1>8, NotifyType DEF setAsyncMode
  <2>3. ModeTypes'
    BY <1>8 DEF setAsyncMode, ModeTypes
  <2>4. UNCHANGED <<connVars, mQueue, countVars, sharedVars, allocVars, ticketVars, acquire,
                  fault, historyVars>>
    BY <1>8 DEF setAsyncMode
  <2> QED
    BY <2>1, <2>2, <2>3, <2>4, Kept
<1>9. ASSUME NEW timeout \in Int, setDequeueTimeout(timeout)
      PROVE  TypeInv'
  <2>1. SlotTypes' /\ FrameTypes'
    BY <1>9, AdjustType DEF setDequeueTimeout, FrameTypes
  <2>2. ModeTypes'
    <3>1. mDequeueBufferCannotBlock' \in BOOLEAN /\ mQueueBufferCanDrop' \in BOOLEAN
      BY <1>9, Zenon DEF setDequeueTimeout
    <3>2. mDequeueTimeout' = timeout /\ UNCHANGED <<mAsyncMode, mLegacyBufferDrop, mAllowAllocation>>
      BY <1>9, Zenon DEF setDequeueTimeout
    <3> QED
      BY <3>1, <3>2 DEF ModeTypes
  <2>3. UNCHANGED <<connVars, mQueue, countVars, sharedVars, allocVars, ticketVars, threadVars,
                  acquire, fault, historyVars>>
    BY <1>9 DEF setDequeueTimeout
  <2> QED
    BY <2>1, <2>2, <2>3, Kept
<1>10. ASSUME NEW allow \in BOOLEAN, allowAllocation(allow)
       PROVE  TypeInv'
  <2>1. ModeTypes'
    BY <1>10 DEF allowAllocation, ModeTypes
  <2>2. UNCHANGED <<connVars, mSlots, mQueue, countVars, frameVars, sharedVars, allocVars,
                  ticketVars, threadVars, acquire, fault, historyVars>>
    BY <1>10 DEF allowAllocation
  <2> QED
    BY <2>1, <2>2, Kept
<1>11. ASSUME NEW drop \in BOOLEAN, setLegacyBufferDrop(drop)
       PROVE  TypeInv'
  <2>1. ModeTypes'
    BY <1>11 DEF setLegacyBufferDrop, ModeTypes
  <2>2. UNCHANGED <<connVars, mSlots, mQueue, countVars, frameVars, sharedVars, allocVars,
                  ticketVars, threadVars, acquire, fault, historyVars>>
    BY <1>11 DEF setLegacyBufferDrop
  <2> QED
    BY <2>1, <2>2, Kept
<1>12. ASSUME NEW mode \in BOOLEAN, setSharedBufferMode(mode)
       PROVE  TypeInv'
  <2>1. HistoryTypes'
    BY <1>12 DEF setSharedBufferMode, HistoryTypes, Anomaly
  <2>2. SharedTypes'
    BY <1>12 DEF setSharedBufferMode, SharedTypes
  <2>3. UNCHANGED <<connVars, mSlots, mQueue, modeVars, countVars, frameVars, allocVars,
                  ticketVars, threadVars, acquire, fault>>
    BY <1>12 DEF setSharedBufferMode
  <2> QED
    BY <2>1, <2>2, <2>3, Kept
<1>13. ASSUME NEW auto \in BOOLEAN, setAutoRefresh(auto)
       PROVE  TypeInv'
  <2>1. SharedTypes'
    BY <1>13 DEF setAutoRefresh, SharedTypes
  <2>2. UNCHANGED <<connVars, mSlots, mQueue, modeVars, countVars, frameVars, allocVars,
                  ticketVars, threadVars, acquire, fault, historyVars>>
    BY <1>13 DEF setAutoRefresh
  <2> QED
    BY <2>1, <2>2, Kept
<1> HIDE DEF TypeInv
<1> QED
  BY <1>1, <1>2, <1>3, <1>4, <1>5, <1>6, <1>7, <1>8, <1>9, <1>10, <1>11, <1>12, <1>13,
     BoundsAssumption, FlagsAssumption
  DEF ProducerControl, Args

\* The calls of the consumer interface keep the types.
LEMMA ConsumerCallType ==
  ASSUME TypeInv, ConsumerCall
  PROVE  TypeInv'
<1> USE DEF TypeInv, StateTypes
<1>1. ASSUME AcquireBuffer
      PROVE  TypeInv'
  <2>1. mQueue # <<>> /\ TakeFront
    BY <1>1 DEF AcquireBuffer, DropHasQueue
  <2> QED
    BY <2>1, TakeFrontType, Zenon
<1>2. ASSUME NEW ep \in Nat, NEW mf \in Nat, AcquireWithTime(ep, mf)
      PROVE  TypeInv'
  <2>1. AcquireTypes' /\ DropHasQueue'
    BY <1>2 DEF AcquireWithTime, AcquireTypes, DropHasQueue
  <2>2. UNCHANGED <<connVars, mSlots, mQueue, modeVars, countVars, frameVars, sharedVars,
                  allocVars, ticketVars, threadVars, fault, historyVars>>
    BY <1>2 DEF AcquireWithTime
  <2> QED
    BY <2>1, <2>2, Kept
<1>3. ASSUME AcquireDrops
      PROVE  TypeInv'
  <2>1. Len(mQueue) > 1
    BY <1>3, Zenon DEF AcquireDrops, CanDropFront
  <2>2. mQueue[1] \in ItemRecord
    BY <2>1 DEF QueueTypes
  <2>3. mQueue[1].mSlot \in Slots
    BY <2>2 DEF ItemRecord
  <2>4. Unshare(freeQueued(mSlots[mQueue[1].mSlot])) \in SlotRecord
    BY <2>3, SlotOpsType, UnshareType DEF SlotTypes
  <2>5. \/ UNCHANGED mSlots
       \/ mSlots' = [mSlots EXCEPT ![mQueue[1].mSlot] = Unshare(freeQueued(mSlots[mQueue[1].mSlot]))]
    BY <1>3, Zenon DEF AcquireDrops
  <2>6. SlotTypes'
    BY <2>3, <2>4, <2>5 DEF SlotTypes
  <2>7. mQueue' = Tail(mQueue)
    BY <1>3 DEF AcquireDrops
  <2>8. QueueTypes' /\ DropHasQueue'
    BY <2>1, <2>7 DEF QueueTypes, DropHasQueue
  <2>9. AcquireTypes'
    BY <1>3, Zenon DEF AcquireDrops, AcquireTypes
  <2>10. UNCHANGED <<connVars, modeVars, countVars, frameVars, sharedVars, allocVars, ticketVars,
                  threadVars, fault, historyVars>>
    BY <1>3 DEF AcquireDrops
  <2> QED
    BY <2>6, <2>8, <2>9, <2>10, Kept
<1>4. ASSUME AcquireOnTime
      PROVE  TypeInv'
  <2>1. mQueue # <<>> /\ TakeFront
    BY <1>4 DEF AcquireOnTime, DropHasQueue
  <2> QED
    BY <2>1, TakeFrontType, Zenon
<1>5. ASSUME AcquireLater
      PROVE  TypeInv'
  <2>1. AcquireTypes' /\ DropHasQueue'
    BY <1>5 DEF AcquireLater, IdleAcquire, AcquireTypes, DropHasQueue
  <2>2. UNCHANGED <<connVars, mSlots, mQueue, modeVars, countVars, frameVars, sharedVars,
                  allocVars, ticketVars, threadVars, fault, historyVars>>
    BY <1>5 DEF AcquireLater
  <2> QED
    BY <2>1, <2>2, Kept
<1>6. ASSUME AcquireSharedWaits
      PROVE  TypeInv'
  <2>1. AcquireTypes' /\ DropHasQueue'
    BY <1>6, Zenon DEF AcquireSharedWaits, IdleAcquire, AcquireTypes, DropHasQueue
  <2>2. UNCHANGED <<connVars, mSlots, mQueue, modeVars, countVars, frameVars, sharedVars,
                  allocVars, ticketVars, threadVars, fault, historyVars>>
    BY <1>6 DEF AcquireSharedWaits
  <2> QED
    BY <2>1, <2>2, Kept
<1>7. ASSUME AcquireShared
      PROVE  TypeInv'
  <2>1. ThreadTypes'
    BY <1>7, NotifyType DEF AcquireShared
  <2>2. mSharedBufferSlot \in Slots
    BY <1>7 DEF AcquireShared, SharedTypes
  <2>3. acquireNotInQueue(mSlots[mSharedBufferSlot]) \in SlotRecord
    BY <2>2, SlotOpsType DEF SlotTypes
  <2>4. SlotTypes'
    BY <1>7, <2>2, <2>3, SlotFieldsType, Zenon DEF AcquireShared, SlotTypes
  <2>5. AcquireTypes' /\ DropHasQueue'
    BY <1>7 DEF AcquireShared, IdleAcquire, AcquireTypes, DropHasQueue
  <2>6. UNCHANGED <<connVars, mQueue, modeVars, countVars, frameVars, sharedVars, allocVars,
                  ticketVars, fault, historyVars>>
    BY <1>7 DEF AcquireShared
  <2> QED
    BY <2>1, <2>4, <2>5, <2>6, Kept
<1>8. ASSUME AcquireSharedStale
      PROVE  TypeInv'
  <2>1. FaultTypes'
    BY <1>8 DEF AcquireSharedStale, FaultTypes
  <2>2. UNCHANGED <<connVars, mSlots, mQueue, modeVars, countVars, frameVars, sharedVars,
                  allocVars, ticketVars, threadVars, acquire, historyVars>>
    BY <1>8 DEF AcquireSharedStale
  <2> QED
    BY <2>1, <2>2, Kept
<1>9. ASSUME NEW s \in Slots, NEW frame \in Nat, releaseBuffer(s, frame)
      PROVE  TypeInv'
  <2>1. ThreadTypes'
    BY <1>9, NotifyType DEF releaseBuffer
  <2>2. SlotTypes'
    BY <1>9, SlotOpsType, UnshareType DEF releaseBuffer, SlotTypes
  <2>3. UNCHANGED <<connVars, mQueue, modeVars, countVars, frameVars, sharedVars, allocVars,
                  ticketVars, acquire, fault, historyVars>>
    BY <1>9 DEF releaseBuffer
  <2> QED
    BY <2>1, <2>2, <2>3, Kept
<1>10. ASSUME NEW s \in Slots, ConsumerDetachBuffer(s)
       PROVE  TypeInv'
  <2>1. DetachSlot(s)
    BY <1>10 DEF ConsumerDetachBuffer
  <2>2. ThreadTypes'
    BY <2>1, NotifyType DEF DetachSlot
  <2>3. SlotTypes' /\ FrameTypes'
    BY <2>1, ClearType DEF DetachSlot, FrameTypes
  <2>4. HistoryTypes'
    BY <2>1 DEF DetachSlot, HistoryTypes, Anomaly
  <2>5. UNCHANGED <<connVars, mQueue, modeVars, countVars, sharedVars, allocVars, ticketVars,
                  acquire, fault>>
    BY <2>1 DEF DetachSlot
  <2> QED
    BY <2>2, <2>3, <2>4, <2>5, Kept
<1>11. ASSUME NEW s \in Slots, NEW b \in Buffers, ConsumerAttachBuffer(s, b)
       PROVE  TypeInv'
  <2>1. acquireNotInQueue(mSlots[s]) \in SlotRecord
    BY SlotOpsType DEF SlotTypes
  <2>2. SlotTypes'
    BY <1>11, <2>1, Zenon DEF ConsumerAttachBuffer, SlotTypes, SlotRecord
  <2>3. UNCHANGED <<connVars, mQueue, modeVars, countVars, frameVars, sharedVars, allocVars,
                  ticketVars, threadVars, acquire, fault, historyVars>>
    BY <1>11 DEF ConsumerAttachBuffer
  <2> QED
    BY <2>2, <2>3, Kept
<1>12. ASSUME NEW byApp \in BOOLEAN, ConsumerConnect(byApp)
       PROVE  TypeInv'
  <2>1. ConnTypes'
    BY <1>12 DEF ConsumerConnect, ConnTypes
  <2>2. UNCHANGED <<mSlots, mQueue, modeVars, countVars, frameVars, sharedVars, allocVars,
                  ticketVars, threadVars, acquire, fault, historyVars>>
    BY <1>12 DEF ConsumerConnect
  <2> QED
    BY <2>1, <2>2, Kept
<1>13. ASSUME ConsumerDisconnect
       PROVE  TypeInv'
  <2>1. ThreadTypes'
    BY <1>13, NotifyType DEF ConsumerDisconnect
  <2>2. SlotTypes' /\ FrameTypes'
    BY <1>13, ClearType DEF ConsumerDisconnect, freeAllBuffers, FrameTypes
  <2>3. ConnTypes' /\ SharedTypes'
    BY <1>13, Zenon DEF ConsumerDisconnect, ConnTypes, SharedTypes
  <2>4. QueueTypes'
    BY <1>13 DEF ConsumerDisconnect, QueueTypes
  <2>5. DropHasQueue'
    BY <1>13 DEF ConsumerDisconnect, Unlocked, DropHasQueue
  <2>6. UNCHANGED <<modeVars, countVars, allocVars, ticketVars, acquire, fault, historyVars>>
    BY <1>13 DEF ConsumerDisconnect
  <2> QED
    BY <2>1, <2>2, <2>3, <2>4, <2>5, <2>6, Kept
<1>14. ASSUME NEW n \in Nat, setMaxBufferCount(n)
       PROVE  TypeInv'
  <2>1. SlotTypes' /\ FrameTypes'
    BY <1>14, AdjustType DEF setMaxBufferCount, FrameTypes
  <2>2. CountTypes'
    BY <1>14 DEF setMaxBufferCount, CountTypes
  <2>3. UNCHANGED <<connVars, mQueue, modeVars, sharedVars, allocVars, ticketVars, threadVars,
                  acquire, fault, historyVars>>
    BY <1>14 DEF setMaxBufferCount
  <2> QED
    BY <2>1, <2>2, <2>3, Kept
<1>15. ASSUME NEW n \in Nat, setMaxAcquiredBufferCount(n)
       PROVE  TypeInv'
  <2>1. SlotTypes' /\ FrameTypes'
    BY <1>15, AdjustType DEF setMaxAcquiredBufferCount, FrameTypes
  <2>2. CountTypes'
    BY <1>15 DEF setMaxAcquiredBufferCount, CountTypes
  <2>3. HistoryTypes'
    BY <1>15 DEF setMaxAcquiredBufferCount, HistoryTypes, Anomaly
  <2>4. UNCHANGED <<connVars, mQueue, modeVars, sharedVars, allocVars, ticketVars, threadVars,
                  acquire, fault>>
    BY <1>15 DEF setMaxAcquiredBufferCount
  <2> QED
    BY <2>1, <2>2, <2>3, <2>4, Kept
<1>16. ASSUME discardFreeBuffers
       PROVE  TypeInv'
  <2>1. SlotTypes' /\ FrameTypes'
    BY <1>16, ClearType DEF discardFreeBuffers, FrameTypes
  <2>2. UNCHANGED <<connVars, mQueue, modeVars, countVars, sharedVars, allocVars, ticketVars,
                  threadVars, acquire, fault, historyVars>>
    BY <1>16 DEF discardFreeBuffers
  <2> QED
    BY <2>1, <2>2, Kept
<1> HIDE DEF TypeInv
<1> QED
  BY <1>1, <1>2, <1>3, <1>4, <1>5, <1>6, <1>7, <1>8, <1>9, <1>10, <1>11, <1>12, <1>13, <1>14,
     <1>15, <1>16,
     BoundsAssumption, FlagsAssumption
  DEF ConsumerCall, Args

\* The types hold at first.
LEMMA TypeInit == Init => TypeInv
<1> SUFFICES ASSUME Init PROVE TypeInv
  OBVIOUS
<1>1. NewSlot \in SlotRecord
  BY ClearedSlotType, SlotFieldsType, Zenon DEF NewSlot
<1>2. SlotTypes /\ QueueTypes
  BY <1>1 DEF Init, SlotTypes, QueueTypes
<1>3. FrameTypes
  BY Zenon DEF Init, FrameTypes
<1>4. CountTypes
  <2>1. NUM_BUFFER_SLOTS \in Nat
    BY SlotsAssumption, FS_CardinalityType DEF NUM_BUFFER_SLOTS
  <2> QED
    BY <2>1 DEF Init, CountTypes
<1>5. TicketTypes /\ ThreadTypes /\ HistoryTypes
  BY DEF Init, TicketTypes, ThreadTypes, PcValues, HistoryTypes, Anomaly
<1>6. AcquireTypes /\ DropHasQueue
  BY DEF Init, IdleAcquire, AcquireTypes, DropHasQueue
<1>7. ConnTypes /\ AllocTypes /\ FaultTypes
  BY Zenon DEF Init, ConnTypes, AllocTypes, FaultTypes
<1>8. SharedTypes
  BY Zenon DEF Init, SharedTypes
<1>9. ModeTypes
  <2>1. mDequeueTimeout = -1 /\ -1 \in Int
    BY DEF Init
  <2>2. /\ mAsyncMode = FALSE /\ mDequeueBufferCannotBlock = FALSE /\ mQueueBufferCanDrop = FALSE
        /\ mLegacyBufferDrop = TRUE /\ mAllowAllocation = TRUE
    BY Zenon DEF Init
  <2> QED
    BY <2>1, <2>2, Zenon DEF ModeTypes
<1> QED
  BY <1>2, <1>3, <1>4, <1>5, <1>6, <1>7, <1>8, <1>9 DEF TypeInv, StateTypes

\* Every step keeps the types.
LEMMA TypeStep == TypeInv /\ [Next]_vars => TypeInv'
<1> SUFFICES ASSUME TypeInv, [Next]_vars PROVE TypeInv'
  OBVIOUS
<1>1. CASE UNCHANGED vars
  BY <1>1, Kept DEF vars, TypeInv, StateTypes
<1>2. CASE Next
  BY <1>1, <1>2, ProducerStepType, ProducerControlType, ConsumerCallType DEF Next, Crashed
<1> QED
  BY <1>1, <1>2

\* Every variable of the BufferQueue but the four lists keeps its type in every
\* behaviour: in particular no counter of a BufferState goes below zero, every
\* item of the FIFO names a slot, and acquireBuffer looks at the front of the
\* FIFO only while it has one.
THEOREM TypesKept == Spec => [](StateTypes /\ DropHasQueue)
<1>1. Spec => []TypeInv
  BY TypeInit, TypeStep, PTL DEF Spec
<1> QED
  BY <1>1, PTL DEF TypeInv

=============================================================================
