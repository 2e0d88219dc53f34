----------------------- MODULE BufferQueueAllocProofs -----------------------
(***************************************************************************)
(* mIsAllocating is the lock of the allocations outside the mutex, for     *)
(* every number of slots, buffers and threads, and every set of calls.     *)
(***************************************************************************)
EXTENDS BufferQueueTypes

Allocates(t) == pc[t] \in {"dqAlloc", "abAlloc"}

\* A step that starts and ends no allocation.
NoAllocation ==
  /\ UNCHANGED mIsAllocating
  /\ \A t \in Producers : Allocates(t)' <=> Allocates(t)

\* A thread that does not allocate moves to where it does not either.
LEMMA MoveAllocatesNothing ==
  ASSUME ThreadTypes, NEW t \in Producers, ~Allocates(t),
         NEW place, place \notin {"dqAlloc", "abAlloc"}, pc' = [pc EXCEPT ![t] = place],
         UNCHANGED mIsAllocating
  PROVE  NoAllocation
  BY DEF ThreadTypes, NoAllocation, Allocates

\* notify_all wakes no thread that allocates.
LEMMA NotifyAllocatesNothing ==
  ThreadTypes /\ NotifyDequeue /\ UNCHANGED mIsAllocating => NoAllocation
  BY DEF ThreadTypes, NotifyDequeue, Woken, NoAllocation, Allocates

\* Threads that stay where they are.
LEMMA StillAllocatesNothing == UNCHANGED <<pc, mIsAllocating>> => NoAllocation
  BY DEF NoAllocation, Allocates

\* Of the steps of a thread, those of an allocation: the slot found needs a
\* buffer, a round of allocateBuffers starts, or either ends.
AllocationStep(t) ==
  \/ \E s \in Slots, misfit \in BOOLEAN : DequeueTakes(t, s, misfit)
  \/ AllocateStart(t)
  \/ \E b \in Buffers : DequeueAllocated(t, b) \/ AllocateDone(t, b)
  \/ \E failed \in BOOLEAN : DequeueNotAllocated(t, failed) \/ AllocateRetries(t, failed)

\* No other step of a thread has to do with an allocation.
LEMMA ProducerStepAllocates ==
  ASSUME TypeInv, NEW t \in Producers, ProducerStep(t)
  PROVE  NoAllocation \/ AllocationStep(t)
<1>0. ThreadTypes
  BY DEF TypeInv, StateTypes
<1> USE DEF allocVars
<1>1. ASSUME DequeueFails(t) \/ DequeueBlocks(t) \/ DequeueSharedMisfit(t) \/ DequeueDiscards(t)
      PROVE  NoAllocation
  BY <1>0, <1>1, MoveAllocatesNothing, Zenon
  DEF DequeueFails, DequeueBlocks, DequeueSharedMisfit, DequeueDiscards, DequeueRuns,
      InWaitForFreeSlot, Allocates
<1>2. ASSUME DequeueDereferencesNull(t) PROVE NoAllocation
  BY <1>2, StillAllocatesNothing DEF DequeueDereferencesNull, threadVars
<1>3. ASSUME DequeueBuffer(t) \/ DequeueWaitForAllocation(t) \/ WaitTimesOut(t)
      PROVE  NoAllocation
  BY <1>0, <1>3, MoveAllocatesNothing, Zenon
  DEF DequeueBuffer, DequeueWaitForAllocation, WaitTimesOut, Allocates
<1>4. ASSUME DetachNextWaits(t) \/ detachNextBuffer(t)
      PROVE  NoAllocation
  BY <1>0, <1>4, MoveAllocatesNothing
  DEF DetachNextWaits, detachNextBuffer, DetachNextAccepted, Allocates
<1>5. ASSUME \/ AttachWaitsForAllocation(t) \/ AttachFails(t) \/ AttachBlocks(t)
             \/ \E s \in Slots, b \in Buffers : AttachTakes(t, s, b)
      PROVE  NoAllocation
  BY <1>0, <1>5, MoveAllocatesNothing, Zenon
  DEF AttachWaitsForAllocation, AttachFails, AttachBlocks, AttachTakes, AttachRuns,
      AttachAccepted, Allocates
<1>6. ASSUME AllocateYields(t) \/ QueueCallback(t) PROVE NoAllocation
  BY <1>0, <1>6, MoveAllocatesNothing DEF AllocateYields, QueueCallback, Allocates
<1>7. ASSUME NEW s \in Slots, NEW ts, NEW auto, QueueBuffer(t, s, ts, auto)
      PROVE  NoAllocation
  BY <1>0, <1>7 DEF QueueBuffer, Woken, ThreadTypes, NoAllocation, Allocates
<1> QED
  BY <1>1, <1>2, <1>3, <1>4, <1>5, <1>6, <1>7, FlagsAssumption, Zenon
  DEF ProducerStep, DequeueStep, AllocationStep

\* Nor has a call that is one critical section.
LEMMA CallAllocates ==
  ASSUME TypeInv, ProducerControl \/ ConsumerCall \/ UNCHANGED vars
  PROVE  NoAllocation /\ anomalies \subseteq anomalies'
<1>0. ThreadTypes
  BY DEF TypeInv, StateTypes
<1> USE DEF allocVars, threadVars, historyVars
<1>1. ASSUME ProducerControl
      PROVE  /\ UNCHANGED mIsAllocating
             /\ NotifyDequeue \/ UNCHANGED pc
             /\ anomalies \subseteq anomalies'
  BY <1>1, Zenon
  DEF ProducerControl, requestBuffer, cancelBuffer, QueueBadCrop, ProducerDetachBuffer,
      DetachSlot, Connect, Disconnect, setMaxDequeuedBufferCount, setAsyncMode,
      setDequeueTimeout, allowAllocation, setLegacyBufferDrop, setSharedBufferMode,
      setAutoRefresh
<1>2. ASSUME ConsumerCall
      PROVE  /\ UNCHANGED mIsAllocating
             /\ NotifyDequeue \/ UNCHANGED pc
             /\ anomalies \subseteq anomalies'
  BY <1>2, Zenon
  DEF ConsumerCall, AcquireBuffer, AcquireWithTime, AcquireDrops, AcquireOnTime, AcquireLater,
      AcquireSharedWaits, AcquireShared, AcquireSharedStale, TakeFront, releaseBuffer,
      ConsumerDetachBuffer, DetachSlot, ConsumerAttachBuffer, ConsumerConnect,
      ConsumerDisconnect, setMaxBufferCount, setMaxAcquiredBufferCount, discardFreeBuffers
<1>3. ASSUME UNCHANGED vars
      PROVE  UNCHANGED <<mIsAllocating, pc, anomalies>>
  BY <1>3 DEF vars
<1> QED
  BY <1>0, <1>1, <1>2, <1>3, NotifyAllocatesNothing, StillAllocatesNothing

\* No step of a thread takes an anomaly back.
LEMMA AnomaliesGrow ==
  ASSUME NEW t \in Producers, ProducerStep(t)
  PROVE  anomalies \subseteq anomalies'
  BY Zenon DEF historyVars, ProducerStep, DequeueStep, DequeueFails, DequeueBlocks,
      DequeueDereferencesNull, DequeueSharedMisfit, DequeueDiscards, DequeueTakes,
      DequeueBuffer, DequeueWaitForAllocation, WaitTimesOut, DequeueAllocated,
      DequeueNotAllocated, DetachNextWaits, detachNextBuffer, AttachWaitsForAllocation,
      AttachFails, AttachBlocks, AttachTakes, QueueBuffer, QueueCallback, AllocateStart,
      AllocateDone, AllocateRetries, AllocateYields

\* The lock is taken by a thread that found it free, or the overlap is noted.
LEMMA AllocationStepKeeps ==
  ASSUME TypeInv, OneAllocator, NEW t \in Producers, AllocationStep(t),
         anomalies \subseteq anomalies'
  PROVE  OneAllocator'
<1>0. ThreadTypes
  BY DEF TypeInv, StateTypes
<1> SUFFICES ASSUME "allocOverlap" \notin anomalies'
             PROVE  /\ mIsAllocating' <=> \E u \in Producers : Allocates(u)'
                    /\ \A u, v \in Producers : Allocates(u)' /\ Allocates(v)' => u = v
  BY DEF OneAllocator, Allocates
<1>1. /\ mIsAllocating <=> \E u \in Producers : Allocates(u)
      /\ \A u, v \in Producers : Allocates(u) /\ Allocates(v) => u = v
  BY DEF OneAllocator, Allocates
<1>2. ASSUME NEW s \in Slots, NEW misfit \in BOOLEAN, DequeueTakes(t, s, misfit)
      PROVE  \/ ~mIsAllocating /\ mIsAllocating' = TRUE /\ pc' = [pc EXCEPT ![t] = "dqAlloc"]
             \/ NoAllocation
  <2>1. ~Allocates(t)
    BY <1>2 DEF DequeueTakes, DequeueRuns, InWaitForFreeSlot, Allocates
  <2>2. CASE mSlots[s].mGraphicBuffer = NoBuffer \/ misfit
    BY <1>2, <2>2, Zenon DEF DequeueTakes
  <2>3. CASE ~(mSlots[s].mGraphicBuffer = NoBuffer \/ misfit)
    <3>1. mIsAllocating' = mIsAllocating /\ pc' = [pc EXCEPT ![t] = "idle"]
      BY <1>2, <2>3, TypeInv DEF DequeueTakes, TypeInv, StateTypes, AllocTypes
    <3> QED
      BY <1>0, <2>1, <3>1, MoveAllocatesNothing, Zenon
  <2> QED
    BY <2>2, <2>3, Zenon
<1>3. ASSUME AllocateStart(t)
      PROVE  \/ ~mIsAllocating /\ mIsAllocating' = TRUE /\ pc' = [pc EXCEPT ![t] = "abAlloc"]
             \/ NoAllocation
  BY <1>0, <1>3, MoveAllocatesNothing DEF AllocateStart, waitWhileAllocatingDone, Allocates
<1>4. ASSUME \/ \E b \in Buffers : DequeueAllocated(t, b) \/ AllocateDone(t, b)
             \/ \E failed \in BOOLEAN : DequeueNotAllocated(t, failed) \/ AllocateRetries(t, failed)
      PROVE  /\ Allocates(t) /\ mIsAllocating' = FALSE
             /\ \E place \in {"idle", "abYield", "abLoop"} : pc' = [pc EXCEPT ![t] = place]
  BY <1>4, Zenon DEF DequeueAllocated, AllocateDone, DequeueNotAllocated, AllocateRetries,
              AllocationOver, Allocates
<1>5. CASE NoAllocation
  BY <1>1, <1>5 DEF NoAllocation
<1>6. CASE /\ ~mIsAllocating /\ mIsAllocating' = TRUE
           /\ \E place \in {"dqAlloc", "abAlloc"} : pc' = [pc EXCEPT ![t] = place]
  BY <1>0, <1>1, <1>6 DEF ThreadTypes, Allocates
<1>7. CASE /\ Allocates(t) /\ mIsAllocating' = FALSE
           /\ \E place \in {"idle", "abYield", "abLoop"} : pc' = [pc EXCEPT ![t] = place]
  BY <1>0, <1>1, <1>7 DEF ThreadTypes, Allocates
<1> QED
  BY <1>2, <1>3, <1>4, <1>5, <1>6, <1>7, Zenon DEF AllocationStep

\* mIsAllocating, the lock that waitWhileAllocatingLocked waits for, is held by
\* the one thread that allocates outside the mutex, for as long as no
\* dequeueBuffer starts an allocation without waiting for it.
THEOREM AllocationsExclude == Spec => []OneAllocator
<1>1. Init => OneAllocator
  BY DEF Init, OneAllocator
<1>2. TypeInv /\ OneAllocator /\ [Next]_vars => OneAllocator'
  <2> SUFFICES ASSUME TypeInv, OneAllocator, [Next]_vars PROVE OneAllocator'
    OBVIOUS
  <2>1. ASSUME NEW t \in Producers, ProducerStep(t)
        PROVE  (NoAllocation /\ anomalies \subseteq anomalies') \/ OneAllocator'
    BY <2>1, ProducerStepAllocates, AnomaliesGrow, AllocationStepKeeps
  <2>2. ASSUME NoAllocation, anomalies \subseteq anomalies' PROVE OneAllocator'
    BY <2>2 DEF OneAllocator, NoAllocation, Allocates
  <2> QED
    BY <2>1, <2>2, CallAllocates DEF Next, Crashed
<1> QED
  BY <1>1, <1>2, TypeInit, TypeStep, PTL DEF Spec
=============================================================================
