---------------------------- MODULE BufferQueue ----------------------------
(***************************************************************************)
(* The BufferQueue of libs/gui: a fixed set of buffer slots that travel    *)
(* between producer threads (BufferQueueProducer) and one consumer         *)
(* (BufferQueueConsumer).  All shared state is BufferQueueCore's and is    *)
(* guarded by mCore->mMutex, so an action is one critical section: what a  *)
(* call does between taking the mutex and giving it up, to return, to wait *)
(* on a condition variable or to allocate.                                 *)
(*                                                                         *)
(* The clients are the most general ones: any producer thread and the      *)
(* consumer may make any call named in Calls at any time, with any         *)
(* argument, except that a producer only names slots that dequeueBuffer or *)
(* attachBuffer has returned.  A call that is refused changes nothing and  *)
(* is not a step.                                                          *)
(*                                                                         *)
(* Abstractions.  Sizes, formats and usage bits appear only as the answer  *)
(* of needsReallocation, which the caller's arguments decide: a boolean    *)
(* chosen at each call.  Fences, crops, transforms, data spaces, damage    *)
(* and generation numbers (which only refuse calls) are left out.  Slots   *)
(* are interchangeable: where the code takes the lowest index of a         *)
(* std::set, the model takes any member.                                   *)
(***************************************************************************)
EXTENDS Integers, Sequences, FiniteSets

CONSTANTS
  Slots,                      \* the slot indices, 0 .. NUM_BUFFER_SLOTS - 1
  NoSlot,                     \* INVALID_BUFFER_SLOT
  Buffers,                    \* identities of GraphicBuffers
  NoBuffer,                   \* a null sp<GraphicBuffer>
  Producers,                  \* threads that call the producer interface
  Apis,                       \* NATIVE_WINDOW_API_EGL, _CPU, _MEDIA, _CAMERA
  NoApi,                      \* NO_CONNECTED_API
  Calls,                      \* the optional calls the clients make
  Timeouts,                   \* arguments of setDequeueTimeout
  ByApp,                      \* arguments controlledByApp of the two connects
  Times,                      \* present times, for queueBuffer/acquireBuffer
  MaxReasonable,              \* MAX_REASONABLE_NSEC in units of Times
  MaxFrames,                  \* bound on the number of queueBuffer calls
  MaxUses,                    \* bound on the uses of a shared slot at a time
  ConsumerIsSurfaceFlinger,   \* mConsumerIsSurfaceFlinger
  AllocMayFail                \* may new GraphicBuffer(...) fail initCheck()?

NUM_BUFFER_SLOTS == Cardinality(Slots)
MAX_MAX_ACQUIRED_BUFFERS == NUM_BUFFER_SLOTS - 2

\* The constructor needs two slots to start with.
ASSUME SlotsAssumption == IsFiniteSet(Slots) /\ Cardinality(Slots) >= 2
ASSUME NullAssumption == /\ NoSlot \notin Slots
                         /\ NoBuffer \notin Buffers
                         /\ NoApi \notin Apis
ASSUME BoundsAssumption == /\ MaxFrames \in Nat /\ MaxUses \in Nat
                           /\ MaxReasonable \in Nat
                           /\ Times \subseteq Nat \ {0}
                           /\ Timeouts \subseteq Int
                           /\ ByApp \subseteq BOOLEAN
ASSUME FlagsAssumption == /\ ConsumerIsSurfaceFlinger \in BOOLEAN
                          /\ AllocMayFail \in BOOLEAN

VARIABLES
  \* Connections.
  mIsAbandoned, mConsumerListener, mConsumerControlledByApp, mConnectedApi,
  \* The slots, the four lists that share them out, and the FIFO.
  mSlots, mQueue, mFreeSlots, mFreeBuffers, mUnusedSlots, mActiveBuffers,
  \* Modes.
  mAsyncMode, mDequeueBufferCannotBlock, mQueueBufferCanDrop,
  mLegacyBufferDrop, mAllowAllocation, mDequeueTimeout,
  \* Limits.
  mMaxBufferCount, mMaxAcquiredBufferCount, mMaxDequeuedBufferCount,
  \* Frames.
  mBufferHasBeenQueued, mFrameCounter, mLastQueuedSlot,
  \* Shared buffer mode.
  mSharedBufferMode, mAutoRefresh, mSharedBufferSlot,
  \* Allocation outside the mutex.
  mIsAllocating, mDequeueWaitingForAllocation,
  \* Callback tickets of queueBuffer.
  mNextCallbackTicket, mCurrentCallbackTicket,
  \* Where each producer thread is, the slot it allocates for, whether its wait
  \* on mDequeueCondition is a wait_for, the ticket and the frame it announces.
  pc, slotOf, timedWait, ticketOf, frameOf,
  \* The acquireBuffer call in progress, and whether it has dropped a frame.
  acquire,
  \* A null pointer, an invalid index or a stale iterator was used.
  fault,
  \* History: which of the events in Anomaly have happened, the frame last
  \* announced to the consumer, the frame last acquired.
  anomalies, announced, shown

connVars  == <<mIsAbandoned, mConsumerListener, mConsumerControlledByApp, mConnectedApi>>
listVars  == <<mFreeSlots, mFreeBuffers, mUnusedSlots, mActiveBuffers>>
modeVars  == <<mAsyncMode, mDequeueBufferCannotBlock, mQueueBufferCanDrop,
               mLegacyBufferDrop, mAllowAllocation, mDequeueTimeout>>
countVars == <<mMaxBufferCount, mMaxAcquiredBufferCount, mMaxDequeuedBufferCount>>
frameVars == <<mBufferHasBeenQueued, mFrameCounter, mLastQueuedSlot>>
sharedVars == <<mSharedBufferMode, mAutoRefresh, mSharedBufferSlot>>
allocVars == <<mIsAllocating, mDequeueWaitingForAllocation>>
ticketVars == <<mNextCallbackTicket, mCurrentCallbackTicket, ticketOf,
               frameOf, announced>>
threadVars == <<pc, slotOf, timedWait>>
historyVars == <<anomalies, shown>>

vars == <<connVars, mSlots, mQueue, listVars, modeVars, countVars, frameVars,
          sharedVars, allocVars, ticketVars, threadVars, acquire, fault, historyVars>>

-----------------------------------------------------------------------------
(* BufferState and BufferSlot. *)

\* A slot as clearBufferSlotLocked leaves it.
ClearedSlot ==
  [mDequeueCount |-> 0, mQueueCount |-> 0, mAcquireCount |-> 0, mShared |-> FALSE,
   mGraphicBuffer |-> NoBuffer, mRequestBufferCalled |-> FALSE, mFrameNumber |-> 0,
   mAcquireCalled |-> FALSE, mNeedsReallocation |-> TRUE]

\* A slot as its constructor leaves it.
NewSlot == [ClearedSlot EXCEPT !.mNeedsReallocation = FALSE]

isDequeued(r) == r.mDequeueCount > 0
isQueued(r)   == r.mQueueCount > 0
isAcquired(r) == r.mAcquireCount > 0
isFree(r)     == ~isAcquired(r) /\ ~isDequeued(r) /\ ~isQueued(r)

\* The guarded decrement of the counters.
Less(n) == IF n > 0 THEN n - 1 ELSE n

dequeue(r)    == [r EXCEPT !.mDequeueCount = @ + 1]

\* Mutant: the slot stays the producer's.
queueKeepsDequeued(r) == [r EXCEPT !.mQueueCount = @ + 1]

\* Mutant: the wrong counter, unguarded.
cancelWrongCount(r) == [r EXCEPT !.mQueueCount = @ - 1]

\* Mutant: the replaced item of a shared slot still counts as queued.
freeQueuedUnlessShared(r) == IF r.mShared THEN r ELSE [r EXCEPT !.mQueueCount = Less(@)]

\* Mutant: the slot stays queued.
acquireKeepsQueued(r) == [r EXCEPT !.mAcquireCount = @ + 1]

queue(r)      == [r EXCEPT !.mDequeueCount = Less(@), !.mQueueCount = @ + 1]
cancel(r)     == [r EXCEPT !.mDequeueCount = Less(@)]
freeQueued(r) == [r EXCEPT !.mQueueCount = Less(@)]
acquireQueued(r) == [r EXCEPT !.mQueueCount = Less(@), !.mAcquireCount = @ + 1]
acquireNotInQueue(r) == [r EXCEPT !.mAcquireCount = @ + 1]
release(r)    == [r EXCEPT !.mAcquireCount = Less(@)]

\* Mutant: without the look at isFree().
UnshareEarly(r) == IF ~mSharedBufferMode THEN [r EXCEPT !.mShared = FALSE] ELSE r

\* A shared slot stops being shared when it becomes free out of shared mode.
Unshare(r) == IF ~mSharedBufferMode /\ isFree(r) THEN [r EXCEPT !.mShared = FALSE] ELSE r

-----------------------------------------------------------------------------
(* BufferQueueCore: counts, clearing, adjusting. *)

Flag(b) == IF b THEN 1 ELSE 0
MinOf(a, b) == IF a <= b THEN a ELSE b

getMinUndequeuedBufferCount ==
  mMaxAcquiredBufferCount + Flag(mAsyncMode \/ mDequeueBufferCannotBlock)

getMinMaxBufferCount == getMinUndequeuedBufferCount + 1

getMaxBufferCountFor(async, cannotBlock, maxBufferCount) ==
  MinOf(maxBufferCount,
        mMaxAcquiredBufferCount + mMaxDequeuedBufferCount + Flag(async \/ cannotBlock))

getMaxBufferCount ==
  getMaxBufferCountFor(mAsyncMode, mDequeueBufferCannotBlock, mMaxBufferCount)

\* The limits add up to more slots than mMaxBufferCount allows.
Clamped ==
  mMaxAcquiredBufferCount + mMaxDequeuedBufferCount
    + Flag(mAsyncMode \/ mDequeueBufferCannotBlock) > mMaxBufferCount

DequeuedSlots == {s \in mActiveBuffers : isDequeued(mSlots[s])}
AcquiredSlots == {s \in mActiveBuffers : isAcquired(mSlots[s])}

FreeBufferSet == {mFreeBuffers[i] : i \in DOMAIN mFreeBuffers}

\* Mutant: mBufferState.reset() is forgotten.
clearBufferSlotsKeepsState(S) ==
  /\ mSlots' = [s \in Slots |-> IF s \in S THEN [mSlots[s] EXCEPT !.mGraphicBuffer = NoBuffer]
                                 ELSE mSlots[s]]
  /\ mLastQueuedSlot' = IF mLastQueuedSlot \in S THEN NoSlot ELSE mLastQueuedSlot

clearBufferSlots(S) ==
  /\ mSlots' = [s \in Slots |-> IF s \in S THEN ClearedSlot ELSE mSlots[s]]
  /\ mLastQueuedSlot' = IF mLastQueuedSlot \in S THEN NoSlot ELSE mLastQueuedSlot

\* Mutant: mFreeBuffers.clear() is forgotten.
freeAllKeepsFreeBuffers ==
  /\ clearBufferSlots(mFreeSlots \cup FreeBufferSet \cup mActiveBuffers)
  /\ mFreeSlots' = mFreeSlots \cup FreeBufferSet \cup mActiveBuffers
  /\ mActiveBuffers' = {}
  /\ UNCHANGED <<mFreeBuffers, mUnusedSlots>>

freeAllBuffers ==
  /\ clearBufferSlots(mFreeSlots \cup FreeBufferSet \cup mActiveBuffers)
  /\ mFreeSlots' = mFreeSlots \cup FreeBufferSet \cup mActiveBuffers
  /\ mFreeBuffers' = <<>>
  /\ mActiveBuffers' = {}
  /\ UNCHANGED mUnusedSlots

\* Mutant: the slots stay in mUnusedSlots.
AddSlotsTwice(n) ==
  /\ \E S \in SUBSET mUnusedSlots : Cardinality(S) = n /\ mFreeSlots' = mFreeSlots \cup S
  /\ UNCHANGED <<mUnusedSlots, mSlots, mFreeBuffers, mLastQueuedSlot>>

\* More slots: out of the unused ones, if there are enough.
AddSlots(n) ==
  /\ \E S \in SUBSET mUnusedSlots :
       /\ Cardinality(S) = n
       /\ mUnusedSlots' = mUnusedSlots \ S
       /\ mFreeSlots' = mFreeSlots \cup S
  /\ UNCHANGED <<mSlots, mFreeBuffers, mLastQueuedSlot>>

\* Fewer slots: empty ones first, then ones at the back of mFreeBuffers.
DropSlots(n) ==
  LET empty == MinOf(n, Cardinality(mFreeSlots))
      keep  == Len(mFreeBuffers) - (n - empty)
  IN
  /\ keep >= 0
  /\ \E S \in SUBSET mFreeSlots :
       /\ Cardinality(S) = empty
       /\ LET gone == S \cup {mFreeBuffers[i] : i \in (keep + 1)..Len(mFreeBuffers)}
          IN /\ clearBufferSlots(gone)
             /\ mUnusedSlots' = mUnusedSlots \cup gone
       /\ mFreeSlots' = mFreeSlots \ S
  /\ mFreeBuffers' = SubSeq(mFreeBuffers, 1, keep)

adjustAvailableSlots(delta) ==
  /\ \/ delta >= 0 /\ AddSlots(delta)
     \/ delta < 0 /\ DropSlots(-delta)
  /\ UNCHANGED mActiveBuffers

\* Mutant: the slot found stays in the list.
RemoveNothing(q) == q

\* list.remove(list.front())
RemoveFront(q) == IF \A i \in 2..Len(q) : q[i] # q[1] THEN Tail(q)
                  ELSE SelectSeq(q, LAMBDA s : s # q[1])

\* Mutant: notify_one().
WokenOne == LET Sleeps(t) == pc[t] \in {"dqWait", "atWait"} IN
  IF ~\E t \in Producers : Sleeps(t) THEN pc
  ELSE [pc EXCEPT ![CHOOSE t \in Producers : Sleeps(t)] =
          IF @ = "dqWait" THEN "dqRetry" ELSE "atRetry"]

\* mDequeueCondition.notify_all()
Woken == [t \in Producers |-> CASE pc[t] = "dqWait" -> "dqRetry"
                                [] pc[t] = "atWait" -> "atRetry"
                                [] OTHER -> pc[t]]
\* Mutant: no notify.
NotifyNobody == UNCHANGED <<pc, slotOf, timedWait>>

NotifyDequeue == pc' = Woken /\ UNCHANGED <<slotOf, timedWait>>

\* Mutant: the shared slot goes to the free list too.
ToFreeListAlways(s, r) ==
  /\ mActiveBuffers' = mActiveBuffers \ {s}
  /\ mFreeBuffers' = Append(mFreeBuffers, s)

\* The slot s, now in state r, goes to the free list unless it is shared.
ToFreeListUnlessShared(s, r) ==
  IF r.mShared
  THEN UNCHANGED <<mActiveBuffers, mFreeBuffers>>
  ELSE /\ mActiveBuffers' = mActiveBuffers \ {s}
       /\ mFreeBuffers' = Append(mFreeBuffers, s)

\* mCore->mMutex is free: nobody holds it across the loop of dequeueBuffer or of
\* acquireBuffer, and the process has not crashed.
Unlocked == ~fault /\ acquire.pc # "drop" /\ \A t \in Producers : pc[t] # "dqLoop"

\* Mutant: no wait.
noWaitWhileAllocating == TRUE

\* waitWhileAllocatingLocked() has returned.
waitWhileAllocatingDone == ~mIsAllocating

\* An allocation outside the mutex is over: mIsAllocatingCondition.notify_all().
AllocationOver == mIsAllocating' = FALSE

\* The arguments with which the clients make an optional call.
Args(call, S) == IF call \in Calls THEN S ELSE {}

\* A producer may name s: no thread is still allocating for it.
Returned(s) == \A t \in Producers : ~(pc[t] = "dqAlloc" /\ slotOf[t] = s)

\* GraphicBuffers that exist in no slot and no queued item: a new one is one of
\* these, while an attached one may be any.
FreshBuffers == {b \in Buffers : /\ \A s \in Slots : mSlots[s].mGraphicBuffer # b
                                /\ \A i \in DOMAIN mQueue : mQueue[i].mGraphicBuffer # b}

\* No acquireBuffer call is in progress.
IdleAcquire == [pc |-> "idle", expectedPresent |-> 0, maxFrameNumber |-> 0, dropped |-> FALSE]

-----------------------------------------------------------------------------
(* Init: the constructors of BufferQueueCore and BufferQueueProducer. *)

Init ==
  /\ mIsAbandoned = FALSE /\ mConsumerListener = FALSE
  /\ mConsumerControlledByApp = FALSE /\ mConnectedApi = NoApi
  /\ mSlots = [s \in Slots |-> NewSlot] /\ mQueue = <<>>
  /\ mFreeSlots \in {S \in SUBSET Slots : Cardinality(S) = 2}
  /\ mUnusedSlots = Slots \ mFreeSlots
  /\ mFreeBuffers = <<>> /\ mActiveBuffers = {}
  /\ mAsyncMode = FALSE /\ mDequeueBufferCannotBlock = FALSE
  /\ mQueueBufferCanDrop = FALSE /\ mLegacyBufferDrop = TRUE
  /\ mAllowAllocation = TRUE /\ mDequeueTimeout = -1
  /\ mMaxBufferCount = NUM_BUFFER_SLOTS
  /\ mMaxAcquiredBufferCount = 1 /\ mMaxDequeuedBufferCount = 1
  /\ mBufferHasBeenQueued = FALSE /\ mFrameCounter = 0 /\ mLastQueuedSlot = NoSlot
  /\ mSharedBufferMode = FALSE /\ mAutoRefresh = FALSE /\ mSharedBufferSlot = NoSlot
  /\ mIsAllocating = FALSE /\ mDequeueWaitingForAllocation = FALSE
  /\ mNextCallbackTicket = 0 /\ mCurrentCallbackTicket = 0
  /\ pc = [t \in Producers |-> "idle"] /\ slotOf = [t \in Producers |-> NoSlot]
  /\ timedWait = [t \in Producers |-> FALSE]
  /\ ticketOf = [t \in Producers |-> 0] /\ frameOf = [t \in Producers |-> 0]
  /\ acquire = IdleAcquire
  /\ fault = FALSE /\ anomalies = {} /\ announced = 0
  /\ shown = 0

-----------------------------------------------------------------------------
(* waitForFreeSlotThenRelock: what the two callers may be given. *)

TooManyBuffers == Len(mQueue) > getMaxBufferCount
SharedFound == mSharedBufferMode /\ mSharedBufferSlot # NoSlot

DequeueCandidates ==
  CASE TooManyBuffers        -> {}
    [] ~TooManyBuffers /\ SharedFound -> {mSharedBufferSlot}
    [] ~TooManyBuffers /\ ~SharedFound /\ mFreeBuffers # <<>> -> {Head(mFreeBuffers)}
    [] OTHER                 -> IF mAllowAllocation THEN mFreeSlots ELSE {}

AttachCandidates ==
  CASE TooManyBuffers        -> {}
    [] ~TooManyBuffers /\ SharedFound -> {mSharedBufferSlot}
    [] ~TooManyBuffers /\ ~SharedFound /\ mFreeSlots # {} -> mFreeSlots
    [] OTHER                 -> IF mFreeBuffers # <<>> THEN {Head(mFreeBuffers)} ELSE {}

\* The slot found leaves the list it was found in.
TakeFreeBuffer == mFreeBuffers' = Tail(mFreeBuffers) /\ UNCHANGED mFreeSlots
\* Mutant: mFreeSlots.erase() is forgotten.
TakeFreeSlotStays(s) == UNCHANGED <<mFreeSlots, mFreeBuffers>>

TakeFreeSlot(s) == mFreeSlots' = mFreeSlots \ {s} /\ UNCHANGED mFreeBuffers
TakeForDequeue(s) == IF SharedFound THEN UNCHANGED <<mFreeSlots, mFreeBuffers>>
                     ELSE IF mFreeBuffers # <<>> THEN TakeFreeBuffer ELSE TakeFreeSlot(s)
TakeForAttach(s) == IF SharedFound THEN UNCHANGED <<mFreeSlots, mFreeBuffers>>
                    ELSE IF mFreeSlots # {} THEN TakeFreeSlot(s) ELSE TakeFreeBuffer

\* NO_INIT and INVALID_OPERATION.
Refused == \/ mIsAbandoned
           \/ mBufferHasBeenQueued /\ Cardinality(DequeuedSlots) >= mMaxDequeuedBufferCount

\* WOULD_BLOCK.
CannotBlock == /\ mDequeueBufferCannotBlock \/ mAsyncMode
               /\ Cardinality(AcquiredSlots) <= mMaxAcquiredBufferCount

Fails(candidates)  == Refused \/ (candidates = {} /\ CannotBlock)
Blocks(candidates) == ~Refused /\ candidates = {} /\ ~CannotBlock

\* The next slot dequeued or queued becomes the shared one.
AdoptsShared == mSharedBufferMode /\ mSharedBufferSlot = NoSlot

-----------------------------------------------------------------------------
(* dequeueBuffer. *)

\* The first critical section: is the queue alive and connected?
DequeueBuffer(t) ==
  /\ Unlocked
  /\ pc[t] = "idle"
  /\ ~mIsAbandoned /\ mConnectedApi # NoApi
  /\ pc' = [pc EXCEPT ![t] = "dqStart"]
  /\ UNCHANGED <<connVars, mSlots, mQueue, listVars, modeVars, countVars, frameVars,
                 sharedVars, allocVars, ticketVars, slotOf, timedWait, acquire, fault,
                 historyVars>>

\* The second one starts by waiting for an allocation in progress.
DequeueWaitForAllocation(t) ==
  /\ Unlocked
  /\ pc[t] = "dqStart" /\ mFreeBuffers = <<>> /\ mIsAllocating
  /\ pc' = [pc EXCEPT ![t] = "dqAllocWait"]
  /\ mDequeueWaitingForAllocation' = TRUE
  /\ UNCHANGED <<connVars, mSlots, mQueue, listVars, modeVars, countVars, frameVars,
                 sharedVars, mIsAllocating, ticketVars, slotOf, timedWait, acquire, fault,
                 historyVars>>

\* Mutant: the flag is not reset.
WaitingForAllocationStays(t) == UNCHANGED mDequeueWaitingForAllocation

\* A dequeueBuffer that waited for an allocation lets allocateBuffers go on.
WaitingForAllocationOver(t) ==
  mDequeueWaitingForAllocation' = (mDequeueWaitingForAllocation /\ pc[t] # "dqAllocWait")

\* The thread may run in the second critical section.
InWaitForFreeSlot(t) ==
  \/ ~fault /\ pc[t] = "dqLoop"
  \/ Unlocked /\ pc[t] = "dqRetry"
  \/ Unlocked /\ pc[t] = "dqStart" /\ ~(mFreeBuffers = <<>> /\ mIsAllocating)
  \/ Unlocked /\ pc[t] = "dqAllocWait" /\ waitWhileAllocatingDone

DequeueRuns(t) == InWaitForFreeSlot(t) /\ WaitingForAllocationOver(t)

DequeueFails(t) ==
  /\ DequeueRuns(t)
  /\ Fails(DequeueCandidates)
  /\ pc' = [pc EXCEPT ![t] = "idle"]
  /\ UNCHANGED <<connVars, mSlots, mQueue, listVars, modeVars, countVars, frameVars,
                 sharedVars, mIsAllocating, ticketVars, slotOf, timedWait, acquire, fault,
                 historyVars>>

DequeueBlocks(t) ==
  /\ DequeueRuns(t)
  /\ Blocks(DequeueCandidates)
  /\ pc' = [pc EXCEPT ![t] = "dqWait"]
  /\ timedWait' = [timedWait EXCEPT ![t] = mDequeueTimeout >= 0]
  /\ UNCHANGED <<connVars, mSlots, mQueue, listVars, modeVars, countVars, frameVars,
                 sharedVars, mIsAllocating, ticketVars, slotOf, acquire, fault, historyVars>>

\* needsReallocation is called on the null buffer of the slot found.
DequeueDereferencesNull(t) ==
  /\ DequeueRuns(t)
  /\ ~Refused
  /\ \E s \in DequeueCandidates :
       /\ mSlots[s].mGraphicBuffer = NoBuffer
       /\ ~mAllowAllocation \/ mSharedBufferSlot = s
  /\ fault' = TRUE
  /\ UNCHANGED <<connVars, mSlots, mQueue, listVars, modeVars, countVars, frameVars,
                 sharedVars, mIsAllocating, ticketVars, threadVars, acquire, historyVars>>

\* The shared buffer does not fit and cannot be reallocated: BAD_VALUE.
DequeueSharedMisfit(t) ==
  /\ DequeueRuns(t)
  /\ ~Refused
  /\ mSharedBufferSlot \in DequeueCandidates
  /\ mSlots[mSharedBufferSlot].mGraphicBuffer # NoBuffer
  /\ pc' = [pc EXCEPT ![t] = "idle"]
  /\ UNCHANGED <<connVars, mSlots, mQueue, listVars, modeVars, countVars, frameVars,
                 sharedVars, mIsAllocating, ticketVars, slotOf, timedWait, acquire, fault,
                 historyVars>>

\* Allocation is not allowed and the buffer found does not fit: it is freed
\* and the search goes on with the mutex held.
DequeueDiscards(t) ==
  /\ DequeueRuns(t)
  /\ ~Refused /\ ~mAllowAllocation
  /\ \E s \in DequeueCandidates :
       /\ s # mSharedBufferSlot
       /\ mSlots[s].mGraphicBuffer # NoBuffer
       /\ mFreeBuffers' = Tail(mFreeBuffers)
       /\ mFreeSlots' = mFreeSlots \cup {s}
       /\ clearBufferSlots({s})
  /\ pc' = [pc EXCEPT ![t] = "dqLoop"]
  /\ UNCHANGED <<connVars, mQueue, mUnusedSlots, mActiveBuffers, modeVars, countVars,
                 mBufferHasBeenQueued, mFrameCounter, sharedVars, mIsAllocating, ticketVars,
                 slotOf, timedWait, acquire, fault, historyVars>>

\* The slot found is the caller's.  With no buffer in it, or one that does not
\* fit (misfit), the thread leaves the mutex to allocate one.
DequeueTakes(t, s, misfit) ==
  LET b       == mSlots[s].mGraphicBuffer
      realloc == b = NoBuffer \/ misfit
      r       == [dequeue(mSlots[s]) EXCEPT !.mNeedsReallocation = FALSE,
                                            !.mShared = @ \/ AdoptsShared]
  IN
  /\ DequeueRuns(t)
  /\ ~Refused
  /\ s \in DequeueCandidates
  /\ s = mSharedBufferSlot => b # NoBuffer /\ ~misfit
  /\ ~mAllowAllocation => b # NoBuffer /\ ~misfit
  /\ b = NoBuffer => ~misfit
  /\ mSlots[s].mDequeueCount < MaxUses
  /\ TakeForDequeue(s)
  /\ mActiveBuffers' = IF s = mSharedBufferSlot THEN mActiveBuffers ELSE mActiveBuffers \cup {s}
  /\ mSlots' = [mSlots EXCEPT ![s] =
                  IF realloc THEN [r EXCEPT !.mAcquireCalled = FALSE,
                                            !.mGraphicBuffer = NoBuffer,
                                            !.mRequestBufferCalled = FALSE]
                             ELSE r]
  /\ mSharedBufferSlot' = IF AdoptsShared THEN s ELSE mSharedBufferSlot
  /\ mIsAllocating' = (mIsAllocating \/ realloc)
  /\ anomalies' = anomalies \cup IF realloc /\ mIsAllocating THEN {"allocOverlap"} ELSE {}
  /\ pc' = [pc EXCEPT ![t] = IF realloc THEN "dqAlloc" ELSE "idle"]
  /\ slotOf' = [slotOf EXCEPT ![t] = IF realloc THEN s ELSE NoSlot]
  /\ UNCHANGED <<connVars, mQueue, mUnusedSlots, modeVars, countVars, frameVars,
                 mSharedBufferMode, mAutoRefresh, ticketVars, timedWait, acquire, fault,
                 shown>>

\* The third critical section: the new buffer goes into the slot.
DequeueAllocated(t, b) ==
  /\ Unlocked
  /\ pc[t] = "dqAlloc" /\ ~mIsAbandoned /\ b \in FreshBuffers
  /\ mSlots' = [mSlots EXCEPT ![slotOf[t]].mGraphicBuffer = b]
  /\ AllocationOver
  /\ pc' = [pc EXCEPT ![t] = "idle"]
  /\ slotOf' = [slotOf EXCEPT ![t] = NoSlot]
  /\ UNCHANGED <<connVars, mQueue, listVars, modeVars, countVars, frameVars, sharedVars,
                 mDequeueWaitingForAllocation, ticketVars, timedWait, acquire, fault,
                 historyVars>>

\* ... or is lost, because the allocation failed or the queue was abandoned.
DequeueNotAllocated(t, failed) ==
  /\ Unlocked
  /\ pc[t] = "dqAlloc" /\ (failed \/ mIsAbandoned)
  /\ AllocationOver
  /\ mFreeSlots' = mFreeSlots \cup {slotOf[t]}
  /\ clearBufferSlots({slotOf[t]})
  /\ anomalies' = anomalies \cup (IF failed THEN {"allocFailed"} ELSE {})
                             \cup (IF ~failed /\ slotOf[t] \notin mFreeSlots
                                 THEN {"lateFree"} ELSE {})
  /\ pc' = [pc EXCEPT ![t] = "idle"]
  /\ slotOf' = [slotOf EXCEPT ![t] = NoSlot]
  /\ UNCHANGED <<connVars, mQueue, mFreeBuffers, mUnusedSlots, mActiveBuffers, modeVars,
                 countVars, mBufferHasBeenQueued, mFrameCounter, sharedVars,
                 mDequeueWaitingForAllocation, ticketVars, timedWait, acquire, fault,
                 shown>>

\* mDequeueCondition.wait_for times out: TIMED_OUT.
WaitTimesOut(t) ==
  /\ Unlocked
  /\ pc[t] \in {"dqWait", "atWait"} /\ timedWait[t]
  /\ pc' = [pc EXCEPT ![t] = "idle"]
  /\ timedWait' = [timedWait EXCEPT ![t] = FALSE]
  /\ UNCHANGED <<connVars, mSlots, mQueue, listVars, modeVars, countVars, frameVars,
                 sharedVars, allocVars, ticketVars, slotOf, acquire, fault, historyVars>>

requestBuffer(s) ==
  /\ Unlocked
  /\ ~mIsAbandoned /\ mConnectedApi # NoApi
  /\ isDequeued(mSlots[s]) /\ Returned(s)
  /\ mSlots' = [mSlots EXCEPT ![s].mRequestBufferCalled = TRUE]
  /\ UNCHANGED <<connVars, mQueue, listVars, modeVars, countVars, frameVars, sharedVars,
                 allocVars, ticketVars, threadVars, acquire, fault, historyVars>>

-----------------------------------------------------------------------------
(* detachBuffer, detachNextBuffer and attachBuffer of the producer. *)

\* Drops a slot the caller owns, with the buffer in it.
DetachSlot(s) ==
  /\ Unlocked
  /\ mActiveBuffers' = mActiveBuffers \ {s}
  /\ mFreeSlots' = mFreeSlots \cup {s}
  /\ clearBufferSlots({s})
  /\ NotifyDequeue
  /\ anomalies' = anomalies \cup IF mSlots[s].mShared THEN {"sharedDetached"} ELSE {}
  /\ UNCHANGED <<connVars, mQueue, mFreeBuffers, mUnusedSlots, modeVars, countVars,
                 mBufferHasBeenQueued, mFrameCounter, sharedVars, allocVars, ticketVars,
                 acquire, fault, shown>>

ProducerDetachBuffer(s) ==
  /\ ~mIsAbandoned /\ mConnectedApi # NoApi
  /\ ~mSharedBufferMode /\ mSharedBufferSlot # s
  /\ isDequeued(mSlots[s]) /\ mSlots[s].mRequestBufferCalled /\ Returned(s)
  /\ DetachSlot(s)

DetachNextAccepted(t) == /\ "detachNext" \in Calls /\ pc[t] = "idle"
                         /\ ~mIsAbandoned /\ mConnectedApi # NoApi /\ ~mSharedBufferMode

\* The checks that precede waitWhileAllocatingLocked are not repeated after it.
DetachNextWaits(t) ==
  /\ Unlocked
  /\ DetachNextAccepted(t) /\ mIsAllocating
  /\ pc' = [pc EXCEPT ![t] = "detachNextWait"]
  /\ UNCHANGED <<connVars, mSlots, mQueue, listVars, modeVars, countVars, frameVars,
                 sharedVars, allocVars, ticketVars, slotOf, timedWait, acquire, fault,
                 historyVars>>

detachNextBuffer(t) ==
  /\ Unlocked
  /\ DetachNextAccepted(t) \/ pc[t] = "detachNextWait"
  /\ waitWhileAllocatingDone
  /\ IF mFreeBuffers = <<>>
     THEN UNCHANGED <<mFreeBuffers, mFreeSlots, mSlots, mLastQueuedSlot>>
     ELSE /\ mFreeBuffers' = RemoveFront(mFreeBuffers)
          /\ mFreeSlots' = mFreeSlots \cup {Head(mFreeBuffers)}
          /\ clearBufferSlots({Head(mFreeBuffers)})
  /\ pc' = [pc EXCEPT ![t] = "idle"]
  /\ UNCHANGED <<connVars, mQueue, mUnusedSlots, mActiveBuffers, modeVars, countVars,
                 mBufferHasBeenQueued, mFrameCounter, sharedVars, allocVars, ticketVars,
                 slotOf, timedWait, acquire, fault, historyVars>>

AttachAccepted(t) == /\ "attach" \in Calls /\ pc[t] = "idle"
                     /\ ~mIsAbandoned /\ mConnectedApi # NoApi /\ ~mSharedBufferMode

AttachWaitsForAllocation(t) ==
  /\ Unlocked
  /\ AttachAccepted(t) /\ mIsAllocating
  /\ pc' = [pc EXCEPT ![t] = "atAllocWait"]
  /\ UNCHANGED <<connVars, mSlots, mQueue, listVars, modeVars, countVars, frameVars,
                 sharedVars, allocVars, ticketVars, slotOf, timedWait, acquire, fault,
                 historyVars>>

AttachRuns(t) ==
  /\ Unlocked
  /\ \/ AttachAccepted(t) /\ waitWhileAllocatingDone
     \/ pc[t] = "atAllocWait" /\ waitWhileAllocatingDone
     \/ pc[t] = "atRetry"

AttachFails(t) ==
  /\ AttachRuns(t) /\ pc[t] # "idle"
  /\ Fails(AttachCandidates)
  /\ pc' = [pc EXCEPT ![t] = "idle"]
  /\ UNCHANGED <<connVars, mSlots, mQueue, listVars, modeVars, countVars, frameVars,
                 sharedVars, allocVars, ticketVars, slotOf, timedWait, acquire, fault,
                 historyVars>>

AttachBlocks(t) ==
  /\ AttachRuns(t)
  /\ Blocks(AttachCandidates)
  /\ pc' = [pc EXCEPT ![t] = "atWait"]
  /\ timedWait' = [timedWait EXCEPT ![t] = mDequeueTimeout >= 0]
  /\ UNCHANGED <<connVars, mSlots, mQueue, listVars, modeVars, countVars, frameVars,
                 sharedVars, allocVars, ticketVars, slotOf, acquire, fault, historyVars>>

AttachTakes(t, s, b) ==
  /\ AttachRuns(t)
  /\ ~Refused
  /\ s \in AttachCandidates /\ b \in Buffers
  /\ TakeForAttach(s)
  /\ mSlots' = [mSlots EXCEPT ![s] = [dequeue(@) EXCEPT !.mGraphicBuffer = b,
                                                        !.mRequestBufferCalled = TRUE,
                                                        !.mAcquireCalled = FALSE,
                                                        !.mNeedsReallocation = FALSE]]
  /\ mActiveBuffers' = mActiveBuffers \cup {s}
  /\ pc' = [pc EXCEPT ![t] = "idle"]
  /\ UNCHANGED <<connVars, mQueue, mUnusedSlots, modeVars, countVars, frameVars, sharedVars,
                 allocVars, ticketVars, slotOf, timedWait, acquire, fault, historyVars>>

-----------------------------------------------------------------------------
(* queueBuffer and cancelBuffer. *)

\* The crop is not inside the buffer: BAD_VALUE, after the slot was adopted as
\* the shared one.
QueueBadCrop(s) ==
  /\ Unlocked
  /\ ~mIsAbandoned /\ mConnectedApi # NoApi
  /\ isDequeued(mSlots[s]) /\ mSlots[s].mRequestBufferCalled /\ Returned(s)
  /\ AdoptsShared
  /\ mSharedBufferSlot' = s
  /\ mSlots' = [mSlots EXCEPT ![s].mShared = TRUE]
  /\ UNCHANGED <<connVars, mQueue, listVars, modeVars, countVars, frameVars,
                 mSharedBufferMode, mAutoRefresh, allocVars, ticketVars, threadVars, acquire,
                 fault, historyVars>>

\* Mutant: the ticket is the counter after the increment.
TakeTicketLate(t) ==
  /\ mNextCallbackTicket' = mNextCallbackTicket + 1
  /\ ticketOf' = [ticketOf EXCEPT ![t] = mNextCallbackTicket + 1]

\* The order of the callbacks is decided before the mutex is given up.
TakeTicket(t) ==
  /\ mNextCallbackTicket' = mNextCallbackTicket + 1
  /\ ticketOf' = [ticketOf EXCEPT ![t] = mNextCallbackTicket]

\* What queueBuffer puts into the FIFO.
BufferItem(s, timestamp, isAuto) ==
  [mSlot |-> s, mFrameNumber |-> mFrameCounter + 1,
   mGraphicBuffer |-> mSlots[s].mGraphicBuffer, mAcquireCalled |-> mSlots[s].mAcquireCalled,
   mTimestamp |-> timestamp, mIsAutoTimestamp |-> isAuto,
   mIsDroppable |-> \/ mAsyncMode
                    \/ ConsumerIsSurfaceFlinger /\ mQueueBufferCanDrop
                    \/ mLegacyBufferDrop /\ mQueueBufferCanDrop
                    \/ mSharedBufferMode /\ (AdoptsShared \/ mSharedBufferSlot = s),
   mIsStale |-> FALSE]

\* The critical section of queueBuffer: the item replaces the last one of the
\* queue if that is droppable, and is appended to the queue if not.
QueueBuffer(t, s, timestamp, isAuto) ==
  LET frame == mFrameCounter + 1
      r     == [queue(mSlots[s]) EXCEPT !.mShared = @ \/ AdoptsShared, !.mFrameNumber = frame]
      slots == [mSlots EXCEPT ![s] = r]
      item  == BufferItem(s, timestamp, isAuto)
      last  == mQueue[Len(mQueue)]
      freed == Unshare(freeQueued(slots[last.mSlot]))
  IN
  /\ Unlocked /\ pc[t] = "idle" /\ mFrameCounter < MaxFrames
  /\ ~mIsAbandoned /\ mConnectedApi # NoApi
  /\ isDequeued(mSlots[s]) /\ mSlots[s].mRequestBufferCalled /\ Returned(s)
  /\ IF mQueue = <<>> \/ ~last.mIsDroppable
     THEN /\ mQueue' = Append(mQueue, item)
          /\ mSlots' = slots
          /\ UNCHANGED <<mActiveBuffers, mFreeBuffers>>
     ELSE /\ mQueue' = [mQueue EXCEPT ![Len(mQueue)] = item]
          /\ IF last.mIsStale
             THEN mSlots' = slots /\ UNCHANGED <<mActiveBuffers, mFreeBuffers>>
             ELSE /\ mSlots' = [slots EXCEPT ![last.mSlot] = freed]
                  /\ ToFreeListUnlessShared(last.mSlot, freed)
  /\ mSharedBufferSlot' = IF AdoptsShared THEN s ELSE mSharedBufferSlot
  /\ mFrameCounter' = frame
  /\ mBufferHasBeenQueued' = TRUE
  /\ mLastQueuedSlot' = s
  /\ TakeTicket(t)
  /\ frameOf' = [frameOf EXCEPT ![t] = frame]
  /\ pc' = [Woken EXCEPT ![t] = "callback"]
  /\ UNCHANGED <<connVars, mFreeSlots, mUnusedSlots, modeVars, countVars, mSharedBufferMode,
                 mAutoRefresh, allocVars, mCurrentCallbackTicket, announced, slotOf, timedWait,
                 acquire, fault, historyVars>>

\* Mutant: no wait for the ticket.
CallbackAnyTime(t) == TRUE

CallbackTurn(t) == ticketOf[t] = mCurrentCallbackTicket

\* queueBuffer announces the frame to the consumer when its ticket comes up.
QueueCallback(t) ==
  /\ ~fault
  /\ pc[t] = "callback" /\ CallbackTurn(t)
  /\ mCurrentCallbackTicket' = mCurrentCallbackTicket + 1
  /\ announced' = frameOf[t]
  /\ ticketOf' = [ticketOf EXCEPT ![t] = 0]
  /\ frameOf' = [frameOf EXCEPT ![t] = 0]
  /\ pc' = [pc EXCEPT ![t] = "idle"]
  /\ UNCHANGED <<connVars, mSlots, mQueue, listVars, modeVars, countVars, frameVars,
                 sharedVars, allocVars, mNextCallbackTicket, slotOf, timedWait, acquire, fault,
                 historyVars>>

cancelBuffer(s) ==
  LET r == Unshare(cancel(mSlots[s])) IN
  /\ Unlocked
  /\ ~mIsAbandoned /\ mConnectedApi # NoApi /\ ~mSharedBufferMode
  /\ isDequeued(mSlots[s]) /\ Returned(s)
  /\ mSlots' = [mSlots EXCEPT ![s] = r]
  /\ ToFreeListUnlessShared(s, r)
  /\ NotifyDequeue
  /\ UNCHANGED <<connVars, mQueue, mFreeSlots, mUnusedSlots, modeVars, countVars, frameVars,
                 sharedVars, allocVars, ticketVars, acquire, fault, historyVars>>

-----------------------------------------------------------------------------
(* connect and disconnect of the producer. *)

\* Mutant: the timeout is not looked at.
ConnectDeltaNoTimeout(byApp) ==
  getMaxBufferCountFor(mAsyncMode, byApp, mMaxBufferCount) - getMaxBufferCount

ConnectDelta(byApp) ==
  getMaxBufferCountFor(mAsyncMode, mDequeueTimeout < 0 /\ byApp, mMaxBufferCount)
    - getMaxBufferCount

\* An api that is not one of Apis (api = NoApi) is refused at the end only.
Connect(api, producerControlledByApp) ==
  LET byApp == mConsumerControlledByApp /\ producerControlledByApp IN
  /\ Unlocked
  /\ ~mIsAbandoned /\ mConsumerListener /\ mConnectedApi = NoApi
  /\ adjustAvailableSlots(ConnectDelta(byApp))
  /\ mConnectedApi' = api
  /\ mBufferHasBeenQueued' = FALSE
  /\ mDequeueBufferCannotBlock' = (byApp /\ mDequeueTimeout < 0)
  /\ mQueueBufferCanDrop' = (byApp /\ mDequeueTimeout <= 0)
  /\ mLegacyBufferDrop' = TRUE
  /\ mAllowAllocation' = TRUE
  /\ UNCHANGED <<mIsAbandoned, mConsumerListener, mConsumerControlledByApp, mQueue, mAsyncMode,
                 mDequeueTimeout, countVars, mFrameCounter, sharedVars, allocVars, ticketVars,
                 threadVars, acquire, fault, historyVars>>

\* Mutant: the items of the last connection are not marked.
StaleQueueUnmarked == [i \in DOMAIN mQueue |-> [mQueue[i] EXCEPT !.mAcquireCalled = FALSE]]

\* Mutant: the items of the last connection are thrown away.
StaleQueueDropped == <<>>

\* Every queued item becomes stale.
StaleQueue == [i \in DOMAIN mQueue |-> [mQueue[i] EXCEPT !.mIsStale = TRUE,
                                                        !.mAcquireCalled = FALSE]]

\* Also the disconnect that binderDied makes for a producer that died.
Disconnect ==
  /\ Unlocked
  /\ waitWhileAllocatingDone /\ ~mIsAbandoned
  /\ mConnectedApi # NoApi
  /\ freeAllBuffers
  /\ mQueue' = StaleQueue
  /\ mSharedBufferSlot' = NoSlot
  /\ mConnectedApi' = NoApi
  /\ NotifyDequeue
  /\ UNCHANGED <<mIsAbandoned, mConsumerListener, mConsumerControlledByApp, modeVars, countVars,
                 mBufferHasBeenQueued, mFrameCounter, mSharedBufferMode, mAutoRefresh, allocVars,
                 ticketVars, acquire, fault, historyVars>>

-----------------------------------------------------------------------------
(* Limits and modes set by the producer. *)

setMaxDequeuedBufferCount(n) ==
  LET bufferCount == getMinUndequeuedBufferCount + n IN
  /\ Unlocked
  /\ waitWhileAllocatingDone /\ ~mIsAbandoned
  /\ n # mMaxDequeuedBufferCount
  /\ Cardinality(DequeuedSlots) <= n
  /\ bufferCount <= NUM_BUFFER_SLOTS
  /\ bufferCount >= getMinMaxBufferCount
  /\ bufferCount <= mMaxBufferCount
  /\ adjustAvailableSlots(n - mMaxDequeuedBufferCount)
  /\ mMaxDequeuedBufferCount' = n
  /\ anomalies' = anomalies \cup IF Clamped THEN {"clampedAdjust"} ELSE {}
  /\ NotifyDequeue
  /\ UNCHANGED <<connVars, mQueue, modeVars, mMaxBufferCount, mMaxAcquiredBufferCount,
                 mBufferHasBeenQueued, mFrameCounter, sharedVars, allocVars, ticketVars,
                 acquire, fault, shown>>

setAsyncMode(async) ==
  /\ Unlocked
  /\ waitWhileAllocatingDone /\ ~mIsAbandoned
  /\ async # mAsyncMode
  /\ mMaxAcquiredBufferCount + mMaxDequeuedBufferCount
       + Flag(async \/ mDequeueBufferCannotBlock) <= mMaxBufferCount
  /\ adjustAvailableSlots(
       getMaxBufferCountFor(async, mDequeueBufferCannotBlock, mMaxBufferCount)
         - getMaxBufferCount)
  /\ mAsyncMode' = async
  /\ NotifyDequeue
  /\ UNCHANGED <<connVars, mQueue, mDequeueBufferCannotBlock, mQueueBufferCanDrop,
                 mLegacyBufferDrop, mAllowAllocation, mDequeueTimeout, countVars,
                 mBufferHasBeenQueued, mFrameCounter, sharedVars, allocVars, ticketVars,
                 acquire, fault, historyVars>>

setDequeueTimeout(timeout) ==
  LET cannotBlock == timeout < 0 /\ mDequeueBufferCannotBlock IN
  /\ Unlocked
  /\ adjustAvailableSlots(getMaxBufferCountFor(mAsyncMode, cannotBlock, mMaxBufferCount)
                            - getMaxBufferCount)
  /\ mDequeueTimeout' = timeout
  /\ mDequeueBufferCannotBlock' = cannotBlock
  /\ mQueueBufferCanDrop' = (timeout <= 0 /\ mQueueBufferCanDrop)
  /\ UNCHANGED <<connVars, mQueue, mAsyncMode, mLegacyBufferDrop, mAllowAllocation, countVars,
                 mBufferHasBeenQueued, mFrameCounter, sharedVars, allocVars, ticketVars,
                 threadVars, acquire, fault, historyVars>>

\* The setters of one flag: none of them notifies.
allowAllocation(allow) ==
  /\ Unlocked
  /\ mAllowAllocation' = allow
  /\ UNCHANGED <<connVars, mSlots, mQueue, listVars, mAsyncMode, mDequeueBufferCannotBlock,
                 mQueueBufferCanDrop, mLegacyBufferDrop, mDequeueTimeout, countVars, frameVars,
                 sharedVars, allocVars, ticketVars, threadVars, acquire, fault, historyVars>>

setLegacyBufferDrop(drop) ==
  /\ Unlocked
  /\ mLegacyBufferDrop' = drop
  /\ UNCHANGED <<connVars, mSlots, mQueue, listVars, mAsyncMode, mDequeueBufferCannotBlock,
                 mQueueBufferCanDrop, mAllowAllocation, mDequeueTimeout, countVars, frameVars,
                 sharedVars, allocVars, ticketVars, threadVars, acquire, fault, historyVars>>

setSharedBufferMode(sharedBufferMode) ==
  /\ Unlocked
  /\ mSharedBufferMode' = sharedBufferMode
  /\ mSharedBufferSlot' = IF sharedBufferMode THEN mSharedBufferSlot ELSE NoSlot
  /\ anomalies' = anomalies \cup IF sharedBufferMode THEN {"sharedMode"} ELSE {}
  /\ UNCHANGED <<connVars, mSlots, mQueue, listVars, modeVars, countVars, frameVars,
                 mAutoRefresh, allocVars, ticketVars, threadVars, acquire, fault,
                 shown>>

setAutoRefresh(autoRefresh) ==
  /\ Unlocked
  /\ mAutoRefresh' = autoRefresh
  /\ UNCHANGED <<connVars, mSlots, mQueue, listVars, modeVars, countVars, frameVars,
                 mSharedBufferMode, mSharedBufferSlot, allocVars, ticketVars, threadVars,
                 acquire, fault, historyVars>>

-----------------------------------------------------------------------------
(* allocateBuffers: one buffer per round, allocated outside the mutex. *)

AllocateStart(t) ==
  /\ Unlocked
  /\ waitWhileAllocatingDone
  /\ pc[t] = "abLoop" \/ (pc[t] = "idle" /\ "allocateBuffers" \in Calls)
  /\ IF mAllowAllocation /\ mFreeSlots # {}
     THEN mIsAllocating' = TRUE /\ pc' = [pc EXCEPT ![t] = "abAlloc"]
     ELSE UNCHANGED mIsAllocating /\ pc' = [pc EXCEPT ![t] = "idle"]
  /\ UNCHANGED <<connVars, mSlots, mQueue, listVars, modeVars, countVars, frameVars,
                 sharedVars, mDequeueWaitingForAllocation, ticketVars, slotOf, timedWait,
                 acquire, fault, historyVars>>

\* The allocation failed (the call returns), or the default size, format or
\* usage changed meanwhile (the call starts again).
AllocateRetries(t, failed) ==
  /\ Unlocked
  /\ pc[t] = "abAlloc"
  /\ AllocationOver
  /\ pc' = [pc EXCEPT ![t] = IF failed THEN "idle" ELSE "abLoop"]
  /\ UNCHANGED <<connVars, mSlots, mQueue, listVars, modeVars, countVars, frameVars,
                 sharedVars, mDequeueWaitingForAllocation, ticketVars, slotOf, timedWait,
                 acquire, fault, historyVars>>

\* The buffer goes to the front of mFreeBuffers, unless no slot is free now.
AllocateDone(t, b) ==
  /\ Unlocked
  /\ pc[t] = "abAlloc" /\ b \in FreshBuffers
  /\ \/ /\ mFreeSlots = {}
        /\ UNCHANGED <<mSlots, mFreeSlots, mFreeBuffers, mLastQueuedSlot>>
     \/ \E s \in mFreeSlots :
          /\ mSlots' = [mSlots EXCEPT ![s] = [ClearedSlot EXCEPT !.mGraphicBuffer = b]]
          /\ mLastQueuedSlot' = IF mLastQueuedSlot = s THEN NoSlot ELSE mLastQueuedSlot
          /\ mFreeBuffers' = <<s>> \o mFreeBuffers
          /\ mFreeSlots' = mFreeSlots \ {s}
  /\ AllocationOver
  /\ pc' = [pc EXCEPT ![t] = "abYield"]
  /\ UNCHANGED <<connVars, mQueue, mUnusedSlots, mActiveBuffers, modeVars, countVars,
                 mBufferHasBeenQueued, mFrameCounter, sharedVars, mDequeueWaitingForAllocation,
                 ticketVars, slotOf, timedWait, acquire, fault, historyVars>>

\* ... and a dequeueBuffer that waits for it goes first.
AllocateYields(t) ==
  /\ Unlocked
  /\ pc[t] = "abYield" /\ ~mDequeueWaitingForAllocation
  /\ pc' = [pc EXCEPT ![t] = "abLoop"]
  /\ UNCHANGED <<connVars, mSlots, mQueue, listVars, modeVars, countVars, frameVars,
                 sharedVars, allocVars, ticketVars, slotOf, timedWait, acquire, fault,
                 historyVars>>

-----------------------------------------------------------------------------
(* acquireBuffer. *)

SharedBufferAvailable == mSharedBufferMode /\ mAutoRefresh /\ mSharedBufferSlot # NoSlot

AcquireAllowed == /\ Unlocked /\ acquire.pc = "idle"
                  /\ Cardinality(AcquiredSlots) < mMaxAcquiredBufferCount + 1

\* Mutant: a stale item is not erased from the FIFO.
TakeFrontKeepsStale ==
  LET item == Head(mQueue) IN
  /\ mSlots' = IF item.mIsStale THEN mSlots
               ELSE [mSlots EXCEPT ![item.mSlot] =
                       [acquireQueued(@) EXCEPT !.mAcquireCalled = TRUE]]
  /\ mQueue' = IF item.mIsStale THEN mQueue ELSE Tail(mQueue)
  /\ NotifyDequeue
  /\ acquire' = IdleAcquire
  /\ shown' = item.mFrameNumber
  /\ UNCHANGED <<connVars, listVars, modeVars, countVars, frameVars, sharedVars, allocVars,
                 ticketVars, fault, anomalies>>

\* The front item becomes the consumer's.
TakeFront ==
  LET item == Head(mQueue) IN
  /\ mSlots' = IF item.mIsStale THEN mSlots
               ELSE [mSlots EXCEPT ![item.mSlot] =
                       [acquireQueued(@) EXCEPT !.mAcquireCalled = TRUE]]
  /\ mQueue' = Tail(mQueue)
  /\ NotifyDequeue
  /\ acquire' = IdleAcquire
  /\ shown' = item.mFrameNumber
  /\ UNCHANGED <<connVars, listVars, modeVars, countVars, frameVars, sharedVars, allocVars,
                 ticketVars, fault, anomalies>>

\* No expectedPresent: the front item, whatever its time.
AcquireBuffer ==
  /\ AcquireAllowed /\ mQueue # <<>>
  /\ TakeFront

\* With one, the mutex is held while frames are dropped.
AcquireWithTime(expectedPresent, maxFrameNumber) ==
  /\ AcquireAllowed /\ mQueue # <<>>
  /\ acquire' = [pc |-> "drop", expectedPresent |-> expectedPresent,
                 maxFrameNumber |-> maxFrameNumber, dropped |-> FALSE]
  /\ UNCHANGED <<connVars, mSlots, mQueue, listVars, modeVars, countVars, frameVars,
                 sharedVars, allocVars, ticketVars, threadVars, fault, historyVars>>

\* Mutant: maxFrameNumber is not looked at.
CanDropFrontAnyFrame ==
  /\ Len(mQueue) > 1
  /\ ~mQueue[1].mIsAutoTimestamp
  /\ mQueue[2].mTimestamp >= acquire.expectedPresent - MaxReasonable
  /\ mQueue[2].mTimestamp <= acquire.expectedPresent

\* The second item is ready and due, so the first is not worth showing.
CanDropFront ==
  /\ Len(mQueue) > 1
  /\ ~mQueue[1].mIsAutoTimestamp
  /\ ~(acquire.maxFrameNumber > 0 /\ mQueue[2].mFrameNumber > acquire.maxFrameNumber)
  /\ mQueue[2].mTimestamp >= acquire.expectedPresent - MaxReasonable
  /\ mQueue[2].mTimestamp <= acquire.expectedPresent

AcquireDrops ==
  LET item == mQueue[1]
      r    == Unshare(freeQueued(mSlots[item.mSlot]))
  IN
  /\ acquire.pc = "drop" /\ CanDropFront
  /\ IF item.mIsStale
     THEN UNCHANGED <<mSlots, mActiveBuffers, mFreeBuffers>>
     ELSE /\ mSlots' = [mSlots EXCEPT ![item.mSlot] = r]
          /\ ToFreeListUnlessShared(item.mSlot, r)
  /\ mQueue' = Tail(mQueue)
  /\ acquire' = [acquire EXCEPT !.dropped = TRUE]
  /\ UNCHANGED <<connVars, mFreeSlots, mUnusedSlots, modeVars, countVars, frameVars, sharedVars,
                 allocVars, ticketVars, threadVars, fault, historyVars>>

\* The front item is due and the consumer is ready for it.
FrontIsReady ==
  /\ \/ mQueue[1].mTimestamp <= acquire.expectedPresent
     \/ mQueue[1].mTimestamp > acquire.expectedPresent + MaxReasonable
  /\ acquire.maxFrameNumber > 0 => mQueue[1].mFrameNumber <= acquire.maxFrameNumber

AcquireOnTime ==
  /\ acquire.pc = "drop" /\ ~CanDropFront /\ FrontIsReady
  /\ TakeFront

\* PRESENT_LATER.
AcquireLater ==
  /\ acquire.pc = "drop" /\ ~CanDropFront /\ ~FrontIsReady
  /\ acquire' = IdleAcquire
  /\ UNCHANGED <<connVars, mSlots, mQueue, listVars, modeVars, countVars, frameVars,
                 sharedVars, allocVars, ticketVars, threadVars, fault, historyVars>>

\* Auto refresh with an empty queue: the shared buffer again, once it is there.
AcquireSharedWaits ==
  /\ AcquireAllowed /\ mQueue = <<>> /\ SharedBufferAvailable /\ mIsAllocating
  /\ acquire' = [IdleAcquire EXCEPT !.pc = "sharedWait"]
  /\ UNCHANGED <<connVars, mSlots, mQueue, listVars, modeVars, countVars, frameVars,
                 sharedVars, allocVars, ticketVars, threadVars, fault, historyVars>>

AcquireSharedRuns ==
  /\ Unlocked
  /\ waitWhileAllocatingDone
  /\ \/ acquire.pc = "sharedWait"
     \/ AcquireAllowed /\ mQueue = <<>> /\ SharedBufferAvailable

AcquireShared ==
  /\ AcquireSharedRuns
  /\ mSharedBufferSlot # NoSlot /\ mQueue = <<>>
  /\ mSlots[mSharedBufferSlot].mAcquireCount < MaxUses
  /\ mSlots' = [mSlots EXCEPT ![mSharedBufferSlot] =
                  [acquireNotInQueue(@) EXCEPT !.mAcquireCalled = TRUE]]
  /\ NotifyDequeue
  /\ acquire' = IdleAcquire
  /\ UNCHANGED <<connVars, mQueue, listVars, modeVars, countVars, frameVars, sharedVars,
                 allocVars, ticketVars, fault, historyVars>>

\* The slot is gone, or mQueue was filled and front points nowhere.
AcquireSharedStale ==
  /\ AcquireSharedRuns
  /\ mSharedBufferSlot = NoSlot \/ mQueue # <<>>
  /\ fault' = TRUE
  /\ UNCHANGED <<connVars, mSlots, mQueue, listVars, modeVars, countVars, frameVars,
                 sharedVars, allocVars, ticketVars, threadVars, acquire, historyVars>>

-----------------------------------------------------------------------------
(* The rest of the consumer interface. *)

ConsumerDetachBuffer(s) ==
  /\ ~mIsAbandoned
  /\ ~mSharedBufferMode /\ mSharedBufferSlot # s
  /\ isAcquired(mSlots[s])
  /\ DetachSlot(s)

ConsumerAttachBuffer(s, b) ==
  /\ Unlocked
  /\ ~mSharedBufferMode /\ b \in Buffers
  /\ Cardinality(AcquiredSlots) < mMaxAcquiredBufferCount + 1
  /\ IF mFreeSlots # {}
     THEN s \in mFreeSlots /\ TakeFreeSlot(s)
     ELSE /\ mFreeBuffers # <<>> /\ s = Head(mFreeBuffers)
          /\ mFreeBuffers' = RemoveFront(mFreeBuffers)
          /\ UNCHANGED mFreeSlots
  /\ mActiveBuffers' = mActiveBuffers \cup {s}
  /\ mSlots' = [mSlots EXCEPT ![s] = [acquireNotInQueue(@) EXCEPT !.mGraphicBuffer = b,
                                                                  !.mNeedsReallocation = TRUE,
                                                                  !.mFrameNumber = 0,
                                                                  !.mAcquireCalled = FALSE]]
  /\ UNCHANGED <<connVars, mQueue, mUnusedSlots, modeVars, countVars, frameVars, sharedVars,
                 allocVars, ticketVars, threadVars, acquire, fault, historyVars>>

\* A release that names another frame than the slot's is for an older buffer.
releaseBuffer(s, frameNumber) ==
  LET r == Unshare(release(mSlots[s])) IN
  /\ Unlocked
  /\ frameNumber = mSlots[s].mFrameNumber \/ mSlots[s].mShared
  /\ isAcquired(mSlots[s])
  /\ mSlots' = [mSlots EXCEPT ![s] = r]
  /\ ToFreeListUnlessShared(s, r)
  /\ NotifyDequeue
  /\ UNCHANGED <<connVars, mQueue, mFreeSlots, mUnusedSlots, modeVars, countVars, frameVars,
                 sharedVars, allocVars, ticketVars, acquire, fault, historyVars>>

ConsumerConnect(controlledByApp) ==
  /\ Unlocked
  /\ ~mIsAbandoned
  /\ mConsumerListener' = TRUE
  /\ mConsumerControlledByApp' = controlledByApp
  /\ UNCHANGED <<mIsAbandoned, mConnectedApi, mSlots, mQueue, listVars, modeVars, countVars,
                 frameVars, sharedVars, allocVars, ticketVars, threadVars, acquire, fault,
                 historyVars>>

\* The consumer goes away for good: the queue is abandoned.
ConsumerDisconnect ==
  /\ Unlocked /\ "abandon" \in Calls
  /\ mConsumerListener
  /\ mIsAbandoned' = TRUE
  /\ mConsumerListener' = FALSE
  /\ mQueue' = <<>>
  /\ freeAllBuffers
  /\ mSharedBufferSlot' = NoSlot
  /\ NotifyDequeue
  /\ UNCHANGED <<mConsumerControlledByApp, mConnectedApi, modeVars, countVars,
                 mBufferHasBeenQueued, mFrameCounter, mSharedBufferMode, mAutoRefresh, allocVars,
                 ticketVars, acquire, fault, historyVars>>

setMaxBufferCount(bufferCount) ==
  /\ Unlocked
  /\ bufferCount \in 1..NUM_BUFFER_SLOTS
  /\ mConnectedApi = NoApi
  /\ bufferCount >= mMaxAcquiredBufferCount
  /\ adjustAvailableSlots(
       getMaxBufferCountFor(mAsyncMode, mDequeueBufferCannotBlock, bufferCount)
         - getMaxBufferCount)
  /\ mMaxBufferCount' = bufferCount
  /\ UNCHANGED <<connVars, mQueue, modeVars, mMaxAcquiredBufferCount, mMaxDequeuedBufferCount,
                 mBufferHasBeenQueued, mFrameCounter, sharedVars, allocVars, ticketVars,
                 threadVars, acquire, fault, historyVars>>

setMaxAcquiredBufferCount(n) ==
  /\ Unlocked
  /\ n \in 1..MAX_MAX_ACQUIRED_BUFFERS
  /\ waitWhileAllocatingDone /\ ~mIsAbandoned
  /\ n # mMaxAcquiredBufferCount
  /\ Cardinality(AcquiredSlots) <= n
  /\ n + mMaxDequeuedBufferCount + Flag(mAsyncMode \/ mDequeueBufferCannotBlock)
       <= mMaxBufferCount
  /\ adjustAvailableSlots(n - mMaxAcquiredBufferCount)
  /\ mMaxAcquiredBufferCount' = n
  /\ anomalies' = anomalies \cup IF Clamped THEN {"clampedAdjust"} ELSE {}
  /\ UNCHANGED <<connVars, mQueue, modeVars, mMaxBufferCount, mMaxDequeuedBufferCount,
                 mBufferHasBeenQueued, mFrameCounter, sharedVars, allocVars, ticketVars,
                 threadVars, acquire, fault, shown>>

discardFreeBuffers ==
  /\ Unlocked /\ "discard" \in Calls
  /\ clearBufferSlots(FreeBufferSet)
  /\ mFreeSlots' = mFreeSlots \cup FreeBufferSet
  /\ mFreeBuffers' = <<>>
  /\ UNCHANGED <<connVars, mQueue, mUnusedSlots, mActiveBuffers, modeVars, countVars,
                 mBufferHasBeenQueued, mFrameCounter, sharedVars, allocVars, ticketVars,
                 threadVars, acquire, fault, historyVars>>

-----------------------------------------------------------------------------
(* The specification.  The calls every client makes are always there; the    *)
(* others are made when Calls names them.                                    *)

DequeueStep(t) ==
  \/ DequeueFails(t) \/ DequeueBlocks(t) \/ DequeueDereferencesNull(t)
  \/ DequeueSharedMisfit(t) \/ DequeueDiscards(t)
  \/ \E s \in Slots, misfit \in BOOLEAN : DequeueTakes(t, s, misfit)

\* Timestamps only matter to a consumer that acquires with a present time.
AutoTimestamps == IF "presentTime" \in Calls THEN BOOLEAN ELSE {TRUE}

\* Steps of a thread, to start a call or inside one.
ProducerStep(t) ==
  \/ DequeueBuffer(t)
  \/ \E s \in Slots, ts \in Times, auto \in AutoTimestamps : QueueBuffer(t, s, ts, auto)
  \/ DequeueWaitForAllocation(t) \/ DequeueStep(t) \/ WaitTimesOut(t)
  \/ \E b \in Buffers : DequeueAllocated(t, b)
  \/ \E failed \in {FALSE, AllocMayFail} : DequeueNotAllocated(t, failed)
  \/ DetachNextWaits(t) \/ detachNextBuffer(t)
  \/ AttachWaitsForAllocation(t) \/ AttachFails(t) \/ AttachBlocks(t)
  \/ \E s \in Slots, b \in Buffers : AttachTakes(t, s, b)
  \/ QueueCallback(t)
  \/ AllocateStart(t)
  \/ \E b \in Buffers : AllocateDone(t, b)
  \/ \E failed \in {FALSE, AllocMayFail} : AllocateRetries(t, failed)
  \/ AllocateYields(t)

ProducerControl ==
  \/ \E s \in Slots : requestBuffer(s) \/ cancelBuffer(s) \/ QueueBadCrop(s)
  \/ \E s \in Args("detach", Slots) : ProducerDetachBuffer(s)
  \/ \E api \in Apis \cup {NoApi}, byApp \in ByApp : Connect(api, byApp)
  \/ Disconnect
  \/ \E n \in Args("maxDequeued", 1..NUM_BUFFER_SLOTS) : setMaxDequeuedBufferCount(n)
  \/ \E async \in Args("asyncMode", BOOLEAN) : setAsyncMode(async)
  \/ \E timeout \in Timeouts : setDequeueTimeout(timeout)
  \/ \E allow \in Args("allowAllocation", BOOLEAN) : allowAllocation(allow)
  \/ \E drop \in Args("legacyDrop", BOOLEAN) : setLegacyBufferDrop(drop)
  \/ \E mode \in Args("sharedMode", BOOLEAN) : setSharedBufferMode(mode)
  \/ \E auto \in Args("autoRefresh", BOOLEAN) : setAutoRefresh(auto)

ConsumerCall ==
  \/ AcquireBuffer
  \/ \E ep \in Args("presentTime", Times), mf \in 0..MaxFrames : AcquireWithTime(ep, mf)
  \/ AcquireDrops \/ AcquireOnTime \/ AcquireLater
  \/ AcquireSharedWaits \/ AcquireShared \/ AcquireSharedStale
  \/ \E s \in Slots, frame \in 0..MaxFrames : releaseBuffer(s, frame)
  \/ \E s \in Args("detach", Slots) : ConsumerDetachBuffer(s)
  \/ \E s \in Args("consumerAttach", Slots), b \in Buffers : ConsumerAttachBuffer(s, b)
  \/ \E byApp \in ByApp : ConsumerConnect(byApp)
  \/ ConsumerDisconnect
  \/ \E n \in Args("maxBufferCount", 1..NUM_BUFFER_SLOTS) : setMaxBufferCount(n)
  \/ \E n \in Args("maxAcquired", 1..NUM_BUFFER_SLOTS) : setMaxAcquiredBufferCount(n)
  \/ discardFreeBuffers

\* The process that holds the queue has crashed.
Crashed == fault /\ UNCHANGED vars

Next ==
  \/ \E t \in Producers : ProducerStep(t)
  \/ ProducerControl
  \/ ConsumerCall
  \/ Crashed

Spec == Init /\ [][Next]_vars

-----------------------------------------------------------------------------
(* Properties. *)

Anomaly == {"allocFailed", "allocOverlap", "lateFree", "clampedAdjust", "sharedMode",
            "sharedDetached"}

SlotRecord ==
  [mDequeueCount : Nat, mQueueCount : Nat, mAcquireCount : Nat, mShared : BOOLEAN,
   mGraphicBuffer : Buffers \cup {NoBuffer}, mRequestBufferCalled : BOOLEAN,
   mFrameNumber : Nat, mAcquireCalled : BOOLEAN, mNeedsReallocation : BOOLEAN]

ItemRecord ==
  [mSlot : Slots, mFrameNumber : Nat, mGraphicBuffer : Buffers \cup {NoBuffer},
   mAcquireCalled : BOOLEAN, mTimestamp : Nat, mIsAutoTimestamp : BOOLEAN,
   mIsDroppable : BOOLEAN, mIsStale : BOOLEAN]

PcValues == {"idle", "dqStart", "dqAllocWait", "dqWait", "dqRetry", "dqLoop", "dqAlloc",
             "atAllocWait", "atWait", "atRetry", "detachNextWait", "callback",
             "abLoop", "abAlloc", "abYield"}

ListTypes ==
  /\ mFreeSlots \subseteq Slots /\ mUnusedSlots \subseteq Slots
  /\ mActiveBuffers \subseteq Slots /\ mFreeBuffers \in Seq(Slots)

ConnTypes ==
  /\ mIsAbandoned \in BOOLEAN /\ mConsumerListener \in BOOLEAN
  /\ mConsumerControlledByApp \in BOOLEAN /\ mConnectedApi \in Apis \cup {NoApi}
SlotTypes == mSlots \in [Slots -> SlotRecord]
QueueTypes == mQueue \in Seq(ItemRecord)
ModeTypes ==
  /\ mAsyncMode \in BOOLEAN /\ mDequeueBufferCannotBlock \in BOOLEAN
  /\ mQueueBufferCanDrop \in BOOLEAN /\ mLegacyBufferDrop \in BOOLEAN
  /\ mAllowAllocation \in BOOLEAN /\ mDequeueTimeout \in Int
CountTypes ==
  mMaxBufferCount \in Nat /\ mMaxAcquiredBufferCount \in Nat /\ mMaxDequeuedBufferCount \in Nat
FrameTypes ==
  /\ mBufferHasBeenQueued \in BOOLEAN /\ mFrameCounter \in Nat
  /\ mLastQueuedSlot \in Slots \cup {NoSlot}
SharedTypes ==
  /\ mSharedBufferMode \in BOOLEAN /\ mAutoRefresh \in BOOLEAN
  /\ mSharedBufferSlot \in Slots \cup {NoSlot}
AllocTypes == mIsAllocating \in BOOLEAN /\ mDequeueWaitingForAllocation \in BOOLEAN
TicketTypes ==
  /\ mNextCallbackTicket \in Nat /\ mCurrentCallbackTicket \in Nat /\ announced \in Nat
  /\ ticketOf \in [Producers -> Nat] /\ frameOf \in [Producers -> Nat]
ThreadTypes ==
  /\ pc \in [Producers -> PcValues] /\ slotOf \in [Producers -> Slots \cup {NoSlot}]
  /\ timedWait \in [Producers -> BOOLEAN]
AcquireTypes ==
  acquire \in [pc : {"idle", "drop", "sharedWait"}, expectedPresent : Nat,
               maxFrameNumber : Nat, dropped : BOOLEAN]
FaultTypes == fault \in BOOLEAN
HistoryTypes ==
  /\ anomalies \subseteq Anomaly /\ shown \in Nat

StateTypes ==
  /\ ConnTypes /\ SlotTypes /\ QueueTypes /\ ModeTypes /\ CountTypes /\ FrameTypes
  /\ SharedTypes /\ AllocTypes /\ TicketTypes /\ ThreadTypes /\ AcquireTypes /\ FaultTypes
  /\ HistoryTypes

\* The type invariant: every variable holds a value of its type.
TypeOK == StateTypes /\ ListTypes

\* What validateConsistencyLocked checks of every slot: it is in exactly one of
\* the four lists, and its state and buffer are what that list says.
ListsConsistent ==
  /\ \A i, j \in DOMAIN mFreeBuffers : i # j => mFreeBuffers[i] # mFreeBuffers[j]
  /\ Slots = mUnusedSlots \cup mFreeSlots \cup FreeBufferSet \cup mActiveBuffers
  /\ mUnusedSlots \cap (mFreeSlots \cup FreeBufferSet \cup mActiveBuffers) = {}
  /\ mFreeSlots \cap (FreeBufferSet \cup mActiveBuffers) = {}
  /\ FreeBufferSet \cap mActiveBuffers = {}
  /\ \A s \in mUnusedSlots \cup mFreeSlots :
       isFree(mSlots[s]) /\ mSlots[s].mGraphicBuffer = NoBuffer
  /\ \A s \in FreeBufferSet : isFree(mSlots[s]) /\ mSlots[s].mGraphicBuffer # NoBuffer
  /\ \A s \in mActiveBuffers : /\ ~isFree(mSlots[s]) \/ mSlots[s].mShared
                               /\ mSlots[s].mGraphicBuffer # NoBuffer \/ mIsAllocating

\* None of the events that break the lists has happened: a failed allocation,
\* two allocations at a time, one that ended after the queue was abandoned and
\* its slot put to another use, a slot detached while it was still shared.
Sound == anomalies \cap {"allocFailed", "allocOverlap", "lateFree", "sharedDetached"} = {}

\* BufferQueueCore::validateConsistencyLocked holds after every critical
\* section, as long as no allocation failed or overlapped another and no slot
\* was detached while it was still shared.
SlotsStayConsistent ==
  Sound => ListsConsistent

\* The count check of validateConsistencyLocked: the slots in circulation are
\* as many as the limits allow, unless a limit was changed while clamped.
SlotCountMatchesLimits ==
  (Sound /\ "clampedAdjust" \notin anomalies) =>
    Cardinality(mFreeSlots \cup FreeBufferSet \cup mActiveBuffers) = getMaxBufferCount

\* A slot has one owner: one that is not shared is in at most one of the
\* states DEQUEUED, QUEUED and ACQUIRED, and in it once.
ExclusiveOwnership ==
  Sound =>
    \A s \in Slots : ~mSlots[s].mShared =>
      mSlots[s].mDequeueCount + mSlots[s].mQueueCount + mSlots[s].mAcquireCount <= 1

\* The FIFO and the slots agree: a slot is queued as often as it has items that
\* are not stale, and those hold the slot's buffer and its last frame number.
QueueMatchesSlots ==
  Sound =>
    \A s \in Slots :
      /\ mSlots[s].mQueueCount =
           Cardinality({i \in DOMAIN mQueue : mQueue[i].mSlot = s /\ ~mQueue[i].mIsStale})
      /\ ~mSlots[s].mShared =>
           \A i \in DOMAIN mQueue : (mQueue[i].mSlot = s /\ ~mQueue[i].mIsStale) =>
             /\ mQueue[i].mGraphicBuffer = mSlots[s].mGraphicBuffer
             /\ mQueue[i].mFrameNumber = mSlots[s].mFrameNumber

\* The frames of the FIFO, as FrameStream sees them.
StreamFrame(item) == [frame |-> item.mFrameNumber, droppable |-> item.mIsDroppable]
Pending == [i \in DOMAIN mQueue |-> StreamFrame(mQueue[i])]

Stream == INSTANCE FrameStream WITH
  alive <- ~mIsAbandoned, posted <- mFrameCounter, pending <- Pending

\* The BufferQueue is a FrameStream: acquireBuffer returns frames in the order
\* of queueBuffer, each once, and none is lost except a droppable one that the
\* next queueBuffer replaces, one dropped in acquireBuffer for a newer one, and
\* those given up when the consumer disconnects.
ImplementsFrameStream == Stream!Spec

\* The frames that wait in the FIFO are in the order of queueBuffer and newer
\* than any frame acquired, across disconnects and reconnects of the producer.
FramesInOrder == Stream!InOrder

\* acquireBuffer drops a frame only for the sake of one it then returns: a call
\* that dropped never ends with PRESENT_LATER, whatever maxFrameNumber says.
DropsEndInAFrame ==
  [][(acquire.dropped /\ acquire'.pc = "idle") => shown' # shown]_vars

\* No callback ticket is lost or given twice: the tickets from the current one
\* to the next one are exactly those of the threads on their way to the
\* callback, so one of them can always go on.
TicketsAccounted ==
  /\ \A k \in mCurrentCallbackTicket..(mNextCallbackTicket - 1) :
       \E t \in Producers : pc[t] = "callback" /\ ticketOf[t] = k
  /\ \A t \in Producers : pc[t] = "callback" =>
       /\ ticketOf[t] \in mCurrentCallbackTicket..(mNextCallbackTicket - 1)
       /\ \A u \in Producers \ {t} : pc[u] = "callback" => ticketOf[u] # ticketOf[t]

\* onFrameAvailable and onFrameReplaced reach the consumer in queue order,
\* however the threads in queueBuffer interleave after the mutex.
CallbacksInOrder == [][announced' # announced => announced' = announced + 1]_vars

\* No wakeup is lost: a thread that sleeps on mDequeueCondition would, if it
\* looked again, still find no slot and still not be told to give up.
SleepersHaveNothingToTake ==
  Unlocked => \A t \in Producers : /\ pc[t] = "dqWait" => Blocks(DequeueCandidates)
                                   /\ pc[t] = "atWait" => Blocks(AttachCandidates)

\* While no two allocations have overlapped, mIsAllocating says exactly whether
\* a thread is allocating outside the mutex, and at most one is.
OneAllocator ==
  "allocOverlap" \notin anomalies =>
    /\ mIsAllocating <=> \E t \in Producers : pc[t] \in {"dqAlloc", "abAlloc"}
    /\ \A t1, t2 \in Producers :
         (pc[t1] \in {"dqAlloc", "abAlloc"} /\ pc[t2] \in {"dqAlloc", "abAlloc"}) => t1 = t2

\* queueBuffer, which reads the size of the slot's buffer without a check, never
\* finds a null one: a dequeued slot that the producer was given holds a buffer,
\* whatever other threads reallocate, detach or free meanwhile.
ReturnedSlotHasBuffer ==
  \A s \in Slots : (isDequeued(mSlots[s]) /\ Returned(s)) => mSlots[s].mGraphicBuffer # NoBuffer

\* The state a slot is in, of the table in BufferSlot.h.
StateOf(r) == CASE r.mShared     -> "SHARED"
                [] ~r.mShared /\ isDequeued(r) -> "DEQUEUED"
                [] ~r.mShared /\ isQueued(r)   -> "QUEUED"
                [] ~r.mShared /\ isAcquired(r) -> "ACQUIRED"
                [] OTHER -> "FREE"

\* The transitions BufferSlot.h documents, and the ones disconnect makes: a
\* slot never goes from the producer to the consumer or back without passing
\* through the queue, and never from FREE to QUEUED.
DocumentedTransitions ==
  [][anomalies' = {} =>
       \A s \in Slots :
         <<StateOf(mSlots[s]), StateOf(mSlots[s])'>> \notin
           {<<"FREE", "QUEUED">>, <<"DEQUEUED", "ACQUIRED">>, <<"QUEUED", "DEQUEUED">>,
            <<"ACQUIRED", "DEQUEUED">>, <<"ACQUIRED", "QUEUED">>}]_vars

-----------------------------------------------------------------------------
(* Statements of the documentation that the code does not keep: each is the  *)
(* property of a run that finds it violated.                                 *)

\* BufferQueueProducer::dequeueBuffer: "If we are not allowed to allocate new
\* buffers, waitForFreeSlotThenRelock must have returned a slot containing a
\* buffer."
FoundSlotHasBuffer ==
  (~mAllowAllocation /\ ~Refused /\ \E t \in Producers : InWaitForFreeSlot(t)) =>
    \A s \in DequeueCandidates : mSlots[s].mGraphicBuffer # NoBuffer

-----------------------------------------------------------------------------
(* Fairness: a thread inside a call keeps running (no thread is starved of   *)
(* the mutex for ever), and the consumer acquires and releases.              *)

\* What a thread inside a call does next.
CallStep(t) ==
  CASE pc[t] = "idle" -> FALSE
    [] pc[t] \in {"dqStart", "dqAllocWait", "dqRetry", "dqLoop"} ->
         DequeueWaitForAllocation(t) \/ DequeueStep(t)
    [] pc[t] = "dqAlloc" ->
         \/ \E b \in Buffers : DequeueAllocated(t, b)
         \/ \E failed \in {FALSE, AllocMayFail} : DequeueNotAllocated(t, failed)
    [] pc[t] \in {"dqWait", "atWait"} -> WaitTimesOut(t)
    [] pc[t] \in {"atAllocWait", "atRetry"} ->
         \/ AttachFails(t) \/ AttachBlocks(t)
         \/ \E s \in Slots, b \in Buffers : AttachTakes(t, s, b)
    [] pc[t] = "detachNextWait" -> detachNextBuffer(t)
    [] pc[t] = "callback" -> QueueCallback(t)
    [] pc[t] = "abLoop" -> AllocateStart(t)
    [] pc[t] = "abAlloc" ->
         \/ \E b \in Buffers : AllocateDone(t, b)
         \/ \E failed \in {FALSE, AllocMayFail} : AllocateRetries(t, failed)
    [] pc[t] = "abYield" -> AllocateYields(t)

Fairness ==
  /\ \A t \in Producers : WF_pc(CallStep(t))
  /\ WF_mQueue(AcquireBuffer)
  /\ \A s \in Slots : WF_mSlots(releaseBuffer(s, mSlots[s].mFrameNumber))

FairSpec == Spec /\ Fairness

\* The calls that sleep on mDequeueCondition in dequeueBuffer.
Sleeping == {t \in Producers : pc[t] = "dqWait"}

\* When a dequeueBuffer sleeps while the consumer holds a buffer, or has one or a
\* stale item in the FIFO to take, all that sleep are woken, though the limits
\* may be lower than they were when they fell asleep.
BlockedDequeueWakes ==
  (Sleeping # {} /\ (mQueue # <<>> \/ AcquiredSlots # {})) ~> Sleeping = {}

\* Unless allocations start and end for ever, no thread stays for ever where
\* dequeueBuffer waits for one, queueBuffer for its callback ticket, or
\* allocateBuffers for a dequeueBuffer to go first: no allocation keeps the flag,
\* and the waits form no cycle.
WaitsEnd ==
  \A t \in Producers :
    \/ []<><<mIsAllocating' # mIsAllocating>>_mIsAllocating
    \/ []<>(pc[t] \notin {"dqAllocWait", "callback", "abYield"})

=============================================================================
