------------------------- MODULE BufferQueueProofs -------------------------
(***************************************************************************)
(* Theorems about BufferQueue, for every number of slots, buffers, threads *)
(* and frames, and every set of calls.                                     *)
(***************************************************************************)
EXTENDS BufferQueueTypes, SequenceTheorems

-----------------------------------------------------------------------------
(* The steps that touch neither the stream of frames nor the callbacks.      *)

\* The same threads are on their way to the callback.
CallbacksKept == \A t \in Producers : pc'[t] = "callback" <=> pc[t] = "callback"

Quiet == /\ UNCHANGED <<mIsAbandoned, mFrameCounter, mQueue, shown, ticketVars>>
         /\ CallbacksKept

\* notify_all wakes no thread that is on its way to the callback.
LEMMA NotifyQuiet == ThreadTypes /\ NotifyDequeue => CallbacksKept
  BY DEF ThreadTypes, NotifyDequeue, Woken, CallbacksKept

\* Nor does a thread that is elsewhere and stays elsewhere count.
LEMMA MoveQuiet ==
  ASSUME ThreadTypes, NEW t \in Producers, pc[t] # "callback", NEW place, place # "callback",
         pc' = [pc EXCEPT ![t] = place]
  PROVE  CallbacksKept
  BY DEF ThreadTypes, CallbacksKept

\* Threads that stay where they are.
LEMMA StillQuiet == UNCHANGED pc => CallbacksKept
  BY DEF CallbacksKept

\* Of the steps of a thread, only queueBuffer and its callback are not quiet.
LEMMA ProducerStepQuiet ==
  ASSUME ThreadTypes, NEW t \in Producers, ProducerStep(t)
  PROVE  \/ Quiet
         \/ \E s \in Slots, ts \in Times, auto \in BOOLEAN : QueueBuffer(t, s, ts, auto)
         \/ QueueCallback(t)
<1> USE DEF connVars, frameVars, historyVars
<1>1. ASSUME DequeueStep(t) PROVE Quiet
  <2>1. pc[t] # "callback"
    BY <1>1, Zenon DEF DequeueStep, DequeueFails, DequeueBlocks, DequeueDereferencesNull,
                DequeueSharedMisfit, DequeueDiscards, DequeueTakes, DequeueRuns, InWaitForFreeSlot
  <2>2. CallbacksKept
    <3>1. CASE DequeueDereferencesNull(t)
      BY <3>1, StillQuiet DEF DequeueDereferencesNull, threadVars
    <3>2. CASE DequeueFails(t) \/ DequeueBlocks(t) \/ DequeueSharedMisfit(t) \/ DequeueDiscards(t)
      BY <2>1, <3>2, MoveQuiet, Zenon
      DEF DequeueFails, DequeueBlocks, DequeueSharedMisfit, DequeueDiscards
    <3>3. CASE \E s \in Slots, misfit \in BOOLEAN : DequeueTakes(t, s, misfit)
      <4>1. PICK place \in {"dqAlloc", "idle"} : pc' = [pc EXCEPT ![t] = place]
        BY <3>3, Zenon DEF DequeueTakes
      <4> QED
        BY <2>1, <4>1, MoveQuiet, Zenon
    <3> QED
      BY <1>1, <3>1, <3>2, <3>3 DEF DequeueStep
  <2>3. UNCHANGED <<mIsAbandoned, mFrameCounter, mQueue, shown, ticketVars>>
    BY <1>1, Zenon DEF DequeueStep, DequeueFails, DequeueBlocks, DequeueDereferencesNull,
                DequeueSharedMisfit, DequeueDiscards, DequeueTakes
  <2> QED
    BY <2>2, <2>3 DEF Quiet
<1>2. ASSUME DequeueBuffer(t) \/ DequeueWaitForAllocation(t) \/ WaitTimesOut(t)
      PROVE  Quiet
  BY <1>2, MoveQuiet, Zenon DEF DequeueBuffer, DequeueWaitForAllocation, WaitTimesOut, Quiet
<1>3. ASSUME \/ \E b \in Buffers : DequeueAllocated(t, b)
             \/ \E failed \in {FALSE, AllocMayFail} : DequeueNotAllocated(t, failed)
      PROVE  Quiet
  BY <1>3, MoveQuiet, Zenon DEF DequeueAllocated, DequeueNotAllocated, Quiet
<1>4. ASSUME DetachNextWaits(t) \/ detachNextBuffer(t)
      PROVE  Quiet
  BY <1>4, MoveQuiet DEF DetachNextWaits, detachNextBuffer, DetachNextAccepted, Quiet
<1>5. ASSUME \/ AttachWaitsForAllocation(t) \/ AttachFails(t) \/ AttachBlocks(t)
             \/ \E s \in Slots, b \in Buffers : AttachTakes(t, s, b)
      PROVE  Quiet
  BY <1>5, MoveQuiet, Zenon
  DEF AttachWaitsForAllocation, AttachFails, AttachBlocks, AttachTakes, AttachRuns,
      AttachAccepted, Quiet
<1>6. ASSUME \/ AllocateStart(t) \/ AllocateYields(t)
             \/ \E b \in Buffers : AllocateDone(t, b)
      PROVE  Quiet
  BY <1>6, MoveQuiet, Zenon DEF AllocateStart, AllocateYields, AllocateDone, Quiet
<1>7. ASSUME \E failed \in {FALSE, AllocMayFail} : AllocateRetries(t, failed)
      PROVE  Quiet
  <2>1. PICK place \in {"idle", "abLoop"} : pc' = [pc EXCEPT ![t] = place]
    BY <1>7, Zenon DEF AllocateRetries
  <2> QED
    BY <1>7, <2>1, MoveQuiet, Zenon DEF AllocateRetries, Quiet
<1> QED
  BY <1>1, <1>2, <1>3, <1>4, <1>5, <1>6, <1>7, Zenon DEF ProducerStep, AutoTimestamps

\* Of the other producer calls, only disconnect is not quiet: it marks the FIFO.
LEMMA ProducerControlQuiet ==
  ASSUME ThreadTypes, ProducerControl
  PROVE  Quiet \/ Disconnect
<1> USE DEF connVars, frameVars, historyVars, threadVars, Quiet
<1>1. ASSUME NEW s \in Slots, requestBuffer(s) \/ cancelBuffer(s) \/ QueueBadCrop(s)
      PROVE  Quiet
  BY <1>1, NotifyQuiet, StillQuiet DEF requestBuffer, cancelBuffer, QueueBadCrop
<1>2. ASSUME NEW s \in Slots, ProducerDetachBuffer(s) PROVE Quiet
  BY <1>2, NotifyQuiet DEF ProducerDetachBuffer, DetachSlot
<1>3. ASSUME NEW api, NEW byApp, Connect(api, byApp) PROVE Quiet
  BY <1>3, StillQuiet DEF Connect
<1>4. ASSUME NEW n, setMaxDequeuedBufferCount(n) PROVE Quiet
  BY <1>4, NotifyQuiet DEF setMaxDequeuedBufferCount
<1>5. ASSUME NEW async, setAsyncMode(async) PROVE Quiet
  BY <1>5, NotifyQuiet DEF setAsyncMode
<1>6. ASSUME NEW timeout, setDequeueTimeout(timeout) PROVE Quiet
  BY <1>6, StillQuiet DEF setDequeueTimeout
<1>7. ASSUME NEW v, \/ allowAllocation(v) \/ setLegacyBufferDrop(v)
                    \/ setSharedBufferMode(v) \/ setAutoRefresh(v)
      PROVE  Quiet
  BY <1>7, StillQuiet DEF allowAllocation, setLegacyBufferDrop, setSharedBufferMode,
                          setAutoRefresh
<1> HIDE DEF Quiet
<1> QED
  BY <1>1, <1>2, <1>3, <1>4, <1>5, <1>6, <1>7 DEF ProducerControl, Args

\* Of the consumer calls, the ones that take frames off the FIFO are not.
LEMMA ConsumerCallQuiet ==
  ASSUME ThreadTypes, ConsumerCall
  PROVE  Quiet \/ AcquireBuffer \/ AcquireOnTime \/ AcquireDrops \/ ConsumerDisconnect
<1> USE DEF connVars, frameVars, historyVars, threadVars, Quiet
<1>1. ASSUME \/ \E ep \in Args("presentTime", Times), mf \in 0..MaxFrames : AcquireWithTime(ep, mf)
             \/ AcquireLater \/ AcquireSharedWaits \/ AcquireSharedStale
      PROVE  Quiet
  BY <1>1, StillQuiet DEF AcquireWithTime, AcquireLater, AcquireSharedWaits, AcquireSharedStale
<1>2. ASSUME AcquireShared PROVE Quiet
  BY <1>2, NotifyQuiet DEF AcquireShared
<1>3. ASSUME NEW s, NEW frame, releaseBuffer(s, frame) PROVE Quiet
  BY <1>3, NotifyQuiet DEF releaseBuffer
<1>4. ASSUME NEW s, ConsumerDetachBuffer(s) PROVE Quiet
  BY <1>4, NotifyQuiet DEF ConsumerDetachBuffer, DetachSlot
<1>5. ASSUME NEW s, NEW b, ConsumerAttachBuffer(s, b) PROVE Quiet
  BY <1>5, StillQuiet DEF ConsumerAttachBuffer
<1>6. ASSUME NEW byApp, ConsumerConnect(byApp) PROVE Quiet
  BY <1>6, StillQuiet DEF ConsumerConnect
<1>7. ASSUME NEW n, setMaxBufferCount(n) PROVE Quiet
  BY <1>7, StillQuiet DEF setMaxBufferCount
<1>8. ASSUME NEW n, setMaxAcquiredBufferCount(n) PROVE Quiet
  BY <1>8, StillQuiet DEF setMaxAcquiredBufferCount
<1>9. ASSUME discardFreeBuffers PROVE Quiet
  BY <1>9, StillQuiet DEF discardFreeBuffers
<1> HIDE DEF Quiet
<1> QED
  BY <1>1, <1>2, <1>3, <1>4, <1>5, <1>6, <1>7, <1>8, <1>9 DEF ConsumerCall

\* Every step is quiet or one of seven.
LEMMA QuietOrNot ==
  ASSUME ThreadTypes, [Next]_vars
  PROVE  \/ Quiet
         \/ \E t \in Producers, s \in Slots, ts \in Times, auto \in BOOLEAN :
              QueueBuffer(t, s, ts, auto)
         \/ \E t \in Producers : QueueCallback(t)
         \/ Disconnect
         \/ AcquireBuffer \/ AcquireOnTime \/ AcquireDrops \/ ConsumerDisconnect
<1>1. CASE UNCHANGED vars
  BY <1>1, StillQuiet DEF vars, connVars, frameVars, historyVars, threadVars, Quiet
<1>2. CASE Next
  BY <1>1, <1>2, ProducerStepQuiet, ProducerControlQuiet, ConsumerCallQuiet DEF Next, Crashed
<1> QED
  BY <1>1, <1>2

-----------------------------------------------------------------------------
(* The callback tickets.                                                     *)

\* The inductive invariant: TicketsAccounted says which thread holds which
\* ticket; the counters tie a ticket to the number of its frame.
TicketInv ==
  /\ TicketsAccounted
  /\ mCurrentCallbackTicket <= mNextCallbackTicket
  /\ announced = mCurrentCallbackTicket
  /\ mFrameCounter = mNextCallbackTicket
  /\ \A t \in Producers : pc[t] = "callback" => frameOf[t] = ticketOf[t] + 1

\* A quiet step moves no ticket.
LEMMA TicketQuiet ==
  ASSUME TicketInv, UNCHANGED <<mFrameCounter, ticketVars>>, CallbacksKept
  PROVE  TicketInv'
  BY DEF TicketInv, TicketsAccounted, ticketVars, CallbacksKept

\* queueBuffer hands the next ticket to the thread that calls it.
LEMMA TicketQueue ==
  ASSUME TypeInv, TicketInv, NEW t \in Producers, NEW s, NEW ts, NEW auto,
         QueueBuffer(t, s, ts, auto)
  PROVE  TicketInv'
<1>1. /\ mNextCallbackTicket' = mNextCallbackTicket + 1
      /\ ticketOf' = [ticketOf EXCEPT ![t] = mNextCallbackTicket]
      /\ frameOf' = [frameOf EXCEPT ![t] = mFrameCounter + 1]
      /\ mFrameCounter' = mFrameCounter + 1
      /\ UNCHANGED <<mCurrentCallbackTicket, announced>>
  BY Zenon DEF QueueBuffer, TakeTicket
<1>2. /\ pc[t] # "callback" /\ pc'[t] = "callback"
      /\ \A u \in Producers \ {t} : pc'[u] = "callback" <=> pc[u] = "callback"
  BY DEF QueueBuffer, Woken
<1>3. /\ mNextCallbackTicket \in Nat /\ mCurrentCallbackTicket \in Nat /\ mFrameCounter \in Nat
      /\ ticketOf \in [Producers -> Nat] /\ frameOf \in [Producers -> Nat]
  BY DEF TypeInv, StateTypes, TicketTypes, FrameTypes
<1>4. ASSUME NEW k \in mCurrentCallbackTicket'..(mNextCallbackTicket' - 1)
      PROVE  \E u \in Producers : pc'[u] = "callback" /\ ticketOf'[u] = k
  <2>1. CASE k = mNextCallbackTicket
    BY <1>1, <1>2, <1>3, <2>1
  <2>2. CASE k # mNextCallbackTicket
    <3>1. k \in mCurrentCallbackTicket..(mNextCallbackTicket - 1)
      BY <1>1, <1>3, <2>2
    <3>2. PICK u \in Producers : pc[u] = "callback" /\ ticketOf[u] = k
      BY <3>1 DEF TicketInv, TicketsAccounted
    <3> QED
      BY <1>1, <1>2, <1>3, <3>2
  <2> QED
    BY <2>1, <2>2
<1>5. ASSUME NEW u \in Producers, pc'[u] = "callback"
      PROVE  /\ ticketOf'[u] \in mCurrentCallbackTicket'..(mNextCallbackTicket' - 1)
             /\ frameOf'[u] = ticketOf'[u] + 1
             /\ \A v \in Producers \ {u} : pc'[v] = "callback" => ticketOf'[v] # ticketOf'[u]
  BY <1>1, <1>2, <1>3, <1>5 DEF TicketInv, TicketsAccounted
<1> QED
  BY <1>1, <1>3, <1>4, <1>5 DEF TicketInv, TicketsAccounted

\* The callback gives the current ticket back, and announces its frame.
LEMMA TicketCallback ==
  ASSUME TypeInv, TicketInv, NEW t \in Producers, QueueCallback(t)
  PROVE  TicketInv' /\ announced' = announced + 1
<1>1. /\ ticketOf[t] = mCurrentCallbackTicket /\ announced' = frameOf[t]
      /\ mCurrentCallbackTicket' = mCurrentCallbackTicket + 1
      /\ ticketOf' = [ticketOf EXCEPT ![t] = 0] /\ frameOf' = [frameOf EXCEPT ![t] = 0]
      /\ UNCHANGED <<mNextCallbackTicket, mFrameCounter>>
  BY DEF QueueCallback, CallbackTurn, frameVars
<1>2. /\ pc[t] = "callback" /\ pc'[t] # "callback"
      /\ \A u \in Producers \ {t} : pc'[u] = pc[u]
  BY DEF QueueCallback, TypeInv, StateTypes, ThreadTypes
<1>3. /\ mNextCallbackTicket \in Nat /\ mCurrentCallbackTicket \in Nat
      /\ ticketOf \in [Producers -> Nat] /\ frameOf \in [Producers -> Nat]
  BY DEF TypeInv, StateTypes, TicketTypes
<1>4. announced' = mCurrentCallbackTicket' /\ announced' = announced + 1
  BY <1>1, <1>2 DEF TicketInv
<1>5. ASSUME NEW k \in mCurrentCallbackTicket'..(mNextCallbackTicket' - 1)
      PROVE  \E u \in Producers : pc'[u] = "callback" /\ ticketOf'[u] = k
  <2>1. k \in mCurrentCallbackTicket..(mNextCallbackTicket - 1) /\ k # mCurrentCallbackTicket
    BY <1>1, <1>3
  <2>2. PICK u \in Producers : pc[u] = "callback" /\ ticketOf[u] = k
    BY <2>1 DEF TicketInv, TicketsAccounted
  <2> QED
    BY <1>1, <1>2, <1>3, <2>1, <2>2
<1>6. ASSUME NEW u \in Producers, pc'[u] = "callback"
      PROVE  /\ ticketOf'[u] \in mCurrentCallbackTicket'..(mNextCallbackTicket' - 1)
             /\ frameOf'[u] = ticketOf'[u] + 1
             /\ \A v \in Producers \ {u} : pc'[v] = "callback" => ticketOf'[v] # ticketOf'[u]
  BY <1>1, <1>2, <1>3, <1>6 DEF TicketInv, TicketsAccounted
<1>7. mCurrentCallbackTicket' <= mNextCallbackTicket'
  BY <1>1, <1>2, <1>3 DEF TicketInv, TicketsAccounted
<1> QED
  BY <1>1, <1>4, <1>5, <1>6, <1>7 DEF TicketInv, TicketsAccounted

\* Every step keeps the tickets and announces, if anything, the next frame.
LEMMA TicketStep ==
  ASSUME TypeInv, TicketInv, [Next]_vars
  PROVE  TicketInv' /\ (announced' # announced => announced' = announced + 1)
<1> USE DEF TypeInv, StateTypes
<1>1. CASE Quiet
  BY <1>1, TicketQuiet DEF Quiet, ticketVars
<1>2. CASE \E t \in Producers, s \in Slots, ts \in Times, auto \in BOOLEAN :
             QueueBuffer(t, s, ts, auto)
  <2>1. UNCHANGED announced
    BY <1>2 DEF QueueBuffer
  <2> QED
    BY <1>2, <2>1, TicketQueue
<1>3. CASE \E t \in Producers : QueueCallback(t)
  BY <1>3, TicketCallback
<1>4. CASE Disconnect \/ ConsumerDisconnect
  BY <1>4, TicketQuiet, NotifyQuiet DEF Disconnect, ConsumerDisconnect, ticketVars
<1>5. CASE AcquireBuffer \/ AcquireOnTime
  BY <1>5, TicketQuiet, NotifyQuiet
  DEF AcquireBuffer, AcquireOnTime, TakeFront, frameVars, ticketVars
<1>6. CASE AcquireDrops
  BY <1>6, TicketQuiet, StillQuiet DEF AcquireDrops, frameVars, ticketVars, threadVars
<1> QED
  BY <1>1, <1>2, <1>3, <1>4, <1>5, <1>6, QuietOrNot

\* Initially no ticket is out.
LEMMA TicketInit == Init => TicketInv
  BY DEF Init, TicketInv, TicketsAccounted

\* The tickets of queueBuffer are never lost and never given twice: with any
\* number of threads in queueBuffer at a time, the tickets between
\* mCurrentCallbackTicket and mNextCallbackTicket are exactly theirs, so the
\* thread whose turn it is exists and no two threads have the same turn.
THEOREM TicketsNeverLost == Spec => []TicketsAccounted
<1>1. TypeInv /\ TicketInv /\ [Next]_vars => (TypeInv /\ TicketInv)'
  BY TypeStep, TicketStep
<1>2. Spec => [](TypeInv /\ TicketInv)
  BY <1>1, TypeInit, TicketInit, PTL DEF Spec
<1>3. TypeInv /\ TicketInv => TicketsAccounted
  BY DEF TicketInv
<1> QED
  BY <1>2, <1>3, PTL

\* onFrameAvailable and onFrameReplaced reach the consumer in the order of the
\* frame numbers, one by one, though queueBuffer calls them outside the mutex.
THEOREM AnnouncedInOrder == Spec => CallbacksInOrder
<1>1. TypeInv /\ TicketInv /\ [Next]_vars => (TypeInv /\ TicketInv)'
  BY TypeStep, TicketStep
<1>2. TypeInv /\ TicketInv /\ [Next]_vars
        => [announced' # announced => announced' = announced + 1]_vars
  BY TicketStep
<1> QED
  BY <1>1, <1>2, TypeInit, TicketInit, PTL DEF Spec, CallbacksInOrder


-----------------------------------------------------------------------------
(* The stream of frames.                                                     *)

\* A sequence is the function of its elements.
LEMMA SeqIsFunction ==
  ASSUME NEW S, NEW q \in Seq(S)
  PROVE  q = [i \in 1..Len(q) |-> q[i]]
  OBVIOUS

\* The frames of the FIFO, one by one.
LEMMA PendingFacts ==
  ASSUME QueueTypes
  PROVE  /\ Len(mQueue) \in Nat /\ DOMAIN mQueue = 1..Len(mQueue)
         /\ Pending \in Seq(Stream!Frame) /\ Len(Pending) = Len(mQueue)
         /\ \A i \in 1..Len(mQueue) : Pending[i] = StreamFrame(mQueue[i])
<1>1. \A item \in ItemRecord : StreamFrame(item) \in Stream!Frame
  BY DEF ItemRecord, StreamFrame, Stream!Frame
<1>2. Len(mQueue) \in Nat /\ DOMAIN mQueue = 1..Len(mQueue)
      /\ \A i \in 1..Len(mQueue) : mQueue[i] \in ItemRecord
  BY DEF QueueTypes
<1> QED
  BY <1>1, <1>2 DEF Pending

\* queueBuffer posts a frame: it replaces the last one if that is droppable.
LEMMA QueuePosts ==
  ASSUME QueueTypes, NEW t \in Producers, NEW s, NEW ts, NEW auto, QueueBuffer(t, s, ts, auto),
         FrameTypes, ModeTypes, SharedTypes
  PROVE  \E droppable \in BOOLEAN : Stream!Post(droppable)
<1> DEFINE item == BufferItem(s, ts, auto)
           last == mQueue[Len(mQueue)]
           new  == [frame |-> mFrameCounter + 1, droppable |-> item.mIsDroppable]
<1>1. /\ ~mIsAbandoned /\ UNCHANGED <<mIsAbandoned, shown>>
      /\ mFrameCounter' = mFrameCounter + 1
      /\ mQueue' = IF mQueue = <<>> \/ ~last.mIsDroppable THEN Append(mQueue, item)
                   ELSE [mQueue EXCEPT ![Len(mQueue)] = item]
  BY Zenon DEF QueueBuffer, connVars, historyVars
<1>2. item.mIsDroppable \in BOOLEAN
  BY Zenon DEF BufferItem, ModeTypes
<1>3. StreamFrame(item) = new
  BY DEF StreamFrame, BufferItem
<1> HIDE DEF item
<1>4. /\ mQueue = <<>> <=> Pending = <<>>
      /\ mQueue # <<>> => (last.mIsDroppable <=> Pending[Len(Pending)].droppable)
  <2>1. mQueue = <<>> <=> Len(mQueue) = 0
    BY DEF QueueTypes
  <2>2. Pending = <<>> <=> Len(Pending) = 0
    BY PendingFacts
  <2>3. mQueue # <<>> => Pending[Len(Pending)] = StreamFrame(last)
    BY <2>1, PendingFacts
  <2> QED
    BY <2>1, <2>2, <2>3, PendingFacts DEF StreamFrame
<1>5. ASSUME mQueue = <<>> \/ ~last.mIsDroppable
      PROVE  Pending' = Append(Pending, new)
  <2>1. mQueue' = Append(mQueue, item)
    BY <1>1, <1>5
  <2>2. DOMAIN mQueue' = 1..(Len(mQueue) + 1)
        /\ \A i \in 1..(Len(mQueue) + 1) :
             mQueue'[i] = IF i = Len(mQueue) + 1 THEN item ELSE mQueue[i]
    BY <2>1 DEF QueueTypes
  <2>3. Pending' = [i \in 1..(Len(mQueue) + 1) |->
                      IF i = Len(mQueue) + 1 THEN new ELSE StreamFrame(mQueue[i])]
    BY <1>3, <2>2 DEF Pending
  <2> QED
    BY <2>3, PendingFacts
<1>6. ASSUME mQueue # <<>>
      PROVE  [mQueue EXCEPT ![Len(mQueue)] = item] = mQueue' =>
               Pending' = [Pending EXCEPT ![Len(Pending)] = new]
  <2> HAVE [mQueue EXCEPT ![Len(mQueue)] = item] = mQueue'
  <2>1. DOMAIN mQueue' = 1..Len(mQueue)
        /\ \A i \in 1..Len(mQueue) :
             mQueue'[i] = IF i = Len(mQueue) THEN item ELSE mQueue[i]
    BY <1>6 DEF QueueTypes
  <2>2. Pending' = [i \in 1..Len(mQueue) |->
                      IF i = Len(mQueue) THEN new ELSE StreamFrame(mQueue[i])]
    BY <1>3, <2>1, Zenon DEF Pending
  <2>3. Pending = [i \in 1..Len(mQueue) |-> StreamFrame(mQueue[i])] /\ Len(Pending) = Len(mQueue)
    BY PendingFacts DEF Pending
  <2> QED
    BY <2>2, <2>3, Zenon
<1>7. Pending' = IF Pending # <<>> /\ Pending[Len(Pending)].droppable
                 THEN [Pending EXCEPT ![Len(Pending)] = new] ELSE Append(Pending, new)
  BY <1>1, <1>4, <1>5, <1>6
<1> QED
  BY <1>1, <1>2, <1>7 DEF Stream!Post

\* An item that leaves the front of the FIFO is the stream's first frame.
LEMMA FrontLeaves ==
  ASSUME QueueTypes, mQueue # <<>>, mQueue' = Tail(mQueue)
  PROVE  Pending # <<>> /\ Pending' = Tail(Pending) /\ Head(Pending).frame = Head(mQueue).mFrameNumber
<1>1. /\ Len(mQueue) > 0 /\ DOMAIN mQueue' = 1..(Len(mQueue) - 1)
      /\ \A i \in 1..(Len(mQueue) - 1) : mQueue'[i] = mQueue[i + 1]
  BY DEF QueueTypes
<1>2. Pending' = [i \in 1..(Len(mQueue) - 1) |-> StreamFrame(mQueue[i + 1])]
  BY <1>1 DEF Pending
<1>3. Pending' = Tail(Pending)
  <2>1. Pending \in Seq(Stream!Frame) /\ Pending # <<>> /\ Len(Pending) = Len(mQueue)
    BY <1>1, PendingFacts
  <2>2. /\ Tail(Pending) \in Seq(Stream!Frame) /\ Len(Tail(Pending)) = Len(mQueue) - 1
        /\ \A i \in 1..(Len(mQueue) - 1) : Tail(Pending)[i] = Pending[i + 1]
    BY <2>1, HeadTailProperties
  <2>3. \A i \in 1..(Len(mQueue) - 1) : Tail(Pending)[i] = StreamFrame(mQueue[i + 1])
    BY <1>1, <2>2, PendingFacts
  <2>4. Tail(Pending) = [i \in 1..(Len(mQueue) - 1) |-> Tail(Pending)[i]]
    BY <2>2, SeqIsFunction, Zenon
  <2> QED
    BY <1>2, <2>3, <2>4
<1>4. Head(Pending) = StreamFrame(Head(mQueue)) /\ Pending # <<>>
  BY <1>1, PendingFacts DEF QueueTypes
<1> QED
  BY <1>3, <1>4 DEF StreamFrame

\* Marking the items stale changes no frame.
LEMMA StaleKeepsFrames ==
  ASSUME QueueTypes, mQueue' = StaleQueue
  PROVE  Pending' = Pending
<1>1. DOMAIN mQueue' = DOMAIN mQueue
  BY Zenon DEF StaleQueue
<1>2. \A i \in DOMAIN mQueue : StreamFrame(mQueue'[i]) = StreamFrame(mQueue[i])
  <2> TAKE i \in DOMAIN mQueue
  <2>1. mQueue'[i] = [mQueue[i] EXCEPT !.mIsStale = TRUE, !.mAcquireCalled = FALSE]
    BY Zenon DEF StaleQueue
  <2>2. mQueue[i] \in ItemRecord
    BY DEF QueueTypes
  <2> QED
    BY <2>1, <2>2 DEF StreamFrame, ItemRecord
<1> QED
  BY <1>1, <1>2 DEF Pending

\* Every step of the queue is a step of the stream, or none.
LEMMA StreamStep ==
  ASSUME TypeInv, [Next]_vars
  PROVE  [Stream!Next]_(Stream!vars)
<1>1. QueueTypes /\ ThreadTypes /\ FrameTypes /\ ModeTypes /\ SharedTypes
  BY DEF TypeInv, StateTypes
<1> HIDE DEF TypeInv
<1>2. CASE Quiet
  BY <1>2 DEF Quiet, Stream!vars, Pending
<1>3. CASE \E t \in Producers, s \in Slots, ts \in Times, auto \in BOOLEAN :
             QueueBuffer(t, s, ts, auto)
  BY <1>1, <1>3, QueuePosts DEF Stream!Next
<1>4. CASE \E t \in Producers : QueueCallback(t)
  BY <1>4 DEF QueueCallback, connVars, frameVars, historyVars, Stream!vars, Pending
<1>5. CASE Disconnect
  BY <1>1, <1>5, StaleKeepsFrames DEF Disconnect, historyVars, Stream!vars
<1>6. CASE AcquireBuffer \/ AcquireOnTime
  <2>1. mQueue # <<>> /\ TakeFront
    BY <1>6 DEF AcquireBuffer, AcquireOnTime, TypeInv, DropHasQueue
  <2>2. /\ mQueue' = Tail(mQueue) /\ shown' = Head(mQueue).mFrameNumber
        /\ UNCHANGED <<mIsAbandoned, mFrameCounter>>
    BY <2>1 DEF TakeFront, connVars, frameVars
  <2> QED
    BY <1>1, <2>1, <2>2, FrontLeaves DEF Stream!Next, Stream!Show
<1>7. CASE AcquireDrops
  <2>1. /\ Len(mQueue) > 1 /\ mQueue' = Tail(mQueue)
        /\ UNCHANGED <<mIsAbandoned, mFrameCounter, shown>>
    BY <1>7, Zenon DEF AcquireDrops, CanDropFront, connVars, frameVars, historyVars
  <2>2. mQueue # <<>> /\ Len(Pending) > 1
    BY <1>1, <2>1, PendingFacts
  <2> QED
    BY <1>1, <2>1, <2>2, FrontLeaves DEF Stream!Next, Stream!Skip
<1>8. CASE ConsumerDisconnect
  <2>1. mIsAbandoned' = TRUE /\ mQueue' = <<>> /\ UNCHANGED <<mFrameCounter, shown>>
    BY <1>8 DEF ConsumerDisconnect, historyVars, frameVars
  <2>2. Pending' = <<>>
    BY <2>1 DEF Pending
  <2> QED
    BY <2>1, <2>2 DEF Stream!Next, Stream!Abandon
<1> QED
  BY <1>1, <1>2, <1>3, <1>4, <1>5, <1>6, <1>7, <1>8, QuietOrNot

\* An empty queue is a stream with no frame.
LEMMA StreamInit == Init => Stream!Init
  BY DEF Init, Stream!Init, Pending

\* Whatever producers and consumer do, a BufferQueue is a FrameStream.
THEOREM QueueIsAStream == Spec => ImplementsFrameStream
<1>1. TypeInv /\ [Next]_vars => [Stream!Next]_(Stream!vars)
  BY StreamStep
<1> QED
  BY <1>1, StreamInit, TypeInit, TypeStep, PTL DEF Spec, ImplementsFrameStream, Stream!Spec

\* The FIFO is in the order of queueBuffer and newer than any frame acquired:
\* what the stream promises, carried over to the queue.
THEOREM FramesAcquiredInOrder == Spec => []FramesInOrder
<1>1. Stream!Spec => [](Stream!TypeOK /\ Stream!InOrder)
  BY Stream!StreamInOrder
<1> QED
  BY <1>1, QueueIsAStream, PTL DEF ImplementsFrameStream, FramesInOrder
=============================================================================
