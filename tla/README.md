# A TLA+ model of the native graphics, input and IPC layer

This directory holds TLA+ specifications of parts of the repository, configurations that model-check them with TLC, and
proofs checked by TLAPS.  Everything is translated from the C++ under `src/`; `PROJECT.json` maps each definition to
the lines it models, lists the runs, the hazards the properties are aimed at and the places where the code and its
documentation disagree.

To check a run: `tlc -config Threads.cfg MCBufferQueue`.  To check the proofs: `tlapm BufferQueueProofs.tla`.

## The system

The tree is the native half of a mobile operating system's framework.  Its parts and what makes them hard:

| part | where | state and operations | hard behaviour |
|---|---|---|---|
| BufferQueue | `libs/gui/BufferQueue*.cpp` | slots, four lists, a FIFO, limits and modes under one mutex; some thirty calls of producer and consumer | allocation outside the mutex, lost wakeups, stale items after a reconnect, shared buffers, callbacks in order |
| consumer and producer ends | `libs/gui/ConsumerBase.cpp`, `Surface.cpp`, `GLConsumer.cpp` | caches of the slots' buffers on each side | a cache that is stale when a slot has been given a new buffer; callbacks against calls |
| BLASTBufferQueue, SurfaceComposerClient | `libs/gui` | buffers turned into transactions; callbacks when they have been shown | release callbacks against new frames |
| Binder | `libs/binder` | handles, reference counts, thread pool, death notifications; an RPC transport over sockets | references that cross in flight, a death while linking |
| servicemanager | `cmds/servicemanager` | names, callbacks, lazy services | a client that arrives while a lazy service shuts down |
| SurfaceFlinger | `services/surfaceflinger` | transactions, layers, vsync scheduling, display hardware | callbacks scheduled, moved and cancelled against a timer; transactions applied out of order |
| InputFlinger | `services/inputflinger`, `libs/input` | event queues, outbound and wait queues per connection, focus, ANR timeouts | finished signals out of order, a channel that breaks in between, timeouts against late answers |
| sensorservice | `services/sensorservice` | activations per connection, event caches, wake-lock acknowledgements | a full socket, a connection that dies |
| BufferHub, BroadcastRing | `libs/vr` | ownership in atomic state words; a lock-free ring buffer | interleavings of atomic operations |
| Vulkan and EGL loaders | `vulkan`, `opengl` | swapchain image states, display reference counts | a swapchain replaced while images are out |
| commands | `cmds` | installd, dumpstate, atrace and others | mostly input and output |

`PROJECT.json` ("components") lists all of them with their sources and what is modelled.  The parts with shared state,
several actors and a protocol come first; parsers, drawing code, statistics, test code, generated code and NDK wrappers
are left out.

Four parts are modelled:

| part | modules | runs |
|---|---|---|
| BufferQueue | `BufferQueue`, `FrameStream`, `MCBufferQueue`; proofs in `BufferQueueTypes`, `BufferQueueProofs`, `BufferQueueAllocProofs`, `FrameStream` | `Threads`, `Limits`, `Attach`, `Shared`, `PresentTime`, `Live`, and three violations |
| BroadcastRing | `BroadcastRing`; proofs in `BroadcastRingProofs` | `Ring` |
| InputDispatcher | `InputConnection`, `InputDispatcher`, `MCInputDispatcher` | `Input` |
| RPC binder | `RpcState`, `MCRpcState`; proofs in `RpcCountProofs`, `RpcSendProofs`, `RpcStateProofs` | `Rpc` |

They are a small share of a very large tree; the plan below says what comes next.

## BufferQueue

`libs/gui`'s BufferQueue is the pipe every graphics buffer goes through: an application (the producer,
`BufferQueueProducer`) dequeues a slot, draws into its buffer and queues it; the compositor or a codec (the consumer,
`BufferQueueConsumer`) acquires it, shows it and releases it.  All shared state is `BufferQueueCore`'s and lies under
one mutex, `mCore->mMutex`.

### State and operations

| code | model (`BufferQueue.tla`) |
|---|---|
| `mSlots[i]` (`BufferSlot`, `BufferState`) | `mSlots[s]`, a record with the three counters, the shared mark, the buffer, and the flags that the calls look at |
| `mQueue` (FIFO of `BufferItem`) | `mQueue`, a sequence of records |
| `mFreeSlots`, `mFreeBuffers`, `mUnusedSlots`, `mActiveBuffers` | the same names: sets, and a sequence for the list |
| `mMutex` | an action is a critical section; the loops that keep the mutex over several rounds (discarding in `dequeueBuffer`, dropping in `acquireBuffer`) are actions during which nobody else has the mutex (`Unlocked`) |
| `mDequeueCondition` | explicit: a sleeping thread has `pc = "dqWait"` or `"atWait"` and `NotifyDequeue` wakes all of them |
| `mIsAllocatingCondition`, `mDequeueWaitingForAllocationCondition`, `mCallbackCondition` | guards on the flag the wait loop tests |
| allocation outside the mutex | `pc = "dqAlloc"`, `"abAlloc"`; ends in `DequeueAllocated`, `DequeueNotAllocated`, `AllocateDone`, `AllocateRetries` |
| callback order of `queueBuffer` | `ticketOf`, `mNextCallbackTicket`, `mCurrentCallbackTicket`; `QueueCallback` |
| a null pointer, an invalid index or a dead iterator is used | `fault`, after which nothing happens |

One action per operation, under the operation's name where TLA+ allows: `requestBuffer`, `dequeueBuffer` (in three
critical sections: `DequeueBuffer`; `DequeueWaitForAllocation`, `DequeueFails`, `DequeueBlocks`,
`DequeueDereferencesNull`, `DequeueSharedMisfit`, `DequeueDiscards`, `DequeueTakes`; `DequeueAllocated`,
`DequeueNotAllocated`), `detachBuffer`, `detachNextBuffer`, `attachBuffer`, `queueBuffer` (`QueueBadCrop`,
`QueueBuffer`, `QueueCallback`), `cancelBuffer`, `connect`, `disconnect` (also what `binderDied` calls),
`allocateBuffers`, the setters of limits and modes, and, of the consumer, `acquireBuffer` (`AcquireBuffer` without a
present time, `AcquireWithTime`, `AcquireDrops`, `AcquireOnTime`, `AcquireLater` with one, `AcquireShared...` for auto
refresh), `detachBuffer`, `attachBuffer`, `releaseBuffer`, `connect`, `disconnect`, `setMaxBufferCount`,
`setMaxAcquiredBufferCount`, `discardFreeBuffers`.

The clients are the most general ones: any thread may make any call at any time.  Two things the clients are trusted
with: a producer names only slots it has been given (`Returned`), and threads make one call at a time.  A buffer that
`attachBuffer` is given may be any, also one that another slot or a queued item has, since the code does not look; an
allocation returns a new one (`FreshBuffers`).  Refused calls change nothing and are not steps.  The constant `Calls` names
the optional calls a configuration makes, so that a run can ask its question with few states.

Slots are interchangeable: where the code takes the lowest index of a `std::set`, the model takes any member, which
allows more behaviours and makes `Symmetry` (permutations of slots, buffers and producers, in `MCBufferQueue`) sound.
Condition variables wake up only when notified: a spurious wakeup would let a sleeper look again, which can hide a
missing notification and never adds one.

History variables record what happened, and no guard reads them: `anomalies` (events after which some invariants are
known not to hold), `announced`, `shown`.

### Properties

* `TypeOK`: the type invariant.
* `SlotsStayConsistent`: what `validateConsistencyLocked` checks (compiled out in most builds) holds after every
  critical section: each slot is in exactly one list, with the state and the buffer that list says.
* `SlotCountMatchesLimits`: the slots in circulation are as many as `getMaxBufferCountLocked()` says.
* `ExclusiveOwnership`: a slot that is not shared has one owner.
* `QueueMatchesSlots`: the items of the FIFO and the `mQueueCount`s agree, also with stale items of earlier connections.
* `ImplementsFrameStream`, `FramesInOrder`, `DropsEndInAFrame`: frames come out in order, none is lost unnoticed; see
  FrameStream below.
* `TicketsAccounted`, `CallbacksInOrder`: callbacks run in queue order and nobody waits for a ticket no one holds.
* `SleepersHaveNothingToTake`: no lost wakeup: a sleeper that looked again would go back to sleep.
* `OneAllocator`: `mIsAllocating` belongs to one thread, while no two allocations have overlapped.
* `ReturnedSlotHasBuffer`: `queueBuffer`, which dereferences the slot's buffer, never finds null.
* `DocumentedTransitions`: the state table in `BufferSlot.h`.
* `BlockedDequeueWakes`, `WaitsEnd`: liveness.

`SlotsStayConsistent`, `ExclusiveOwnership`, `QueueMatchesSlots` and `SlotCountMatchesLimits` are stated for behaviours
without the events in `Sound` (and, for the last, without `clampedAdjust`).  Each of these events is a way in which the
code breaks its own invariant:

* `allocFailed`: a slot whose allocation failed goes to `mFreeSlots` and stays in `mActiveBuffers` (run
  `FailedAllocation`);
* `allocOverlap`: a `dequeueBuffer` that reallocates a free buffer does not wait for the allocation in progress, and the
  first of the two to end resets the flag of both;
* `sharedDetached`: a slot that was shared and has two owners is detached by one of them;
* `lateFree`: the queue is abandoned and the consumer attaches a buffer to a slot whose allocation is still running;
* `clampedAdjust`: a limit changes while `mMaxBufferCount` clamps the sum, and the code adjusts by the wrong difference.

### The abstract specification: FrameStream

`FrameStream` is what a BufferQueue promises about frames: they are posted, shown in that order each at most once, and
one that is never shown was replaced by the next (it was droppable), skipped for a newer one that was waiting, or given
up with the queue.  The refinement mapping (`Stream` in `BufferQueue.tla`) maps the FIFO to the pending frames,
`mFrameCounter` to the number posted, `~mIsAbandoned` to `alive`; every other step is a stutter.

### Runs

Safety, with symmetry; module `MCBufferQueue`:

| run | what is in it | bounds |
|---|---|---|
| `Threads` | two producer threads: the core calls, `allocateBuffers`, attach and `detachNextBuffer` | 3 slots, 4 buffers, 2 frames |
| `Limits` | the three limits change; asynchronous mode, both sides controlled by the app, dequeue timeouts | 4 slots, one thread, one frame |
| `Attach` | attach and detach on both sides, the consumer goes away, discards, allocation off or failing | one thread, 3 slots, 2 frames |
| `Shared` | shared buffer mode and auto refresh | two threads, 2 slots, 2 frames |
| `PresentTime` | present times, frame limits, dropping, reconnects | one thread, 3 frames, 3 times |

The bounds are the smallest at which the interesting cases happen: two threads for every race between callers, one slot
more than the producer's and the consumer's limit together for adjusting, two frames in the FIFO for order, three for
dropping twice, one spare buffer for a reallocation.  Every action of `Next` fires in one of the runs.

Liveness, without symmetry: `Live` under `FairSpec`, with two threads, two slots and two frames; the threads queue,
preallocate and sleep while the consumer lowers `mMaxBufferCount`.  A thread inside a call goes on (`CallStep`, weakly
fair: the scheduler runs threads, and the mutex is given to each of its waiters in the end), and the consumer acquires
and releases.  Starting a call is never fair.  `BlockedDequeueWakes` is not stated for a sleeper when every buffer is
with the producers: then only another call of theirs can wake it.  `WaitsEnd` is stated for behaviours in which
allocations do not start and end for ever: `waitWhileAllocatingLocked` is a condition variable loop, and a thread that
keeps allocating can make it wait for ever.  An allocation that never ended would be no excuse.

Deadlock is checked in all of them.

Three runs end in a violation: the code and what is written about it disagree (findings in `PROJECT.json`).

| run | statement | what happens |
|---|---|---|
| `FailedAllocation` | `ListsConsistent` | a slot whose allocation failed stays in `mActiveBuffers` and is in `mFreeSlots` too |
| `LimitWakeup` | `SleepersHaveNothingToTake` | `setMaxAcquiredBufferCount` adds slots and wakes nobody |
| `SharedAllocating` | `FoundSlotHasBuffer` | the shared slot is handed to a second thread before its buffer exists |

A failed allocation and `allowAllocation(true)` make slots available without a wakeup in the same way, which is why
`SleepersHaveNothingToTake` is a property of `Threads` and not of `Attach`.

### Proofs

For every number of slots, buffers and threads, and every value of the constants allowed by the named assumptions:

* `BufferQueueTypes`: `TypesKept`, the types of all variables but the free lists (`StateTypes`), with one more fact:
  while `acquireBuffer` drops frames the FIFO is not empty.  One step per action; a step that leaves a group of
  variables alone is discharged by the lemma `Kept` for that group.
* `BufferQueueProofs`: `TicketsNeverLost` and `AnnouncedInOrder`.  `TicketsAccounted` alone is not inductive: the
  strengthening says that ticket and frame of a thread on its way to the callback differ by a constant, that the frame
  counter is the next ticket and that the frame last announced is the current one.  Then `QueueIsAStream`, that
  `BufferQueue` implements `FrameStream`: initial states map to initial states and each action is matched with `Post`,
  `Show`, `Skip`, `Abandon` or a stutter; and `FramesAcquiredInOrder`, carried over from the abstract module.
* `BufferQueueAllocProofs`: `AllocationsExclude`, that `OneAllocator` always holds; the inductive invariant adds that
  a thread at an allocation has the flag.
* `FrameStream`: `StreamInOrder`, that its pending frames are ordered and newer than the last shown.

Only model-checked: everything else, liveness (temporal reasoning under fairness is out of the prover's reach), and the
types of the free lists, which need the slot-consistency invariant.

## BroadcastRing

`libs/vr/libbroadcastring` is a ring of records in shared memory with one writer, any number of readers and no locks.
The writer advances `head` past the record it will overwrite (`Reserve`), writes the record word by word and advances
`tail` (`Publish`); a reader loads `tail` and `head`, copies, and looks at `head` again.  The words are relaxed atomics:
two fences are all that orders them.

`BroadcastRing.tla` therefore models the C++ memory model and not a shared memory in which loads return the last store.
A location is the history of the stores to it (`mem`); a reader has a view of how far in each history it has got
(`view`) and what an acquire fence would add to it (`acq`); a load returns any store from the view on; release stores
and release fences attach the writer's view to later stores.  Each location has one writer and readers store nothing,
so this gives all executions the standard allows.  One action per atomic operation or fence: `Reserve` (load of both, a
store and the fence: the writer reads only its own stores), `PutRecordInternal` (a word), `Publish`, and for the reader
`ChooseSequence`, `GetNewest`, `GetTail`, `GetHead`, `GetRecordInternal` (a word), `GetFences`, `GetFinal`.

* `GetConsistent`: what `Get` returns is one record as one `Put` wrote it, and the one its sequence number names, unless
  all sequence numbers were used up during the call, as the header says.  Without the fence in `Reserve` TLC finds a torn
  record.
* `RecordsInOrder`: a reader that goes on from sequence to sequence gets newer and newer records.
* `GetsEnd`: a `Get` ends when the writer stops.  Fairness: both threads run, and a store is seen in the end by a thread
  that keeps loading (the standard's "visible in a finite period of time").

The run `Ring` has two records of two words, six sequence numbers and six puts, so that the numbers come round during a
`Get`: two records and two words are the least at which a record can be torn and a neighbour overwritten, and six puts
lap a reader more than twice.  Readers do not interact, so one stands for all.  Choosing and validating the geometry
(`Create`, `Import`) is sequential arithmetic and not modelled.

### Proof

`BroadcastRingProofs`: `GetAlwaysConsistent`, that `GetConsistent` always holds, for every number of readers, records,
words, sequence numbers and puts that `GeometryAssumption` allows.  `GetConsistent` speaks only of what was returned, so
the inductive invariant `RingInv` (checked with TLC before it was proved) says why it is right:

* of the memory: the *i*-th store to `tail` names record *i* and carries *i* stores to `head`; the *i*-th store to
  `head` is at most `RecordCount` behind; a word of record *n* carries the store to `head` that made room for *n*
  (this is the fence in `Reserve`); who sees the *i*-th store to `tail` sees in no word anything older than record
  *i - 1*'s lap (this is the release store in `Publish`);
* of a reader: it has seen what its `tail` published; `*sequence` is between its `head` and `tail`; each word copied is
  no older than the record wanted, and if it is from record *v* the acquire fence will show it the store to `head` that
  made room for *v*.

In the last step of `Get` the second load of `head` is then at least as new as the newest word copied, and the
comparison of differences (`WindowIs`: the unsigned comparisons mean what they mean without wrapping) bounds all words
to one lap of the ring, where only one record has that index (`NoLaterLap`).  `RecordsInOrder` is only model-checked,
`GetsEnd` is liveness.


## InputDispatcher

`services/inputflinger/dispatcher` takes events from the reader thread and from injectors, one at a time, decides which
windows and monitors get them, publishes them on the sockets of those windows and waits for their finished signals.
Everything is guarded by `mLock`.  The dispatcher thread gives it up while it polls and while it asks the policy
something, and that is where everything else happens: a window is removed, the focus moves, a channel breaks, a timeout
passes.

Two modules:

* `InputConnection.tla` has what is done to one connection: `outboundQueue` and `waitQueue`, `InputState` (which keys
  and gestures the window believes to be down), the `AnrTracker` and the socket pair.  These functions call one another
  under the lock, so they are operators from states to states (`startDispatchCycle`, `enqueueDispatchEntry`, `cancel`,
  `abortBrokenDispatchCycle`, `unregister`, `dequeueFinished`, ...), named after the code's.
* `InputDispatcher.tla` has the queues, focus, touch state, timers and modes as variables and the actions: the reader
  (`NotifyKey`, `NotifyMotion`, `NotifyDeviceReset`), injectors (`InjectInputEvent`, `InjectReturn`), the dispatcher
  thread (`DispatchKey`, `HoldKey`, `DispatchDown`, `HandleReceiveCallback`, `ProcessConnectionAnr`, ...), its calls of
  the policy in two halves (`NotifyAnr`/`AnrNotified`, `DoDispatchCycleFinished`/`UnhandledKeyDispatched`, ...), the
  window manager (`SetInputWindows`, `SetFocusedApplication`, `SetInputDispatchMode`, `UnregisterInputChannel`,
  `PilferPointers`, ...) and the windows themselves (`WindowReceives`, `WindowCloses`).

The abstractions are named at the head of both modules: one display, one pointer per gesture, keys that do not repeat.
The socket pair is that of `libs/input/InputTransport.cpp`: `NewChannel` is `openInputChannelPair`, `room` what
`sendMessage` finds, `WindowReceives` is `receiveMessage`, by a process that takes no lock of the dispatcher and so may
read between any two steps; a socket of this model holds messages, not bytes.
Time is discrete, and every timeout of the code is a constant.

Run `Input`, module `MCInputDispatcher`: two windows, a gesture monitor and a global monitor, sockets for two messages,
one injector.  All calls together are out of TLC's reach, so a behaviour starts with a budget, the calls that it may
make and how often: twenty-three scenarios, each with the calls that interact (the focus moves while keys wait; a channel
breaks during a gesture; the policy extends an ANR while the answer arrives).  Two messages fill a socket with a DOWN and
an UP, so that a third event waits in `outboundQueue`.  Deadlock is checked: the dispatcher can always go on, or sleeps
with nothing to dispatch.

* `InjectionAccounting`: an injector that waits for its event to be finished waits for exactly the entries that
  foreground windows still have, whether they are published, waiting, restarted as a fallback or lost with a channel.
* `Outstanding`: the wait queue of a working connection is exactly what the window was sent and has not been finished,
  in any order of the finished signals.
* `NoStuckOutbound`: a connection with something to publish waits for a finished signal, the only thing that makes it
  publish more.
* `AnrTrackerSound`: the tracker holds no timeout of an event that was finished or of a window that is gone, and a
  window that does not respond has something to respond to.
* `StreamsConsistent`: no window gets the rest of a gesture that it did not see begin or that was cancelled.
* `InputStateMirrorsWindow`: `InputState`, from which cancellations are synthesized, remembers exactly the gestures that
  the window will believe in once it has read all that is published or queued for it.
* `FocusReachesWindow`: once the focus events are read, exactly the focused window believes to have the focus.

The converse of `AnrTrackerSound` is not a property of this code: when the policy extends a timeout by less than what an
event has left, `extendAnrTimeoutsLocked` does not put that event back into the tracker.  All of this is model-checked
only, and no liveness is stated: windows need not answer, and the ANR that follows is the policy's to act on.

Where the model follows the code and a reader of its comments may be surprised:

* `extendAnrTimeoutsLocked` sets `mAwaitedFocusedApplication` to the application that the ANR was about, although the
  focused application may have changed while the policy was asked.  `processNoFocusedWindowAnrLocked` calls that
  "unexpected because we should have reset the ANR timer when focused application changed" and, if no application is
  focused, dereferences a null pointer to report it (`InputDispatcher.cpp:499-501`; `dispatcher.at = "crashed"`).
* A DOWN that another device injects takes the touch state over even when its injection fails, and the gesture before
  it is not cancelled.  A DOWN of a touch screen does the same to an injected gesture whose device id is negative
  (`switchedDevice`, lines 1634-1636).  `StreamsConsistent` therefore requires nothing of a DOWN once something was injected.
* When the policy wanted no fallback for a key, a fallback that it wants later restarts the key with
  `AKEYCODE_UNKNOWN`, although "we will no longer dispatch a fallback key to the application" (line 4952).  Fallback keys
  are never entered in `InputState`, so `CANCEL_FALLBACK_EVENTS` finds none to cancel.
* "Focus events are never dropped", but `resetAndDropEverythingLocked` drains them with the rest of the queue; the
  variable `lostFocus` exempts the windows concerned from `FocusReachesWindow`.

## RPC binder

`libs/binder/RpcState.cpp` carries binders over sockets.  Each end of a session has a `BinderNode` per address, with
how often it has sent and received the binder; a received reference that is not needed is given back with a
`DEC_STRONG` command, and a node goes away when both counts are zero.  Oneway calls on a binder are numbered, because
they travel on independent connections, and put into order by the receiver (`asyncTodo`).

`RpcState.tla` models both ends.  One action per critical section of `mNodeMutex`: what a thread does after it releases
the mutex (send, give a reference back, execute, look the node up again) is another step, and the threads of both ends
interleave.  A *transaction* `t` is one reference on its way and the thread that handles it; its `at` is where that
thread is.  What is on the wire has no order.

| code | actions |
|---|---|
| `onBinderLeaving` | `onProxyLeaving`, `onLocalLeaving` |
| `transactAddress`, `rpcSend`, `CommandData` | `transactAddress`, `sendParcel` (a parcel may fail to go out after its references were counted) |
| `onBinderEntering` | `onBinderEntering`, then `returnReference` (which may find no connection and go on, `NoConnection`) |
| `sendDecStrong`, `BpBinder::onLastStrongRef`, `processDecStrong` | `returnReference`, `onLastStrongRef`, `processDecStrong` |
| `processTransactInternal` for oneway calls | `acceptOneway`, `finishOneway` |
| `clear`, `shutdownAndWait` | `Shutdown`; a handler that ends the session enters `terminating` as it releases the mutex, and its `Shutdown` is a later step |
| references held by the application | `DropProxy`, `DropLocal` |

A check that fails (`LOG_ALWAYS_FATAL_IF`, or an error that the code blames on the other end) is recorded in `fault` and
that process stops.  Two failures lose a reference and go on: a parcel is given up after its references were counted
(`at = "unsent"`), and `ExclusiveConnection::find` has no connection for a `DEC_STRONG` (`at = "kept"` in
`onBinderEntering`, `orphaned` for a dead proxy; both callers ignore the status).  The second happens on a side without
outgoing connections (not in `Connected`), that is a server whose client serves none, on a thread that is not serving
a connection itself; such a side makes no oneway calls either.  `forfeited` and `renumbered` are history: the counts that `clear` dropped, and the proxies that
were rebuilt after oneway calls.

Run `Rpc`, module `MCRpcState`: a binder of the server and one of the client with an address each, one of which is
generated in a behaviour (`MaxUsed`); two references under way at a time, numbers up to 2, queue limit 2, and outgoing
connections at the client only (the client's steps are those of a side that has them, the server's of one that has
none).  Two references are what it takes for a call to overtake another or to cross the `DEC_STRONG` of
an earlier one; numbers up to 2 reach the end of the numbers after two calls were reordered.  Deadlock is not checked: a session ends.

* `OnlyKnownFaults`: of the twelve checks, only the three below can fail.
* `NothingElseLeaks`: when nothing of an address is on its way and its proxy is gone, both ends have erased its node,
  except for a reference that was lost in one of the two ways above; then the node stays.
* `OnewayInOrder`: oneway calls on a binder are executed one at a time in the order of their numbers.
* `OnewayRuns`: a oneway call that was sent is executed.  Fairness: every connection has a thread that reads it
  (`RpcSession::join`) and threads run, so `ServeOneway` is weakly fair for every call, and so is
  `EndSession`, the way of a handler to `shutdownAndWait`; nothing else is.

The three checks that do fail between two correct ends, and when:

* *pending async* (`RpcState.cpp:928`): a proxy makes two oneway calls and is dropped; the second call arrives first and
  is queued, the reference comes back, and `tryEraseNode` aborts with "Can't delete binder w/ pending async
  transactions".
* *expected to be owned* (line 194): the session ends while a proxy is between its last reference and `sendDecStrong`,
  or after a dead proxy could not give its reference back, or a reference to a binder that is gone was kept.
* *end iterator* (lines 694-695): the node of a oneway call was erased, or the session ended, after `onBinderEntering`
  gave its reference back; the result of `find` is used without a test.

Also exempt, and reachable: a proxy that is rebuilt numbers its oneway calls from 0 while the binder's node, if it
is still there, expects to go on (`renumbered`); and a oneway call that gets its number and then no memory leaves a gap
that later calls wait behind (`Gap`; for the counts the code has a TODO at line 462).

### Proofs

For any binders, addresses and transactions (`RpcAssumption`: finitely many transactions, at least one address, an owner for each,
outgoing connections at the client):

* `CountsAgree`: the inductive invariant `IInv` always holds.  `OnlyKnownFaults` alone says nothing of why a look-up
  succeeds; `IInv` does.  For each address and end, `Balanced`: sent = under way + received by the other end + on its
  way back as `DEC_STRONG`, with what was given up and what a `clear` forfeited counted on both sides; `ReceivedIsOwed`:
  received = the threads that still have to give one back, or never could, + one for the proxy, or for the orphan; `NodesOwned`: a node exists, and owns its binder, exactly as its
  counts say.  TLC checked `IInv` first.
* `FaultsKnown`: `OnlyKnownFaults` always holds.
* `NoLeak`: `NothingElseLeaks` always holds.  At rest the two balances leave only lost references on either side, and
  `NodesOwned` turns the counts into nodes (`RestCounts`).

`RpcCountProofs` has the invariant and the lemmas on counting (`CountMoved`, `BalancedStep`), `RpcSendProofs` the actions
that send and the oneway calls, `RpcStateProofs` those that receive and return, and the theorems.  `OnewayInOrder` is only
model-checked; `OnewayRuns` is liveness.

## Plan

Done: see above.  Next, in this order, each as a module that can be proved about (constants with named assumptions, one
action per operation, invariants as conjunctions of named parts):

1. The two ends of a BufferQueue: ConsumerBase's and Surface's slot caches composed with BufferQueue; property: a
   buffer that an end takes out of its cache is the one the queue means.
2. BufferHub's state words, where single atomic operations interleave.
3. InputTransport's finished signals, batching and consumers, composed with InputDispatcher.
4. The pool of connections of an RPC session, and BpBinder's death recipients.
5. The vsync dispatcher, EventThread and OneShotTimer of SurfaceFlinger's scheduler.
6. servicemanager with lazy services.
7. SurfaceFlinger's transaction queue, BLASTBufferQueue and the completed-transaction callbacks.
8. sensorservice connections; swapchain images; adbd_auth.

Proofs to come: the slot-consistency invariant of BufferQueue without shared buffer mode (the lists partition the
slots, every list says the state of its slots, an allocating thread's slot is active and empty), which gives the types
of the free lists, `SlotsStayConsistent` and `ExclusiveOwnership` for every number of slots; then the safety invariants
of InputDispatcher (`Outstanding` and `InjectionAccounting` first) and the order of oneway calls.

## What is not modelled

Fences, and everything a buffer contains: no property depends on them.  Sizes, formats and usage bits, except for
their effect, whether a buffer has to be reallocated.  Generation numbers, which only refuse calls.  The sideband
stream, prerotation and frame timestamps.  Of input: several displays and pointers, split and hover, key repeat, touch
transfer, paused windows, permissions, portal and outside targets.  Of RPC: the pool of connections except that a side may have none, session setup,
special transactions and the wire format.  The kernel, the HALs and the binder driver, except as environments.  The
components listed as not modelled in `PROJECT.json`.

Three things stay with TLC because TLAPS cannot do them: liveness under fairness and ENABLED; induction over data,
which is what a statement about a recursive function for every input needs; and operators declared RECURSIVE.
