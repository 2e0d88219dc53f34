-------------------------- MODULE InputDispatcher --------------------------
(***************************************************************************)
(* The InputDispatcher of services/inputflinger.  The reader thread and    *)
(* injectors put events into mInboundQueue; the dispatcher thread takes    *)
(* them out one at a time, finds the windows and monitors they go to and   *)
(* publishes them; windows answer with finished signals; the window        *)
(* manager changes windows, focus and channels at any time.                *)
(*                                                                         *)
(* Everything is guarded by mLock.  The dispatcher thread gives it up only *)
(* while it polls and while a command calls the policy, so the other       *)
(* threads act when dispatcher.at is "poll" or "policy".                   *)
(*                                                                         *)
(* Time is discrete; the constants name the code's timeouts in its unit.   *)
(* The keys carry POLICY_FLAG_DISABLE_KEY_REPEAT, windows are never        *)
(* paused, and injectors have the permission they need.                    *)
(***************************************************************************)
EXTENDS InputConnection
LOCAL INSTANCE SequencesExt
LOCAL INSTANCE FiniteSetsExt

CONSTANTS
  HomeKeys,            \* the key codes isAppSwitchKeyCode accepts
  Budgets,             \* how often a behaviour makes which of the calls
  Extensions,          \* answers of the policy's notifyAnr
  Delays,              \* answers of interceptKeyBeforeDispatching
  KEY_WAITING_FOR_EVENTS_TIMEOUT,
  APP_SWITCH_TIMEOUT,
  STALE_EVENT_TIMEOUT

ASSUME BoundsAssumption ==
  /\ \A b \in Budgets : DOMAIN b \subseteq STRING /\ \A n \in DOMAIN b : b[n] \in Nat
  /\ Extensions \subseteq Nat /\ Delays \subseteq Int

VARIABLES
  connections,         \* mConnectionsByFd, mAnrTracker: see InputConnection
  channels,            \* the sockets and the windows behind them
  injections,          \* InjectionStates and the threads that wait on them
  mCommandQueue,
  mInboundQueue,
  mPendingEvent,
  mNextUnblockedEvent, \* the id of the event, or None
  mAppSwitch,          \* [saw: mAppSwitchSawKeyDown, due: mAppSwitchDueTime]
  mWindowHandles,      \* the windows of mWindowHandlesByDisplay
  mFocusedWindow,
  mFocusedApplication,
  mTouchState,
  mAwaited,            \* mAwaitedFocusedApplication, mNoFocusedWindowTimeoutTime
  mKeyIsWaitingForEventsTimeout,
  mDispatchEnabled,
  mDispatchFrozen,
  dispatcher,          \* where the dispatcher thread is
  reader,              \* what the device has down; the number of events so far
  lostFocus,           \* windows whose focus event was drained from the queue
  calls,               \* the calls that this behaviour may still make
  clock

work == <<connections, channels, injections, mCommandQueue>>
queue == <<mInboundQueue, mPendingEvent, mNextUnblockedEvent, mAppSwitch>>
world == <<mWindowHandles, mFocusedWindow, mFocusedApplication>>
timers == <<mAwaited, mKeyIsWaitingForEventsTimeout>>
mode == <<mDispatchEnabled, mDispatchFrozen>>
bounds == <<reader, calls>>
vars == <<work, queue, world, mTouchState, timers, mode, dispatcher, lostFocus,
          bounds, clock>>

\* The part of the state that InputConnection's operators change.
Current == [con |-> connections, chan |-> channels, inj |-> injections,
            cmd |-> mCommandQueue]
Become(S) == /\ connections' = S.con
             /\ channels' = S.chan
             /\ injections' = S.inj
             /\ mCommandQueue' = S.cmd

May(name) == name \in DOMAIN calls
Spend(name) == /\ May(name) /\ calls[name] > 0
               /\ calls' = [calls EXCEPT ![name] = @ - 1]

Unlocked == dispatcher.at \in {"poll", "policy"}

NoTouch == [down |-> FALSE, dev |-> None, win |-> None, monitors |-> {}]
NotAwaited == [app |-> None, time |-> None]
Poll == [at |-> "poll", then |-> "poll"]

\* A behaviour begins either with an empty display, whose windows are still
\* to be registered, or with the windows in place and the focus event of the
\* focused one delivered.
Init ==
  /\ calls \in Budgets
  /\ connections = [c \in Channels |->
       [NewConnection EXCEPT !.status =
          IF (IF c \in Windows THEN May("register") ELSE ~May("monitor"))
          THEN "NEW" ELSE @]]
  /\ mWindowHandles = IF May("register") THEN {} ELSE Windows
  /\ mFocusedWindow \in IF May("register") THEN {None} ELSE Windows
  /\ mFocusedApplication = mFocusedWindow
  /\ channels = [c \in Channels |-> [NewChannel EXCEPT !.focus = c = mFocusedWindow]]
  /\ injections = [i \in Injections |->
       [at |-> "idle", sync |-> "NONE", result |-> "PENDING", pending |-> 0,
        deadline |-> 0]]
  /\ mCommandQueue = <<>>
  /\ mInboundQueue = <<>> /\ mPendingEvent = None
  /\ mNextUnblockedEvent = None
  /\ mAppSwitch = [saw |-> FALSE, due |-> None]
  /\ mTouchState = NoTouch
  /\ mAwaited = NotAwaited /\ mKeyIsWaitingForEventsTimeout = None
  /\ mDispatchEnabled = TRUE /\ mDispatchFrozen = FALSE
  /\ dispatcher = Poll
  /\ reader = [keys |-> {}, touch |-> FALSE, events |-> 0]
  /\ lostFocus = {} /\ clock = 0

-----------------------------------------------------------------------------
(* The inbound queue *)

\* findTouchedWindowAtLocked.
windowAt(e) == IF e.to \in mWindowHandles THEN e.to ELSE None

responsiveMonitors ==
  {c \in GestureMonitors \cap Registered(Current) : connections[c].responsive}

\* shouldPruneInboundQueueLocked: somebody touches another application, or a
\* gesture monitor, while the dispatcher waits for a window to get the focus.
shouldPruneInboundQueue(e) ==
  /\ e.action = "DOWN"
  /\ mAwaited.app # None
  /\ \/ windowAt(e) \notin {None, mAwaited.app}
     \/ responsiveMonitors # {}

isAppSwitchKey(e) == e.type = "KEY" /\ e.code \in HomeKeys /\ e.pass

\* enqueueInboundEventLocked.
enqueueInboundEvent(e) ==
  /\ mInboundQueue' = Append(mInboundQueue, e)
  /\ mAppSwitch' =
       CASE isAppSwitchKey(e) /\ e.action = "DOWN" ->
              [mAppSwitch EXCEPT !.saw = TRUE]
         [] isAppSwitchKey(e) /\ e.action = "UP" /\ mAppSwitch.saw ->
              [saw |-> FALSE, due |-> e.time + APP_SWITCH_TIMEOUT]
         [] OTHER -> mAppSwitch
  /\ LET prune == e.type = "MOTION" /\ shouldPruneInboundQueue(e)
     IN /\ mNextUnblockedEvent' = IF prune THEN e.id ELSE mNextUnblockedEvent
        /\ mKeyIsWaitingForEventsTimeout' =
             IF /\ e.type = "MOTION" /\ e.action = "DOWN" /\ ~prune
                /\ mKeyIsWaitingForEventsTimeout # None
             THEN clock ELSE mKeyIsWaitingForEventsTimeout

\* notifyKey, notifyMotion and notifyDeviceReset: the device's streams are
\* consistent.  The policy may have taken PASS_TO_USER from a key.
NotifyKey ==
  \E code \in IF May("home") THEN HomeKeys ELSE Keys \ HomeKeys,
     pass \in IF May("policy") THEN BOOLEAN ELSE {TRUE} :
    LET action == IF code \in reader.keys THEN "UP" ELSE "DOWN"
    IN /\ Unlocked /\ Spend("key")
       /\ enqueueInboundEvent(Event(reader.events + 1, "KEY", action, code, "hw",
                                    None, pass, clock, None))
       /\ reader' = [reader EXCEPT !.events = @ + 1,
                       !.keys = IF action = "UP" THEN @ \ {code}
                                ELSE @ \cup {code}]
       /\ UNCHANGED <<work, mPendingEvent, world, mTouchState, mAwaited, mode,
                      dispatcher, lostFocus, clock>>

NotifyMotion ==
  \E action \in IF reader.touch THEN {"MOVE", "UP"} ELSE {"DOWN"} :
  \E w \in IF action = "DOWN" THEN Windows \cup {None} ELSE {None} :
    /\ Unlocked /\ Spend("motion")
    /\ enqueueInboundEvent(Event(reader.events + 1, "MOTION", action, None, "hw",
                                 w, TRUE, clock, None))
    /\ reader' = [reader EXCEPT !.events = @ + 1, !.touch = action # "UP"]
    /\ UNCHANGED <<work, mPendingEvent, world, mTouchState, mAwaited, mode,
                   dispatcher, lostFocus, clock>>

NotifyDeviceReset ==
  /\ Unlocked /\ Spend("reset")
  /\ enqueueInboundEvent(Event(reader.events + 1, "DEVICE_RESET", None, None,
                               "hw", None, TRUE, clock, None))
  /\ reader' = [keys |-> {}, touch |-> FALSE, events |-> reader.events + 1]
  /\ UNCHANGED <<work, mPendingEvent, world, mTouchState, mAwaited, mode,
                 dispatcher, lostFocus, clock>>

\* injectInputEvent up to the first wait.
InjectInputEvent(i) ==
  \E sync \in {"NONE", "WAIT_FOR_RESULT", "WAIT_FOR_FINISHED"},
     type \in {"KEY", "MOTION"}, action \in {"DOWN", "UP"} :
    \E code \in IF type = "KEY" THEN Keys ELSE {None},
       w \in IF type = "MOTION" /\ action = "DOWN" THEN Windows \cup {None}
             ELSE {None} :
      /\ Unlocked /\ Spend("inject")
      /\ injections[i].at = "idle"
      /\ injections' = [injections EXCEPT
           ![i] = [at |-> "wait", sync |-> sync, result |-> "PENDING",
                   pending |-> 0, deadline |-> clock + 1]]
      /\ enqueueInboundEvent(Event(reader.events + 1, type, action, code,
                                   "virtual", w, TRUE, clock, i))
      /\ reader' = [reader EXCEPT !.events = @ + 1]
      /\ UNCHANGED <<connections, channels, mCommandQueue, mPendingEvent, world,
                     mTouchState, mAwaited, mode, dispatcher, lostFocus, clock>>

\* The rest of injectInputEvent: the result, or TIMED_OUT.
InjectReturn(i) ==
  LET n == injections[i]
      ready == \/ n.sync = "NONE"
               \/ n.result # "PENDING"
                  /\ \/ n.sync = "WAIT_FOR_RESULT"
                     \/ n.result # "SUCCEEDED"
                     \/ n.pending = 0
  IN /\ Unlocked /\ n.at = "wait"
     /\ ready \/ n.deadline <= clock
     /\ injections' = [injections EXCEPT
          ![i].at = CASE ~ready -> "TIMED_OUT"
                      [] n.sync = "NONE" -> "SUCCEEDED"
                      [] OTHER -> n.result]
     /\ UNCHANGED <<connections, channels, mCommandQueue, queue, world,
                    mTouchState, timers, mode, dispatcher, bounds, lostFocus,
                    clock>>

-----------------------------------------------------------------------------
(* The dispatcher thread: dispatchOnce *)

\* The thread runs commands; "then" is what follows them: processAnrsLocked,
\* the return of a receive callback, or its removal of a channel.
Run(then) == [at |-> "run", then |-> then]

\* The event to dispatch, and the inbound queue without it.
hasEvent == mPendingEvent # None \/ mInboundQueue # <<>>
event == IF mPendingEvent # None THEN mPendingEvent ELSE Head(mInboundQueue)
others == IF mPendingEvent # None THEN mInboundQueue ELSE Tail(mInboundQueue)

\* dispatchOnceInnerLocked has an event of some type to dispatch.
Dispatching(type) ==
  /\ dispatcher.at = "poll"
  /\ mCommandQueue = <<>>
  /\ ~mDispatchFrozen
  /\ hasEvent /\ event.type = type
  /\ dispatcher' = Run("anr")

\* pokeUserActivityLocked, for a key or motion.  No window has
\* INPUT_FEATURE_DISABLE_USER_ACTIVITY.
poke(S) == post(S, [cmd |-> "poke"])

\* The event has just been taken from the queue.
pokeUserActivity == IF mPendingEvent = None /\ event.pass THEN poke(Current)
                    ELSE Current

isAppSwitchDue == mAppSwitch.due # None /\ mAppSwitch.due <= clock
unblocked == IF mNextUnblockedEvent = event.id THEN None ELSE mNextUnblockedEvent

dropReason ==
  CASE ~event.pass -> "POLICY"
    [] ~mDispatchEnabled -> "DISABLED"
    [] isAppSwitchDue /\ ~isAppSwitchKey(event) -> "APP_SWITCH"
    [] clock - event.time >= STALE_EVENT_TIMEOUT -> "STALE"
    [] unblocked # None -> "BLOCKED"
    [] OTHER -> "NOT_DROPPED"

\* The event is not done with: it stays, as e, the pending event.
keepPendingEvent(e) ==
  /\ mPendingEvent' = e
  /\ mInboundQueue' = others
  /\ mNextUnblockedEvent' = unblocked

\* releasePendingEventLocked, once the event is done with.
releasePendingEvent(S) ==
  /\ Become(IF event.inj # None /\ S.inj[event.inj].result = "PENDING"
            THEN setInjectionResult(S, event.inj, "FAILED") ELSE S)
  /\ mPendingEvent' = None
  /\ mInboundQueue' = others
  /\ mNextUnblockedEvent' = unblocked

\* dropInboundEventLocked.
dropInboundEvent(S) ==
  cancelAll(S, Channels, IF event.type = "KEY" THEN "NON_POINTER" ELSE "POINTER",
            None, clock)

\* processAnrsLocked will find that somebody has been waited for too long.
focusedWindowDue == /\ mAwaited.app # None /\ mAwaited.time # None
                    /\ clock >= mAwaited.time
firstTimeout ==
  Min({clock + 1} \cup UNION {DOMAIN connections[c].tracked : c \in Channels})

\* There are commands to run first, dispatching is frozen, or there is no
\* event.  A wakeup that finds no work at all is left out.
DispatchNothing ==
  /\ dispatcher.at = "poll"
  /\ mCommandQueue # <<>> \/ mDispatchFrozen \/ ~hasEvent
  /\ \/ mCommandQueue # <<>> \/ focusedWindowDue \/ firstTimeout <= clock
     \/ ~mDispatchFrozen /\ isAppSwitchDue
  /\ dispatcher' = Run("anr")
  /\ mAppSwitch' = IF mCommandQueue = <<>> /\ ~mDispatchFrozen /\ isAppSwitchDue
                   THEN [mAppSwitch EXCEPT !.due = None] ELSE mAppSwitch
  /\ UNCHANGED <<work, mInboundQueue, mPendingEvent, mNextUnblockedEvent, world,
                 mTouchState, timers, mode, bounds, lostFocus, clock>>

\* addWindowTargetLocked, addMonitoringTargetLocked and dispatchEventLocked:
\* a window that has a channel, then the monitors.
dispatchEvent(S, w, monitors) ==
  LET P == poke(S)
      W == IF w \in Registered(S)
           THEN prepareDispatchCycle(P, w, event, TRUE,
                  w \in mWindowHandles /\ mFocusedWindow # w, clock)
           ELSE P
  IN FoldSet(LAMBDA c, T : prepareDispatchCycle(T, c, event, FALSE, FALSE, clock),
             W, monitors \cap Registered(S))

DispatchFocus ==
  /\ Dispatching("FOCUS")
  /\ releasePendingEvent(
       IF event.to \in Registered(Current)
       THEN prepareDispatchCycle(Current, event.to, event, FALSE, FALSE, clock)
       ELSE Current)
  /\ UNCHANGED <<mAppSwitch, world, mTouchState, timers, mode, bounds, lostFocus,
                 clock>>

DispatchDeviceReset ==
  /\ Dispatching("DEVICE_RESET")
  /\ releasePendingEvent(cancelAll(Current, Channels, "ALL", event.dev, clock))
  /\ UNCHANGED <<mAppSwitch, world, mTouchState, timers, mode, bounds, lostFocus,
                 clock>>

-----------------------------------------------------------------------------
(* Keys *)

appSwitchHandled ==
  IF isAppSwitchDue /\ isAppSwitchKey(event)
  THEN [mAppSwitch EXCEPT !.due = None] ELSE mAppSwitch

\* The policy asked to try again later, and it is not yet later.
policyDelays == event.intercept = "TRY_AGAIN_LATER" /\ clock < event.wakeup

\* dispatchKeyLocked asks the policy before anything else.
DispatchKeyToPolicy ==
  /\ Dispatching("KEY")
  /\ event.pass /\ event.intercept \in {"UNKNOWN", "TRY_AGAIN_LATER"}
  /\ keepPendingEvent(IF policyDelays THEN event
                      ELSE [event EXCEPT !.intercept = "UNKNOWN", !.wakeup = 0])
  /\ Become(IF policyDelays THEN pokeUserActivity
            ELSE post(pokeUserActivity, [cmd |-> "intercept", id |-> event.id]))
  /\ mAppSwitch' = appSwitchHandled
  /\ UNCHANGED <<world, mTouchState, timers, mode, bounds, lostFocus, clock>>

policyDecided == ~event.pass \/ event.intercept \in {"SKIP", "CONTINUE"}
keyDropReason == IF dropReason = "NOT_DROPPED" /\ event.intercept = "SKIP"
                 THEN "POLICY" ELSE dropReason

DropKey ==
  /\ Dispatching("KEY") /\ policyDecided
  /\ keyDropReason # "NOT_DROPPED"
  /\ releasePendingEvent(dropInboundEvent(
       setInjectionResult(pokeUserActivity, event.inj,
         IF keyDropReason = "POLICY" THEN "SUCCEEDED" ELSE "FAILED")))
  /\ mAppSwitch' = appSwitchHandled
  /\ UNCHANGED <<world, mTouchState, timers, mode, bounds, lostFocus, clock>>

\* shouldWaitToSendKeyLocked: events that windows still work on may move the
\* focus, so the key waits for them, but not for ever.
trackerIsEmpty == \A c \in Channels : connections[c].tracked = EmptyBag
keyMayGo == \/ trackerIsEmpty
            \/ mKeyIsWaitingForEventsTimeout # None
               /\ clock >= mKeyIsWaitingForEventsTimeout
shouldWaitToSendKey ==
  /\ ~keyMayGo
  /\ mKeyIsWaitingForEventsTimeout' =
       IF mKeyIsWaitingForEventsTimeout = None
       THEN clock + KEY_WAITING_FOR_EVENTS_TIMEOUT
       ELSE mKeyIsWaitingForEventsTimeout

waitedTooLong == mAwaited.time # None /\ clock > mAwaited.time

\* findFocusedWindowTargetsLocked answers PENDING.
HoldKey ==
  /\ Dispatching("KEY") /\ policyDecided
  /\ keyDropReason = "NOT_DROPPED"
  /\ \/ /\ mFocusedWindow = None /\ mFocusedApplication # None
        /\ ~waitedTooLong
        /\ mAwaited' = IF mAwaited.time # None THEN mAwaited
                       ELSE [app |-> mFocusedApplication,
                             time |-> clock + DISPATCHING_TIMEOUT]
        /\ UNCHANGED mKeyIsWaitingForEventsTimeout
     \/ /\ mFocusedWindow # None
        /\ shouldWaitToSendKey
        /\ mAwaited' = NotAwaited
  /\ keepPendingEvent(event)
  /\ Become(pokeUserActivity)
  /\ mAppSwitch' = appSwitchHandled
  /\ UNCHANGED <<world, mTouchState, mode, bounds, lostFocus, clock>>

\* It answers FAILED: nobody has the focus.
FailKey ==
  /\ Dispatching("KEY") /\ policyDecided
  /\ keyDropReason = "NOT_DROPPED"
  /\ mFocusedWindow = None
  /\ \/ mFocusedApplication = None
     \/ waitedTooLong
  /\ releasePendingEvent(setInjectionResult(pokeUserActivity, event.inj, "FAILED"))
  /\ mAppSwitch' = appSwitchHandled
  /\ UNCHANGED <<world, mTouchState, timers, mode, bounds, lostFocus, clock>>

\* It answers SUCCEEDED.
DispatchKey ==
  /\ Dispatching("KEY") /\ policyDecided
  /\ keyDropReason = "NOT_DROPPED"
  /\ mFocusedWindow # None /\ keyMayGo
  /\ mKeyIsWaitingForEventsTimeout' = None
  /\ mAwaited' = NotAwaited
  /\ releasePendingEvent(
       dispatchEvent(setInjectionResult(pokeUserActivity, event.inj, "SUCCEEDED"),
                     mFocusedWindow, GlobalMonitors))
  /\ mAppSwitch' = appSwitchHandled
  /\ UNCHANGED <<world, mTouchState, mode, bounds, lostFocus, clock>>

-----------------------------------------------------------------------------
(* Motions *)

\* The end of findTouchedWindowTargetsLocked.
saveTouchState(touch) ==
  mTouchState' = IF event.action = "UP" THEN NoTouch ELSE touch

\* dispatchMotionLocked, once findTouchedWindowTargetsLocked has returned.
\* touch is tempTouchState, result the injection result, conflict
\* outConflictingPointerActions.
finishMotion(touch, result, conflict) ==
  LET S == setInjectionResult(pokeUserActivity, event.inj, result)
      C == IF conflict THEN cancelAll(S, Channels, "POINTER", None, clock) ELSE S
  IN /\ releasePendingEvent(
          CASE result = "PERMISSION_DENIED" -> S
            [] result = "FAILED" -> cancelAll(S, Monitors, "POINTER", None, clock)
            [] OTHER -> dispatchEvent(C, touch.win, touch.monitors \cup GlobalMonitors))
     /\ saveTouchState(touch)
     /\ UNCHANGED <<mAppSwitch, world, timers, mode, bounds, lostFocus, clock>>

DropMotion ==
  /\ Dispatching("MOTION")
  /\ dropReason # "NOT_DROPPED"
  /\ releasePendingEvent(dropInboundEvent(
       setInjectionResult(pokeUserActivity, event.inj,
         IF dropReason = "POLICY" THEN "SUCCEEDED" ELSE "FAILED")))
  /\ UNCHANGED <<mAppSwitch, world, mTouchState, timers, mode, bounds, lostFocus,
                 clock>>

\* Another device's gesture is under way.  The id of the device of injected
\* events is negative, so theirs does not count.
switchedDevice == mTouchState.dev \notin {None, "virtual", event.dev}

\* A gesture begins: it goes to the window under the pointer unless that
\* window has no connection or does not respond, and to the monitors.
DispatchDown ==
  /\ Dispatching("MOTION") /\ dropReason = "NOT_DROPPED"
  /\ event.action = "DOWN"
  /\ LET w == windowAt(event)
         win == IF w \in Registered(Current) /\ connections[w].responsive
                THEN w ELSE None
         touch == [down |-> TRUE, dev |-> event.dev, win |-> win,
                   monitors |-> responsiveMonitors]
     IN finishMotion(touch,
          IF win = None /\ responsiveMonitors = {} THEN "FAILED" ELSE "SUCCEEDED",
          switchedDevice \/ mTouchState.down)

\* A gesture goes on: it goes where it began.
DispatchMoveOrUp ==
  /\ Dispatching("MOTION") /\ dropReason = "NOT_DROPPED"
  /\ event.action # "DOWN"
  /\ finishMotion(mTouchState,
       CASE switchedDevice /\ event.action = "MOVE" -> "PERMISSION_DENIED"
         [] ~mTouchState.down -> "FAILED"
         [] mTouchState.win = None /\ mTouchState.monitors = {} -> "FAILED"
         [] OTHER -> "SUCCEEDED",
       switchedDevice)

-----------------------------------------------------------------------------
(* Commands: runCommandsLockedInterruptible *)

running(cmd) ==
  /\ dispatcher.at = "run"
  /\ mCommandQueue # <<>> /\ Head(mCommandQueue).cmd = cmd

popped == [Current EXCEPT !.cmd = Tail(@)]
command == Head(mCommandQueue)

\* A command calls the policy without the lock ...
callPolicy(S, call) ==
  /\ Become(S)
  /\ dispatcher' = [at |-> "policy", then |-> dispatcher.then, call |-> call]

\* ... and goes on when the policy returns.
policyReturns(cmd) == /\ dispatcher.at = "policy"
                      /\ dispatcher.call.cmd = cmd
                      /\ dispatcher' = Run(dispatcher.then)

\* doNotifyFocusChanged, doOnPointerDownOutsideFocus, doPokeUserActivity: only
\* tell the policy.
NotifyPolicy ==
  /\ running("focusChanged") \/ running("outside") \/ running("poke")
  /\ callPolicy(popped, command)
  /\ UNCHANGED <<queue, world, mTouchState, timers, mode, bounds, lostFocus, clock>>

NotifyInputChannelBroken ==
  /\ running("broken")
  /\ IF connections[command.c].status # "ZOMBIE"
     THEN callPolicy(popped, command)
     ELSE Become(popped) /\ UNCHANGED dispatcher
  /\ UNCHANGED <<queue, world, mTouchState, timers, mode, bounds, lostFocus, clock>>

PolicyNotified ==
  /\ \E cmd \in {"focusChanged", "outside", "poke", "broken"} : policyReturns(cmd)
  /\ UNCHANGED <<work, queue, world, mTouchState, timers, mode, bounds, lostFocus,
                 clock>>

InterceptKeyBeforeDispatching ==
  /\ running("intercept")
  /\ callPolicy(popped, command)
  /\ UNCHANGED <<queue, world, mTouchState, timers, mode, bounds, lostFocus, clock>>

\* The command holds a reference on the key, which may be in the inbound
\* queue again, or gone from it.
KeyIntercepted ==
  /\ policyReturns("intercept")
  /\ \E delay \in IF May("policy") THEN Delays ELSE {0} :
       LET decide(e) ==
             IF e.id # dispatcher.call.id THEN e
             ELSE [e EXCEPT
                     !.intercept = CASE delay < 0 -> "SKIP"
                                     [] delay = 0 -> "CONTINUE"
                                     [] OTHER -> "TRY_AGAIN_LATER",
                     !.wakeup = IF delay > 0 THEN clock + delay ELSE @]
       IN /\ mPendingEvent' = IF mPendingEvent = None THEN None
                              ELSE decide(mPendingEvent)
          /\ mInboundQueue' = [j \in DOMAIN mInboundQueue |->
                                 decide(mInboundQueue[j])]
  /\ UNCHANGED <<work, mNextUnblockedEvent, mAppSwitch, world, mTouchState, timers,
                 mode, bounds, lostFocus, clock>>

-----------------------------------------------------------------------------
(* Finished signals *)

\* finishDispatchCycleLocked for each of the finished signals.
finishDispatchCycles(S, c, signals) ==
  FoldLeft(LAMBDA T, f :
             IF T.con[c].status # "NORMAL" THEN T
             ELSE post(T, [cmd |-> "finished", c |-> c, seq |-> f.seq,
                           handled |-> f.handled]),
           [S EXCEPT !.chan[c].held = @ \ {f.seq : f \in ToSet(signals)}], signals)

\* handleReceiveCallback with signals to read: the window has finished some of
\* the events it has read, in some order.  The commands run, and if the window
\* hung up meanwhile its channel is unregistered afterwards.
HandleReceiveCallback(c) ==
  \E order \in SetToAllKPermutations(channels[c].held) \ {<<>>} :
  \E handled \in [DOMAIN order ->
                    IF May("unhandled") THEN BOOLEAN ELSE {TRUE}] :
    /\ dispatcher.at = "poll"
    /\ c \in Registered(Current)
    /\ Become(finishDispatchCycles(Current, c,
         [j \in DOMAIN order |-> [seq |-> order[j], handled |-> handled[j]]]))
    /\ dispatcher' = Run(IF channels[c].closed THEN c ELSE "poll")
    /\ UNCHANGED <<queue, world, mTouchState, timers, mode, bounds, lostFocus,
                   clock>>

\* handleReceiveCallback when the poll reports the hangup, or the first read
\* does.
HandleHangup(c) ==
  /\ dispatcher.at = "poll"
  /\ c \in Registered(Current) /\ channels[c].closed
  /\ \E notify \in {c \in mWindowHandles, c \in Windows} :
       Become(unregister(Current, c, notify))
  /\ UNCHANGED <<queue, world, mTouchState, timers, mode, dispatcher, bounds,
                 lostFocus, clock>>

setFallbackKey(S, c, key, code) == [S EXCEPT !.con[c].fallback[key] = code]

\* doDispatchCycleFinishedLockedInterruptible up to the call of
\* dispatchUnhandledKey by afterKeyEventLockedInterruptible, or to its end.
DoDispatchCycleFinished ==
  /\ running("finished")
  /\ LET c == command.c
         k == connections[c]
         entries == waiting(k, command.seq)
         d == k.wait[CHOOSE j \in entries : TRUE]
         latched == k.fallback[d.code]
         cancels == command.handled \/ ~d.fg
         asks == /\ entries # {}
                 /\ d.type = "KEY" /\ ~d.fallback
                 /\ IF cancels THEN latched # NO_FALLBACK
                    ELSE latched # NO_FALLBACK \/ d.action = "DOWN"
         S == IF entries # {} /\ d.type = "KEY" /\ ~d.fallback /\ d.action = "UP"
              THEN setFallbackKey(popped, c, d.code, NO_FALLBACK) ELSE popped
     IN CASE asks ->
               callPolicy(S, [cmd |-> IF cancels THEN "cancelFallback"
                                      ELSE "unhandled",
                              c |-> c, seq |-> command.seq, d |-> d,
                              latched |-> latched])
          [] entries = {} -> Become(S) /\ UNCHANGED dispatcher
          [] OTHER -> /\ Become(dequeueFinished(S, c, command.seq, FALSE, clock))
                      /\ UNCHANGED dispatcher
  /\ UNCHANGED <<queue, world, mTouchState, timers, mode, bounds, lostFocus, clock>>

\* The policy has been told to cancel the fallback action.
FallbackCanceled ==
  /\ policyReturns("cancelFallback")
  /\ LET p == dispatcher.call
         C == IF p.latched = UNKNOWN THEN Current
              ELSE cancel(Current, p.c, "FALLBACK", p.latched, clock)
     IN Become(dequeueFinished(setFallbackKey(C, p.c, p.d.code, NO_FALLBACK),
                               p.c, p.seq, FALSE, clock))
  /\ UNCHANGED <<queue, world, mTouchState, timers, mode, bounds, lostFocus, clock>>

\* The entry of the event is shared by all targets, so every one of them is
\* turned into the fallback key.
restartWithFallback(S, id, code) ==
  LET turn(q) == [j \in DOMAIN q |->
        IF q[j].type = "KEY" /\ q[j].id = id
        THEN [q[j] EXCEPT !.code = code, !.fallback = TRUE] ELSE q[j]]
  IN [S EXCEPT !.con = [c \in Channels |->
        [@[c] EXCEPT !.out = turn(@), !.wait = turn(@)]]]

\* The policy says which fallback key to send for an unhandled key, if any.
UnhandledKeyDispatched ==
  /\ policyReturns("unhandled")
  /\ \E answer \in FallbackKeys \cup {UNKNOWN} :
       LET p == dispatcher.call
           c == p.c
           code == p.d.code
           initialDown == p.d.action = "DOWN"
           latched == IF initialDown THEN answer ELSE p.latched
           L == IF initialDown THEN setFallbackKey(Current, c, code, answer)
                ELSE Current
           withdrawn == latched # UNKNOWN /\ latched # answer
           C == cancel(L, c, "FALLBACK", latched, clock)
           W == IF p.d.action = "UP" THEN C ELSE setFallbackKey(C, c, code, UNKNOWN)
           end(S, restart) == Become(dequeueFinished(S, c, p.seq, restart, clock))
       IN CASE connections[c].status # "NORMAL" ->
                 end(setFallbackKey(Current, c, code, NO_FALLBACK), FALSE)
            [] withdrawn -> end(W, FALSE)
            [] answer # UNKNOWN ->
                 end(restartWithFallback(L, p.d.id, latched), TRUE)
            [] OTHER -> end(L, FALSE)
  /\ UNCHANGED <<queue, world, mTouchState, timers, mode, bounds, lostFocus, clock>>

-----------------------------------------------------------------------------
(* ANRs: processAnrsLocked, and the commands it posts *)

endOfCommands(then) ==
  /\ dispatcher.at = "run" /\ dispatcher.then = then
  /\ mCommandQueue = <<>>

\* processNoFocusedWindowAnrLocked.  It dereferences a null pointer when no
\* application is focused any more.
ProcessNoFocusedWindowAnr ==
  /\ endOfCommands("anr")
  /\ focusedWindowDue
  /\ mAwaited' = NotAwaited
  /\ dispatcher' = IF mFocusedApplication = None
                   THEN [at |-> "crashed", then |-> "poll"] ELSE Poll
  /\ Become(IF mFocusedApplication = mAwaited.app /\ mFocusedWindow = None
            THEN post(Current, [cmd |-> "anr", c |-> None, app |-> mAwaited.app])
            ELSE Current)
  /\ UNCHANGED <<queue, world, mTouchState, mKeyIsWaitingForEventsTimeout, mode,
                 bounds, lostFocus, clock>>

\* A connection whose first tracked entry is overdue stops being responsive.
ProcessConnectionAnr(c) ==
  /\ endOfCommands("anr")
  /\ ~focusedWindowDue
  /\ firstTimeout <= clock /\ firstTimeout \in DOMAIN connections[c].tracked
  /\ LET U == [Current EXCEPT !.con[c].responsive = FALSE,
                              !.con[c].tracked = EmptyBag]
     IN Become(IF connections[c].wait = <<>> THEN U
               ELSE post(U, [cmd |-> "anr", c |-> c, app |-> None]))
  /\ dispatcher' = Poll
  /\ UNCHANGED <<queue, world, mTouchState, timers, mode, bounds, lostFocus, clock>>

NoAnr ==
  /\ endOfCommands("anr")
  /\ ~focusedWindowDue /\ firstTimeout > clock
  /\ dispatcher' = Poll
  /\ UNCHANGED <<work, queue, world, mTouchState, timers, mode, bounds, lostFocus,
                 clock>>

\* The end of handleReceiveCallback.
ReceiveCallbackReturns ==
  /\ dispatcher.at = "run" /\ mCommandQueue = <<>> /\ dispatcher.then # "anr"
  /\ dispatcher' = Poll
  /\ LET c == dispatcher.then
     IN Become(IF c \in Registered(Current) THEN unregister(Current, c, c \in Windows)
               ELSE Current)
  /\ UNCHANGED <<queue, world, mTouchState, timers, mode, bounds, lostFocus, clock>>

NotifyAnr ==
  /\ running("anr")
  /\ callPolicy(popped, command)
  /\ UNCHANGED <<queue, world, mTouchState, timers, mode, bounds, lostFocus, clock>>

\* doNotifyAnrLockedInterruptible after the call: extendAnrTimeoutsLocked or
\* cancelEventsForAnrLocked.
AnrNotified ==
  /\ policyReturns("anr")
  /\ \E extension \in Extensions :
       LET c == dispatcher.call.c
           app == dispatcher.call.app
       IN /\ mAwaited' = IF extension > 0 /\ app # None
                         THEN [app |-> app, time |-> clock + extension]
                         ELSE mAwaited
          /\ Become(CASE c \notin Registered(Current) -> Current
                      [] extension > 0 ->
                           extendAnrTimeouts(Current, c, clock + extension)
                      [] connections[c].status = "NORMAL" ->
                           cancel(Current, c, "ALL", None, clock)
                      [] OTHER -> Current)
  /\ UNCHANGED <<queue, world, mTouchState, mKeyIsWaitingForEventsTimeout, mode,
                 bounds, lostFocus, clock>>

-----------------------------------------------------------------------------
(* The window manager *)

windowCall(name) ==
  /\ Unlocked
  /\ Spend(name)
  /\ UNCHANGED <<reader, clock>>

\* enqueueFocusEventLocked: the pending event goes back, the focus event goes
\* in front of everything but other focus events.
enqueueFocusEventFirst(q, w, hasFocus) == <<FocusEntry(w, hasFocus)>> \o q
enqueueFocusEvent(q, w, hasFocus) ==
  LET focus == {j \in DOMAIN q : q[j].type = "FOCUS"}
  IN InsertAt(q, 1 + Max({0} \cup focus), FocusEntry(w, hasFocus))

RegisterInputChannel(c) ==
  /\ windowCall("register")
  /\ connections[c].status = "NEW"
  /\ connections' = [connections EXCEPT ![c].status = "NORMAL"]
  /\ UNCHANGED <<channels, injections, mCommandQueue, queue, world, mTouchState,
                 timers, mode, dispatcher, lostFocus>>

UnregisterInputChannel(c) ==
  /\ windowCall("unregister")
  /\ c \in Registered(Current)
  /\ Become(unregister(Current, c, FALSE))
  /\ UNCHANGED <<queue, world, mTouchState, timers, mode, dispatcher, lostFocus>>

\* updateWindowHandlesForDisplayLocked leaves out windows without a channel.
updateWindowHandles(W) == W \cap Registered(Current)

\* setInputWindowsLocked.
SetInputWindows ==
  \E W \in SUBSET Windows :
    LET handles == updateWindowHandles(W)
    IN \E focused \in handles \cup {None} :
         LET old == mFocusedWindow
             changed == focused # old
             leaves == changed /\ old \in Registered(Current)
             moves == leaves \/ (changed /\ focused # None)
             removed == mTouchState.win \notin handles \cup {None}
             F == IF leaves THEN cancel(Current, old, "NON_POINTER", None, clock)
                  ELSE Current
             P == IF changed THEN post(F, [cmd |-> "focusChanged"]) ELSE F
             T == IF removed /\ mTouchState.win \in Registered(P)
                  THEN cancel(P, mTouchState.win, "POINTER", None, clock) ELSE P
             all == IF mPendingEvent # None /\ moves
                    THEN <<mPendingEvent>> \o mInboundQueue ELSE mInboundQueue
             blurred == IF leaves THEN enqueueFocusEvent(all, old, FALSE) ELSE all
         IN /\ windowCall("windows")
            /\ mWindowHandles' = handles
            /\ mFocusedWindow' = focused
            /\ mInboundQueue' = IF changed /\ focused # None
                                THEN enqueueFocusEvent(blurred, focused, TRUE)
                                ELSE blurred
            /\ mPendingEvent' = IF moves THEN None ELSE mPendingEvent
            /\ mTouchState' = IF removed THEN [mTouchState EXCEPT !.win = None]
                              ELSE mTouchState
            /\ Become(T)
            /\ UNCHANGED <<mNextUnblockedEvent, mAppSwitch, mFocusedApplication,
                           timers, mode, dispatcher, lostFocus>>

SetFocusedApplication ==
  \E app \in Windows \cup {None} :
    /\ windowCall("application")
    /\ mFocusedApplication' = app
    /\ mAwaited' = IF mFocusedApplication = mAwaited.app
                      /\ app # mFocusedApplication
                   THEN NotAwaited ELSE mAwaited
    /\ UNCHANGED <<work, queue, mWindowHandles, mFocusedWindow, mTouchState,
                   mKeyIsWaitingForEventsTimeout, mode, dispatcher, lostFocus>>

\* resetAndDropEverythingLocked.  The wait queues stay as they are.
resetAndDropEverything ==
  LET S == cancelAll(Current, Channels, "ALL", None, clock)
      dropped == (IF mPendingEvent = None THEN {} ELSE {mPendingEvent})
                 \cup ToSet(mInboundQueue)
      fail(i) == /\ S.inj[i].result = "PENDING"
                 /\ \E e \in dropped : e.inj = i
  IN /\ Become([S EXCEPT
          !.con = [c \in Channels |-> [@[c] EXCEPT !.tracked = EmptyBag]],
          !.inj = [i \in Injections |->
                     IF fail(i) THEN [@[i] EXCEPT !.result = "FAILED"] ELSE @[i]]])
     /\ mPendingEvent' = None /\ mInboundQueue' = <<>>
     /\ mNextUnblockedEvent' = None
     /\ mTouchState' = NoTouch
     /\ mAwaited' = NotAwaited
     /\ lostFocus' = lostFocus \cup {e.to : e \in {f \in dropped : f.type = "FOCUS"}}

SetInputDispatchMode ==
  \E enabled, frozen \in BOOLEAN :
    /\ windowCall("mode")
    /\ <<enabled, frozen>> # <<mDispatchEnabled, mDispatchFrozen>>
    /\ mDispatchEnabled' = enabled /\ mDispatchFrozen' = frozen
    /\ IF mDispatchEnabled /\ ~enabled THEN resetAndDropEverything
       ELSE /\ mAwaited' = IF mDispatchFrozen /\ ~frozen THEN NotAwaited
                           ELSE mAwaited
            /\ UNCHANGED <<work, mPendingEvent, mInboundQueue,
                           mNextUnblockedEvent, mTouchState, lostFocus>>
    /\ UNCHANGED <<mAppSwitch, world, mKeyIsWaitingForEventsTimeout, dispatcher>>

\* mInputFilterEnabled only decides what notifyKey does with a key, so a
\* change of it is the reset.
SetInputFilterEnabled ==
  /\ windowCall("filter")
  /\ resetAndDropEverything
  /\ UNCHANGED <<mAppSwitch, world, mKeyIsWaitingForEventsTimeout, mode, dispatcher>>

\* pilferPointers by a gesture monitor.
PilferPointers(m) ==
  /\ windowCall("pilfer")
  /\ m \in Registered(Current) /\ m \in mTouchState.monitors /\ mTouchState.down
  /\ Become(IF mTouchState.win \in Registered(Current)
            THEN cancel(Current, mTouchState.win, "POINTER", mTouchState.dev, clock)
            ELSE Current)
  /\ mTouchState' = [mTouchState EXCEPT !.win = None]
  /\ UNCHANGED <<queue, world, timers, mode, dispatcher, lostFocus>>

-----------------------------------------------------------------------------
(* The windows and the clock *)

\* The devices whose gestures a window believes to be under way once it has
\* read one more message.
told(touch, d) == CASE d.type # "MOTION" \/ d.action = "MOVE" -> touch
                    [] d.action = "DOWN" -> touch \cup {d.dev}
                    [] OTHER -> touch \ {d.dev}

\* The window reads a message: receiveMessage.
WindowReceives(c) ==
  /\ channels[c].sock # <<>> /\ ~channels[c].closed
  /\ LET d == Head(channels[c].sock)
     IN channels' = [channels EXCEPT ![c] = [@ EXCEPT
          !.sock = Tail(@),
          !.held = @ \cup {d.seq},
          !.touch = told(@, d),
          !.focus = IF d.type = "FOCUS" THEN d.action = "FOCUS" ELSE @]]
  /\ UNCHANGED <<connections, injections, mCommandQueue, queue, world, mTouchState,
                 timers, mode, dispatcher, bounds, lostFocus, clock>>

WindowCloses(c) ==
  /\ Spend("close")
  /\ ~channels[c].closed
  /\ channels' = [channels EXCEPT ![c].closed = TRUE, ![c].sock = <<>>]
  /\ UNCHANGED <<connections, injections, mCommandQueue, queue, world, mTouchState,
                 timers, mode, dispatcher, reader, lostFocus, clock>>

Tick ==
  /\ Unlocked
  /\ Spend("time")
  /\ clock' = clock + 1
  /\ UNCHANGED <<work, queue, world, mTouchState, timers, mode, dispatcher, reader,
                 lostFocus>>

\* The dispatcher sleeps until somebody wakes it, or the process is gone.
Idle == /\ \/ dispatcher.at = "poll" /\ (mDispatchFrozen \/ ~hasEvent)
           \/ dispatcher.at = "crashed"
        /\ UNCHANGED vars

DispatcherStep ==
  \/ DispatchNothing \/ DispatchFocus \/ DispatchDeviceReset
  \/ DispatchKeyToPolicy \/ DropKey \/ HoldKey \/ FailKey \/ DispatchKey
  \/ DropMotion \/ DispatchDown \/ DispatchMoveOrUp
  \/ NotifyPolicy \/ NotifyInputChannelBroken \/ InterceptKeyBeforeDispatching
  \/ DoDispatchCycleFinished \/ NotifyAnr
  \/ ProcessNoFocusedWindowAnr \/ NoAnr \/ ReceiveCallbackReturns
  \/ \E c \in Channels : \/ HandleReceiveCallback(c) \/ HandleHangup(c)
                         \/ ProcessConnectionAnr(c)
PolicyStep ==
  \/ PolicyNotified \/ KeyIntercepted \/ FallbackCanceled
  \/ UnhandledKeyDispatched \/ AnrNotified
WindowManagerStep ==
  \/ \E c \in Windows : RegisterInputChannel(c) \/ UnregisterInputChannel(c)
  \/ SetInputWindows \/ SetFocusedApplication
  \/ SetInputDispatchMode \/ SetInputFilterEnabled
  \/ \E m \in GestureMonitors : PilferPointers(m)
InputStep ==
  \/ NotifyKey \/ NotifyMotion \/ NotifyDeviceReset
  \/ \E i \in Injections : InjectInputEvent(i) \/ InjectReturn(i)
WindowStep ==
  \E c \in Channels : WindowReceives(c) \/ WindowCloses(c)

Next == \/ DispatcherStep \/ PolicyStep \/ WindowManagerStep \/ InputStep
        \/ WindowStep \/ Tick \/ Idle

Spec == Init /\ [][Next]_vars

-----------------------------------------------------------------------------
(* Properties *)

Seqs(q) == {q[j].seq : j \in DOMAIN q}
NORMAL(c) == connections[c].status = "NORMAL"

\* An injector that waits for its event to finish (pendingForegroundDispatches)
\* waits for exactly the entries that foreground windows still have to finish.
InjectionAccounting ==
  \A i \in Injections :
    LET mine(q) == Len(SelectSeq(q, LAMBDA d : d.fg /\ d.inj = i))
    IN injections[i].pending =
         FoldSet(LAMBDA c, n : n + mine(connections[c].out \o connections[c].wait),
                 0, Channels)

\* The wait queue of a working connection holds exactly the entries that the
\* window has been sent and whose finished signal has not been acted on.
Outstanding ==
  \A c \in {x \in Channels : NORMAL(x) /\ ~channels[x].closed} :
    LET commands == SelectSeq(mCommandQueue,
                              LAMBDA m : m.cmd = "finished" /\ m.c = c)
        atPolicy == IF dispatcher.at = "policy"
                       /\ dispatcher.call.cmd \in {"cancelFallback", "unhandled"}
                       /\ dispatcher.call.c = c
                    THEN {dispatcher.call.seq} ELSE {}
    IN Seqs(connections[c].wait) =
         Seqs(channels[c].sock) \cup channels[c].held
         \cup Seqs(commands) \cup atPolicy

\* A working connection that has events to publish waits for a finished signal,
\* which is what makes it publish them.
NoStuckOutbound ==
  \A c \in Channels : NORMAL(c) /\ connections[c].out # <<>>
                        => connections[c].wait # <<>>

\* mAnrTracker never holds a timeout of an entry that was finished or of a
\* window that is gone, and a window that does not respond has something to
\* respond to.
AnrTrackerSound ==
  \A c \in Channels :
    LET k == connections[c]
    IN /\ NORMAL(c) => k.tracked \sqsubseteq Timeouts(k.wait)
       /\ ~NORMAL(c) /\ c \notin Registered(Current) => k.tracked = EmptyBag
       /\ NORMAL(c) /\ ~k.responsive => k.wait # <<>>

\* A window or monitor only gets the MOVE, UP or CANCEL of a gesture that has
\* begun (trackMotion drops others), and a DOWN only when it has no gesture of
\* that device, unless an injected gesture took the touch state over.
StreamsConsistent ==
  \A c \in Channels :
    channels[c].sock # <<>> /\ Head(channels[c].sock).type = "MOTION" =>
      LET d == Head(channels[c].sock)
      IN /\ d.action # "DOWN" => d.dev \in channels[c].touch
         /\ d.action = "DOWN" /\ (\A i \in Injections : injections[i].at = "idle")
              => d.dev \notin channels[c].touch

\* InputState, from which cancellations are made, remembers exactly the gestures
\* that the window will believe to be under way when it has read all that its
\* socket and its outbound queue hold.
InputStateMirrorsWindow ==
  \A c \in {x \in Channels : NORMAL(x) /\ ~channels[x].closed} :
    connections[c].motions =
      FoldLeft(told, channels[c].touch, channels[c].sock \o connections[c].out)

\* Once focus events are dispatched and read, exactly the focused window
\* believes that it has the focus.
FocusReachesWindow ==
  \A c \in Windows :
    /\ NORMAL(c) /\ ~channels[c].closed /\ c \notin lostFocus
    /\ connections[c].out = <<>> /\ channels[c].sock = <<>>
    /\ mPendingEvent = None \/ mPendingEvent.type # "FOCUS"
    /\ \A j \in DOMAIN mInboundQueue : mInboundQueue[j].type # "FOCUS"
    => (channels[c].focus <=> mFocusedWindow = c)

=============================================================================
