-------------------------- MODULE InputConnection --------------------------
(***************************************************************************)
(* What the InputDispatcher of services/inputflinger does to one of its    *)
(* connections: the outbound and wait queues of Connection, the InputState *)
(* that remembers which keys and gestures the window believes to be down,  *)
(* the AnrTracker, and the socket pair of libs/input's InputChannel.       *)
(*                                                                         *)
(* Every one of these functions runs under InputDispatcher::mLock and      *)
(* several call one another, so they are operators from states to states.  *)
(* Such a state S is a record with                                         *)
(*   S.con[c]   the Connection of channel c and its share of mAnrTracker,  *)
(*   S.chan[c]  the sockets of channel c and the window behind them,       *)
(*   S.inj[i]   the InjectionState of injection i,                         *)
(*   S.cmd      mCommandQueue.                                             *)
(* Module InputDispatcher keeps the four in variables.                     *)
(*                                                                         *)
(* Abstractions.  One display; one pointer per gesture, no hover, no split *)
(* or slippery windows.  A key carries its code, a motion only its action. *)
(* Sequence numbers are unique within a connection.  mAnrTracker, a        *)
(* multiset of (timeout, token), is kept as one bag of timeouts per token. *)
(***************************************************************************)
EXTENDS Integers, Sequences, FiniteSets, Bags
LOCAL INSTANCE SequencesExt
LOCAL INSTANCE FiniteSetsExt

CONSTANTS
  Windows,            \* channels of windows; each window is its own application
  GlobalMonitors,     \* channels of mGlobalMonitorsByDisplay
  GestureMonitors,    \* channels of mGestureMonitorsByDisplay
  Keys,               \* key codes the devices send
  FallbackKeys,       \* key codes the policy sends for unhandled keys
  Injections,         \* calls of injectInputEvent
  None,               \* a null pointer or an absent optional
  SocketCapacity,     \* messages the socket of a channel holds
  DISPATCHING_TIMEOUT \* how long a window may take to finish an event

Monitors == GlobalMonitors \cup GestureMonitors
Channels == Windows \cup Monitors
Devices == {"hw", "virtual"}   \* the real device; VIRTUAL_KEYBOARD_ID
NO_FALLBACK == "-1"            \* getFallbackKey of a key that has none
UNKNOWN == "AKEYCODE_UNKNOWN"  \* latched: the policy wants no fallback
Codes == Keys \cup FallbackKeys

ASSUME ChannelsAssumption == /\ IsFiniteSet(Windows) /\ IsFiniteSet(Monitors)
                             /\ Windows \cap Monitors = {}
                             /\ None \notin Channels \cup Injections
ASSUME CapacityAssumption == SocketCapacity \in Nat \ {0}
ASSUME TimeoutAssumption == DISPATCHING_TIMEOUT \in Nat \ {0}

-----------------------------------------------------------------------------
(* Entries *)

\* An EventEntry.  "to" is the window under a pointer, or the window whose
\* focus changes; "pass" is POLICY_FLAG_PASS_TO_USER.
Event(id, type, action, code, dev, to, pass, time, inj) ==
  [id |-> id, type |-> type, action |-> action, code |-> code, dev |-> dev,
   to |-> to, pass |-> pass, time |-> time, inj |-> inj,
   intercept |-> "UNKNOWN", wakeup |-> 0]

\* The events that the dispatcher makes itself.
FocusEntry(w, hasFocus) ==
  Event(0, "FOCUS", IF hasFocus THEN "FOCUS" ELSE "BLUR", None, "hw", w, TRUE,
        0, None)
CancelKey(m) ==
  Event(0, "KEY", "UP", m.code, m.dev, None, TRUE, 0, None)
CancelMotion(dev) ==
  Event(0, "MOTION", "CANCEL", None, dev, None, TRUE, 0, None)

\* A DispatchEntry for event e.
DispatchEntry(e, seq, foreground) ==
  [seq |-> seq, id |-> e.id, type |-> e.type, action |-> e.action,
   code |-> e.code, dev |-> e.dev, fallback |-> FALSE, fg |-> foreground,
   inj |-> e.inj, timeout |-> 0]

NewConnection ==
  [status |-> "NORMAL", responsive |-> TRUE, out |-> <<>>, wait |-> <<>>,
   seq |-> 1, keys |-> {}, motions |-> {},
   fallback |-> [k \in Codes |-> NO_FALLBACK], tracked |-> EmptyBag]

\* The socket of a channel: messages on their way to the window, and messages
\* it has read and whose finished signals the dispatcher has not read.
\* "touch" and "focus" are what the window has been told so far.
NewChannel ==
  [sock |-> <<>>, held |-> {}, closed |-> FALSE, touch |-> {}, focus |-> FALSE]

-----------------------------------------------------------------------------
(* InputState *)

\* trackKey: a key going down is remembered, a key going up forgotten.  A key
\* that goes up without having gone down is let through.
trackKey(k, e) ==
  LET same == {m \in k.keys : m.code = e.code /\ m.dev = e.dev}
  IN IF e.action = "UP"
     THEN [k EXCEPT !.keys = @ \ same]
     ELSE [k EXCEPT !.keys =
             (@ \ same) \cup {[code |-> e.code, dev |-> e.dev,
                               fallback |-> FALSE]}]

\* trackMotion's answer: a gesture must begin with a DOWN.
motionIsConsistentAlways(k, e) == TRUE
motionIsConsistent(k, e) == e.action = "DOWN" \/ e.dev \in k.motions

trackMotionNotCancel(k, e) ==
  [k EXCEPT !.motions = CASE e.action = "DOWN" -> @ \cup {e.dev}
                          [] e.action = "UP" -> @ \ {e.dev}
                          [] OTHER -> @]
trackMotion(k, e) ==
  [k EXCEPT !.motions = CASE e.action = "DOWN" -> @ \cup {e.dev}
                          [] e.action = "MOVE" -> @
                          [] OTHER -> @ \ {e.dev}]

\* shouldCancelKey and shouldCancelMotion.  "sel" is options.deviceId, or
\* options.keyCode for CANCEL_FALLBACK_EVENTS, or None.
shouldCancelKey(m, mode, sel) ==
  \/ mode = "ALL" /\ sel \in {None, m.dev}
  \/ mode = "NON_POINTER"
  \/ mode = "FALLBACK" /\ m.code = sel /\ m.fallback
shouldCancelMotion(dev, mode, sel) ==
  mode \in {"ALL", "POINTER"} /\ sel \in {None, dev}

synthesizeCancelationEvents(k, mode, sel) ==
  SetToSeq({CancelKey(m) : m \in {n \in k.keys : shouldCancelKey(n, mode, sel)}})
  \o SetToSeq({CancelMotion(d) :
                 d \in {x \in k.motions : shouldCancelMotion(x, mode, sel)}})

-----------------------------------------------------------------------------
(* The dispatch cycle *)

Registered(S) == {c \in Channels : S.con[c].status \in {"NORMAL", "BROKEN"}}

post(S, command) == [S EXCEPT !.cmd = Append(@, command)]

\* setInjectionResult, for an event that may not be an injected one.
setInjectionResult(S, i, result) ==
  IF i = None THEN S ELSE [S EXCEPT !.inj[i].result = result]

\* incrementPendingForegroundDispatches.
incrementPending(S, d) ==
  IF d.fg /\ d.inj # None THEN [S EXCEPT !.inj[d.inj].pending = @ + 1] ELSE S

\* releaseDispatchEntry of every entry of a queue.
release(S, queue) ==
  [S EXCEPT !.inj = [i \in Injections |->
     [@[i] EXCEPT !.pending =
        @ - Len(SelectSeq(queue, LAMBDA d : d.fg /\ d.inj = i))]]]

abortBrokenDispatchCycleLeaks(S, c, notify) ==
  LET D == [release(S, S.con[c].out) EXCEPT !.con[c].out = <<>>,
                                            !.con[c].wait = <<>>]
  IN IF S.con[c].status = "NORMAL" THEN [D EXCEPT !.con[c].status = "BROKEN"] ELSE D
abortBrokenDispatchCycle(S, c, notify) ==
  LET k == S.con[c]
      D == [release(S, k.out \o k.wait) EXCEPT !.con[c].out = <<>>,
                                               !.con[c].wait = <<>>]
  IN CASE k.status # "NORMAL" -> D
       [] notify -> post([D EXCEPT !.con[c].status = "BROKEN"],
                         [cmd |-> "broken", c |-> c])
       [] OTHER -> [D EXCEPT !.con[c].status = "BROKEN"]

\* The timeouts of a queue of dispatch entries, as a bag.
Timeouts(queue) ==
  LET times == {queue[j].timeout : j \in 1..Len(queue)}
  IN [t \in times |-> Cardinality({j \in 1..Len(queue) : queue[j].timeout = t})]

\* How many messages sendMessage accepts before it answers WOULD_BLOCK.
room(S, c) == SocketCapacity - Len(S.chan[c].sock)

\* startDispatchCycleLocked: publish until the outbound queue is empty or
\* the socket is full.  A closed socket breaks the connection, and so does a
\* full one when no finished signal is due that would start the next cycle.
startDispatchCycle(S, c, now) ==
  LET k == S.con[c]
      n == Min({Len(k.out), room(S, c)})
      sent == [j \in 1..n |->
                [k.out[j] EXCEPT !.timeout = now + DISPATCHING_TIMEOUT]]
      P == [S EXCEPT
              !.con[c].out = SubSeq(@, n + 1, Len(@)),
              !.con[c].wait = @ \o sent,
              !.con[c].tracked = IF k.responsive THEN @ (+) Timeouts(sent) ELSE @,
              !.chan[c].sock = @ \o sent]
  IN CASE k.status # "NORMAL" \/ k.out = <<>> -> S
       [] S.chan[c].closed -> abortBrokenDispatchCycle(S, c, TRUE)
       [] P.con[c].out # <<>> /\ P.con[c].wait = <<>> ->
            abortBrokenDispatchCycle(P, c, TRUE)
       [] OTHER -> P

\* enqueueDispatchEntryLocked.  "outside": the window of c is not the focused
\* one, so dispatchPointerDownOutsideFocus posts a command for a DOWN.
enqueueDispatchEntry(S, c, e, foreground, outside) ==
  LET k == S.con[c]
      d == DispatchEntry(e, k.seq, foreground)
      N == [S EXCEPT !.con[c].seq = @ + 1]
      add(T) == incrementPending([T EXCEPT !.con[c].out = Append(@, d)], d)
  IN CASE e.type = "KEY" -> add([N EXCEPT !.con[c] = trackKey(@, e)])
       [] e.type = "FOCUS" -> add(N)
       [] e.type = "MOTION" /\ ~motionIsConsistent(k, e) -> N
       [] OTHER ->
            LET T == [N EXCEPT !.con[c] = trackMotion(@, e)]
            IN add(IF outside /\ e.action = "DOWN"
                   THEN post(T, [cmd |-> "outside", c |-> c]) ELSE T)

\* prepareDispatchCycleLocked and enqueueDispatchEntriesLocked.
prepareDispatchCycle(S, c, e, foreground, outside, now) ==
  LET E == enqueueDispatchEntry(S, c, e, foreground, outside)
  IN CASE S.con[c].status # "NORMAL" -> S
       [] S.con[c].out = <<>> -> startDispatchCycle(E, c, now)
       [] OTHER -> E

\* synthesizeCancelationEventsForConnectionLocked.
cancel(S, c, mode, sel, now) ==
  LET events == synthesizeCancelationEvents(S.con[c], mode, sel)
      E == FoldLeft(LAMBDA T, e : enqueueDispatchEntry(T, c, e, FALSE, FALSE),
                    S, events)
  IN IF S.con[c].status = "BROKEN" \/ events = <<>> THEN S
     ELSE startDispatchCycle(E, c, now)

\* synthesizeCancelationEventsFor{AllConnections,Monitors,InputChannel}Locked.
cancelAll(S, channels, mode, sel, now) ==
  FoldSet(LAMBDA c, T : cancel(T, c, mode, sel, now), S,
          channels \cap Registered(S))

\* unregisterInputChannelLocked and removeConnectionLocked.
unregister(S, c, notify) ==
  [abortBrokenDispatchCycle([S EXCEPT !.con[c].tracked = EmptyBag], c, notify)
     EXCEPT !.con[c].status = "ZOMBIE"]

-----------------------------------------------------------------------------
(* Finished signals *)

\* findWaitQueueEntry.
waitingFront(k, seq) == IF k.wait = <<>> THEN {} ELSE {1}
waiting(k, seq) == {j \in 1..Len(k.wait) : k.wait[j].seq = seq}

isConnectionResponsive(k, now) ==
  \A j \in 1..Len(k.wait) : k.wait[j].timeout >= now

\* AnrTracker::erase.
eraseNothing(k, timeout) == k
erase(k, timeout) == [k EXCEPT !.tracked = @ (-) SetToBag({timeout})]

\* The finished entry leaves the wait queue and the tracker, and goes back to
\* the head of the outbound queue when its fallback key is to be sent.
dequeue(S, c, seq, restart, now) ==
  LET k == S.con[c]
      j == CHOOSE x \in waiting(k, seq) : TRUE
      d == k.wait[j]
      k2 == erase([k EXCEPT !.wait = RemoveAt(@, j)], d.timeout)
      W == [S EXCEPT !.con[c] =
              [k2 EXCEPT !.responsive = @ \/ isConnectionResponsive(k2, now)]]
  IN CASE waiting(k, seq) = {} -> S
       [] restart /\ k.status = "NORMAL" ->
            [W EXCEPT !.con[c].out = <<d>> \o @]
       [] OTHER -> release(W, <<d>>)

\* The end of doDispatchCycleFinishedLockedInterruptible: the next cycle starts.
dequeueFinishedNoCycle(S, c, seq, restart, now) == dequeue(S, c, seq, restart, now)
dequeueFinished(S, c, seq, restart, now) ==
  startDispatchCycle(dequeue(S, c, seq, restart, now), c, now)

\* extendAnrTimeoutsLocked for a connection.
extendAnrTimeouts(S, c, newTimeout) ==
  LET k == S.con[c]
      late(d) == newTimeout >= d.timeout
      n == Len(SelectSeq(k.wait, late))
  IN [S EXCEPT
        !.con[c].responsive = TRUE,
        !.con[c].wait = [j \in DOMAIN @ |->
           IF late(@[j]) THEN [@[j] EXCEPT !.timeout = newTimeout] ELSE @[j]],
        !.con[c].tracked = IF n = 0 THEN @ ELSE @ (+) [t \in {newTimeout} |-> n]]
=============================================================================
