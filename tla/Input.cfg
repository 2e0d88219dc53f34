SPECIFICATION Spec
CONSTANTS
  w1 = w1
  w2 = w2
  m = m
  g = g
  None = None
  i1 = i1
  Windows = {w1, w2}
  GlobalMonitors = {g}
  GestureMonitors = {m}
  Keys = {"A", "H"}
  FallbackKeys = {"F"}
  Injections = {i1}
  SocketCapacity = 2
  DISPATCHING_TIMEOUT = 2
  HomeKeys = {"H"}
  Budgets <- MCBudgets
  Extensions = {0, 1}
  Delays <- MCDelays
  KEY_WAITING_FOR_EVENTS_TIMEOUT = 1
  APP_SWITCH_TIMEOUT = 1
  STALE_EVENT_TIMEOUT = 4
INVARIANTS
  InjectionAccounting
  Outstanding
  NoStuckOutbound
  AnrTrackerSound
  StreamsConsistent
  InputStateMirrorsWindow
  FocusReachesWindow
