SPECIFICATION Spec
CONSTANTS
  Slots = {s1, s2, s3, s4}
  NoSlot = NoSlot
  Buffers = {b1, b2, b3, b4}
  NoBuffer = NoBuffer
  Producers = {p1}
  Apis = {egl}
  NoApi = NoApi
  Calls = {"maxAcquired"}
  Timeouts = {}
  ByApp = {FALSE}
  Times = {1}
  MaxReasonable = 1
  MaxFrames = 2
  MaxUses = 2
  ConsumerIsSurfaceFlinger = FALSE
  AllocMayFail = FALSE
SYMMETRY Symmetry
INVARIANTS SleepersHaveNothingToTake
