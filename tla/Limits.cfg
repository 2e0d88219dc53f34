SPECIFICATION Spec
CONSTANTS
  Slots = {s1, s2, s3, s4}
  NoSlot = NoSlot
  Buffers = {b1, b2}
  NoBuffer = NoBuffer
  Producers = {p1}
  Apis = {egl}
  NoApi = NoApi
  Calls = {"maxDequeued", "maxAcquired", "maxBufferCount", "asyncMode"}
  Timeouts = {1}
  ByApp = {TRUE}
  Times = {1}
  MaxReasonable = 1
  MaxFrames = 1
  MaxUses = 2
  ConsumerIsSurfaceFlinger = FALSE
  AllocMayFail = FALSE
SYMMETRY Symmetry
INVARIANTS SlotCountMatchesLimits SlotsStayConsistent
