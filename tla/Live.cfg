SPECIFICATION FairSpec
CONSTANTS
  Slots = {s1, s2}
  NoSlot = NoSlot
  Buffers = {b1, b2}
  NoBuffer = NoBuffer
  Producers = {p1, p2}
  Apis = {egl}
  NoApi = NoApi
  Calls = {"allocateBuffers", "maxBufferCount"}
  Timeouts = {}
  ByApp = {FALSE}
  Times = {1}
  MaxReasonable = 1
  MaxFrames = 2
  MaxUses = 1
  ConsumerIsSurfaceFlinger = FALSE
  AllocMayFail = FALSE
PROPERTIES BlockedDequeueWakes WaitsEnd
