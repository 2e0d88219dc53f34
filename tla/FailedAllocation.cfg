SPECIFICATION Spec
CONSTANTS
  Slots = {s1, s2, s3}
  NoSlot = NoSlot
  Buffers = {b1, b2, b3, b4}
  NoBuffer = NoBuffer
  Producers = {p1}
  Apis = {egl}
  NoApi = NoApi
  Calls = {}
  Timeouts = {}
  ByApp = {FALSE}
  Times = {1}
  MaxReasonable = 1
  MaxFrames = 2
  MaxUses = 2
  ConsumerIsSurfaceFlinger = FALSE
  AllocMayFail = TRUE
SYMMETRY Symmetry
INVARIANTS ListsConsistent
