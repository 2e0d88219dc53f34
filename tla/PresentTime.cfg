SPECIFICATION Spec
CONSTANTS
  Slots = {s1, s2, s3}
  NoSlot = NoSlot
  Buffers = {b1, b2, b3, b4}
  NoBuffer = NoBuffer
  Producers = {p1}
  Apis = {egl}
  NoApi = NoApi
  Calls = {"presentTime"}
  Timeouts = {}
  ByApp = {FALSE}
  Times = {1, 2, 3}
  MaxReasonable = 1
  MaxFrames = 3
  MaxUses = 2
  ConsumerIsSurfaceFlinger = FALSE
  AllocMayFail = FALSE
SYMMETRY Symmetry
PROPERTIES ImplementsFrameStream DropsEndInAFrame
