SPECIFICATION MCSpec
CONSTANTS
  a1 = a1  a2 = a2  e1 = e1  f1 = f1  m1 = m1
  AudioIrps = {a1, a2}
  EventIrps = {e1}
  Files = {f1}
  FileOf <- OneFile
  Dpc = Dpc  Stream = Stream  Pnp = Pnp
  Mixers = {m1}
  NoIrp = NoIrp  NoAgent = NoAgent
  RingFrames = 1
  PacketFrames = 1
  EventSlots = 1
  Scenes <- SmallScenes
INVARIANTS CompletedOnce NoneForgotten NoUseAfterFree
PROPERTIES WaitsEnd
CHECK_DEADLOCK FALSE
