SPECIFICATION MCSpec
CONSTANTS
  looker = looker
  Lookers = {looker}
  Nobody = Nobody
  Capacity = 4
  MaxWrite = 6
  MaxRead = 3
  MaxFrames = 9
  mixer = mixer
  stream = stream
  Depth = 3
  MaxPosts = 3
  NoEvent = NoEvent
  Devices = {d1, d2, d3}
  Callers = {c1, c2}
  NoDevice = NoDevice
  MaxSessions = 2
  RingPackets = 2
  Sound = Sound  Drained = Drained  Idle = Idle
  NoPacket = NoPacket
  MaxLevel = 2  SpeakerCap = 1
  NoLevel = NoLevel
INVARIANT LiveContextsOnly
PROPERTIES Implements EmptyMeansEmpty EventsArrive SessionsHeard SettingsSettle NeverToAnother
CHECK_DEADLOCK FALSE
