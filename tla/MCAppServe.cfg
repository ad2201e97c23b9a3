SPECIFICATION MCSpec
CONSTANTS
    s1 = s1  s2 = s2  o1 = o1  u1 = u1
    Speakers = {s1, s2}
    Others = {o1}
    Loopback = Loopback
    OwnAddress = OwnAddress
    Conns = {1, 2, 3}
    MaxSelects = 2
    MaxOps = 2
    QueueFrames = 1
    SharedCap = 1
    PeerCap = 1
    ProtectedCap = 2
    NoPeer = NoPeer
    Scenes <- AllScenes
INVARIANT BoundIsGranted
PROPERTIES RightLostIsAudioLost ServedRightly RoomIsMade SelectsAndDropsEnd
CHECK_DEADLOCK FALSE
