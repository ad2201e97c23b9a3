SPECIFICATION MCSpec
CONSTANTS
    left1 = left1  right1 = right1  sonos1 = sonos1  sonos2 = sonos2
    Targets <- TwoSonos
    HomePods <- Pods
    Ptp <- Sonos
    MaxStarts = 2
    MaxWrites = 2
    MaxReads = 1
    MaxAnswers = 2
    PendingCap = 8
    LateCap = 4
    SeqMod = 4
    TsMod = 8
    MaxNow = 6
    SkipAfter = 2
    Latency = 2
    HistoryCap = 2
    ResendCap = 2
    Budget = 1
    MaxRequests = 2
    NoRequest = NoRequest
    PacketUnits = 2  FrameUnits = 3  HighWater = 4  DropTo = 2  MaxBehind = 1  Run = 2  Burst = 1  Rate = 1
    SenderNow = 3
    Scenes = {"session"}
INVARIANT PortsOwned
CHECK_DEADLOCK FALSE
