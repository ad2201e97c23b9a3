SPECIFICATION MCSpec
CONSTANTS
    None = None
    Accounts = {1, 2}
    MaxMade = 3
    MaxRuns = 3
    MaxKeys = 2  MaxSettings = 2
    Udns = {"udn"}  Descs = {"d", "e"}  Addrs = {1, 2, 3}  Scopes = {"home", "guest", "paused"}
    Reach <- ReachOf  UpnpMoves = 1
    HomePods = {"h", "k"}  Others = {"o"}  Names = {"a", "b", "c", "d"}  Tsids = {"s"}  ReceiverMoves = 2
    Damaged = Damaged  Owner = "owner"  Stranger = "stranger"  MaxUpsets = 2  MaxTries = 5
    Rooms = {"A", "B"}  Subs = {"S"}  BondedTo <- RoomA  RememberedScans = 2  SonosMoves = 1
    Scenes <- Copies
INVARIANT OneRuns
CHECK_DEADLOCK FALSE
