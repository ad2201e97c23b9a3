SPECIFICATION MCSpec
CONSTANTS
    a1 = a1  a2 = a2  s1 = s1  s2 = s2  NoScope = NoScope
    Addrs = {a1, a2}
    Servers = {s1, s2}
    Runs <- TwoRuns
    Conns = {1, 2, 3}
    MAX_CONNECTIONS = 2
    MAX_CONNECTIONS_PER_ADDRESS = 2
    Categories = {"LongTerm", "Sentinel"}
    MaxActivations = 2
    MaxConnects = 3
    MinBuffers = {1, 6}  Capacity = 5  STALL = 2  MaxTime = 5  MaxSaid = 1  MaxInput = 6
    MaxToggles = 3  MaxSelects = 3
INVARIANTS PairingKept KeysInStep SessionsCounted
PROPERTIES ServersInTurn UnselectedEnds TimelineSound BrowsesWell
CHECK_DEADLOCK FALSE
