SPECIFICATION Spec
CONSTANTS
    Managers = {m1}
    Speakers = {s1}
    Conns = {c1, c2}
    MaxSubs = 1
    None = None
PROPERTIES InArrivalOrder
CHECK_DEADLOCK FALSE
