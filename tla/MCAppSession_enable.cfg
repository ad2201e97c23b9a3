SPECIFICATION MCSpec
CONSTANTS
    s1 = s1  s2 = s2  u1 = u1  u2 = u2  None = None
    m1 = m1  m2 = m2  g1 = g1  g2 = g2  c1 = c1
    Speakers <- TwoSpeakers
    SendspinSpeakers <- JustS1
    PinSpeakers <- JustS1
    Users <- TwoUsers
    Background <- AllBackground
    Launches <- AllLaunches
    MaxOps = 4
    Scenes <- ManyScenes
INVARIANT EnableIsKept
CHECK_DEADLOCK FALSE
