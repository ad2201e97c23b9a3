SPECIFICATION Spec
CONSTANTS
    Posters = {mixer, stream}
    Depth = 3
    MaxPosts = 2
    NoEvent = NoEvent
INVARIANT NoneLeftWaiting
CHECK_DEADLOCK FALSE
