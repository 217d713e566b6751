CONSTANTS
    Authors = {a, b}
    Period = 4
    Flood = 2
    Early = 0
    Delay = 1
    MaxPosts = 3
    Late = 1
    MaxTime = 9
SYMMETRY Symmetry
SPECIFICATION Spec
CHECK_DEADLOCK FALSE
INVARIANT TimelineTypeOK
INVARIANT SentOnce
INVARIANT MissedAtEdge
INVARIANT ShownTwice
 
