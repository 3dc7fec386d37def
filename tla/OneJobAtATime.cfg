CONSTANTS
    Threads = {t1, t2}
    Sessions = {s1, s2}
    NoThread = NoThread
    NoSession = NoSession
    MaxTiles = 1
    Stays = s2
    Issued = {"build", "stop"}
SPECIFICATION Spec
SYMMETRY MCSymmetry
INVARIANT OneJobAtATime
CHECK_DEADLOCK FALSE
