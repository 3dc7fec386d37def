CONSTANTS
    Threads = {t1, t2, t3}
    Sessions = {s1}
    NoThread = NoThread
    NoSession = NoSession
    MaxTiles = 2
    Stays = NoSession
    Issued = {"build", "stop"}
SPECIFICATION Spec
SYMMETRY MCSymmetry
INVARIANTS
    OneBuildPerSession
    BusyIsExact
    StopHeeded
CHECK_DEADLOCK FALSE
CONSTRAINT MCBound
