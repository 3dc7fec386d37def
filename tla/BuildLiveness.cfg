\* no symmetry: it is not sound for liveness
CONSTANTS
    Threads = {t1, t2}
    Sessions = {s1}
    NoThread = NoThread
    NoSession = NoSession
    MaxTiles = 1
    Stays = NoSession
    Issued = {"build", "stop", "text"}
SPECIFICATION FairSpec
PROPERTIES
    BuildsEnd
    StopConsumed
    JobsSpec
CHECK_DEADLOCK FALSE
CONSTRAINT MCBound
