CONSTANTS
    Threads = {t1, t2, t3}
    Cmds = {c1, c2, c3}
    NoThread = NoThread
    NoCmd = NoCmd
    MaxErrors = 2
    MaxMisreads = 2
SPECIFICATION Spec
SYMMETRY MCSymmetry
INVARIANTS
    LockHeld
    AtMostOnce
    NotForgotten
    NoLeftover
