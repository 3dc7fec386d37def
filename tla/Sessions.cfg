CONSTANTS
    Conns = {c1, c2}
    Addrs = {a1, a2}
    Null = Null
    Absent = Absent
    Wild = Wild
    Unread = Unread
    MaxMsgs = 2
SPECIFICATION Spec
SYMMETRY MCSymmetry
INVARIANTS
    DeletedOnce
    NoDanglingEntry
    SessionsMatch
    LaterOnly
CHECK_DEADLOCK FALSE
CONSTRAINT MCBound
