CONSTANTS
    Threads = {t1, t2}
    Cmds = {c1, c2}
    NoThread = NoThread
    NoCmd = NoCmd
    MaxErrors = 2
    MaxMisreads = 0
SPECIFICATION FairSpec
PROPERTIES
    DeliverySpec
    Delivered
