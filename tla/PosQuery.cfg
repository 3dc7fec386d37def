CONSTANTS
    Queries = {q1, q2}
    Handlers = {h1, h2}
    Parsers = {p1, p2}
    Positions = {here, there}
    Zero = Zero
    Failure = Failure
    NoAnswer = NoAnswer
    NoQuery = NoQuery
    MaxMisreads = 2
SPECIFICATION FairSpec
INVARIANTS
    TypeOK
    KeeperClean
    StillAwaited
    WholePosition
PROPERTIES
    QueriesEnd
CHECK_DEADLOCK FALSE
