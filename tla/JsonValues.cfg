CONSTANTS
    Bad = Bad
    Huge = Huge
    Lone = Lone
    Empty <- MCEmpty
    NoValue = NoValue
    maxInt = 3
    maxLargestInt = 15
    NaN = NaN
    Infinity = 1000
    NegInfinity <- MCNegInfinity
    rightMargin_ = 12
    Trailing = "c "
    Roots <- MCRoots
    Others <- MCOthers
    Written <- MCWritten
    Paths <- MCPaths
    Names <- MCNames
    Indices = {0, 1, 3}
    Sizes = {0, 1, 3}
    Given <- MCGiven
    Notes <- MCNotes
    MaxCalls = 2
SPECIFICATION Spec
INVARIANTS
    Ordered
    Conversions
    ReadsBack
    CommentsReadBack
PROPERTIES
    CallEffects
CHECK_DEADLOCK FALSE
