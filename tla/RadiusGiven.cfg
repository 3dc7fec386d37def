CONSTANTS
    t1 = t1
    t2 = t2
    Threads = {t1, t2}
    Texts <- MCTexts
    Messages <- MCRadius
    IntOf <- MCIntOf
    NoNumber = NoNumber
    Reals <- MCReals
    CharOf <- MCCharOf
    IntMax = 32767
    ShortMod = 8
    UIntMod = 65536
    NotSet = NotSet
SPECIFICATION Spec
INVARIANTS
    RadiusGiven
CHECK_DEADLOCK FALSE
