CONSTANTS
    Names <- MCNames
    Texts <- MCTexts
    Again <- MCAgain
    AllFeatures <- MCAllFeatures
    stackLimit_g = 3
    Bad = Bad
    Huge = Huge
    Lone = Lone
    Empty = ""
    NoValue = NoValue
SPECIFICATION FairSpec
INVARIANTS
    TypeOK
    Verdict
    OurVerdict
    Located
PROPERTIES
    ReadsEnd
    Advances
CHECK_DEADLOCK FALSE
