CONSTANTS
    Turn <- MCTurn
    Unit <- MCUnit
    colormap <- MCcolormap
    palette_json <- MCpalette_json
    Commands <- MCCommands
    Curves <- MCCurves
    Files <- MCFiles
    LastPlace <- MCLastPlace
    NoBlock = NoBlock
    NoFile = NoFile
    NoList = NoList
    NoProperties = NoProperties
SPECIFICATION Spec
INVARIANTS
    TypeOK
    PushExact
    FilledOnce
    FreedOnce
    ShapesTrue
    FilesTrue
CHECK_DEADLOCK FALSE
