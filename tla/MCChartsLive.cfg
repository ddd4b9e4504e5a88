CONSTANTS
    Ids = {c}
    Nodes = {n1, n2}
    NoNode = NoNode
    Null = Null
    Sizes = {1}
    Themes = {1, 2}
    MaxVersion = 2
    MaxEvents = 2
    ForceEvery = 2
    Values <- MCValues
    KindOf <- MCKindOf
SPECIFICATION MCSpec
PROPERTIES Converges RootsReleased
CHECK_DEADLOCK FALSE
