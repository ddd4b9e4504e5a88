CONSTANTS
    Ids = {c}
    Nodes = {n1, n2}
    NoNode = NoNode
    Null = Null
    Sizes = {1, 2}
    Themes = {1, 2}
    MaxVersion = 3
    MaxEvents = 2
    ForceEvery = 2
    Values <- MCValues
    KindOf <- MCKindOf
SPECIFICATION MCSpec
INVARIANTS TypeOK RecordIsLatest RootsOwned DrawnHonestly
PROPERTIES ImplementsView
CHECK_DEADLOCK FALSE
