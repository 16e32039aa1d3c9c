CONSTANTS
    Names <- TwoNames
    MapNames <- TwoMaps
    Existing <- OneMap
    Labels <- OneLabel
    Configs <- TwoRotations
    SkipDepth = 3
    StopDepth = 5
    MaxStack = 2
SPECIFICATION FairSpec
INVARIANTS
    NeverGivesUp
PROPERTIES
    WalkEnds
    GoesOn
