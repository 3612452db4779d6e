SPECIFICATION ReadersSpec
CONSTANTS
    maxInt = 7
    maxLargestInt = 127
    MaxExponent = 8
    stackLimit_g = 3
    MaxErrors = 1
    Longest = 5
    Shortest = 2
    Features <- MCFeatures
    Documents <- MCDocuments
    MeaningOf <- MCMeaningOf
INVARIANTS
    LastValueLives
    DepthBounded
    ErrorPointsAtToken
    AcceptsJson
    
    CommentsKept
    OffsetsFound
PROPERTIES
    FailureExplained
    Advances
