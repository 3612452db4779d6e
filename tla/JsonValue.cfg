SPECIFICATION Spec
CONSTANTS
    maxInt = 7
    maxLargestInt = 127
    MaxExponent = 8
    MantissaBits = 5
    MaxIndex = 2
    MaxNodes = 4
    Starts <- MCStarts
    Elements <- MCElements
    Names <- MCNames
    Paths <- MCPaths
    Comments <- MCComments
VIEW Values
INVARIANTS
    ComparesTotally
    ConvertsAsTold
PROPERTIES
    ContainerSpec
    ThrowsCleanly
    PathFindsWhatItMade
CHECK_DEADLOCK FALSE
