SPECIFICATION TripSpec
CONSTANTS
    maxInt = 7
    maxLargestInt = 127
    MaxExponent = 8
    stackLimit_g = 4
    MaxErrors = 1
    rightMargin = 14
    Features <- MCFeatures
    Documents <- MCDocuments
    Trees <- MCTrees
    Styles <- MCStyles
INVARIANTS
    ReadsBack
    CommentsReadBack
