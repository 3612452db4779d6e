SPECIFICATION Spec
CONSTANTS
    BUFFER_SIZE = 2
    Capacity = 3
    Listings <- MCListings
    Contents <- MCContents
    Files <- MCFiles
    Overrun <- MCOverrun
    Prompt = TRUE
    Patient = TRUE
INVARIANTS
    ListingsPrinted
    DownloadIsFile
PROPERTY
    TransfersEnd
