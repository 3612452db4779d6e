SPECIFICATION Spec
CONSTANTS
    Dir = Dir
    NoPath = NoPath
    Accounts <- MCAccounts
    Admins <- MCAdmins
    Files <- MCFiles
    Quota <- MCQuota
    MaxInt = 7
    InitTree <- MCTree
    Home <- MCHome
    ShellHome <- MCHome
    Arguments <- MCArguments
    MaxPosition = 2
    MaxDepth = 3
    MaxNodes = 4
CHECK_DEADLOCK FALSE
INVARIANTS
    QuotaConserved
    DeletedIsGone
PROPERTIES
    ActsBelowPosition
    UpIsUp
