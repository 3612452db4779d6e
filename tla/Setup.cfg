SPECIFICATION SetupSpec
CONSTANTS
    Configs <- MCConfigs
    PortFiles <- MCPortFiles
    Taken = {{}, {6, 13}}
    Barred = {9}
    PortRange = 16
    Ephemeral = {12, 13, 14}
    Kilobyte = 4
    FileSizes = {0, 3, 8, 150}
    Garbage <- MCGarbage
    MaxStarts = 2
    maxInt = 127
    maxLargestInt = 1023
    MaxExponent = 6
    MantissaBits = 9
    rightMargin = 20
INVARIANTS TypeOK QuotaHolds
PROPERTY ReachesServer
CHECK_DEADLOCK FALSE
