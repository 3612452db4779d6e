SPECIFICATION FairSpec
CONSTANTS
    Peers = {p1, p2}
    None = None
    server_fd = 3
    Fds <- FourFds
    Users <- OneUser
    Garbage <- MCGarbage
    Absent = Absent
    Width <- MCWidth
    Garbled = Garbled
    Requests <- Downloads
    MaxPending = 1
    Faults = {"hasty", "overlap"}
CHECK_DEADLOCK FALSE
PROPERTIES
    RequestsServed
    ClientsGreeted
