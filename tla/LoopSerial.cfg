SPECIFICATION Spec
CONSTANTS
    Peers = {p1, p2}
    None = None
    server_fd = 3
    Fds <- FourFds
    Users <- OneUser
    Garbage <- MCGarbage
    Absent = Absent
    Width <- MCWidth
    Garbled = Garbled
    Requests <- AnyRequests
    MaxPending = 1
    Faults = {"hasty", "unread"}
CHECK_DEADLOCK FALSE
SYMMETRY Symmetry
INVARIANTS
    EveryClientWatched
    DescriptorRoles
    NoBlockingRead
    Paired
    
