SPECIFICATION Spec
CONSTANTS
    Peers = {p1}
    None = None
    server_fd = 3
    Fds <- FourFds
    Users <- OneUser
    Garbage <- MCGarbage
    Absent = Absent
    Width <- MCWidth
    Garbled = Garbled
    Requests <- BufferRequests
    MaxPending = 2
    Faults = {"abandon", "hasty", "unread"}
CHECK_DEADLOCK FALSE
INVARIANTS
    NoWordReplaced
