SPECIFICATION Spec
CONSTANTS
    Peers = {p1, p2}
    None = None
    server_fd = 3
    Fds <- FourFds
    Users <- OneUser
    Garbage <- MCGarbage
    Absent = Absent
    Width <- MCWidth
    Garbled = Garbled
    Requests <- LoginRequests
    MaxPending = 1
    Faults = {}
CHECK_DEADLOCK FALSE
PROPERTY ConnectionsStartLoggedOut
