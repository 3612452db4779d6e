SPECIFICATION Spec
CONSTANTS
    Users <- MCUsers
    Fds <- MCFds
    Garbage <- MCGarbage
    Commands <- MCCommands
    Absent = Absent
    NoSeat = NoSeat
    Nobody = Nobody
INVARIANTS
    ActorProven
PROPERTIES
    LoginFollowsUser
    SeatsSpec
