SPECIFICATION Spec
CONSTANTS
    p1 = p1
    p2 = p2
    p3 = p3
    Process <- MCProcess
    PID <- MCPID
    Inode = {1, 2}
    Nobody = Nobody
    NoFile = NoFile
INVARIANTS
    OneServer
PROPERTIES
    NamesServer
CHECK_DEADLOCK TRUE
