SPECIFICATION Spec
CONSTANTS
    NPorts = 2
    NGroups = 1
    Socks = {s1, s2, s3, s4}
    NoSock = NoSock
    MaxClosing = 1
    MaxRings = 1
    MaxS0 = 0
    PurgeMod = 4
    Eager = {FALSE}
    Configs <- AnyConfig
    Uses <- Reconfigured
SYMMETRY SockSymmetry
INVARIANTS SocketOwnership NoDeadLine
