SPECIFICATION Spec
CONSTANTS
    NPorts = 2
    NGroups = 1
    Socks = {s1, s2, s3}
    NoSock = NoSock
    MaxClosing = 2
    MaxRings = 1
    MaxS0 = 0
    PurgeMod = 4
    Eager = {FALSE}
    Configs <- TwoLines
    Uses <- NoUses
PROPERTY CallerReachesDialledPort
