SPECIFICATION FairSpec
CONSTANTS
    NPorts = 1
    NGroups = 1
    Socks = {s1, s2, s3}
    NoSock = NoSock
    MaxClosing = 1
    MaxRings = 1
    MaxS0 = 0
    PurgeMod = 4
    Eager = {TRUE}
    Configs <- AnyConfig
    Uses <- HangupUse
PROPERTIES HangupHonoured SocketsComeBack CallersServed
