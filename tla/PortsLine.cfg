SPECIFICATION Spec
CONSTANTS
    NPorts = 1
    NGroups = 1
    Socks = {s1, s2, s3}
    NoSock = NoSock
    MaxClosing = 1
    MaxRings = 2
    MaxS0 = 1
    PurgeMod = 5
    Eager = {FALSE, TRUE}
    Configs <- Standalone
    Uses <- AllUses
SYMMETRY SockSymmetry
INVARIANTS TypeOK ModeMatchesSocket SocketHeldInService UnansweredCallRings
PROPERTIES AnsweredCallTakesHangupWithIt AnsweredCallEndsInSafeContext
