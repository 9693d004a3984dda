SPECIFICATION VFairSpec
CONSTANTS
    NHandles = 2
    Socks = {s1, s2}
    NoSock = NoSock
    MaxClosing = 1
INVARIANTS TypeOK SocketOwnership EmptySlotClean FdHasSlot
PROPERTIES RefusalIsReal EofOnlyAtEnd ClosedSlotsComeBack
