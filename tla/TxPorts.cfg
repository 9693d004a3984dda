SPECIFICATION FairSpec
CONSTANTS
    NPorts = 2
    RingSize = 1
    MaxBytes <- BusyAndQuiet
    MaxBlock = 2
INVARIANTS TypeOK StreamIntact EmptyMeansSent OwnOutputOnly
PROPERTIES Drains
