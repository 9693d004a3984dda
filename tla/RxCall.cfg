SPECIFICATION FairSpec
CONSTANTS
    RingSize = 2
    Chunk = 2
    Window = 1
    PeerOpts = {"BINARY", "OTHER"}
    Sizes <- TwoSizes
    MaxUnits = 2
INVARIANTS TypeOK Transparent NawsReal
PROPERTIES NegotiationEnds Flows ImplementsFifo
