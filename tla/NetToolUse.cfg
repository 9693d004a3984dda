SPECIFICATION RFairSpec
CONSTANTS
    MaxSeq = 2
    Timeout = 1
    MaxTicks = 2
    Names = {n1, n2}
    NoName = NoName
    Wait = 1
INVARIANTS EchoIsOurs TimeoutIsReal AddressIsForName
PROPERTIES OutcomeStands RequestEnds LookupEnds
