SPECIFICATION FairSpec
CONSTANTS
    DigitBits = 2
    BlockLen = 4
    NFds = 3
    NSlots = 2
    Certs <- MCCerts
    PreMaster <- MCPreMaster
    KeyLen <- MCKeyLen
    CertName <- MCCertName
    Encrypted <- MCEncrypted
    PreMasterOf <- MCPreMasterOf
    Served <- MCServed
    Cuts <- MCCuts
    Garbled = 6
    RsaOverhead = 4
    SendSizes = {11}
    RecvSizes = {8}
    MaxConn = 2
    MaxSent = 11
    MaxLost = 1
    MaxDamage = 1
INVARIANTS SessionPerSlot PeersAgree StreamIntact
PROPERTIES  CallEnds
CHECK_DEADLOCK FALSE
