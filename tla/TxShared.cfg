SPECIFICATION Spec
CONSTANTS
    NPorts = 2
    RingSize = 2
    MaxBytes <- OneEach
    MaxBlock = 1
INVARIANTS SharedBufferSafe
