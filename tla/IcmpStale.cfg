SPECIFICATION Spec
CONSTANTS
    MaxSeq = 2
    Timeout = 2
    MaxTicks = 3
INVARIANTS AnswerIsOurs
