SPECIFICATION Spec
CONSTANTS
    CO2_MAX = 0
    MAX_CREDENTIAL_STRING_LEN = 0
    StorageQueueLength = 1
    Empty = Empty
    Queued <- Alike
    Garbage = Garbage
    Chars <- JustDot
INVARIANTS
    NetworkScreen
