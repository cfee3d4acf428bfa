SPECIFICATION LateSpec
CONSTANTS
    CO2_MAX = 1
    MAX_CREDENTIAL_STRING_LEN = 1
    StorageQueueLength = 1
    Empty = Empty
    Queued <- Itself
    Unknown = Unknown
    Replaced = Replaced
    Chars <- DotAndA
CONSTRAINT Focus
VIEW View
PROPERTY
    ResetsToTarget
