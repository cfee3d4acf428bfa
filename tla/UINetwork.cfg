SPECIFICATION FairSpec
CONSTANTS
    CO2_MAX = 0
    MAX_CREDENTIAL_STRING_LEN = 1
    StorageQueueLength = 1
    Empty = Empty
    Queued <- Alike
    Garbage = Garbage
    Chars <- JustDot
VIEW View
INVARIANTS
    MailboxesAgree
    StringsShown
    NoGarbageDrawn
PROPERTIES
    Settles
