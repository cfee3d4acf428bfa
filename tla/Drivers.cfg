SPECIFICATION DriversSpec
CONSTANTS
    TxSize = 3
    RxSize = 1
    FifoSize = 2
    TxTrigger = 1
    MaxBytes = 7
    Requests <- MCRequests
    Faults = {"silent", "cut", "payload", "exception"}
    RxQueueSize = 16
    Ids = 2
    MaxOwed = 1
    Tasks = {"display", "greenhouse"}
    NoTask = NoTask
    Wants <- MCWants
    FifoDepth = 3
    RxLevel = 2
    MaxRefusals = 1
    Buttons = {"SW_1", "SW_ROT"}
    BUTTON_DEBOUNCE = 1
    EventQueueLength = 2
    MaxTime = 4
INVARIANTS
    NoStall
    Unblocked
    AnswerBelongs
    LineClean
    TransactionIsWhole
    CalmEventCounts
PROPERTIES
    InOrder
    Drains
    TransfersAreHonest
    RequestsReturn
    PictureIsRight
