SPECIFICATION ModbusOnlySpec
CONSTANTS
    TxSize = 3
    RxSize = 1
    FifoSize = 2
    TxTrigger = 1
    MaxBytes = 7
    Requests <- MCRequests
    Faults = {"late"}
    RxQueueSize = 16
    Ids = 4
    MaxOwed = 2
    Tasks = {"display", "greenhouse"}
    NoTask = NoTask
    Wants <- MCWants
    FifoDepth = 3
    RxLevel = 2
    MaxRefusals = 1
    Buttons = {"SW_1", "SW_ROT"}
    BUTTON_DEBOUNCE = 1
    EventQueueLength = 2
    MaxTime = 4
INVARIANTS
    ReadsWhatItAsked
