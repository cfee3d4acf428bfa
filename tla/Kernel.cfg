SPECIFICATION Spec
CONSTANTS
    Tasks = {"high", "middle", "low"}
    NoTask = NoTask
    Priority <- MCPriority
    NumberOfTasks = 3
    Lengths = {1, 2}
    a = a
    b = b
    Items = {a, b}
    NoItem = NoItem
    ISRItems = {a}
    Calls <- MCCalls
    TickRange = 8
    OverflowRange = 2
    Sleepers = {"middle", "low"}
    Delays = {1, 7}
    Timeouts = {3}
    MaxPended = 1
    MaxLate <- MCMaxLate
    Orderers = {"low"}
    Daemon = "high"
    Timers = {"update", "co2wait"}
    AutoReload = {"update"}
    Period <- MCPeriod
    MaxCommands = 1
    Mutexes = {"log", "i2c", "store"}
    Nests <- MCNests
    BlockTimes <- MCBlockTimes
    QueueLength = 2
    MaxLost = 2
    ucHeap = 1
    configTOTAL_HEAP_SIZE = 33
    portBYTE_ALIGNMENT = 2
    xHeapStructSize = 2
    heapSIZE_MAX = 63
    Requests = {1, 3, 4, 30, 63}
    Bits = {0, 8, 16, 17}
    ISRBits = {16, 17}
    EventCalls <- MCEventCalls
    TimerQueueLength = 1
    MaxMeetings = 2
    Locks = {8, 16}
    ISRLocks = {16}
    Seeks <- MCSeeks
    Patience <- MCPatience
    NoLock = NoLock
VIEW View
INVARIANTS NobodyOverslept WokenForItsBits MeetTogether OnTime NoInversion HighestRuns ListsAgree StreamIsWhole NeverSleepsOnLoss HeapIsSound
PROPERTIES QueueIsFifo PeersTakeTurns MemoryIsExclusive
