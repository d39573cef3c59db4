SPECIFICATION PartsSpec
CONSTANTS
    Parts = {"alarms", "descriptors", "walker", "interrupts", "logging", "printing",
             "coherence", "program", "clock", "topv2"}
    \* topv2
    RecoveryTime = 7
    \* alarms
    Alarm = {a1, a2, a3}
    AlarmList = list
    Null = null
    Rates = {1}
    Intervals = {1, 2}
    Meddling = FALSE
    MCMaxTicks = 4
    MCMaxTime = 6
    \* descriptors
    Dev = {"uart"}
    Fs = {"fs"}
    DevNull = "null"
    NoDev = "nodev"
    MaxFd = 5
    NameOf <- MCNameOf
    Provides <- MCProvides
    Names <- MCNames
    Modes = {"RDONLY", "RDWR"}
    FlagSets <- MCFlagSets
    Stdio <- MCStdio
    DriverErrors <- MCDriverErrors
    \* walker
    Lists <- MCLists
    StackIncrement = 4
    BranchId = 12
    \* interrupts
    Nirq = 1
    Irqs = {0, 1}
    MaxNest = 2
    Width = 2
    Data = {7, 8}
    \* logging
    LogLevels <- MCLogLevels
    FifoDepth = 2
    StatusLen = 2
    EchoLen = 3
    WriteLens = {1, 2, 5}
    ClockInterval = 1
    ReportInterval = 2
    \* printing
    Formats <- MCFormats
    Values = {0, 7, 10, 127, 128, 255}
    String <- MCString
    IntBits = 8
    \* coherence
    Size = 8
    LineSize = 2
    Buffers <- MCBuffers
    Stores = {1, 2, 5}
    Space = 2
    Drivers = {"tx", "rx", "flash"}
    \* program
    Objects <- MCObjects
    Top = 16
    Increments = {4, 5}
    MaxBlocks = 2
    StackChecked = TRUE
    NoExit = FALSE
    \* clock
    US = 12
    TickRates = {0, 3, 4}
    Times <- MCTimes
    MaxTicks = 7
    Modulus = 256
    ShortLoops = 16
    LoopClocks = 3
    CpuMHz = {1, 2, 4, 5}
    Delays = {0, 1, 2, 47, 48, 49, 50, 153, 154, 191, 192, 193, 255}
INVARIANTS
    PartsTypes
    LinksMirror
    PoolIsWhatIsHeld CallsNeedTheirAccess
    PassesAgree TableIsTheList
    LostOnlyToHandlers
    ReadsAreWhole
    PrintsNumbers
    TransfersAreCoherent
    DestructorsRunOnExit HeapIsSound
    SleepsAsAsked
PROPERTIES
    PartsEnd
    CallbacksAreOnTime
    LockKeepsOthersOut
    TimeIsKept
    TransactionsInOrder StallSeparates
CHECK_DEADLOCK FALSE
