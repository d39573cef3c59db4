SPECIFICATION MCSpec
CONSTANTS
    CompareTags = TRUE
    Strobes <- MCStrobes
    Addresses = {32, 64}
    CsrAddresses = {0}
    WriteWords <- MCWriteWords
    ReadHalves = {}
    Operations = {"memr", "memw"}
    Courteous = TRUE
    MaxPending = 1
    Workloads = {"any"}
INVARIANT EvictedLineIsInDevice
