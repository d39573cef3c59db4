SPECIFICATION MCFairSpec
CONSTANTS
    CompareTags = FALSE
    Strobes <- MCStrobes
    Addresses = {32, 64}
    CsrAddresses = {0}
    WriteWords <- MCWriteWords
    ReadHalves = {}
    Operations = {"regw"}
    Courteous = TRUE
    MaxPending = 1
    Workloads = {"any"}
PROPERTY RegisterWriteEnds
