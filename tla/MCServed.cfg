SPECIFICATION MCFairSpec
CONSTANTS
    CompareTags = TRUE
    Strobes <- MCStrobes
    Addresses = {32, 35, 64}
    CsrAddresses = {0}
    WriteWords <- MCWriteWords
    ReadHalves = {}
    Operations = {"memr", "memw"}
    Courteous = TRUE
    MaxPending = 1
    Workloads = {"reads", "one_line"}
INVARIANTS NoReadForgotten
PROPERTIES WordsAreServed RequestsEnd
