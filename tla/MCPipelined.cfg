SPECIFICATION MCSpec
CONSTANTS
    CompareTags = TRUE
    Strobes <- MCStrobes
    Addresses = {32, 64}
    CsrAddresses = {0}
    WriteWords <- MCWriteWords
    ReadHalves = {}
    Operations = {"memr"}
    Courteous = FALSE
    MaxPending = 4
    Workloads = {"any"}
INVARIANT NoReadForgotten
