SPECIFICATION MCSpec
CONSTANTS
    CompareTags = TRUE
    Strobes <- MCStrobes
    Addresses = {32, 35, 64}
    CsrAddresses = {0, 1, 2, 3}
    WriteWords <- MCWriteWords
    ReadHalves = {}
    Operations = {"memr", "memw", "regr"}
    Courteous = FALSE
    MaxPending = 1
    Workloads = {"patient", "hasty"}
INVARIANTS CommandReachesDevice RegisterReadAnswers WriteBackOnPins NoContentionOnReads
PROPERTIES RecoversAfterWriteBack BurstsAreWhole
