SPECIFICATION MCSpec
CONSTANTS
    Bytes = {a, b}
    ReadDepth = 2
    WriteDepth = 1
    ReadThreshold = 0
    WriteThreshold = 0
    BufLen = 3
    IntMax = 4
    DefaultTimeout = 2
    MaxCount = 3
INVARIANTS TypeOK CopiesOwnCells NoLostKick ReceiverComesBack
PROPERTIES RingsArePipes EverythingIsSent ReadersAreWoken CallsOutliveTheHost
