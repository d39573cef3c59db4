SPECIFICATION Spec
CONSTANTS
    CompareTags = TRUE
    Strobes <- MCStrobes
    Addresses = {0, 40}
    CsrAddresses = {2}
    WriteWords <- MCWords
    ReadHalves = {0}
INVARIANTS TypeOK Handshake OneBusOwner
PROPERTY CommandsAwaitTheirBurst
