SPECIFICATION Spec
CONSTANTS
    Deltas <- SomeDeltas
    ChanCap = 2
    MaxChunks = 3
    MaxFaults = 1
INVARIANTS DisplayIsOfLines LostOnlyAtTheEnd
PROPERTIES TerminalReady
