CONSTANTS
    Data = {d1, d2}
    Frags = 3
    MaxRead = 2
SPECIFICATION LiveSpec
INVARIANTS
    BuffersConserved
    PausesOnlyIfFull
    FreshRead
PROPERTIES
    RecordFifo
    ReadReturns
