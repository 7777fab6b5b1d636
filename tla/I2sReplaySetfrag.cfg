CONSTANTS
    Data = {d1, d2}
    Short = {d2}
    MaxFrags = 3
    DefaultFrags = 2
    MaxWrite = 2
    MaxRequest = 4
    EarlySetfrag = FALSE
SPECIFICATION Spec
INVARIANTS
    NoStrangeInterrupt
