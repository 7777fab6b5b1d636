CONSTANTS
  Clients = {c, d}
  Base = 1
  MaxOrder = 2
  MaxLen = 3
  Word = 1024
SPECIFICATION ImemSpec
INVARIANTS AnnouncedIsFree
PROPERTIES OverlapOnlyIfRaced
