SPECIFICATION Spec
CONSTANTS
  Symbols = 2
  WordBits = 4
  FirstBits = 2
  MaxWords = 5
  MaxOut = 30
INVARIANTS DecodesReference ChainsRestored
 
