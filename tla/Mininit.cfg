SPECIFICATION Spec
CONSTANTS
  Cmdlines <- MCCmdlines
  Devices = {"sd", "nand"}
  Loops = {"loop0"}
  Inits <- MCInits
  TableSize = 5
  Retries = 3
INVARIANTS HandOver
PROPERTIES GivesUpOnlyIfNone EarlierFirst
