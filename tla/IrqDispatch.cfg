SPECIFICATION FairSpec
CONSTANTS
  Lines = 5
  IRQ_DMAC = 1
  IRQ_GPIO0 = 3
  IRQ_DMA_0 = 5
  Channels = 1
  IRQ_GPIO_0 = 7
  Ports = 2
  Width = 2
  Users = {0, 5, 7, 8, 9}
  Late = {8, 9}
  Atomic = {5}
  Rearming = {9}
  MaxDepth = 2
  MaxRaises = 3
INVARIANTS NoReentry NotLeftMasked
PROPERTIES Answered ProcessResumes
