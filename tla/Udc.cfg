CONSTANTS
  Reqs <- MCReqs
  EpOf <- MCEpOf
  Gadgets <- MCGadgets
  Halting = {1, 2}
  MaxCalls = 1
SPECIFICATION FairSpec
INVARIANTS GivenBackOnce CompletedIsStill
PROPERTIES LostOnlyThus GivenBackEventually
