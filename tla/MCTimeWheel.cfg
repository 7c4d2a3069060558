\* Liveness of Add, tick and Close.
CONSTANTS
  a1 = a1  a2 = a2  a3 = a3
  Adder <- MCAdder3
  MaxTime = 1
  MaxCloses = 2
SPECIFICATION FairSpec
INVARIANTS SlotsOnTime
PROPERTIES KeepsContract EventuallyDispatched NobodyBlocks
CHECK_DEADLOCK FALSE
