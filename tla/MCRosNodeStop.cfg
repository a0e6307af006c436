SPECIFICATION FairSpec
CONSTANTS
  MaxSlot = 4
  SlotsPerSecond = 2
  MaxTicks = 3
  StepMayFail = FALSE
PROPERTIES SpinReturnEndsNode
\* The node ends, and may wait for a clock that has stopped.
CHECK_DEADLOCK FALSE
