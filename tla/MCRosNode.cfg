SPECIFICATION FairSpec
CONSTANTS
  MaxSlot = 5
  SlotsPerSecond = 2
  MaxTicks = 4
  StepMayFail = TRUE
INVARIANTS TypeOK NoTickLost EverySlotNotified
PROPERTIES NoStepAfterTerminate ErrorEndsNode StopIsObeyed
\* The node ends, and may wait for a clock that has stopped.
CHECK_DEADLOCK FALSE
