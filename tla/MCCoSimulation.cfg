SPECIFICATION FairSpec
CONSTANTS
  Client <- TwoClients
  NoClient = ""
  CancelsQueued = FALSE
  MaxLease <- TwoLeases
  MaxSteps <- TwoSteps
INVARIANTS TypeOK FreeRunBounded StepExact
PROPERTIES StepsGetTaken WorldGetsPaused
