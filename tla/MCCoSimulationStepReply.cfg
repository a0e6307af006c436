SPECIFICATION FairSpec
CONSTANTS
  Client <- TwoClients
  NoClient = ""
  CancelsQueued = FALSE
  MaxLease <- ThreeLeases
  MaxSteps <- TwoSteps
PROPERTIES StepReplyMeansStepped
