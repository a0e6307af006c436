SPECIFICATION FairSpec
CONSTANTS
  Client = {c1, c2, c3}
  NoClient = NoClient
  CancelsQueued = FALSE
  MaxLease = 5
INVARIANTS TypeOK FiniteLeaseHasDeadline ArmedWaitIsLatest
PROPERTIES LeaseNotStolen LeaseEnds ImplementsLease
\* The service thread ends when the plugin is unloaded.
CHECK_DEADLOCK FALSE
