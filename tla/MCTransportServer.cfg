SPECIFICATION FairSpec
CONSTANTS
  Peer = {p1, p2}
  NoPeer = NoPeer
  MaxRuns <- TwoRuns
INVARIANTS TypeOK ShutdownLeavesNothing AlwaysAccepts ServedAfterHandshake
PROPERTIES ShutdownCompletes SilentPeersAreDropped
\* After the last shutdown nothing is left to do.
CHECK_DEADLOCK FALSE
