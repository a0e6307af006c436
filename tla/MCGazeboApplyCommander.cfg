SPECIFICATION Spec
CONSTANTS
  Link <- DistinctLinks
  Joint <- OneJoint
  Duration <- ShortAndLong
  MaxRequests = 2
  MaxTime = 3
  MaxResets = 1
INVARIANTS TypeOK ResetLeavesOneRequest ForceBringsTorque
PROPERTIES InputAsPromised
\* The clients have no request left and the time is at its bound.
CHECK_DEADLOCK FALSE
