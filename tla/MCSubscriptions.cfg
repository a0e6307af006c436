SPECIFICATION FairSpec
CONSTANTS
  MaxTime = 3
  MaxEpoch = 1
  MaxFlight = 1
  MaxArrivals = 2
  Interval = 2
  Polls = 2
INVARIANTS TypeOK
PROPERTIES NoReplyFromFuture StaleOnlyAfterWait RequestReturns NewsAreReported NewsAreNew
