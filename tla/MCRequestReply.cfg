SPECIFICATION Spec
CONSTANT MaxRequests <- FourRequests
INVARIANT TypeOK
PROPERTIES SettledRepliesAreOwn ExecutedInOrder RepliesInOrder
\* The client has no request left.
CHECK_DEADLOCK FALSE
