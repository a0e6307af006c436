SPECIFICATION Spec
CONSTANT MaxRequests <- FourRequests
PROPERTY ReplyAnswersRequest
\* The client has no request left.
CHECK_DEADLOCK FALSE
