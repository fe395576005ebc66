SPECIFICATION Spec
CONSTANTS
  Requests <- Every
  MaxRequests <- Bounds
  stoi <- Numbers
  Reads = {"request", "burst", "pieces"}
INVARIANT AnswersMatch
INVARIANT WellFormedNeverRefused
INVARIANT NoneLeftWaiting
\* The client has nothing more to send, or the connection is closed.
CHECK_DEADLOCK FALSE
