SPECIFICATION Spec
CONSTANTS
  Requests <- Every
  MaxRequests = 2
  resources <- Files
  RD_BUF_SIZE = 22
INVARIANT AnswersInOrder
INVARIANT ParsedAsWhole
INVARIANT ClosedForAReason
INVARIANT NobodyWaitsInVain
\* The client has nothing more to send, or the connection is closed.
CHECK_DEADLOCK FALSE
