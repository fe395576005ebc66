SPECIFICATION Spec
CONSTANTS
  Requests <- Served
  MaxRequests <- Bounds
  stoi <- Numbers
  Reads = {"pieces"}
INVARIANT LineParsedWhenComplete
\* The client has nothing more to send, or the connection is closed.
CHECK_DEADLOCK FALSE
