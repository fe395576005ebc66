SPECIFICATION Spec
CONSTANTS
  Requests <- Served
  MaxRequests <- Bounds
  stoi <- Numbers
  Reads = {"burst"}
INVARIANT PipeliningWorks
\* The client has nothing more to send, or the connection is closed.
CHECK_DEADLOCK FALSE
