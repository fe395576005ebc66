SPECIFICATION MCSpec
CONSTANTS
  c1 = c1
  c2 = c2
  f1 = f1
  f2 = f2
  Conns = {c1, c2}
  Fds = {f1, f2}
  MaxSends = 2
  MaxAllSends = 2
  None = None
INVARIANT OneLiveTimer
INVARIANT NoLostInput
INVARIANT NoLostOutput
INVARIANT WaitsForWhatItNeeds
INVARIANT OnlyBlockedCloseHasNoTimer
INVARIANT DispatchTargetAlive
INVARIANT TransfersKeepBytes
PROPERTY NoPrematureTimeout
PROPERTY ImplementsDescriptors
PROPERTY InputIsHandled
\* All connections may have come and gone.
CHECK_DEADLOCK FALSE
