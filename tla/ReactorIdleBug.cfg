SPECIFICATION Spec
CONSTANTS
  c1 = c1
  c2 = c2
  f1 = f1
  f2 = f2
  Conns = {c1}
  Fds = {f1}
  MaxSends = 1
  MaxAllSends = 1
  None = None
PROPERTY ExpiredIsClosed
\* All connections may have come and gone.
CHECK_DEADLOCK FALSE
