SPECIFICATION Spec
CONSTANTS
  BufferSize = 4
  Lengths = {1, 2}
  DropLimit = 3
  FlushPerN = 3
  MaxLines = 8
  Null = Null
  small_buffer_size = 16
  max_remain_size = 5
  Numbers <- EightBits
INVARIANT AssertsHold
INVARIANT LinesKeepTheirOrder
INVARIANT LinesAreWhole
PROPERTY EveryLineIsFlushed
PROPERTY StopEndsThread
\* The logging thread ends after stop().
CHECK_DEADLOCK FALSE
