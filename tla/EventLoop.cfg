SPECIFICATION Spec
CONSTANTS
  t1 = t1
  t2 = t2
  loop_thread = loop_thread
  Threads = {t1, t2}
  Loop = loop_thread
  MaxFunctors = 4
INVARIANT NoLostWakeup
INVARIANT QuitIsSeen
PROPERTY ImplementsTaskQueue
PROPERTY EveryFunctorRuns
PROPERTY QuitStops
\* The IO thread stops for good once it has seen quited_.
CHECK_DEADLOCK FALSE
