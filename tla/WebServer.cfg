SPECIFICATION ServerSpec
CONSTANTS
  ThreadNum = 3
  MAXFD = 3
  FdLimit = 5
  MaxClients = 5
INVARIANT NoStrandedBacklog
INVARIANT EveryClientAccounted
INVARIANT RoundRobin
INVARIANT LoopsExist
PROPERTY GivenToLivingLoop
PROPERTY PoolStarts
PROPERTY DestructorEnds
PROPERTY BacklogIsServed
\* The bound on clients is reached; or the server has ended.
CHECK_DEADLOCK FALSE
