CONSTANTS
  NULL = NULL
  MaxThreads = 2
  MaxRequests = 3
  MaxSignals = 1
  SHRT_MAX = 32767
  INT_MAX = 262143
  LONG_MAX = 1048575
  PortTexts <- Ports
  ThreadsTexts <- Threads
SPECIFICATION FairSpec
INVARIANTS TypeOK MutualExclusion NoLostWakeup NoMemoryError PortAsTyped
PROPERTIES ImplementsFifo EventuallyTaken BusyWorkersExit SignalInPollEnds
CHECK_DEADLOCK FALSE
