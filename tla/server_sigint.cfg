CONSTANTS
  NULL = NULL
  MaxThreads = 2
  MaxRequests = 2
  MaxSignals = 1
  SHRT_MAX = 32767
  INT_MAX = 262143
  LONG_MAX = 1048575
  PortTexts <- Ports
  ThreadsTexts <- Threads
SPECIFICATION FairSpec
PROPERTIES SignalEnds
CHECK_DEADLOCK FALSE
