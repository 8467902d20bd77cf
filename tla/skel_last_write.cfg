CONSTANTS
  NULL = NULL
  NThreads = 2
  Keys = {1}
  Values = {a, b}
  AskedNumbers = {1}
  MaxAssignment = 4
SPECIFICATION HistorySpec
INVARIANTS LastWriteWins
