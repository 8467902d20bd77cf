\* Numbers that are assigned, used up, or not yet in use, and 0, which never is.
CONSTANTS
  NULL = NULL
  NThreads = 1
  Keys = {1, 2}
  Values = {a}
  AskedNumbers = {0, 1, 2}
  MaxAssignment = 4
SPECIFICATION HistorySpec
INVARIANTS VerifySound LastWriteWins
PROPERTIES ImplementsWriteService EventuallyVerifiable
