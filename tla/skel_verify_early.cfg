CONSTANTS
  NULL = NULL
  NThreads = 2
  Keys = {1}
  Values = {a}
  AskedNumbers = {1}
  MaxAssignment = 3
SPECIFICATION Spec
INVARIANTS VerifySound
