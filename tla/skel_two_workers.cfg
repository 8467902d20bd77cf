CONSTANTS
  NULL = NULL
  NThreads = 2
  Keys <- TwoKeys
  Values = {a}
  AskedNumbers = {1}
  MaxAssignment = 4
SPECIFICATION Spec
INVARIANTS TypeOK NumbersInOrder DoneWindow InProgressIsHeld
PROPERTIES ImplementsWriteService
