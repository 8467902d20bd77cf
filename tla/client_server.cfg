CONSTANTS
  NULL = NULL
  EBADMSG = EBADMSG
  Segment = 2
  Capacity = 2
  Clients = {c1, c2}
  NoFd = noFd
  Keys <- TwoKeys
  a = a
  c1 = c1
  c2 = c2
  Values = {a}
  AskedNumbers = {1, 2, 3}
  Commands <- Some
  Window = 1
  MaxCommands = 4
SPECIFICATION Spec
INVARIANTS TypeOK OwnAnswer NumberIsNew VerifiedIsApplied
PROPERTIES CallReturns
CHECK_DEADLOCK FALSE
