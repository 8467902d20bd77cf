CONSTANTS
  NULL = NULL
  EBADMSG = EBADMSG
  Segment = 2
  Capacity = 0
  Clients = {c1}
  NoFd = noFd
  Keys <- TwoKeys
  a = a
  c1 = c1
  c2 = c2
  Values = {a}
  AskedNumbers = {1, 2, 3}
  Commands <- Some
  Window = 1
  MaxCommands = 1
SPECIFICATION Spec
PROPERTIES CutOffReturns
CHECK_DEADLOCK FALSE
