CONSTANTS
  NFDESC = 4
  Clients = {c1, c2, c3}
  Listening = listening
  NoFd = noFd
  Mortal = {c1, c2, c3}
SPECIFICATION SpecWithDeaths
PROPERTIES ClosedIsRemoved
CHECK_DEADLOCK FALSE
