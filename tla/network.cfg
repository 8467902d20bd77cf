CONSTANTS
  NFDESC = 4
  Clients = {c1, c2, c3}
  Listening = listening
  NoFd = noFd
  Mortal = {c1}
SPECIFICATION SpecWithDeaths
INVARIANTS TypeOK AlwaysRoom OneSlotEach SocketIdsDistinct NeverWaitsForLiveClient
PROPERTIES ImplementsConnectionService
CHECK_DEADLOCK FALSE
