SPECIFICATION ServerSpec
CONSTANTS
  Server = {s1, s2}
  Client = {c1, c2}
  Backlog = 2
  Nobody = Nobody
INVARIANTS
  ServerInv
  SocketFollowsLock
PROPERTIES
  CommandsReturn
  StopTakesEffect
