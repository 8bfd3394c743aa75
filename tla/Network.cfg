SPECIFICATION FairSpec
CONSTANTS
  Clients = {c1, c2, c3}
  Watched = {c1}
  MaximumClients = 2
  MaxEvents = 2
  Calls = {call}
  Peers = {gui}
  Trusted = {gui}
  Worlds <- AllWorlds
CHECK_DEADLOCK FALSE
INVARIANTS
  EventsInOrder
PROPERTIES
  EventsArrive
  StopsInTheEnd
  CallsFade
