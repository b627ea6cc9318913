\* Three clients, a backlog that holds one, a server that is restarted once.
CONSTANTS
  c1 = c1
  c2 = c2
  c3 = c3
  Clients = {c1, c2, c3}
  Nothing = Nothing
  Words <- MCWords
  Books <- MCBooks
  IntHalf = 8
  Requests <- IterRequests
  Logged <- NoLog
  Literals <- IterLiterals
  MaxFiles = 3
  MaxBacklog = 0
  MaxOrders = 1
  MaxRestarts = 1
SPECIFICATION FairIterSpec
CHECK_DEADLOCK FALSE
INVARIANTS
  OneAtATime
PROPERTIES
  TurnComes
  ImplementsOwnDesk
