\* Two clients, every kind of request, a server that is restarted once.
CONSTANTS
  c1 = c1
  c2 = c2
  Clients = {c1, c2}
  Nothing = Nothing
  Words <- MCWords
  Books <- MCBooks
  IntHalf = 8
  Requests <- AllRequests
  Logged <- NoLog
  MaxFiles = 2
  MaxOrders = 2
  MaxRestarts = 1
SPECIFICATION FairSpec
CHECK_DEADLOCK FALSE
INVARIANTS
  TypeOK
  OneOnItsWay
PROPERTIES
  ToldNumbersKeepTheirMeaning
  EveryRequestSettles
  ImplementsDesk
