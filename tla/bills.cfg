\* One client: which order a payment is for.
CONSTANTS
  c1 = c1
  Clients = {c1}
  Nothing = Nothing
  Words <- MCWords
  Books <- MCBooks
  IntHalf = 8
  Requests <- BillRequests
  Logged <- NoLog
  Literals <- ThreadLiterals
  MaxFiles = 3
  MaxOrders = 2
  MaxRestarts = 0
SPECIFICATION Spec
CHECK_DEADLOCK FALSE
PROPERTIES
  BillsTheOrder
