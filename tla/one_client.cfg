\* One client, a network that loses and duplicates, two restarts.
CONSTANTS
  c1 = c1
  p1 = p1
  p2 = p2
  p3 = p3
  Clients = {c1}
  Procs = {p1, p2, p3}
  Orig = Orig
  NoFile = NoFile
  NoRequest = NoRequest
  Strings <- MCStrings
  Catalog <- MCCatalog
  Blank = ""
  Atoi <- MCAtoi
  Requests <- MCRequests
  Shipped <- MCShipped
  MaxInterrupts = 2
  OpensMayFail = TRUE
  Forms <- PayingForms
  MaxAsked = 3
  MaxDup = 1
SPECIFICATION SystemSpec
CHECK_DEADLOCK FALSE
INVARIANTS
  SystemTypeOK
  AnswersOwnRequest
  NumbersStayClear
PROPERTIES
  ServesOneByOne
