\* One client: what the server carries out against what the user chose.
CONSTANTS
  c1 = c1
  p1 = p1
  p2 = p2
  Clients = {c1}
  Procs = {p1, p2}
  Orig = Orig
  NoFile = NoFile
  NoRequest = NoRequest
  Strings <- MCStrings
  Catalog <- MCCatalog
  Blank = ""
  Atoi <- MCAtoi
  Requests <- MCRequests
  Shipped <- MCShipped
  MaxInterrupts = 0
  OpensMayFail = FALSE
  Forms <- AllForms
  MaxAsked = 2
  MaxDup = 0
SPECIFICATION SystemSpec
CHECK_DEADLOCK FALSE
INVARIANTS
  OnlyWhatTheUserChose
