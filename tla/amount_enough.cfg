\* One request at a time: the check of the amount against the order that is paid.
CONSTANTS
  p1 = p1
  p2 = p2
  Procs = {p1, p2}
  Orig = Orig
  NoFile = NoFile
  NoRequest = NoRequest
  Strings <- MCStrings
  Catalog <- MCCatalog
  Requests <- SerialRequests
  Shipped <- MCShipped
  MaxInterrupts = 0
  OpensMayFail = FALSE
SPECIFICATION SerialSpec
INVARIANTS
  AmountWasEnough
