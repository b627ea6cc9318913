\* Three requests, one at a time.
CONSTANTS
  p1 = p1
  p2 = p2
  p3 = p3
  Procs = {p1, p2, p3}
  Orig = Orig
  NoFile = NoFile
  NoRequest = NoRequest
  Strings <- MCStrings
  Catalog <- MCCatalog
  Requests <- SerialRequests
  Shipped <- MCShipped
  MaxInterrupts = 0
  OpensMayFail = TRUE
SPECIFICATION SerialSpec
INVARIANTS
  Conservation
PROPERTIES
  ImplementsLedger
