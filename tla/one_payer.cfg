\* One payment at a time among overlapping orders, two restarts.
CONSTANTS
  p1 = p1
  p2 = p2
  p3 = p3
  Procs = {p1, p2, p3}
  Orig = Orig
  NoFile = NoFile
  NoRequest = NoRequest
  Strings <- MCStrings
  Catalog <- MCCatalog
  Requests <- MixedRequests
  Shipped <- MCShipped
  MaxInterrupts = 2
  OpensMayFail = TRUE
SPECIFICATION OnePayerSpec
SYMMETRY Symmetry
INVARIANTS
  NothingTwice
