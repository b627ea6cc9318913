\* Three children, any requests, overlapping in every way, one restart.
CONSTANTS
  p1 = p1
  p2 = p2
  p3 = p3
  Procs = {p1, p2, p3}
  Orig = Orig
  NoFile = NoFile
  NoRequest = NoRequest
  Strings <- MCStrings
  Catalog <- MCCatalog
  Requests <- MixedRequests
  Shipped <- MCShipped
  MaxInterrupts = 1
  OpensMayFail = TRUE
SPECIFICATION Spec
SYMMETRY Symmetry
INVARIANTS
  TypeOK
  StepsFit
  UnsharedTempsInventNothing
  ReceiptsMatchPayments
  RefusedPaymentsLoseNothing
  NoNumberSkipped
