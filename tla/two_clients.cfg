\* Two clients with two requests each on two pids, scheduled fairly over a lossy
\* network, one restart.
CONSTANTS
  c1 = c1
  c2 = c2
  p1 = p1
  p2 = p2
  Clients = {c1, c2}
  Procs = {p1, p2}
  Orig = Orig
  NoFile = NoFile
  NoRequest = NoRequest
  Strings <- MCStrings
  Catalog <- MCCatalog
  Blank = ""
  Atoi <- MCAtoi
  Requests <- MCRequests
  Shipped <- MCShipped
  MaxInterrupts = 1
  OpensMayFail = TRUE
  Forms <- FileForms
  MaxAsked = 2
  MaxDup = 0
SPECIFICATION FairSystemSpec
CHECK_DEADLOCK FALSE
PROPERTIES
  EveryRequestSettles
  EveryChildEnds
