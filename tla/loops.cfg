\* Every created_orders.txt of up to four lines over six lines, four of which
\* have lost their front, every orders.txt of up to three, every range of a
\* three-book catalogue, with numbers that are too small and too large.
CONSTANTS
  FileLines <- MCLines
  Nums = {1, 2, 3}
  MaxLines = 4
  Words <- Letters
  Books <- MCBooks
  IntHalf = 8
  Strings <- Letters
  Catalog <- MCCatalog
  Numbers <- MCNumbers
  Limits <- MCLimits
  Width = 5
  MaxLog = 3
SPECIFICATION AllSpec
CHECK_DEADLOCK FALSE
INVARIANTS
  LoopsCompute
  ScansCompute
  DisplayComputes
