--------------------------- MODULE BookFileLoops ----------------------------
(***************************************************************************)
(* The fgets loops of OrderBook (the count), PayForBook and DisplayCatalog *)
(* in interface.h, line by line.  OrderLog says in a formula what they     *)
(* leave in their variables; here the variables are those of the code.     *)
(* The loops take a step each for every line; those over orders.txt read   *)
(* "size" lines, and the one over books.txt all of them.                   *)
(***************************************************************************)
EXTENDS OrderLog

CONSTANTS MaxLog,           \* the longest orders.txt
          Numbers           \* order numbers, and limits of a catalogue

VARIABLES size,        \* the lines of orders.txt
          wanted,      \* the parameters orderno, M, x and z
          lines,       \* OrderBook: line, after as many lines of the file
          line,        \* PayForBook: line
          buffer,      \* PayForBook: which line of the file buffer holds
          found,       \* PayForBook: the loop was left by its break
          lineNumber,  \* DisplayCatalog: lineNumber
          entries,     \* DisplayCatalog: numberOfFileEntries
          returned     \* DisplayCatalog: the lines of returnString

scanVars == <<size, wanted, lines, line, buffer, found, lineNumber, entries, returned>>

ScanInit ==
  /\ size \in 0..MaxLog
  /\ wanted \in [orderno : Numbers, M : Numbers, x : Numbers, z : Numbers]
  /\ lines = 0
  /\ line = 0 /\ buffer = 0 /\ found = FALSE
  /\ lineNumber = 0 /\ returned = <<>>
  /\ entries = IF wanted.x + wanted.M < wanted.z THEN wanted.M
                                                 ELSE wanted.z - wanted.x

\* Mutant (not the code): the line is counted before it is compared.
ScanOrdersFromOne ==
  /\ lines < size
  /\ lines' = lines + 1
  /\ IF found THEN UNCHANGED <<line, buffer, found>>
     ELSE /\ buffer' = lines'
          /\ line' = line + 1
          /\ found' = (line' = wanted.orderno)
  /\ UNCHANGED <<size, wanted, lineNumber, entries, returned>>

\* OrderBook counts every line; PayForBook stops at its order.
ScanOrders ==
  /\ lines < size
  /\ lines' = lines + 1
  /\ IF found THEN UNCHANGED <<line, buffer, found>>
     ELSE /\ buffer' = lines'
          /\ found' = (line = wanted.orderno)
          /\ line' = IF found' THEN line ELSE line + 1
  /\ UNCHANGED <<size, wanted, lineNumber, entries, returned>>

\* DisplayCatalog passes over the header and the lines before x.
ScanBooks ==
  /\ lineNumber < Len(Books)
  /\ IF lineNumber > 0 /\ lineNumber >= wanted.x /\ entries > 0
     THEN /\ returned' = Append(returned, lineNumber)
          /\ entries' = entries - 1
     ELSE UNCHANGED <<returned, entries>>
  /\ lineNumber' = lineNumber + 1
  /\ UNCHANGED <<size, wanted, lines, line, buffer, found>>

ScanNext == ScanOrders \/ ScanBooks
ScanSpec == ScanInit /\ [][ScanNext]_scanVars

\* After any number of lines, for numbers beyond the file and below zero too,
\* OrderBook has counted them, PayForBook would bill the line that OrderLog
\* says (interface.h:98-116), and DisplayCatalog has appended those of the
\* lines in OrderLog's range that it has read, in order (interface.h:145-170).
ScansCompute ==
  /\ LET log == [i \in 1..lines |-> i]
     IN  (IF line < wanted.orderno THEN 0 ELSE buffer) = Billed(log, wanted.orderno)
  /\ {returned[k] : k \in 1..Len(returned)}
       = {i \in Displayed(wanted.M, wanted.x, wanted.z) : i < lineNumber}
  /\ \A j, k \in 1..Len(returned) : j < k => returned[j] < returned[k]
=============================================================================
