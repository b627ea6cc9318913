---------------------------- MODULE MCFileLoops -----------------------------
(***************************************************************************)
(* The loops of OrderFileLoops, BookFileLoops and CatalogLoops in one run: *)
(* one of the three has files and parameters, and the others stand still.  *)
(***************************************************************************)
EXTENDS OrderFileLoops, CatalogLoops

CONSTANTS Words, Books, IntHalf, Numbers, MaxLog

VARIABLES size, wanted, lines, line, buffer, found, lineNumber, entries, returned

scanned == <<size, wanted, lines, line, buffer, found, lineNumber, entries, returned>>

Scan == INSTANCE BookFileLoops

ASSUME ScanAssumption ==
  /\ Books \in Seq(Scan!BookLine)
  /\ MaxLog \in Nat /\ Numbers \subseteq Int

orderIdle ==
  /\ file = <<>> /\ orderno = 0 /\ at = 0 /\ last = 0
  /\ current = [num |-> 0, total |-> 0]
  /\ was = FALSE /\ paidLine = NoLine /\ kept = <<>>
scanIdle ==
  /\ size = 0 /\ wanted = [orderno |-> 0, M |-> 0, x |-> 0, z |-> 0]
  /\ lines = 0 /\ line = 0 /\ buffer = 0 /\ found = FALSE
  /\ lineNumber = Len(Books) /\ entries = 0 /\ returned = <<>>
shelfIdle ==
  /\ params = [M |-> 0, X |-> 1, Z |-> 0] /\ i = 1
  /\ catalogLength = Width + 1 /\ allocated = Width + 2 /\ used = Width + 1
  /\ outside = FALSE

AllInit ==
  \/ Init /\ scanIdle /\ shelfIdle
  \/ orderIdle /\ Scan!ScanInit /\ shelfIdle
  \/ orderIdle /\ scanIdle /\ DisplayInit

AllNext ==
  \/ Next /\ UNCHANGED <<scanned, displayVars>>
  \/ Scan!ScanNext /\ UNCHANGED <<vars, displayVars>>
  \/ DisplayNext /\ UNCHANGED <<vars, scanned>>

AllSpec == AllInit /\ [][AllNext]_<<vars, scanned, displayVars>>

\* What ScansCompute says of the loops of interface.h.
ScansCompute == Scan!ScansCompute

\* "1\t2", "2\t1", then "2\t30" that was order 12, "\t12" and "5" that hold one
\* number, and "", the newline alone.
MCLines == {Printed(1, 2), Printed(2, 1),
            [num |-> 12, total |-> 30, cut |-> 1], [num |-> 3, total |-> 12, cut |-> 1],
            [num |-> 3, total |-> 45, cut |-> 3], [num |-> 3, total |-> 1, cut |-> 3]}

\* A header and three books, with one word each, which do not matter here.
MCBooks == <<[holds |-> {}, price |-> 0], [holds |-> {"a"}, price |-> 1],
             [holds |-> {"b"}, price |-> 1], [holds |-> {"c"}, price |-> 1]>>
MCCatalog == <<[title |-> "a", isbn |-> "a", price |-> 1],
               [title |-> "b", isbn |-> "b", price |-> 1],
               [title |-> "c", isbn |-> "c", price |-> 1]>>
Letters == {"a", "b", "c"}
MCNumbers == -1..4
MCLimits == -1..5
=============================================================================
