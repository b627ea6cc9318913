--------------------------- MODULE OrderFileLoops ---------------------------
(***************************************************************************)
(* The loops of OrderBook (fgets and sscanf) and PayForBook (getline and   *)
(* sscanf) of concurrent-connectionless/server.c over one order file, line *)
(* by line.  BookServer takes each loop as one step, with the operators of *)
(* OrderLines for what it leaves in the variables; here the variables are  *)
(* those of the code.                                                      *)
(***************************************************************************)
EXTENDS OrderLines

CONSTANTS FileLines, Nums, MaxLines   \* lines, order numbers to pay, longest file

ASSUME LoopsAssumption ==
  FileLines \subseteq Line /\ Nums \subseteq Int /\ MaxLines \in Nat

VARIABLES file,        \* the lines of created_orders.txt
          orderno,     \* the order that is to be paid
          at,          \* how many lines have been read
          last,        \* OrderBook: lastOrderNumber
          current,     \* PayForBook: currentOrderNumber and currentTotalPrice
          was,         \* PayForBook: wasOrderCreated
          paidLine,    \* PayForBook: paidLine
          kept         \* PayForBook: the lines printed to temp.txt

vars == <<file, orderno, at, last, current, was, paidLine, kept>>

NoLine == Printed(0, 0)

Init ==
  /\ file \in UNION {[1..n -> FileLines] : n \in 0..MaxLines}
  /\ orderno \in Nums
  /\ at = 0 /\ last = 0
  /\ current = [num |-> 0, total |-> 0]
  /\ was = FALSE /\ paidLine = NoLine /\ kept = <<>>

\* sscanf leaves a variable as it is when it finds nothing for it.
Scanned(l, old) == [num   |-> IF HasNumber(l) THEN Number(l) ELSE old.num,
                    total |-> IF HasBoth(l) THEN l.total ELSE old.total]

\* Mutant (not the code): the loop goes on with its line after a match.
ReadLineWithoutContinue ==
  /\ at < Len(file)
  /\ at' = at + 1
  /\ LET l == file[at']
     IN  /\ last' = IF HasNumber(l) THEN Number(l) ELSE last
         /\ current' = Scanned(l, current)
         /\ IF HasBoth(l) /\ current'.num = orderno
            THEN was' = TRUE /\ paidLine' = l
            ELSE UNCHANGED <<was, paidLine>>
         /\ kept' = IF HasBoth(l) THEN Append(kept, l) ELSE kept
  /\ UNCHANGED <<file, orderno>>

\* A line that does not hold both numbers is neither matched nor printed.
ReadLine ==
  /\ at < Len(file)
  /\ at' = at + 1
  /\ LET l == file[at']
     IN  /\ last' = IF HasNumber(l) THEN Number(l) ELSE last
         /\ current' = Scanned(l, current)
         /\ IF HasBoth(l) /\ current'.num = orderno
            THEN was' = TRUE /\ paidLine' = l
            ELSE UNCHANGED <<was, paidLine>>
         /\ kept' = IF HasBoth(l) /\ current'.num # orderno
                    THEN Append(kept, l) ELSE kept
  /\ UNCHANGED <<file, orderno>>

Next == ReadLine
Spec == Init /\ [][Next]_vars

\* After any number of lines, repeated order numbers and lines that have lost
\* their front included, the loops have computed what OrderLines says of the
\* lines they have read.
LoopsCompute ==
  LET s == SubSeq(file, 1, at)
  IN  /\ last = LastNumber(s)
      /\ (\E i \in 1..at : HasBoth(s[i])) => current.total = LastTotal(s)
      /\ was = WasCreated(s, orderno)
      /\ was => paidLine = PaidLine(s, orderno)
      /\ kept = Without(s, orderno)
=============================================================================
