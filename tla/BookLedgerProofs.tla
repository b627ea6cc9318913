--------------------------- MODULE BookLedgerProofs ---------------------------
(***************************************************************************)
(* What BookServer achieves when requests do not come in every order:      *)
(* with one payment at a time no order is open or paid more often than it  *)
(* was issued (OnePayerSpec), and with one request at a time the files are *)
(* the order ledger (SerialSpec).                                          *)
(***************************************************************************)
EXTENDS BookServerProofs

\* A step of one child moves no other, and starts nothing.
LEMMA ChildMoves ==
  ASSUME TypeOK, NEW p \in Procs, Child(p)
  PROVE  /\ \A q \in Procs \ {p} : /\ pc'[q] = pc[q] /\ seen'[q] = seen[q]
                                   /\ createdPtr'[q] = createdPtr[q]
                                   /\ tempPtr'[q] = tempPtr[q]
         /\ req' = req
         /\ Idle(p) => Idle(p)'
  <1> USE DEF TypeOK, files, locals, Goto, Respond, Die, Idle, Ended, Unborn
  <1>1. CASE DisplayCatalog(p) \/ Browse(p) \/ ShortRequest(p) \/ OpenFails(p) \/ Reply(p)
    BY <1>1 DEF DisplayCatalog, Browse, ShortRequest, OpenFails, Reply
  <1>2. CASE OrderBook(p)
    BY <1>2 DEF OrderBook, OrderNoBook, OrderOpen, OrderRead, OrderAppend
  <1>3. CASE PayOpen(p) \/ PayOpenTemp(p) \/ PayScan(p) \/ PayNoOrders(p)
    BY <1>3 DEF PayOpen, PayOpenTemp, PayScan, PayNoOrders
  <1>4. CASE PayCloseTemp(p) \/ PayInvalid(p) \/ PayInsufficient(p) \/ PayWithoutTemp(p)
    BY <1>4 DEF PayCloseTemp, PayInvalid, PayInsufficient, PayWithoutTemp
  <1>5. CASE PayRemove(p) \/ PayRename(p) \/ PayRecord(p)
    BY <1>5 DEF PayRemove, PayRename, PayRecord
  <1> QED BY <1>1, <1>2, <1>3, <1>4, <1>5 DEF Child, PayForBook

\* A child that is not at the files can only send its answer.
LEMMA IdleReplies ==
  ASSUME NEW p \in Procs, Idle(p), Child(p) PROVE Reply(p)
  BY DEF Idle, Unborn, Ended, Child, DisplayCatalog, Browse, ShortRequest, OpenFails, OrderBook,
         OrderNoBook, OrderOpen, OrderRead, OrderAppend, PayForBook, PayOpen,
         PayOpenTemp, PayScan, PayNoOrders, PayCloseTemp, PayInvalid,
         PayInsufficient, PayWithoutTemp, PayRemove, PayRename, PayRecord

\* A child that is at the files for a payment, or about to be.
Payer(p) == ~Idle(p) /\ req[p].op = "pay"

\* A child that does not pay touches neither temp.txt nor paid_orders.txt, and
\* leaves the name created_orders.txt where it is.
LEMMA OthersLeaveTemp ==
  ASSUME TypeOK, StepsFit, TempApart, NEW p \in Procs, Child(p), ~Payer(p)
  PROVE  /\ temp' = temp /\ paid' = paid /\ pc'[p] \notin PaySteps
         /\ created # NoFile => created' = created
         /\ temp # NoFile => disk'[temp] = disk[temp]
  <1> USE DEF TypeOK, files, locals, Goto, Respond, Die, PaySteps, NoTemp
  <1>1. CASE DisplayCatalog(p) \/ Browse(p) \/ ShortRequest(p) \/ OpenFails(p) \/ Reply(p)
    BY <1>1 DEF DisplayCatalog, Browse, ShortRequest, OpenFails, Reply
  <1>2. CASE OrderNoBook(p) \/ OrderOpen(p) \/ OrderRead(p)
    BY <1>2 DEF OrderNoBook, OrderOpen, OrderRead
  <1>3. CASE OrderAppend(p)
    BY <1>3 DEF OrderAppend, TempApart
  <1>4. ASSUME PayForBook(p) PROVE FALSE
    <2>1. pc[p] \in {"parsed"} \cup PaySteps /\ req[p].op = "pay"
      BY <1>4 DEF PayForBook, PayOpen, PayOpenTemp, PayScan, PayNoOrders, PayCloseTemp,
                  PayInvalid, PayInsufficient, PayWithoutTemp, PayRemove, PayRename,
                  PayRecord, StepsFit
    <2> QED BY <2>1 DEF Payer, Idle, Unborn, Ended
  <1> QED BY <1>1, <1>2, <1>3, <1>4 DEF Child, OrderBook

-----------------------------------------------------------------------------
(* One payment at a time.                                                  *)

LEMMA OnePayerSteps == [OnePayerNext]_vars => [Next]_vars
  BY DEF OnePayerNext, Next

LEMMA OnePayerImplements == OnePayerSpec => Spec
  BY OnePayerSteps, PTL DEF OnePayerSpec, Spec

AlonePaying == \A p, q \in Procs : Payer(p) /\ Payer(q) => p = q

\* Between its steps the one payer finds the files as it left them: whoever
\* orders meanwhile appends to another file than temp.txt.
PayerFiles ==
  \A p \in Procs :
     /\ pc[p] \in {"paying", "scanning"} => createdPtr[p] = created
     /\ pc[p] \in {"scanning", "scanned", "flushed", "removed"} => temp = tempPtr[p]
     /\ pc[p] \in {"scanning", "scanned"} => disk[tempPtr[p]] = <<>>
     /\ pc[p] \in {"flushed", "removed"} => disk[tempPtr[p]] = Remaining(p)

LEMMA AloneStep ==
  TypeOK /\ StepsFit /\ AlonePaying /\ [OnePayerNext]_vars => AlonePaying'
  <1> SUFFICES ASSUME TypeOK, StepsFit, AlonePaying, [OnePayerNext]_vars
               PROVE  AlonePaying'
    OBVIOUS
  <1>1. ASSUME \A q \in Procs : Payer(q)' => Payer(q) PROVE AlonePaying'
    BY <1>1 DEF AlonePaying
  <1>2. ASSUME NEW p \in Procs, Child(p) PROVE AlonePaying'
    <2>1. \A q \in Procs : Payer(q)' => Payer(q)
      BY <1>2, ChildMoves DEF Payer, Idle
    <2> QED BY <1>1, <2>1
  <1>3. ASSUME NEW p \in Procs, NEW r \in Requests, r.op # "pay" \/ NoPayment, Fork(p, r)
        PROVE  AlonePaying'
    <2>1. \A q \in Procs \ {p} : Payer(q)' => Payer(q)
      BY <1>3 DEF Fork, Goto, Payer, Idle, TypeOK
    <2>2. Payer(p)' => \A q \in Procs : ~Payer(q)
      BY <1>3 DEF Fork, Payer, NoPayment, TypeOK
    <2> QED BY <2>1, <2>2 DEF AlonePaying
  <1>4. ASSUME Interrupt \/ UNCHANGED vars PROVE AlonePaying'
    <2>1. \A q \in Procs : Payer(q)' => Payer(q)
      BY <1>4 DEF Interrupt, vars, locals, Payer, Idle, Ended, TypeOK
    <2> QED BY <1>1, <2>1
  <1> QED BY <1>2, <1>3, <1>4 DEF OnePayerNext, ForkFails

LEMMA PayerFilesStep ==
  TypeOK /\ StepsFit /\ FreshFiles /\ TempApart /\ AlonePaying /\ PayerFiles
    /\ [OnePayerNext]_vars => PayerFiles'
  <1> SUFFICES ASSUME TypeOK, StepsFit, FreshFiles, TempApart, AlonePaying, PayerFiles,
                      [OnePayerNext]_vars
               PROVE  PayerFiles'
    OBVIOUS
  <1>1. ASSUME NEW p \in Procs, Child(p), ~Payer(p) PROVE PayerFiles'
    <2>1. \A q \in Procs : pc'[q] \in PaySteps
             => /\ pc'[q] = pc[q] /\ seen'[q] = seen[q] /\ req'[q] = req[q]
                /\ createdPtr'[q] = createdPtr[q] /\ tempPtr'[q] = tempPtr[q]
      BY <1>1, ChildMoves, OthersLeaveTemp
    <2>2. \A q \in Procs : pc[q] \in PaySteps => createdPtr[q] # NoFile
      BY ServerAssumption DEF StepsFit, Inode
    <2>3. \A q \in Procs : pc[q] \in PaySteps \ NoTemp => tempPtr[q] # NoFile
      BY ServerAssumption DEF StepsFit, Inode
    <2>4. /\ temp' = temp /\ (created # NoFile => created' = created)
          /\ temp # NoFile => disk'[temp] = disk[temp]
      BY <1>1, OthersLeaveTemp
    <2> QED BY <2>1, <2>2, <2>3, <2>4 DEF PayerFiles, PaySteps, NoTemp, Remaining
  <1>2. ASSUME NEW p \in Procs, Child(p), Payer(p) PROVE PayerFiles'
    <2> DEFINE Has(q) ==
          /\ pc[q] \in {"paying", "scanning"} => createdPtr[q] = created
          /\ pc[q] \in {"scanning", "scanned", "flushed", "removed"} => temp = tempPtr[q]
          /\ pc[q] \in {"scanning", "scanned"} => disk[tempPtr[q]] = <<>>
          /\ pc[q] \in {"flushed", "removed"} => disk[tempPtr[q]] = Remaining(q)
    <2>1. \A q \in Procs \ {p} : pc'[q] \notin PaySteps
      <3>1. \A q \in Procs \ {p} : pc[q] \notin PaySteps
        BY <1>2 DEF AlonePaying, Payer, StepsFit, Idle, PaySteps, NoTemp, Ended, Unborn
      <3> QED BY <1>2, <3>1, ChildMoves
    <2>2. \A q \in Procs \ {p} : Has(q)'
      BY <2>1 DEF PaySteps, NoTemp
    <2>3. Has(p)'
      <3> USE DEF TypeOK, files, locals, Goto, Respond, Die
      <3>0. Has(p)
        BY DEF PayerFiles
      <3>1. CASE DisplayCatalog(p) \/ Browse(p) \/ ShortRequest(p) \/ OpenFails(p) \/ Reply(p)
        BY <3>1 DEF DisplayCatalog, Browse, ShortRequest, OpenFails, Reply
      <3>2. CASE OrderNoBook(p) \/ OrderOpen(p) \/ OrderRead(p) \/ OrderAppend(p)
        BY <3>2 DEF OrderNoBook, OrderOpen, OrderRead, OrderAppend
      <3>3. CASE PayOpen(p)
        BY <3>3 DEF PayOpen
      <3>4. CASE PayOpenTemp(p)
        <4>1. temp' \in Inode
          BY <3>4, PayOpenTempKeeps
        <4> QED BY <3>0, <3>4, <4>1 DEF PayOpenTemp
      <3>5. CASE PayScan(p)
        BY <3>0, <3>5 DEF PayScan
      <3>6. CASE PayCloseTemp(p)
        <4>1. tempPtr[p] \in Inode
          BY <3>6 DEF PayCloseTemp, StepsFit, PaySteps, NoTemp
        <4>2. Remaining(p)' = Remaining(p)
          BY <3>6 DEF PayCloseTemp, Remaining
        <4>3. Overlay(Remaining(p), disk[tempPtr[p]]) = Remaining(p)
          <5>1. Remaining(p) \in Seq(Line)
            BY WithoutType DEF Remaining
          <5> QED BY <3>0, <3>6, <5>1, OverlayEmpty DEF PayCloseTemp
        <4> QED BY <3>0, <3>6, <4>1, <4>2, <4>3 DEF PayCloseTemp
      <3>7. CASE PayWithoutTemp(p) \/ PayNoOrders(p) \/ PayInvalid(p) \/ PayInsufficient(p)
                 \/ PayRecord(p)
        BY <3>7 DEF PayNoOrders, PayInvalid, PayInsufficient, PayWithoutTemp, PayRecord
      <3>8. CASE PayRemove(p)
        BY <3>0, <3>8 DEF PayRemove, Remaining
      <3>9. CASE PayRename(p)
        BY <3>9 DEF PayRename
      <3> HIDE DEF TypeOK, files, locals, Goto, Respond, Die, Has
      <3> QED BY <1>2, <3>1, <3>2, <3>3, <3>4, <3>5, <3>6, <3>7, <3>8, <3>9
              DEF Child, OrderBook, PayForBook
    <2> QED BY <2>2, <2>3 DEF PayerFiles
  <1>3. ASSUME UNCHANGED <<files, createdPtr, tempPtr, seen>>,
               \A q \in Procs : pc'[q] \in PaySteps => pc'[q] = pc[q] /\ req'[q] = req[q]
        PROVE  PayerFiles'
    BY <1>3 DEF PayerFiles, PaySteps, NoTemp, files, Remaining
  <1>4. ASSUME NEW p \in Procs, NEW r \in Requests, Fork(p, r) PROVE PayerFiles'
    BY <1>3, <1>4 DEF Fork, Goto, PaySteps, NoTemp, TypeOK
  <1>5. ASSUME Interrupt \/ UNCHANGED vars PROVE PayerFiles'
    BY <1>3, <1>5 DEF Interrupt, vars, locals, PaySteps, NoTemp, TypeOK
  <1> QED BY <1>1, <1>2, <1>4, <1>5 DEF OnePayerNext, ForkFails

LEMMA OnePayerFits == OnePayerSpec => [](AlonePaying /\ PayerFiles)
  <1>1. Init => AlonePaying /\ PayerFiles
    BY DEF Init, AlonePaying, PayerFiles, Payer, Idle, Unborn
  <1>2. TypeOK /\ StepsFit /\ FreshFiles /\ TempApart /\ AlonePaying /\ PayerFiles
          /\ [OnePayerNext]_vars => (AlonePaying /\ PayerFiles)'
    BY AloneStep, PayerFilesStep
  <1> QED BY <1>1, <1>2, OnePayerImplements, Typing, Stepping, FilesApart, PTL
          DEF OnePayerSpec

-----------------------------------------------------------------------------
(* No line is open or paid more often than issued.  What a payer has read  *)
(* is open or paid at most that often, even if it is no longer the file    *)
(* of that name, and the receipt it has yet to write is accounted for.     *)

AtMostIssued ==
  \A l \in Line : Copies(OpenLines, l) + Copies(paid, l) <= IssuedCopies(l)
ReadAtMostIssued ==
  \A p \in Procs : pc[p] \in {"scanned", "flushed", "removed"} =>
     \A l \in Line : Copies(seen[p], l) + Copies(paid, l) <= IssuedCopies(l)
ReceiptAtMostIssued ==
  \A p \in Procs : pc[p] = "renamed" =>
     \A l \in Line : Copies(OpenLines, l) + Copies(paid, l)
                       + (IF l = Receipt(p) THEN 1 ELSE 0) <= IssuedCopies(l)
Accounted == AtMostIssued /\ ReadAtMostIssued /\ ReceiptAtMostIssued

\* Only OrderAppend writes to the file that is named created_orders.txt, and
\* only the payer's remove and rename change which file that is.
LEMMA OpenLinesStay ==
  ASSUME TypeOK, StepsFit, FreshFiles, TempApart, PayerFiles,
         NEW p \in Procs, Child(p),
         ~OrderAppend(p), ~PayRemove(p), ~PayRename(p)
  PROVE  OpenLines' = OpenLines
  <1> USE DEF TypeOK, files, locals
  <1>1. ASSUME UNCHANGED <<disk, created>> PROVE OpenLines' = OpenLines
    BY <1>1 DEF OpenLines
  <1>2. CASE DisplayCatalog(p) \/ Browse(p) \/ ShortRequest(p) \/ OpenFails(p) \/ Reply(p)
    BY <1>1, <1>2 DEF DisplayCatalog, Browse, ShortRequest, OpenFails, Reply
  <1>3. CASE OrderNoBook(p) \/ OrderRead(p) \/ PayOpen(p) \/ PayScan(p)
    BY <1>1, <1>3 DEF OrderNoBook, OrderRead, PayOpen, PayScan
  <1>4. CASE PayWithoutTemp(p) \/ PayNoOrders(p) \/ PayInvalid(p) \/ PayInsufficient(p)
                 \/ PayRecord(p)
    BY <1>1, <1>4 DEF PayNoOrders, PayInvalid, PayInsufficient, PayWithoutTemp, PayRecord
  <1>5. CASE OrderOpen(p)
    BY <1>5, OrderOpenKeeps
  <1>6. CASE PayOpenTemp(p)
    BY <1>6, PayOpenTempKeeps
  <1>7. CASE PayCloseTemp(p)
    <2>1. tempPtr[p] \in Inode /\ pc[p] = "scanned" /\ created' = created
          /\ disk' = [disk EXCEPT ![tempPtr[p]] = Overlay(Remaining(p), @)]
      BY <1>7 DEF PayCloseTemp, StepsFit, PaySteps, NoTemp
    <2>2. tempPtr[p] # created
      BY <2>1, ServerAssumption DEF PayerFiles, TempApart, Inode
    <2> QED BY <2>1, <2>2 DEF OpenLines
  <1> HIDE DEF TypeOK, files, locals
  <1> QED BY <1>2, <1>3, <1>4, <1>5, <1>6, <1>7 DEF Child, OrderBook, PayForBook

\* The counts are numbers.
LEMMA CountsType ==
  ASSUME TypeOK, Counted, NEW l
  PROVE  /\ Copies(OpenLines, l) \in Nat /\ Copies(paid, l) \in Nat
         /\ IssuedCopies(l) \in Nat
         /\ \A p \in Procs : Copies(seen[p], l) \in Nat
  BY OpenLinesType, PositionsFinite, IssuedCopiesType DEF TypeOK

LEMMA AccountedStep ==
  TypeOK /\ StepsFit /\ Counted /\ FreshFiles /\ TempApart /\ AlonePaying
    /\ PayerFiles /\ Accounted /\ [OnePayerNext]_vars => Accounted'
  <1> SUFFICES ASSUME TypeOK, StepsFit, Counted, FreshFiles, TempApart, AlonePaying,
                      PayerFiles, Accounted, [OnePayerNext]_vars
               PROVE  Accounted'
    OBVIOUS
  <1>0. [Next]_vars
    BY OnePayerSteps
  <1> DEFINE Reading == {"scanned", "flushed", "removed"}
  \* Steps that change neither the orders nor the payers' progress.
  <1>1. ASSUME OpenLines' = OpenLines, paid' = paid, Ordered' = Ordered,
               \A q \in Procs : pc'[q] \in Reading => pc[q] \in Reading /\ seen'[q] = seen[q],
               \A q \in Procs : pc'[q] = "renamed"
                  => pc[q] = "renamed" /\ seen'[q] = seen[q] /\ req'[q] = req[q]
        PROVE  Accounted'
    <2>1. \A l \in Line : IssuedCopies(l)' = IssuedCopies(l)
      BY <1>0, <1>1, OthersIssueNothing
    <2>2. AtMostIssued'
      BY <1>1, <2>1 DEF Accounted, AtMostIssued
    <2>3. ReadAtMostIssued'
      BY <1>1, <2>1 DEF Accounted, ReadAtMostIssued
    <2>4. ReceiptAtMostIssued'
      BY <1>1, <2>1 DEF Accounted, ReceiptAtMostIssued, Receipt
    <2> QED BY <2>2, <2>3, <2>4 DEF Accounted
  \* An order adds at most one open copy of the line it issues once more.
  <1>2. ASSUME NEW p \in Procs, OrderAppend(p) PROVE Accounted'
    <2>1. p \notin Ordered /\ Ordered' = Ordered \cup {p} /\ paid' = paid
      <3>1. outcome[p] = "none" /\ outcome' = [outcome EXCEPT ![p] = "ordered"] /\ paid' = paid
        BY <1>2 DEF OrderAppend, StepsFit, Ended, Respond
      <3> QED BY <3>1 DEF Ordered, TypeOK
    <2>2. /\ createdPtr[p] \in Inode /\ UNCHANGED <<created, seen, req>>
          /\ disk' = [disk EXCEPT ![createdPtr[p]] = Append(@, NewLine(p))]
          /\ pc' = [pc EXCEPT ![p] = "responding"]
      BY <1>2 DEF OrderAppend, StepsFit, OrderSteps, Respond, Goto, locals
    <2>3. NewLine(p) \in Line
      BY <1>2, NewLineType DEF OrderAppend, StepsFit, OrderSteps, TypeOK, Unborn
    <2>4. OpenLines' = OpenLines \/ OpenLines' = Append(OpenLines, NewLine(p))
      BY <2>2 DEF OpenLines, TypeOK
    <2>5. ASSUME NEW l \in Line
          PROVE  /\ Copies(OpenLines', l) <= Copies(OpenLines, l) + (IF l = NewLine(p) THEN 1 ELSE 0)
                 /\ IssuedCopies(l)' = IssuedCopies(l) + (IF l = NewLine(p) THEN 1 ELSE 0)
                 /\ Copies(OpenLines', l) \in Nat
      <3>1. IssuedCopies(l)' = IssuedCopies(l) + (IF l = NewLine(p) THEN 1 ELSE 0)
        BY <1>0, <1>2, <2>1, OrderIssues
      <3>2. Copies(Append(OpenLines, NewLine(p)), l)
              = Copies(OpenLines, l) + (IF l = NewLine(p) THEN 1 ELSE 0)
        BY <2>3, OpenLinesType, AppendCopies
      <3>3. Copies(OpenLines, l) \in Nat
        BY CountsType
      <3>4. CASE OpenLines' = OpenLines
        <4>1. Copies(OpenLines', l) = Copies(OpenLines, l)
          BY <3>4
        <4> QED BY <3>1, <3>3, <4>1
      <3>5. CASE OpenLines' = Append(OpenLines, NewLine(p))
        <4>1. Copies(OpenLines', l) = Copies(OpenLines, l) + (IF l = NewLine(p) THEN 1 ELSE 0)
          BY <3>2, <3>5
        <4> QED BY <3>1, <3>3, <4>1
      <3> QED BY <2>4, <3>4, <3>5
    <2>6. AtMostIssued'
      BY <2>1, <2>5, CountsType DEF Accounted, AtMostIssued
    <2>7. ReadAtMostIssued'
      <3> SUFFICES ASSUME NEW q \in Procs, pc'[q] \in Reading, NEW l \in Line
                   PROVE  Copies(seen'[q], l) + Copies(paid', l) <= IssuedCopies(l)'
        BY DEF ReadAtMostIssued
      <3>1. pc[q] \in Reading /\ seen'[q] = seen[q]
        BY <2>2 DEF TypeOK
      <3>2. Copies(seen[q], l) + Copies(paid, l) <= IssuedCopies(l)
        BY <3>1 DEF Accounted, ReadAtMostIssued
      <3>3. Copies(seen[q], l) \in Nat /\ Copies(paid, l) \in Nat /\ IssuedCopies(l) \in Nat
        BY CountsType
      <3>4. Copies(seen'[q], l) = Copies(seen[q], l) /\ Copies(paid', l) = Copies(paid, l)
        BY <2>1, <3>1
      <3> QED BY <2>5, <3>2, <3>3, <3>4
    <2>8. ReceiptAtMostIssued'
      <3> SUFFICES ASSUME NEW q \in Procs, pc'[q] = "renamed", NEW l \in Line
                   PROVE  Copies(OpenLines', l) + Copies(paid', l)
                       + (IF l = Receipt(q)' THEN 1 ELSE 0) <= IssuedCopies(l)'
        BY DEF ReceiptAtMostIssued
      <3>1. pc[q] = "renamed" /\ Receipt(q)' = Receipt(q)
        BY <2>2 DEF TypeOK, Receipt
      <3>2. Copies(OpenLines, l) + Copies(paid, l)
                       + (IF l = Receipt(q) THEN 1 ELSE 0) <= IssuedCopies(l)
        BY <3>1 DEF Accounted, ReceiptAtMostIssued
      <3> QED BY <2>1, <2>5, <3>1, <3>2, CountsType
    <2> QED BY <2>6, <2>7, <2>8 DEF Accounted
  \* A payer reads what is open.
  <1>3. ASSUME NEW p \in Procs, PayScan(p) PROVE Accounted'
    <2>1. /\ createdPtr[p] \in Inode /\ UNCHANGED <<files, req, outcome>>
          /\ seen' = [seen EXCEPT ![p] = disk[createdPtr[p]]]
          /\ pc' = [pc EXCEPT ![p] = "scanned"] /\ pc[p] = "scanning"
      BY <1>3 DEF PayScan, StepsFit, PaySteps, NoTemp, Goto
    <2>2. seen'[p] = OpenLines
      BY <2>1, ServerAssumption DEF PayerFiles, OpenLines, Inode, TypeOK
    <2>3. OpenLines' = OpenLines /\ paid' = paid /\ Ordered' = Ordered
      BY <2>1 DEF OpenLines, Ordered, files
    <2>4. \A l \in Line : IssuedCopies(l)' = IssuedCopies(l)
      BY <1>0, <2>3, OthersIssueNothing
    <2>5. AtMostIssued'
      BY <2>3, <2>4 DEF Accounted, AtMostIssued
    <2>6. ReadAtMostIssued'
      BY <2>1, <2>2, <2>3, <2>4 DEF Accounted, AtMostIssued, ReadAtMostIssued, TypeOK
    <2>7. ReceiptAtMostIssued'
      BY <2>1, <2>3, <2>4 DEF Accounted, ReceiptAtMostIssued, Receipt, TypeOK
    <2> QED BY <2>5, <2>6, <2>7 DEF Accounted
  \* The payer takes the open orders away, ...
  <1>4. ASSUME NEW p \in Procs, PayRemove(p) PROVE Accounted'
    <2>1. /\ created' = NoFile /\ UNCHANGED <<paid, seen, req, outcome>>
          /\ pc[p] = "flushed"
          /\ \E next \in {"removed", "dead"} : pc' = [pc EXCEPT ![p] = next]
      BY <1>4 DEF PayRemove, Die, Goto, locals
    <2>2. OpenLines' = <<>> /\ Ordered' = Ordered
      BY <2>1 DEF OpenLines, Ordered
    <2>3. \A l \in Line : IssuedCopies(l)' = IssuedCopies(l) /\ Copies(OpenLines', l) = 0
      BY <1>0, <2>2, OthersIssueNothing, CopiesOfNone
    <2>4. AtMostIssued'
      BY <2>1, <2>3, CountsType DEF Accounted, AtMostIssued
    <2>5. ReadAtMostIssued'
      BY <2>1, <2>3 DEF Accounted, ReadAtMostIssued, TypeOK
    <2>6. ReceiptAtMostIssued'
      <3> SUFFICES ASSUME NEW q \in Procs, pc'[q] = "renamed"
                   PROVE  FALSE
        BY DEF ReceiptAtMostIssued
      <3>1. pc[q] = "renamed" /\ q # p
        BY <2>1 DEF TypeOK
      <3> QED BY <2>1, <3>1 DEF AlonePaying, Payer, Idle, Unborn, Ended, StepsFit, PaySteps, NoTemp
    <2> QED BY <2>4, <2>5, <2>6 DEF Accounted
  \* ... puts back those that are not paid, ...
  <1>5. ASSUME NEW p \in Procs, PayRename(p), temp # NoFile PROVE Accounted'
    <2>1. /\ created' = temp /\ UNCHANGED <<disk, paid, seen, req, outcome>>
          /\ pc[p] = "removed" /\ pc' = [pc EXCEPT ![p] = "renamed"]
      BY <1>5 DEF PayRename, Die, Goto, locals
    <2>2. OpenLines' = Remaining(p) /\ Ordered' = Ordered
      BY <1>5, <2>1 DEF OpenLines, Ordered, PayerFiles
    <2>3. \A l \in Line : IssuedCopies(l)' = IssuedCopies(l)
      BY <1>0, <2>2, OthersIssueNothing
    <2>4. ASSUME NEW l \in Line
          PROVE  /\ Copies(OpenLines', l) + Copies(paid', l) + (IF l = Receipt(p)' THEN 1 ELSE 0)
                      <= IssuedCopies(l)'
                 /\ Copies(OpenLines', l) \in Nat
      <3>1. Copies(Remaining(p), l) + (IF l = Receipt(p) THEN 1 ELSE 0) <= Copies(seen[p], l)
        BY <2>1, WithoutAndReceipt DEF Remaining, Receipt, StepsFit, Found, TypeOK
      <3>2. Copies(seen[p], l) + Copies(paid, l) <= IssuedCopies(l)
        BY <2>1 DEF Accounted, ReadAtMostIssued
      <3>3. Receipt(p)' = Receipt(p)
        BY <2>1 DEF Receipt
      <3>4. Copies(Remaining(p), l) \in Nat
        BY WithoutType, PositionsFinite DEF Remaining, TypeOK
      <3> QED BY <2>1, <2>2, <2>3, <3>1, <3>2, <3>3, <3>4, CountsType
    <2>5. AtMostIssued'
      <3> SUFFICES ASSUME NEW l \in Line
                   PROVE  Copies(OpenLines', l) + Copies(paid', l) <= IssuedCopies(l)'
        BY DEF AtMostIssued
      <3> QED BY <2>1, <2>3, <2>4, CountsType
    <2>6. ReadAtMostIssued'
      BY <2>1, <2>3 DEF Accounted, ReadAtMostIssued, TypeOK
    <2>7. \A q \in Procs : pc'[q] = "renamed" => q = p
      BY <2>1 DEF AlonePaying, Payer, Idle, Unborn, Ended, StepsFit, PaySteps, NoTemp, TypeOK
    <2>8. ReceiptAtMostIssued'
      BY <2>4, <2>7 DEF ReceiptAtMostIssued
    <2> QED BY <2>5, <2>6, <2>8 DEF Accounted
  \* ... and writes the receipt.
  <1>6. ASSUME NEW p \in Procs, PayRecord(p) PROVE Accounted'
    <2>1. /\ paid' = Append(paid, Receipt(p)) /\ UNCHANGED <<disk, created, seen, req>>
          /\ pc[p] = "renamed" /\ pc' = [pc EXCEPT ![p] = "responding"]
          /\ outcome[p] = "none" /\ outcome' = [outcome EXCEPT ![p] = "paid"]
      BY <1>6 DEF PayRecord, Respond, Goto, locals, StepsFit, Ended
    <2>2. OpenLines' = OpenLines /\ Ordered' = Ordered
      BY <2>1 DEF OpenLines, Ordered, TypeOK
    <2>3. \A l \in Line : IssuedCopies(l)' = IssuedCopies(l)
      BY <1>0, <2>2, OthersIssueNothing
    <2>4. Receipt(p) \in Line
      BY <2>1, ReceiptType DEF StepsFit, TypeOK
    <2>5. AtMostIssued'
      <3> SUFFICES ASSUME NEW l \in Line
                   PROVE  Copies(OpenLines', l) + Copies(paid', l) <= IssuedCopies(l)'
        BY DEF AtMostIssued
      <3>1. Copies(paid', l) = Copies(paid, l) + (IF l = Receipt(p) THEN 1 ELSE 0)
        BY <2>1, <2>4, AppendCopies DEF TypeOK
      <3>2. Copies(OpenLines, l) + Copies(paid, l) + (IF l = Receipt(p) THEN 1 ELSE 0)
              <= IssuedCopies(l)
        BY <2>1 DEF Accounted, ReceiptAtMostIssued
      <3> QED BY <2>2, <2>3, <3>1, <3>2, CountsType
    <2>6. \A q \in Procs : pc'[q] \notin PaySteps
      BY <2>1 DEF AlonePaying, Payer, Idle, Unborn, Ended, StepsFit, PaySteps, NoTemp, TypeOK
    <2> QED BY <2>5, <2>6 DEF Accounted, ReadAtMostIssued, ReceiptAtMostIssued, PaySteps, NoTemp
  \* All other steps.
  <1>7. ASSUME NEW p \in Procs, Child(p), ~OrderAppend(p), ~PayScan(p), ~PayRemove(p),
               ~(PayRename(p) /\ temp # NoFile), ~PayRecord(p)
        PROVE  Accounted'
    <2> USE DEF TypeOK, files, locals, Goto, Respond, Die
    <2>1. OpenLines' = OpenLines
      <3>1. CASE PayRename(p)
        BY <1>7, <3>1 DEF PayRename, OpenLines
      <3>2. CASE ~PayRename(p)
        BY <1>7, <3>2, OpenLinesStay
      <3> QED BY <3>1, <3>2
    <2>2. /\ outcome' = outcome \/ (outcome[p] = "none" /\ outcome'[p] # "ordered"
                                    /\ outcome' = [outcome EXCEPT ![p] = outcome'[p]])
          /\ paid' = paid
          /\ pc'[p] \in Reading => pc[p] \in Reading /\ seen'[p] = seen[p]
          /\ pc'[p] # "renamed"
      <3>1. CASE DisplayCatalog(p) \/ Browse(p) \/ ShortRequest(p) \/ OpenFails(p) \/ Reply(p)
        BY <3>1 DEF DisplayCatalog, Browse, ShortRequest, OpenFails, Reply, StepsFit, Ended
      <3>2. CASE OrderNoBook(p) \/ OrderOpen(p) \/ OrderRead(p)
        BY <3>2 DEF OrderNoBook, OrderOpen, OrderRead, StepsFit, Ended
      <3>3. CASE PayOpen(p) \/ PayOpenTemp(p) \/ PayNoOrders(p) \/ PayCloseTemp(p)
        BY <3>3 DEF PayOpen, PayOpenTemp, PayNoOrders, PayCloseTemp, StepsFit, Ended
      <3>4. CASE PayInvalid(p) \/ PayInsufficient(p) \/ PayWithoutTemp(p)
        BY <3>4 DEF PayInvalid, PayInsufficient, PayWithoutTemp, StepsFit, Ended
      <3>5. CASE PayRename(p) /\ temp = NoFile
        BY <3>5 DEF PayRename
      <3> HIDE DEF TypeOK, files, locals, Goto, Respond, Die, Reading
      <3> QED BY <1>7, <3>1, <3>2, <3>3, <3>4, <3>5 DEF Child, OrderBook, PayForBook
    <2>3. Ordered' = Ordered
      BY <2>2 DEF Ordered
    <2> HIDE DEF TypeOK, files, locals, Goto, Respond, Die
    <2>4. \A q \in Procs \ {p} : pc'[q] = pc[q] /\ seen'[q] = seen[q] /\ req'[q] = req[q]
      BY <1>7, ChildMoves
    <2>5. /\ \A q \in Procs : pc'[q] \in Reading => pc[q] \in Reading /\ seen'[q] = seen[q]
          /\ \A q \in Procs : pc'[q] = "renamed"
                => pc[q] = "renamed" /\ seen'[q] = seen[q] /\ req'[q] = req[q]
      BY <2>2, <2>4
    <2> QED BY <1>1, <2>1, <2>2, <2>3, <2>5
  <1>8. ASSUME NEW p \in Procs, NEW r \in Requests, Fork(p, r) PROVE Accounted'
    BY <1>1, <1>8 DEF Fork, Goto, files, OpenLines, Ordered, TypeOK
  <1>9. ASSUME Interrupt \/ UNCHANGED vars PROVE Accounted'
    BY <1>1, <1>9 DEF Interrupt, vars, files, locals, OpenLines, Ordered, TypeOK
  <1> QED BY <1>2, <1>3, <1>4, <1>5, <1>6, <1>7, <1>8, <1>9 DEF OnePayerNext, ForkFails

\* With one payment at a time, overlapping any number of orders and stopped at
\* any point, no order is charged twice and none that was paid comes back.
THEOREM ChargedOnce == OnePayerSpec => []NothingTwice
  <1>1. Init => Accounted
    <2> SUFFICES ASSUME Init PROVE Accounted
      OBVIOUS
    <2>1. OpenLines = Shipped /\ paid = <<>> /\ \A l : IssuedCopies(l) = Copies(Shipped, l)
      BY InitOpenLines DEF Init
    <2>2. \A l : Copies(paid, l) = 0 /\ Copies(Shipped, l) \in Nat
      BY <2>1, CopiesOfNone, ServerAssumption, PositionsFinite
    <2>3. AtMostIssued
      BY <2>1, <2>2 DEF AtMostIssued
    <2> QED BY <2>3 DEF Init, Accounted, ReadAtMostIssued, ReceiptAtMostIssued, Unborn
  <1>2. TypeOK /\ Accounted => NothingTwice
    <2> SUFFICES ASSUME TypeOK, Accounted PROVE NothingTwice
      OBVIOUS
    <2>1. Lines(OpenLines) \subseteq Line /\ Lines(paid) \subseteq Line
      BY OpenLinesType DEF Lines, TypeOK
    <2> QED BY <2>1 DEF Accounted, AtMostIssued, NothingTwice
  <1> QED BY <1>1, <1>2, AccountedStep, OnePayerFits, OnePayerImplements, Typing, Stepping,
             CountedAlways, FilesApart, PTL DEF OnePayerSpec

-----------------------------------------------------------------------------
(* One request at a time, whenever the server is stopped.                  *)

StoppedNext == SerialNext \/ Interrupt
StoppedSpec == Init /\ [][StoppedNext]_vars

LEMMA StoppedSteps == [StoppedNext]_vars => [OnePayerNext]_vars
  BY DEF StoppedNext, SerialNext, OnePayerNext, Quiet, NoPayment

LEMMA SerialImplements == (SerialSpec => StoppedSpec) /\ (StoppedSpec => OnePayerSpec)
  <1>1. [SerialNext]_vars => [StoppedNext]_vars
    BY DEF StoppedNext
  <1> QED BY <1>1, StoppedSteps, PTL DEF SerialSpec, StoppedSpec, OnePayerSpec

AloneServing == \A p, q \in Procs : ~Idle(p) /\ ~Idle(q) => p = q

\* Between its steps the one child finds the open orders as it left them, and
\* nothing named created_orders.txt while it replaces that file.
ServedFiles ==
  \A p \in Procs :
     /\ pc[p] \in OrderSteps => createdPtr[p] = created
     /\ pc[p] \in {"numbering", "scanned", "flushed"} => seen[p] = OpenLines
     /\ pc[p] = "removed" => created = NoFile

LEMMA AloneServingStep ==
  TypeOK /\ AloneServing /\ [StoppedNext]_vars => AloneServing'
  <1> SUFFICES ASSUME TypeOK, AloneServing, [StoppedNext]_vars PROVE AloneServing'
    OBVIOUS
  <1>1. ASSUME \A q \in Procs : Idle(q) => Idle(q)' PROVE AloneServing'
    BY <1>1 DEF AloneServing
  <1>2. ASSUME NEW p \in Procs, Child(p) PROVE AloneServing'
    <2>1. \A q \in Procs : Idle(q) => Idle(q)'
      BY <1>2, ChildMoves DEF Idle
    <2> QED BY <1>1, <2>1
  <1>3. ASSUME Quiet, NEW p \in Procs, NEW r \in Requests, Fork(p, r) PROVE AloneServing'
    <2>1. \A q \in Procs \ {p} : Idle(q)'
      BY <1>3 DEF Fork, Goto, Quiet, Idle, TypeOK
    <2> QED BY <2>1 DEF AloneServing
  <1>4. ASSUME Interrupt \/ UNCHANGED vars PROVE AloneServing'
    BY <1>1, <1>4 DEF Interrupt, vars, Idle, Ended, TypeOK
  <1> QED BY <1>2, <1>3, <1>4 DEF StoppedNext, SerialNext, ForkFails

LEMMA ServedFilesStep ==
  TypeOK /\ StepsFit /\ FreshFiles /\ TempApart /\ PayerFiles /\ AloneServing /\ ServedFiles
    /\ [StoppedNext]_vars => ServedFiles'
  <1> SUFFICES ASSUME TypeOK, StepsFit, FreshFiles, TempApart, PayerFiles, AloneServing,
                      ServedFiles, [StoppedNext]_vars
               PROVE  ServedFiles'
    OBVIOUS
  <1> DEFINE Busy == OrderSteps \cup {"scanned", "flushed", "removed"}
  <1>1. ASSUME UNCHANGED <<files, createdPtr, seen>>,
               \A q \in Procs : pc'[q] \in Busy => pc'[q] = pc[q]
        PROVE  ServedFiles'
    BY <1>1 DEF ServedFiles, OpenLines, OrderSteps, files
  <1>2. ASSUME NEW p \in Procs, ~Idle(p), Child(p) PROVE ServedFiles'
    <2> DEFINE Has(q) ==
          /\ pc[q] \in OrderSteps => createdPtr[q] = created
          /\ pc[q] \in {"numbering", "scanned", "flushed"} => seen[q] = OpenLines
          /\ pc[q] = "removed" => created = NoFile
    <2>1. \A q \in Procs \ {p} : Has(q)'
      <3>1. \A q \in Procs \ {p} : pc'[q] = pc[q] /\ Idle(q)
        BY <1>2, ChildMoves DEF AloneServing
      <3> QED BY <3>1 DEF Idle, Unborn, Ended, OrderSteps
    <2>2. Has(p)'
      <3> USE DEF TypeOK, files, locals, Goto, Respond, Die, OrderSteps
      <3>0. Has(p)
        BY DEF ServedFiles
      <3>1. CASE DisplayCatalog(p) \/ Browse(p) \/ ShortRequest(p) \/ OpenFails(p) \/ Reply(p)
        BY <3>1 DEF DisplayCatalog, Browse, ShortRequest, OpenFails, Reply
      <3>2. CASE OrderNoBook(p) \/ OrderOpen(p) \/ OrderAppend(p)
        BY <3>2 DEF OrderNoBook, OrderOpen, OrderAppend
      <3>3. CASE OrderRead(p)
        <4>1. createdPtr[p] = created /\ created # NoFile
          BY <3>0, <3>3, ServerAssumption DEF OrderRead, StepsFit, Inode
        <4>2. disk[createdPtr[p]] = OpenLines
          BY <4>1 DEF OpenLines
        <4>3. OpenLines' = OpenLines
          BY <3>3 DEF OrderRead, OpenLines
        <4> QED BY <3>0, <3>3, <4>2, <4>3 DEF OrderRead
      <3>4. CASE PayOpen(p) \/ PayOpenTemp(p)
        BY <3>4 DEF PayOpen, PayOpenTemp
      <3>5. CASE PayScan(p)
        <4>1. createdPtr[p] = created /\ created # NoFile
          BY <3>5, ServerAssumption DEF PayScan, PayerFiles, StepsFit, PaySteps, NoTemp, Inode
        <4>2. disk[createdPtr[p]] = OpenLines
          BY <4>1 DEF OpenLines
        <4>3. OpenLines' = OpenLines
          BY <3>5 DEF PayScan, OpenLines
        <4> QED BY <3>5, <4>2, <4>3 DEF PayScan
      <3>6. CASE PayCloseTemp(p)
        <4>1. OpenLines' = OpenLines
          <5>1. ~OrderAppend(p) /\ ~PayRemove(p) /\ ~PayRename(p)
            BY <3>6 DEF PayCloseTemp, OrderAppend, PayRemove, PayRename
          <5> QED BY <1>2, <5>1, OpenLinesStay
        <4> QED BY <3>0, <3>6, <4>1 DEF PayCloseTemp
      <3>7. CASE PayWithoutTemp(p) \/ PayNoOrders(p) \/ PayInvalid(p) \/ PayInsufficient(p)
                 \/ PayRecord(p)
        BY <3>7 DEF PayNoOrders, PayInvalid, PayInsufficient, PayWithoutTemp, PayRecord
      <3>8. CASE PayRemove(p) \/ PayRename(p)
        BY <3>8 DEF PayRemove, PayRename
      <3> HIDE DEF TypeOK, files, locals, Goto, Respond, Die, OrderSteps, Has
      <3> QED BY <1>2, <3>1, <3>2, <3>3, <3>4, <3>5, <3>6, <3>7, <3>8
              DEF Child, OrderBook, PayForBook
    <2> HIDE DEF Has
    <2>3. \A q \in Procs : Has(q)'
      BY <2>1, <2>2
    <2> QED BY <2>3 DEF Has, ServedFiles
  <1>3. ASSUME NEW p \in Procs, Idle(p), Child(p) PROVE ServedFiles'
    BY <1>1, <1>3, IdleReplies DEF Reply, Goto, locals, OrderSteps, TypeOK
  <1>4. ASSUME NEW p \in Procs, NEW r \in Requests, Fork(p, r) PROVE ServedFiles'
    BY <1>1, <1>4 DEF Fork, Goto, OrderSteps, TypeOK
  <1>5. ASSUME Interrupt \/ UNCHANGED vars PROVE ServedFiles'
    BY <1>1, <1>5 DEF Interrupt, vars, locals, OrderSteps, TypeOK
  <1> QED BY <1>2, <1>3, <1>4, <1>5 DEF StoppedNext, SerialNext, ForkFails

LEMMA ServedAlways == StoppedSpec => [](AloneServing /\ ServedFiles)
  <1>1. Init => AloneServing /\ ServedFiles
    BY DEF Init, AloneServing, ServedFiles, Idle, Unborn, OrderSteps
  <1>2. TypeOK /\ StepsFit /\ FreshFiles /\ TempApart /\ PayerFiles /\ AloneServing
          /\ ServedFiles /\ [StoppedNext]_vars => (AloneServing /\ ServedFiles)'
    BY AloneServingStep, ServedFilesStep
  <1> QED BY <1>1, <1>2, SerialImplements, OnePayerImplements, OnePayerFits, Typing, Stepping,
             FilesApart, PTL DEF StoppedSpec

\* The invariants of a server that serves one request at a time.
Serving == /\ TypeOK /\ StepsFit /\ FreshFiles /\ TempApart
           /\ PayerFiles /\ AloneServing /\ ServedFiles

LEMMA ServingAlways == StoppedSpec => []Serving
  BY ServedAlways, SerialImplements, OnePayerImplements, OnePayerFits, Typing, Stepping,
     FilesApart, PTL DEF Serving

\* What the children's steps do to the open orders and to the receipts.
LEMMA ServingStep ==
  ASSUME Serving, NEW p \in Procs, ~Idle(p), Child(p)
  PROVE  \/ /\ OrderAppend(p) /\ seen[p] = OpenLines /\ pc'[p] = "responding"
            /\ OpenLines' = Append(OpenLines, NewLine(p)) /\ paid' = paid
         \/ /\ PayRemove(p) /\ seen[p] = OpenLines /\ Found(p) /\ Enough(p)
            /\ pc'[p] = "removed" /\ disk'[tempPtr'[p]] = Remaining(p)
            /\ Receipt(p)' = Receipt(p) /\ OpenLines' = <<>> /\ paid' = paid
         \/ /\ PayRename(p) /\ pc[p] = "removed" /\ pc'[p] = "renamed"
            /\ OpenLines' = disk[tempPtr[p]] /\ OpenLines' = Remaining(p)
            /\ Receipt(p)' = Receipt(p) /\ paid' = paid
         \/ /\ PayRecord(p) /\ pc[p] = "renamed" /\ pc'[p] = "responding"
            /\ OpenLines' = OpenLines /\ paid' = Append(paid, Receipt(p))
         \/ /\ ~OrderAppend(p) /\ ~PayRecord(p) /\ pc[p] \notin {"removed", "renamed"}
            /\ pc'[p] \notin {"removed", "renamed"}
            /\ OpenLines' = OpenLines /\ paid' = paid
  <1> USE DEF Serving
  <1>1. CASE OrderAppend(p)
    <2>1. /\ pc[p] = "numbering" /\ pc' = [pc EXCEPT ![p] = "responding"]
          /\ disk' = [disk EXCEPT ![createdPtr[p]] = Append(@, NewLine(p))]
          /\ UNCHANGED <<created, paid>>
      BY <1>1 DEF OrderAppend, Respond, Goto
    <2>2. createdPtr[p] = created /\ created \in Inode /\ seen[p] = OpenLines
      BY <2>1 DEF ServedFiles, StepsFit, OrderSteps
    <2>3. OpenLines = disk[created] /\ OpenLines' = Append(OpenLines, NewLine(p))
      BY <2>1, <2>2, ServerAssumption DEF OpenLines, Inode, TypeOK
    <2> QED BY <1>1, <2>1, <2>2, <2>3 DEF TypeOK
  <1>2. CASE PayRemove(p)
    <2>1. pc[p] = "flushed" /\ Found(p) /\ Enough(p) /\ created' = NoFile
          /\ UNCHANGED <<disk, paid, locals>>
      BY <1>2 DEF PayRemove
    <2>2. seen[p] = OpenLines /\ disk[tempPtr[p]] = Remaining(p)
      BY <2>1 DEF ServedFiles, PayerFiles
    <2>3. created # NoFile
      BY <2>1, <2>2 DEF OpenLines, Found, WasCreated, Matches
    <2>4. pc'[p] = "removed"
      BY <1>2, <2>3 DEF PayRemove, Goto, TypeOK
    <2> QED BY <1>2, <2>1, <2>2, <2>4 DEF OpenLines, Receipt, locals
  <1>3. CASE PayRename(p)
    <2>1. pc[p] = "removed" /\ UNCHANGED <<disk, paid, locals>>
      BY <1>3 DEF PayRename
    <2>2. temp = tempPtr[p] /\ temp # NoFile /\ disk[tempPtr[p]] = Remaining(p)
      BY <2>1, ServerAssumption DEF PayerFiles, StepsFit, PaySteps, NoTemp, Inode
    <2>3. created' = temp /\ pc'[p] = "renamed"
      BY <1>3, <2>2 DEF PayRename, Goto, TypeOK
    <2> QED BY <1>3, <2>1, <2>2, <2>3 DEF OpenLines, Receipt, locals
  <1>4. CASE PayRecord(p)
    BY <1>4 DEF PayRecord, Respond, Goto, OpenLines, TypeOK
  <1>5. CASE ~OrderAppend(p) /\ ~PayRemove(p) /\ ~PayRename(p) /\ ~PayRecord(p)
    <2>1. OpenLines' = OpenLines
      BY <1>5, OpenLinesStay
    <2>2. paid' = paid /\ pc[p] \notin {"removed", "renamed"} /\ pc'[p] \notin {"removed", "renamed"}
      <3> USE DEF TypeOK, files, locals, Goto, Respond, Die
      <3>1. CASE DisplayCatalog(p) \/ Browse(p) \/ ShortRequest(p) \/ OpenFails(p) \/ Reply(p)
        BY <3>1 DEF DisplayCatalog, Browse, ShortRequest, OpenFails, Reply
      <3>2. CASE OrderNoBook(p) \/ OrderOpen(p) \/ OrderRead(p)
        BY <3>2 DEF OrderNoBook, OrderOpen, OrderRead
      <3>3. CASE PayOpen(p) \/ PayOpenTemp(p) \/ PayScan(p)
        BY <3>3 DEF PayOpen, PayOpenTemp, PayScan
      <3>4. CASE PayWithoutTemp(p) \/ PayNoOrders(p) \/ PayCloseTemp(p) \/ PayInvalid(p)
                 \/ PayInsufficient(p)
        BY <3>4 DEF PayNoOrders, PayCloseTemp, PayInvalid, PayInsufficient, PayWithoutTemp
      <3> HIDE DEF TypeOK, files, locals, Goto, Respond, Die
      <3> QED BY <1>5, <3>1, <3>2, <3>3, <3>4 DEF Child, OrderBook, PayForBook
    <2> QED BY <1>5, <2>1, <2>2
  <1> QED BY <1>1, <1>2, <1>3, <1>4, <1>5

\* The open orders have ascending numbers, and so has what the payer puts back.
OrdersAscend ==
  /\ Ascending(OpenLines)
  /\ \A p \in Procs : pc[p] = "removed" => Ascending(seen[p])

LEMMA OrdersAscendStep ==
  Serving /\ OrdersAscend /\ [StoppedNext]_vars => OrdersAscend'
  <1> SUFFICES ASSUME Serving, OrdersAscend, [StoppedNext]_vars PROVE OrdersAscend'
    OBVIOUS
  <1> USE DEF Serving
  <1>1. ASSUME OpenLines' = OpenLines,
               \A q \in Procs : pc'[q] = "removed" => pc[q] = "removed" /\ seen'[q] = seen[q]
        PROVE  OrdersAscend'
    BY <1>1 DEF OrdersAscend
  <1>2. ASSUME NEW p \in Procs, ~Idle(p), Child(p) PROVE OrdersAscend'
    <2>1. \A q \in Procs \ {p} : pc'[q] # "removed"
      BY <1>2, ChildMoves DEF AloneServing, Idle, Unborn, Ended
    <2>2. CASE OrderAppend(p) /\ seen[p] = OpenLines /\ pc'[p] = "responding"
               /\ OpenLines' = Append(OpenLines, NewLine(p))
      <3>1. NewLine(p) \in Line
        BY <2>2, NewLineType DEF OrderAppend, StepsFit, OrderSteps, TypeOK, Unborn
      <3>2. NewLine(p).num = LastNumber(OpenLines) + 1 /\ NewLine(p).cut = 0
        BY <2>2 DEF NewLine, Printed
      <3>3. Ascending(OpenLines')
        BY <2>2, <3>1, <3>2, OpenLinesType, AppendAscends DEF OrdersAscend
      <3> QED BY <2>1, <2>2, <3>3 DEF OrdersAscend
    <2>3. CASE PayRemove(p) /\ seen[p] = OpenLines /\ OpenLines' = <<>>
      <3>1. seen' = seen
        BY <2>3 DEF PayRemove, locals
      <3>2. Ascending(OpenLines')
        BY <2>3 DEF Ascending, Whole
      <3> QED BY <2>1, <2>3, <3>1, <3>2 DEF OrdersAscend
    <2>4. CASE pc[p] = "removed" /\ pc'[p] = "renamed" /\ OpenLines' = Remaining(p)
      <3>1. Ascending(OpenLines')
        BY <2>4, WithoutAscends DEF OrdersAscend, Remaining, TypeOK
      <3> QED BY <2>1, <2>4, <3>1 DEF OrdersAscend
    <2>5. CASE OpenLines' = OpenLines /\ pc'[p] # "removed"
      BY <1>1, <2>1, <2>5
    <2> QED BY <1>2, <2>2, <2>3, <2>4, <2>5, ServingStep
  <1>3. ASSUME NEW p \in Procs, Idle(p), Child(p) PROVE OrdersAscend'
    BY <1>1, <1>3, IdleReplies DEF Reply, Goto, files, locals, OpenLines, TypeOK
  <1>4. ASSUME NEW p \in Procs, NEW r \in Requests, Fork(p, r) PROVE OrdersAscend'
    BY <1>1, <1>4 DEF Fork, Goto, files, OpenLines, TypeOK
  <1>5. ASSUME Interrupt \/ UNCHANGED vars PROVE OrdersAscend'
    BY <1>1, <1>5 DEF Interrupt, vars, files, locals, OpenLines, TypeOK
  <1> QED BY <1>2, <1>3, <1>4, <1>5 DEF StoppedNext, SerialNext, ForkFails

\* If the shipped orders have ascending numbers, so have the open orders as
\* long as one request is served at a time, wherever the server is stopped: an
\* order number names one order.
THEOREM NumbersAscend ==
  ASSUME Ascending(Shipped)
  PROVE  StoppedSpec => []OpenNumbersAscend
  <1>1. Init => OrdersAscend
    <2> SUFFICES ASSUME Init PROVE OrdersAscend
      OBVIOUS
    <2> QED BY InitOpenLines DEF Init, OrdersAscend, Unborn
  <1>2. OrdersAscend => OpenNumbersAscend
    BY DEF OrdersAscend, OpenNumbersAscend
  <1> QED BY <1>1, <1>2, OrdersAscendStep, ServingAlways, PTL DEF StoppedSpec

-----------------------------------------------------------------------------
(* The ledger.  A payment takes effect with the remove of                  *)
(* created_orders.txt; until the receipt is written, the open orders are   *)
(* those in the payer's temp.txt and the paid ones have the receipt.       *)

LedgerView ==
  /\ PayingNow = {} => LedgerOpen = OpenLines /\ LedgerPaid = paid
  /\ \A p \in Procs : pc[p] \in {"removed", "renamed"} =>
       /\ PayingNow = {p}
       /\ LedgerOpen = IF pc[p] = "removed" THEN disk[tempPtr[p]] ELSE OpenLines
       /\ LedgerPaid = Append(paid, Receipt(p))

LEMMA LedgerViewHolds == AloneServing => LedgerView
  <1> SUFFICES ASSUME AloneServing PROVE LedgerView
    OBVIOUS
  <1>1. PayingNow = {} => LedgerOpen = OpenLines /\ LedgerPaid = paid
    BY DEF PayingNow, LedgerOpen, LedgerPaid
  <1>2. ASSUME NEW p \in Procs, pc[p] \in {"removed", "renamed"}
        PROVE  /\ PayingNow = {p}
               /\ LedgerOpen = IF pc[p] = "removed" THEN disk[tempPtr[p]] ELSE OpenLines
               /\ LedgerPaid = Append(paid, Receipt(p))
    <2>1. \A q \in Procs : pc[q] \in {"removed", "renamed"} => q = p
      BY <1>2 DEF AloneServing, Idle, Unborn, Ended
    <2>2. PayingNow = {p}
      BY <1>2, <2>1 DEF PayingNow
    <2>3. (CHOOSE q \in PayingNow : TRUE) = p
      BY <2>2
    <2>4. LedgerPaid = Append(paid, Receipt(p))
      BY <2>2, <2>3 DEF LedgerPaid
    <2>5. CASE pc[p] = "removed"
      <3>1. (CHOOSE q \in Procs : pc[q] = "removed") = p
        BY <2>1, <2>5
      <3> QED BY <2>2, <2>4, <2>5, <3>1 DEF LedgerOpen
    <2>6. CASE pc[p] = "renamed"
      <3>1. ~\E q \in Procs : pc[q] = "removed"
        BY <2>1, <2>6
      <3> QED BY <2>2, <2>4, <2>6, <3>1 DEF LedgerOpen
    <2> QED BY <1>2, <2>5, <2>6
  <1> QED BY <1>1, <1>2 DEF LedgerView

Payment(p) == [order |-> Receipt(p), amount |-> req[p].amount]

\* A step of the server is a step of the ledger, or none.
LEMMA LedgerStep ==
  ASSUME Serving, LedgerView, LedgerView', [SerialNext]_vars
  PROVE  \/ \E p \in Procs :
              /\ OrderAppend(p) /\ seen[p] = LedgerOpen
              /\ LedgerOpen' = Append(LedgerOpen, NewLine(p))
              /\ LedgerPaid' = LedgerPaid /\ LedgerPayments' = LedgerPayments
         \/ \E p \in Procs :
              /\ PayRemove(p) /\ Ordered' = Ordered
              /\ seen[p] = LedgerOpen /\ Found(p) /\ Enough(p)
              /\ LedgerOpen' = Remaining(p)
              /\ LedgerPaid' = Append(LedgerPaid, Receipt(p))
              /\ LedgerPayments' = LedgerPayments \cup {Payment(p)}
         \/ /\ Ordered' = Ordered
            /\ LedgerOpen' = LedgerOpen /\ LedgerPaid' = LedgerPaid
            /\ LedgerPayments' = LedgerPayments
  <1> USE DEF Serving
  <1>0. [Next]_vars
    BY OnePayerSteps, StoppedSteps DEF StoppedNext
  <1> DEFINE Stays == LedgerOpen' = LedgerOpen /\ LedgerPaid' = LedgerPaid
                       /\ LedgerPayments' = LedgerPayments
  <1>a. \A p \in Settled : Receipt(p)' = Receipt(p) /\ req'[p] = req[p]
    BY <1>0, AnswersStay DEF Settled, Receipt
  <1>b. LedgerPayments = {Payment(p) : p \in Settled \cup PayingNow}
        /\ LedgerPayments' = {Payment(p)' : p \in Settled' \cup PayingNow'}
    BY DEF LedgerPayments, Payment
  \* At a child's step nobody else is in a payment.
  <1>1. ASSUME NEW p \in Procs, ~Idle(p), Child(p)
        PROVE  /\ PayingNow = IF pc[p] \in {"removed", "renamed"} THEN {p} ELSE {}
               /\ PayingNow' = IF pc'[p] \in {"removed", "renamed"} THEN {p} ELSE {}
               /\ req' = req
    <2>1. \A q \in Procs \ {p} : Idle(q) /\ pc'[q] = pc[q]
      BY <1>1, ChildMoves DEF AloneServing
    <2> QED BY <1>1, <2>1, ChildMoves DEF PayingNow, Idle, Unborn, Ended
  <1>2. ASSUME NEW p \in Procs, ~Idle(p), OrderAppend(p), seen[p] = OpenLines,
               pc'[p] = "responding", OpenLines' = Append(OpenLines, NewLine(p)), paid' = paid
        PROVE  /\ seen[p] = LedgerOpen /\ LedgerOpen' = Append(LedgerOpen, NewLine(p))
               /\ LedgerPaid' = LedgerPaid /\ LedgerPayments' = LedgerPayments
    <2>1. PayingNow = {} /\ PayingNow' = {}
      BY <1>1, <1>2 DEF OrderAppend, Child, OrderBook
    <2>2. Settled' = Settled
      BY <1>2 DEF OrderAppend, Respond, Settled, StepsFit, Ended, TypeOK
    <2>3. LedgerOpen = OpenLines /\ LedgerPaid = paid
          /\ LedgerOpen' = OpenLines' /\ LedgerPaid' = paid'
      BY <2>1 DEF LedgerView
    <2> QED BY <1>2, <1>a, <1>b, <2>1, <2>2, <2>3 DEF Payment
  <1>3. ASSUME NEW p \in Procs, ~Idle(p), PayRemove(p), seen[p] = OpenLines,
               Found(p), Enough(p), pc'[p] = "removed", disk'[tempPtr'[p]] = Remaining(p),
               Receipt(p)' = Receipt(p), paid' = paid
        PROVE  /\ seen[p] = LedgerOpen /\ LedgerOpen' = Remaining(p)
               /\ LedgerPaid' = Append(LedgerPaid, Receipt(p))
               /\ LedgerPayments' = LedgerPayments \cup {Payment(p)}
    <2>1. PayingNow = {} /\ PayingNow' = {p} /\ req' = req
      BY <1>1, <1>3 DEF PayRemove, Child, PayForBook
    <2>2. Settled' = Settled
      BY <1>3 DEF PayRemove, Die, Settled
    <2>3. LedgerOpen = OpenLines /\ LedgerPaid = paid
      BY <2>1 DEF LedgerView
    <2>4. LedgerOpen' = disk'[tempPtr'[p]] /\ LedgerPaid' = Append(paid', Receipt(p)')
      BY <1>3 DEF LedgerView
    <2>5. LedgerPayments' = LedgerPayments \cup {Payment(p)}
      BY <1>3, <1>a, <1>b, <2>1, <2>2 DEF Payment
    <2> QED BY <1>3, <2>3, <2>4, <2>5
  <1>4. ASSUME NEW p \in Procs, ~Idle(p), PayRename(p), pc[p] = "removed", pc'[p] = "renamed",
               OpenLines' = disk[tempPtr[p]], Receipt(p)' = Receipt(p), paid' = paid
        PROVE  Stays
    <2>1. PayingNow' = PayingNow /\ req' = req /\ p \in PayingNow
      BY <1>1, <1>4 DEF Child, PayForBook
    <2>2. Settled' = Settled
      BY <1>4 DEF PayRename, Die, Settled
    <2>3. LedgerOpen = disk[tempPtr[p]] /\ LedgerPaid = Append(paid, Receipt(p))
      BY <1>4 DEF LedgerView
    <2>4. LedgerOpen' = OpenLines' /\ LedgerPaid' = Append(paid', Receipt(p)')
      BY <1>4 DEF LedgerView
    <2>5. PayingNow = {p}
      BY <1>4 DEF LedgerView
    <2>6. LedgerPayments' = LedgerPayments
      BY <1>4, <1>a, <1>b, <2>1, <2>2, <2>5 DEF Payment
    <2> QED BY <1>4, <2>3, <2>4, <2>6
  <1>5. ASSUME NEW p \in Procs, ~Idle(p), PayRecord(p), pc[p] = "renamed", pc'[p] = "responding",
               OpenLines' = OpenLines, paid' = Append(paid, Receipt(p))
        PROVE  Stays
    <2>1. PayingNow' = {} /\ PayingNow = {p} /\ req' = req
      BY <1>1, <1>5 DEF Child, PayForBook
    <2>2. Settled' = Settled \cup {p} /\ Receipt(p)' = Receipt(p)
      BY <1>5 DEF PayRecord, Respond, Settled, Receipt, locals, TypeOK
    <2>3. LedgerOpen = OpenLines /\ LedgerPaid = Append(paid, Receipt(p))
      BY <1>5 DEF LedgerView
    <2>4. LedgerOpen' = OpenLines' /\ LedgerPaid' = paid'
      BY <2>1 DEF LedgerView
    <2>5. LedgerPayments' = LedgerPayments
      BY <1>a, <1>b, <2>1, <2>2 DEF Payment
    <2> QED BY <1>5, <2>3, <2>4, <2>5
  \* Steps at which the files stay and nobody is in a payment.
  <1>6. ASSUME PayingNow = {}, PayingNow' = {}, OpenLines' = OpenLines, paid' = paid,
               Settled' = Settled
        PROVE  Stays
    BY <1>6, <1>a, <1>b DEF LedgerView, Payment
  <1>7. ASSUME NEW p \in Procs, ~Idle(p), Child(p), ~OrderAppend(p), ~PayRecord(p),
               pc[p] \notin {"removed", "renamed"}, pc'[p] \notin {"removed", "renamed"},
               OpenLines' = OpenLines, paid' = paid
        PROVE  Stays
    <2>1. Settled' = Settled
      <3>1. \A q \in Procs : ~PayRecord(q)
        BY <1>7 DEF PayRecord, AloneServing, Idle, Unborn, Ended
      <3> QED BY <1>0, <3>1, OutcomeStep
    <2> QED BY <1>1, <1>6, <1>7, <2>1
  <1>9. ASSUME NEW p \in Procs, ~Idle(p), Child(p), ~OrderAppend(p) PROVE Ordered' = Ordered
    <2>1. \A q \in Procs : ~OrderAppend(q)
      BY <1>9 DEF OrderAppend, AloneServing, Idle, Unborn, Ended
    <2> QED BY <1>0, <2>1, OutcomeStep
  <1>10. ASSUME NEW p \in Procs, ~Idle(p), Child(p)
         PROVE  \/ /\ OrderAppend(p) /\ seen[p] = LedgerOpen
                   /\ LedgerOpen' = Append(LedgerOpen, NewLine(p))
                   /\ LedgerPaid' = LedgerPaid /\ LedgerPayments' = LedgerPayments
                \/ /\ PayRemove(p) /\ Ordered' = Ordered
                   /\ seen[p] = LedgerOpen /\ Found(p) /\ Enough(p)
                   /\ LedgerOpen' = Remaining(p)
                   /\ LedgerPaid' = Append(LedgerPaid, Receipt(p))
                   /\ LedgerPayments' = LedgerPayments \cup {Payment(p)}
                \/ Ordered' = Ordered /\ Stays
    <2>1. PayRemove(p) \/ PayRename(p) \/ PayRecord(p) => ~OrderAppend(p)
      BY DEF PayRemove, PayRename, PayRecord, OrderAppend
    <2> HIDE DEF Stays, Serving
    <2> QED BY <1>2, <1>3, <1>4, <1>5, <1>7, <1>9, <1>10, <2>1, ServingStep
  <1>11. ASSUME UNCHANGED <<files, outcome>>, PayingNow' = PayingNow,
                \A p \in Procs : pc[p] \in {"removed", "renamed"} =>
                    pc'[p] = pc[p] /\ tempPtr'[p] = tempPtr[p] /\ seen'[p] = seen[p]
                    /\ req'[p] = req[p]
         PROVE  Ordered' = Ordered /\ Stays
    <2>1. Ordered' = Ordered /\ Settled' = Settled /\ OpenLines' = OpenLines /\ paid' = paid
      BY <1>11 DEF Ordered, Settled, OpenLines, files
    <2>2. \A p \in PayingNow : Payment(p)' = Payment(p) /\ Receipt(p)' = Receipt(p)
      BY <1>11 DEF PayingNow, Payment, Receipt
    <2>3. LedgerPayments' = LedgerPayments
      BY <1>11, <1>a, <1>b, <2>1, <2>2 DEF Payment
    <2>4. LedgerOpen' = LedgerOpen /\ LedgerPaid' = LedgerPaid
      <3>1. CASE PayingNow = {}
        BY <1>11, <2>1, <3>1 DEF LedgerView
      <3>2. CASE PayingNow # {}
        <4>1. PICK p \in Procs : pc[p] \in {"removed", "renamed"}
          BY <3>2 DEF PayingNow
        <4>2. LedgerPaid = Append(paid, Receipt(p)) /\ LedgerPaid' = Append(paid', Receipt(p)')
          BY <1>11, <4>1 DEF LedgerView
        <4>3. /\ LedgerOpen = IF pc[p] = "removed" THEN disk[tempPtr[p]] ELSE OpenLines
              /\ LedgerOpen' = IF pc'[p] = "removed" THEN disk'[tempPtr'[p]] ELSE OpenLines'
          BY <1>11, <4>1 DEF LedgerView
        <4> QED BY <1>11, <2>1, <2>2, <4>1, <4>2, <4>3 DEF files, PayingNow
      <3> QED BY <3>1, <3>2
    <2> QED BY <2>1, <2>3, <2>4
  <1>12. ASSUME NEW p \in Procs, Idle(p), Child(p) PROVE Ordered' = Ordered /\ Stays
    <2>1. UNCHANGED <<files, locals, outcome>> /\ pc[p] = "responding"
          /\ pc' = [pc EXCEPT ![p] = "answered"]
      BY <1>12, IdleReplies DEF Reply, Goto
    <2>2. PayingNow' = PayingNow
      BY <2>1 DEF PayingNow, TypeOK
    <2> HIDE DEF Stays
    <2> QED BY <1>11, <2>1, <2>2 DEF locals, TypeOK
  <1>13. ASSUME Quiet, NEW p \in Procs, NEW r \in Requests, Fork(p, r)
         PROVE  Ordered' = Ordered /\ Stays
    <2>1. UNCHANGED <<files, seen, outcome>> /\ pc' = [pc EXCEPT ![p] = "parsed"]
      BY <1>13 DEF Fork, Goto
    <2>2. PayingNow = {} /\ PayingNow' = {}
      BY <1>13, <2>1 DEF Quiet, Idle, Unborn, Ended, PayingNow, TypeOK
    <2> HIDE DEF Stays
    <2> QED BY <1>11, <2>1, <2>2 DEF PayingNow
  <1>14. ASSUME UNCHANGED vars PROVE Ordered' = Ordered /\ Stays
    <2>1. PayingNow' = PayingNow
      BY <1>14 DEF vars, PayingNow
    <2> HIDE DEF Stays
    <2> QED BY <1>11, <1>14, <2>1 DEF vars, locals
  <1> HIDE DEF Serving
  <1> QED BY <1>10, <1>12, <1>13, <1>14 DEF SerialNext, ForkFails, Stays

\* The ledger computes on lines with the same operators.
LEMMA LedgerOperators ==
  ASSUME NEW s, NEW n
  PROVE  /\ Ledger!LastNumber(s) = LastNumber(s) /\ Ledger!LastTotal(s) = LastTotal(s)
         /\ Ledger!WasCreated(s, n) <=> WasCreated(s, n)
         /\ Ledger!PaidLine(s, n) = PaidLine(s, n)
         /\ Ledger!Without(s, n) = Without(s, n)
         /\ Ledger!Lines(s) = Lines(s)
         /\ \A l : Ledger!Number(l) = Number(l)
         /\ \A a, b : Ledger!Printed(a, b) = Printed(a, b)
  <1>1. \A S : Ledger!Cardinality(S) = Cardinality(S)
    BY DEF Ledger!Cardinality, Cardinality
  <1>2. \A a : Ledger!Magnitude(a) = Magnitude(a)
    BY DEF Ledger!Magnitude, Magnitude
  <1>3. \A a : Ledger!Chars(a) = Chars(a)
    BY <1>1, <1>2 DEF Ledger!Chars, Chars
  <1>4. \A a, k : Ledger!LastDigits(a, k) = LastDigits(a, k)
    BY <1>2, <1>3 DEF Ledger!LastDigits, LastDigits
  <1>5. \A l : /\ Ledger!HasBoth(l) <=> HasBoth(l)
               /\ Ledger!HasNumber(l) <=> HasNumber(l)
    BY <1>3 DEF Ledger!HasBoth, Ledger!HasNumber, HasBoth, HasNumber
  <1>6. \A l : Ledger!Number(l) = Number(l)
    BY <1>3, <1>4, <1>5 DEF Ledger!Number, Number
  <1>7. \A l, k : /\ Ledger!IsOf(l, k) <=> IsOf(l, k)
                  /\ Ledger!IsKept(l, k) <=> IsKept(l, k)
    BY <1>5, <1>6 DEF Ledger!IsOf, Ledger!IsKept, IsOf, IsKept
  <1>8. \A S : Ledger!Last(S) = Last(S)
    BY DEF Ledger!Last, Last
  <1>9. Ledger!LastNumber(s) = LastNumber(s)
    BY <1>5, <1>6, <1>8 DEF Ledger!LastNumber, LastNumber
  <1>10. Ledger!LastTotal(s) = LastTotal(s)
    BY <1>5, <1>8 DEF Ledger!LastTotal, LastTotal
  <1>11. Ledger!Matches(s, n) = Matches(s, n) /\ Ledger!Kept(s, n) = Kept(s, n)
    BY <1>7 DEF Ledger!Matches, Ledger!Kept, Matches, Kept
  <1>12. Ledger!WasCreated(s, n) <=> WasCreated(s, n)
    BY <1>11 DEF Ledger!WasCreated, WasCreated
  <1>13. Ledger!PaidLine(s, n) = PaidLine(s, n)
    BY <1>8, <1>11 DEF Ledger!PaidLine, PaidLine
  <1>14. Ledger!Without(s, n) = Without(s, n)
    <2>1. \A S, k : Ledger!Nth(S, k) = Nth(S, k)
      BY <1>1 DEF Ledger!Nth, Nth
    <2> QED BY <1>1, <1>11, <2>1 DEF Ledger!Without, Without
  <1>15. Ledger!Lines(s) = Lines(s)
    BY DEF Ledger!Lines, Lines
  <1>16. \A a, b : Ledger!Printed(a, b) = Printed(a, b)
    BY DEF Ledger!Printed, Printed
  <1> QED BY <1>6, <1>9, <1>10, <1>12, <1>13, <1>14, <1>15, <1>16

\* One request at a time, the files implement the ledger.
THEOREM FilesImplementLedger == SerialSpec => ImplementsLedger
  <1>1. Init => Ledger!Init
    <2> SUFFICES ASSUME Init PROVE Ledger!Init
      OBVIOUS
    <2>1. PayingNow = {} /\ Settled = {} /\ paid = <<>> /\ ~\E p \in Procs : pc[p] = "removed"
      BY DEF Init, PayingNow, Settled, Unborn
    <2>2. LedgerOpen = Shipped /\ LedgerPaid = <<>>
      BY <2>1, InitOpenLines DEF LedgerOpen, LedgerPaid
    <2>3. LedgerPayments = {}
      BY <2>1 DEF LedgerPayments
    <2> QED BY <2>2, <2>3 DEF Ledger!Init
  <1>2. Serving /\ LedgerView /\ LedgerView' /\ [SerialNext]_vars => [Ledger!Next]_(Ledger!ledger)
    <2> SUFFICES ASSUME Serving, LedgerView, LedgerView', [SerialNext]_vars
                 PROVE  [Ledger!Next]_(Ledger!ledger)
      OBVIOUS
    <2>1. ASSUME NEW p \in Procs, OrderAppend(p), seen[p] = LedgerOpen,
                 LedgerOpen' = Append(LedgerOpen, NewLine(p)),
                 LedgerPaid' = LedgerPaid, LedgerPayments' = LedgerPayments
          PROVE  Ledger!Next
      <3>1. /\ req[p] \in Requests /\ req[p].op = "order"
            /\ BookToOrder(req[p].x, req[p].y) # NoBook
        BY <2>1 DEF Serving, OrderAppend, StepsFit, OrderSteps, Unborn
      <3>2. TotalPrice(req[p].x, req[p].y, req[p].n) \in Totals
        BY <3>1 DEF Totals
      <3>3. Ledger!Place(TotalPrice(req[p].x, req[p].y, req[p].n))
        BY <2>1, LedgerOperators DEF Ledger!Place, NewLine
      <3> QED BY <3>2, <3>3 DEF Ledger!Next
    <2>2. ASSUME NEW p \in Procs, PayRemove(p), seen[p] = LedgerOpen, Found(p), Enough(p),
                 LedgerOpen' = Remaining(p), LedgerPaid' = Append(LedgerPaid, Receipt(p)),
                 LedgerPayments' = LedgerPayments \cup {Payment(p)}
          PROVE  Ledger!Next
      <3>1. req[p] \in Requests /\ req[p].op = "pay"
        BY <2>2 DEF Serving, PayRemove, StepsFit, PaySteps, NoTemp, Unborn
      <3>2. req[p].amount \in Amounts
        BY <3>1 DEF Amounts
      <3>3. Receipt(p) \in Lines(LedgerOpen) /\ Number(Receipt(p)) = req[p].orderno
        BY <2>2, PaidLineIsLine DEF Serving, TypeOK, Found, Receipt, IsOf
      <3>4. Ledger!Settle(req[p].orderno, req[p].amount)
        BY <2>2, LedgerOperators DEF Ledger!Settle, Found, Enough, Receipt, Remaining, Payment
      <3> QED BY <3>2, <3>3, <3>4, LedgerOperators DEF Ledger!Next
    <2>3. ASSUME LedgerOpen' = LedgerOpen, LedgerPaid' = LedgerPaid,
                 LedgerPayments' = LedgerPayments
          PROVE  UNCHANGED Ledger!ledger
      BY <2>3 DEF Ledger!ledger
    <2> QED BY <2>1, <2>2, <2>3, LedgerStep
  <1>3. Serving => LedgerView
    BY LedgerViewHolds DEF Serving
  <1> QED BY <1>1, <1>2, <1>3, ServingAlways, SerialImplements, PTL
          DEF SerialSpec, ImplementsLedger, Ledger!Spec

-----------------------------------------------------------------------------
(* Nothing is lost or doubled on its way.  The ledger's numbers ascend, so *)
(* a payment takes away one copy of one line, the one it writes a receipt  *)
(* for.                                                                    *)

Balanced ==
  /\ Ascending(LedgerOpen)
  /\ \A l \in Line : Copies(LedgerOpen, l) + Copies(LedgerPaid, l) = IssuedCopies(l)

\* The lines of the ledger are lines.
LEMMA LedgerTyping ==
  ASSUME TypeOK, StepsFit, LedgerView
  PROVE  LedgerOpen \in Seq(Line) /\ LedgerPaid \in Seq(Line)
  <1>1. CASE PayingNow = {}
    BY <1>1, OpenLinesType DEF LedgerView, TypeOK
  <1>2. ASSUME NEW p \in Procs, pc[p] \in {"removed", "renamed"}
        PROVE  LedgerOpen \in Seq(Line) /\ LedgerPaid \in Seq(Line)
    <2>1. Receipt(p) \in Line
      BY <1>2, ReceiptType DEF StepsFit, TypeOK
    <2>2. tempPtr[p] \in Inode
      BY <1>2 DEF StepsFit, PaySteps, NoTemp
    <2>3. LedgerPaid = Append(paid, Receipt(p)) /\ LedgerOpen \in {disk[tempPtr[p]], OpenLines}
      BY <1>2 DEF LedgerView
    <2>4. LedgerPaid \in Seq(Line)
      BY <2>1, <2>3, AppendLines DEF TypeOK
    <2>5. disk[tempPtr[p]] \in Seq(Line) /\ OpenLines \in Seq(Line)
      BY <2>2, OpenLinesType DEF TypeOK
    <2> QED BY <2>3, <2>4, <2>5
  <1> QED BY <1>1, <1>2 DEF PayingNow

\* A payment of a line whose number no other line has moves one copy.
LEMMA SettleMoves ==
  ASSUME NEW s \in Seq(Line), Ascending(s), NEW n, WasCreated(s, n),
         NEW t \in Seq(Line), NEW l \in Line
  PROVE  Copies(Without(s, n), l) + Copies(Append(t, PaidLine(s, n)), l)
           = Copies(s, l) + Copies(t, l)
  <1> DEFINE receipt == PaidLine(s, n)
  <1>1. receipt \in Lines(s) /\ receipt \in Line /\ IsOf(receipt, n)
    BY PaidLineIsLine DEF Lines
  <1>2. Copies(Without(s, n), l) = IF IsKept(l, n) THEN Copies(s, l) ELSE 0
    BY WithoutCopies
  <1>3. Copies(Append(t, receipt), l) = Copies(t, l) + (IF l = receipt THEN 1 ELSE 0)
    BY <1>1, AppendCopies
  <1>4. Copies(s, l) \in Nat /\ Copies(t, l) \in Nat
    BY PositionsFinite
  <1>5. \A k \in Lines(s) : HasBoth(k) /\ Number(k) = k.num
    <2> SUFFICES ASSUME NEW k \in Lines(s) PROVE HasBoth(k) /\ Number(k) = k.num
      OBVIOUS
    <2>1. k \in Line /\ k.cut = 0
      BY DEF Lines, Ascending, Whole
    <2> QED BY <2>1, WholeLine
  <1>6. CASE l = receipt
    <2>1. Copies(s, l) = 1
      BY <1>1, <1>6, AscendingNames
    <2>2. ~IsKept(l, n)
      BY <1>1, <1>6 DEF IsOf, IsKept
    <2> QED BY <1>2, <1>3, <1>4, <1>6, <2>1, <2>2
  <1>7. CASE l # receipt /\ l \in Lines(s)
    <2>1. l.num # receipt.num
      BY <1>1, <1>7, AscendingNames
    <2>2. IsKept(l, n)
      BY <1>1, <1>5, <1>7, <2>1 DEF IsOf, IsKept
    <2> QED BY <1>2, <1>3, <1>4, <1>7, <2>2
  <1>8. CASE l # receipt /\ l \notin Lines(s)
    <2>1. Copies(s, l) = 0
      BY <1>8, CopiesOfLines
    <2> QED BY <1>2, <1>3, <1>4, <1>8, <2>1
  <1> QED BY <1>6, <1>7, <1>8

LEMMA BalancedStep ==
  Serving /\ Counted /\ LedgerView /\ LedgerView' /\ Balanced /\ [SerialNext]_vars
    => Balanced'
  <1> SUFFICES ASSUME Serving, Counted, LedgerView, LedgerView', Balanced, [SerialNext]_vars
               PROVE  Balanced'
    OBVIOUS
  <1>0. [Next]_vars
    BY OnePayerSteps, StoppedSteps DEF StoppedNext
  <1>1. LedgerOpen \in Seq(Line) /\ LedgerPaid \in Seq(Line)
    BY LedgerTyping DEF Serving
  <1>2. ASSUME NEW p \in Procs, OrderAppend(p), seen[p] = LedgerOpen,
               LedgerOpen' = Append(LedgerOpen, NewLine(p)), LedgerPaid' = LedgerPaid
        PROVE  Balanced'
    <2>1. NewLine(p) \in Line
      BY <1>2, NewLineType DEF Serving, OrderAppend, StepsFit, OrderSteps, TypeOK, Unborn
    <2>2. p \notin Ordered /\ Ordered' = Ordered \cup {p}
      <3>1. outcome[p] = "none" /\ outcome' = [outcome EXCEPT ![p] = "ordered"]
        BY <1>2 DEF Serving, OrderAppend, StepsFit, Ended, Respond
      <3> QED BY <3>1 DEF Ordered, Serving, TypeOK
    <2>3. Ascending(LedgerOpen')
      <3>1. NewLine(p).num = LastNumber(LedgerOpen) + 1 /\ NewLine(p).cut = 0
        BY <1>2 DEF NewLine, Printed
      <3> QED BY <1>1, <1>2, <2>1, <3>1, AppendAscends DEF Balanced
    <2>4. ASSUME NEW l \in Line
          PROVE  Copies(LedgerOpen', l) + Copies(LedgerPaid', l) = IssuedCopies(l)'
      <3>1. IssuedCopies(l)' = IssuedCopies(l) + (IF l = NewLine(p) THEN 1 ELSE 0)
        BY <1>0, <1>2, <2>2, OrderIssues DEF Serving
      <3>2. Copies(LedgerOpen', l) = Copies(LedgerOpen, l) + (IF l = NewLine(p) THEN 1 ELSE 0)
        BY <1>1, <1>2, <2>1, AppendCopies
      <3>3. Copies(LedgerOpen, l) \in Nat /\ Copies(LedgerPaid, l) \in Nat
        BY <1>1, PositionsFinite
      <3>4. Copies(LedgerPaid', l) = Copies(LedgerPaid, l)
        BY <1>2
      <3> QED BY <3>1, <3>2, <3>3, <3>4 DEF Balanced
    <2> QED BY <2>3, <2>4 DEF Balanced
  <1>3. ASSUME NEW p \in Procs, Ordered' = Ordered, seen[p] = LedgerOpen, Found(p),
               LedgerOpen' = Remaining(p), LedgerPaid' = Append(LedgerPaid, Receipt(p))
        PROVE  Balanced'
    <2>1. Ascending(LedgerOpen')
      BY <1>1, <1>3, WithoutAscends DEF Remaining, Balanced
    <2>2. ASSUME NEW l \in Line
          PROVE  Copies(LedgerOpen', l) + Copies(LedgerPaid', l) = IssuedCopies(l)'
      <3>1. IssuedCopies(l)' = IssuedCopies(l)
        BY <1>0, <1>3, OthersIssueNothing DEF Serving
      <3>2. Copies(LedgerOpen', l) + Copies(LedgerPaid', l)
              = Copies(LedgerOpen, l) + Copies(LedgerPaid, l)
        BY <1>1, <1>3, SettleMoves DEF Remaining, Receipt, Found, Balanced
      <3> QED BY <3>1, <3>2 DEF Balanced
    <2> QED BY <2>1, <2>2 DEF Balanced
  <1>4. ASSUME Ordered' = Ordered, LedgerOpen' = LedgerOpen, LedgerPaid' = LedgerPaid
        PROVE  Balanced'
    <2>1. \A l \in Line : IssuedCopies(l)' = IssuedCopies(l)
      BY <1>0, <1>4, OthersIssueNothing DEF Serving
    <2> QED BY <1>4, <2>1 DEF Balanced
  <1> QED BY <1>2, <1>3, <1>4, LedgerStep

\* If the shipped orders have ascending numbers, then with one request at a
\* time every issued order is open or paid at every moment, and none is both.
THEOREM OrdersConserved ==
  ASSUME Ascending(Shipped)
  PROVE  SerialSpec => []Conservation
  <1>1. Init => Balanced
    <2> SUFFICES ASSUME Init PROVE Balanced
      OBVIOUS
    <2>1. PayingNow = {} /\ paid = <<>> /\ ~\E p \in Procs : pc[p] = "removed"
      BY DEF Init, PayingNow, Unborn
    <2>2. LedgerOpen = Shipped /\ LedgerPaid = <<>> /\ \A l : IssuedCopies(l) = Copies(Shipped, l)
      BY <2>1, InitOpenLines DEF LedgerOpen, LedgerPaid
    <2>3. \A l : Copies(LedgerPaid, l) = 0 /\ Copies(Shipped, l) \in Nat
      BY <2>2, CopiesOfNone, ServerAssumption, PositionsFinite
    <2> QED BY <2>2, <2>3 DEF Balanced
  <1>2. Serving => LedgerView
    BY LedgerViewHolds DEF Serving
  <1>3. Serving /\ OrderedLines /\ LedgerView /\ Balanced => Conservation
    <2> SUFFICES ASSUME Serving, OrderedLines, LedgerView, Balanced PROVE Conservation
      OBVIOUS
    <2>1. Lines(LedgerOpen) \subseteq Line /\ Lines(LedgerPaid) \subseteq Line
      BY LedgerTyping DEF Serving, Lines
    <2>2. Issued \subseteq Line
      BY ServerAssumption DEF Issued, OrderedLines, Lines
    <2> QED BY <2>1, <2>2 DEF Balanced, Conservation
  <1> QED BY <1>1, <1>2, <1>3, BalancedStep, ServingAlways, SerialImplements, OnePayerImplements,
             CountedAlways, OrderedLinesAlways, PTL DEF SerialSpec
=============================================================================
