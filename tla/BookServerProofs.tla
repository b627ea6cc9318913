-------------------------- MODULE BookServerProofs --------------------------
(***************************************************************************)
(* Theorems about BookServer, for any number of children, any requests,    *)
(* any catalogue, any shipped orders and any number of restarts.  TypeOK   *)
(* is not inductive: that the lines a child writes are lines needs what    *)
(* StepsFit says of the step it has got to, so the two are proved          *)
(* together.                                                               *)
(***************************************************************************)
EXTENDS BookServer, OrderLinesProofs

LEMMA BookToOrderType ==
  ASSUME NEW x, NEW y, BookToOrder(x, y) # NoBook
  PROVE  BookToOrder(x, y) \in 1..Len(Catalog)
  <1>1. ASSUME NEW string, SearchBook(string) # NoBook
        PROVE  SearchBook(string) \in 1..Len(Catalog)
    <2> DEFINE hits == {i \in 1..Len(Catalog) :
                          string \in {Catalog[i].title, Catalog[i].isbn}}
    <2>1. hits \in SUBSET (1..Len(Catalog)) /\ hits # {}
      BY <1>1 DEF SearchBook
    <2>2. hits \in SUBSET Int /\ IsFiniteSet(hits)
      <3>1. IsFiniteSet(1..Len(Catalog))
        BY FS_Interval, CatalogAssumption
      <3> QED BY <2>1, <3>1, FS_Subset
    <2>3. Cardinality(hits) \in Nat /\ Cardinality(hits) # 0
      <3> HIDE DEF hits
      <3> QED BY <2>1, <2>2, FS_CardinalityType, FS_EmptySet
    <2> DEFINE first == Nth(hits, 1)
    <2>4. first \in hits /\ Cardinality({j \in hits : j < first}) = 0
      <3>1. 1 \in 1..Cardinality(hits)
        BY <2>3
      <3> HIDE DEF hits
      <3> QED BY <2>2, <3>1, NthType
    <2>5. {j \in hits : j < first} = {}
      <3>1. {j \in hits : j < first} \in SUBSET hits
        OBVIOUS
      <3> HIDE DEF hits, first
      <3>2. IsFiniteSet({j \in hits : j < first})
        BY <2>2, <3>1, FS_Subset
      <3> QED BY <2>4, <3>2, FS_EmptySet
    <2>6. \A j \in hits : first <= j
      <3> SUFFICES ASSUME NEW j \in hits PROVE first <= j
        OBVIOUS
      <3> HIDE DEF hits, first
      <3>1. first \in Int /\ j \in Int
        BY <2>2, <2>4
      <3> QED BY <2>5, <3>1
    <2>7. (CHOOSE i \in hits : \A j \in hits : i <= j) \in hits
      <3> HIDE DEF hits, first
      <3> QED BY <2>4, <2>6
    <2> QED BY <2>1, <2>7 DEF SearchBook
  <1> QED BY <1>1 DEF BookToOrder

\* What a child writes is made of lines.
LEMMA NewLineType ==
  ASSUME NEW p \in Procs, seen[p] \in Seq(Line), req[p] \in Requests,
         req[p].op = "order", BookToOrder(req[p].x, req[p].y) # NoBook
  PROVE  NewLine(p) \in Line
  <1>1. LastNumber(seen[p]) \in Int
    BY LastNumberType
  <1>2. req[p].n \in Int
    <2>1. req[p] \in DisplayRequest \cup OrderRequest \cup PayRequest \cup OtherRequest
      BY ServerAssumption
    <2> QED BY <2>1 DEF DisplayRequest, OrderRequest, PayRequest, OtherRequest
  <1>3. Catalog[BookToOrder(req[p].x, req[p].y)].price \in Int
    <2>1. BookToOrder(req[p].x, req[p].y) \in 1..Len(Catalog)
      BY BookToOrderType
    <2>2. Catalog[BookToOrder(req[p].x, req[p].y)] \in Book
      BY <2>1, CatalogAssumption
    <2> QED BY <2>2 DEF Book
  <1>4. TotalPrice(req[p].x, req[p].y, req[p].n) \in Int
    BY <1>2, <1>3 DEF TotalPrice
  <1>5. LastNumber(seen[p]) + 1 \in Int
    BY <1>1
  <1> QED BY <1>4, <1>5, PrintedType DEF NewLine

LEMMA ReceiptType ==
  ASSUME NEW p \in Procs, seen[p] \in Seq(Line), Found(p)
  PROVE  Receipt(p) \in Line /\ Receipt(p) \in Lines(seen[p])
  <1>1. Receipt(p) \in Lines(seen[p])
    BY PaidLineIsLine DEF Found, Receipt
  <1> QED BY <1>1 DEF Lines

-----------------------------------------------------------------------------
LEMMA InitFits == Init => TypeOK /\ StepsFit
  <1> SUFFICES ASSUME Init PROVE TypeOK /\ StepsFit
    OBVIOUS
  <1>1. TypeOK
    BY ServerAssumption DEF Init, TypeOK, Inode, PC, Outcome, Unborn
  <1>2. StepsFit
    BY DEF Init, StepsFit, OrderSteps, PaySteps, NoTemp, Unborn, Ended
  <1> QED BY <1>1, <1>2

LEMMA StepFits == TypeOK /\ StepsFit /\ [Next]_vars => TypeOK' /\ StepsFit'
  <1> SUFFICES ASSUME TypeOK, StepsFit, [Next]_vars
               PROVE  TypeOK' /\ StepsFit'
    OBVIOUS
  <1> USE DEF TypeOK, files, locals, PC, Unborn, Ended, OrderSteps, PaySteps, NoTemp,
              Goto, Respond, Die, Outcome
  <1>1. ASSUME NEW p \in Procs, NEW r \in Requests, Fork(p, r)
        PROVE  TypeOK' /\ StepsFit'
    BY <1>1 DEF Fork, StepsFit, Found, Enough
  <1>2. ASSUME NEW p \in Procs, Browse(p)
        PROVE  TypeOK' /\ StepsFit'
    BY <1>2 DEF Browse, StepsFit, Found, Enough
  <1>3. ASSUME NEW p \in Procs, ShortRequest(p) \/ OpenFails(p)
        PROVE  TypeOK' /\ StepsFit'
    <2>1. CASE ShortRequest(p)
      BY <2>1 DEF ShortRequest, StepsFit, Found, Enough
    <2>2. CASE OpenFails(p)
      BY <2>2 DEF OpenFails, StepsFit, Found, Enough
    <2> QED BY <1>3, <2>1, <2>2
  <1>4. ASSUME NEW p \in Procs, OrderNoBook(p)
        PROVE  TypeOK' /\ StepsFit'
    BY <1>4 DEF OrderNoBook, StepsFit, Found, Enough
  <1>5. ASSUME NEW p \in Procs, OrderOpen(p)
        PROVE  TypeOK' /\ StepsFit'
    BY <1>5, ServerAssumption DEF OrderOpen, StepsFit, Found, Enough, Inode
  <1>6. ASSUME NEW p \in Procs, OrderRead(p)
        PROVE  TypeOK' /\ StepsFit'
    BY <1>6 DEF OrderRead, StepsFit, Found, Enough
  <1>7. ASSUME NEW p \in Procs, OrderAppend(p)
        PROVE  TypeOK' /\ StepsFit'
    <2>1. NewLine(p) \in Line /\ createdPtr[p] \in Inode
      BY <1>7, NewLineType DEF OrderAppend, StepsFit
    <2>2. Append(disk[createdPtr[p]], NewLine(p)) \in Seq(Line)
      BY <2>1
    <2> QED BY <1>7, <2>1, <2>2 DEF OrderAppend, StepsFit, Found, Enough
  <1>8. ASSUME NEW p \in Procs, PayOpen(p)
        PROVE  TypeOK' /\ StepsFit'
    <2>1. CASE created = NoFile
      <3>1. TypeOK'
        BY <1>8, <2>1 DEF PayOpen
      <3>2. StepsFit'
        BY <1>8, <2>1 DEF PayOpen, StepsFit, Found, Enough
      <3> QED BY <3>1, <3>2
    <2>2. CASE created # NoFile
      <3>1. created \in Inode
        BY <2>2
      <3>2. /\ createdPtr' = [createdPtr EXCEPT ![p] = created]
            /\ pc' = [pc EXCEPT ![p] = "paying"]
            /\ pc[p] = "parsed" /\ req[p].op = "pay"
            /\ UNCHANGED <<files, req, tempPtr, seen, interrupts, outcome>>
        BY <1>8, <2>2 DEF PayOpen
      <3>3. TypeOK'
        BY <3>1, <3>2
      <3>4. StepsFit'
        BY <3>1, <3>2 DEF StepsFit, Found, Enough
      <3> QED BY <3>3, <3>4
    <2> QED BY <2>1, <2>2
  <1>9. ASSUME NEW p \in Procs, PayOpenTemp(p)
        PROVE  TypeOK' /\ StepsFit'
    <2>1. temp' \in Inode /\ <<>> \in Seq(Line)
      BY <1>9 DEF PayOpenTemp, Inode
    <2> QED BY <1>9, <2>1 DEF PayOpenTemp, StepsFit, Found, Enough
  <1>10. ASSUME NEW p \in Procs, PayScan(p)
         PROVE  TypeOK' /\ StepsFit'
    BY <1>10 DEF PayScan, StepsFit, Found, Enough
  <1>11. ASSUME NEW p \in Procs, PayNoOrders(p)
         PROVE  TypeOK' /\ StepsFit'
    BY <1>11 DEF PayNoOrders, StepsFit, Found, Enough
  <1>12. ASSUME NEW p \in Procs, PayCloseTemp(p)
         PROVE  TypeOK' /\ StepsFit'
    <2>1. tempPtr[p] \in Inode
      BY <1>12 DEF PayCloseTemp, StepsFit
    <2>2. Overlay(Remaining(p), disk[tempPtr[p]]) \in Seq(Line)
      BY <2>1, WithoutType, OverlayType DEF Remaining
    <2> QED BY <1>12, <2>1, <2>2 DEF PayCloseTemp, StepsFit, Found, Enough
  <1>13. ASSUME NEW p \in Procs, PayInvalid(p)
         PROVE  TypeOK' /\ StepsFit'
    BY <1>13 DEF PayInvalid, StepsFit, Found, Enough
  <1>14. ASSUME NEW p \in Procs, PayInsufficient(p)
         PROVE  TypeOK' /\ StepsFit'
    BY <1>14 DEF PayInsufficient, StepsFit, Found, Enough
  <1>15. ASSUME NEW p \in Procs, PayRemove(p)
         PROVE  TypeOK' /\ StepsFit'
    <2>1. TypeOK'
      BY <1>15 DEF PayRemove
    <2>2. StepsFit'
      BY <1>15 DEF PayRemove, StepsFit, Found, Enough
    <2> QED BY <2>1, <2>2
  <1>16. ASSUME NEW p \in Procs, PayRename(p)
         PROVE  TypeOK' /\ StepsFit'
    <2>1. TypeOK'
      BY <1>16 DEF PayRename
    <2>2. StepsFit'
      BY <1>16 DEF PayRename, StepsFit, Found, Enough
    <2> QED BY <2>1, <2>2
  <1>17. ASSUME NEW p \in Procs, PayRecord(p)
         PROVE  TypeOK' /\ StepsFit'
    <2>1. Append(paid, Receipt(p)) \in Seq(Line)
      BY <1>17, ReceiptType DEF PayRecord, StepsFit
    <2> QED BY <1>17, <2>1 DEF PayRecord, StepsFit, Found, Enough
  <1>18. ASSUME NEW p \in Procs, Reply(p)
         PROVE  TypeOK' /\ StepsFit'
    BY <1>18 DEF Reply, StepsFit, Found, Enough
  <1>19. CASE Interrupt
    BY <1>19, ServerAssumption DEF Interrupt, StepsFit, Found, Enough
  <1>20. ASSUME NEW p \in Procs, DisplayCatalog(p)
         PROVE  TypeOK' /\ StepsFit'
    <2>1. CASE Respond(p, "browsed")
      BY <1>20, <2>1 DEF DisplayCatalog, StepsFit, Found, Enough
    <2>2. CASE Die(p)
      BY <1>20, <2>2 DEF DisplayCatalog, StepsFit, Found, Enough
    <2> QED BY <1>20, <2>1, <2>2 DEF DisplayCatalog
  <1>21. ASSUME NEW p \in Procs, PayWithoutTemp(p)
         PROVE  TypeOK' /\ StepsFit'
    <2>1. PICK next \in {"templess", "orderless", "dead"} : pc' = [pc EXCEPT ![p] = next]
      BY <1>21 DEF PayWithoutTemp
    <2>2. /\ pc[p] \in {"paying", "templess"} /\ req[p].op = "pay" /\ createdPtr[p] \in Inode
          /\ UNCHANGED <<files, locals, outcome, interrupts>>
      BY <1>21 DEF PayWithoutTemp, StepsFit
    <2>3. TypeOK'
      BY <2>1, <2>2
    <2>4. StepsFit'
      BY <2>1, <2>2 DEF StepsFit, Found, Enough
    <2> QED BY <2>3, <2>4
  <1>22. CASE UNCHANGED vars
    BY <1>22 DEF vars, StepsFit, Found, Enough
  <1> HIDE DEF TypeOK, files, locals, PC, Unborn, Ended, OrderSteps, PaySteps, NoTemp,
               Goto, Respond, Die, Outcome
  <1> QED
    BY <1>1, <1>2, <1>3, <1>4, <1>5, <1>6, <1>7, <1>8, <1>9, <1>10, <1>11, <1>12,
       <1>13, <1>14, <1>15, <1>16, <1>17, <1>18, <1>19, <1>20, <1>21, <1>22
    DEF Next, Child, OrderBook, PayForBook, ForkFails

\* Every variable of the server and its children keeps its type, and no child
\* gets to a step without what the code's earlier checks and opens gave it:
\* for any catalogue, requests and interleaving.
THEOREM Typing == Spec => []TypeOK
  <1>1. Init => TypeOK /\ StepsFit
    BY InitFits
  <1>2. TypeOK /\ StepsFit /\ [Next]_vars => TypeOK' /\ StepsFit'
    BY StepFits
  <1> QED BY <1>1, <1>2, PTL DEF Spec

\* No child orders a book that is not there, removes the orders without having
\* found the one that is paid, or answers before it is done.
THEOREM Stepping == Spec => []StepsFit
  <1>1. Init => TypeOK /\ StepsFit
    BY InitFits
  <1>2. TypeOK /\ StepsFit /\ [Next]_vars => TypeOK' /\ StepsFit'
    BY StepFits
  <1> QED BY <1>1, <1>2, PTL DEF Spec

-----------------------------------------------------------------------------
(* What has been issued stays issued, for a child that has answered an     *)
(* order keeps what it read.                                               *)

\* A child that has its answer keeps it, and what it has read and opened.
LEMMA AnswersStay ==
  ASSUME TypeOK, StepsFit, [Next]_vars, NEW q \in Procs, outcome[q] # "none"
  PROVE  /\ outcome'[q] = outcome[q] /\ seen'[q] = seen[q]
         /\ req'[q] = req[q] /\ tempPtr'[q] = tempPtr[q]
  <1> DEFINE Stays == /\ outcome'[q] = outcome[q] /\ seen'[q] = seen[q]
                      /\ req'[q] = req[q] /\ tempPtr'[q] = tempPtr[q]
  <1>1. pc[q] \in {"responding", "answered", "dead"}
    BY DEF StepsFit, Ended
  <1> USE <1>1 DEF TypeOK, files, locals, Unborn, Goto, Respond, Die
  <1>2. ASSUME NEW p \in Procs, NEW r \in Requests, Fork(p, r)
        PROVE  Stays
    BY <1>2 DEF Fork
  <1>3. ASSUME NEW p \in Procs, Child(p)
        PROVE  Stays
    <2>1. CASE DisplayCatalog(p) \/ Browse(p) \/ ShortRequest(p) \/ OpenFails(p) \/ Reply(p)
      BY <2>1 DEF DisplayCatalog, Browse, ShortRequest, OpenFails, Reply
    <2>2. CASE OrderBook(p)
      BY <2>2 DEF OrderBook, OrderNoBook, OrderOpen, OrderRead, OrderAppend
    <2>3. CASE PayOpen(p) \/ PayOpenTemp(p) \/ PayScan(p) \/ PayNoOrders(p)
      BY <2>3 DEF PayOpen, PayOpenTemp, PayScan, PayNoOrders
    <2>4. CASE PayCloseTemp(p) \/ PayInvalid(p) \/ PayInsufficient(p) \/ PayWithoutTemp(p)
      BY <2>4 DEF PayCloseTemp, PayInvalid, PayInsufficient, PayWithoutTemp
    <2>5. CASE PayRemove(p) \/ PayRename(p) \/ PayRecord(p)
      BY <2>5 DEF PayRemove, PayRename, PayRecord
    <2> QED BY <1>3, <2>1, <2>2, <2>3, <2>4, <2>5 DEF Child, PayForBook
  <1>4. CASE Interrupt
    BY <1>4 DEF Interrupt
  <1>5. CASE UNCHANGED vars
    BY <1>5 DEF vars
  <1> QED BY <1>2, <1>3, <1>4, <1>5 DEF Next, ForkFails

LEMMA IssuedGrows ==
  TypeOK /\ StepsFit /\ [Next]_vars => Issued \subseteq Issued'
  <1> SUFFICES ASSUME TypeOK, StepsFit, [Next]_vars
               PROVE  Issued \subseteq Issued'
    OBVIOUS
  <1>1. \A q \in Ordered : q \in Ordered' /\ NewLine(q)' = NewLine(q)
    BY AnswersStay DEF Ordered, NewLine
  <1> QED BY <1>1 DEF Issued

-----------------------------------------------------------------------------
(* Who has ordered and who has paid.  Every child is counted once, however *)
(* many there are, so the counts are finite without bounding Procs.        *)

Counted == IsFiniteSet(Ordered) /\ IsFiniteSet(Settled)

\* One child more has ordered, one more has paid, or neither.
LEMMA OutcomeStep ==
  ASSUME TypeOK, StepsFit, [Next]_vars
  PROVE  \/ \E p \in Procs : /\ OrderAppend(p) /\ p \notin Ordered
                             /\ Ordered' = Ordered \cup {p}
                             /\ Settled' = Settled /\ paid' = paid
         \/ \E p \in Procs : /\ PayRecord(p) /\ p \notin Settled
                             /\ Settled' = Settled \cup {p}
                             /\ Ordered' = Ordered
         \/ Ordered' = Ordered /\ Settled' = Settled /\ paid' = paid
  <1> USE DEF TypeOK, files, locals, Unborn, Goto, Respond, Die
  <1> DEFINE Same == Ordered' = Ordered /\ Settled' = Settled /\ paid' = paid
  <1>1. ASSUME NEW p \in Procs, outcome[p] = "none",
               NEW what \in {"none", "browsed", "nobook", "noorders", "invalid", "insufficient"},
               outcome' = [outcome EXCEPT ![p] = what], paid' = paid
        PROVE  Same
    BY <1>1 DEF Ordered, Settled
  <1>2. ASSUME outcome' = outcome, paid' = paid PROVE Same
    BY <1>2 DEF Ordered, Settled
  <1>3. ASSUME NEW p \in Procs, NEW r \in Requests, Fork(p, r) PROVE Same
    BY <1>2, <1>3 DEF Fork
  <1>4. ASSUME NEW p \in Procs, Browse(p) \/ DisplayCatalog(p) \/ OrderNoBook(p) PROVE Same
    <2>1. outcome[p] = "none" /\ paid' = paid
      BY <1>4 DEF Browse, DisplayCatalog, OrderNoBook, StepsFit, Ended
    <2>2. \/ outcome' = outcome
          \/ \E what \in {"browsed", "nobook"} : outcome' = [outcome EXCEPT ![p] = what]
      BY <1>4 DEF Browse, DisplayCatalog, OrderNoBook
    <2> QED BY <1>1, <1>2, <2>1, <2>2
  <1>5. ASSUME NEW p \in Procs, \/ ShortRequest(p) \/ OpenFails(p) \/ Reply(p)
                                \/ OrderOpen(p) \/ OrderRead(p)
        PROVE  Same
    BY <1>2, <1>5 DEF ShortRequest, OpenFails, Reply, OrderOpen, OrderRead
  <1>6. ASSUME NEW p \in Procs,
               PayOpen(p) \/ PayOpenTemp(p) \/ PayWithoutTemp(p) \/ PayScan(p)
        PROVE  Same
    BY <1>2, <1>6 DEF PayOpen, PayOpenTemp, PayWithoutTemp, PayScan
  <1>7. ASSUME NEW p \in Procs, PayNoOrders(p) \/ PayInvalid(p) \/ PayInsufficient(p)
        PROVE  Same
    <2>1. outcome[p] = "none" /\ paid' = paid
      BY <1>7 DEF PayNoOrders, PayInvalid, PayInsufficient, StepsFit, Ended
    <2>2. \E what \in {"noorders", "invalid", "insufficient"} :
             outcome' = [outcome EXCEPT ![p] = what]
      BY <1>7 DEF PayNoOrders, PayInvalid, PayInsufficient
    <2> QED BY <1>1, <2>1, <2>2
  <1>8. ASSUME NEW p \in Procs, PayCloseTemp(p) \/ PayRemove(p) \/ PayRename(p)
        PROVE  Same
    BY <1>2, <1>8 DEF PayCloseTemp, PayRemove, PayRename
  <1>9. ASSUME Interrupt \/ UNCHANGED vars PROVE Same
    BY <1>2, <1>9 DEF Interrupt, vars
  <1>10. ASSUME NEW p \in Procs, OrderAppend(p)
         PROVE  /\ p \notin Ordered /\ Ordered' = Ordered \cup {p}
                /\ Settled' = Settled /\ paid' = paid
    <2>1. outcome[p] = "none" /\ outcome' = [outcome EXCEPT ![p] = "ordered"]
          /\ paid' = paid
      BY <1>10 DEF OrderAppend, StepsFit, Ended
    <2> QED BY <2>1 DEF Ordered, Settled
  <1>11. ASSUME NEW p \in Procs, PayRecord(p)
         PROVE  p \notin Settled /\ Settled' = Settled \cup {p} /\ Ordered' = Ordered
    <2>1. outcome[p] = "none" /\ outcome' = [outcome EXCEPT ![p] = "paid"]
      BY <1>11 DEF PayRecord, StepsFit, Ended
    <2> QED BY <2>1 DEF Ordered, Settled
  <1> HIDE DEF Same, TypeOK, files, locals, Unborn, Goto, Respond, Die
  <1>12. ASSUME NEW p \in Procs, Child(p)
         PROVE  Same \/ OrderAppend(p) \/ PayRecord(p)
    BY <1>4, <1>5, <1>6, <1>7, <1>8, <1>12 DEF Child, OrderBook, PayForBook
  <1>13. \/ Same \/ \E p \in Procs : OrderAppend(p) \/ PayRecord(p)
    BY <1>3, <1>9, <1>12 DEF Next, ForkFails
  <1> QED BY <1>10, <1>11, <1>13 DEF Same

LEMMA CountedAlways == Spec => []Counted
  <1>1. Init => Counted
    <2> SUFFICES ASSUME Init PROVE Counted
      OBVIOUS
    <2>1. Ordered = {} /\ Settled = {}
      BY DEF Init, Ordered, Settled
    <2> QED BY <2>1, FS_EmptySet DEF Counted
  <1>2. TypeOK /\ StepsFit /\ Counted /\ [Next]_vars => Counted'
    <2> SUFFICES ASSUME TypeOK, StepsFit, Counted, [Next]_vars PROVE Counted'
      OBVIOUS
    <2>1. /\ Ordered' = Ordered \/ \E p \in Procs : Ordered' = Ordered \cup {p}
          /\ Settled' = Settled \/ \E p \in Procs : Settled' = Settled \cup {p}
      BY OutcomeStep
    <2>2. IsFiniteSet(Ordered') /\ IsFiniteSet(Settled')
      BY <2>1, FS_AddElement DEF Counted
    <2> QED BY <2>2 DEF Counted
  <1> QED BY <1>1, <1>2, Typing, Stepping, PTL DEF Spec

\* A child whose order went through has added a line.
OrderedLines == \A p \in Ordered : NewLine(p) \in Line

LEMMA OrderedLinesAlways == Spec => []OrderedLines
  <1>1. Init => OrderedLines
    BY DEF Init, OrderedLines, Ordered
  <1>2. TypeOK /\ StepsFit /\ OrderedLines /\ [Next]_vars => OrderedLines'
    <2> SUFFICES ASSUME TypeOK, StepsFit, OrderedLines, [Next]_vars, NEW q \in Ordered'
                 PROVE  NewLine(q)' \in Line
      BY DEF OrderedLines
    <2>1. CASE q \in Ordered
      BY <2>1, AnswersStay DEF Ordered, OrderedLines, NewLine
    <2>2. CASE q \notin Ordered
      <3>1. q \in Procs /\ OrderAppend(q)
        BY <2>2, OutcomeStep
      <3>2. NewLine(q) \in Line
        BY <3>1, NewLineType DEF OrderAppend, StepsFit, OrderSteps, TypeOK, Unborn
      <3> QED BY <3>1, <3>2 DEF OrderAppend, locals, NewLine
    <2> QED BY <2>1, <2>2
  <1> QED BY <1>1, <1>2, Typing, Stepping, PTL DEF Spec

-----------------------------------------------------------------------------
(* Receipts.  A payment that went through has found its order, and still   *)
(* has what it read.                                                       *)

SettledFound == \A p \in Settled : Found(p)
ReceiptsCounted ==
  \A l \in Line : Copies(paid, l) = Cardinality({p \in Settled : Receipt(p) = l})

LEMMA ReceiptsStep ==
  TypeOK /\ StepsFit /\ Counted /\ SettledFound /\ ReceiptsCounted /\ [Next]_vars
    => SettledFound' /\ ReceiptsCounted'
  <1> SUFFICES ASSUME TypeOK, StepsFit, Counted, SettledFound, ReceiptsCounted, [Next]_vars
               PROVE  SettledFound' /\ ReceiptsCounted'
    OBVIOUS
  <1>1. \A q \in Settled : Found(q)' /\ Receipt(q)' = Receipt(q)
    BY AnswersStay DEF Settled, SettledFound, Found, Receipt
  <1>2. CASE Settled' = Settled /\ paid' = paid
    <2>1. \A l \in Line : {p \in Settled : Receipt(p) = l}'
                            = {p \in Settled : Receipt(p) = l}
      BY <1>1, <1>2
    <2>2. ReceiptsCounted'
      BY <1>2, <2>1 DEF ReceiptsCounted
    <2> QED BY <1>1, <1>2, <2>2 DEF SettledFound
  <1>3. ASSUME NEW p \in Procs, PayRecord(p), p \notin Settled,
               Settled' = Settled \cup {p}
        PROVE  SettledFound' /\ ReceiptsCounted'
    <2>1. Found(p) /\ Found(p)' /\ Receipt(p)' = Receipt(p)
      BY <1>3 DEF PayRecord, StepsFit, locals, Found, Receipt
    <2>2. Receipt(p) \in Line /\ paid \in Seq(Line) /\ paid' = Append(paid, Receipt(p))
      BY <1>3, <2>1, ReceiptType DEF PayRecord, TypeOK
    <2>3. ASSUME NEW l \in Line
          PROVE  Copies(paid', l) = Cardinality({q \in Settled : Receipt(q) = l}')
      <3> DEFINE S == {q \in Settled : Receipt(q) = l}
      <3>1. IsFiniteSet(S) /\ p \notin S
        BY <1>3, FS_Subset DEF Counted
      <3>2. S' = IF l = Receipt(p) THEN S \cup {p} ELSE S
        BY <1>1, <1>3, <2>1
      <3>3. Copies(paid, l) = Cardinality(S) /\ Copies(paid, l) \in Nat
        BY PositionsFinite DEF ReceiptsCounted, TypeOK
      <3>4. Copies(paid', l) = Copies(paid, l) + (IF l = Receipt(p) THEN 1 ELSE 0)
        BY <2>2, AppendCopies
      <3> HIDE DEF S
      <3>5. Cardinality(S \cup {p}) = Cardinality(S) + 1
        BY <3>1, FS_AddElement
      <3>6. Cardinality(S') = Cardinality(S) + (IF l = Receipt(p) THEN 1 ELSE 0)
        BY <3>2, <3>3, <3>5
      <3> QED BY <3>3, <3>4, <3>6 DEF S
    <2>4. ReceiptsCounted'
      BY <2>3 DEF ReceiptsCounted
    <2> QED BY <1>1, <1>3, <2>1, <2>4 DEF SettledFound
  <1> QED BY <1>2, <1>3, OutcomeStep

\* paid_orders.txt has exactly one line for each accepted payment, that of the
\* order it settled: for any number of payments that overlap, in any
\* interleaving, and however often the server is stopped.
THEOREM ReceiptForEachPayment == Spec => []ReceiptsMatchPayments
  <1>1. Init => SettledFound /\ ReceiptsCounted
    <2> SUFFICES ASSUME Init PROVE SettledFound /\ ReceiptsCounted
      OBVIOUS
    <2>1. Settled = {} /\ paid = <<>>
      BY DEF Init, Settled
    <2>2. \A l \in Line : {p \in Settled : Receipt(p) = l} = {}
      BY <2>1
    <2> QED BY <2>1, <2>2, CopiesOfNone, FS_EmptySet DEF SettledFound, ReceiptsCounted
  <1>2. TypeOK /\ SettledFound /\ ReceiptsCounted => ReceiptsMatchPayments
    <2> SUFFICES ASSUME TypeOK, SettledFound, ReceiptsCounted
                 PROVE  ReceiptsMatchPayments
      OBVIOUS
    <2>1. \A p \in Settled : Receipt(p) \in Line
      BY ReceiptType DEF TypeOK, SettledFound, Settled
    <2>2. Lines(paid) \subseteq Line
      BY DEF Lines, TypeOK
    <2> QED BY <2>1, <2>2 DEF ReceiptsMatchPayments, ReceiptsCounted
  <1> QED BY <1>1, <1>2, ReceiptsStep, Typing, Stepping, CountedAlways, PTL DEF Spec

-----------------------------------------------------------------------------
(* Inodes.  A child that has not created a file yet has an empty inode that *)
(* no name and no stream refers to; and what is named temp.txt has never   *)
(* been named created_orders.txt, so nobody reads it or appends to it.     *)

Used(i) == i = Orig \/ pc[i] \notin {Unborn, "parsed", "paying"}
Refers(i) == \/ i = created \/ i = temp
             \/ \E p \in Procs : i = createdPtr[p] \/ i = tempPtr[p]
FreshFiles ==
  \A i \in Inode : /\ ~Used(i) => disk[i] = <<>>
                   /\ Refers(i) => Used(i)
TempApart == temp # NoFile => temp # created /\ \A p \in Procs : createdPtr[p] # temp

LEMMA UsedStays ==
  ASSUME TypeOK, [Next]_vars, NEW i \in Inode, Used(i)
  PROVE  Used(i)'
  <1> USE DEF TypeOK, Inode, Used, Unborn, Goto, Respond, Die
  <1>1. ASSUME NEW p \in Procs, NEW next \in PC \ {Unborn, "parsed", "paying"}, Goto(p, next)
        PROVE  Used(i)'
    BY <1>1
  <1>2. ASSUME NEW p \in Procs, pc[p] = Unborn \/ pc[p] = "parsed", NEW next, Goto(p, next)
        PROVE  Used(i)'
    BY <1>2, ServerAssumption
  <1>3. ASSUME NEW p \in Procs, NEW r \in Requests, Fork(p, r) PROVE Used(i)'
    BY <1>2, <1>3 DEF Fork
  <1>4. ASSUME NEW p \in Procs, OrderBook(p) PROVE Used(i)'
    BY <1>1, <1>4 DEF OrderBook, OrderNoBook, OrderOpen, OrderRead, OrderAppend,
                      PC, OrderSteps, PaySteps, NoTemp, Ended
  <1>5. ASSUME NEW p \in Procs, PayForBook(p) PROVE Used(i)'
    <2>1. CASE PayOpen(p)
      BY <1>2, <2>1 DEF PayOpen
    <2>2. CASE PayOpenTemp(p) \/ PayScan(p) \/ PayNoOrders(p) \/ PayCloseTemp(p)
      BY <1>1, <2>2 DEF PayOpenTemp, PayScan, PayNoOrders, PayCloseTemp,
                        PC, OrderSteps, PaySteps, NoTemp, Ended
    <2>3. CASE PayInvalid(p) \/ PayInsufficient(p) \/ PayWithoutTemp(p) \/ PayRecord(p)
      BY <1>1, <2>3 DEF PayInvalid, PayInsufficient, PayWithoutTemp, PayRecord,
                        PC, OrderSteps, PaySteps, NoTemp, Ended
    <2>4. CASE PayRemove(p) \/ PayRename(p)
      BY <1>1, <2>4 DEF PayRemove, PayRename, PC, OrderSteps, PaySteps, NoTemp, Ended
    <2> QED BY <1>5, <2>1, <2>2, <2>3, <2>4 DEF PayForBook
  <1>6. ASSUME NEW p \in Procs,
               DisplayCatalog(p) \/ Browse(p) \/ ShortRequest(p) \/ OpenFails(p) \/ Reply(p)
        PROVE  Used(i)'
    BY <1>1, <1>6 DEF DisplayCatalog, Browse, ShortRequest, OpenFails, Reply,
                      PC, OrderSteps, PaySteps, NoTemp, Ended
  <1>7. ASSUME Interrupt \/ UNCHANGED vars PROVE Used(i)'
    BY <1>7, ServerAssumption DEF Interrupt, vars, Ended
  <1> HIDE DEF TypeOK, Used, Unborn, Inode
  <1> QED BY <1>3, <1>4, <1>5, <1>6, <1>7 DEF Next, Child, ForkFails

LEMMA FreshStep ==
  TypeOK /\ StepsFit /\ FreshFiles /\ TempApart /\ [Next]_vars
    => FreshFiles' /\ TempApart'
  <1> SUFFICES ASSUME TypeOK, StepsFit, FreshFiles, TempApart, [Next]_vars
               PROVE  FreshFiles' /\ TempApart'
    OBVIOUS
  <1>0. \A i \in Inode : Used(i) => Used(i)'
    BY UsedStays
  <1> USE DEF TypeOK, files, locals
  \* Steps that change no content and open nothing.
  <1>1. ASSUME UNCHANGED <<disk, createdPtr, tempPtr>>,
               created' \in {created, NoFile}, temp' \in {temp, NoFile}
        PROVE  FreshFiles' /\ TempApart'
    <2>1. \A i \in Inode : Refers(i)' => Refers(i)
      BY <1>1, ServerAssumption DEF Refers, Inode
    <2>2. FreshFiles'
      BY <1>0, <1>1, <2>1 DEF FreshFiles
    <2> QED BY <1>1, <2>2 DEF TempApart
  \* Steps that write to an inode that something refers to.
  <1>2. ASSUME NEW i \in Inode, Refers(i), NEW s, disk' = [disk EXCEPT ![i] = s],
               UNCHANGED <<created, temp, createdPtr, tempPtr>>
        PROVE  FreshFiles' /\ TempApart'
    <2>1. \A j \in Inode : ~Used(j)' => j # i /\ disk'[j] = disk[j]
      BY <1>0, <1>2 DEF FreshFiles
    <2>2. \A j \in Inode : Refers(j)' => Refers(j)
      BY <1>2 DEF Refers
    <2>3. FreshFiles'
      BY <1>0, <2>1, <2>2 DEF FreshFiles
    <2> QED BY <1>2, <2>3 DEF TempApart
  <1>3. ASSUME NEW p \in Procs, NEW r \in Requests, Fork(p, r)
        PROVE  FreshFiles' /\ TempApart'
    BY <1>1, <1>3 DEF Fork
  <1>4. ASSUME NEW p \in Procs,
               DisplayCatalog(p) \/ Browse(p) \/ ShortRequest(p) \/ OpenFails(p) \/ Reply(p)
        PROVE  FreshFiles' /\ TempApart'
    BY <1>1, <1>4 DEF DisplayCatalog, Browse, ShortRequest, OpenFails, Reply
  <1>5. ASSUME NEW p \in Procs, OrderNoBook(p) \/ OrderRead(p) \/ PayScan(p)
                                \/ PayNoOrders(p) \/ PayInvalid(p)
        PROVE  FreshFiles' /\ TempApart'
    BY <1>1, <1>5 DEF OrderNoBook, OrderRead, PayScan, PayNoOrders, PayInvalid
  <1>6. ASSUME NEW p \in Procs, PayInsufficient(p) \/ PayWithoutTemp(p)
                                \/ PayRemove(p) \/ PayRecord(p)
        PROVE  FreshFiles' /\ TempApart'
    BY <1>1, <1>6 DEF PayInsufficient, PayWithoutTemp, PayRemove, PayRecord
  <1>7. ASSUME NEW p \in Procs, OrderAppend(p)
        PROVE  FreshFiles' /\ TempApart'
    <2>1. createdPtr[p] \in Inode
      BY <1>7 DEF OrderAppend, StepsFit, OrderSteps
    <2>2. Refers(createdPtr[p])
      BY DEF Refers
    <2> QED BY <1>2, <1>7, <2>1, <2>2 DEF OrderAppend
  <1>8. ASSUME NEW p \in Procs, PayCloseTemp(p)
        PROVE  FreshFiles' /\ TempApart'
    <2>1. tempPtr[p] \in Inode
      BY <1>8 DEF PayCloseTemp, StepsFit, PaySteps, NoTemp
    <2>2. Refers(tempPtr[p])
      BY DEF Refers
    <2> QED BY <1>2, <1>8, <2>1, <2>2 DEF PayCloseTemp
  \* Steps that open.
  <1>9. ASSUME NEW p \in Procs, OrderOpen(p)
        PROVE  FreshFiles' /\ TempApart'
    <2>1. /\ created' = IF created = NoFile THEN p ELSE created
          /\ createdPtr' = [createdPtr EXCEPT ![p] = created']
          /\ UNCHANGED <<disk, temp, tempPtr>>
          /\ pc[p] = "parsed" /\ pc'[p] = "ordering" /\ p \in Inode
      BY <1>9 DEF OrderOpen, Goto, Inode
    <2>2. ~Used(p) /\ Used(p)'
      BY <2>1, ServerAssumption DEF Used, Unborn
    <2>3. \A i \in Inode : Refers(i)' => Refers(i) \/ i = p
      BY <2>1 DEF Refers
    <2>4. FreshFiles'
      BY <1>0, <2>1, <2>2, <2>3 DEF FreshFiles
    <2>5. temp # NoFile => temp # p
      BY <2>1, <2>2 DEF FreshFiles, Refers
    <2>6. TempApart'
      BY <2>1, <2>5 DEF TempApart
    <2> QED BY <2>4, <2>6
  <1>10. ASSUME NEW p \in Procs, PayOpen(p)
         PROVE  FreshFiles' /\ TempApart'
    <2>1. /\ createdPtr' = createdPtr \/ createdPtr' = [createdPtr EXCEPT ![p] = created]
          /\ UNCHANGED <<disk, created, temp, tempPtr>>
      BY <1>10 DEF PayOpen
    <2>2. \A i \in Inode : Refers(i)' => Refers(i)
      BY <2>1 DEF Refers
    <2>3. FreshFiles'
      BY <1>0, <2>1, <2>2 DEF FreshFiles
    <2> QED BY <2>1, <2>3 DEF TempApart
  <1>11. ASSUME NEW p \in Procs, PayOpenTemp(p)
         PROVE  FreshFiles' /\ TempApart'
    <2>1. /\ temp' = IF temp = NoFile THEN p ELSE temp
          /\ tempPtr' = [tempPtr EXCEPT ![p] = temp']
          /\ disk' = [disk EXCEPT ![temp'] = <<>>]
          /\ UNCHANGED <<created, createdPtr>>
          /\ pc[p] = "paying" /\ pc'[p] = "scanning" /\ p \in Inode
      BY <1>11 DEF PayOpenTemp, Goto, Inode
    <2>2. ~Used(p) /\ Used(p)'
      BY <2>1, ServerAssumption DEF Used, Unborn
    <2>3. \A i \in Inode : Refers(i)' => Refers(i) \/ i = p
      BY <2>1 DEF Refers
    <2>4. \A i \in Inode : ~Used(i)' => disk'[i] = <<>>
      BY <1>0, <2>1 DEF FreshFiles
    <2>5. FreshFiles'
      BY <1>0, <2>2, <2>3, <2>4 DEF FreshFiles
    <2>6. p # created /\ \A q \in Procs : createdPtr[q] # p
      BY <2>1, <2>2 DEF FreshFiles, Refers
    <2>7. TempApart'
      BY <2>1, <2>6 DEF TempApart
    <2> QED BY <2>5, <2>7
  <1>12. ASSUME NEW p \in Procs, PayRename(p)
         PROVE  FreshFiles' /\ TempApart'
    <2>1. CASE temp = NoFile
      BY <1>1, <1>12, <2>1 DEF PayRename
    <2>2. CASE temp # NoFile
      <3>1. created' = temp /\ temp' = NoFile /\ UNCHANGED <<disk, createdPtr, tempPtr>>
        BY <1>12, <2>2 DEF PayRename
      <3>2. \A i \in Inode : Refers(i)' => Refers(i)
        BY <3>1, ServerAssumption DEF Refers, Inode
      <3>3. FreshFiles'
        BY <1>0, <3>1, <3>2 DEF FreshFiles
      <3> QED BY <3>1, <3>3 DEF TempApart
    <2> QED BY <2>1, <2>2
  <1>13. ASSUME Interrupt \/ UNCHANGED vars PROVE FreshFiles' /\ TempApart'
    BY <1>1, <1>13 DEF Interrupt, vars
  <1> HIDE DEF TypeOK, files, locals
  <1> QED BY <1>3, <1>4, <1>5, <1>6, <1>7, <1>8, <1>9, <1>10, <1>11, <1>12, <1>13
          DEF Next, Child, OrderBook, PayForBook, ForkFails

\* However payments share temp.txt, no stream that reads or appends to
\* created_orders.txt ever stands on the file of that name, and a file that a
\* child is yet to create is empty.
THEOREM FilesApart == Spec => [](FreshFiles /\ TempApart)
  <1>1. Init => FreshFiles /\ TempApart
    BY ServerAssumption DEF Init, FreshFiles, TempApart, Used, Refers, Inode
  <1> QED BY <1>1, FreshStep, Typing, Stepping, PTL DEF Spec

\* To open the files does not change what created_orders.txt holds: a file
\* that is created is empty, and temp.txt is another file.
LEMMA OrderOpenKeeps ==
  ASSUME TypeOK, FreshFiles, NEW p \in Procs, OrderOpen(p)
  PROVE  /\ OpenLines' = OpenLines /\ created' # NoFile
         /\ \A q \in Procs : tempPtr[q] # NoFile /\ tempPtr[q] # created
                               => tempPtr[q] # created'
  <1>1. /\ created' = IF created = NoFile THEN p ELSE created
        /\ disk' = disk /\ pc[p] = "parsed" /\ p \in Inode
    BY DEF OrderOpen, Inode
  <1>2. ~Used(p)
    BY <1>1, ServerAssumption DEF Used
  <1>3. disk[p] = <<>> /\ \A q \in Procs : tempPtr[q] # p
    BY <1>1, <1>2 DEF FreshFiles, Refers
  <1> QED BY <1>1, <1>3, ServerAssumption DEF OpenLines, Inode

LEMMA PayOpenTempKeeps ==
  ASSUME TypeOK, FreshFiles, TempApart, NEW p \in Procs, PayOpenTemp(p)
  PROVE  temp' \in Inode /\ temp' # created /\ OpenLines' = OpenLines
  <1>1. /\ temp' = IF temp = NoFile THEN p ELSE temp
        /\ disk' = [disk EXCEPT ![temp'] = <<>>]
        /\ UNCHANGED created /\ pc[p] = "paying" /\ p \in Inode
    BY DEF PayOpenTemp, Inode
  <1>2. created # p
    <2>1. ~Used(p)
      BY <1>1, ServerAssumption DEF Used
    <2> QED BY <1>1, <2>1 DEF FreshFiles, Refers
  <1>3. temp' # created /\ temp' \in Inode
    BY <1>1, <1>2 DEF TempApart, TypeOK
  <1> QED BY <1>1, <1>3 DEF OpenLines, TypeOK

-----------------------------------------------------------------------------
(* How often a line was issued.                                            *)

LEMMA IssuedCopiesType ==
  ASSUME Counted, NEW l
  PROVE  IssuedCopies(l) \in Nat
  <1>1. Copies(Shipped, l) \in Nat
    BY ServerAssumption, PositionsFinite
  <1>2. IsFiniteSet({p \in Ordered : NewLine(p) = l})
    BY FS_Subset DEF Counted
  <1> QED BY <1>1, <1>2, FS_CardinalityType DEF IssuedCopies

\* An order that goes through issues its line once more, ...
LEMMA OrderIssues ==
  ASSUME TypeOK, StepsFit, Counted, [Next]_vars,
         NEW p \in Procs, OrderAppend(p), p \notin Ordered,
         Ordered' = Ordered \cup {p}, NEW l
  PROVE  IssuedCopies(l)' = IssuedCopies(l) + (IF l = NewLine(p) THEN 1 ELSE 0)
  <1> DEFINE S == {q \in Ordered : NewLine(q) = l}
  <1>1. IsFiniteSet(S) /\ p \notin S /\ Cardinality(S) \in Nat
    BY FS_Subset, FS_CardinalityType DEF Counted
  <1>2. \A q \in Ordered : NewLine(q)' = NewLine(q)
    BY AnswersStay DEF Ordered, NewLine
  <1>3. NewLine(p)' = NewLine(p)
    BY DEF OrderAppend, locals, NewLine
  <1>4. S' = IF l = NewLine(p) THEN S \cup {p} ELSE S
    BY <1>2, <1>3
  <1>5. Cardinality(S \cup {p}) = Cardinality(S) + 1
    <2> HIDE DEF S
    <2> QED BY <1>1, FS_AddElement
  <1>6. Cardinality(S') = Cardinality(S) + (IF l = NewLine(p) THEN 1 ELSE 0)
    <2> HIDE DEF S
    <2> QED BY <1>1, <1>4, <1>5
  <1>7. Copies(Shipped, l) \in Nat
    BY ServerAssumption, PositionsFinite
  <1>8. /\ IssuedCopies(l) = Copies(Shipped, l) + Cardinality(S)
        /\ IssuedCopies(l)' = Copies(Shipped, l) + Cardinality(S')
    BY DEF IssuedCopies
  <1> HIDE DEF S
  <1> QED BY <1>1, <1>6, <1>7, <1>8

\* ... and no other step issues anything.
LEMMA OthersIssueNothing ==
  ASSUME TypeOK, StepsFit, [Next]_vars, Ordered' = Ordered, NEW l
  PROVE  IssuedCopies(l)' = IssuedCopies(l)
  <1>1. \A q \in Ordered : NewLine(q)' = NewLine(q)
    BY AnswersStay DEF Ordered, NewLine
  <1>2. {q \in Ordered : NewLine(q) = l}' = {q \in Ordered : NewLine(q) = l}
    BY <1>1
  <1> QED BY <1>2 DEF IssuedCopies

-----------------------------------------------------------------------------
(* Payments that share no temp.txt.  Whoever opens the name finds it free, *)
(* so at most one payment at a time has it, and writes it from empty.      *)

Early == {Unborn, "parsed"} \cup NoTemp
Writing == {"scanning", "scanned"}
HasTemp == Writing \cup {"flushed", "removed"}

TempOwned ==
  /\ \A p \in Procs : pc[p] \in Early => tempPtr[p] = NoFile
  /\ temp # NoFile => \E p \in Procs : tempPtr[p] = temp
  /\ TempsUnshared =>
       /\ \A p \in Procs : pc[p] \in HasTemp => tempPtr[p] = temp
       /\ \A p \in Procs : pc[p] \in Writing => disk[tempPtr[p]] = <<>>

\* A child opens temp.txt once.
LEMMA PointerStays ==
  ASSUME TypeOK, StepsFit, TempOwned, [Next]_vars
  PROVE  /\ \A q \in Procs : tempPtr[q] # NoFile => tempPtr'[q] = tempPtr[q]
         /\ TempsUnshared' => TempsUnshared
  <1>1. ASSUME NEW q \in Procs, tempPtr[q] # NoFile PROVE tempPtr'[q] = tempPtr[q]
    <2> USE <1>1 DEF TypeOK, files, locals
    <2>1. ASSUME NEW p \in Procs, NEW r \in Requests, Fork(p, r)
          PROVE  tempPtr'[q] = tempPtr[q]
      BY <2>1 DEF Fork
    <2>2. ASSUME NEW p \in Procs,
                 DisplayCatalog(p) \/ Browse(p) \/ ShortRequest(p) \/ OpenFails(p) \/ Reply(p)
          PROVE  tempPtr'[q] = tempPtr[q]
      BY <2>2 DEF DisplayCatalog, Browse, ShortRequest, OpenFails, Reply
    <2>3. ASSUME NEW p \in Procs, OrderBook(p) PROVE tempPtr'[q] = tempPtr[q]
      BY <2>3 DEF OrderBook, OrderNoBook, OrderOpen, OrderRead, OrderAppend
    <2>4. ASSUME NEW p \in Procs, PayForBook(p) PROVE tempPtr'[q] = tempPtr[q]
      <3>1. CASE PayOpenTemp(p)
        BY <3>1 DEF PayOpenTemp, TempOwned, Early, NoTemp
      <3>2. CASE PayOpen(p) \/ PayScan(p) \/ PayNoOrders(p) \/ PayCloseTemp(p)
        BY <3>2 DEF PayOpen, PayScan, PayNoOrders, PayCloseTemp
      <3>3. CASE PayInvalid(p) \/ PayInsufficient(p) \/ PayWithoutTemp(p) \/ PayRemove(p)
        BY <3>3 DEF PayInvalid, PayInsufficient, PayWithoutTemp, PayRemove
      <3>4. CASE PayRename(p) \/ PayRecord(p)
        BY <3>4 DEF PayRename, PayRecord
      <3> QED BY <2>4, <3>1, <3>2, <3>3, <3>4 DEF PayForBook
    <2>5. ASSUME Interrupt \/ UNCHANGED vars PROVE tempPtr'[q] = tempPtr[q]
      BY <2>5 DEF Interrupt, vars
    <2> HIDE DEF TypeOK, files, locals
    <2> QED BY <2>1, <2>2, <2>3, <2>4, <2>5 DEF Next, Child, ForkFails
  <1>2. ASSUME TempsUnshared' PROVE TempsUnshared
    <2>1. ASSUME NEW q \in Procs, outcome[q] = "noorders" PROVE tempPtr[q] # NoFile
      BY <1>2, <2>1, AnswersStay DEF TempsUnshared
    <2> QED BY <1>1, <1>2, <2>1 DEF TempsUnshared
  <1> QED BY <1>1, <1>2

LEMMA TempOwnedStep ==
  TypeOK /\ StepsFit /\ TempApart /\ TempOwned /\ [Next]_vars => TempOwned'
  <1> SUFFICES ASSUME TypeOK, StepsFit, TempApart, TempOwned, [Next]_vars
               PROVE  TempOwned'
    OBVIOUS
  <1>0. TempsUnshared' => TempsUnshared
    BY PointerStays
  <1> USE DEF TypeOK, files, locals, Goto, Respond, Die
  \* Steps that leave the name temp.txt alone.
  <1>1. ASSUME UNCHANGED <<temp, tempPtr>>,
               \A q \in Procs : /\ pc'[q] \in Early => pc[q] \in Early
                                /\ pc'[q] \in HasTemp => pc[q] \in HasTemp
                                /\ pc'[q] \in Writing =>
                                     /\ pc[q] \in Writing
                                     /\ TempsUnshared => disk'[tempPtr[q]] = disk[tempPtr[q]]
        PROVE  TempOwned'
    BY <1>0, <1>1 DEF TempOwned
  \* Steps of a payment that gives the name up.
  <1>2. ASSUME NEW p \in Procs, pc[p] \in HasTemp, NEW next, next \notin Early \cup HasTemp,
               pc' = [pc EXCEPT ![p] = next], temp' = NoFile, UNCHANGED <<disk, tempPtr>>
        PROVE  TempOwned'
    <2>1. ASSUME TempsUnshared, NEW q \in Procs, pc'[q] \in HasTemp PROVE FALSE
      <3>1. q # p /\ pc[q] \in HasTemp
        BY <1>2, <2>1
      <3>2. tempPtr[q] = tempPtr[p] /\ tempPtr[p] # NoFile
        BY <1>2, <2>1, <3>1, ServerAssumption
        DEF TempOwned, StepsFit, PaySteps, NoTemp, OrderSteps, HasTemp, Writing, Inode
      <3> QED BY <2>1, <3>1, <3>2 DEF TempsUnshared
    <2>2. \A q \in Procs : pc'[q] \in Early => pc[q] \in Early
      BY <1>2
    <2> QED BY <1>0, <1>2, <2>1, <2>2 DEF TempOwned, HasTemp
  <1>3. ASSUME NEW p \in Procs, NEW r \in Requests, Fork(p, r) PROVE TempOwned'
    BY <1>1, <1>3 DEF Fork, Early, NoTemp, HasTemp, Writing
  <1>4. ASSUME NEW p \in Procs,
               DisplayCatalog(p) \/ Browse(p) \/ ShortRequest(p) \/ OpenFails(p) \/ Reply(p)
        PROVE  TempOwned'
    BY <1>1, <1>4 DEF DisplayCatalog, Browse, ShortRequest, OpenFails, Reply,
                      Early, NoTemp, HasTemp, Writing, Unborn
  <1>5. ASSUME NEW p \in Procs, OrderNoBook(p) \/ OrderOpen(p) \/ OrderRead(p)
        PROVE  TempOwned'
    BY <1>1, <1>5 DEF OrderNoBook, OrderOpen, OrderRead, Early, NoTemp, HasTemp, Writing, Unborn
  <1>6. ASSUME NEW p \in Procs, OrderAppend(p) PROVE TempOwned'
    <2>1. /\ UNCHANGED <<temp, tempPtr>> /\ pc' = [pc EXCEPT ![p] = "responding"]
          /\ disk' = [disk EXCEPT ![createdPtr[p]] = Append(@, NewLine(p))]
      BY <1>6 DEF OrderAppend
    <2>2. ASSUME NEW q \in Procs, pc[q] \in Writing, TempsUnshared
          PROVE  disk'[tempPtr[q]] = disk[tempPtr[q]]
      <3>1. tempPtr[q] = temp /\ tempPtr[q] \in Inode
        BY <2>2 DEF TempOwned, StepsFit, PaySteps, NoTemp, OrderSteps, HasTemp, Writing
      <3>2. createdPtr[p] # tempPtr[q]
        BY <3>1, ServerAssumption DEF TempApart, Inode
      <3> QED BY <2>1, <3>1, <3>2
    <2> QED BY <1>1, <2>1, <2>2 DEF Early, NoTemp, HasTemp, Writing, Unborn
  <1>7. ASSUME NEW p \in Procs, PayOpen(p) PROVE TempOwned'
    BY <1>1, <1>7 DEF PayOpen, Early, NoTemp, HasTemp, Writing, Unborn
  <1>8. ASSUME NEW p \in Procs, \/ PayScan(p) \/ PayInsufficient(p) \/ PayWithoutTemp(p)
                                \/ PayRemove(p) \/ PayRecord(p)
        PROVE  TempOwned'
    BY <1>1, <1>8 DEF PayScan, PayInsufficient, PayWithoutTemp, PayRemove, PayRecord,
                      Early, NoTemp, HasTemp, Writing, Unborn
  <1>9. ASSUME NEW p \in Procs, PayCloseTemp(p) PROVE TempOwned'
    <2>1. /\ UNCHANGED <<temp, tempPtr>> /\ pc' = [pc EXCEPT ![p] = "flushed"]
          /\ pc[p] = "scanned" /\ tempPtr[p] \in Inode
          /\ disk' = [disk EXCEPT ![tempPtr[p]] = Overlay(Remaining(p), @)]
      BY <1>9 DEF PayCloseTemp, StepsFit, PaySteps, NoTemp, OrderSteps
    <2>2. ASSUME NEW q \in Procs, q # p, pc[q] \in Writing, TempsUnshared
          PROVE  disk'[tempPtr[q]] = disk[tempPtr[q]]
      <3>1. tempPtr[q] \in Inode
        BY <2>2 DEF StepsFit, PaySteps, NoTemp, OrderSteps, Writing
      <3>2. tempPtr[p] # tempPtr[q]
        BY <2>1, <2>2, ServerAssumption DEF TempsUnshared, Inode
      <3> QED BY <2>1, <3>1, <3>2
    <2>3. \A q \in Procs : /\ pc'[q] \in Early => pc[q] \in Early
                           /\ pc'[q] \in HasTemp => pc[q] \in HasTemp
                           /\ pc'[q] \in Writing => q # p /\ pc[q] \in Writing
      BY <2>1 DEF Early, NoTemp, HasTemp, Writing, Unborn
    <2> QED BY <1>1, <2>1, <2>2, <2>3
  <1>10. ASSUME NEW p \in Procs, PayNoOrders(p) \/ PayInvalid(p) PROVE TempOwned'
    <2>1. CASE pc[p] = "orderless"
      <3>1. /\ tempPtr' = tempPtr /\ temp' = NoFile
            /\ pc' = [pc EXCEPT ![p] = "responding"] /\ outcome'[p] = "noorders"
        BY <1>10, <2>1 DEF PayNoOrders, PayInvalid
      <3>2. tempPtr'[p] = NoFile
        BY <2>1, <3>1 DEF TempOwned, Early, NoTemp
      <3>3. ~TempsUnshared'
        BY <3>1, <3>2 DEF TempsUnshared
      <3>4. \A q \in Procs : pc'[q] \in Early => pc[q] \in Early
        BY <3>1 DEF Early, NoTemp, Unborn
      <3> QED BY <3>1, <3>3, <3>4 DEF TempOwned
    <2>2. CASE pc[p] # "orderless"
      BY <1>2, <1>10, <2>2
      DEF PayNoOrders, PayInvalid, Early, NoTemp, HasTemp, Writing, Unborn
    <2> QED BY <2>1, <2>2
  <1>11. ASSUME NEW p \in Procs, PayRename(p) PROVE TempOwned'
    <2>1. CASE temp = NoFile
      BY <1>2, <1>11, <2>1 DEF PayRename, Early, NoTemp, HasTemp, Writing, Unborn
    <2>2. CASE temp # NoFile
      BY <1>2, <1>11, <2>2 DEF PayRename, Early, NoTemp, HasTemp, Writing, Unborn
    <2> QED BY <2>1, <2>2
  <1>12. ASSUME NEW p \in Procs, PayOpenTemp(p) PROVE TempOwned'
    <2>1. /\ temp' = IF temp = NoFile THEN p ELSE temp
          /\ tempPtr' = [tempPtr EXCEPT ![p] = temp']
          /\ disk' = [disk EXCEPT ![temp'] = <<>>]
          /\ pc[p] = "paying" /\ pc' = [pc EXCEPT ![p] = "scanning"] /\ p \in Inode
      BY <1>12 DEF PayOpenTemp, Inode
    <2>2. tempPtr[p] = NoFile /\ tempPtr'[p] = temp' /\ temp' # NoFile /\ temp' \in Inode
      BY <2>1, ServerAssumption DEF TempOwned, Early, NoTemp, Inode
    <2>3. TempsUnshared' => temp = NoFile
      <3> SUFFICES ASSUME TempsUnshared', temp # NoFile PROVE FALSE
        OBVIOUS
      <3>1. PICK q \in Procs : tempPtr[q] = temp
        BY DEF TempOwned
      <3>2. q # p /\ tempPtr'[q] = tempPtr'[p] /\ tempPtr'[p] # NoFile
        BY <2>1, <2>2, <3>1
      <3> QED BY <3>2 DEF TempsUnshared
    <2>4. ASSUME TempsUnshared', NEW q \in Procs, q # p PROVE pc'[q] \notin HasTemp
      <3>1. pc'[q] = pc[q]
        BY <2>1, <2>4
      <3>2. pc[q] \in HasTemp => tempPtr[q] \in Inode
        BY DEF StepsFit, PaySteps, NoTemp, OrderSteps, HasTemp, Writing
      <3>3. pc[q] \in HasTemp => tempPtr[q] = NoFile
        BY <1>0, <2>3, <2>4 DEF TempOwned
      <3> QED BY <3>1, <3>2, <3>3, ServerAssumption DEF Inode
    <2>5. disk'[temp'] = <<>>
      BY <2>1, <2>2
    <2>6. \A q \in Procs : pc'[q] \in Early => tempPtr'[q] = NoFile
      BY <2>1 DEF TempOwned, Early, NoTemp, Unborn
    <2> QED BY <2>2, <2>4, <2>5, <2>6 DEF TempOwned, HasTemp
  <1>13. ASSUME Interrupt \/ UNCHANGED vars PROVE TempOwned'
    BY <1>1, <1>13 DEF Interrupt, vars, Early, NoTemp, HasTemp, Writing, Ended, Unborn
  <1> HIDE DEF TypeOK, files, locals, Goto, Respond, Die
  <1> QED BY <1>3, <1>4, <1>5, <1>6, <1>7, <1>8, <1>9, <1>10, <1>11, <1>12, <1>13
          DEF Next, Child, OrderBook, PayForBook, ForkFails

LEMMA TempOwnedAlways == Spec => []TempOwned
  <1>1. Init => TempOwned
    BY DEF Init, TempOwned, HasTemp, Writing, Unborn
  <1> QED BY <1>1, TempOwnedStep, Typing, Stepping, FilesApart, PTL DEF Spec

\* Then no file, and no child, has a line more often than it was issued.
CountsFit ==
  TempsUnshared =>
    /\ \A l \in Line : /\ \A i \in Inode : Copies(disk[i], l) <= IssuedCopies(l)
                       /\ \A p \in Procs : Copies(seen[p], l) <= IssuedCopies(l)
    /\ Lines(paid) \subseteq Issued

LEMMA IssuedByCount ==
  ASSUME Counted, NEW l, IssuedCopies(l) # 0 PROVE l \in Issued
  <1>1. CASE l \in Lines(Shipped)
    BY <1>1 DEF Issued
  <1>2. CASE l \notin Lines(Shipped)
    <2>1. Copies(Shipped, l) = 0
      BY <1>2, ServerAssumption, CopiesOfLines
    <2>2. Cardinality({p \in Ordered : NewLine(p) = l}) # 0
      BY <2>1 DEF IssuedCopies
    <2>3. {p \in Ordered : NewLine(p) = l} # {}
      BY <2>2, FS_EmptySet
    <2> QED BY <2>3 DEF Issued
  <1> QED BY <1>1, <1>2

\* What is left of a file has no line more often than the file.
LEMMA WithoutFewer ==
  ASSUME NEW s \in Seq(Line), NEW n, NEW l \in Line
  PROVE  Copies(Without(s, n), l) <= Copies(s, l)
  <1>1. Copies(s, l) \in Nat
    BY PositionsFinite
  <1>2. Copies(Without(s, n), l) = IF IsKept(l, n) THEN Copies(s, l) ELSE 0
    BY WithoutCopies
  <1> QED BY <1>1, <1>2

LEMMA CountsStep ==
  TypeOK /\ StepsFit /\ Counted /\ TempOwned /\ CountsFit /\ [Next]_vars => CountsFit'
  <1> SUFFICES ASSUME TypeOK, StepsFit, Counted, TempOwned, CountsFit, [Next]_vars,
                      TempsUnshared'
               PROVE  CountsFit'
    BY DEF CountsFit
  <1>1. /\ TempsUnshared /\ Lines(paid) \subseteq Issued
        /\ \A l \in Line : /\ \A i \in Inode : Copies(disk[i], l) <= IssuedCopies(l)
                           /\ \A p \in Procs : Copies(seen[p], l) <= IssuedCopies(l)
    BY PointerStays DEF CountsFit
  <1>2. Issued \subseteq Issued'
    BY IssuedGrows
  <1>3. /\ \A l : IssuedCopies(l) \in Nat
        /\ \A i \in Inode : \A l : Copies(disk[i], l) \in Nat
        /\ \A p \in Procs : \A l : Copies(seen[p], l) \in Nat
    BY IssuedCopiesType, PositionsFinite DEF TypeOK
  <1>4. CASE Ordered' = Ordered
    <2>1. ASSUME NEW l PROVE IssuedCopies(l)' = IssuedCopies(l)
      BY <1>4, OthersIssueNothing
    <2>2. ASSUME UNCHANGED <<disk, seen, paid>> PROVE CountsFit'
      BY <1>1, <1>2, <2>1, <2>2 DEF CountsFit
    <2>3. ASSUME NEW i \in Inode, NEW s, disk' = [disk EXCEPT ![i] = s],
                 \A l \in Line : Copies(s, l) <= IssuedCopies(l),
                 UNCHANGED <<seen, paid>>
          PROVE  CountsFit'
      <3>1. ASSUME NEW l \in Line, NEW j \in Inode
            PROVE  Copies(disk'[j], l) <= IssuedCopies(l)
        <4>1. CASE j = i
          BY <2>3, <4>1 DEF TypeOK
        <4>2. CASE j # i
          BY <1>1, <2>3, <4>2 DEF TypeOK
        <4> QED BY <4>1, <4>2
      <3> QED BY <1>1, <1>2, <2>1, <2>3, <3>1 DEF CountsFit
    <2>4. ASSUME NEW p \in Procs, OrderRead(p) \/ PayScan(p) PROVE CountsFit'
      <3>1. /\ createdPtr[p] \in Inode /\ UNCHANGED <<disk, paid>>
            /\ seen' = [seen EXCEPT ![p] = disk[createdPtr[p]]]
        BY <2>4 DEF OrderRead, PayScan, StepsFit, OrderSteps, PaySteps, NoTemp, files
      <3>2. ASSUME NEW l \in Line, NEW q \in Procs
            PROVE  Copies(seen'[q], l) <= IssuedCopies(l)
        BY <1>1, <3>1 DEF TypeOK
      <3> QED BY <1>1, <1>2, <2>1, <3>1, <3>2 DEF CountsFit
    <2>5. ASSUME NEW p \in Procs, PayOpenTemp(p) PROVE CountsFit'
      <3>1. temp' \in Inode /\ disk' = [disk EXCEPT ![temp'] = <<>>]
            /\ UNCHANGED <<paid, seen>>
        BY <2>5 DEF PayOpenTemp, TypeOK, Inode
      <3>2. \A l \in Line : Copies(<<>>, l) <= IssuedCopies(l)
        BY <1>3, CopiesOfNone
      <3> QED BY <2>3, <3>1, <3>2
    <2>6. ASSUME NEW p \in Procs, PayCloseTemp(p) PROVE CountsFit'
      <3>1. /\ tempPtr[p] \in Inode /\ pc[p] \in Writing
            /\ disk' = [disk EXCEPT ![tempPtr[p]] =
                            Overlay(Remaining(p), disk[tempPtr[p]])]
            /\ UNCHANGED <<paid, seen>>
        BY <2>6 DEF PayCloseTemp, StepsFit, PaySteps, NoTemp, locals, Writing
      <3>2. disk[tempPtr[p]] = <<>>
        BY <1>1, <3>1 DEF TempOwned
      <3>3. Remaining(p) \in Seq(Line)
        BY WithoutType DEF Remaining, TypeOK
      <3>4. Overlay(Remaining(p), disk[tempPtr[p]]) = Remaining(p)
        BY <3>2, <3>3, OverlayEmpty
      <3>5. ASSUME NEW l \in Line PROVE Copies(Remaining(p), l) <= IssuedCopies(l)
        <4>1. Copies(Remaining(p), l) <= Copies(seen[p], l)
          BY WithoutFewer DEF Remaining, TypeOK
        <4>2. Copies(Remaining(p), l) \in Nat
          BY <3>3, PositionsFinite
        <4> QED BY <1>1, <1>3, <4>1, <4>2
      <3> QED BY <2>3, <3>1, <3>4, <3>5
    <2>7. ASSUME NEW p \in Procs, PayRecord(p) PROVE CountsFit'
      <3>1. Receipt(p) \in Line /\ Receipt(p) \in Lines(seen[p])
        BY <2>7, ReceiptType DEF PayRecord, StepsFit, TypeOK
      <3>2. Copies(seen[p], Receipt(p)) # 0
        BY <3>1, CopiesOfLines DEF TypeOK
      <3>3. IssuedCopies(Receipt(p)) # 0
        BY <1>1, <1>3, <3>1, <3>2
      <3>4. Receipt(p) \in Issued
        BY <3>3, IssuedByCount
      <3>5. paid' = Append(paid, Receipt(p)) /\ UNCHANGED <<disk, seen>>
        BY <2>7 DEF PayRecord, locals
      <3>6. Lines(paid') \subseteq Issued
        BY <1>1, <3>1, <3>4, <3>5, AppendLines DEF TypeOK
      <3> QED BY <1>1, <1>2, <2>1, <3>5, <3>6 DEF CountsFit
    <2>8. ASSUME NEW p \in Procs, NEW r \in Requests, Fork(p, r) PROVE CountsFit'
      BY <2>2, <2>8 DEF Fork, files
    <2>9. ASSUME NEW p \in Procs, OrderAppend(p) PROVE FALSE
      <3>1. outcome[p] = "none" /\ outcome' = [outcome EXCEPT ![p] = "ordered"]
        BY <2>9 DEF OrderAppend, StepsFit, Ended, Respond
      <3> QED BY <1>4, <3>1 DEF Ordered, TypeOK
    <2>10. ASSUME NEW p \in Procs, Child(p) PROVE CountsFit'
      <3>1. CASE DisplayCatalog(p) \/ Browse(p) \/ ShortRequest(p) \/ OpenFails(p) \/ Reply(p)
        BY <2>2, <3>1 DEF DisplayCatalog, Browse, ShortRequest, OpenFails, Reply, files, locals
      <3>2. CASE OrderNoBook(p) \/ OrderOpen(p)
        BY <2>2, <3>2 DEF OrderNoBook, OrderOpen, files, locals
      <3>3. CASE PayOpen(p) \/ PayWithoutTemp(p) \/ PayNoOrders(p) \/ PayInvalid(p)
                 \/ PayInsufficient(p)
        BY <2>2, <3>3 DEF PayOpen, PayWithoutTemp, PayNoOrders, PayInvalid, PayInsufficient,
                          files, locals
      <3>4. CASE PayRemove(p) \/ PayRename(p)
        BY <2>2, <3>4 DEF PayRemove, PayRename, locals
      <3> QED BY <2>4, <2>5, <2>6, <2>7, <2>9, <2>10, <3>1, <3>2, <3>3, <3>4
              DEF Child, OrderBook, PayForBook
    <2>11. ASSUME Interrupt \/ UNCHANGED vars PROVE CountsFit'
      BY <2>2, <2>11 DEF Interrupt, vars, files, locals
    <2> QED BY <2>8, <2>10, <2>11 DEF Next, ForkFails
  <1>5. ASSUME NEW p \in Procs, OrderAppend(p), p \notin Ordered,
               Ordered' = Ordered \cup {p}, paid' = paid
        PROVE  CountsFit'
    <2>1. ASSUME NEW l
          PROVE  IssuedCopies(l)' = IssuedCopies(l) + (IF l = NewLine(p) THEN 1 ELSE 0)
      BY <1>5, OrderIssues
    <2>2. createdPtr[p] \in Inode /\ NewLine(p) \in Line
      BY <1>5, NewLineType DEF OrderAppend, StepsFit, OrderSteps, Unborn, TypeOK
    <2>3. /\ disk' = [disk EXCEPT ![createdPtr[p]] =
                          Append(disk[createdPtr[p]], NewLine(p))]
          /\ seen' = seen
      BY <1>5 DEF OrderAppend, locals
    <2>4. ASSUME NEW l \in Line, NEW i \in Inode
          PROVE  Copies(disk'[i], l) <= IssuedCopies(l)'
      <3>0. /\ Copies(disk[i], l) \in Nat /\ IssuedCopies(l) \in Nat
            /\ Copies(disk[i], l) <= IssuedCopies(l)
            /\ IssuedCopies(l)' = IssuedCopies(l) + (IF l = NewLine(p) THEN 1 ELSE 0)
        BY <1>1, <1>3, <2>1
      <3>1. CASE i = createdPtr[p]
        <4>1. disk[i] \in Seq(Line) /\ disk'[i] = Append(disk[i], NewLine(p))
          BY <2>3, <3>1 DEF TypeOK
        <4>2. Copies(disk'[i], l) = Copies(disk[i], l) + (IF l = NewLine(p) THEN 1 ELSE 0)
          BY <2>2, <4>1, AppendCopies
        <4> QED BY <3>0, <4>2
      <3>2. CASE i # createdPtr[p]
        <4>1. disk'[i] = disk[i]
          BY <2>3, <3>2 DEF TypeOK
        <4> QED BY <3>0, <4>1
      <3> QED BY <3>1, <3>2
    <2>5. ASSUME NEW l \in Line, NEW q \in Procs
          PROVE  Copies(seen'[q], l) <= IssuedCopies(l)'
      <3>1. /\ Copies(seen[q], l) \in Nat /\ IssuedCopies(l) \in Nat
            /\ Copies(seen[q], l) <= IssuedCopies(l)
            /\ IssuedCopies(l)' = IssuedCopies(l) + (IF l = NewLine(p) THEN 1 ELSE 0)
        BY <1>1, <1>3, <2>1
      <3> QED BY <2>3, <3>1
    <2> QED BY <1>1, <1>2, <1>5, <2>4, <2>5 DEF CountsFit
  <1> QED BY <1>4, <1>5, OutcomeStep

\* However many children order and pay at once, in whatever interleaving, and
\* however often the server is stopped: as long as no two payments have had the
\* same temp.txt, no file has a line that was neither shipped nor added by an
\* OrderBook that went through, and none has such a line more often than that.
THEOREM UnsharedInventsNothing == Spec => []UnsharedTempsInventNothing
  <1>1. Init => CountsFit
    <2> SUFFICES ASSUME Init PROVE CountsFit
      OBVIOUS
    <2>1. Ordered = {} /\ paid = <<>>
      BY DEF Init, Ordered
    <2>2. ASSUME NEW l PROVE IssuedCopies(l) = Copies(Shipped, l) /\ Copies(Shipped, l) \in Nat
      <3>1. {p \in Ordered : NewLine(p) = l} = {}
        BY <2>1
      <3>2. Copies(Shipped, l) \in Nat
        BY ServerAssumption, PositionsFinite
      <3> QED BY <3>1, <3>2, FS_EmptySet DEF IssuedCopies
    <2>3. \A i \in Inode : disk[i] = Shipped \/ disk[i] = <<>>
      BY DEF Init
    <2>4. \A p \in Procs : seen[p] = <<>>
      BY DEF Init
    <2>5. Lines(paid) = {}
      BY <2>1 DEF Lines
    <2> QED BY <2>2, <2>3, <2>4, <2>5, CopiesOfNone DEF CountsFit
  <1>2. TypeOK /\ CountsFit => UnsharedTempsInventNothing
    <2>1. TypeOK => \A i \in Inode : Lines(disk[i]) \subseteq Line
      BY DEF TypeOK, Lines
    <2> QED BY <2>1 DEF CountsFit, UnsharedTempsInventNothing
  <1> QED BY <1>1, <1>2, CountsStep, Typing, Stepping, CountedAlways, TempOwnedAlways,
             PTL DEF Spec

-----------------------------------------------------------------------------
(* As long as no payment has removed created_orders.txt, every stream on   *)
(* it is on the file that has the name, and nobody writes over it.         *)

Calm == \A p \in Procs : ~MayHaveRemoved(p)
CalmFiles ==
  Calm => \A p \in Procs :
             /\ createdPtr[p] \in {NoFile, created}
             /\ tempPtr[p] # NoFile => tempPtr[p] # created
             /\ pc[p] = "numbering" => Lines(seen[p]) \subseteq Lines(OpenLines)

\* A child that may have removed the file may have removed it ever after.
LEMMA RemovalStays ==
  ASSUME TypeOK, StepsFit, [Next]_vars, Calm'
  PROVE  Calm
  <1> SUFFICES ASSUME NEW q \in Procs, MayHaveRemoved(q)
               PROVE  MayHaveRemoved(q)'
    BY DEF Calm
  <1> USE DEF TypeOK, files, locals, Unborn, Goto, Respond, Die
  <1>1. CASE outcome[q] = "paid"
    BY <1>1, AnswersStay DEF MayHaveRemoved
  <1>2. CASE /\ pc[q] \in {"removed", "renamed", "dead"}
             /\ outcome[q] = "none" /\ tempPtr[q] # NoFile
    <2>1. ASSUME NEW p \in Procs, NEW r \in Requests, Fork(p, r)
          PROVE  MayHaveRemoved(q)'
      BY <1>2, <2>1 DEF Fork, MayHaveRemoved
    <2>2. ASSUME NEW p \in Procs,
                 DisplayCatalog(p) \/ Browse(p) \/ ShortRequest(p) \/ OpenFails(p) \/ Reply(p)
          PROVE  MayHaveRemoved(q)'
      BY <1>2, <2>2 DEF DisplayCatalog, Browse, ShortRequest, OpenFails, Reply, MayHaveRemoved
    <2>3. ASSUME NEW p \in Procs, OrderBook(p)
          PROVE  MayHaveRemoved(q)'
      BY <1>2, <2>3 DEF OrderBook, OrderNoBook, OrderOpen, OrderRead, OrderAppend,
                        MayHaveRemoved
    <2>4. ASSUME NEW p \in Procs, PayForBook(p)
          PROVE  MayHaveRemoved(q)'
      <3>1. CASE PayOpen(p) \/ PayScan(p) \/ PayNoOrders(p) \/ PayCloseTemp(p)
        BY <1>2, <3>1 DEF PayOpen, PayScan, PayNoOrders, PayCloseTemp, MayHaveRemoved
      <3>2. CASE PayOpenTemp(p)
        BY <1>2, <3>2 DEF PayOpenTemp, MayHaveRemoved
      <3>3. CASE PayInvalid(p) \/ PayInsufficient(p) \/ PayWithoutTemp(p) \/ PayRemove(p)
        BY <1>2, <3>3 DEF PayInvalid, PayInsufficient, PayWithoutTemp, PayRemove, MayHaveRemoved
      <3>4. CASE PayRename(p) \/ PayRecord(p)
        BY <1>2, <3>4 DEF PayRename, PayRecord, MayHaveRemoved
      <3> QED BY <2>4, <3>1, <3>2, <3>3, <3>4 DEF PayForBook
    <2>5. ASSUME Interrupt \/ UNCHANGED vars PROVE MayHaveRemoved(q)'
      BY <1>2, <2>5 DEF Interrupt, vars, Ended, MayHaveRemoved
    <2> HIDE DEF TypeOK, files, locals, Unborn
    <2> QED BY <2>1, <2>2, <2>3, <2>4, <2>5 DEF Next, Child, ForkFails
  <1>3. pc[q] \in {"removed", "renamed"} => tempPtr[q] # NoFile /\ outcome[q] = "none"
    BY ServerAssumption DEF StepsFit, PaySteps, NoTemp, OrderSteps, Inode, Ended
  <1> QED BY <1>1, <1>2, <1>3 DEF MayHaveRemoved

\* Until then an order adds its line to the open ones, and nothing else
\* changes them.
LEMMA CalmStep ==
  ASSUME TypeOK, StepsFit, FreshFiles, TempApart, CalmFiles, [Next]_vars, Calm'
  PROVE  /\ CalmFiles'
         /\ \/ \E p \in Procs : /\ OrderAppend(p)
                                /\ OpenLines' = Append(OpenLines, NewLine(p))
            \/ OpenLines' = OpenLines /\ \A p \in Procs : ~OrderAppend(p)
  <1> DEFINE Quietly == OpenLines' = OpenLines /\ \A p \in Procs : ~OrderAppend(p)
  <1>0. /\ \A p \in Procs : /\ createdPtr[p] \in {NoFile, created}
                            /\ tempPtr[p] # NoFile => tempPtr[p] # created
                            /\ pc[p] = "numbering" => Lines(seen[p]) \subseteq Lines(OpenLines)
        /\ \A p \in Procs : ~MayHaveRemoved(p)
    BY RemovalStays DEF CalmFiles, Calm
  <1> USE DEF TypeOK, files, locals, Goto, Respond, Die, Unborn
  <1>1. ASSUME UNCHANGED <<disk, created, createdPtr, tempPtr, seen>>,
               \A p \in Procs : pc'[p] = "numbering" => pc[p] = "numbering"
        PROVE  CalmFiles' /\ OpenLines' = OpenLines
    BY <1>0, <1>1 DEF CalmFiles, OpenLines
  <1>2. ASSUME NEW p \in Procs, NEW r \in Requests, Fork(p, r)
        PROVE  CalmFiles' /\ OpenLines' = OpenLines
    BY <1>1, <1>2 DEF Fork
  <1>3. ASSUME NEW p \in Procs,
               DisplayCatalog(p) \/ Browse(p) \/ ShortRequest(p) \/ OpenFails(p) \/ Reply(p)
        PROVE  CalmFiles' /\ OpenLines' = OpenLines
    BY <1>1, <1>3 DEF DisplayCatalog, Browse, ShortRequest, OpenFails, Reply
  <1>4. ASSUME NEW p \in Procs,
               \/ OrderNoBook(p) \/ PayWithoutTemp(p) \/ PayNoOrders(p) \/ PayInvalid(p)
               \/ PayInsufficient(p)
        PROVE  CalmFiles' /\ OpenLines' = OpenLines
    BY <1>1, <1>4 DEF OrderNoBook, PayNoOrders, PayInvalid, PayInsufficient, PayWithoutTemp
  <1>5. ASSUME NEW p \in Procs, PayRemove(p) \/ PayRename(p) \/ PayRecord(p)
        PROVE  FALSE
    <2>1. tempPtr[p] # NoFile /\ outcome[p] = "none"
      BY <1>5, ServerAssumption
      DEF PayRemove, PayRename, PayRecord, StepsFit, PaySteps, NoTemp, OrderSteps, Inode, Ended
    <2>2. MayHaveRemoved(p)'
      BY <1>5, <2>1 DEF PayRemove, PayRename, PayRecord, MayHaveRemoved
    <2> QED BY <2>2 DEF Calm
  <1>6. ASSUME NEW p \in Procs, OrderOpen(p)
        PROVE  CalmFiles' /\ OpenLines' = OpenLines
    <2>1. /\ created' = IF created = NoFile THEN p ELSE created
          /\ createdPtr' = [createdPtr EXCEPT ![p] = created']
          /\ UNCHANGED <<disk, temp, tempPtr, seen>>
          /\ pc[p] = "parsed" /\ pc' = [pc EXCEPT ![p] = "ordering"] /\ p \in Inode
      BY <1>6 DEF OrderOpen, Inode
    <2>4. OpenLines' = OpenLines
      BY <1>6, OrderOpenKeeps
    <2>5. \A q \in Procs : createdPtr'[q] \in {NoFile, created'}
      BY <1>0, <2>1
    <2>6. \A q \in Procs : tempPtr'[q] # NoFile => tempPtr'[q] # created'
      BY <1>0, <1>6, <2>1, OrderOpenKeeps
    <2> QED BY <1>0, <2>1, <2>4, <2>5, <2>6 DEF CalmFiles
  <1>7. ASSUME NEW p \in Procs, OrderRead(p)
        PROVE  CalmFiles' /\ OpenLines' = OpenLines
    <2>1. /\ createdPtr[p] \in Inode /\ UNCHANGED <<disk, created, createdPtr, tempPtr>>
          /\ seen' = [seen EXCEPT ![p] = disk[createdPtr[p]]]
          /\ pc' = [pc EXCEPT ![p] = "numbering"]
      BY <1>7 DEF OrderRead, StepsFit, OrderSteps
    <2>2. created = createdPtr[p] /\ created # NoFile
      BY <1>0, <2>1, ServerAssumption DEF Inode
    <2>3. OpenLines' = OpenLines /\ seen'[p] = OpenLines
      BY <2>1, <2>2 DEF OpenLines
    <2> QED BY <1>0, <2>1, <2>3 DEF CalmFiles
  <1>8. ASSUME NEW p \in Procs, OrderAppend(p)
        PROVE  CalmFiles' /\ OpenLines' = Append(OpenLines, NewLine(p))
    <2>1. /\ createdPtr[p] \in Inode /\ UNCHANGED <<created, createdPtr, tempPtr, seen>>
          /\ disk' = [disk EXCEPT ![createdPtr[p]] = Append(@, NewLine(p))]
          /\ pc' = [pc EXCEPT ![p] = "responding"]
      BY <1>8 DEF OrderAppend, StepsFit, OrderSteps
    <2>2. created = createdPtr[p] /\ created # NoFile
      BY <1>0, <2>1, ServerAssumption DEF Inode
    <2>3. OpenLines' = Append(OpenLines, NewLine(p))
      BY <2>1, <2>2 DEF OpenLines
    <2>4. NewLine(p) \in Line /\ OpenLines \in Seq(Line)
      BY <1>8, <2>1, <2>2, NewLineType DEF OrderAppend, StepsFit, OrderSteps, OpenLines
    <2>5. Lines(OpenLines) \subseteq Lines(OpenLines')
      BY <2>3, <2>4, AppendLines
    <2> QED BY <1>0, <2>1, <2>3, <2>5 DEF CalmFiles
  <1>9. ASSUME NEW p \in Procs, PayOpen(p)
        PROVE  CalmFiles' /\ OpenLines' = OpenLines
    <2>1. /\ createdPtr' = createdPtr \/ createdPtr' = [createdPtr EXCEPT ![p] = created]
          /\ UNCHANGED <<disk, created, temp, tempPtr, seen>>
          /\ \A q \in Procs : pc'[q] = "numbering" => pc[q] = "numbering"
      BY <1>9 DEF PayOpen
    <2>2. OpenLines' = OpenLines
      BY <2>1 DEF OpenLines
    <2> QED BY <1>0, <2>1, <2>2 DEF CalmFiles
  <1>10. ASSUME NEW p \in Procs, PayOpenTemp(p)
         PROVE  CalmFiles' /\ OpenLines' = OpenLines
    <2>1. /\ temp' = IF temp = NoFile THEN p ELSE temp
          /\ tempPtr' = [tempPtr EXCEPT ![p] = temp']
          /\ disk' = [disk EXCEPT ![temp'] = <<>>]
          /\ UNCHANGED <<created, createdPtr, seen>>
          /\ pc[p] = "paying" /\ pc' = [pc EXCEPT ![p] = "scanning"] /\ p \in Inode
      BY <1>10 DEF PayOpenTemp, Inode
    <2>2. temp' # created /\ OpenLines' = OpenLines
      BY <1>10, PayOpenTempKeeps
    <2> QED BY <1>0, <2>1, <2>2 DEF CalmFiles
  <1>11. ASSUME NEW p \in Procs, PayScan(p)
         PROVE  CalmFiles' /\ OpenLines' = OpenLines
    <2>1. /\ UNCHANGED <<disk, created, createdPtr, tempPtr>>
          /\ \A q \in Procs : pc'[q] = "numbering" => pc[q] = "numbering" /\ seen'[q] = seen[q]
      BY <1>11 DEF PayScan
    <2>2. OpenLines' = OpenLines
      BY <2>1 DEF OpenLines
    <2> QED BY <1>0, <2>1, <2>2 DEF CalmFiles
  <1>12. ASSUME NEW p \in Procs, PayCloseTemp(p)
         PROVE  CalmFiles' /\ OpenLines' = OpenLines
    <2>1. /\ UNCHANGED <<created, createdPtr, tempPtr, seen>> /\ tempPtr[p] \in Inode
          /\ disk' = [disk EXCEPT ![tempPtr[p]] = Overlay(Remaining(p), @)]
          /\ \A q \in Procs : pc'[q] = "numbering" => pc[q] = "numbering"
      BY <1>12 DEF PayCloseTemp, StepsFit, PaySteps, NoTemp
    <2>2. tempPtr[p] # created
      BY <1>0, <2>1, ServerAssumption DEF Inode
    <2>3. OpenLines' = OpenLines
      BY <2>1, <2>2 DEF OpenLines
    <2> QED BY <1>0, <2>1, <2>3 DEF CalmFiles
  <1>13. ASSUME Interrupt \/ UNCHANGED vars
         PROVE  CalmFiles' /\ OpenLines' = OpenLines
    BY <1>1, <1>13 DEF Interrupt, vars, Ended
  <1>14. ASSUME NEW p \in Procs, ~OrderAppend(p), Child(p)
         PROVE  CalmFiles' /\ OpenLines' = OpenLines
    <2> HIDE DEF TypeOK, files, locals, Goto, Respond, Die, Unborn
    <2> QED BY <1>3, <1>4, <1>5, <1>6, <1>7, <1>9, <1>10, <1>11, <1>12, <1>14
            DEF Child, OrderBook, PayForBook
  <1> HIDE DEF TypeOK, files, locals, Goto, Respond, Die, Unborn
  <1> QED BY <1>2, <1>8, <1>13, <1>14 DEF Next, ForkFails

LEMMA CalmAlways == Spec => []CalmFiles
  <1>1. Init => CalmFiles
    BY DEF Init, CalmFiles, Unborn
  <1>2. TypeOK /\ StepsFit /\ FreshFiles /\ TempApart /\ CalmFiles /\ [Next]_vars
          => CalmFiles'
    <2>1. CASE Calm'
      BY <2>1, CalmStep
    <2>2. CASE ~Calm'
      BY <2>2 DEF CalmFiles
    <2> QED BY <2>1, <2>2
  <1> QED BY <1>1, <1>2, Typing, Stepping, FilesApart, PTL DEF Spec

LEMMA OpenLinesType ==
  ASSUME TypeOK PROVE OpenLines \in Seq(Line)
  BY DEF TypeOK, OpenLines

\* At the start the open orders are those that were shipped.
LEMMA InitOpenLines ==
  ASSUME Init
  PROVE  OpenLines = Shipped /\ \A l : IssuedCopies(l) = Copies(Shipped, l)
  <1>1. OpenLines = Shipped
    BY ServerAssumption DEF Init, OpenLines, Inode
  <1>2. Ordered = {}
    BY DEF Init, Ordered
  <1>3. ASSUME NEW l PROVE IssuedCopies(l) = Copies(Shipped, l)
    <2>1. {p \in Ordered : NewLine(p) = l} = {}
      BY <1>2
    <2>2. Copies(Shipped, l) \in Nat
      BY ServerAssumption, PositionsFinite
    <2> QED BY <2>1, <2>2, FS_EmptySet DEF IssuedCopies
  <1> QED BY <1>1, <1>3

OpenCounted == Calm => \A l \in Line : Copies(OpenLines, l) = IssuedCopies(l)

\* However many payments are refused, find no order, or fail to open a file,
\* overlapping each other and orders in any way: as long as none has got to
\* removing created_orders.txt, or may have when it was killed, the file holds
\* each order exactly as often as it was issued.
THEOREM RefusalsLoseNothing == Spec => []RefusedPaymentsLoseNothing
  <1>1. Init => OpenCounted
    BY InitOpenLines DEF OpenCounted
  <1>2. TypeOK /\ StepsFit /\ Counted /\ FreshFiles /\ TempApart /\ CalmFiles
          /\ OpenCounted /\ [Next]_vars => OpenCounted'
    <2> SUFFICES ASSUME TypeOK, StepsFit, Counted, FreshFiles, TempApart, CalmFiles,
                        OpenCounted, [Next]_vars, Calm', NEW l \in Line
                 PROVE  Copies(OpenLines', l) = IssuedCopies(l)'
      BY DEF OpenCounted
    <2>1. Copies(OpenLines, l) = IssuedCopies(l)
      BY RemovalStays DEF OpenCounted
    <2>2. CASE \E p \in Procs : /\ OrderAppend(p)
                                /\ OpenLines' = Append(OpenLines, NewLine(p))
      <3>1. PICK p \in Procs : OrderAppend(p) /\ OpenLines' = Append(OpenLines, NewLine(p))
        BY <2>2
      <3>2. NewLine(p) \in Line /\ OpenLines \in Seq(Line)
        BY <3>1, NewLineType, OpenLinesType DEF OrderAppend, StepsFit, OrderSteps, TypeOK, Unborn
      <3>3. p \notin Ordered /\ Ordered' = Ordered \cup {p}
        <4>1. outcome[p] = "none" /\ outcome' = [outcome EXCEPT ![p] = "ordered"]
          BY <3>1 DEF OrderAppend, StepsFit, Ended, Respond
        <4> QED BY <4>1 DEF Ordered, TypeOK
      <3>4. IssuedCopies(l)' = IssuedCopies(l) + (IF l = NewLine(p) THEN 1 ELSE 0)
        BY <3>1, <3>3, OrderIssues
      <3>5. Copies(OpenLines', l) = Copies(OpenLines, l) + (IF l = NewLine(p) THEN 1 ELSE 0)
        BY <3>1, <3>2, AppendCopies
      <3> QED BY <2>1, <3>4, <3>5
    <2>3. CASE OpenLines' = OpenLines /\ \A p \in Procs : ~OrderAppend(p)
      <3>1. Ordered' = Ordered
        BY <2>3, OutcomeStep
      <3> QED BY <2>1, <2>3, <3>1, OthersIssueNothing
    <2> QED BY <2>2, <2>3, CalmStep
  <1>3. TypeOK /\ OrderedLines /\ OpenCounted => RefusedPaymentsLoseNothing
    <2> SUFFICES ASSUME TypeOK, OrderedLines, OpenCounted PROVE RefusedPaymentsLoseNothing
      OBVIOUS
    <2>1. Lines(OpenLines) \subseteq Line
      BY OpenLinesType DEF Lines
    <2>2. Issued \subseteq Line
      BY ServerAssumption DEF Issued, OrderedLines, Lines
    <2> QED BY <2>1, <2>2 DEF OpenCounted, RefusedPaymentsLoseNothing, Calm
  <1> QED BY <1>1, <1>2, <1>3, Typing, Stepping, CountedAlways, OrderedLinesAlways, FilesApart,
             CalmAlways, PTL DEF Spec

\* Every number below one in use is in use.
NumbersComplete(s) == \A l \in Lines(s) : \A n \in 1..l.num : \E k \in Lines(s) : k.num = n
OpenComplete == Calm => NumbersComplete(OpenLines) /\ Whole(OpenLines)

\* A line numbered one above a line that is there leaves no gap.
LEMMA AppendComplete ==
  ASSUME NEW s \in Seq(Line), NumbersComplete(s), NEW e \in Line, NEW last \in Int,
         e.num = last + 1, last = 0 \/ \E k \in Lines(s) : k.num = last
  PROVE  NumbersComplete(Append(s, e))
  <1>1. Lines(Append(s, e)) = Lines(s) \cup {e}
    BY AppendLines
  <1>2. ASSUME NEW n \in 1..e.num PROVE \E k \in Lines(s) \cup {e} : k.num = n
    <2>1. CASE n = e.num
      BY <2>1
    <2>2. CASE n # e.num
      <3>1. n \in 1..last /\ last # 0
        BY <2>2
      <3>2. PICK k \in Lines(s) : k.num = last
        BY <3>1
      <3>3. \E j \in Lines(s) : j.num = n
        BY <3>1, <3>2 DEF NumbersComplete
      <3> QED BY <3>3
    <2> QED BY <2>1, <2>2
  <1> QED BY <1>1, <1>2 DEF NumbersComplete

LEMMA AppendWhole ==
  ASSUME NEW s \in Seq(Line), Whole(s), NEW e \in Line, e.cut = 0
  PROVE  Whole(Append(s, e))
  BY DEF Whole

\* If the shipped file has no gap, then overlapping orders, which may share
\* numbers, make none, as long as no payment has removed the file.
THEOREM NoGaps ==
  ASSUME NumbersComplete(Shipped)
  PROVE  Spec => []NoNumberSkipped
  <1>1. Init => OpenComplete
    BY InitOpenLines, ServerAssumption DEF OpenComplete
  <1>2. TypeOK /\ StepsFit /\ FreshFiles /\ TempApart /\ CalmFiles
          /\ OpenComplete /\ [Next]_vars => OpenComplete'
    <2> SUFFICES ASSUME TypeOK, StepsFit, FreshFiles, TempApart, CalmFiles,
                        OpenComplete, [Next]_vars, Calm'
                 PROVE  NumbersComplete(OpenLines') /\ Whole(OpenLines')
      BY DEF OpenComplete, NumbersComplete, Whole
    <2>1. Calm /\ NumbersComplete(OpenLines) /\ Whole(OpenLines)
      BY RemovalStays DEF OpenComplete
    <2>2. ASSUME NEW p \in Procs, OrderAppend(p), OpenLines' = Append(OpenLines, NewLine(p))
          PROVE  NumbersComplete(OpenLines') /\ Whole(OpenLines')
      <3>1. NewLine(p) \in Line /\ OpenLines \in Seq(Line) /\ seen[p] \in Seq(Line)
        BY <2>2, NewLineType, OpenLinesType DEF OrderAppend, StepsFit, OrderSteps, TypeOK, Unborn
      <3>2. Lines(seen[p]) \subseteq Lines(OpenLines)
        BY <2>1, <2>2 DEF CalmFiles, OrderAppend
      <3> DEFINE last == LastNumber(seen[p])
      <3>3. last \in Int
        BY <3>1, LastNumberType
      <3>4. last = 0 \/ \E k \in Lines(OpenLines) : k.num = last
        <4>1. CASE seen[p] = <<>>
          BY <4>1 DEF LastNumber
        <4>2. CASE seen[p] # <<>>
          <5>1. Len(seen[p]) \in 1..Len(seen[p])
            BY <3>1, <4>2
          <5>2. seen[p][Len(seen[p])] \in Lines(seen[p])
            BY <5>1 DEF Lines
          <5>3. Whole(seen[p])
            <6> SUFFICES ASSUME NEW i \in 1..Len(seen[p]) PROVE seen[p][i].cut = 0
              BY DEF Whole
            <6>1. seen[p][i] \in Lines(OpenLines)
              BY <3>2 DEF Lines
            <6> QED BY <6>1, <2>1 DEF Lines, Whole
          <5> QED BY <3>1, <3>2, <4>2, <5>2, <5>3, LastOfWhole
        <4> QED BY <4>1, <4>2
      <3>5. NewLine(p).num = last + 1 /\ NewLine(p).cut = 0
        BY DEF NewLine, Printed
      <3> HIDE DEF last
      <3>6. NumbersComplete(OpenLines')
        BY <2>1, <2>2, <3>1, <3>3, <3>4, <3>5, AppendComplete
      <3>7. Whole(OpenLines')
        BY <2>1, <2>2, <3>1, <3>5, AppendWhole
      <3> QED BY <3>6, <3>7
    <2>3. CASE OpenLines' = OpenLines
      BY <2>1, <2>3
    <2> QED BY <2>2, <2>3, CalmStep
  <1>3. OpenComplete => NoNumberSkipped
    BY DEF OpenComplete, NoNumberSkipped, NumbersComplete, Calm
  <1> QED BY <1>1, <1>2, <1>3, Typing, Stepping, FilesApart, CalmAlways, PTL DEF Spec
=============================================================================
