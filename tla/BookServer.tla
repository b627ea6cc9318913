----------------------------- MODULE BookServer -----------------------------
(***************************************************************************)
(* The concurrent connectionless book server                               *)
(* (concurrent-connectionless/server.c): for every datagram it receives    *)
(* the server forks a child, the child runs DisplayCatalog, SearchBook,    *)
(* OrderBook or PayForBook, answers and exits.  The children share three   *)
(* files and no lock:                                                      *)
(*   created_orders.txt  the open orders,                                  *)
(*   paid_orders.txt     the paid ones,                                    *)
(*   temp.txt            where PayForBook writes the orders that stay.     *)
(*                                                                         *)
(* One action is one system call on a shared file together with the        *)
(* computation up to the next one, so the children interleave exactly      *)
(* where the operating system lets them.  A file is an inode: unlink and   *)
(* rename change the names, while a child keeps the inode it has opened.   *)
(* Output of stdio reaches the file at fclose (a few lines are far below   *)
(* a stdio buffer).                                                        *)
(***************************************************************************)
EXTENDS BookCatalog, OrderLines

CONSTANTS Procs,          \* children the server can fork (pids)
          Orig,           \* the inode of the created_orders.txt found at start
          NoFile,         \* a name that is not bound to any inode
          Requests,       \* the requests clients send
          NoRequest,
          Shipped,        \* the orders in created_orders.txt at start
          MaxInterrupts,  \* how often the server may be stopped and restarted
          OpensMayFail    \* fopen may fail for more than a file that is missing

\* A request is what main parses from the datagram.  "browse" stands for the
\* options that touch no file and cannot fail (2 and every invalid one),
\* "short" for a datagram with fewer lines than its option needs.
DisplayRequest == [op : {"display"}, M : Int, X : Int, Z : Int]
OrderRequest == [op : {"order"}, x : Strings, y : Strings, n : Int]
PayRequest == [op : {"pay"}, orderno : Int, amount : Int]
OtherRequest == [op : {"browse", "short"}]

ASSUME ServerAssumption ==
  /\ Orig \notin Procs
  /\ NoFile \notin Procs \cup {Orig}
  /\ Requests \subseteq DisplayRequest \cup OrderRequest \cup PayRequest
                             \cup OtherRequest
  /\ NoRequest \notin Requests
  /\ Shipped \in Seq(Line) /\ Whole(Shipped)
  /\ MaxInterrupts \in Nat
  /\ OpensMayFail \in BOOLEAN

\* A child creates at most one file, so it names the inode it creates.
Inode == Procs \cup {Orig}

VARIABLES disk,        \* [Inode -> lines]: the contents of every inode
          created,     \* the inode named created_orders.txt, or NoFile
          temp,        \* the inode named temp.txt, or NoFile
          paid,        \* the lines of paid_orders.txt
          pc,          \* where each child is
          req,         \* the request of each child
          createdPtr,  \* the inode behind each child's stream on created_orders
          tempPtr,     \* the inode behind each child's stream on temp.txt
          seen,        \* the lines each child read from its createdPtr
          outcome,     \* what each child's response says
          interrupts   \* how often the server was stopped and restarted

files == <<disk, created, temp, paid>>
locals == <<req, createdPtr, tempPtr, seen>>
vars == <<files, pc, locals, outcome, interrupts>>

Unborn == "unborn"
Ended == {"answered", "dead"}
OrderSteps == {"ordering", "numbering"}
PaySteps == {"paying", "scanning", "scanned", "flushed", "removed", "renamed",
             "templess", "orderless"}
NoTemp == {"paying", "templess", "orderless"}
PC == {Unborn, "parsed", "responding"} \cup OrderSteps \cup PaySteps \cup Ended
Outcome == {"none", "browsed", "nobook", "ordered",
            "noorders", "invalid", "insufficient", "paid"}

\* Mutants (not the code): the number is the count of the lines; the remaining
\* orders are renumbered, or keep the paid one; the receipt is the line read last,
\* or has no total; any amount but zero is enough.
NewLineByCount(p) ==
  Printed(Len(seen[p]) + 1, TotalPrice(req[p].x, req[p].y, req[p].n))
RemainingRenumbered(p) ==
  LET r == Without(seen[p], req[p].orderno)
  IN  [k \in DOMAIN r |-> [r[k] EXCEPT !.num = k]]
RemainingWithPaid(p) == seen[p]
ReceiptOfLastLine(p) == seen[p][Len(seen[p])]
ReceiptOfNumber(p) == [num |-> req[p].orderno]
EnoughIfAny(p) == req[p].amount > 0

\* The line OrderBook adds and the line PayForBook moves to paid_orders.txt.
NewLine(p) ==
  Printed(LastNumber(seen[p]) + 1, TotalPrice(req[p].x, req[p].y, req[p].n))
Remaining(p) == Without(seen[p], req[p].orderno)
Receipt(p) == PaidLine(seen[p], req[p].orderno)
Found(p) == WasCreated(seen[p], req[p].orderno)
Enough(p) == req[p].amount >= LastTotal(seen[p])

Init ==
  /\ disk = [i \in Inode |-> IF i = Orig THEN Shipped ELSE <<>>]
  /\ created = IF Shipped = <<>> THEN NoFile ELSE Orig
  /\ temp = NoFile
  /\ paid = <<>>
  /\ pc = [p \in Procs |-> Unborn]
  /\ req = [p \in Procs |-> NoRequest]
  /\ createdPtr = [p \in Procs |-> NoFile]
  /\ tempPtr = [p \in Procs |-> NoFile]
  /\ seen = [p \in Procs |-> <<>>]
  /\ outcome = [p \in Procs |-> "none"]
  /\ interrupts = 0

Goto(p, next) == pc' = [pc EXCEPT ![p] = next]

\* A response is ready: the child is in sleep(5), before its sendto.
Respond(p, what) ==
  /\ Goto(p, "responding")
  /\ outcome' = [outcome EXCEPT ![p] = what]

\* exit(EXIT_FAILURE), or a signal: the child sends nothing.
Die(p) == Goto(p, "dead") /\ UNCHANGED outcome

-----------------------------------------------------------------------------
(* main: recvfrom, fork, and the parsing in the child.                     *)

Fork(p, r) ==
  /\ pc[p] = Unborn
  /\ Goto(p, "parsed")
  /\ req' = [req EXCEPT ![p] = r]
  /\ UNCHANGED <<files, createdPtr, tempPtr, seen, outcome, interrupts>>

Browse(p) ==
  /\ pc[p] = "parsed" /\ req[p].op = "browse"
  /\ Respond(p, "browsed")
  /\ UNCHANGED <<files, locals, interrupts>>

\* DisplayCatalog may read past the array or write past its buffer; what comes
\* of that depends on the memory there, a signal or an answer.
DisplayCatalog(p) ==
  /\ pc[p] = "parsed" /\ req[p].op = "display"
  /\ \/ Respond(p, "browsed")
     \/ ~CatalogFits(req[p].M, req[p].X, req[p].Z) /\ Die(p)
  /\ UNCHANGED <<files, locals, interrupts>>

\* strtok returns NULL for a missing line, and atoi or strcpy dereferences it.
ShortRequest(p) ==
  /\ pc[p] = "parsed" /\ req[p].op = "short"
  /\ Die(p)
  /\ UNCHANGED <<files, locals, interrupts>>

\* Mutant (not the code): the child may answer before it has served.
ReplyTooEarly(p) ==
  /\ pc[p] \in {"parsed", "responding"}
  /\ Goto(p, "answered")
  /\ UNCHANGED <<files, locals, outcome, interrupts>>

Reply(p) ==
  /\ pc[p] = "responding"
  /\ Goto(p, "answered")
  /\ UNCHANGED <<files, locals, outcome, interrupts>>

\* created_orders.txt cannot be opened (lines 381-387 and 451-456), or not
\* paid_orders.txt (458-463): exit.
OpenFails(p) ==
  /\ pc[p] = "parsed" /\ OpensMayFail
  /\ \/ req[p].op = "order" /\ BookToOrder(req[p].x, req[p].y) # NoBook
     \/ req[p].op = "pay"
  /\ Die(p)
  /\ UNCHANGED <<files, locals, interrupts>>

-----------------------------------------------------------------------------
(* OrderBook.                                                              *)

OrderNoBook(p) ==
  /\ pc[p] = "parsed" /\ req[p].op = "order"
  /\ BookToOrder(req[p].x, req[p].y) = NoBook
  /\ Respond(p, "nobook")
  /\ UNCHANGED <<files, locals, interrupts>>

\* fopen("created_orders.txt", "a+") creates the file when there is none.
OrderOpen(p) ==
  /\ pc[p] = "parsed" /\ req[p].op = "order"
  /\ BookToOrder(req[p].x, req[p].y) # NoBook
  /\ created' = IF created = NoFile THEN p ELSE created
  /\ createdPtr' = [createdPtr EXCEPT ![p] = created']
  /\ Goto(p, "ordering")
  /\ UNCHANGED <<disk, temp, paid, req, tempPtr, seen, outcome, interrupts>>

OrderRead(p) ==
  /\ pc[p] = "ordering"
  /\ seen' = [seen EXCEPT ![p] = disk[createdPtr[p]]]
  /\ Goto(p, "numbering")
  /\ UNCHANGED <<files, req, createdPtr, tempPtr, outcome, interrupts>>

\* fclose writes the new line at the end of the file as it is by now.
OrderAppend(p) ==
  /\ pc[p] = "numbering"
  /\ disk' = [disk EXCEPT ![createdPtr[p]] = Append(@, NewLine(p))]
  /\ Respond(p, "ordered")
  /\ UNCHANGED <<created, temp, paid, locals, interrupts>>

-----------------------------------------------------------------------------
(* PayForBook.                                                             *)

\* fopen("created_orders.txt", "r") and fopen("paid_orders.txt", "a").
PayOpen(p) ==
  /\ pc[p] = "parsed" /\ req[p].op = "pay"
  /\ \/ /\ created = NoFile
        /\ Die(p)
        /\ UNCHANGED createdPtr
     \/ /\ created # NoFile
        /\ createdPtr' = [createdPtr EXCEPT ![p] = created]
        /\ Goto(p, "paying")
        /\ UNCHANGED outcome
  /\ UNCHANGED <<files, req, tempPtr, seen, interrupts>>

\* fopen("temp.txt", "w") creates the file or empties the one that is there.
PayOpenTemp(p) ==
  /\ pc[p] = "paying"
  /\ temp' = IF temp = NoFile THEN p ELSE temp
  /\ tempPtr' = [tempPtr EXCEPT ![p] = temp']
  /\ disk' = [disk EXCEPT ![temp'] = <<>>]
  /\ Goto(p, "scanning")
  /\ UNCHANGED <<created, paid, req, createdPtr, seen, outcome, interrupts>>

\* temp.txt cannot be opened, and the check that follows (line 466) looks at
\* paidPtr: the child goes on without it, dies of the null stream if there is any
\* order to read (in fprintf or in fclose) and otherwise reports that there is none.
PayWithoutTemp(p) ==
  /\ \/ /\ pc[p] = "paying" /\ OpensMayFail
        /\ Goto(p, "templess")
        /\ UNCHANGED outcome
     \/ /\ pc[p] = "templess" /\ disk[createdPtr[p]] = <<>>
        /\ Goto(p, "orderless")
        /\ UNCHANGED outcome
     \/ /\ pc[p] = "templess" /\ disk[createdPtr[p]] # <<>>
        /\ Die(p)
  /\ UNCHANGED <<files, locals, interrupts>>

PayScan(p) ==
  /\ pc[p] = "scanning"
  /\ seen' = [seen EXCEPT ![p] = disk[createdPtr[p]]]
  /\ Goto(p, "scanned")
  /\ UNCHANGED <<files, req, createdPtr, tempPtr, outcome, interrupts>>

\* foundAnyOrder = 0: remove("temp.txt"), whoever's file that is by now.
PayNoOrders(p) ==
  /\ \/ pc[p] = "scanned" /\ seen[p] = <<>>
     \/ pc[p] = "orderless"
  /\ temp' = NoFile
  /\ Respond(p, "noorders")
  /\ UNCHANGED <<disk, created, paid, locals, interrupts>>

\* fclose(tempPtr) writes the buffered lines at offset 0.
PayCloseTemp(p) ==
  /\ pc[p] = "scanned" /\ seen[p] # <<>>
  /\ \E rest \in {Remaining(p)} :
        disk' = [disk EXCEPT ![tempPtr[p]] = Overlay(rest, @)]
  /\ Goto(p, "flushed")
  /\ UNCHANGED <<created, temp, paid, locals, outcome, interrupts>>

\* No such order: remove("temp.txt").
PayInvalid(p) ==
  /\ pc[p] = "flushed" /\ ~Found(p)
  /\ temp' = NoFile
  /\ Respond(p, "invalid")
  /\ UNCHANGED <<disk, created, paid, locals, interrupts>>

\* Mutant (not the code): the old orders are removed before the amount is
\* checked.
PayInsufficientTooLate(p) ==
  /\ pc[p] = "flushed" /\ Found(p) /\ ~Enough(p)
  /\ created' = NoFile
  /\ Respond(p, "insufficient")
  /\ UNCHANGED <<disk, temp, paid, locals, interrupts>>

\* The amount is too small: temp.txt is left behind.
PayInsufficient(p) ==
  /\ pc[p] = "flushed" /\ Found(p) /\ ~Enough(p)
  /\ Respond(p, "insufficient")
  /\ UNCHANGED <<files, locals, interrupts>>

\* Mutant (not the code): wasOrderCreated is not looked at.
PayRemoveUnchecked(p) ==
  /\ pc[p] = "flushed" /\ Enough(p)
  /\ created' = NoFile
  /\ IF created = NoFile THEN Die(p) ELSE Goto(p, "removed") /\ UNCHANGED outcome
  /\ UNCHANGED <<disk, temp, paid, locals, interrupts>>

\* remove("created_orders.txt"), which exits when there is no such name.
PayRemove(p) ==
  /\ pc[p] = "flushed" /\ Found(p) /\ Enough(p)
  /\ created' = NoFile
  /\ IF created = NoFile THEN Die(p) ELSE Goto(p, "removed") /\ UNCHANGED outcome
  /\ UNCHANGED <<disk, temp, paid, locals, interrupts>>

\* Mutant (not the code): a rename that fails is tried again.
PayRenameRetrying(p) ==
  /\ pc[p] = "removed" /\ temp # NoFile
  /\ created' = temp
  /\ temp' = NoFile
  /\ Goto(p, "renamed")
  /\ UNCHANGED <<disk, paid, locals, outcome, interrupts>>

\* rename("temp.txt", "created_orders.txt"), which exits when there is no
\* temp.txt and replaces a created_orders.txt that came into being meanwhile.
PayRename(p) ==
  /\ pc[p] = "removed"
  /\ \/ /\ temp = NoFile
        /\ Die(p)
        /\ UNCHANGED <<created, temp>>
     \/ /\ temp # NoFile
        /\ created' = temp
        /\ temp' = NoFile
        /\ Goto(p, "renamed")
        /\ UNCHANGED outcome
  /\ UNCHANGED <<disk, paid, locals, interrupts>>

\* Mutant (not the code): paid_orders.txt is opened with "w".
PayRecordTruncating(p) ==
  /\ pc[p] = "renamed"
  /\ paid' = <<Receipt(p)>>
  /\ Respond(p, "paid")
  /\ UNCHANGED <<disk, created, temp, locals, interrupts>>

\* fclose(paidPtr) appends the line of the order to paid_orders.txt.
PayRecord(p) ==
  /\ pc[p] = "renamed"
  /\ paid' = Append(paid, Receipt(p))
  /\ Respond(p, "paid")
  /\ UNCHANGED <<disk, created, temp, locals, interrupts>>

-----------------------------------------------------------------------------
\* The server is stopped from its terminal, which signals the children too,
\* and started again: the files are all that is left.
Interrupt ==
  /\ interrupts < MaxInterrupts
  /\ interrupts' = interrupts + 1
  /\ pc' = [p \in Procs |-> IF pc[p] \in {Unborn} \cup Ended THEN pc[p] ELSE "dead"]
  /\ UNCHANGED <<files, locals, outcome>>

OrderBook(p) == OrderNoBook(p) \/ OrderOpen(p) \/ OrderRead(p) \/ OrderAppend(p)
PayForBook(p) ==
  \/ PayOpen(p) \/ PayOpenTemp(p) \/ PayWithoutTemp(p) \/ PayScan(p) \/ PayNoOrders(p)
  \/ PayCloseTemp(p) \/ PayInvalid(p) \/ PayInsufficient(p)
  \/ PayRemove(p) \/ PayRename(p) \/ PayRecord(p)
Child(p) ==
  \/ DisplayCatalog(p) \/ Browse(p) \/ ShortRequest(p) \/ OpenFails(p)
  \/ OrderBook(p) \/ PayForBook(p) \/ Reply(p)

\* fork fails, for exited children are never waited for and keep their pids:
\* the datagram is gone and the server goes on with the next one.
ForkFails == (\A p \in Procs : pc[p] # Unborn) /\ UNCHANGED vars

Next ==
  \/ \E p \in Procs, r \in Requests : Fork(p, r)
  \/ \E p \in Procs : Child(p)
  \/ ForkFails
  \/ Interrupt

Spec == Init /\ [][Next]_vars

\* No child is between two accesses to the files.
Idle(p) == pc[p] \in {Unborn, "responding"} \cup Ended
Quiet == \A p \in Procs : Idle(p)

\* One user who waits for each answer: a request arrives only when the files
\* are at rest, and nobody stops the server.
SerialNext ==
  \/ Quiet /\ \E p \in Procs, r \in Requests : Fork(p, r)
  \/ \E p \in Procs : Child(p)
  \/ ForkFails
SerialSpec == Init /\ [][SerialNext]_vars

\* Any number of users order at once, but payments come one at a time.
NoPayment == {p \in Procs : ~Idle(p) /\ req[p].op = "pay"} = {}
OnePayerNext ==
  \/ \E p \in Procs, r \in Requests : (r.op # "pay" \/ NoPayment) /\ Fork(p, r)
  \/ \E p \in Procs : Child(p)
  \/ ForkFails
  \/ Interrupt
OnePayerSpec == Init /\ [][OnePayerNext]_vars

-----------------------------------------------------------------------------
(* Properties.                                                             *)

\* Every variable has its type.
TypeOK ==
  /\ disk \in [Inode -> Seq(Line)]
  /\ created \in Inode \cup {NoFile}
  /\ temp \in Inode \cup {NoFile}
  /\ paid \in Seq(Line)
  /\ pc \in [Procs -> PC]
  /\ req \in [Procs -> Requests \cup {NoRequest}]
  /\ createdPtr \in [Procs -> Inode \cup {NoFile}]
  /\ tempPtr \in [Procs -> Inode \cup {NoFile}]
  /\ seen \in [Procs -> Seq(Line)]
  /\ outcome \in [Procs -> Outcome]
  /\ interrupts \in 0..MaxInterrupts

\* A child gets to a step only with what the steps before it must have found
\* or opened: it orders a book of the catalogue, removes created_orders.txt for
\* an order that it has read and an amount that is enough, uses a stream only
\* once it is open, and answers only when it is done.
StepsFit ==
  \A p \in Procs :
     /\ pc[p] # Unborn => req[p] \in Requests
     /\ pc[p] \in OrderSteps =>
          req[p].op = "order" /\ BookToOrder(req[p].x, req[p].y) # NoBook
     /\ pc[p] \in PaySteps => req[p].op = "pay"
     /\ pc[p] \in OrderSteps \cup PaySteps => createdPtr[p] \in Inode
     /\ pc[p] \in PaySteps \ NoTemp => tempPtr[p] \in Inode
     /\ pc[p] \in {"removed", "renamed"} => Found(p) /\ Enough(p)
     /\ outcome[p] # "none" => pc[p] \in {"responding"} \cup Ended

Ordered == {p \in Procs : outcome[p] = "ordered"}
Settled == {p \in Procs : outcome[p] = "paid"}
Issued == Lines(Shipped) \cup {NewLine(p) : p \in Ordered}
IssuedCopies(l) ==
  Copies(Shipped, l) + Cardinality({p \in Ordered : NewLine(p) = l})

\* No two payments have had the same temp.txt (server.c:465): the name was free
\* whenever one opened it, and none removed it that had not opened it.
TempsUnshared ==
  /\ \A p, q \in Procs : p # q /\ tempPtr[p] # NoFile => tempPtr[p] # tempPtr[q]
  /\ \A p \in Procs : outcome[p] = "noorders" => tempPtr[p] # NoFile

\* As long as no two payments have had the same temp.txt, no file holds a line
\* that nobody placed, or one more often than it was placed: however orders and
\* payments overlap, whatever old file a payment still reads while another
\* replaces it, and whenever they are killed (server.c:476-518).  Without the
\* premise this is false: a buffer that ends in the middle of another payment's
\* line leaves the end of it, which may read as an order of another number.
UnsharedTempsInventNothing ==
  TempsUnshared =>
    /\ \A i \in Inode : \A l \in Lines(disk[i]) : Copies(disk[i], l) <= IssuedCopies(l)
    /\ Lines(paid) \subseteq Issued

\* paid_orders.txt holds one line for each payment that was accepted, the line
\* of the order it settled, and nothing else: no overlapping payment or
\* restart loses or repeats a receipt.
ReceiptsMatchPayments ==
  \A l \in Lines(paid) \cup {Receipt(p) : p \in Settled} :
     Copies(paid, l) = Cardinality({p \in Settled : Receipt(p) = l})

\* The child has got past remove("created_orders.txt"), or it has died without
\* an outcome after it opened temp.txt, so that it may have.
MayHaveRemoved(p) ==
  \/ pc[p] \in {"removed", "renamed"}
  \/ outcome[p] = "paid"
  \/ pc[p] = "dead" /\ outcome[p] = "none" /\ tempPtr[p] # NoFile

\* The lines a process that opens created_orders.txt now would find.
OpenLines == IF created = NoFile THEN <<>> ELSE disk[created]

\* Payments that are refused, invalid or without an order to read cost no
\* order, whatever they overlap with and whether or not they are killed before
\* they answer, and neither do those that die before they open temp.txt: as long
\* as no payment has got to removing created_orders.txt, or may have when it was
\* killed, that file holds each order exactly as often as it was issued
\* (server.c:451-547).
RefusedPaymentsLoseNothing ==
  (\A p \in Procs : ~MayHaveRemoved(p))
     => \A l \in Issued \cup Lines(OpenLines) :
           Copies(OpenLines, l) = IssuedCopies(l)

\* As long as no payment has removed anything, concurrent children may draw the
\* same number but skip none: every number below one in use is in use.
NoNumberSkipped ==
  (\A p \in Procs : ~MayHaveRemoved(p))
     => \A l \in Lines(OpenLines) : \A n \in 1..l.num :
           \E k \in Lines(OpenLines) : k.num = n

\* With one payment at a time, whatever orders overlap with it and whenever
\* the server is stopped, no order is open or paid more often than it was
\* issued: none is charged twice, none that was paid comes back.
NothingTwice ==
  \A l \in Lines(OpenLines) \cup Lines(paid) :
     Copies(OpenLines, l) + Copies(paid, l) <= IssuedCopies(l)

\* The open orders have ascending numbers, so that an order number names one
\* open order.
OpenNumbersAscend == Ascending(OpenLines)

\* What "Check if amount sent is enough" (server.c:508) says of a payment
\* that is accepted: the amount covers the total of the order it settles.
AmountWasEnough ==
  \A p \in Settled : req[p].amount >= Receipt(p).total

\* Every child the server forks comes to an end: no interleaving on the files
\* makes one wait for another.
EveryChildEnds == \A p \in Procs : pc[p] = "parsed" ~> pc[p] \in Ended

-----------------------------------------------------------------------------
(* With one request at a time the files implement an order ledger: a       *)
(* payment takes effect when created_orders.txt is removed.                *)

PayingNow == {p \in Procs : pc[p] \in {"removed", "renamed"}}
LedgerOpen ==
  IF \E p \in Procs : pc[p] = "removed"
  THEN disk[tempPtr[CHOOSE p \in Procs : pc[p] = "removed"]]
  ELSE OpenLines
LedgerPaid ==
  IF PayingNow = {} THEN paid
  ELSE Append(paid, Receipt(CHOOSE p \in PayingNow : TRUE))

LedgerPayments ==
  {[order |-> Receipt(p), amount |-> req[p].amount] : p \in Settled \cup PayingNow}

Totals == {TotalPrice(r.x, r.y, r.n) :
             r \in {q \in Requests : q.op = "order"
                                     /\ BookToOrder(q.x, q.y) # NoBook}}
Amounts == {r.amount : r \in {q \in Requests : q.op = "pay"}}

Ledger == INSTANCE OrderLedger
  WITH open <- LedgerOpen, settled <- LedgerPaid, payments <- LedgerPayments

\* Each request, as a sequence of a dozen system calls, amounts to one step of
\* the ledger or to none.
ImplementsLedger == Ledger!Spec

\* No order is lost or doubled on its way: at every moment the open and the
\* settled orders of the ledger are together the orders that were issued.
Conservation ==
  \A l \in Issued \cup Lines(LedgerOpen) \cup Lines(LedgerPaid) :
     Copies(LedgerOpen, l) + Copies(LedgerPaid, l) = IssuedCopies(l)
=============================================================================
