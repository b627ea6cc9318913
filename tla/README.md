# Verification of the book servers

TLA+ models of the networked book shops in this repository, TLC configurations that check them
on small instances, and TLAPS proofs of theorems about them for every value of the constants.
`PROJECT.json` lists components, runs, mutants (seeded bugs that the properties must detect),
the source lines each definition stands for, hazards, findings and theorems.

## 1. The system

The repository is a set of client/server programs written for a networking course: the same
book shop (display the catalogue, search, order, pay) over four kinds of sockets, a calculator
over some of them, and smaller examples.

| | component | source | state | operations | status |
|---|---|---|---|---|---|
| A | concurrent connectionless book server and client (UDP, `fork` per datagram) | `concurrent-connectionless/server.c`, `client.c` | `books2.txt` read once into memory; `created_orders.txt`, `paid_orders.txt`, `temp.txt` on disk; per child its parsed request, two streams, loop variables; the client's `params` buffer | `DisplayCatalog`, `SearchBook`, `OrderBook`, `PayForBook`, menu, `sendto`/`recvfrom` | modelled |
| B | concurrent connection-oriented book server and client (TCP, detached thread per connection) | `concurrent-connection-oriented/books_server.c`, `books_client.c`, `interface.h`, `data.h` | `books.txt`, `orders.txt`; per thread `data` and `response` | the same four over `interface.h` | modelled |
| C | iterative connection-oriented book server (TCP) | `iterative-connection-oriented/server.c`, `client.c` | as B, one connection at a time, the others in the backlog | the same; answers to failures and payments are string literals that are overwritten and freed | modelled |
| D | iterative connectionless book server (UDP) | `iterative-connectionless/books_server_udp.c`, `books_client_udp.c` | as B, no connection | the same; `-2` is answered as an order number, a payment fails only for a negative total | modelled |
| E | calculators | `*/calculator*.c`, `*/calculator.h` (two identical copies) | none between requests | arithmetic in `int`/`double` | not modelled (section 7) |
| F | calculator over UDP with `fork` | `ass-4-concurrent-connectionless/` | none between requests | as E; `calcdata.h:10` and the menu of `client.c:69-70` number square and square root differently | not modelled (section 7) |
| G | local shopping prototype | root `main.c`, `server.c`, `client.c`, `helpers.c` | an array of purchases that doubles | does not compile as committed | not modelled |
| H | echo programs, experiments | `echo_*.c`, `example.c`, `client-test.c`, `test2.c` | none | a straight line of socket calls | not modelled |
| I | HTTP client | `ass5/` | none | one request, one read loop | not modelled |

### How the parts interact, and what is hard

**A.** The client fills a text buffer with an option and its lines, sends one datagram and blocks
in `recvfrom` with no timeout.  The server forks a child per datagram; the parent never waits
for children.  The children share three files and no lock.  `OrderBook` opens
`created_orders.txt`, reads it to find the last order number, and appends a line when the stream
is closed.  `PayForBook` copies all lines but one to `temp.txt`, removes `created_orders.txt`,
renames `temp.txt` to it and appends the removed line to `paid_orders.txt`.  Between any two of
these system calls any other child may run, and the server may be stopped and started again.
Each `fopen` may fail; the check after the one of `temp.txt` looks at the wrong pointer.
Correct means: no order is invented, doubled or lost; the receipts are those of the accepted
payments; an order number names an order; a client is shown the answer to its request.

**B.** The client sends a `struct Data` over its connection and reads the answer.  Each thread
appends to the shared `orders.txt`, then counts its lines to find the order number.  A response
that is a string literal (`"Book Not Found"`, and the answer to `-2`) is written to and freed
after it was sent, which ends the process and so every other client's connection.  A response
without bytes, that to an empty range of the catalogue, is never sent: client and thread then
wait for each other.  `SearchBook` leaves `books.txt` open when it finds nothing, so the process
runs out of descriptors, and it ends where `fopen`'s `NULL` meets `fgets`.  Correct means:
a request is served once and for the client that waits for it; the number a client is told is
that of a line; the number is what a payment is looked up by.

**C** serves the same `orders.txt` one connection at a time, to its end; the others wait in the
backlog, connected and free to write their requests.  All answers to a payment are literals, so
each payment ends the process, with the backlog and the requests in it.  What is hard is whose
turn comes when, and what is left behind by the process that ended.

**D** serves one datagram at a time.  Nothing ties an answer to a request, the client's timeout
is commented out, and `sendto` succeeds when nobody listens.  `PayForBook`'s results are taken
differently: only a negative total is a failure, and the amount is not compared at all.

**E, F** keep no state between requests and share none.

## 2. The modules

    OrderLines      the lines of the order files and the computations on them      (A)
    BookCatalog     the catalogue and the book that OrderBook chooses              (A)
    BookServer      the children and the three files                               (A)
      EXTENDS BookCatalog, OrderLines;  INSTANCE OrderLedger (refinement)
    OrderLedger     the abstract ledger: a list of open orders, payments, receipts (A)
    OrderFileLoops  the line loops of OrderBook and PayForBook, line by line       (A)
    CatalogLoops    the two loops of DisplayCatalog, with the bytes they count     (A)
      EXTENDS BookCatalog
    BookSystem      clients and network around BookServer                          (A)
      EXTENDS BookServer
    OrderLinesProofs   lemmas about the operators of OrderLines                     (A)
    BookServerProofs   theorems of Spec, for any interleaving                       (A)
    BookLedgerProofs   theorems of OnePayerSpec and SerialSpec; the ledger          (A)
    BookSystemProofs   theorems of clients, network and server together             (A)
    OrderLog        the functions of interface.h over books.txt and orders.txt     (B, C, D)
    BookFileLoops   the line loops of interface.h, line by line              (B, C, D)
      EXTENDS OrderLog
    OrderDesk       what the servers over interface.h promise about orders   (B, C, D)
    ThreadServer    connections, threads and clients                               (B)
      EXTENDS OrderLog;  INSTANCE OrderDesk (refinement)
    IterativeServer the backlog, and one connection at a time                      (C)
      EXTENDS ThreadServer;  INSTANCE OrderDesk (refinement)
    DatagramServer  one datagram at a time, clients and network                    (D)
      EXTENDS OrderLog;  INSTANCE OrderDesk (refinement)
    ThreadServerProofs       theorems; the order desk                              (B)
    IterativeServerProofs    theorems; the order desk                              (C)
    DatagramServerProofs     theorems; the order desk                              (D)
    FileLoopsProofs          theorems about the loops                     (A, B, C, D)
    MCBookServer, MCBookSystem, MCThreadServer, MCIterativeServer, MCDatagramServer,
    MCFileLoops     instances for TLC

### BookServer and the code

One action is one system call on a shared file, with the computation up to the next one.
`pc[p]` names the point between two calls:

| pc | the child is | next actions |
|---|---|---|
| `parsed` | past `strtok` | `DisplayCatalog`, `Browse`, `ShortRequest`, `OpenFails`, `OrderNoBook`, `OrderOpen`, `PayOpen` |
| `ordering` | past `fopen(created, "a+")` (server.c:379) | `OrderRead` |
| `numbering` | past the `fgets` loop (389-393) | `OrderAppend` (the line reaches the file at `fclose`) |
| `paying` | past `fopen(created, "r")` and `fopen(paid, "a")` (451-463) | `PayOpenTemp`, `PayWithoutTemp` |
| `templess` | past an `fopen(temp, "w")` that failed, which 466 does not notice | `PayWithoutTemp` (dies of the null stream if there is a line to read) |
| `orderless` | past the `getline` loop over an empty file, without `temp.txt` | `PayNoOrders` |
| `scanning` | past `fopen(temp, "w")` (465) | `PayScan` |
| `scanned` | past the `getline` loop (476-493) | `PayNoOrders`, `PayCloseTemp` |
| `flushed` | past `fclose(temp)` (503-504) | `PayInvalid`, `PayInsufficient`, `PayRemove` |
| `removed` | past `remove(created)` (512) | `PayRename` |
| `renamed` | past `rename` (517) | `PayRecord` (the line reaches `paid_orders.txt` at `fclose`) |
| `responding` | in `sleep(5)`, its outcome decided | `Reply` |

A file is an inode: `disk` maps inodes to contents, `created` and `temp` are the names' bindings,
`createdPtr` and `tempPtr` the inodes behind each child's streams.  So a child goes on reading an
unlinked file, and writes into an inode that another child has renamed.  A child creates at most
one file, which is why its own name serves as the inode's.  `seen` is what a child has read; the
loop variables of the code (`lastOrderNumber`, `currentTotalPrice`, `wasOrderCreated`,
`paidLine`) are the operators of `OrderLines` on `seen`.  That those operators are what the loops
compute is a run of its own and a theorem, over `OrderFileLoops`, whose variables are the code's.

Two payments with one `temp.txt` write at offset 0 over each other's text, and the shorter buffer
leaves the end of the longer text, which may begin in the middle of a line.  `OrderLines` counts
bytes for this: a line is the two numbers that were printed and `cut`, how many bytes it has lost
at its front.  `Overlay` cuts the old text at the length of the new one, and `HasBoth`, `HasNumber`
and `Number` are what `sscanf` finds in what is left of a line: both numbers, the first with fewer
digits; or the total alone, taken for the first; or nothing.  A line without both numbers is
dropped from `temp.txt` by line 480, and `lastOrderNumber` keeps what a partial `sscanf` gives it.

With `OpensMayFail` an `fopen` may fail at any time.  For the first two files of a request the
child exits (`OpenFails`).  For `temp.txt` it goes on (`PayWithoutTemp`): it dies in `fprintf` or
`fclose` of a null stream, or, if no order could be read, removes whatever is named `temp.txt`.

`DisplayCatalog` touches no shared file and is one step.  Its buffer is measured by X and Z and
filled up to M, so unless `CatalogFits` the child may read past the array or write past the
buffer, and what comes of that is either an answer or its death.  That the two loops stay in
bounds exactly if `CatalogFits` is checked and proved over `CatalogLoops`, which counts the bytes.

`Interrupt` is the server stopped from its terminal at any moment and started again: all
children die and the files remain.  `ForkFails` is `fork` returning -1, which the server does not
check.

`OrderLedger` says what the server promises when one request is served at a time: `Place` adds
an order numbered one above the last, `Settle` moves one order from the open to the paid.  The
refinement in `BookServer` lets a payment take effect at `remove("created_orders.txt")`; while a
payment is past it, the open orders are those in its `temp.txt`.

### BookSystem and the code

Clients run the loop of `client.c`: `Ask` is the menu, the prompts and `sendto`, `Display` is
`recvfrom`.  `params` is the buffer that keeps its contents from one request to the next and is
uninitialised at the start (any one line, or none).  A datagram's `id` is an observation of the
model that the code does not have: it lets a property say which request an answer is for.
`Parse` is the `strtok`/`atoi` code in the child.  `SystemAssumption` gives the server's `Requests` all
that some datagram may be parsed into (`Parsable`), stale lines included.  The network loses datagrams, delivers them in
any order, and delivers at most `MaxDup` twice.

### OrderLog, OrderDesk and the code

`OrderLog` holds the functions of `interface.h` as operators: `SearchBook` (the first line of
`books.txt` that holds a word, the header included), `Billed` (the line that `PayForBook`'s loop
leaves in its buffer), `Total` (the product of two `int`s, which wraps around at `2 * IntHalf`),
`PayForBook`, `PayMayCrash`, `Displayed` (the lines `DisplayCatalog` appends).
The empty log is a missing `orders.txt`, whose `NULL` ends the process, or an empty one, such as
`fopen` with `a+` makes before `fclose` writes the first line: in it a payment finds no order, or,
for a number that is not above zero, bills what lies in its buffer (any `int`).
`PayForBook` copies a title without terminating it, so what it looks up is the title followed by
what was on the stack: the model takes any line that has the title, or the free of the static
answer, which ends the process.  `BookFileLoops` has the loops themselves, with the variables of
the code, and shows that they compute these operators.

`OrderDesk` is what a client may rely on, whatever the transport: it wants a line logged (`Want`),
the line is logged once at the end (`Place`), and it is told the number (`Tell`), or the request
or the number is lost (`Drop`); no line is ever changed or removed.  With `Shared` the number
may be that of a line logged after the client's own, which is all that B can promise; C and D are
shown to implement it with `Shared` false.

### ThreadServer and the code

`thread[c]` is the server's end of client c's connection (`queued` in the backlog, `reading`,
`counting` between the two halves of `OrderBook`, `replying` in `sleep(5)`, `freeing` between
`write` and `free`, `closed`), `client[c]` the client's end, `data[c]` the request in the socket
or under service.  `OrderAppend` and `OrderCount` are the two halves of `OrderBook`, on either
side of the `fclose` at which the line reaches the file.  `Free`, `PayCrash`, `CannotOpen` and
`ThreadFails` are where the process may end (`Die`); `Restart` starts it again.
`ThreadFails` is `pthread_create` failing: the socket is closed and its memory freed, and then
`pthread_detach` gets the identifier of an earlier thread or an uninitialised one, which may end
the process or do nothing.  `FileLeft` says whether another descriptor can be had: each
connection takes one and each failed search leaks one.  `MayBeEmpty` says when `orders.txt` may be
there without a line: while another thread is in `OrderBook`, or after a process that ended in
there.  It allows more than the code does after every restart, and in C, where no other thread
exists.  `place` and `unheard` are observations:
where each client's last order is in the log, and who was sent an answer of no bytes.

### IterativeServer and the code

The iterative server's `handle_client` makes the same calls as the thread server's, and
its client is the same program, so `IterativeServer` extends `ThreadServer`: `IterHandle` is its
`Handle`, `IterAccept` its `Accept` when no connection is being served, in the order of `backlog`.
What differs is in the constants: which answers are literals.  `IterConnect` succeeds while the
kernel has room for the connection; there is no thread to create, so no `ThreadFails`.

### DatagramServer and the code

`mailbox` is the server's socket, `inbox[c]` a client's, `turn` the response of the request that is
being served (`sleep(5)` lies between it and `Send`).  Serving reads the first datagram, calls the
function of `interface.h` and fills in the response in one step, for nobody else uses the files
while it does.  The client can only use the loopback interface (its address is fixed,
`books_client_udp.c:28`), on which datagrams keep their order and are not doubled, but are dropped
when a socket's buffer is full or nobody listens: `Ask` may lose the request, `Lose` the answer,
`Die` all that is in the mailbox.  `lost`, `ordered` and `told` are observations: whose request or
answer was lost, which line a waiting client has asked for, and which order numbers clients were
shown for which lines.

## 3. What the runs check

| run | instance | what it shows |
|---|---|---|
| `concurrent` | three children, all requests, opens that fail, one restart | `TypeOK`, `StepsFit`; under every interleaving: as long as no two payments have had the same `temp.txt`, no file holds a line that was not shipped or added by a completed `OrderBook`, or one more often than that (`UnsharedTempsInventNothing`); `paid_orders.txt` has exactly one line per accepted payment, shared `temp.txt` or not (`ReceiptsMatchPayments`); payments that are refused, invalid, without orders or dead before they open `temp.txt` cost no order (`RefusedPaymentsLoseNothing`); overlapping orders share numbers but skip none (`NoNumberSkipped`) |
| `one_payer` | three children, payments one at a time among overlapping orders, opens that fail, two restarts | no order is open or paid more often than it was issued (`NothingTwice`) |
| `serial` | three requests one at a time, opens that fail | the code implements `OrderLedger` (`ImplementsLedger`) and loses or doubles nothing on the way (`Conservation`) |
| `one_client` | one client, three requests, a duplicate, losses, two restarts | as long as nothing arrives twice: what is shown answers the last request (`AnswersOwnRequest`), requests reach the files one by one (`ServesOneByOne`, the assumption of `serial`), the open orders' numbers ascend even if the server was stopped in mid-request (`NumbersStayClear`) |
| `two_clients` | two clients with two requests each, two pids, fair scheduling, losses, one restart | a client waits for ever only if a datagram was dropped, by the network or by a `fork` that found no pid left, or its child died (`EveryRequestSettles`); no child waits for another (`EveryChildEnds`) |
| `loops` | every `created_orders.txt` of up to four lines (whole ones, and ones that have lost a digit, a number or all but the newline), every `orders.txt` of up to three, every range of a three-book catalogue, with numbers below and above them | the loops compute the operators of `OrderLines` (`LoopsCompute`) and of `OrderLog` (`ScansCompute`) after every line; A's `DisplayCatalog` stays within its array and buffer exactly if `CatalogFits` (`DisplayComputes`) |
| `threads` | two clients, all requests, three descriptors, one restart | `TypeOK`; clients and threads stay in step (`InStep`); the number told is that of the client's line or of a later one, and stays so (`NumberCoversOrder`); the threads implement the order desk (`ImplementsDesk`); every client is answered or learns that the server is gone, unless its answer has no bytes or the descriptors are used up (`EveryClientIsServed`) |
| `iterative` | three clients, room for one in the backlog, three descriptors, one restart | one connection is served at a time, and the backlog is exactly the connections not accepted yet (`OneAtATime`); if no user stays at a menu and no session goes on for ever, everybody's turn comes, unless one is stuck (`TurnComes`); the desk with every client's own number (`ImplementsOwnDesk`) |
| `datagrams` | two clients, all requests, losses, two descriptors, one restart | `TypeOK`; a client that waits has one request or answer on its way or has lost it, and at the menu it has none (`OneOnItsWay`); a payment with a number that was told is answered as a bill for the same line, also in a later process: the client's own while it is the last, the next one from then on (`ToldNumbersKeepTheirMeaning`); only what was lost is never answered (`EveryRequestSettles`); the desk with every client's own number (`ImplementsDesk`) |
| `amount_enough` | one request at a time | finding 1 |
| `user_choice` | one client | finding 2 |
| `bills` | one client | finding 3 |

**Why the bounds are enough.**  `Procs`: the hazards of A involve two payments that share
`temp.txt` and a third child, an order or another payment, that runs between `remove` and
`rename`; three children give all of these.  (`Procs` also bounds the requests of a behaviour,
for a child serves one.)  `MaxInterrupts`: one restart leaves a `temp.txt` or a missing
`created_orders.txt` behind, a second one acts on what the first left.  `MaxAsked = 3`: an order,
a payment and a request after them; with `MaxDup = 1` one duplicate.  `MaxAsked = 2` of two
clients on two `Procs`: every request after the second meets a server that cannot fork.
`Shipped`: two orders, the first dearer, so that the last total differs from the paid one, and
longer by a digit, as in the repository, so that a text written over another ends within a line.  `MaxLines = 4` for the loops: a
match before, between and after other lines, and a repeated number.  `MaxOrders` bounds what
users add to `orders.txt`: two orders are enough to overlap, and for the first not to be the
last; `MaxRestarts = 1` lets clients of the first process meet the second.  `MaxFiles`: two
connections and one file, so that a single leaked descriptor is the end.  `MaxBacklog = 0` (the
kernel keeps one more) makes a third client meet a full backlog, where the code has ten.
`IntHalf = 8`: `int`s of four bits, which two small factors overflow.

**Deadlock.**  The runs of `BookServer` check deadlock: the server's loop never ends.  In
`BookSystem`, `ThreadServer`, `IterativeServer` and `DatagramServer` the users may all leave, and in
`MCFileLoops` the loops end, so those runs do not.  That clients and servers wait for each other is
what the liveness properties are about.

**Fairness.**  Weak fairness of each child, of the server's receive loop, of each thread and of
each client's `read`/`recvfrom`: a process or thread with something to do is scheduled, and data
that is not lost arrives.  Nothing is assumed of users, of restarts or of losses, except in
`TurnComes`, whose premise is that every user leaves the menu in the end and no session goes on for
ever: in C a user who stays keeps all others waiting, by the design of an iterative server.  An
`fopen` that fails (`OpensMayFail`) is always one of two outcomes of the same call, so fairness
of a child never forces a failure where the call could also succeed.

## 4. Findings

1. `PayForBook` compares the amount with the total of the *last* order in the file, not of the
   order that is paid (server.c:509, after the loop of 476-493; "Check if amount sent is enough",
   508).  `OrderLedger` describes the code as it is; run `amount_enough` shows a dear order paid
   with a cheap one's price.
2. The client's "Checking if valid option" (client.c:85) lets 0 and a mere newline through, which
   leaves an earlier request's lines in `params`; the server reads the first of them as the
   option.  Run `user_choice` shows a catalogue request turn into a payment.
3. `OrderBook` numbers orders from one, `PayForBook` of `interface.h` looks for them from zero, so
   a payment is billed for the following order (interface.h:105), and for a number beyond the log
   `-1` is compared with the amount and taken for a success (books_server.c:85).  The function is
   marked as a placeholder (interface.h:97); the server uses it.

Noted while modelling, and visible in the models, without a run of their own:

- An empty range of the catalogue makes a response of no bytes (interface.h:151, books_server.c:102):
  client and thread wait for each other (`unheard`), and in C every other client with them (`Stuck`).
- In C each payment ends the server (server.c:61-71), in B each search that finds nothing.
- D tells `-2` as the number of a successful order (books_server_udp.c:48-51; `OrderUnwritten`), with
  which one pays for the last line (`StandsFor`), and takes any amount as enough (line 55).
- In D, too, a number that was told is billed for the order after it as soon as there is one
  (finding 3; `StandsFor`).
- When `temp.txt` cannot be opened, server.c:466 checks `paidPtr`, so the child dies of a null
  stream without an answer (`PayWithoutTemp`).
- A large order's total overflows, and a negative total is enough in B and C, and "does not exist"
  in D (interface.h:130; `Bill`).
- The header of `books.txt` is searched like a book: "Title" can be ordered, at the price 0.
- F's menu says square root for 3, and its server squares (client.c:69, server.c:121).

Some statements one would like do not hold and are therefore not stated: with two payments at
once orders can be lost (an order appended between scan and remove goes with the old file) and
paid twice; overlapping orders share a number; a server stopped between `remove` and `rename`
loses the open orders until the next payment, and one stopped before the receipt loses the
receipt.  Two payments with one `temp.txt` even make orders up: `3\t123` written over `1\t10` and
`12\t30` leaves the line `2\t30`, which can be paid as order 2.  The properties above are what
remains true; the hazards in `PROJECT.json` say for each which part it covers and which goes wrong.

## 5. What is proved

`BookServerProofs`, for every catalogue, set of requests, number of children, shipped file and
number of restarts that satisfy `CatalogAssumption` and `ServerAssumption` (types, and that
inodes, names and the absent request are different values):

- `Typing`: `Spec => []TypeOK`.
- `Stepping`: `Spec => []StepsFit`.  `TypeOK` is not inductive: a step applies a file to
  `createdPtr[p]`, a receipt to a line that must be there.  `TypeOK /\ StepsFit` is; the lemma
  `StepFits` has one step per action.  `StepsFit` carries what the earlier checks established, for
  instance that a child past `remove` has found its order and a sufficient amount.
- `UnsharedInventsNothing`: `Spec => []UnsharedTempsInventNothing`.  The premise, `TempsUnshared`, is what the
  code does not ensure (section 4); under it the proof has to show that nothing else invents a
  line.  `TempOwned`: a file named `temp.txt` is one that some payment has opened, so whoever opens
  the name unshared finds it free; until it renames the file the name stays its own, and until it
  writes, the file is empty: `Overlay` then never cuts a line.
  `CountsFit`: no inode, nor what a child has read and may still write after any delay, holds a line
  more often than it was issued; `IssuedGrows` shows that the issued lines only grow, although they
  are defined from the children's present state.  The step follows from what `Without`, `PaidLine`
  and `Append` do to the copies of a line.
- `ReceiptForEachPayment`: `Spec => []ReceiptsMatchPayments`.  Inductive with `Counted` (finitely many children have
  ordered or paid, so a cardinality grows by one when one does), `SettledFound` (a payment that
  went through still has the order it found) and `ReceiptsCounted`, which says of every line what
  the property says of those in use.
- `FilesApart`: `Spec => [](FreshFiles /\ TempApart)`, the facts about names and inodes that all counting
  needs: a file that a child is yet to create is empty and nothing refers to it; the file named
  `temp.txt` is never the one named `created_orders.txt`, nor one that a child has open under that
  name.  This is not evident, since payments rename each other's `temp.txt`.
- `RefusalsLoseNothing`: `Spec => []RefusedPaymentsLoseNothing`.  While no payment may have removed the file
  (`Calm`), `CalmFiles` holds: every stream on `created_orders.txt` is on the file of that name and none on `temp.txt`
  is.  So an append adds one copy to the open lines, and nothing else touches them (`OpenCounted`).
- `NoGaps`: `Spec => []NoNumberSkipped`, if `NumbersComplete(Shipped)`.  What a child has read is still in the file
  (`CalmFiles`), so the number below the one it gives is in use (`OpenComplete`).

`BookLedgerProofs`, of the specifications that restrict overlapping:

- `ChargedOnce`: `OnePayerSpec => []NothingTwice`.  `PayerFiles` says that between its steps the one payer finds `temp.txt` as
  it left it although orders run meanwhile.  `Accounted` bounds three counts at once: the open and the
  paid copies, what the payer has read, and what it has still to record.  A payment removes its order
  from the file before it writes the receipt, so the sum never exceeds what was issued.
- `NumbersAscend`: `StoppedSpec => []OpenNumbersAscend`, if `Ascending(Shipped)`, where `StoppedSpec` is one request at a time and the
  server stopped at any point.  `ServedFiles`: the one child that runs has read exactly the open
  lines, so the number it appends is above all others.
- `FilesImplementLedger`: `SerialSpec => ImplementsLedger`.  `LedgerView` describes the ledger's two lists at each
  `pc`; `LedgerStep` then has three cases, `Place` (`OrderAppend`), `Settle` (`PayRemove`) and a stutter.
- `OrdersConserved`: `SerialSpec => []Conservation`, if `Ascending(Shipped)`.  The argument is on the ledger (`Balanced`): as its numbers
  ascend, `Settle` takes one copy of one line from the open list, the one it adds to the paid.

Two of these need a premise about the shipped file, and the file in the repository (numbers 1 and 2)
satisfies both.  The properties are false without: a gap in the shipped file is one from the start, and two
shipped orders of one number are removed by one payment, which writes one receipt.

`BookSystemProofs`, for every number of clients and requests, losses, duplicates and restarts that
satisfy `SystemAssumption`:

- `SystemTyping`: `SystemSpec => []SystemTypeOK`, with `Answering`: a child that is about to reply has an outcome, and serves a datagram.
- `SystemServes`: `SystemSpec => Spec`.  Every step of the system is one of the server or leaves the server's variables
  alone; the point is that `Parse` yields one of the `Requests` whatever lines a datagram carries.  All
  theorems of `BookServerProofs` thereby hold of the system.
- `AnswersAreOwn`: `SystemSpec => []AnswersOwnRequest`, from `Own`: until a datagram is delivered twice, each client has
  at most one request under way, child at work or answer under way, all three of its last request.
  There is one lemma for each way in which these pass into one another (`AskOne`, `ReceiveOne`, `SendOne`,
  `DisplayOne`), and `FewerEach` for the steps that only take away.
- `SingleClientSerial`: `SystemSpec => ServesOneByOne`, if there is a single client.  `Own` leaves no child at work when the
  next request is received.
- `SingleClientNumbers`: `SystemSpec => []NumbersStayClear`, if also `Ascending(Shipped)`.  Once a datagram is delivered twice nothing is
  claimed, and `DupsGrow` shows that this cannot be undone.
- `SingleClientLedger`: `SystemSpec => SerialSpec /\ ImplementsLedger`, for a single client, no duplicates and no restarts.  `SerialSpec`, the
  premise of the ledger theorems, is thus what one client brings about.

"A single client" is `\A b, c \in Clients : b = c`.

`OrderLinesProofs` has the lemmas about the operators of `OrderLines`: their types; that a filtered, overlaid
or extended file consists of lines of its parts; how many copies of a line each has
(`AppendCopies`, `WithoutCopies`, `WithoutAndReceipt`: a payment takes away at least what its receipt adds); that
appending and filtering keep numbers ascending; that a text has finitely many bytes (`SizeBound`,
`BytesFinite`), so that `Overlay` leaves a file of lines (`OverlayType`) and over an empty file just
what is written (`OverlayEmpty`); and `Nth`, by which the remaining lines are
enumerated (`NthType`, `NthAscends`, `NthOnto`).

`FileLoopsProofs`, for every file and number (`LoopsAssumption`, `WidthAssumption`, `ScanAssumption`):

- `LoopsAreOperators`: `Spec => []LoopsCompute` of `OrderFileLoops`.  The invariant is inductive by what one more line changes
  in each operator (`PaidLineAppend`, `WithoutAppend`).
- `DisplayFits`: `DisplaySpec => []DisplayComputes`.  `Measuring` and `Copying` give the bytes counted and written as functions of
  the index; `RoomForBooks` compares the two products at the end, and is where a line must be wider
  than the bytes that the buffer has to spare.
- `ScansAreFormulas`: `Scan!ScanSpec => []ScansCompute`.  `OrdersScanned` and `BooksScanned` say where each loop is after any number of lines.

The loops are thereby joined to the servers' modules: the operators and conditions that these use in
one step are what the code's loops compute for every input, not only for those of the run.

`ThreadServerProofs`, for every set of clients and requests, every `books.txt` and `orders.txt`
and number of descriptors and restarts that satisfy `BooksAssumption`, `IntAssumption` and
`ThreadAssumption` (the following modules likewise, with `BacklogAssumption` for C and
`DatagramAssumption` for D):

- `ThreadTyping`: `Spec => []TypeOK`, and `ThreadsInStep`: `Spec => []InStep`.  They are inductive together with
  `Asked`: a pending request has a client that waits for it, which is what keeps a thread that
  was orphaned by a crash from ever meeting its client again.
- `NumbersCover`: `Spec => []NumberCoversOrder`, strengthened with `Covered`, which follows the number from
  `OrderCount` through the response, the socket and the client's screen while other threads append.

- `ThreadsImplementDesk`: `Spec => ImplementsDesk`.  `ThreadServer`'s
  actions map to `Want` (`Ask`), `Place` (`OrderAppend`), `Tell` (`Show`), and all others to `Drop` or
  a stutter.  The argument needs all invariants proved above (`Known` is their conjunction): `InStep` so that a
  client has one request or answer on its way, `Covered` for the number it reads.  `Calm` collects what an action that
  touches no order leaves alone, so that each such action is one short step.

`IterativeServerProofs`:

- `IterImplementsThreads`: `IterSpec => Spec`.  An iterative server is a thread server whose threads
  never overlap, so the theorems above hold of it.
- `ServesOneAtATime`: `IterSpec => []OneAtATime`, for any number of clients and any backlog.
- `IterImplementsOwnDesk`: `IterSpec => ImplementsOwnDesk`.  Because no other connection is served
  between the append and the count, `place` is the number told.

`DatagramServerProofs`:

- `DatagramTyping`: `Spec => []TypeOK`.
- `ToldNumbersLast`: `Spec => ToldNumbersKeepTheirMeaning`, strengthened with `Kept`: every number in a
  response, in a socket or among those told is `-2` or the place in the log of the line that its
  client has asked for, and the log keeps its lines at their places.
- `OneForEachClient`: `Spec => []OneOnItsWay`.  The property says nothing of clients that have left,
  whose requests may still be served; `OneEach` does: no client at all has two places where a request or an
  answer of its own can be, so taking the first datagram of the mailbox leaves none of its client's.
- `DatagramsImplementDesk`: `Spec => ImplementsDesk`, from `TypeOK` and `OneEach`, with one lemma for
  each kind of step: the request taken from the mailbox is the only one its client wants.

Only model-checked: the liveness properties (`EveryClientIsServed`, `TurnComes`, `EveryRequestSettles` in two
runs, `EveryChildEnds`), for the prover does not reason about fairness and `ENABLED`.  Every invariant, action
property and refinement that a passing run checks is stated by a theorem.

`AmountWasEnough`, `OnlyWhatTheUserChose` and `BillsTheOrder` are not theorems: the code violates them (section 4).

## 6. Abstractions

- In A prices, amounts and totals are integers, and those on a line have at most ten digits (a
  32-bit `int`'s), by which the bytes of a line are counted; in B, C and D the total of an order
  wraps around.
- `stdio` writes a stream's few lines in one piece at `fclose`; a file is read in one piece.
- The catalogue is what `SearchBook` and `OrderBook` look at: title, ISBN, price (A); the words
  that `strstr` finds in a line and the number after its last space (B, C, D).
- Strings are members of small sets; buffers that are too small for what a user types or for what
  is sent (the shipped catalogue of 928 bytes fits the clients' 1024) are not modelled, nor are
  memory that is not freed and a failing `malloc`.
- Answers are kinds ("catalogue", "book", "order" with its number), not texts.
- An amount is an integer, although A parses an `int`, and `struct Data` carries a `double` that B and
  C compare as such.
- `paid_orders.txt` starts empty in the model; the lines the repository ships in it are never read.
- TCP delivers a `struct Data` and a response each in one piece.
- `handle_client`'s branch for a choice other than 1 to 4 is left out of B, C and D, for no client
  of the repository sends one (they exit).
- `orders.txt` may be impossible to write to at any order (`-2`: `OrderFails`, `OrderUnwritten`); that
  a file cannot be opened for reading is modelled for want of descriptors only (`CannotOpen`, `Crash`).

## 7. Not modelled

- **E, F, the calculators.**  Each request is answered from its own numbers by one expression; no
  state survives a request and threads share none, so every property of theirs would restate that
  expression.  F's disagreement about the codes is noted in section 4.
- **G, the local prototype.**  `main.c` and the root `server.c` do not compile, so there is no program
  whose behaviour could be modelled.
- **`iterative-connectionless/helpers.c`**: the first draft of the book functions; the server
  includes `interface.h`, and nothing calls these.
- **H, I**: straight lines of socket calls without state.

The C sources of the repository are about 4,500 lines; the other nine tenths of its tree are
preprocessed copies of system headers (`.ccls-cache/`), which hold no code of this program, and
data files.  The definitions of the models stand for about 1,400 of those lines: all of A, B, C, D
and `interface.h` but their includes, socket set-up that cannot be repeated, and printing.

## 8. What is left

1. `BillsTheOrder` and `AmountWasEnough` as properties to prove once the code of findings 1 and 3
   is corrected; their runs then turn into passing ones.
2. `UnsharedTempsInventNothing` without its premise once each payment has a temporary file of its own
   (server.c:465); `TempsUnshared` is then an invariant.
3. What a child that opens `created_orders.txt` between another's `remove` and `rename` can lose, as a bound
   that holds for any number of overlapping payments (section 4 names the ways).
