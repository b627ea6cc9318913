--------------------------- MODULE DatagramServer ---------------------------
(***************************************************************************)
(* The iterative connectionless book server and its clients                *)
(* (iterative-connectionless/books_server_udp.c and books_client_udp.c).   *)
(* One process takes one datagram at a time, serves it, sleeps and sends   *)
(* the answer to where the datagram came from.  A client sends a request   *)
(* and waits in recvfrom; the timeout it had is commented out.  Responses  *)
(* are on the stack, so no answer ends the process; a payment that meets   *)
(* no order or no book does, as does a process without descriptors.        *)
(*                                                                         *)
(* Datagrams go through the loopback interface, the only one the client    *)
(* can use: they are lost, but keep their order and are never doubled.     *)
(***************************************************************************)
EXTENDS OrderLog

CONSTANTS Clients, Requests, Nothing,
          Logged,        \* the lines of orders.txt at the start
          MaxFiles,      \* descriptors for files
          MaxOrders,     \* bound: nobody orders once orders.txt is that long
          MaxRestarts    \* bound: how often the server is started again

\* OrderBook's answers are numbers: -1 is looked at, -2 is not.
NoOrdersFile == -2
Answers == {"catalogue", "nothing", "book", "Book Not Found", "no such book",
            "failed", "success"}
Answer == [what : Answers, number : {0}]
          \cup [what : {"order"}, number : Nat \cup {NoOrdersFile}]

\* What a client was told: a number, and the line that it had asked for.
Promise == [number : Nat \cup {NoOrdersFile}, line : OrderLine]

\* A response, and the client it is for.
Turn == [to : Clients, answer : Answer]

ASSUME DatagramAssumption ==
  /\ Requests \subseteq Request
  /\ Nothing \notin Requests \cup Answer \cup OrderLine \cup Turn
  /\ Logged \in Seq(OrderLine)
  /\ MaxFiles \in Nat /\ MaxOrders \in Nat /\ MaxRestarts \in Nat

VARIABLES up,        \* the server process runs
          log,       \* the lines of orders.txt
          leaked,    \* how often books.txt was left open
          restarts,  \* how often the server was started again
          mailbox,   \* the datagrams at the server's socket, oldest first
          turn,      \* the client being served and the response to it
          client,    \* what each client does
          ordered,   \* the line for which each client that waits has asked
          inbox,     \* the datagram at each client's socket
          shown,     \* what each client was shown since it asked last
          lost,      \* the clients whose last request or answer was lost
          told       \* the order numbers that clients were shown, and for what

clientVars == <<client, ordered, inbox, shown, told>>
vars == <<up, log, leaked, restarts, mailbox, turn, lost, clientVars>>
Datagram == [from : Clients, data : Requests]

Init ==
  /\ up = TRUE /\ log = Logged /\ leaked = 0 /\ restarts = 0
  /\ mailbox = <<>> /\ turn = Nothing
  /\ client = [c \in Clients |-> "menu"]
  /\ ordered = [c \in Clients |-> Nothing]
  /\ inbox = [c \in Clients |-> Nothing]
  /\ shown = [c \in Clients |-> Nothing]
  /\ lost = {} /\ told = {}

-----------------------------------------------------------------------------
(* The client.                                                             *)

\* sendto also succeeds when nobody listens.
Ask(c, r) ==
  /\ client[c] = "menu"
  /\ r.op = "order" => Len(log) < MaxOrders
  /\ client' = [client EXCEPT ![c] = "waiting"]
  /\ ordered' = [ordered EXCEPT ![c] = IF r.op = "order" THEN LineOf(r) ELSE Nothing]
  /\ shown' = [shown EXCEPT ![c] = Nothing]
  /\ \/ up /\ mailbox' = Append(mailbox, [from |-> c, data |-> r]) /\ UNCHANGED lost
     \/ lost' = lost \cup {c} /\ UNCHANGED mailbox
  /\ UNCHANGED <<up, log, leaked, restarts, turn, inbox, told>>

Show(c) ==
  /\ client[c] = "waiting" /\ inbox[c] # Nothing
  /\ client' = [client EXCEPT ![c] = "menu"]
  /\ shown' = [shown EXCEPT ![c] = inbox[c]]
  /\ told' = told \cup IF inbox[c].what = "order"
                       THEN {[number |-> inbox[c].number, line |-> ordered[c]]} ELSE {}
  /\ ordered' = [ordered EXCEPT ![c] = Nothing]
  /\ inbox' = [inbox EXCEPT ![c] = Nothing]
  /\ UNCHANGED <<up, log, leaked, restarts, mailbox, turn, lost>>

\* Option 5, what is no option, or the user interrupts the client.
Exit(c) ==
  /\ client[c] \in {"menu", "waiting"}
  /\ client' = [client EXCEPT ![c] = "exited"]
  /\ ordered' = [ordered EXCEPT ![c] = Nothing]
  /\ shown' = [shown EXCEPT ![c] = Nothing]
  /\ inbox' = [inbox EXCEPT ![c] = Nothing]
  /\ UNCHANGED <<up, log, leaked, restarts, mailbox, turn, lost, told>>

-----------------------------------------------------------------------------
(* The server.                                                             *)

Asking == {mailbox[i].from : i \in 1..Len(mailbox)}
FileLeft == leaked < MaxFiles

\* recvfrom has a datagram for a server that is not busy with another.
Pending == up /\ turn = Nothing /\ mailbox # <<>>
Serving(op) == Pending /\ Head(mailbox).data.op = op /\ FileLeft

Respond(what, number) ==
  /\ turn' = [to |-> Head(mailbox).from, answer |-> [what |-> what, number |-> number]]
  /\ mailbox' = Tail(mailbox)

\* The process ends, and the datagrams at its socket with it.
Die ==
  /\ up' = FALSE /\ leaked' = 0
  /\ mailbox' = <<>> /\ turn' = Nothing
  /\ lost' = lost \cup Asking

DisplayCatalog ==
  /\ Serving("display")
  /\ LET r == Head(mailbox).data
     IN  Respond(IF Displayed(r.m, r.x, r.z) = {} THEN "nothing" ELSE "catalogue", 0)
  /\ UNCHANGED <<up, log, leaked, restarts, clientVars, lost>>

Search ==
  /\ Serving("search")
  /\ IF SearchBook(Head(mailbox).data.word) # NoBook
     THEN Respond("book", 0) /\ UNCHANGED leaked
     ELSE Respond("Book Not Found", 0) /\ leaked' = leaked + 1
  /\ UNCHANGED <<up, log, restarts, clientVars, lost>>

\* Mutant (not the code): no number is taken for a failure.
OrderRefusedUnchecked ==
  /\ Serving("order") /\ SearchBook(Head(mailbox).data.x) = NoBook
  /\ Respond("order", -1)
  /\ leaked' = leaked + 1
  /\ UNCHANGED <<up, log, restarts, clientVars, lost>>

OrderRefused ==
  /\ Serving("order") /\ SearchBook(Head(mailbox).data.x) = NoBook
  /\ Respond("no such book", 0)
  /\ leaked' = leaked + 1
  /\ UNCHANGED <<up, log, restarts, clientVars, lost>>

\* orders.txt cannot be opened, which the client is told to be a success.
OrderUnwritten ==
  /\ Serving("order") /\ SearchBook(Head(mailbox).data.x) # NoBook
  /\ Respond("order", NoOrdersFile)
  /\ UNCHANGED <<up, log, leaked, restarts, clientVars, lost>>

\* Mutant (not the code): the lines are counted before the new one is added.
OrderCountedFirst ==
  /\ Serving("order") /\ SearchBook(Head(mailbox).data.x) # NoBook
  /\ log' = Append(log, LineOf(Head(mailbox).data))
  /\ Respond("order", Len(log))
  /\ UNCHANGED <<up, leaked, restarts, clientVars, lost>>

\* Nobody else uses orders.txt between the line and the count.
OrderPlaced ==
  /\ Serving("order") /\ SearchBook(Head(mailbox).data.x) # NoBook
  /\ log' = Append(log, LineOf(Head(mailbox).data))
  /\ Respond("order", Len(log'))
  /\ UNCHANGED <<up, leaked, restarts, clientVars, lost>>

\* The amount is not compared with the total.
Pay ==
  /\ Serving("pay") /\ log # <<>>
  /\ \E total \in PayForBook(log, Head(mailbox).data.orderno) :
        Respond(IF total < 0 THEN "failed" ELSE "success", 0)
  /\ UNCHANGED <<up, log, leaked, restarts, clientVars, lost>>

\* PayForBook fails badly, or any of the four opens no file.
Crash ==
  /\ Pending
  /\ \/ Serving("pay") /\ PayMayCrash(log, Head(mailbox).data.orderno)
     \/ ~FileLeft
  /\ Die
  /\ UNCHANGED <<log, restarts, clientVars>>

\* Mutant (not the code): the answer goes to whoever asked last.
SendToLast ==
  /\ turn # Nothing
  /\ LET c == IF mailbox = <<>> THEN turn.to ELSE mailbox[Len(mailbox)].from
     IN  inbox' = [inbox EXCEPT ![c] = turn.answer]
  /\ turn' = Nothing
  /\ UNCHANGED <<up, log, leaked, restarts, mailbox, client, ordered, shown, lost, told>>

\* Mutant (not the code): a response without bytes is not sent.
SendIfFilled ==
  /\ turn # Nothing
  /\ IF client[turn.to] = "waiting" /\ turn.answer.what # "nothing"
     THEN inbox' = [inbox EXCEPT ![turn.to] = turn.answer]
     ELSE UNCHANGED inbox
  /\ turn' = Nothing
  /\ UNCHANGED <<up, log, leaked, restarts, mailbox, client, ordered, shown, lost, told>>

\* After five seconds; a datagram without bytes is one, too.
Send ==
  /\ turn # Nothing
  /\ IF client[turn.to] = "waiting"
     THEN inbox' = [inbox EXCEPT ![turn.to] = turn.answer]
     ELSE UNCHANGED inbox
  /\ turn' = Nothing
  /\ UNCHANGED <<up, log, leaked, restarts, mailbox, client, ordered, shown, lost, told>>

\* Somebody starts the server again; orders.txt is still there.
Restart ==
  /\ ~up /\ restarts < MaxRestarts
  /\ up' = TRUE /\ restarts' = restarts + 1
  /\ UNCHANGED <<log, leaked, mailbox, turn, clientVars, lost>>

\* An answer does not reach its client.
Lose(c) ==
  /\ client[c] = "waiting" /\ inbox[c] # Nothing
  /\ inbox' = [inbox EXCEPT ![c] = Nothing]
  /\ lost' = lost \cup {c}
  /\ UNCHANGED <<up, log, leaked, restarts, mailbox, turn, client, ordered, shown, told>>

Serve ==
  \/ DisplayCatalog \/ Search \/ OrderRefused \/ OrderUnwritten \/ OrderPlaced
  \/ Pay \/ Crash \/ Send

Next ==
  \/ \E c \in Clients : \/ \E r \in Requests : Ask(c, r)
                        \/ Show(c) \/ Exit(c) \/ Lose(c)
  \/ Serve \/ Restart

Spec == Init /\ [][Next]_vars

\* The server is scheduled, and every client whose datagram has arrived.
FairSpec == Spec /\ WF_vars(Serve) /\ \A c \in Clients : WF_vars(Show(c))

-----------------------------------------------------------------------------
(* Properties.                                                             *)

\* Every variable has its type; in particular the only negative order number
\* that a client is told is -2, which handle_client does not look for, and
\* never -1, which it does (books_server_udp.c:47-52).
TypeOK ==
  /\ up \in BOOLEAN /\ leaked \in Nat /\ restarts \in 0..MaxRestarts
  /\ log \in Seq(OrderLine)
  /\ mailbox \in Seq(Datagram)
  /\ turn \in Turn \cup {Nothing}
  /\ client \in [Clients -> {"menu", "waiting", "exited"}]
  /\ ordered \in [Clients -> OrderLine \cup {Nothing}]
  /\ inbox \in [Clients -> Answer \cup {Nothing}]
  /\ shown \in [Clients -> Answer \cup {Nothing}]
  /\ lost \in SUBSET Clients
  /\ told \in SUBSET Promise

\* Where the request of a client or the answer to it is.
Tracks(c) ==
  {<<"request", i>> : i \in {j \in 1..Len(mailbox) : mailbox[j].from = c}}
  \cup (IF turn # Nothing /\ turn.to = c THEN {<<"turn", 0>>} ELSE {})
  \cup (IF inbox[c] # Nothing THEN {<<"answer", 0>>} ELSE {})
  \cup (IF c \in lost THEN {<<"lost", 0>>} ELSE {})

\* The client takes the next datagram for the answer to its request
\* (books_client_udp.c:38-59), with nothing in it that says so.  That is right
\* only because a client that waits has exactly one request or answer on its
\* way, or has had one lost and none left that could come late; and at the menu
\* it has none at all.
OneOnItsWay ==
  \A c \in Clients :
     /\ client[c] = "waiting" => \E track \in Tracks(c) : Tracks(c) = {track}
     /\ client[c] = "menu" => Tracks(c) = {}
     /\ up \/ (mailbox = <<>> /\ turn = Nothing)

\* How a payment that is billed for a line may be answered: not even a total
\* that is negative by overflow, or for a negative number of books, is told
\* apart from an order that does not exist.
Bill(line) ==
  {IF Total(Books[i].price, line.n) < 0 THEN "failed" ELSE "success" :
     i \in {j \in 1..Len(Books) : line.title \in Books[j].holds}}

\* The line that a told number stands for: PayForBook counts from zero
\* (interface.h:99-113), so it is the client's own only while that is the last.
StandsFor(promise) ==
  IF promise.number \in 1..(Len(log) - 1) THEN log[promise.number + 1]
  ELSE IF promise.number = NoOrdersFile THEN log[Len(log)]
  ELSE promise.line

\* A number that a client was told keeps its meaning, whatever others order,
\* pay or lose and in every later process: a payment with it is answered for the
\* line that this client had asked for as long as no other follows it, and from
\* then on for the line that follows, which never changes again; with the number
\* of an order that could not be written, for the last line there is
\* (books_server_udp.c:47-57).  So it is refused only for a negative total, and
\* otherwise accepted, unless the payment ends the process (Crash).
ToldNumbersKeepTheirMeaning ==
  [][\A promise \in told :
        Pay /\ Head(mailbox).data.orderno = promise.number
          => turn'.answer.what \in Bill(StandsFor(promise))]_vars

\* A request is answered, or lost with its answer: by the network, with a
\* server that is down, or in the socket of a process that another client's
\* payment ends (books_server_udp.c:22-66).
EveryRequestSettles ==
  \A c \in Clients : client[c] = "waiting" ~> client[c] # "waiting" \/ c \in lost

-----------------------------------------------------------------------------
(* The server as an order desk that serves one request at a time.          *)

Requested(c) ==
  {mailbox[i].data : i \in {j \in 1..Len(mailbox) : mailbox[j].from = c}}
Wanted ==
  [c \in Clients |->
     IF \E r \in Requested(c) : r.op = "order"
     THEN LineOf(CHOOSE r \in Requested(c) : r.op = "order") ELSE Nothing]

\* The number of an order; that of one which was not written is none.
NumberIn(answer) ==
  IF answer # Nothing /\ answer.number > 0 THEN answer.number ELSE 0
Due ==
  [c \in Clients |->
     IF turn # Nothing /\ turn.to = c THEN NumberIn(turn.answer)
                                      ELSE NumberIn(inbox[c])]
Told == [c \in Clients |-> NumberIn(shown[c])]

Desk == INSTANCE OrderDesk
  WITH want <- Wanted, due <- Due, told <- Told, Shared <- FALSE,
       Lines <- {LineOf(r) : r \in {q \in Requests : q.op = "order"}}

\* Every order is logged at most once, for the client that asked for it, no
\* line is ever lost, and a number above zero that a client is told is the one
\* of its own line: with lost datagrams, clients that leave and processes that
\* die in between (interface.h:31-64, books_server_udp.c:46-53).
ImplementsDesk == Desk!Spec
=============================================================================
