---------------------------- MODULE ThreadServer ----------------------------
(***************************************************************************)
(* The concurrent connection-oriented book server and its clients          *)
(* (concurrent-connection-oriented/books_server.c and books_client.c):     *)
(* a TCP connection per client, a detached thread per connection, and one  *)
(* orders.txt that all threads append to.  A response that is a string     *)
(* literal is overwritten and freed after it was sent, which ends the      *)
(* process with all its threads; it may be started again.  SearchBook does *)
(* not close books.txt when it finds nothing, so a process that lives long *)
(* enough runs out of file descriptors.                                    *)
(*                                                                         *)
(* TCP delivers a struct Data and a response each in one piece.  The       *)
(* server's branch for a choice that is none of the four is left out: the  *)
(* clients of the repository exit on such a choice and do not send it.     *)
(***************************************************************************)
EXTENDS OrderLog, FiniteSets

CONSTANTS Clients,
          Requests,      \* what clients send
          Nothing,       \* no request, no answer
          Logged,        \* the lines of orders.txt at the start
          Literals,      \* the answers that are string literals in the code
          MaxFiles,      \* descriptors for connections and files
          MaxOrders,     \* bound: nobody orders once orders.txt is that long
          MaxRestarts    \* bound: how often the server is started again

\* "nothing" is the empty string, "garbage" what a fresh response holds.
Answers == {"catalogue", "nothing", "garbage", "book", "Book Not Found",
            "no such book", "Internal Server Error", "too little", "success"}
Answer == [what : Answers \cup {"order"}, number : Nat]

ASSUME ThreadAssumption ==
  /\ Requests \subseteq Request
  /\ Nothing \notin Requests \cup Answer \cup OrderLine
  /\ Logged \in Seq(OrderLine)
  /\ Literals \subseteq Answers
  /\ MaxFiles \in Nat /\ MaxOrders \in Nat /\ MaxRestarts \in Nat

VARIABLES up,        \* the server process runs
          log,       \* the lines of orders.txt
          leaked,    \* how often books.txt was left open
          thread,    \* the server's end of each client's connection
          client,    \* the client's end
          data,      \* the request a client has written, or its thread serves
          response,  \* the response of each thread
          inbox,     \* what each client has been sent and not read
          shown,     \* what each client was shown since it asked last
          place,     \* where each client's last order is in the log
          unheard,   \* the clients whose last answer reached nobody
          restarts   \* how often the server was started again

serverVars == <<up, log, leaked, thread, response, place, restarts>>
clientVars == <<client, inbox, shown, unheard>>
vars == <<serverVars, clientVars, data>>

Thread == {"none", "queued", "reading", "counting", "replying", "freeing",
           "closed"}
Say(what) == [what |-> what, number |-> 0]

Init ==
  /\ up = TRUE /\ log = Logged /\ leaked = 0 /\ restarts = 0
  /\ thread = [c \in Clients |-> "none"]
  /\ client = [c \in Clients |-> "new"]
  /\ data = [c \in Clients |-> Nothing]
  /\ response = [c \in Clients |-> Nothing]
  /\ inbox = [c \in Clients |-> Nothing]
  /\ shown = [c \in Clients |-> Nothing]
  /\ place = [c \in Clients |-> 0]
  /\ unheard = {}

-----------------------------------------------------------------------------
(* The client.                                                             *)

\* connect succeeds as soon as the server listens, before accept; if it fails,
\* the client exits.
Connect(c) ==
  /\ client[c] = "new"
  /\ \/ /\ up
        /\ client' = [client EXCEPT ![c] = "menu"]
        /\ thread' = [thread EXCEPT ![c] = "queued"]
     \/ client' = [client EXCEPT ![c] = "exited"] /\ UNCHANGED thread
  /\ UNCHANGED <<up, log, leaked, data, response, inbox, shown, place, unheard,
                 restarts>>

Ask(c, r) ==
  /\ client[c] = "menu"
  /\ r.op = "order" => Len(log) < MaxOrders
  /\ client' = [client EXCEPT ![c] = "waiting"]
  /\ data' = [data EXCEPT ![c] = r]
  /\ shown' = [shown EXCEPT ![c] = Nothing]
  /\ UNCHANGED <<serverVars, inbox, unheard>>

Show(c) ==
  /\ client[c] = "waiting" /\ inbox[c] # Nothing
  /\ shown' = [shown EXCEPT ![c] = inbox[c]]
  /\ inbox' = [inbox EXCEPT ![c] = Nothing]
  /\ client' = [client EXCEPT ![c] = "menu"]
  /\ UNCHANGED <<serverVars, data, unheard>>

\* The connection is gone: read returns 0, which the client shows as an empty
\* answer before it goes on, or it fails, or write raises SIGPIPE.
Broken(c) ==
  /\ client[c] = "waiting" /\ thread[c] = "none"
  /\ \E next \in {"menu", "exited"} : client' = [client EXCEPT ![c] = next]
  /\ shown' = [shown EXCEPT ![c] = Nothing]
  /\ inbox' = [inbox EXCEPT ![c] = Nothing]
  /\ data' = [data EXCEPT ![c] = Nothing]
  /\ UNCHANGED <<serverVars, unheard>>

\* Option 5, every number that is no option, and the user who interrupts the
\* client, at its menu or in read; what was sent stays in the socket.
Exit(c) ==
  /\ client[c] \in {"menu", "waiting"}
  /\ client' = [client EXCEPT ![c] = "exited"]
  /\ shown' = [shown EXCEPT ![c] = Nothing]
  /\ inbox' = [inbox EXCEPT ![c] = Nothing]
  /\ UNCHANGED <<serverVars, data, unheard>>

-----------------------------------------------------------------------------
(* The server.                                                             *)

\* The descriptors of connections and of books.txt left open.
Connected == {c \in Clients : thread[c] \notin {"none", "queued", "closed"}}
FileLeft == leaked + Cardinality(Connected) < MaxFiles

\* The process ends, and with it every thread and connection.
Die ==
  /\ up' = FALSE /\ leaked' = 0
  /\ thread' = [d \in Clients |-> "none"]
  /\ response' = [d \in Clients |-> Nothing]
  /\ data' = [d \in Clients |-> Nothing]
  /\ unheard' = {}

\* accept and pthread_create; without a descriptor accept fails and is tried
\* again.
Accept(c) ==
  /\ thread[c] = "queued" /\ FileLeft
  /\ thread' = [thread EXCEPT ![c] = "reading"]
  /\ UNCHANGED <<up, log, leaked, data, response, clientVars, place, restarts>>

\* pthread_create fails: the socket is closed, and pthread_detach is given the
\* identifier of an earlier thread, or of none, which may end the process.
ThreadFails(c) ==
  /\ thread[c] = "queued" /\ FileLeft
  /\ \/ /\ thread' = [thread EXCEPT ![c] = "none"]
        /\ data' = [data EXCEPT ![c] = Nothing]
        /\ UNCHANGED <<up, leaked, response, unheard>>
     \/ Die
  /\ UNCHANGED <<log, client, inbox, shown, place, restarts>>

\* Mutant (not the code): only a read that fails ends the loop.
DisconnectedUnnoticed(c) ==
  /\ thread[c] = "reading" /\ data[c] = Nothing /\ client[c] = "exited"
  /\ UNCHANGED vars

\* read returns 0 or fails: the socket is closed.
Disconnected(c) ==
  /\ thread[c] = "reading" /\ data[c] = Nothing /\ client[c] = "exited"
  /\ thread' = [thread EXCEPT ![c] = "closed"]
  /\ UNCHANGED <<up, log, leaked, data, response, clientVars, place, restarts>>

\* read has a request for the thread; every operation then opens a file.
Pending(c) == thread[c] = "reading" /\ data[c] # Nothing
Serving(c, op) == Pending(c) /\ data[c].op = op /\ FileLeft

\* fopen returns NULL, which is not looked at before fgets.
CannotOpen(c) ==
  /\ Pending(c) \/ thread[c] = "counting"
  /\ ~FileLeft
  /\ Die
  /\ UNCHANGED <<log, client, inbox, shown, place, restarts>>

Respond(c, answer) ==
  /\ thread' = [thread EXCEPT ![c] = "replying"]
  /\ response' = [response EXCEPT ![c] = answer]

\* The lines are appended to a response that malloc has not cleared.
DisplayCatalog(c) ==
  /\ Serving(c, "display")
  /\ \E what \in IF Displayed(data[c].m, data[c].x, data[c].z) = {}
                 THEN {"nothing", "garbage"} ELSE {"catalogue"} :
        Respond(c, Say(what))
  /\ UNCHANGED <<up, log, leaked, data, clientVars, place, restarts>>

Search(c) ==
  /\ Serving(c, "search")
  /\ \/ /\ SearchBook(data[c].word) # NoBook
        /\ Respond(c, Say("book"))
        /\ UNCHANGED leaked
     \/ /\ SearchBook(data[c].word) = NoBook
        /\ Respond(c, Say("Book Not Found"))
        /\ leaked' = leaked + 1
  /\ UNCHANGED <<up, log, data, clientVars, place, restarts>>

\* Mutant (not the code): only -1 is taken for a failure.
OrderFailsUnchecked(c) ==
  /\ Serving(c, "order")
  /\ IF SearchBook(data[c].x) = NoBook
     THEN Respond(c, Say("no such book")) /\ leaked' = leaked + 1
     ELSE Respond(c, [what |-> "order", number |-> -2]) /\ UNCHANGED leaked
  /\ UNCHANGED <<up, log, data, clientVars, place, restarts>>

\* OrderBook returns -1, or -2 if it cannot open orders.txt.
OrderFails(c) ==
  /\ Serving(c, "order")
  /\ \/ /\ SearchBook(data[c].x) = NoBook
        /\ Respond(c, Say("no such book"))
        /\ leaked' = leaked + 1
     \/ /\ SearchBook(data[c].x) # NoBook
        /\ Respond(c, Say("Internal Server Error"))
        /\ UNCHANGED leaked
  /\ UNCHANGED <<up, log, data, clientVars, place, restarts>>

\* Mutant (not the code): orders.txt is opened with "w".
OrderAppendTruncating(c) ==
  /\ Serving(c, "order")
  /\ SearchBook(data[c].x) # NoBook
  /\ log' = <<LineOf(data[c])>>
  /\ place' = [place EXCEPT ![c] = Len(log')]
  /\ thread' = [thread EXCEPT ![c] = "counting"]
  /\ UNCHANGED <<up, leaked, data, response, clientVars, restarts>>

\* The line reaches orders.txt at fclose; the file is then opened again.
OrderAppend(c) ==
  /\ Serving(c, "order")
  /\ SearchBook(data[c].x) # NoBook
  /\ log' = Append(log, LineOf(data[c]))
  /\ place' = [place EXCEPT ![c] = Len(log')]
  /\ thread' = [thread EXCEPT ![c] = "counting"]
  /\ UNCHANGED <<up, leaked, data, response, clientVars, restarts>>

\* Mutant (not the code): the count starts at zero and misses a line.
OrderCountFromZero(c) ==
  /\ thread[c] = "counting" /\ FileLeft
  /\ Respond(c, [what |-> "order", number |-> Len(log) - 1])
  /\ UNCHANGED <<up, log, leaked, data, clientVars, place, restarts>>

OrderCount(c) ==
  /\ thread[c] = "counting" /\ FileLeft
  /\ Respond(c, [what |-> "order", number |-> Len(log)])
  /\ UNCHANGED <<up, log, leaked, data, clientVars, place, restarts>>

\* The total is compared with the amount even when it is NoSuchOrder.
Verdict(total, amount) == Say(IF total > amount THEN "too little" ELSE "success")

\* orders.txt has no line but may be there: a thread has opened it and not
\* closed it yet, or did so in a process that ended.
MayBeEmpty ==
  \/ restarts > 0
  \/ \E c \in Clients : Serving(c, "order") /\ SearchBook(data[c].x) # NoBook

Pay(c) ==
  /\ Serving(c, "pay")
  /\ log # <<>> \/ MayBeEmpty
  /\ \E total \in PayForBook(log, data[c].orderno) :
        Respond(c, Verdict(total, data[c].amount))
  /\ UNCHANGED <<up, log, leaked, data, clientVars, place, restarts>>

PayCrash(c) ==
  /\ Serving(c, "pay")
  /\ PayMayCrash(log, data[c].orderno)
  /\ Die
  /\ UNCHANGED <<log, client, inbox, shown, place, restarts>>

\* A write of no bytes does not wake the client up, and a client that has left
\* gets none.
Unnoticed(c) == response[c] = Say("nothing") \/ client[c] = "exited"

\* Mutant (not the code): a refused order is not answered.
WriteIfDone(c) ==
  /\ thread[c] = "replying"
  /\ \/ /\ Unnoticed(c)
        /\ unheard' = unheard \cup {c}
        /\ UNCHANGED inbox
     \/ /\ ~Unnoticed(c)
        /\ inbox' = [inbox EXCEPT ![c] = IF response[c].what = "no such book"
                                         THEN Nothing ELSE response[c]]
        /\ UNCHANGED unheard
  /\ data' = [data EXCEPT ![c] = Nothing]
  /\ thread' = [thread EXCEPT ![c] = "freeing"]
  /\ UNCHANGED <<up, log, leaked, response, client, shown, place, restarts>>

\* Mutant (not the code): what was served is served again after a while.
WriteKeepingRequest(c) ==
  /\ thread[c] = "replying"
  /\ inbox' = [inbox EXCEPT ![c] = response[c]]
  /\ thread' = [thread EXCEPT ![c] = "freeing"]
  /\ UNCHANGED <<up, log, leaked, data, response, client, shown, place, unheard,
                 restarts>>

Write(c) ==
  /\ thread[c] = "replying"
  /\ \/ /\ Unnoticed(c)
        /\ unheard' = unheard \cup {c}
        /\ UNCHANGED inbox
     \/ /\ ~Unnoticed(c)
        /\ inbox' = [inbox EXCEPT ![c] = response[c]]
        /\ UNCHANGED unheard
  /\ data' = [data EXCEPT ![c] = Nothing]
  /\ thread' = [thread EXCEPT ![c] = "freeing"]
  /\ UNCHANGED <<up, log, leaked, response, client, shown, place, restarts>>

\* memset and free of the response.
Free(c) ==
  /\ thread[c] = "freeing"
  /\ \/ response[c].what \in Literals /\ Die
     \/ /\ response[c].what \notin Literals
        /\ thread' = [thread EXCEPT ![c] = "reading"]
        /\ response' = [response EXCEPT ![c] = Nothing]
        /\ UNCHANGED <<up, leaked, data, unheard>>
  /\ UNCHANGED <<log, client, inbox, shown, place, restarts>>

\* Somebody starts the server again; orders.txt is still there.
Restart ==
  /\ ~up /\ restarts < MaxRestarts
  /\ up' = TRUE /\ restarts' = restarts + 1
  /\ UNCHANGED <<log, leaked, thread, data, response, clientVars, place>>

\* handle_client, from one read to the next.
Handle(c) ==
  \/ Disconnected(c) \/ CannotOpen(c)
  \/ DisplayCatalog(c) \/ Search(c)
  \/ OrderFails(c) \/ OrderAppend(c) \/ OrderCount(c)
  \/ Pay(c) \/ PayCrash(c)
  \/ Write(c) \/ Free(c)
Serve(c) == Accept(c) \/ Handle(c)
Choose(c) == (\E r \in Requests : Ask(c, r)) \/ Exit(c)
Receive(c) == Show(c) \/ Broken(c)

Next ==
  \/ \E c \in Clients : \/ Connect(c) \/ Choose(c) \/ Receive(c)
                        \/ Serve(c) \/ ThreadFails(c)
  \/ Restart

Spec == Init /\ [][Next]_vars

\* The kernel runs every thread, the accept loop and every client that has
\* something to read.
FairSpec == Spec /\ \A c \in Clients : WF_vars(Serve(c)) /\ WF_vars(Receive(c))

-----------------------------------------------------------------------------
(* Properties.                                                             *)

\* Every variable has its type; in particular OrderBook's failures, which are
\* negative numbers, are not told as order numbers (books_server.c:64-79).
TypeOK ==
  /\ up \in BOOLEAN /\ leaked \in Nat /\ restarts \in 0..MaxRestarts
  /\ log \in Seq(OrderLine)
  /\ thread \in [Clients -> Thread]
  /\ client \in [Clients -> {"new", "menu", "waiting", "exited"}]
  /\ data \in [Clients -> Requests \cup {Nothing}]
  /\ response \in [Clients -> Answer \cup {Nothing}]
  /\ inbox \in [Clients -> Answer \cup {Nothing}]
  /\ shown \in [Clients -> Answer \cup {Nothing}]
  /\ place \in [Clients -> Nat]
  /\ unheard \in SUBSET Clients

\* A client is in step with its thread, whatever the other threads do and even
\* if the process dies and is started again: no thread serves or sends for a
\* client unless the client waits, or has left, after asking for just that, so
\* no order is placed twice or unasked; a thread holds a response from the
\* branch that made it until it is freed; and a client that was sent no bytes
\* and its thread then wait for each other (books_server.c:25-105,
\* books_client.c:68-87).
InStep ==
  \A c \in Clients :
     /\ thread[c] \in {"counting", "replying"} =>
          client[c] \in {"waiting", "exited"} /\ data[c] # Nothing /\ inbox[c] = Nothing
     /\ inbox[c] # Nothing => client[c] = "waiting" /\ data[c] = Nothing
     /\ (response[c] # Nothing) = (thread[c] \in {"replying", "freeing"})
     /\ ~up => thread[c] = "none"
     /\ c \in unheard => /\ thread[c] \in {"freeing", "reading", "closed"}
                         /\ client[c] \in {"waiting", "exited"}
                         /\ data[c] = Nothing /\ inbox[c] = Nothing

\* The number that a client is told (interface.h:53-63) is that of a line of
\* the log, its own or one that another thread has added since; and it stays
\* so, for neither payments nor the death of the process lose an order.
NumberCoversOrder ==
  \A c \in Clients :
     /\ thread[c] = "replying" /\ response[c].what = "order"
          => response[c].number \in place[c]..Len(log) /\ place[c] > 0
     /\ client[c] = "menu" /\ shown[c] # Nothing
          => (shown[c].what = "order" => shown[c].number \in place[c]..Len(log))

\* The client asks for "the order number of the book you want to pay for"
\* (books_client.c:134), which OrderBook has counted from one (interface.h:53):
\* a payment that is answered as successful has billed the order of this number.
BillsTheOrder ==
  [][\A c \in Clients :
        Pay(c) /\ response'[c].what = "success"
          => Billed(log, data[c].orderno) = data[c].orderno]_vars

\* The client is in the backlog of a process that has no descriptor left for it.
Starved(c) == thread[c] = "queued" /\ ~FileLeft

\* A client that waits is answered or learns that the server is gone, however
\* often another client's request ends the process (books_server.c:102-104),
\* unless its answer has no bytes or SearchBook has used up the descriptors.
EveryClientIsServed ==
  \A c \in Clients :
     client[c] = "waiting" ~> client[c] # "waiting" \/ c \in unheard \/ Starved(c)
-----------------------------------------------------------------------------
(* The threads as an order desk that serves several requests at once.      *)

IsOrder(answer) == answer # Nothing /\ answer.what = "order"

\* The line that a client has asked for and no thread has logged or refused.
Wanted ==
  [c \in Clients |->
     IF /\ data[c] # Nothing /\ data[c].op = "order"
        /\ thread[c] \notin {"counting", "replying"}
     THEN LineOf(data[c]) ELSE Nothing]
\* The place of an order that is logged, while its number is on its way.
Due ==
  [c \in Clients |->
     IF \/ thread[c] = "counting"
        \/ thread[c] = "replying" /\ IsOrder(response[c])
        \/ IsOrder(inbox[c])
     THEN place[c] ELSE 0]
Told == [c \in Clients |-> IF IsOrder(shown[c]) THEN shown[c].number ELSE 0]

Desk == INSTANCE OrderDesk
  WITH want <- Wanted, due <- Due, told <- Told, Shared <- TRUE,
       Lines <- {LineOf(r) : r \in {q \in Requests : q.op = "order"}}

\* Every order is logged at most once and only for the client that asked for
\* it, nothing is ever taken out of orders.txt, and what a client is told is
\* the number of the line its own request has added, or of a later one: across
\* overlapping threads, lost connections and new processes (interface.h:31-64,
\* books_server.c:59-79).
ImplementsDesk == Desk!Spec
=============================================================================
