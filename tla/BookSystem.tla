----------------------------- MODULE BookSystem -----------------------------
(***************************************************************************)
(* The book server of concurrent-connectionless/ with its clients          *)
(* (client.c) and the UDP network between them.  A client sends one        *)
(* datagram and blocks in recvfrom, without a timeout and without a number *)
(* that would tie the answer to the request; the server forks a child for  *)
(* each datagram that arrives.  Datagrams may be lost and may overtake     *)
(* each other, and at most MaxDup of them arrive twice.                    *)
(***************************************************************************)
EXTENDS BookServer

CONSTANTS Clients,
          Blank,       \* the empty line, one of the Strings
          Atoi,        \* what atoi makes of each line
          Forms,       \* what users fill in: an option and its lines
          MaxAsked,    \* how many requests a client sends
          MaxDup       \* how many datagrams the network delivers twice

\* A client prompts for this many lines, and the server reads as many, for
\* options 1 (display), 2 (search), 3 (order) and 4 (pay).
ParamCount == <<3, 1, 3, 2>>
Listed(option) == Atoi[option] \in DOMAIN ParamCount

Form == [option : Strings, lines : Seq(Strings)]

\* What a datagram may be parsed into, whatever lines it has.
Numbers == {Atoi[s] : s \in Strings}
Parsable == [op : {"display"}, M : Numbers, X : Numbers, Z : Numbers]
            \cup [op : {"order"}, x : Strings, y : Strings, n : Numbers]
            \cup [op : {"pay"}, orderno : Numbers, amount : Numbers]
            \cup OtherRequest

ASSUME SystemAssumption ==
  /\ Blank \in Strings /\ Atoi \in [Strings -> Int] /\ Atoi[Blank] = 0
  /\ Forms \subseteq Form
  /\ \A f \in Forms : /\ Atoi[f.option] <= 4
                      /\ Listed(f.option) => Len(f.lines) = ParamCount[Atoi[f.option]]
  /\ Parsable \subseteq Requests
  /\ MaxAsked \in Nat /\ MaxDup \in Nat

VARIABLES menu,      \* each client: at its menu, in recvfrom, or quit
          params,    \* the lines in each client's params buffer
          asked,     \* how many requests each client has sent
          shown,     \* the answer each client displayed last
          toServer,  \* the datagrams under way to the server
          toClient,  \* the datagrams under way to the clients
          origin,    \* the datagram each child serves
          lost,      \* the requests that, or whose answers, were dropped
          dups       \* how many datagrams were delivered twice

users == <<menu, params, asked, shown>>
network == <<toServer, toClient, lost, dups>>
systemVars == <<vars, users, network, origin>>

Datagram == [from : Clients, id : 1..MaxAsked, lines : Seq(Strings)]
Answer == [to : Clients, id : 1..MaxAsked, what : Outcome \ {"none"}, by : Procs]
NoAnswer == [id |-> 0]
NoDatagram == [id |-> 0]

\* params is not initialised: any line may be in it when a client starts.
SystemInit ==
  /\ Init
  /\ menu = [c \in Clients |-> "menu"]
  /\ params \in [Clients -> {<<>>} \cup {<<s>> : s \in Strings}]
  /\ asked = [c \in Clients |-> 0]
  /\ shown = [c \in Clients |-> NoAnswer]
  /\ toServer = {} /\ toClient = {} /\ lost = {} /\ dups = 0
  /\ origin = [p \in Procs |-> NoDatagram]

-----------------------------------------------------------------------------
(* The client.                                                             *)

\* Options 1 to 4 prompt for their lines; every other option that gets this
\* far (0, or a mere newline) leaves in params what is there.
Filled(c, form) == IF Listed(form.option) THEN form.lines ELSE params[c]

\* Mutant (not the code): a client that times out and asks something else.
AskAgain(c, form) ==
  /\ menu[c] \in {"menu", "waiting"} /\ asked[c] < MaxAsked
  /\ params' = [params EXCEPT ![c] = Filled(c, form)]
  /\ asked' = [asked EXCEPT ![c] = @ + 1]
  /\ toServer' = toServer \cup {[from |-> c, id |-> asked'[c],
                                 lines |-> <<form.option>> \o params'[c]]}
  /\ menu' = [menu EXCEPT ![c] = "waiting"]
  /\ UNCHANGED <<vars, shown, toClient, lost, dups, origin>>

Ask(c, form) ==
  /\ menu[c] = "menu" /\ asked[c] < MaxAsked
  /\ params' = [params EXCEPT ![c] = Filled(c, form)]
  /\ asked' = [asked EXCEPT ![c] = @ + 1]
  /\ toServer' = toServer \cup {[from |-> c, id |-> asked'[c],
                                 lines |-> <<form.option>> \o params'[c]]}
  /\ menu' = [menu EXCEPT ![c] = "waiting"]
  /\ UNCHANGED <<vars, shown, toClient, lost, dups, origin>>

\* recvfrom returns whatever datagram has come, and the client shows it.
Display(c, m) ==
  /\ menu[c] = "waiting" /\ m.to = c
  /\ shown' = [shown EXCEPT ![c] = m]
  /\ menu' = [menu EXCEPT ![c] = "menu"]
  /\ \/ toClient' = toClient \ {m} /\ UNCHANGED dups
     \/ dups < MaxDup /\ dups' = dups + 1 /\ UNCHANGED toClient
  /\ UNCHANGED <<vars, params, asked, toServer, lost, origin>>

\* The user interrupts the client, the one way out of recvfrom; another client
\* has another port.
Quit(c) ==
  /\ menu[c] # "gone"
  /\ menu' = [menu EXCEPT ![c] = "gone"]
  /\ UNCHANGED <<vars, params, asked, shown, network, origin>>

-----------------------------------------------------------------------------
(* The server's loop and its children.                                     *)

\* strtok skips empty lines; a child that runs out of lines dies.
Tokens(lines) ==
  LET words == {i \in 1..Len(lines) : lines[i] # Blank}
  IN  [k \in 1..Cardinality(words) |-> lines[Nth(words, k)]]
Parse(lines) ==
  LET t == Tokens(lines)
      option == Atoi[t[1]]
  IN  IF t = <<>> \/ (Listed(t[1]) /\ Len(t) <= ParamCount[option])
      THEN [op |-> "short"]
      ELSE CASE option = 1 -> [op |-> "display", M |-> Atoi[t[2]],
                               X |-> Atoi[t[3]], Z |-> Atoi[t[4]]]
             [] option = 3 -> [op |-> "order", x |-> t[2], y |-> t[3], n |-> Atoi[t[4]]]
             [] option = 4 -> [op |-> "pay", orderno |-> Atoi[t[2]], amount |-> Atoi[t[3]]]
             [] OTHER -> [op |-> "browse"]

Receive(d, p) ==
  /\ Fork(p, Parse(d.lines))
  /\ origin' = [origin EXCEPT ![p] = d]
  /\ \/ toServer' = toServer \ {d} /\ UNCHANGED dups
     \/ dups < MaxDup /\ dups' = dups + 1 /\ UNCHANGED toServer
  /\ UNCHANGED <<users, toClient, lost>>

\* fork fails: the datagram has been taken from the socket and is gone.
Drop(d) ==
  /\ ForkFails
  /\ toServer' = toServer \ {d}
  /\ lost' = lost \cup {<<d.from, d.id>>}
  /\ UNCHANGED <<users, toClient, dups, origin>>

Work(p) ==
  /\ \/ DisplayCatalog(p) \/ Browse(p) \/ ShortRequest(p) \/ OpenFails(p)
     \/ OrderBook(p) \/ PayForBook(p)
  /\ UNCHANGED <<users, network, origin>>

\* Mutant (not the code): the child of an order or a payment only logs.
SendBrowsed(p) ==
  /\ Reply(p)
  /\ toClient' = IF req[p].op = "browse"
                 THEN toClient \cup {[to |-> origin[p].from, id |-> origin[p].id,
                                      what |-> outcome[p], by |-> p]}
                 ELSE toClient
  /\ UNCHANGED <<users, toServer, lost, dups, origin>>

Send(p) ==
  /\ Reply(p)
  /\ toClient' = toClient \cup {[to |-> origin[p].from, id |-> origin[p].id,
                                 what |-> outcome[p], by |-> p]}
  /\ UNCHANGED <<users, toServer, lost, dups, origin>>

Restart == Interrupt /\ UNCHANGED <<users, network, origin>>

-----------------------------------------------------------------------------
(* The network.                                                            *)

LoseRequest(d) ==
  /\ toServer' = toServer \ {d}
  /\ lost' = lost \cup {<<d.from, d.id>>}
  /\ UNCHANGED <<vars, users, toClient, dups, origin>>

LoseAnswer(m) ==
  /\ toClient' = toClient \ {m}
  /\ lost' = lost \cup {<<m.to, m.id>>}
  /\ UNCHANGED <<vars, users, toServer, dups, origin>>

Client(c) ==
  \/ \E form \in Forms : Ask(c, form)
  \/ \E m \in toClient : Display(c, m)
Serve == \E d \in toServer : (\E p \in Procs : Receive(d, p)) \/ Drop(d)
Losses ==
  \/ \E d \in toServer : LoseRequest(d)
  \/ \E m \in toClient : LoseAnswer(m)

SystemNext ==
  \/ \E c \in Clients : Client(c) \/ Quit(c)
  \/ Serve
  \/ \E p \in Procs : Work(p) \/ Send(p)
  \/ Losses
  \/ Restart

SystemSpec == SystemInit /\ [][SystemNext]_systemVars

\* The server's loop and its children run, and a datagram that is not lost
\* arrives; nothing makes a user type.
FairSystemSpec ==
  /\ SystemSpec
  /\ WF_systemVars(Serve)
  /\ \A p \in Procs : WF_systemVars(Work(p) \/ Send(p))
  /\ \A c \in Clients : WF_systemVars(\E m \in toClient : Display(c, m))

-----------------------------------------------------------------------------
(* Properties.                                                             *)

\* Every variable of the clients and the network has its type; in particular
\* every answer under way says something.
SystemTypeOK ==
  /\ menu \in [Clients -> {"menu", "waiting", "gone"}]
  /\ params \in [Clients -> Seq(Strings)]
  /\ asked \in [Clients -> 0..MaxAsked]
  /\ shown \in [Clients -> Answer \cup {NoAnswer}]
  /\ toServer \subseteq Datagram
  /\ toClient \subseteq Answer
  /\ lost \subseteq Clients \X (1..MaxAsked)
  /\ dups \in 0..MaxDup
  /\ origin \in [Procs -> Datagram \cup {NoDatagram}]

\* Answers carry nothing that ties them to a request, and datagrams overtake
\* each other and are lost, yet as long as none arrives twice what a client
\* displays answers the request it sent last.
AnswersOwnRequest ==
  dups = 0 => \A c \in Clients :
                 menu[c] = "menu" /\ asked[c] > 0 => shown[c].id = asked[c]

\* A single client makes the server take one request at a time, as in SerialSpec,
\* as long as no datagram arrives twice: no request starts while an earlier one
\* is at the files.
ServesOneByOne == Init /\ [][dups' = 0 => SerialNext \/ Interrupt]_vars

\* For a single client an order number therefore names one open order, even if
\* the server was stopped in the middle of any request.
NumbersStayClear == dups = 0 => OpenNumbersAscend

\* What "Checking if valid option" (client.c:85) promises of the option that
\* is sent: an order or a payment is carried out only for a user who chose
\* option 3 or option 4.
OnlyWhatTheUserChose ==
  \A p \in Procs :
     /\ outcome[p] = "ordered" => Atoi[origin[p].lines[1]] = 3
     /\ outcome[p] = "paid" => Atoi[origin[p].lines[1]] = 4

\* The request that client c waits for will never be answered: it or its
\* answer was dropped, or its child is dead.
Hopeless(c) ==
  \/ <<c, asked[c]>> \in lost
  \/ \E p \in Procs : /\ pc[p] = "dead"
                      /\ origin[p].id = asked[c] /\ origin[p].from = c

\* A client that waits gets an answer unless a datagram was dropped or the
\* child died: nothing else can leave it in recvfrom for ever.
EveryRequestSettles ==
  \A c \in Clients : menu[c] = "waiting" ~> (menu[c] # "waiting" \/ Hopeless(c))
=============================================================================
